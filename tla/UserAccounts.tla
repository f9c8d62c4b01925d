---------------------------- MODULE UserAccounts ----------------------------
(***************************************************************************)
(* Accounts of users with a password: registration links, password         *)
(* sign-in and its lock, the password change, sessions, routing ids and    *)
(* what an administrator does to an account.  Requests hash or verify a    *)
(* password between what they read and the transaction that writes, so     *)
(* everything they read may be old by then.                                *)
(***************************************************************************)
EXTENDS Naturals, FiniteSets

CONSTANTS Users,          \* rows of users, by username
          Invitations,    \* rows of registration_invitations
          Tokens,         \* session tokens
          Ids,            \* routing ids
          Handlers,       \* requests under way
          None,
          LockLimit,      \* failed attempts that lock (5)
          MaxPassword     \* bound: password changes of a user

VARIABLES users, invitations, sessions, routing, req

uvars == <<users, invitations, sessions, routing, req>>

Account == [state : {"active", "disabled", "deleted"}, hash : 0..MaxPassword,
            failed : 0..LockLimit, lock : {"none", "held", "over"},
            from : Invitations \cup {None}]
Session == [user : Users, hash : 0..MaxPassword, by : {"login", "registration"}]
NoReq == [pc |-> "idle", user |-> None, arg |-> None]

ASSUME UsersAssumption ==
    /\ LockLimit \in Nat \ {0, 1} /\ MaxPassword \in Nat
    /\ None \notin Invitations /\ None \notin Account

AccountsTypeOK ==
    /\ users \in [Users -> Account \cup {None}]
    /\ invitations \in [Invitations -> {"none", "pending", "accepted", "revoked", "expired"}]
    /\ sessions \in [Tokens -> Session \cup {None}]
    /\ routing \in [Ids -> [user : Users, active : BOOLEAN] \cup {None}]
    /\ \A i \in Handlers :
          /\ req[i].pc \in {"idle", "register", "create", "sign", "insert", "verify", "change"}
          /\ req[i].user \in Users \cup {None}

AccountsInit ==
    /\ users = [u \in Users |-> None]
    /\ invitations = [v \in Invitations |-> "none"]
    /\ sessions = [t \in Tokens |-> None]
    /\ routing = [r \in Ids |-> None]
    /\ req = [i \in Handlers |-> NoReq]

Active(u) == users[u] # None /\ users[u].state = "active"
Living(u) == users[u] # None /\ users[u].state # "deleted"
Enter(i, pc, u, x) == req[i] = NoReq /\ req' = [req EXCEPT ![i] = [pc |-> pc, user |-> u, arg |-> x]]
Move(i, pc) == req' = [req EXCEPT ![i].pc = pc]
Leave(i) == req' = [req EXCEPT ![i] = NoReq]
WithoutSessionsOf(u) == [t \in Tokens |-> IF sessions[t] # None /\ sessions[t].user = u
                                          THEN None ELSE sessions[t]]

-----------------------------------------------------------------------------
(* Invitations *)

Invite(v) ==
    /\ invitations[v] = "none"
    /\ invitations' = [invitations EXCEPT ![v] = "pending"]
    /\ UNCHANGED <<users, sessions, routing, req>>

(* The status column of an expired invitation still says pending. *)
RevokeInvitation(v) ==
    /\ invitations[v] \in {"pending", "expired"}
    /\ invitations' = [invitations EXCEPT ![v] = "revoked"]
    /\ UNCHANGED <<users, sessions, routing, req>>

InvitationExpires(v) ==
    /\ invitations[v] = "pending"
    /\ invitations' = [invitations EXCEPT ![v] = "expired"]
    /\ UNCHANGED <<users, sessions, routing, req>>

-----------------------------------------------------------------------------
(* Creating an account *)

(* register, unless registration is disabled: the password is hashed. *)
Register(i, u, v) ==
    /\ Enter(i, "register", u, v)
    /\ UNCHANGED <<users, invitations, sessions, routing>>

(* create, for an administrator: without an invitation. *)
CreateUser(i, u) ==
    /\ Enter(i, "create", u, None)
    /\ UNCHANGED <<users, invitations, sessions, routing>>

(* insert_unique_routing_id: a number that was never used, whichever it is.*)
NewRouting(table, u) ==
    /\ \E r \in Ids : routing[r] = None
    /\ routing' = [table EXCEPT ![CHOOSE r \in Ids : routing[r] = None] =
                       [user |-> u, active |-> TRUE]]

\* Mutant: the claim does not ask for a pending invitation.
ClaimedAny(v) == v # None

(* The claim of the invitation, the first statement of the transaction. *)
Claimed(v) == v # None /\ invitations[v] = "pending"

(* create_local_user: a username that is taken, like an invitation that    *)
(* cannot be claimed, rolls the transaction back.                          *)
CreateLocalUser(i) ==
    LET u == req[i].user
        v == req[i].arg
    IN  /\ req[i].pc \in {"register", "create"}
        /\ IF (req[i].pc = "create" \/ Claimed(v)) /\ users[u] = None
           THEN /\ users' = [users EXCEPT ![u] =
                       [state |-> "active", hash |-> 0, failed |-> 0, lock |-> "none", from |-> v]]
                /\ invitations' = IF v = None THEN invitations
                                  ELSE [invitations EXCEPT ![v] = "accepted"]
                /\ NewRouting(routing, u)
                /\ IF v = None THEN Leave(i) ELSE Move(i, "sign")
           ELSE /\ Leave(i)
                /\ UNCHANGED <<users, invitations, routing>>
        /\ UNCHANGED <<sessions>>

(* create_user_session after a registration: the account is read, and the  *)
(* session inserted in a statement of its own.                             *)
ReadAccount(i) ==
    /\ req[i].pc = "sign"
    /\ IF Active(req[i].user) THEN Move(i, "insert") ELSE Leave(i)
    /\ UNCHANGED <<users, invitations, sessions, routing>>

InsertSession(i, t) ==
    /\ req[i].pc = "insert"
    /\ sessions[t] = None
    /\ sessions' = [sessions EXCEPT ![t] = [user |-> req[i].user, by |-> "registration",
                                            hash |-> users[req[i].user].hash]]
    /\ Leave(i)
    /\ UNCHANGED <<users, invitations, routing>>

-----------------------------------------------------------------------------
(* Signing in *)

(* authenticate_local_user reads the hash and the lock; the password is    *)
(* verified against what it read.  A lock refuses.                         *)
LoginRead(i, u, good) ==
    /\ Active(u) /\ users[u].lock # "held"
    /\ Enter(i, "verify", u, [hash |-> users[u].hash, good |-> good])
    /\ UNCHANGED <<users, invitations, sessions, routing>>

Unchanged(i) == users[req[i].user].hash = req[i].arg.hash
Unlocked(i) == users[req[i].user].lock # "held"

\* Mutant: the lock comes one failure late.
LoginFailsLate(i) ==
    LET a == users[req[i].user]
    IN  /\ req[i].pc = "verify" /\ ~req[i].arg.good
        /\ users' = IF ~Unchanged(i) \/ ~Unlocked(i) \/ a.failed = LockLimit THEN users
                    ELSE [users EXCEPT ![req[i].user].failed =
                              IF a.lock = "over" THEN 1 ELSE a.failed + 1]
        /\ Leave(i)
        /\ UNCHANGED <<invitations, sessions, routing>>

(* One UPDATE counts the failure in the row as it is now, if the password  *)
(* is still the one that was read and the account is not locked.           *)
LoginFails(i) ==
    LET a == users[req[i].user]
    IN  /\ req[i].pc = "verify" /\ ~req[i].arg.good
        /\ users' = IF ~Unchanged(i) \/ ~Unlocked(i) THEN users
                    ELSE [users EXCEPT ![req[i].user].failed =
                              IF a.lock = "over" THEN 1 ELSE a.failed + 1,
                          ![req[i].user].lock =
                              IF a.lock # "over" /\ a.failed + 1 >= LockLimit
                              THEN "held" ELSE "none"]
        /\ Leave(i)
        /\ UNCHANGED <<invitations, sessions, routing>>

\* Mutant: the success does not ask for the hash that was verified.
GrantedBlindly(i) == Unlocked(i) /\ Active(req[i].user)

Granted(i) == Unchanged(i) /\ Unlocked(i) /\ Active(req[i].user)

(* The transaction of a success: reset the count, insert the session. *)
LoginSucceeds(i, t) ==
    LET u == req[i].user
    IN  /\ req[i].pc = "verify" /\ req[i].arg.good
        /\ IF Granted(i)
           THEN /\ sessions[t] = None
                /\ users' = [users EXCEPT ![u].failed = 0, ![u].lock = "none"]
                /\ sessions' = [sessions EXCEPT ![t] =
                       [user |-> u, by |-> "login", hash |-> req[i].arg.hash]]
           ELSE UNCHANGED <<users, sessions>>
        /\ Leave(i)
        /\ UNCHANGED <<invitations, routing>>

LockExpires(u) ==
    /\ users[u] # None /\ users[u].lock = "held"
    /\ users' = [users EXCEPT ![u].lock = "over"]
    /\ UNCHANGED <<invitations, sessions, routing, req>>

(* A query fails or the client goes away while the request waits. *)
EndsEarly(i) ==
    /\ req[i] # NoReq
    /\ Leave(i)
    /\ UNCHANGED <<users, invitations, sessions, routing>>

-----------------------------------------------------------------------------
(* Requests with a session *)

Usable(t) == sessions[t] # None /\ Active(sessions[t].user)

(* change_password: the session and the hash are read, the current         *)
(* password verified and the new one hashed.                               *)
ChangeRead(i, t) ==
    /\ Usable(t)
    /\ LET u == sessions[t].user
       IN  /\ users[u].hash < MaxPassword
           /\ Enter(i, "change", u, [hash |-> users[u].hash, good |-> TRUE])
    /\ UNCHANGED <<users, invitations, sessions, routing>>

(* change_local_password: nothing happens if the hash is another by now. *)
ChangePassword(i) ==
    LET u == req[i].user
    IN  /\ req[i].pc = "change"
        /\ IF Unchanged(i)
           THEN /\ users' = [users EXCEPT ![u].hash = @ + 1, ![u].failed = 0, ![u].lock = "none"]
                /\ sessions' = WithoutSessionsOf(u)
           ELSE UNCHANGED <<users, sessions>>
        /\ Leave(i)
        /\ UNCHANGED <<invitations, routing>>

(* user_logout, or the session expires. *)
Logout(t) ==
    /\ sessions[t] # None
    /\ sessions' = [sessions EXCEPT ![t] = None]
    /\ UNCHANGED <<users, invitations, routing, req>>

Retired(u) == [r \in Ids |-> IF routing[r] # None /\ routing[r].user = u
                             THEN [routing[r] EXCEPT !.active = FALSE] ELSE routing[r]]

(* rotate_user_routing_id; its cooldown only delays the user's own calls. *)
Rotate(u) ==
    /\ Living(u)
    /\ NewRouting(Retired(u), u)
    /\ UNCHANGED <<users, invitations, sessions, req>>

-----------------------------------------------------------------------------
(* The administrator *)

SetDisabled(u, disabled) ==
    /\ Living(u)
    /\ users' = [users EXCEPT ![u].state = IF disabled THEN "disabled" ELSE "active"]
    /\ sessions' = IF disabled THEN WithoutSessionsOf(u) ELSE sessions
    /\ UNCHANGED <<invitations, routing, req>>

(* soft_delete_user: the row and its username stay. *)
SoftDelete(u) ==
    /\ Living(u)
    /\ users' = [users EXCEPT ![u].state = "deleted"]
    /\ sessions' = WithoutSessionsOf(u)
    /\ routing' = Retired(u)
    /\ UNCHANGED <<invitations, req>>

AccountsNext ==
    \/ \E v \in Invitations : Invite(v) \/ RevokeInvitation(v) \/ InvitationExpires(v)
    \/ \E u \in Users :
          \/ LockExpires(u) \/ Rotate(u) \/ SoftDelete(u)
          \/ \E d \in BOOLEAN : SetDisabled(u, d)
    \/ \E t \in Tokens : Logout(t)
    \/ \E i \in Handlers :
          \/ CreateLocalUser(i) \/ ReadAccount(i)
          \/ LoginFails(i) \/ ChangePassword(i) \/ EndsEarly(i)
          \/ \E u \in Users :
                \/ CreateUser(i, u)
                \/ \E v \in Invitations : Register(i, u, v)
                \/ \E good \in BOOLEAN : LoginRead(i, u, good)
          \/ \E t \in Tokens : InsertSession(i, t) \/ LoginSucceeds(i, t) \/ ChangeRead(i, t)

AccountsSpec == AccountsInit /\ [][AccountsNext]_uvars

-----------------------------------------------------------------------------
(* Properties *)

(* An invitation is accepted exactly when one account, and one only, was   *)
(* made with it: of competing registrations one gets it, one that meets a  *)
(* taken username gives it back, and a deleted account does not free it.   *)
InvitationMakesOneAccount ==
    \A v \in Invitations :
        Cardinality({u \in Users : users[u] # None /\ users[u].from = v})
            = IF invitations[v] = "accepted" THEN 1 ELSE 0

(* A session opened with a password is one of the password in force and of *)
(* an account that is active, though the password was verified before a    *)
(* change of it, a lock, or the end of the account.                        *)
LoginSessionsCurrent ==
    \A t \in Tokens :
        (sessions[t] # None /\ sessions[t].by = "login") =>
            LET a == users[sessions[t].user]
            IN  a.state = "active" /\ a.hash = sessions[t].hash

(* The account is locked exactly while its count is at the limit, whatever *)
(* attempts ran in parallel.                                               *)
LockAtLimit ==
    \A u \in Users : users[u] # None =>
        (users[u].failed = LockLimit <=> users[u].lock # "none")
=============================================================================
