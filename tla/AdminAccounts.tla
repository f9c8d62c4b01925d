--------------------------- MODULE AdminAccounts ---------------------------
(***************************************************************************)
(* The administrator of the console: password and passkey sign-in, the     *)
(* lock after failed attempts, sessions, passkeys and their challenges,    *)
(* the rename and the password change, composed with the configuration     *)
(* that holds the passkey policy and the break-glass name.  A request      *)
(* authenticates, reads and then writes in transactions of their own; the  *)
(* database enforces the foreign keys from sessions, passkeys and          *)
(* challenges to the name of the administrator.                            *)
(* A server has one administrator: nothing but a test creates a second.    *)
(***************************************************************************)
EXTENDS RuntimeConfig, FiniteSets, Naturals

CONSTANTS Tokens,        \* session tokens
          Keys,          \* authenticators, by credential id
          Challenges,    \* challenge ids of the database
          None,
          FailureLimit   \* ADMIN_LOGIN_FAILURE_LIMIT

VARIABLES admin,         \* admin_users: name, failed_login_count, locked_until
          sessions,      \* admin_sessions, token to name
          passkeys,      \* admin_passkeys, credential to name
          challenges,    \* admin_webauthn_challenges
          op             \* the account request of each handler

accounts == <<admin, sessions, passkeys, challenges, op>>
avars == <<cvars, accounts>>

NoOp == [pc |-> "idle", name |-> None, tok |-> None, arg |-> None]

ASSUME AccountsAssumption == FailureLimit \in Nat \ {0} /\ None \notin Names

Owned(table, n) == {x \in DOMAIN table : table[x] = n}
Without(table, n) == [x \in DOMAIN table |-> IF table[x] = n THEN None ELSE table[x]]
ChallengesOf(n) == {c \in Challenges : challenges[c] # None /\ challenges[c].name = n}

AdminTypeOK ==
    /\ ConfigTypeOK
    /\ admin \in [name : Names, failed : 0..FailureLimit, lock : {"none", "held", "over"}]
    /\ sessions \in [Tokens -> Names \cup {None}]
    /\ passkeys \in [Keys -> Names \cup {None}]
    /\ challenges \in [Challenges ->
          [kind : {"registration", "authentication"}, name : Names, tok : Tokens \cup {None}]
          \cup {None}]

AdminInit ==
    /\ ConfigInit
    /\ admin = [name |-> memory.glass, failed |-> 0, lock |-> "none"]
    /\ sessions = [t \in Tokens |-> None]
    /\ passkeys = [k \in Keys |-> None]
    /\ challenges = [c \in Challenges |-> None]
    /\ op = [i \in Handlers |-> NoOp]

Free(i) == up /\ op[i] = NoOp /\ h[i] = Idle
Enter(i, pc, n, t, x) == op' = [op EXCEPT ![i] = [pc |-> pc, name |-> n, tok |-> t, arg |-> x]]
Advance(i, pc, x) == op' = [op EXCEPT ![i].pc = pc, ![i].arg = x]
Leave(i) == op' = [op EXCEPT ![i] = NoOp]

-----------------------------------------------------------------------------
(* Password sign-in *)

(* admin_login_response and login_with_context up to the verification of   *)
(* the password: an unknown name and a lock refuse.  The limiter in front  *)
(* of it only refuses attempts; here any may pass it.                      *)
LoginRead(i, good) ==
    /\ Free(i)
    /\ admin.lock # "held"
    /\ IF good THEN Enter(i, "password", admin.name, None, None)
               ELSE Enter(i, "mistake", admin.name, None, admin)
    /\ UNCHANGED <<cvars, admin, sessions, passkeys, challenges>>

(* The count a failed attempt writes, from what it read. *)
FailuresAfter(was) == IF was.lock # "none" THEN 1 ELSE was.failed + 1

\* Mutant: the lock is set by the attempt after the limit.
LoginFailsLate(i) ==
    LET failures == FailuresAfter(op[i].arg)
    IN  /\ op[i].pc = "mistake"
        /\ admin' = IF admin.name # op[i].name THEN admin
                    ELSE [admin EXCEPT !.failed = failures,
                              !.lock = IF failures > FailureLimit THEN "held" ELSE "none"]
        /\ Leave(i)
        /\ UNCHANGED <<cvars, sessions, passkeys, challenges>>

LoginFails(i) ==
    LET failures == FailuresAfter(op[i].arg)
    IN  /\ op[i].pc = "mistake"
        /\ admin' = IF admin.name # op[i].name THEN admin
                    ELSE [admin EXCEPT !.failed = failures,
                              !.lock = IF failures >= FailureLimit THEN "held" ELSE "none"]
        /\ Leave(i)
        /\ UNCHANGED <<cvars, sessions, passkeys, challenges>>

\* Mutant: foreign keys are not enforced.
InsertSessionUnchecked(i, t) == sessions[t] = None /\ sessions' = [sessions EXCEPT ![t] = op[i].name]

(* The session is inserted only for a name that is still there. *)
InsertSession(i, t) ==
    /\ op[i].name = admin.name
    /\ sessions[t] = None
    /\ sessions' = [sessions EXCEPT ![t] = op[i].name]

LoginSucceeds(i) ==
    /\ op[i].pc = "password"
    /\ \E t \in Tokens :
          /\ InsertSession(i, t)
          /\ Advance(i, "granted", t)
    /\ admin' = IF admin.name = op[i].name
                THEN [admin EXCEPT !.failed = 0, !.lock = "none"] ELSE admin
    /\ UNCHANGED <<cvars, passkeys, challenges>>

PasskeyRequired(n) == memory.passkeys = "required" /\ n # memory.glass

(* The policy is read after the session was created: the session goes      *)
(* again.                                                                  *)
LoginPolicy(i) ==
    /\ op[i].pc = "granted"
    /\ IF PasskeyRequired(op[i].name)
       THEN sessions' = [sessions EXCEPT ![op[i].arg] = None]
       ELSE UNCHANGED sessions
    /\ Leave(i)
    /\ UNCHANGED <<cvars, admin, passkeys, challenges>>

(* logout, revoke_admin_session, or the expiry that authenticate_session   *)
(* removes.                                                                *)
Logout(t) ==
    /\ sessions[t] # None
    /\ sessions' = [sessions EXCEPT ![t] = None]
    /\ UNCHANGED <<cvars, admin, passkeys, challenges, op>>

LockExpires ==
    /\ admin.lock = "held"
    /\ admin' = [admin EXCEPT !.lock = "over"]
    /\ UNCHANGED <<cvars, sessions, passkeys, challenges, op>>

-----------------------------------------------------------------------------
(* Requests of a signed-in administrator *)

(* A request ends early: it is refused (a wrong password, an invalid name, *)
(* an unknown challenge, no verifier), a query fails, or the client is     *)
(* gone at an await.                                                       *)
EndsEarly(i) ==
    /\ op[i] # NoOp
    /\ Leave(i)
    /\ UNCHANGED <<cvars, admin, sessions, passkeys, challenges>>

(* authenticate_session, and for the two changes of the account the read   *)
(* and the verification of the current password.                           *)
Authenticate(i, t, pc) ==
    /\ Free(i)
    /\ sessions[t] # None
    /\ Enter(i, pc, sessions[t], t, None)
    /\ UNCHANGED <<cvars, admin, sessions, passkeys, challenges>>

(* change_admin_password: every session of the name goes. *)
ChangePassword(i) ==
    /\ op[i].pc = "change"
    /\ sessions' = Without(sessions, op[i].name)
    /\ Leave(i)
    /\ UNCHANGED <<cvars, admin, passkeys, challenges>>

(* change_admin_username: one transaction removes what names the old name, *)
(* renames the administrator if it still has it, and edits the break-glass *)
(* name of the stored document; then memory follows.                       *)
Rename(i, to) ==
    LET from == op[i].name
    IN  /\ op[i].pc = "rename"
        /\ to # from /\ to # admin.name
        /\ sessions' = Without(sessions, from)
        /\ passkeys' = Without(passkeys, from)
        /\ challenges' = [c \in Challenges |->
                             IF c \in ChallengesOf(from) THEN None ELSE challenges[c]]
        /\ admin' = IF admin.name = from THEN [admin EXCEPT !.name = to] ELSE admin
        /\ SaveGlass(i, from, to)
        /\ Leave(i)

(* `admin reset-password` of the command line. *)
ResetPassword ==
    /\ admin' = [admin EXCEPT !.failed = 0, !.lock = "none"]
    /\ sessions' = Without(sessions, admin.name)
    /\ UNCHANGED <<cvars, passkeys, challenges, op>>

-----------------------------------------------------------------------------
(* Passkeys *)

(* store_webauthn_challenge: expired challenges go first, the foreign key  *)
(* is checked.                                                             *)
StoreChallenge(kind, n, t) ==
    /\ n = admin.name
    /\ \E c \in Challenges :
          /\ challenges[c] = None
          /\ challenges' = [challenges EXCEPT ![c] = [kind |-> kind, name |-> n, tok |-> t]]

ChallengeExpires(c) ==
    /\ challenges[c] # None
    /\ challenges' = [challenges EXCEPT ![c] = None]
    /\ UNCHANGED <<cvars, admin, sessions, passkeys, op>>

StartRegistration(i) ==
    /\ op[i].pc = "register"
    /\ webauthn # "off"
    /\ StoreChallenge("registration", op[i].name, op[i].tok)
    /\ Leave(i)
    /\ UNCHANGED <<cvars, admin, sessions, passkeys>>

(* take_webauthn_challenge removes the challenge even if its session is    *)
(* another one; finish_passkey_registration may refuse the credential.     *)
FinishRegistration(i, c) ==
    LET ch == challenges[c]
    IN  /\ op[i].pc = "finish"
        /\ ch # None
        /\ challenges' = [challenges EXCEPT ![c] = None]
        /\ IF /\ ch.kind = "registration" /\ ch.tok = op[i].tok
              /\ ch.name = op[i].name /\ webauthn # "off"
           THEN Advance(i, "add", None) ELSE Leave(i)
        /\ UNCHANGED <<cvars, admin, sessions, passkeys>>

(* INSERT OR IGNORE: a credential registered already stays as it is. *)
AddPasskey(i, k) ==
    /\ op[i].pc = "add"
    /\ passkeys' = [passkeys EXCEPT ![k] =
                       IF @ = None /\ op[i].name = admin.name THEN op[i].name ELSE @]
    /\ Leave(i)
    /\ UNCHANGED <<cvars, admin, sessions, challenges>>

(* delete_admin_passkey: the policy and the count are read first. *)
DeleteCheck(i) ==
    /\ op[i].pc = "delete"
    /\ IF PasskeyRequired(op[i].name) /\ Cardinality(Owned(passkeys, op[i].name)) <= 2
       THEN Leave(i) ELSE Advance(i, "drop", None)
    /\ UNCHANGED <<cvars, admin, sessions, passkeys, challenges>>

DeletePasskey(i, k) ==
    /\ op[i].pc = "drop"
    /\ passkeys' = [passkeys EXCEPT ![k] = IF @ = op[i].name THEN None ELSE @]
    /\ Leave(i)
    /\ UNCHANGED <<cvars, admin, sessions, challenges>>

(* start_admin_passkey_login with a name.  Without one the challenge is    *)
(* kept in memory, and may be finished with at any time.                   *)
StartPasskeyLogin(n) ==
    /\ up /\ webauthn # "off"
    /\ Owned(passkeys, n) # {}
    /\ StoreChallenge("authentication", n, None)
    /\ UNCHANGED <<cvars, admin, sessions, passkeys, op>>

(* The challenge is taken, the credential k verified against the keys the  *)
(* challenge was made for, its counter updated if the key is still there.  *)
FinishPasskeyLogin(i, k) ==
    /\ Free(i) /\ webauthn # "off"
    /\ passkeys[k] # None
    /\ \/ \E c \in ChallengesOf(passkeys[k]) :
             /\ challenges[c].kind = "authentication"
             /\ challenges' = [challenges EXCEPT ![c] = None]
       \/ UNCHANGED challenges       \* a discoverable challenge
    /\ Enter(i, "passkey", passkeys[k], None, k)
    /\ UNCHANGED <<cvars, admin, sessions, passkeys>>

(* update_admin_passkey_after_authentication and create_passkey_session. *)
PasskeySession(i) ==
    /\ op[i].pc = "passkey"
    /\ passkeys[op[i].arg] = op[i].name
    /\ \E t \in Tokens : InsertSession(i, t)
    /\ Leave(i)
    /\ UNCHANGED <<cvars, admin, passkeys, challenges>>

-----------------------------------------------------------------------------
(* The configuration, with what its requests read of the accounts *)

(* admins_without_minimum_passkeys. *)
PasskeysReady(glass) ==
    admin.name = glass \/ Cardinality(Owned(passkeys, admin.name)) >= 2

ConfigRequest(i) ==
    /\ \/ /\ op[i] = NoOp
          /\ \E t \in Tokens : sessions[t] # None
          /\ \/ \E form \in Forms : UpdateConfig(i, form)
             \/ \E s \in Secrets \cup {Blank} : UpdateAcme(i, s)
       \/ /\ h[i].pc = "checking"
          /\ UpdateReady(i, PasskeysReady(h[i].edit.doc.glass))
       \/ ConfigStep(i)
    /\ UNCHANGED accounts

(* What only memory holds goes with the process. *)
AdminRestart ==
    /\ Restart
    /\ op' = [i \in Handlers |-> NoOp]
    /\ UNCHANGED <<admin, sessions, passkeys, challenges>>

Requests == {"change", "rename", "register", "finish", "delete"}

AdminNext ==
    \/ AdminRestart
    \/ EditFile /\ UNCHANGED accounts
    \/ ResetPassword \/ LockExpires
    \/ \E t \in Tokens : Logout(t)
    \/ \E n \in Names : StartPasskeyLogin(n)
    \/ \E c \in Challenges : ChallengeExpires(c)
    \/ \E i \in Handlers :
          \/ ConfigRequest(i)
          \/ \E good \in BOOLEAN : LoginRead(i, good)
          \/ LoginFails(i) \/ LoginSucceeds(i) \/ LoginPolicy(i)
          \/ \E t \in Tokens, pc \in Requests : Authenticate(i, t, pc)
          \/ ChangePassword(i)
          \/ \E to \in Names : Rename(i, to)
          \/ EndsEarly(i) \/ StartRegistration(i)
          \/ \E c \in Challenges : FinishRegistration(i, c)
          \/ \E k \in Keys : AddPasskey(i, k) \/ DeletePasskey(i, k) \/ FinishPasskeyLogin(i, k)
          \/ DeleteCheck(i) \/ PasskeySession(i)

AdminSpec == AdminInit /\ [][AdminNext]_avars

-----------------------------------------------------------------------------
(* Properties *)

(* Every session, passkey and challenge names the administrator there is,  *)
(* though requests that read the old name finish after a rename.           *)
CredentialsBelongToAdmin ==
    /\ \A t \in Tokens : sessions[t] \in {admin.name, None}
    /\ \A k \in Keys : passkeys[k] \in {admin.name, None}
    /\ \A c \in Challenges : challenges[c] # None => challenges[c].name = admin.name

(* The lock is set exactly while the failure count is at its limit, and    *)
(* the count never passes it, though attempts write counts computed from   *)
(* what they read before another attempt, a sign-in or a reset.            *)
LockedIffLimit == (admin.failed = FailureLimit) <=> (admin.lock # "none")
=============================================================================
