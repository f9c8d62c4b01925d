--------------------------- MODULE AccountsProofs ---------------------------
(***************************************************************************)
(* TLAPS proofs about UserAccounts and ExternalSignIn, for any number of   *)
(* overlapping requests, users, invitations, tokens, flows, providers and  *)
(* subjects, and any limit of failed attempts above one.                   *)
(***************************************************************************)
EXTENDS UserAccounts, ExternalSignIn, FiniteSetTheorems, TLAPS

-----------------------------------------------------------------------------
(* Accounts with a password.                                                *)

ReqRec == [pc : {"idle", "register", "create", "sign", "insert", "verify", "change"},
           user : Users \cup {None},
           arg : Invitations \cup {None} \cup [hash : 0..MaxPassword, good : BOOLEAN]]

(* What a request has read, and that the account it works on is there. *)
ReqOK(e) ==
    /\ e.pc # "idle" => e.user \in Users
    /\ e.pc = "register" => e.arg \in Invitations
    /\ e.pc = "create" => e.arg = None
    /\ e.pc \in {"verify", "change"} => e.arg \in [hash : 0..MaxPassword, good : BOOLEAN]
    /\ e.pc = "change" => e.arg.hash < MaxPassword
    /\ e.pc \in {"sign", "insert", "verify", "change"} => users[e.user] # None

ReqsOK == req \in [Handlers -> ReqRec] /\ \A i \in Handlers : ReqOK(req[i])

UsersOK == users \in [Users -> Account \cup {None}]
SessionsOK == sessions \in [Tokens -> Session \cup {None}]
RoutingOK == routing \in [Ids -> [user : Users, active : BOOLEAN] \cup {None}]

Made(v) == {u \in Users : users[u] # None /\ users[u].from = v}

(* InvitationMakesOneAccount as an equality of sets. *)
OneEach ==
    /\ invitations \in [Invitations -> {"none", "pending", "accepted", "revoked", "expired"}]
    /\ \A v \in Invitations :
          /\ invitations[v] = "accepted" => \E u \in Users : Made(v) = {u}
          /\ invitations[v] # "accepted" => Made(v) = {}

(* LoginSessionsCurrent, and the account of such a session is there. *)
LoginsHold ==
    \A t \in Tokens :
        (sessions[t] # None /\ sessions[t].by = "login") =>
            /\ users[sessions[t].user] # None
            /\ users[sessions[t].user].state = "active"
            /\ users[sessions[t].user].hash = sessions[t].hash

UserInv ==
    /\ UsersOK /\ SessionsOK /\ RoutingOK
    /\ ReqsOK /\ OneEach /\ LoginsHold /\ LockAtLimit

LEMMA UserInit == AccountsInit => UserInv
  <1> SUFFICES ASSUME AccountsInit PROVE UserInv
    OBVIOUS
  <1>1. UsersOK /\ SessionsOK /\ RoutingOK /\ LoginsHold /\ LockAtLimit
    BY DEF AccountsInit, UsersOK, SessionsOK, RoutingOK, LoginsHold, LockAtLimit
  <1>2. ReqsOK
    BY DEF AccountsInit, ReqsOK, ReqRec, ReqOK, NoReq
  <1>3. OneEach
    BY DEF AccountsInit, OneEach, Made
  <1> QED
    BY <1>1, <1>2, <1>3 DEF UserInv

\* A step of one request keeps the requests well formed when accounts stay.
LEMMA OneReq ==
    ASSUME UserInv, NEW i \in Handlers, NEW e \in ReqRec, ReqOK(e)',
           req' = [req EXCEPT ![i] = e],
           \A w \in Users : users[w] # None => users'[w] # None
    PROVE  ReqsOK'
  <1>1. req' \in [Handlers -> ReqRec]
    BY DEF UserInv, ReqsOK
  <1>2. ASSUME NEW j \in Handlers PROVE ReqOK(req[j])'
    <2>1. CASE j = i
      BY <2>1 DEF UserInv, ReqsOK, ReqOK
    <2>2. CASE j # i
      <3>1. req'[j] = req[j] /\ ReqOK(req[j])
        BY <2>2 DEF UserInv, ReqsOK
      <3>2. users[req[j].user] # None /\ req[j].user \in Users =>
               users'[req[j].user] # None
        OBVIOUS
      <3> QED
        BY <3>1, <3>2 DEF ReqOK
    <2> QED
      BY <2>1, <2>2
  <1> QED
    BY <1>1, <1>2 DEF ReqsOK

\* A request that ends, or that goes on with what it read.
LEMMA ReqEnds ==
    ASSUME UserInv, NEW i \in Handlers, Leave(i),
           \A w \in Users : users[w] # None => users'[w] # None
    PROVE  ReqsOK'
  <1>1. NoReq \in ReqRec /\ ReqOK(NoReq)'
    BY DEF NoReq, ReqRec, ReqOK
  <1> QED
    BY <1>1, OneReq DEF Leave

LEMMA ReqMoves ==
    ASSUME UserInv, NEW i \in Handlers, NEW pc \in {"sign", "insert"}, Move(i, pc),
           req[i].pc # "idle", users'[req[i].user] # None,
           \A w \in Users : users[w] # None => users'[w] # None
    PROVE  ReqsOK'
  <1>e. PICK e : e = [req[i] EXCEPT !.pc = pc]
    OBVIOUS
  <1>1. req[i] \in ReqRec /\ req[i].user \in Users
    BY DEF UserInv, ReqsOK, ReqOK
  <1>2. e \in ReqRec /\ e.pc = pc /\ e.user = req[i].user
    BY <1>1, <1>e DEF ReqRec
  <1>3. ReqOK(e)'
    BY <1>1, <1>2 DEF ReqOK
  <1>4. req' = [req EXCEPT ![i] = e]
    BY <1>e DEF Move, UserInv, ReqsOK
  <1> QED
    BY <1>2, <1>3, <1>4, OneReq

\* A statement that writes an account: it stays there, made by the same
\* invitation, and other accounts are as they were.
LEMMA UserWritten ==
    ASSUME UserInv, NEW u \in Users, users[u] # None, NEW a \in Account,
           users' = [users EXCEPT ![u] = a], a.from = users[u].from,
           (a.failed = LockLimit) <=> (a.lock # "none")
    PROVE  /\ UsersOK' /\ LockAtLimit'
           /\ \A w \in Users : users[w] # None => users'[w] # None
           /\ \A v \in Invitations : Made(v)' = Made(v)
           /\ users'[u] = a /\ \A w \in Users \ {u} : users'[w] = users[w]
  <1>1. users'[u] = a /\ \A w \in Users \ {u} : users'[w] = users[w]
    BY DEF UserInv, UsersOK
  <1>2. a # None
    BY UsersAssumption DEF UsersAssumption
  <1>3. UsersOK'
    BY DEF UserInv, UsersOK
  <1>4. LockAtLimit'
    BY <1>1 DEF UserInv, LockAtLimit
  <1>5. ASSUME NEW v \in Invitations PROVE Made(v)' = Made(v)
    BY <1>1, <1>2 DEF Made
  <1> QED
    BY <1>1, <1>2, <1>3, <1>4, <1>5

\* The sessions of one account end; those of others are as they were.
LEMMA SessionsEnd ==
    ASSUME UserInv, NEW u \in Users, sessions' = WithoutSessionsOf(u),
           \A w \in Users \ {u} : users'[w] = users[w]
    PROVE  SessionsOK' /\ LoginsHold'
  <1>1. SessionsOK'
    BY DEF UserInv, SessionsOK, WithoutSessionsOf
  <1>2. ASSUME NEW t \in Tokens, sessions'[t] # None
        PROVE  sessions'[t] = sessions[t] /\ sessions[t] # None /\ sessions[t].user \in Users \ {u}
    BY <1>2 DEF UserInv, SessionsOK, WithoutSessionsOf, Session
  <1> QED
    BY <1>1, <1>2 DEF UserInv, LoginsHold

\* Where sessions are not touched and the state and the password of every
\* account stay, the sessions stay current.
LEMMA SessionsStay ==
    ASSUME UserInv, UNCHANGED sessions,
           \A w \in Users : users[w] # None =>
               /\ users'[w] # None /\ users'[w].hash = users[w].hash
               /\ users'[w].state = users[w].state \/ users'[w].state = "active"
    PROVE  SessionsOK' /\ LoginsHold'
  <1>1. \A t \in Tokens : sessions[t] # None => sessions[t].user \in Users
    BY DEF UserInv, SessionsOK, Session
  <1> QED
    BY <1>1 DEF UserInv, SessionsOK, LoginsHold

\* Invitations are as they were, and so are the accounts they made.
LEMMA InvitationsStay ==
    ASSUME UserInv, UNCHANGED invitations, \A v \in Invitations : Made(v)' = Made(v)
    PROVE  OneEach'
  BY DEF UserInv, OneEach

\* A new routing id, in a table of routing ids.
LEMMA RoutingWritten ==
    ASSUME UserInv, NEW u \in Users,
           NEW table \in [Ids -> [user : Users, active : BOOLEAN] \cup {None}],
           NewRouting(table, u)
    PROVE  RoutingOK'
  <1> DEFINE r == CHOOSE r \in Ids : routing[r] = None
  <1>1. [user |-> u, active |-> TRUE] \in [user : Users, active : BOOLEAN]
    OBVIOUS
  <1> HIDE DEF r
  <1>2. routing' = [table EXCEPT ![r] = [user |-> u, active |-> TRUE]]
    BY DEF NewRouting, r
  <1> QED
    BY <1>1, <1>2 DEF RoutingOK

LEMMA RetiredType ==
    ASSUME UserInv, NEW u \in Users
    PROVE  Retired(u) \in [Ids -> [user : Users, active : BOOLEAN] \cup {None}]
  <1>1. ASSUME NEW r \in Ids, routing[r] # None
        PROVE  [routing[r] EXCEPT !.active = FALSE] \in [user : Users, active : BOOLEAN]
    BY <1>1 DEF UserInv, RoutingOK
  <1> QED
    BY <1>1 DEF Retired, UserInv, RoutingOK

\* What the failed attempt writes: the count and the lock go together.
LEMMA FailureWritten ==
    ASSUME UserInv, NEW i \in Handlers, LoginFails(i), users' # users
    PROVE  \E a \in Account :
              LET u == req[i].user
              IN  /\ users' = [users EXCEPT ![u] = a] /\ a.from = users[u].from
                  /\ a.hash = users[u].hash /\ a.state = users[u].state
                  /\ (a.failed = LockLimit) <=> (a.lock # "none")
  <1>u. PICK u : u = req[i].user
    OBVIOUS
  <1>x. PICK x : x = users[u]
    OBVIOUS
  <1>f. PICK f : f = IF x.lock = "over" THEN 1 ELSE x.failed + 1
    OBVIOUS
  <1>l. PICK l : l = IF x.lock # "over" /\ x.failed + 1 >= LockLimit THEN "held" ELSE "none"
    OBVIOUS
  <1>1. u \in Users /\ x \in Account /\ x.lock # "held"
    BY <1>u, <1>x DEF LoginFails, Unlocked, UserInv, ReqsOK, ReqOK, UsersOK
  <1>2. (x.failed = LockLimit) <=> (x.lock # "none")
    BY <1>1, <1>x, UsersAssumption DEF UserInv, LockAtLimit, UsersAssumption
  <1>3. /\ f \in 0..LockLimit /\ l \in {"none", "held", "over"}
        /\ (f = LockLimit) <=> (l # "none")
    <2>1. x.failed \in 0..LockLimit /\ x.lock \in {"none", "over"}
      BY <1>1 DEF Account
    <2>2. CASE x.lock = "over"
      BY <2>2, <1>f, <1>l, UsersAssumption DEF UsersAssumption
    <2>3. CASE x.lock = "none" /\ x.failed + 1 >= LockLimit
      BY <1>2, <2>1, <2>3, <1>f, <1>l, UsersAssumption DEF UsersAssumption
    <2>4. CASE x.lock = "none" /\ ~(x.failed + 1 >= LockLimit)
      BY <1>2, <2>1, <2>4, <1>f, <1>l, UsersAssumption DEF UsersAssumption
    <2> QED
      BY <2>1, <2>2, <2>3, <2>4
  <1>a. PICK a : a = [x EXCEPT !.failed = f, !.lock = l]
    OBVIOUS
  <1>4. users' = [users EXCEPT ![u] = a]
    BY <1>u, <1>x, <1>f, <1>l, <1>a, <1>1 DEF LoginFails, UserInv, UsersOK
  <1>5. a = [state |-> x.state, hash |-> x.hash, failed |-> f, lock |-> l, from |-> x.from]
    BY <1>a, <1>1 DEF Account
  <1>6. a \in Account /\ a.from = x.from /\ a.hash = x.hash /\ a.state = x.state
        /\ a.failed = f /\ a.lock = l
    BY <1>1, <1>3, <1>5 DEF Account
  <1> QED
    BY <1>3, <1>4, <1>6, <1>u, <1>x

LEMMA UserStep == UserInv /\ [AccountsNext]_uvars => UserInv'
  <1> SUFFICES ASSUME UserInv, [AccountsNext]_uvars PROVE UserInv'
    OBVIOUS
  <1> DEFINE Stay == \A w \in Users : users[w] # None => users'[w] # None
  <1>0. /\ UsersOK /\ SessionsOK /\ RoutingOK /\ ReqsOK /\ OneEach /\ LoginsHold /\ LockAtLimit
        /\ LockLimit \in Nat \ {0, 1} /\ MaxPassword \in Nat
        /\ None \notin Invitations /\ None \notin Account
    BY UsersAssumption DEF UserInv, UsersAssumption
  <1>a. ASSUME UNCHANGED users PROVE UsersOK' /\ LockAtLimit' /\ Stay
    BY <1>0, <1>a DEF UsersOK, LockAtLimit
  <1>b. ASSUME UNCHANGED <<users, invitations>> PROVE OneEach'
    BY <1>b, InvitationsStay DEF Made
  <1>c. ASSUME UNCHANGED <<users, sessions>> PROVE SessionsOK' /\ LoginsHold'
    BY <1>0, <1>c DEF SessionsOK, LoginsHold
  <1>d. ASSUME UNCHANGED routing PROVE RoutingOK'
    BY <1>0, <1>d DEF RoutingOK
  <1>e. ASSUME UNCHANGED <<users, invitations, sessions, routing>>, ReqsOK' PROVE UserInv'
    BY <1>a, <1>b, <1>c, <1>d, <1>e DEF UserInv
  <1>f. ASSUME UNCHANGED req, Stay PROVE ReqsOK'
    BY <1>0, <1>f DEF ReqsOK, ReqOK
  <1>g. ASSUME NEW i \in Handlers, NEW pc, NEW u, NEW x, Enter(i, pc, u, x),
               [pc |-> pc, user |-> u, arg |-> x] \in ReqRec,
               ReqOK([pc |-> pc, user |-> u, arg |-> x]), UNCHANGED users
        PROVE  ReqsOK'
    <2>e. PICK e : e = [pc |-> pc, user |-> u, arg |-> x]
      OBVIOUS
    <2>1. ReqOK(e)' /\ Stay /\ e \in ReqRec /\ req' = [req EXCEPT ![i] = e]
      BY <1>g, <2>e DEF ReqOK, Enter
    <2> QED
      BY <2>1, OneReq
  <1> HIDE DEF Stay
  <1>1. ASSUME NEW v \in Invitations,
               Invite(v) \/ RevokeInvitation(v) \/ InvitationExpires(v)
        PROVE  UserInv'
    <2>1. OneEach'
      BY <1>0, <1>1 DEF Invite, RevokeInvitation, InvitationExpires, OneEach, Made
    <2> QED
      BY <1>1, <1>a, <1>c, <1>d, <1>f, <2>1
         DEF Invite, RevokeInvitation, InvitationExpires, UserInv
  <1>2. ASSUME NEW u \in Users, LockExpires(u) PROVE UserInv'
    <2>a. PICK a : a = [users[u] EXCEPT !.lock = "over"]
      OBVIOUS
    <2>1. users[u] \in Account /\ users[u] # None /\ users[u].lock = "held"
      BY <1>0, <1>2 DEF LockExpires, UsersOK
    <2>2. /\ a \in Account /\ a.from = users[u].from /\ a.failed = users[u].failed
          /\ a.lock = "over" /\ a.hash = users[u].hash /\ a.state = users[u].state
      BY <2>1, <2>a DEF Account
    <2>3. users' = [users EXCEPT ![u] = a]
      BY <1>2, <2>a DEF LockExpires
    <2>4. (a.failed = LockLimit) <=> (a.lock # "none")
      BY <1>0, <2>1, <2>2 DEF LockAtLimit
    <2>5. /\ UsersOK' /\ LockAtLimit' /\ Stay
          /\ \A v \in Invitations : Made(v)' = Made(v)
          /\ users'[u] = a /\ \A w \in Users \ {u} : users'[w] = users[w]
      BY <2>1, <2>2, <2>3, <2>4, UserWritten DEF Stay
    <2>6. SessionsOK' /\ LoginsHold'
      BY <1>2, <2>2, <2>5, SessionsStay DEF LockExpires, Stay
    <2> QED
      BY <1>2, <1>d, <1>f, <2>5, <2>6, InvitationsStay DEF LockExpires, UserInv
  <1>3. ASSUME NEW u \in Users, Rotate(u) PROVE UserInv'
    <2>1. RoutingOK'
      BY <1>3, RoutingWritten, RetiredType DEF Rotate
    <2> QED
      BY <1>3, <1>a, <1>b, <1>c, <1>f, <2>1 DEF Rotate, UserInv
  <1>4. ASSUME NEW u \in Users, NEW s \in {"active", "disabled", "deleted"}, Living(u),
               users' = [users EXCEPT ![u].state = s]
        PROVE  /\ UsersOK' /\ LockAtLimit' /\ Stay
               /\ \A v \in Invitations : Made(v)' = Made(v)
               /\ users'[u].hash = users[u].hash /\ users'[u].state = s
               /\ \A w \in Users \ {u} : users'[w] = users[w]
    <2>a. PICK a : a = [users[u] EXCEPT !.state = s]
      OBVIOUS
    <2>1. users[u] \in Account /\ users[u] # None
      BY <1>0, <1>4 DEF Living, UsersOK
    <2>2. /\ a \in Account /\ a.from = users[u].from /\ a.failed = users[u].failed
          /\ a.lock = users[u].lock /\ a.hash = users[u].hash /\ a.state = s
      BY <2>1, <2>a DEF Account
    <2>3. users' = [users EXCEPT ![u] = a]
      BY <1>0, <1>4, <2>a DEF UsersOK
    <2>4. (a.failed = LockLimit) <=> (a.lock # "none")
      BY <1>0, <2>1, <2>2 DEF LockAtLimit
    <2> QED
      BY <2>1, <2>2, <2>3, <2>4, UserWritten DEF Stay
  <1>5. ASSUME NEW u \in Users, SoftDelete(u) PROVE UserInv'
    <2>1. /\ UsersOK' /\ LockAtLimit' /\ Stay
          /\ \A v \in Invitations : Made(v)' = Made(v)
          /\ \A w \in Users \ {u} : users'[w] = users[w]
      BY <1>4, <1>5 DEF SoftDelete
    <2>2. SessionsOK' /\ LoginsHold'
      BY <1>5, <2>1, SessionsEnd DEF SoftDelete
    <2>3. RoutingOK'
      BY <1>5, RetiredType DEF SoftDelete, RoutingOK
    <2> QED
      BY <1>5, <1>f, <2>1, <2>2, <2>3, InvitationsStay DEF SoftDelete, UserInv
  <1>6. ASSUME NEW u \in Users, NEW d \in BOOLEAN, SetDisabled(u, d) PROVE UserInv'
    <2>1. PICK s \in {"active", "disabled"} :
             /\ users' = [users EXCEPT ![u].state = s]
             /\ \/ sessions' = WithoutSessionsOf(u)
                \/ s = "active" /\ sessions' = sessions
      BY <1>6 DEF SetDisabled
    <2>2. /\ UsersOK' /\ LockAtLimit' /\ Stay
          /\ \A v \in Invitations : Made(v)' = Made(v)
          /\ users'[u].hash = users[u].hash /\ users'[u].state = s
          /\ \A w \in Users \ {u} : users'[w] = users[w]
      BY <1>4, <1>6, <2>1 DEF SetDisabled
    <2>3. SessionsOK' /\ LoginsHold'
      <3>1. CASE sessions' = WithoutSessionsOf(u)
        BY <2>2, <3>1, SessionsEnd
      <3>2. CASE s = "active" /\ sessions' = sessions
        BY <2>2, <3>2, SessionsStay DEF Stay
      <3> QED
        BY <2>1, <3>1, <3>2
    <2> QED
      BY <1>6, <1>d, <1>f, <2>2, <2>3, InvitationsStay DEF SetDisabled, UserInv
  <1>7. ASSUME NEW t \in Tokens, Logout(t) PROVE UserInv'
    <2>1. SessionsOK' /\ LoginsHold'
      BY <1>0, <1>7 DEF Logout, SessionsOK, LoginsHold
    <2> QED
      BY <1>7, <1>a, <1>b, <1>d, <1>f, <2>1 DEF Logout, UserInv
  <1>8. ASSUME NEW i \in Handlers, CreateLocalUser(i) PROVE UserInv'
    <2>u. PICK u : u = req[i].user
      OBVIOUS
    <2>v. PICK v : v = req[i].arg
      OBVIOUS
    <2>0. /\ u \in Users /\ req[i].pc \in {"register", "create"}
          /\ req[i].pc = "register" => v \in Invitations
          /\ req[i].pc = "create" => v = None
      BY <1>0, <1>8, <2>u, <2>v DEF CreateLocalUser, ReqsOK, ReqOK
    <2>1. CASE Leave(i) /\ UNCHANGED <<users, invitations, routing, sessions>>
      BY <1>a, <1>e, <2>1, ReqEnds DEF Stay
    <2>2. CASE /\ req[i].pc = "create" \/ Claimed(v)
               /\ users[u] = None
               /\ users' = [users EXCEPT ![u] =
                     [state |-> "active", hash |-> 0, failed |-> 0, lock |-> "none", from |-> v]]
               /\ invitations' = IF v = None THEN invitations
                                 ELSE [invitations EXCEPT ![v] = "accepted"]
               /\ NewRouting(routing, u)
               /\ IF v = None THEN Leave(i) ELSE Move(i, "sign")
               /\ UNCHANGED sessions
      <3>a. PICK a : a = [state |-> "active", hash |-> 0, failed |-> 0, lock |-> "none", from |-> v]
        OBVIOUS
      <3>1. /\ a \in Account /\ a.from = v /\ a.failed # LockLimit /\ a.lock = "none"
            /\ a # None
        BY <1>0, <2>0, <3>a DEF Account
      <3>2. users'[u] = a /\ \A w \in Users \ {u} : users'[w] = users[w]
        BY <1>0, <2>0, <2>2, <3>a DEF UsersOK
      <3>3. UsersOK' /\ LockAtLimit' /\ Stay
        BY <1>0, <2>2, <3>1, <3>2, <3>a DEF UsersOK, LockAtLimit, Stay
      <3>4. SessionsOK' /\ LoginsHold'
        <4>1. \A t \in Tokens : sessions[t] # None => sessions[t].user \in Users
          BY <1>0 DEF SessionsOK, Session
        <4> QED
          BY <1>0, <2>2, <3>2, <4>1 DEF SessionsOK, LoginsHold
      <3>5. OneEach'
        <4>1. \A w \in Invitations :
                 Made(w)' = IF w = v THEN Made(w) \cup {u} ELSE Made(w)
          BY <2>0, <2>2, <3>1, <3>2 DEF Made
        <4>2. CASE v = None
          BY <1>0, <2>2, <4>1, <4>2 DEF OneEach
        <4>3. CASE v # None
          <5>1. v \in Invitations /\ invitations[v] = "pending" /\ Made(v) = {}
            BY <1>0, <2>0, <2>2, <4>3 DEF Claimed, OneEach
          <5>2. invitations'[v] = "accepted" /\ Made(v)' = {u}
            BY <1>0, <2>2, <4>1, <4>3, <5>1 DEF OneEach
          <5>3. \A w \in Invitations \ {v} : invitations'[w] = invitations[w] /\ Made(w)' = Made(w)
            BY <1>0, <2>2, <4>1, <4>3 DEF OneEach
          <5>4. invitations' \in [Invitations ->
                    {"none", "pending", "accepted", "revoked", "expired"}]
            BY <1>0, <2>2, <4>3 DEF OneEach
          <5> QED
            BY <1>0, <2>0, <5>2, <5>3, <5>4 DEF OneEach
        <4> QED
          BY <4>2, <4>3
      <3>6. RoutingOK'
        BY <1>0, <2>0, <2>2, RoutingWritten DEF RoutingOK
      <3>7. ReqsOK'
        BY <2>0, <2>2, <2>u, <3>1, <3>2, <3>3, ReqEnds, ReqMoves DEF Stay
      <3> QED
        BY <3>3, <3>4, <3>5, <3>6, <3>7 DEF UserInv
    <2> QED
      BY <1>8, <2>1, <2>2, <2>u, <2>v DEF CreateLocalUser
  <1>9. ASSUME NEW i \in Handlers, ReadAccount(i) PROVE UserInv'
    <2>1. users[req[i].user] # None
      BY <1>0, <1>9 DEF ReadAccount, ReqsOK, ReqOK
    <2>2. ReqsOK'
      BY <1>9, <1>a, <2>1, ReqEnds, ReqMoves DEF ReadAccount, Stay
    <2> QED
      BY <1>9, <1>e, <2>2 DEF ReadAccount
  <1>10. ASSUME NEW i \in Handlers, LoginFails(i) PROVE UserInv'
    <2>1. CASE users' = users
      <3>1. ReqsOK'
        BY <1>10, <1>a, <2>1, ReqEnds DEF LoginFails, Stay
      <3> QED
        BY <1>10, <1>e, <2>1, <3>1 DEF LoginFails
    <2>2. CASE users' # users
      <3>u. PICK u : u = req[i].user
        OBVIOUS
      <3>1. PICK a \in Account :
               /\ users' = [users EXCEPT ![u] = a] /\ a.from = users[u].from
               /\ a.hash = users[u].hash /\ a.state = users[u].state
               /\ (a.failed = LockLimit) <=> (a.lock # "none")
        BY <1>10, <2>2, <3>u, FailureWritten
      <3>2. u \in Users /\ users[u] # None
        BY <1>0, <1>10, <3>u DEF LoginFails, ReqsOK, ReqOK
      <3>3. /\ UsersOK' /\ LockAtLimit' /\ Stay
            /\ \A v \in Invitations : Made(v)' = Made(v)
            /\ users'[u] = a /\ \A w \in Users \ {u} : users'[w] = users[w]
        BY <3>1, <3>2, UserWritten DEF Stay
      <3>4. SessionsOK' /\ LoginsHold'
        BY <1>10, <3>1, <3>3, SessionsStay DEF LoginFails, Stay
      <3>5. ReqsOK'
        BY <1>10, <3>3, ReqEnds DEF LoginFails, Stay
      <3> QED
        BY <1>10, <1>d, <3>3, <3>4, <3>5, InvitationsStay DEF LoginFails, UserInv
    <2> QED
      BY <2>1, <2>2
  <1>11. ASSUME NEW i \in Handlers, ChangePassword(i) PROVE UserInv'
    <2>u. PICK u : u = req[i].user
      OBVIOUS
    <2>0. u \in Users /\ users[u] # None /\ users[u] \in Account
          /\ req[i].arg.hash < MaxPassword
      BY <1>0, <1>11, <2>u DEF ChangePassword, ReqsOK, ReqOK, UsersOK
    <2>1. CASE UNCHANGED <<users, sessions>>
      <3>1. ReqsOK'
        BY <1>11, <1>a, <2>1, ReqEnds DEF ChangePassword, Stay
      <3> QED
        BY <1>11, <1>e, <2>1, <3>1 DEF ChangePassword
    <2>2. CASE /\ Unchanged(i)
               /\ users' = [users EXCEPT ![u].hash = @ + 1, ![u].failed = 0, ![u].lock = "none"]
               /\ sessions' = WithoutSessionsOf(u)
      <3>x. PICK x : x = users[u]
        OBVIOUS
      <3>a. PICK a : a = [x EXCEPT !.hash = @ + 1, !.failed = 0, !.lock = "none"]
        OBVIOUS
      <3>1. a = [state |-> x.state, hash |-> x.hash + 1, failed |-> 0, lock |-> "none",
                 from |-> x.from]
        BY <2>0, <3>x, <3>a DEF Account
      <3>2. x.hash + 1 \in 0..MaxPassword
        BY <1>0, <2>0, <2>2, <2>u, <3>x DEF Unchanged, Account
      <3>3. /\ a \in Account /\ a.from = users[u].from
            /\ (a.failed = LockLimit) <=> (a.lock # "none")
        BY <1>0, <2>0, <3>1, <3>2, <3>x DEF Account
      <3>4. users' = [users EXCEPT ![u] = a]
        BY <1>0, <2>0, <2>2, <3>x, <3>a DEF UsersOK
      <3>5. /\ UsersOK' /\ LockAtLimit' /\ Stay
            /\ \A v \in Invitations : Made(v)' = Made(v)
            /\ users'[u] = a /\ \A w \in Users \ {u} : users'[w] = users[w]
        BY <2>0, <3>3, <3>4, UserWritten DEF Stay
      <3>6. SessionsOK' /\ LoginsHold'
        BY <2>0, <2>2, <3>5, SessionsEnd
      <3>7. ReqsOK'
        BY <1>11, <3>5, ReqEnds DEF ChangePassword, Stay
      <3> QED
        BY <1>11, <1>d, <3>5, <3>6, <3>7, InvitationsStay DEF ChangePassword, UserInv
    <2> QED
      BY <1>11, <2>1, <2>2, <2>u DEF ChangePassword
  <1>12. ASSUME NEW i \in Handlers, EndsEarly(i) PROVE UserInv'
    <2>1. ReqsOK'
      BY <1>12, <1>a, ReqEnds DEF EndsEarly, Stay
    <2> QED
      BY <1>12, <1>e, <2>1 DEF EndsEarly
  <1>13. ASSUME NEW i \in Handlers, NEW u \in Users, CreateUser(i, u) PROVE UserInv'
    <2>1. /\ [pc |-> "create", user |-> u, arg |-> None] \in ReqRec
          /\ ReqOK([pc |-> "create", user |-> u, arg |-> None])
      BY DEF ReqRec, ReqOK
    <2> QED
      BY <1>13, <1>e, <1>g, <2>1 DEF CreateUser
  <1>14. ASSUME NEW i \in Handlers, NEW u \in Users, NEW v \in Invitations, Register(i, u, v)
         PROVE  UserInv'
    <2>1. /\ [pc |-> "register", user |-> u, arg |-> v] \in ReqRec
          /\ ReqOK([pc |-> "register", user |-> u, arg |-> v])
      BY DEF ReqRec, ReqOK
    <2> QED
      BY <1>14, <1>e, <1>g, <2>1 DEF Register
  <1>15. ASSUME NEW i \in Handlers, NEW u \in Users, NEW good \in BOOLEAN, LoginRead(i, u, good)
         PROVE  UserInv'
    <2>1. users[u] # None /\ users[u].hash \in 0..MaxPassword
      BY <1>0, <1>15 DEF LoginRead, Active, UsersOK, Account
    <2>x. PICK x : x = [hash |-> users[u].hash, good |-> good]
      OBVIOUS
    <2>2. x \in [hash : 0..MaxPassword, good : BOOLEAN]
      BY <2>1, <2>x
    <2>3. /\ [pc |-> "verify", user |-> u, arg |-> x] \in ReqRec
          /\ ReqOK([pc |-> "verify", user |-> u, arg |-> x])
      BY <2>1, <2>2 DEF ReqRec, ReqOK
    <2>4. ReqsOK'
      BY <1>15, <1>g, <2>3, <2>x DEF LoginRead
    <2> QED
      BY <1>15, <1>e, <2>4 DEF LoginRead
  <1>16. ASSUME NEW i \in Handlers, NEW t \in Tokens, InsertSession(i, t) PROVE UserInv'
    <2>1. req[i].user \in Users /\ users[req[i].user] \in Account
      BY <1>0, <1>16 DEF InsertSession, ReqsOK, ReqOK, UsersOK
    <2>2. users[req[i].user].hash \in 0..MaxPassword
      BY <2>1 DEF Account
    <2>s. PICK s : s = [user |-> req[i].user, by |-> "registration",
                        hash |-> users[req[i].user].hash]
      OBVIOUS
    <2>3. s \in Session /\ s.by = "registration"
      BY <2>1, <2>2, <2>s DEF Session
    <2>4. sessions' = [sessions EXCEPT ![t] = s]
      BY <1>16, <2>s DEF InsertSession
    <2>5. SessionsOK' /\ LoginsHold'
      BY <1>0, <1>16, <2>3, <2>4 DEF InsertSession, SessionsOK, LoginsHold
    <2>6. ReqsOK'
      BY <1>16, <1>a, ReqEnds DEF InsertSession, Stay
    <2> QED
      BY <1>16, <1>a, <1>b, <1>d, <2>5, <2>6 DEF InsertSession, UserInv
  <1>17. ASSUME NEW i \in Handlers, NEW t \in Tokens, LoginSucceeds(i, t) PROVE UserInv'
    <2>u. PICK u : u = req[i].user
      OBVIOUS
    <2>0. /\ u \in Users /\ users[u] # None /\ users[u] \in Account
          /\ req[i].arg.hash \in 0..MaxPassword
      BY <1>0, <1>17, <2>u DEF LoginSucceeds, ReqsOK, ReqOK, UsersOK
    <2>1. CASE UNCHANGED <<users, sessions>>
      <3>1. ReqsOK'
        BY <1>17, <1>a, <2>1, ReqEnds DEF LoginSucceeds, Stay
      <3> QED
        BY <1>17, <1>e, <2>1, <3>1 DEF LoginSucceeds
    <2>2. CASE /\ Granted(i)
               /\ users' = [users EXCEPT ![u].failed = 0, ![u].lock = "none"]
               /\ sessions' = [sessions EXCEPT ![t] =
                      [user |-> u, by |-> "login", hash |-> req[i].arg.hash]]
      <3>x. PICK x : x = users[u]
        OBVIOUS
      <3>a. PICK a : a = [x EXCEPT !.failed = 0, !.lock = "none"]
        OBVIOUS
      <3>1. a = [state |-> x.state, hash |-> x.hash, failed |-> 0, lock |-> "none",
                 from |-> x.from]
        BY <2>0, <3>x, <3>a DEF Account
      <3>3. /\ a \in Account /\ a.from = users[u].from
            /\ a.state = users[u].state /\ a.hash = users[u].hash
            /\ (a.failed = LockLimit) <=> (a.lock # "none")
        BY <1>0, <2>0, <3>1, <3>x DEF Account
      <3>4. users' = [users EXCEPT ![u] = a]
        BY <1>0, <2>0, <2>2, <3>x, <3>a DEF UsersOK
      <3>5. /\ UsersOK' /\ LockAtLimit' /\ Stay
            /\ \A v \in Invitations : Made(v)' = Made(v)
            /\ users'[u] = a /\ \A w \in Users \ {u} : users'[w] = users[w]
        BY <2>0, <3>3, <3>4, UserWritten DEF Stay
      <3>s. PICK s : s = [user |-> u, by |-> "login", hash |-> req[i].arg.hash]
        OBVIOUS
      <3>6. /\ s \in Session /\ s.user = u /\ users'[u] # None
            /\ users'[u].state = "active" /\ users'[u].hash = s.hash
        BY <1>0, <2>0, <2>2, <2>u, <3>3, <3>5, <3>s DEF Session, Granted, Unchanged, Active
      <3>7. SessionsOK' /\ sessions'[t] = s /\ \A r \in Tokens \ {t} : sessions'[r] = sessions[r]
        BY <1>0, <2>2, <3>s, <3>6 DEF SessionsOK
      <3>8. LoginsHold'
        <4>1. \A r \in Tokens : sessions[r] # None => sessions[r].user \in Users
          BY <1>0 DEF SessionsOK, Session
        <4>2. \A w \in Users : users[w] # None =>
                 /\ users'[w] # None /\ users'[w].hash = users[w].hash
                 /\ users'[w].state = users[w].state
          BY <3>3, <3>5, <3>6
        <4> QED
          BY <1>0, <3>6, <3>7, <4>1, <4>2 DEF LoginsHold
      <3>9. ReqsOK'
        BY <1>17, <3>5, ReqEnds DEF LoginSucceeds, Stay
      <3> QED
        BY <1>17, <1>d, <3>5, <3>7, <3>8, <3>9, InvitationsStay DEF LoginSucceeds, UserInv
    <2> QED
      BY <1>17, <2>1, <2>2, <2>u DEF LoginSucceeds
  <1>18. ASSUME NEW i \in Handlers, NEW t \in Tokens, ChangeRead(i, t) PROVE UserInv'
    <2>u. PICK u : u = sessions[t].user
      OBVIOUS
    <2>1. /\ u \in Users /\ users[u] # None /\ users[u].hash \in 0..MaxPassword
          /\ users[u].hash < MaxPassword
      BY <1>0, <1>18, <2>u DEF ChangeRead, Usable, Active, SessionsOK, Session, UsersOK, Account
    <2>x. PICK x : x = [hash |-> users[u].hash, good |-> TRUE]
      OBVIOUS
    <2>2. x \in [hash : 0..MaxPassword, good : BOOLEAN] /\ x.hash < MaxPassword
      BY <2>1, <2>x
    <2>3. /\ [pc |-> "change", user |-> u, arg |-> x] \in ReqRec
          /\ ReqOK([pc |-> "change", user |-> u, arg |-> x])
      BY <2>1, <2>2 DEF ReqRec, ReqOK
    <2>4. ReqsOK'
      BY <1>18, <1>g, <2>3, <2>u, <2>x DEF ChangeRead
    <2> QED
      BY <1>18, <1>e, <2>4 DEF ChangeRead
  <1>19. CASE UNCHANGED uvars
    BY <1>19, <1>a, <1>e, <1>f DEF uvars
  <1> QED
    BY <1>1, <1>2, <1>3, <1>5, <1>6, <1>7, <1>8, <1>9, <1>10, <1>11, <1>12, <1>13, <1>14,
       <1>15, <1>16, <1>17, <1>18, <1>19 DEF AccountsNext

\* The rows of accounts, sessions, invitations and routing ids are well typed.
THEOREM UserTypeCorrect == AccountsSpec => []AccountsTypeOK
  <1>1. UserInv => AccountsTypeOK
    BY DEF UserInv, UsersOK, SessionsOK, RoutingOK, ReqsOK, ReqRec, OneEach, AccountsTypeOK
  <1> QED
    BY <1>1, UserInit, UserStep, PTL DEF AccountsSpec

\* However registrations compete, an accepted invitation has made one account,
\* and any other has made none.
THEOREM OneAccountPerInvitation == AccountsSpec => []InvitationMakesOneAccount
  <1>1. UserInv => InvitationMakesOneAccount
    <2> SUFFICES ASSUME UserInv, NEW v \in Invitations
                 PROVE  Cardinality(Made(v)) = IF invitations[v] = "accepted" THEN 1 ELSE 0
      BY DEF InvitationMakesOneAccount, Made
    <2>1. CASE invitations[v] = "accepted"
      <3>1. PICK u \in Users : Made(v) = {u}
        BY <2>1 DEF UserInv, OneEach
      <3> QED
        BY <2>1, <3>1, FS_Singleton
    <2>2. CASE invitations[v] # "accepted"
      <3>1. Made(v) = {}
        BY <2>2 DEF UserInv, OneEach
      <3> QED
        BY <2>2, <3>1, FS_EmptySet
    <2> QED
      BY <2>1, <2>2
  <1> QED
    BY <1>1, UserInit, UserStep, PTL DEF AccountsSpec

\* A session opened with a password is one of the password in force and of an
\* active account, at any interleaving with changes of the account.
THEOREM SessionsFollowPassword == AccountsSpec => []LoginSessionsCurrent
  <1>1. UserInv => LoginSessionsCurrent
    BY DEF UserInv, LoginsHold, LoginSessionsCurrent
  <1> QED
    BY <1>1, UserInit, UserStep, PTL DEF AccountsSpec

\* Parallel attempts lock an account exactly when the count is at the limit.
THEOREM LockOfParallelAttempts == AccountsSpec => []LockAtLimit
  <1>1. UserInv => LockAtLimit
    BY DEF UserInv
  <1> QED
    BY <1>1, UserInit, UserStep, PTL DEF AccountsSpec

-----------------------------------------------------------------------------
(* Sign-in by mail and by providers.                                        *)

CallRec == [pc : {"idle", "retire", "store", "user", "create", "accept", "session",
                  "claims", "link", "bind", "join", "unlink"},
            email : Emails \cup {Nobody}, inv : MailInvites \cup Link \cup {Nobody},
            tok : MailTokens \cup {Nobody}, prov : Slugs \cup {Nobody},
            subj : Subjects \cup {Nobody}]

(* An invitation that a request or a token refers to was sent to its        *)
(* address; without one, and where invitations are needed, the address has  *)
(* or had an account.                                                       *)
SentTo(v, e) == v # Nobody => invite[v] # Nobody /\ invite[v].email = e
Entitled(v, e) == (mode = "invite_only" /\ v = Nobody) => account[e] # "none"

CallOK(e) ==
    /\ e \in CallRec
    /\ e.pc \notin {"idle", "claims"} => e.email \in Emails
    /\ e.pc = "claims" => e.inv \in Link \cup {Nobody} /\ e.prov \in Slugs
    /\ e.pc \in {"retire", "store", "user", "create", "accept", "join"} =>
          e.inv \in MailInvites \cup {Nobody} /\ SentTo(e.inv, e.email)
    /\ e.pc \in {"retire", "store", "user", "create"} => Entitled(e.inv, e.email)
    /\ (e.pc = "join" /\ mode = "invite_only") => e.inv # Nobody
    /\ e.pc = "accept" => account[e.email] # "none"

TokenOK(k) ==
    token[k] # Nobody =>
        SentTo(token[k].inv, token[k].email) /\ Entitled(token[k].inv, token[k].email)

Rows ==
    /\ account \in [Emails -> {"none", "there", "deleted"}]
    /\ invite \in [MailInvites -> MailInviteRow \cup {Nobody}]
    /\ flow \in [Flows -> FlowRow \cup {Nobody}]
    /\ provider \in [Providers -> ProviderRow \cup {Nobody}]
    /\ identity \in [Slugs \X Subjects -> Emails \cup {Nobody}]

TokensOK == /\ token \in [MailTokens -> MailTokenRow \cup {Nobody}]
            /\ \A k \in MailTokens : TokenOK(k)

CallsOK == call \in [Callers -> CallRec] /\ \A c \in Callers : CallOK(call[c])

SignInInv ==
    /\ mode \in Modes /\ joined \in SUBSET Emails
    /\ Rows /\ TokensOK /\ CallsOK /\ InvitedAndJoined

(* What no step takes back: the mode, an account's existence, and who an    *)
(* invitation was sent to.                                                  *)
Forward ==
    /\ mode' = mode
    /\ \A e \in Emails : account[e] # "none" => account'[e] # "none"
    /\ \A v \in MailInvites : invite[v] # Nobody =>
          invite'[v] # Nobody /\ invite'[v].email = invite[v].email

LEMMA SignInInit == ExternalInit => SignInInv
  <1> SUFFICES ASSUME ExternalInit PROVE SignInInv
    OBVIOUS
  <1>1. Rows /\ TokensOK /\ InvitedAndJoined /\ joined \in SUBSET Emails
    BY DEF ExternalInit, Rows, TokensOK, TokenOK, InvitedAndJoined
  <1>2. CallsOK
    BY DEF ExternalInit, CallsOK, CallOK, CallRec, Quiet
  <1> QED
    BY <1>1, <1>2 DEF ExternalInit, SignInInv

\* What a request relies on stays true while others go forward.
LEMMA CallStays ==
    ASSUME Forward, NEW e, CallOK(e)
    PROVE  CallOK(e)'
  <1>1. ASSUME e.email \in Emails, Entitled(e.inv, e.email) PROVE Entitled(e.inv, e.email)'
    BY <1>1 DEF Forward, Entitled
  <1>2. ASSUME e.inv \in MailInvites \cup {Nobody}, SentTo(e.inv, e.email)
        PROVE  SentTo(e.inv, e.email)'
    BY <1>2 DEF Forward, SentTo
  <1> QED
    BY <1>1, <1>2 DEF CallOK, Forward

\* Of all requests one may change, to one that is well formed.
LEMMA OneCall ==
    ASSUME SignInInv, Forward, NEW c \in Callers, NEW e, CallOK(e)',
           call' = [call EXCEPT ![c] = e]
    PROVE  CallsOK'
  <1>1. e \in CallRec
    BY DEF CallOK
  <1>2. call' \in [Callers -> CallRec]
    BY <1>1 DEF SignInInv, CallsOK
  <1>3. ASSUME NEW d \in Callers PROVE CallOK(call[d])'
    <2>x. PICK x : x = call[d]
      OBVIOUS
    <2>1. CASE d = c
      <3>1. call'[d] = e
        BY <2>1 DEF SignInInv, CallsOK
      <3> QED
        BY <3>1 DEF CallOK, SentTo, Entitled
    <2>2. CASE d # c
      <3>1. call'[d] = x /\ CallOK(x)
        BY <2>2, <2>x DEF SignInInv, CallsOK
      <3>2. CallOK(x)'
        BY <3>1, CallStays
      <3> QED
        BY <3>1, <3>2 DEF CallOK, SentTo, Entitled
    <2> QED
      BY <2>1, <2>2
  <1> QED
    BY <1>2, <1>3 DEF CallsOK

\* No request changes.
LEMMA CallsStay ==
    ASSUME SignInInv, Forward, UNCHANGED call
    PROVE  CallsOK'
  <1>1. ASSUME NEW d \in Callers PROVE CallOK(call[d])'
    <2>x. PICK x : x = call[d]
      OBVIOUS
    <2>1. call'[d] = x /\ CallOK(x)
      BY <2>x DEF SignInInv, CallsOK
    <2>2. CallOK(x)'
      BY <2>1, CallStays
    <2> QED
      BY <2>1, <2>2 DEF CallOK, SentTo, Entitled
  <1> QED
    BY <1>1 DEF SignInInv, CallsOK

\* A request ends.
LEMMA CallHangs ==
    ASSUME SignInInv, Forward, NEW c \in Callers, Hang(c)
    PROVE  CallsOK'
  <1>1. CallOK(Quiet)'
    BY DEF CallOK, CallRec, Quiet
  <1> QED
    BY <1>1, OneCall DEF Hang

\* A request moves on; what the next step relies on is to be shown.
LEMMA CallGoes ==
    ASSUME SignInInv, Forward, NEW c \in Callers,
           NEW pc \in {"store", "create", "accept"}, Go(c, pc),
           call[c].pc \in {"retire", "user", "create"},
           pc = "accept" => account'[call[c].email] # "none"
    PROVE  CallsOK'
  <1>x. PICK x : x = call[c]
    OBVIOUS
  <1>e. PICK e : e = [x EXCEPT !.pc = pc]
    OBVIOUS
  <1>1. CallOK(x)
    BY <1>x DEF SignInInv, CallsOK
  <1>2. CallOK(x)'
    BY <1>1, CallStays
  <1>3. /\ e \in CallRec /\ e.pc = pc /\ e.email = x.email /\ e.inv = x.inv
        /\ x.pc \in {"retire", "user", "create"}
    BY <1>1, <1>e, <1>x DEF CallOK, CallRec
  <1>4. CallOK(e)'
    BY <1>2, <1>3, <1>x DEF CallOK
  <1>5. call' = [call EXCEPT ![c] = e]
    BY <1>e, <1>x DEF Go, SignInInv, CallsOK
  <1> QED
    BY <1>4, <1>5, OneCall

\* A request is about to open a session.
LEMMA CallOpens ==
    ASSUME SignInInv, Forward, NEW c \in Callers, NEW who \in Emails, GoOpen(c, who)
    PROVE  CallsOK'
  <1>k. PICK k : k = call[c].tok
    OBVIOUS
  <1>e. PICK e : e = [Quiet EXCEPT !.pc = "session", !.email = who, !.tok = k]
    OBVIOUS
  <1>1. k \in MailTokens \cup {Nobody}
    BY <1>k DEF SignInInv, CallsOK, CallRec
  <1>2. e \in CallRec /\ e.pc = "session" /\ e.email = who
    BY <1>1, <1>e DEF CallRec, Quiet
  <1>3. CallOK(e)'
    BY <1>2 DEF CallOK
  <1>4. call' = [call EXCEPT ![c] = e]
    BY <1>e, <1>k DEF GoOpen
  <1> QED
    BY <1>3, <1>4, OneCall

\* Tokens stay good while others go forward.
LEMMA TokensStay ==
    ASSUME SignInInv, Forward,
           NEW keep \in SUBSET MailTokens,
           token' \in [MailTokens -> MailTokenRow \cup {Nobody}],
           \A k \in keep : token'[k] # Nobody =>
               /\ token[k] # Nobody
               /\ token'[k].inv = token[k].inv /\ token'[k].email = token[k].email
    PROVE  \A k \in keep : TokenOK(k)'
  <1> SUFFICES ASSUME NEW k \in keep, token'[k] # Nobody PROVE TokenOK(k)'
    BY DEF TokenOK
  <1>1. /\ token[k] # Nobody /\ token[k] \in MailTokenRow /\ TokenOK(k)
        /\ token'[k].inv = token[k].inv /\ token'[k].email = token[k].email
    BY DEF SignInInv, TokensOK
  <1>2. token[k].email \in Emails /\ token[k].inv \in MailInvites \cup {Nobody}
    BY <1>1 DEF MailTokenRow
  <1>3. SentTo(token[k].inv, token[k].email)'
    BY <1>1, <1>2 DEF TokenOK, SentTo, Forward
  <1>4. Entitled(token[k].inv, token[k].email)'
    BY <1>1, <1>2 DEF TokenOK, Entitled, Forward
  <1> QED
    BY <1>3, <1>4 DEF TokenOK

\* One row of the invitations changes and keeps its address.
LEMMA InviteWritten ==
    ASSUME SignInInv, NEW v \in MailInvites, NEW r \in MailInviteRow,
           invite' = [invite EXCEPT ![v] = r], UNCHANGED <<mode, account>>,
           invite[v] # Nobody => r.email = invite[v].email
    PROVE  /\ Forward /\ invite' \in [MailInvites -> MailInviteRow \cup {Nobody}]
           /\ invite'[v] = r /\ \A w \in MailInvites \ {v} : invite'[w] = invite[w]
  <1>1. r # Nobody
    BY NobodyAssumption DEF NobodyAssumption
  <1>2. invite'[v] = r /\ \A w \in MailInvites \ {v} : invite'[w] = invite[w]
    BY DEF SignInInv, Rows
  <1>3. invite' \in [MailInvites -> MailInviteRow \cup {Nobody}]
    BY DEF SignInInv, Rows
  <1> QED
    BY <1>1, <1>2, <1>3 DEF Forward

\* The rows of invitations and accounts where the step only goes forward:
\* an invitation accepted now, and an address that joins now, are to be shown.
LEMMA InvitedStays ==
    ASSUME SignInInv, Forward,
           \A v \in MailInvites :
               (invite'[v] # Nobody /\ invite'[v].status = "accepted") =>
                   \/ invite[v] # Nobody /\ invite[v].status = "accepted"
                   \/ account'[invite'[v].email] # "none",
           mode = "invite_only" => \A e \in joined' \ joined : \E v \in MailInvites :
               invite'[v] # Nobody /\ invite'[v].email = e
    PROVE  InvitedAndJoined'
  <1>1. ASSUME NEW v \in MailInvites, invite'[v] # Nobody, invite'[v].status = "accepted"
        PROVE  account'[invite'[v].email] # "none"
    <2>1. CASE invite[v] # Nobody /\ invite[v].status = "accepted"
      <3>1. invite[v].email \in Emails /\ account[invite[v].email] # "none"
        BY <2>1 DEF SignInInv, Rows, MailInviteRow, InvitedAndJoined
      <3> QED
        BY <2>1, <3>1 DEF Forward
    <2> QED
      BY <1>1, <2>1
  <1>2. ASSUME mode' = "invite_only", NEW e \in joined'
        PROVE  \E v \in MailInvites : invite'[v] # Nobody /\ invite'[v].email = e
    <2>0. mode = "invite_only"
      BY <1>2 DEF Forward
    <2>1. CASE e \in joined
      <3>1. PICK v \in MailInvites : invite[v] # Nobody /\ invite[v].email = e
        BY <2>0, <2>1 DEF SignInInv, InvitedAndJoined
      <3> QED
        BY <3>1 DEF Forward
    <2>2. CASE e \notin joined
      BY <1>2, <2>0, <2>2
    <2> QED
      BY <2>1, <2>2
  <1> QED
    BY <1>1, <1>2 DEF InvitedAndJoined

LEMMA SignInStep == SignInInv /\ [ExternalNext]_evars => SignInInv'
  <1> SUFFICES ASSUME SignInInv, [ExternalNext]_evars PROVE SignInInv'
    OBVIOUS
  <1>0. /\ mode \in Modes /\ joined \in SUBSET Emails
        /\ Rows /\ TokensOK /\ CallsOK /\ InvitedAndJoined
        /\ \A c \in Callers : CallOK(call[c])
        /\ Nobody \notin MailInvites
    BY NobodyAssumption DEF SignInInv, CallsOK, NobodyAssumption
  <1>a. ASSUME UNCHANGED <<mode, account, invite>> PROVE Forward
    BY <1>a DEF Forward
  <1>b. ASSUME UNCHANGED token, Forward PROVE TokensOK'
    BY <1>0, <1>b, TokensStay DEF TokensOK
  <1>c. ASSUME UNCHANGED <<mode, account, invite, joined>> PROVE InvitedAndJoined'
    BY <1>0, <1>c DEF InvitedAndJoined
  <1>d. ASSUME UNCHANGED <<mode, account, invite, flow, provider, identity, joined>>,
               TokensOK', CallsOK'
        PROVE  SignInInv'
    BY <1>0, <1>c, <1>d DEF SignInInv, Rows
  <1>e. ASSUME NEW c \in Callers, NEW e, CallOK(e), Arrive(c, e),
               UNCHANGED <<mode, account, invite>>
        PROVE  CallsOK'
    <2>1. Forward
      BY <1>a, <1>e
    <2>2. CallOK(e)'
      BY <1>e, <2>1, CallStays
    <2> QED
      BY <1>e, <2>1, <2>2, OneCall DEF Arrive
  <1>1. ASSUME NEW e \in Emails, NEW s \in {"there", "deleted"}, SetAccount(e, s)
        PROVE  SignInInv'
    <2>1. /\ account' \in [Emails -> {"none", "there", "deleted"}] /\ Forward
          /\ UNCHANGED <<mode, invite, token, flow, provider, identity, call, joined>>
      BY <1>0, <1>1 DEF SetAccount, Rows, Forward, history
    <2>2. InvitedAndJoined'
      BY <2>1, InvitedStays
    <2> QED
      BY <1>0, <1>b, <2>1, <2>2, CallsStay DEF SignInInv, Rows
  <1>2. ASSUME NEW v \in MailInvites,
               \/ ResendInvite(v)
               \/ \E e \in Emails : MailInvite(v, e)
               \/ \E s \in {"revoked", "expired"} : VoidInvite(v, s)
        PROVE  SignInInv'
    <2>1. UNCHANGED <<mode, account, token, flow, provider, identity, call, joined>>
      BY <1>2 DEF ResendInvite, MailInvite, VoidInvite, history
    <2>2. PICK r \in MailInviteRow :
             /\ invite' = [invite EXCEPT ![v] = r] /\ r.status # "accepted"
             /\ invite[v] # Nobody => r.email = invite[v].email
      <3>1. CASE ResendInvite(v)
        <4>x. PICK x : x = invite[v]
          OBVIOUS
        <4>r. PICK r : r = [x EXCEPT !.serial = 1, !.status = "pending"]
          OBVIOUS
        <4>1. x \in MailInviteRow
          BY <1>0, <3>1, <4>x DEF ResendInvite, Rows
        <4>y. PICK y : y = [x EXCEPT !.serial = 1]
          OBVIOUS
        <4>a. y \in MailInviteRow /\ y.email = x.email
          BY <4>1, <4>y DEF MailInviteRow
        <4>b. r = [y EXCEPT !.status = "pending"]
          BY <4>r, <4>y
        <4>2. r \in MailInviteRow /\ r.status # "accepted" /\ r.email = x.email
          BY <4>a, <4>b DEF MailInviteRow
        <4>3. invite' = [invite EXCEPT ![v] = r]
          BY <1>0, <3>1, <4>x, <4>r DEF ResendInvite, Rows
        <4> QED
          BY <4>2, <4>3, <4>x
      <3>2. ASSUME NEW e \in Emails, MailInvite(v, e)
            PROVE  \E r \in MailInviteRow :
                     /\ invite' = [invite EXCEPT ![v] = r] /\ r.status # "accepted"
                     /\ invite[v] # Nobody => r.email = invite[v].email
        <4>1. [email |-> e, serial |-> 0, status |-> "pending"] \in MailInviteRow
          BY DEF MailInviteRow
        <4> QED
          BY <3>2, <4>1 DEF MailInvite
      <3>3. ASSUME NEW s \in {"revoked", "expired"}, VoidInvite(v, s)
            PROVE  \E r \in MailInviteRow :
                     /\ invite' = [invite EXCEPT ![v] = r] /\ r.status # "accepted"
                     /\ invite[v] # Nobody => r.email = invite[v].email
        <4>r. PICK r : r = [invite[v] EXCEPT !.status = s]
          OBVIOUS
        <4>1. invite[v] \in MailInviteRow
          BY <1>0, <3>3 DEF VoidInvite, Rows
        <4>2. r \in MailInviteRow /\ r.status # "accepted" /\ r.email = invite[v].email
          BY <4>1, <4>r DEF MailInviteRow
        <4>3. invite' = [invite EXCEPT ![v] = r]
          BY <1>0, <3>3, <4>r DEF VoidInvite, Rows
        <4> QED
          BY <4>2, <4>3
      <3> QED
        BY <1>2, <3>1, <3>2, <3>3
    <2>3. /\ Forward /\ invite' \in [MailInvites -> MailInviteRow \cup {Nobody}]
          /\ invite'[v] = r /\ \A w \in MailInvites \ {v} : invite'[w] = invite[w]
      BY <2>1, <2>2, InviteWritten
    <2>4. InvitedAndJoined'
      BY <2>1, <2>2, <2>3, InvitedStays
    <2> QED
      BY <1>0, <1>b, <2>1, <2>3, <2>4, CallsStay DEF SignInInv, Rows
  <1>3. ASSUME NEW p \in Providers,
               DeleteProvider(p) \/ (\E g \in Slugs, on \in BOOLEAN : SaveProvider(p, g, on))
        PROVE  SignInInv'
    <2>1. /\ UNCHANGED <<mode, account, invite, token, call, joined>>
          /\ provider' \in [Providers -> ProviderRow \cup {Nobody}]
          /\ flow' \in [Flows -> FlowRow \cup {Nobody}]
          /\ identity' \in [Slugs \X Subjects -> Emails \cup {Nobody}]
      <3>1. CASE DeleteProvider(p)
        BY <1>0, <3>1 DEF DeleteProvider, Rows, history
      <3>2. ASSUME NEW g \in Slugs, NEW on \in BOOLEAN, SaveProvider(p, g, on)
            PROVE  <2>1
        <4>1. UNCHANGED <<mode, account, invite, token, call, joined, flow>>
          BY <3>2 DEF SaveProvider, history
        <4>2. provider' \in [Providers -> ProviderRow \cup {Nobody}]
          <5>1. [slug |-> g, enabled |-> on] \in ProviderRow
            BY DEF ProviderRow
          <5> QED
            BY <1>0, <3>2, <5>1 DEF SaveProvider, Rows
        <4>3. identity' \in [Slugs \X Subjects -> Emails \cup {Nobody}]
          <5>1. CASE UNCHANGED identity
            BY <1>0, <5>1 DEF Rows
          <5>2. ASSUME NEW old \in Slugs, identity' = Renamed(old, g)
                PROVE  <4>3
            <6>1. \A x \in Slugs \X Subjects : x[2] \in Subjects /\ <<old, x[2]>> \in Slugs \X Subjects
              OBVIOUS
            <6> QED
              BY <1>0, <5>2, <6>1 DEF Renamed, Rows
          <5>3. provider[p] # Nobody => provider[p].slug \in Slugs
            BY <1>0 DEF Rows, ProviderRow
          <5> QED
            BY <3>2, <5>1, <5>2, <5>3 DEF SaveProvider
        <4> QED
          BY <1>0, <4>1, <4>2, <4>3 DEF Rows
      <3> QED
        BY <1>3, <3>1, <3>2
    <2> QED
      BY <1>0, <1>a, <1>b, <1>c, <2>1, CallsStay DEF SignInInv, Rows
  <1>4. ASSUME NEW k \in MailTokens, Consumable(k), token' = [token EXCEPT ![k].live = FALSE],
               Forward
        PROVE  TokensOK'
    <2>r. PICK r : r = [token[k] EXCEPT !.live = FALSE]
      OBVIOUS
    <2>1. token[k] \in MailTokenRow /\ token[k] # Nobody
      BY <1>0, <1>4 DEF Consumable, TokensOK
    <2>2. r \in MailTokenRow /\ r.email = token[k].email /\ r.inv = token[k].inv
      BY <2>1, <2>r DEF MailTokenRow
    <2>3. token' = [token EXCEPT ![k] = r]
      BY <1>0, <1>4, <2>r DEF TokensOK
    <2>4. token' \in [MailTokens -> MailTokenRow \cup {Nobody}]
      BY <1>0, <2>2, <2>3 DEF TokensOK
    <2>5. \A j \in MailTokens : token'[j] # Nobody =>
             /\ token[j] # Nobody
             /\ token'[j].inv = token[j].inv /\ token'[j].email = token[j].email
      BY <1>0, <2>1, <2>2, <2>3 DEF TokensOK
    <2> QED
      BY <1>4, <2>4, <2>5, TokensStay DEF TokensOK
  <1>5. ASSUME NEW k \in MailTokens, TokenEnds(k) PROVE SignInInv'
    BY <1>4, <1>5, <1>a, <1>d, CallsStay DEF TokenEnds, history
  <1>6. ASSUME NEW x \in DOMAIN identity, AdminUnlink(x) PROVE SignInInv'
    <2>1. /\ UNCHANGED <<mode, account, invite, token, flow, provider, call, joined>>
          /\ identity' \in [Slugs \X Subjects -> Emails \cup {Nobody}]
      BY <1>0, <1>6 DEF AdminUnlink, Rows, history
    <2> QED
      BY <1>0, <1>a, <1>b, <1>c, <2>1, CallsStay DEF SignInInv, Rows
  <1>7. ASSUME NEW f \in Flows,
               \/ FlowExpires(f)
               \/ \E p \in Providers, e \in Emails \cup {Nobody}, l \in Link \cup {Nobody} :
                     StartFlow(f, p, e, l)
        PROVE  SignInInv'
    <2>1. UNCHANGED <<mode, account, invite, token, provider, identity, call, joined>>
      BY <1>7 DEF FlowExpires, StartFlow, history
    <2>2. flow' \in [Flows -> FlowRow \cup {Nobody}]
      <3>1. CASE FlowExpires(f)
        BY <1>0, <3>1 DEF FlowExpires, Rows
      <3>2. ASSUME NEW p \in Providers, NEW e \in Emails \cup {Nobody},
                   NEW l \in Link \cup {Nobody}, StartFlow(f, p, e, l)
            PROVE  flow' \in [Flows -> FlowRow \cup {Nobody}]
        <4>0. provider[p].slug \in Slugs
          BY <1>0, <3>2 DEF StartFlow, Enabled, Rows, ProviderRow
        <4>1. [prov |-> p, slug |-> provider[p].slug, link |-> e, inv |-> l] \in FlowRow
          BY <4>0 DEF FlowRow
        <4> QED
          BY <1>0, <3>2, <4>1 DEF StartFlow, Rows
      <3> QED
        BY <1>7, <3>1, <3>2
    <2> QED
      BY <1>0, <1>a, <1>b, <1>c, <2>1, <2>2, CallsStay DEF SignInInv, Rows
  <1>8. ASSUME NEW c \in Callers, NEW e \in Emails, NEW l \in Link \cup {Nobody},
               RequestLogin(c, e, l)
        PROVE  SignInInv'
    <2>1. UNCHANGED <<mode, account, invite, token, flow, provider, identity, joined>>
      BY <1>8 DEF RequestLogin, history
    <2>2. CASE /\ Exists(e) \/ NeedsNoInvitation(e)
               /\ Arrive(c, [Quiet EXCEPT !.pc = "retire", !.email = e])
      <3>x. PICK x : x = [Quiet EXCEPT !.pc = "retire", !.email = e]
        OBVIOUS
      <3>1. x \in CallRec /\ x.pc = "retire" /\ x.email = e /\ x.inv = Nobody
        BY <3>x DEF CallRec, Quiet
      <3>2. CallOK(x)
        BY <2>2, <3>1 DEF CallOK, SentTo, Entitled, Exists, NeedsNoInvitation
      <3>3. CallsOK'
        BY <1>e, <2>1, <2>2, <3>2, <3>x
      <3> QED
        BY <1>a, <1>b, <1>d, <2>1, <3>3
    <2>3. CASE /\ ValidInvitation(e, l)
               /\ Arrive(c, [Quiet EXCEPT !.pc = "retire", !.email = e, !.inv = l.invite])
      <3>1. /\ l.invite \in MailInvites /\ invite[l.invite] # Nobody
            /\ invite[l.invite].email = e
        BY <2>3 DEF ValidInvitation, Link
      <3>x. PICK x : x = [Quiet EXCEPT !.pc = "retire", !.email = e, !.inv = l.invite]
        OBVIOUS
      <3>2. x \in CallRec /\ x.pc = "retire" /\ x.email = e /\ x.inv = l.invite
        BY <3>1, <3>x DEF CallRec, Quiet
      <3>3. CallOK(x)
        BY <1>0, <3>1, <3>2 DEF CallOK, SentTo, Entitled
      <3>4. CallsOK'
        BY <1>e, <2>1, <2>3, <3>3, <3>x
      <3> QED
        BY <1>a, <1>b, <1>d, <2>1, <3>4
    <2> QED
      BY <1>8, <2>2, <2>3 DEF RequestLogin
  <1>9. ASSUME NEW c \in Callers, RetireTokens(c) PROVE SignInInv'
    <2>1. /\ UNCHANGED <<mode, account, invite, flow, provider, identity, joined>>
          /\ Forward /\ call[c].pc = "retire" /\ Go(c, "store")
      BY <1>9, <1>a DEF RetireTokens, history
    <2>2. CallsOK'
      BY <2>1, CallGoes
    <2>3. ASSUME NEW k \in MailTokens, token[k] # Nobody
          PROVE  LET r == [token[k] EXCEPT !.live = FALSE]
                 IN  r \in MailTokenRow /\ r.email = token[k].email /\ r.inv = token[k].inv
      <3>1. token[k] \in MailTokenRow
        BY <1>0, <2>3 DEF TokensOK
      <3> QED
        BY <3>1 DEF MailTokenRow
    <2>4. token' \in [MailTokens -> MailTokenRow \cup {Nobody}]
      BY <1>0, <1>9, <2>3 DEF RetireTokens, TokensOK
    <2>5. \A k \in MailTokens : token'[k] # Nobody =>
             /\ token[k] # Nobody
             /\ token'[k].inv = token[k].inv /\ token'[k].email = token[k].email
      BY <1>9, <2>3 DEF RetireTokens
    <2>6. TokensOK'
      BY <2>1, <2>4, <2>5, TokensStay DEF TokensOK
    <2> QED
      BY <1>d, <2>1, <2>2, <2>6
  <1>10. ASSUME NEW c \in Callers, FindUser(c) PROVE SignInInv'
    <2>1. /\ UNCHANGED <<mode, account, invite, token, flow, provider, identity, joined>>
          /\ Forward /\ call[c].pc = "user"
      BY <1>10, <1>a DEF FindUser, history
    <2>2. \/ Exists(call[c].email) /\ Go(c, "accept")
          \/ Go(c, "create") \/ Hang(c)
      BY <1>10 DEF FindUser
    <2>3. CallsOK'
      BY <2>1, <2>2, CallGoes, CallHangs DEF Exists
    <2> QED
      BY <1>b, <1>d, <2>1, <2>3
  <1>11. ASSUME NEW c \in Callers, CreateByMail(c) PROVE SignInInv'
    <2>e. PICK e : e = call[c].email
      OBVIOUS
    <2>v. PICK v : v = call[c].inv
      OBVIOUS
    <2>0. /\ call[c].pc = "create" /\ e \in Emails /\ v \in MailInvites \cup {Nobody}
          /\ SentTo(v, e) /\ Entitled(v, e)
      BY <1>0, <1>11, <2>e, <2>v DEF CreateByMail, CallOK
    <2>1. UNCHANGED <<mode, invite, token, flow, provider, identity>>
      BY <1>11 DEF CreateByMail
    <2>2. /\ account' \in [Emails -> {"none", "there", "deleted"}]
          /\ Forward /\ account'[e] # "none"
      BY <1>0, <1>11, <2>0, <2>1, <2>e DEF CreateByMail, Rows, Forward
    <2>3. /\ joined' \in SUBSET Emails /\ joined' \subseteq joined \cup {e}
          /\ account[e] # "none" => joined' = joined
      BY <1>0, <1>11, <2>0, <2>e DEF CreateByMail
    <2>4. InvitedAndJoined'
      <3>1. ASSUME mode = "invite_only", joined' # joined
            PROVE  v \in MailInvites /\ invite[v] # Nobody /\ invite[v].email = e
        BY <2>0, <2>3, <3>1 DEF SentTo, Entitled
      <3> QED
        BY <2>1, <2>2, <2>3, <3>1, InvitedStays
    <2>5. CallsOK'
      BY <1>11, <2>0, <2>2, <2>e, CallGoes, CallHangs DEF CreateByMail
    <2> QED
      BY <1>0, <1>b, <2>1, <2>2, <2>3, <2>4, <2>5 DEF SignInInv, Rows
  <1>12. ASSUME NEW c \in Callers, AcceptInvite(c) PROVE SignInInv'
    <2>e. PICK e : e = call[c].email
      OBVIOUS
    <2>v. PICK v : v = call[c].inv
      OBVIOUS
    <2>0. /\ e \in Emails /\ v \in MailInvites \cup {Nobody} /\ SentTo(v, e)
          /\ account[e] # "none"
      BY <1>0, <1>12, <2>e, <2>v DEF AcceptInvite, CallOK
    <2>1. UNCHANGED <<mode, account, token, flow, provider, identity, joined>> /\ GoOpen(c, e)
      BY <1>12, <2>e DEF AcceptInvite, history
    <2>2. CASE invite' = invite
      BY <1>a, <1>b, <1>d, <2>0, <2>1, <2>2, CallOpens
    <2>3. CASE v # Nobody /\ invite' = [invite EXCEPT ![v].status = "accepted"]
      <3>r. PICK r : r = [invite[v] EXCEPT !.status = "accepted"]
        OBVIOUS
      <3>1. v \in MailInvites /\ invite[v] \in MailInviteRow /\ invite[v].email = e
        BY <1>0, <2>0, <2>3 DEF Rows, SentTo
      <3>2. r \in MailInviteRow /\ r.email = e
        BY <3>1, <3>r DEF MailInviteRow
      <3>3. invite' = [invite EXCEPT ![v] = r]
        BY <1>0, <2>3, <3>1, <3>r DEF Rows
      <3>4. /\ Forward /\ invite' \in [MailInvites -> MailInviteRow \cup {Nobody}]
            /\ invite'[v] = r /\ \A w \in MailInvites \ {v} : invite'[w] = invite[w]
        BY <2>1, <3>1, <3>2, <3>3, InviteWritten
      <3>5. InvitedAndJoined'
        BY <2>0, <2>1, <3>2, <3>4, InvitedStays
      <3>6. CallsOK'
        BY <2>0, <2>1, <3>4, CallOpens
      <3> QED
        BY <1>0, <1>b, <2>1, <3>4, <3>5, <3>6 DEF SignInInv, Rows
    <2> QED
      BY <1>12, <2>2, <2>3, <2>v DEF AcceptInvite
  <1>13. ASSUME NEW c \in Callers, OpenSession(c) PROVE SignInInv'
    BY <1>13, <1>a, <1>b, <1>d, CallHangs DEF OpenSession
  <1>14. ASSUME NEW c \in Callers, BindIdentity(c) PROVE SignInInv'
    <2>0. call[c].email \in Emails
      BY <1>0, <1>14 DEF BindIdentity, CallOK
    <2>1. UNCHANGED <<mode, account, invite, token, flow, provider, joined>> /\ Forward
      BY <1>14, <1>a DEF BindIdentity, history
    <2>2. identity' \in [Slugs \X Subjects -> Emails \cup {Nobody}]
      BY <1>0, <1>14, <2>0 DEF BindIdentity, Bound, Rows
    <2>3. GoOpen(c, call[c].email) \/ Hang(c)
      BY <1>14 DEF BindIdentity
    <2>4. CallsOK'
      BY <2>0, <2>1, <2>3, CallHangs, CallOpens
    <2> QED
      BY <1>0, <1>b, <1>c, <2>1, <2>2, <2>4 DEF SignInInv, Rows
  <1>15. ASSUME NEW c \in Callers, Join(c) PROVE SignInInv'
    <2>e. PICK e : e = call[c].email
      OBVIOUS
    <2>v. PICK v : v = call[c].inv
      OBVIOUS
    <2>0. /\ e \in Emails /\ v \in MailInvites \cup {Nobody} /\ SentTo(v, e)
          /\ mode = "invite_only" => v # Nobody
      BY <1>0, <1>15, <2>e, <2>v DEF Join, CallOK
    <2>1. UNCHANGED <<mode, token, flow, provider>>
      BY <1>15 DEF Join
    <2>2. CASE Hang(c) /\ UNCHANGED <<account, joined, identity, invite>>
      BY <1>a, <1>b, <1>d, <2>1, <2>2, CallHangs
    <2>3. CASE /\ account' = [account EXCEPT ![e] = "there"]
               /\ joined' = joined \cup {e}
               /\ identity' = [identity EXCEPT ![<<call[c].prov, call[c].subj>>] = e]
               /\ invite' = IF v = Nobody THEN invite
                            ELSE [invite EXCEPT ![v].status = "accepted"]
               /\ GoOpen(c, e)
      <3>1. /\ account' \in [Emails -> {"none", "there", "deleted"}] /\ account'[e] # "none"
            /\ \A x \in Emails : account[x] # "none" => account'[x] # "none"
            /\ identity' \in [Slugs \X Subjects -> Emails \cup {Nobody}]
            /\ joined' \in SUBSET Emails
        BY <1>0, <2>0, <2>3 DEF Rows
      <3>2. CASE v = Nobody
        <4>1. Forward /\ invite' = invite
          BY <2>1, <2>3, <3>1, <3>2 DEF Forward
        <4>2. InvitedAndJoined'
          BY <2>0, <2>3, <3>1, <3>2, <4>1, InvitedStays
        <4> QED
          BY <1>0, <1>b, <2>0, <2>1, <2>3, <3>1, <4>1, <4>2, CallOpens DEF SignInInv, Rows
      <3>3. CASE v # Nobody
        <4>r. PICK r : r = [invite[v] EXCEPT !.status = "accepted"]
          OBVIOUS
        <4>1. v \in MailInvites /\ invite[v] \in MailInviteRow /\ invite[v].email = e
          BY <1>0, <2>0, <3>3 DEF Rows, SentTo
        <4>2. r \in MailInviteRow /\ r.email = e /\ r # Nobody
          BY <4>1, <4>r, NobodyAssumption DEF MailInviteRow, NobodyAssumption
        <4>3. invite' = [invite EXCEPT ![v] = r]
          BY <1>0, <2>3, <3>3, <4>1, <4>r DEF Rows
        <4>4. /\ invite' \in [MailInvites -> MailInviteRow \cup {Nobody}]
              /\ invite'[v] = r /\ \A w \in MailInvites \ {v} : invite'[w] = invite[w]
          BY <1>0, <4>1, <4>2, <4>3 DEF Rows
        <4>5. Forward
          BY <2>1, <3>1, <4>1, <4>2, <4>4 DEF Forward
        <4>6. InvitedAndJoined'
          BY <2>3, <3>1, <4>1, <4>2, <4>4, <4>5, InvitedStays
        <4> QED
          BY <1>0, <1>b, <2>0, <2>1, <2>3, <3>1, <4>4, <4>5, <4>6, CallOpens
             DEF SignInInv, Rows
      <3> QED
        BY <3>2, <3>3
    <2> QED
      BY <1>15, <2>2, <2>3, <2>e, <2>v DEF Join
  <1>16. ASSUME NEW c \in Callers, CallEnds(c) PROVE SignInInv'
    BY <1>16, <1>a, <1>b, <1>d, CallHangs DEF CallEnds, history
  <1>17. ASSUME NEW c \in Callers, NEW k \in MailTokens, StoreToken(c, k) PROVE SignInInv'
    <2>1. UNCHANGED <<mode, account, invite, flow, provider, identity, joined>> /\ Forward
      BY <1>17, <1>a DEF StoreToken, history
    <2>0. /\ call[c].email \in Emails /\ call[c].inv \in MailInvites \cup {Nobody}
          /\ SentTo(call[c].inv, call[c].email) /\ Entitled(call[c].inv, call[c].email)
      BY <1>0, <1>17 DEF StoreToken, CallOK
    <2>r. PICK r : r = [email |-> call[c].email, inv |-> call[c].inv, live |-> TRUE]
      OBVIOUS
    <2>2. r \in MailTokenRow /\ SentTo(r.inv, r.email) /\ Entitled(r.inv, r.email)
      BY <2>0, <2>r DEF MailTokenRow
    <2>3. token' = [token EXCEPT ![k] = r]
      BY <1>17, <2>r DEF StoreToken
    <2>4. /\ token' \in [MailTokens -> MailTokenRow \cup {Nobody}] /\ token'[k] = r
          /\ \A j \in MailTokens \ {k} : token'[j] = token[j]
      BY <1>0, <2>2, <2>3 DEF TokensOK
    <2>5. \A j \in MailTokens \ {k} : TokenOK(j)'
      BY <2>1, <2>4, TokensStay
    <2>6. TokenOK(k)'
      BY <2>1, <2>2, <2>4 DEF TokenOK, SentTo, Entitled
    <2>7. TokensOK'
      BY <2>4, <2>5, <2>6 DEF TokensOK
    <2> QED
      BY <1>17, <1>d, <2>1, <2>7, CallHangs DEF StoreToken
  <1>18. ASSUME NEW c \in Callers, NEW k \in MailTokens, ConsumeToken(c, k) PROVE SignInInv'
    <2>1. UNCHANGED <<mode, account, invite, flow, provider, identity, joined>> /\ Forward
      BY <1>18, <1>a DEF ConsumeToken, history
    <2>2. TokensOK'
      BY <1>4, <1>18, <2>1 DEF ConsumeToken
    <2>3. token[k] \in MailTokenRow /\ TokenOK(k) /\ token[k] # Nobody
      BY <1>0, <1>18 DEF ConsumeToken, Consumable, TokensOK
    <2>4. token[k].email \in Emails /\ token[k].inv \in MailInvites \cup {Nobody}
      BY <2>3 DEF MailTokenRow
    <2>x. PICK x : x = [Quiet EXCEPT !.pc = "user", !.email = token[k].email,
                                     !.inv = token[k].inv, !.tok = k]
      OBVIOUS
    <2>5. x \in CallRec /\ x.pc = "user" /\ x.email = token[k].email /\ x.inv = token[k].inv
      BY <2>4, <2>x DEF CallRec, Quiet
    <2>6. CallOK(x)
      BY <2>3, <2>4, <2>5 DEF CallOK, TokenOK
    <2>7. CallsOK'
      BY <1>18, <1>e, <2>1, <2>6, <2>x DEF ConsumeToken
    <2> QED
      BY <1>d, <2>1, <2>2, <2>7
  <1>19. ASSUME NEW c \in Callers, NEW l \in Link, UseInvitation(c, l) PROVE SignInInv'
    <2>1. UNCHANGED <<mode, account, invite, token, flow, provider, identity, joined>>
      BY <1>19 DEF UseInvitation, history
    <2>2. PICK e \in Emails :
             /\ ValidInvitation(e, l)
             /\ Arrive(c, [Quiet EXCEPT !.pc = "user", !.email = e, !.inv = l.invite])
      BY <1>19 DEF UseInvitation
    <2>3. /\ l.invite \in MailInvites /\ invite[l.invite] # Nobody
          /\ invite[l.invite].email = e
      BY <2>2 DEF ValidInvitation, Link
    <2>x. PICK x : x = [Quiet EXCEPT !.pc = "user", !.email = e, !.inv = l.invite]
      OBVIOUS
    <2>4. x \in CallRec /\ x.pc = "user" /\ x.email = e /\ x.inv = l.invite
      BY <2>3, <2>x DEF CallRec, Quiet
    <2>5. CallOK(x)
      BY <1>0, <2>3, <2>4 DEF CallOK, SentTo, Entitled
    <2>6. CallsOK'
      BY <1>e, <2>1, <2>2, <2>5, <2>x
    <2> QED
      BY <1>a, <1>b, <1>d, <2>1, <2>6
  <1>20. ASSUME NEW c \in Callers, NEW f \in Flows, Callback(c, f) PROVE SignInInv'
    <2>1. UNCHANGED <<mode, account, invite, token, provider, identity, joined>> /\ Forward
      BY <1>20, <1>a DEF Callback, history
    <2>2. flow' \in [Flows -> FlowRow \cup {Nobody}] /\ flow[f] \in FlowRow
      BY <1>0, <1>20 DEF Callback, Rows
    <2>3. /\ flow[f].link \in Emails \cup {Nobody} /\ flow[f].inv \in Link \cup {Nobody}
          /\ flow[f].slug \in Slugs
      BY <2>2 DEF FlowRow
    <2>x. PICK x : x = [Quiet EXCEPT !.pc = "claims", !.email = flow[f].link,
                                     !.inv = flow[f].inv, !.prov = flow[f].slug]
      OBVIOUS
    <2>4. /\ x \in CallRec /\ x.pc = "claims" /\ x.inv = flow[f].inv
          /\ x.prov = flow[f].slug
      BY <2>3, <2>x DEF CallRec, Quiet
    <2>5. CallOK(x)
      BY <2>3, <2>4 DEF CallOK
    <2>6. CallsOK'
      <3>1. Arrive(c, x) \/ UNCHANGED call
        BY <1>20, <2>x DEF Callback
      <3> QED
        BY <1>e, <2>1, <2>5, <3>1, CallsStay
    <2> QED
      BY <1>0, <1>b, <1>c, <2>1, <2>2, <2>6 DEF SignInInv, Rows
  <1>21. ASSUME NEW c \in Callers, NEW s \in Subjects, NEW e \in Emails \cup {Nobody},
                Claims(c, s, e)
         PROVE  SignInInv'
    <2>1. /\ UNCHANGED <<mode, account, invite, token, flow, provider, identity, joined>>
          /\ Forward
      BY <1>21, <1>a DEF Claims, history
    <2>k. PICK k : k = call[c]
      OBVIOUS
    <2>0. k \in CallRec /\ CallOK(k) /\ k.pc = "claims" /\ call \in [Callers -> CallRec]
      BY <1>0, <1>21, <2>k DEF Claims, CallOK, CallsOK
    <2>2. ASSUME NEW pc \in {"link", "bind", "join"}, NEW who \in Emails,
                 NEW v \in MailInvites \cup {Nobody},
                 pc = "join" => SentTo(v, who) /\ (mode = "invite_only" => v # Nobody),
                 call' = [call EXCEPT ![c].pc = pc, ![c].email = who,
                                      ![c].subj = s, ![c].inv = v]
          PROVE  CallsOK'
      <3>x. PICK x : x = [k EXCEPT !.pc = pc, !.email = who, !.subj = s, !.inv = v]
        OBVIOUS
      <3>1. x \in CallRec /\ x.pc = pc /\ x.email = who /\ x.inv = v
        BY <2>0, <3>x DEF CallRec
      <3>2. CallOK(x)
        BY <2>2, <3>1 DEF CallOK
      <3>3. call' = [call EXCEPT ![c] = x]
        BY <2>0, <2>2, <2>k, <3>x
      <3>4. CallOK(x)'
        BY <2>1, <3>2, CallStays
      <3> QED
        BY <2>1, <3>3, <3>4, OneCall
    <2>3. CallsOK'
      <3>1. CASE k.email # Nobody
        <4>1. call' = [call EXCEPT ![c].pc = "link", ![c].email = k.email,
                                   ![c].subj = s, ![c].inv = Nobody]
          BY <1>21, <2>k, <3>1 DEF Claims
        <4>2. k.email \in Emails
          BY <2>0, <3>1 DEF CallRec
        <4> QED
          BY <2>2, <4>1, <4>2
      <3>2. CASE /\ identity[<<k.prov, s>>] # Nobody /\ Exists(identity[<<k.prov, s>>])
                 /\ GoOpen(c, identity[<<k.prov, s>>])
        <4>w. PICK w : w = identity[<<k.prov, s>>]
          OBVIOUS
        <4>1. w \in Emails
          BY <1>0, <2>0, <3>2, <4>w DEF Rows, CallOK
        <4> QED
          BY <2>1, <3>2, <4>1, <4>w, CallOpens
      <3>3. CASE /\ e # Nobody
                 /\ \/ call' = [call EXCEPT ![c].pc = "bind", ![c].email = e,
                                            ![c].subj = s, ![c].inv = Nobody]
                    \/ /\ NeedsNoInvitation(e)
                       /\ call' = [call EXCEPT ![c].pc = "join", ![c].email = e,
                                               ![c].subj = s, ![c].inv = Nobody]
                    \/ /\ ValidInvitation(e, k.inv)
                       /\ call' = [call EXCEPT ![c].pc = "join", ![c].email = e,
                                               ![c].subj = s, ![c].inv = k.inv.invite]
        <4>0. e \in Emails
          BY <3>3
        <4>1. NeedsNoInvitation(e) => mode # "invite_only"
          BY DEF NeedsNoInvitation
        <4>2. SentTo(Nobody, e)
          BY DEF SentTo
        <4>3. ASSUME ValidInvitation(e, k.inv)
              PROVE  /\ k.inv.invite \in MailInvites /\ SentTo(k.inv.invite, e)
                     /\ k.inv.invite # Nobody
          BY <1>0, <2>0, <4>3 DEF ValidInvitation, SentTo, CallOK, Link
        <4> QED
          BY <2>2, <3>3, <4>0, <4>1, <4>2, <4>3
      <3> QED
        BY <1>21, <2>k, <3>1, <3>2, <3>3 DEF Claims
    <2> QED
      BY <1>b, <1>d, <2>1, <2>3
  <1>22. ASSUME NEW c \in Callers, NEW e \in Emails, NEW smtp \in BOOLEAN, UnlinkRead(c, e, smtp)
         PROVE  SignInInv'
    <2>1. UNCHANGED <<mode, account, invite, token, flow, provider, identity, joined>>
      BY <1>22 DEF UnlinkRead, history
    <2>x. PICK x : x = [Quiet EXCEPT !.pc = "unlink", !.email = e]
      OBVIOUS
    <2>2. x \in CallRec /\ x.pc = "unlink" /\ x.email = e
      BY <2>x DEF CallRec, Quiet
    <2>3. CallOK(x)
      BY <2>2 DEF CallOK
    <2>4. CallsOK'
      BY <1>22, <1>e, <2>1, <2>3, <2>x DEF UnlinkRead
    <2> QED
      BY <1>a, <1>b, <1>d, <2>1, <2>4
  <1>23. ASSUME NEW c \in Callers, NEW x \in DOMAIN identity, Unlink(c, x) PROVE SignInInv'
    <2>1. /\ UNCHANGED <<mode, account, invite, token, flow, provider, joined>> /\ Forward
          /\ identity' \in [Slugs \X Subjects -> Emails \cup {Nobody}]
      BY <1>0, <1>23, <1>a DEF Unlink, Rows, history
    <2> QED
      BY <1>0, <1>23, <1>b, <1>c, <2>1, CallHangs DEF Unlink, SignInInv, Rows
  <1>24. CASE UNCHANGED evars
    BY <1>24, <1>a, <1>b, <1>d, CallsStay DEF evars
  <1> QED
    BY <1>1, <1>2, <1>3, <1>5, <1>6, <1>7, <1>8, <1>9, <1>10, <1>11, <1>12, <1>13, <1>14,
       <1>15, <1>16, <1>17, <1>18, <1>19, <1>20, <1>21, <1>22, <1>23, <1>24 DEF ExternalNext

\* Wherever an account is made, by mail or through a provider, and however its
\* steps mix with others: an accepted invitation has its account, and where
\* registration is by invitation, whoever joined was invited.
THEOREM JoinedByInvitation == ExternalSpec => []InvitedAndJoined
  <1>1. SignInInv => InvitedAndJoined
    BY DEF SignInInv
  <1> QED
    BY <1>1, SignInInit, SignInStep, PTL DEF ExternalSpec

(* A token that can still be used was used by nobody, and one that a request *)
(* holds is held by that request alone and has opened nothing.               *)
Fresh(k) == token[k] = Nobody \/ token[k].live

Once ==
    /\ opened \in [MailTokens -> 0..1]
    /\ \A k \in MailTokens : Fresh(k) => opened[k] = 0 /\ \A c \in Callers : call[c].tok # k
    /\ \A k \in MailTokens, c \in Callers : call[c].tok = k =>
          opened[k] = 0 /\ \A d \in Callers : call[d].tok = k => d = c

\* A step that hands out no token keeps it so.
LEMMA QuietStep ==
    ASSUME Once, UNCHANGED opened,
           \A k \in MailTokens : Fresh(k)' => Fresh(k),
           \A c \in Callers : call'[c].tok = call[c].tok \/ call'[c].tok = Nobody
    PROVE  Once'
  <1>1. opened' \in [MailTokens -> 0..1]
    BY DEF Once
  <1>2. ASSUME NEW k \in MailTokens, Fresh(k)'
        PROVE  opened'[k] = 0 /\ \A c \in Callers : call'[c].tok # k
    BY <1>2, NobodyAssumption DEF Once
  <1>3. ASSUME NEW k \in MailTokens, NEW c \in Callers, call'[c].tok = k
        PROVE  opened'[k] = 0 /\ \A d \in Callers : call'[d].tok = k => d = c
    BY <1>3, NobodyAssumption DEF Once
  <1> QED
    BY <1>1, <1>2, <1>3 DEF Once

\* One request changes and takes no token.
LEMMA TakesNone ==
    ASSUME SignInInv, NEW c \in Callers, NEW x, x.tok = call[c].tok \/ x.tok = Nobody,
           call' = [call EXCEPT ![c] = x]
    PROVE  \A d \in Callers : call'[d].tok = call[d].tok \/ call'[d].tok = Nobody
  BY DEF SignInInv, CallsOK

\* No step but the use of a token and the opening of a session matters to it.
LEMMA OnceQuietly ==
    ASSUME SignInInv, Once, [ExternalNext]_evars,
           ~\E c \in Callers : OpenSession(c) \/ \E k \in MailTokens : ConsumeToken(c, k)
    PROVE  Once'
  <1>0. /\ token \in [MailTokens -> MailTokenRow \cup {Nobody}] /\ call \in [Callers -> CallRec]
    BY DEF SignInInv, TokensOK, CallsOK
  <1>1. ASSUME UNCHANGED <<token, call, opened>> PROVE Once'
    BY <1>1, QuietStep DEF Fresh
  <1>2. ASSUME NEW c \in Callers, NEW x, x.tok = call[c].tok \/ x.tok = Nobody,
               call' = [call EXCEPT ![c] = x], UNCHANGED <<token, opened>>
        PROVE  Once'
    BY <1>2, TakesNone, QuietStep DEF Fresh
  <1>h. Quiet.tok = Nobody
    BY DEF Quiet
  <1>3. ASSUME NEW c \in Callers, Hang(c), UNCHANGED <<token, opened>> PROVE Once'
    BY <1>3, <1>2, <1>h DEF Hang
  <1>4. ASSUME NEW c \in Callers, NEW pc, Go(c, pc), UNCHANGED <<token, opened>> PROVE Once'
    <2>x. PICK x : x = [call[c] EXCEPT !.pc = pc]
      OBVIOUS
    <2>1. x.tok = call[c].tok
      BY <1>0, <2>x DEF CallRec
    <2>2. call' = [call EXCEPT ![c] = x]
      BY <1>0, <1>4, <2>x DEF Go
    <2> QED
      BY <1>2, <1>4, <2>1, <2>2
  <1>5. ASSUME NEW c \in Callers, NEW e, GoOpen(c, e), UNCHANGED <<token, opened>> PROVE Once'
    <2>k. PICK k : k = call[c].tok
      OBVIOUS
    <2>x. PICK x : x = [Quiet EXCEPT !.pc = "session", !.email = e, !.tok = k]
      OBVIOUS
    <2>1. x.tok = k
      BY <2>x DEF Quiet
    <2>2. call' = [call EXCEPT ![c] = x]
      BY <1>5, <2>k, <2>x DEF GoOpen
    <2> QED
      BY <1>2, <1>5, <2>k, <2>1, <2>2
  <1>6. ASSUME NEW c \in Callers, NEW x, Arrive(c, x), x.tok = Nobody, UNCHANGED <<token, opened>>
        PROVE  Once'
    BY <1>2, <1>6 DEF Arrive
  <1>7. CASE \/ \E e \in Emails, s \in {"there", "deleted"} : SetAccount(e, s)
             \/ \E v \in MailInvites :
                   \/ ResendInvite(v)
                   \/ \E e \in Emails : MailInvite(v, e)
                   \/ \E s \in {"revoked", "expired"} : VoidInvite(v, s)
             \/ \E p \in Providers :
                   DeleteProvider(p) \/ (\E g \in Slugs, on \in BOOLEAN : SaveProvider(p, g, on))
             \/ \E x \in DOMAIN identity : AdminUnlink(x)
             \/ \E f \in Flows :
                   \/ FlowExpires(f)
                   \/ \E p \in Providers, e \in Emails \cup {Nobody}, l \in Link \cup {Nobody} :
                         StartFlow(f, p, e, l)
    <2>1. UNCHANGED <<token, call, opened>>
      BY <1>7 DEF SetAccount, ResendInvite, MailInvite, VoidInvite, DeleteProvider, SaveProvider,
                  AdminUnlink, FlowExpires, StartFlow, history
    <2> QED
      BY <1>1, <2>1
  <1>8. ASSUME NEW k \in MailTokens, TokenEnds(k) PROVE Once'
    <2>1. token[k] \in MailTokenRow /\ Fresh(k) /\ UNCHANGED <<call, opened>>
      BY <1>0, <1>8 DEF TokenEnds, Consumable, Fresh, history
    <2>2. \A j \in MailTokens : Fresh(j)' => Fresh(j)
      BY <1>0, <1>8, <2>1 DEF TokenEnds, Fresh
    <2> QED
      BY <2>1, <2>2, QuietStep
  <1>9. ASSUME NEW c \in Callers, NEW e \in Emails, NEW l \in Link \cup {Nobody},
               RequestLogin(c, e, l)
        PROVE  Once'
    <2>x. PICK x : x = [Quiet EXCEPT !.pc = "retire", !.email = e]
      OBVIOUS
    <2>y. PICK y : y = [Quiet EXCEPT !.pc = "retire", !.email = e, !.inv = l.invite]
      OBVIOUS
    <2>1. x.tok = Nobody /\ y.tok = Nobody
      BY <2>x, <2>y DEF Quiet
    <2>2. (Arrive(c, x) \/ Arrive(c, y)) /\ UNCHANGED <<token, opened>>
      BY <1>9, <2>x, <2>y DEF RequestLogin, history
    <2> QED
      BY <1>6, <2>1, <2>2
  <1>10. ASSUME NEW c \in Callers, RetireTokens(c) PROVE Once'
    <2>1. UNCHANGED opened /\ Go(c, "store")
      BY <1>10 DEF RetireTokens, history
    <2>2. ASSUME NEW k \in MailTokens, Fresh(k)' PROVE Fresh(k)
      <3>1. CASE token[k] # Nobody /\ token[k].email = call[c].email
        <4>1. token'[k] = [token[k] EXCEPT !.live = FALSE] /\ token[k] \in MailTokenRow
          BY <1>0, <1>10, <3>1 DEF RetireTokens
        <4>2. token'[k] \in MailTokenRow /\ token'[k].live = FALSE
          BY <4>1 DEF MailTokenRow
        <4> QED
          BY <2>2, <4>2, NobodyAssumption DEF Fresh
      <3>2. CASE ~(token[k] # Nobody /\ token[k].email = call[c].email)
        <4>1. token'[k] = token[k]
          BY <1>10, <3>2 DEF RetireTokens
        <4> QED
          BY <2>2, <4>1 DEF Fresh
      <3> QED
        BY <3>1, <3>2
    <2>x. PICK x : x = [call[c] EXCEPT !.pc = "store"]
      OBVIOUS
    <2>3. x.tok = call[c].tok /\ call' = [call EXCEPT ![c] = x]
      BY <1>0, <2>1, <2>x DEF CallRec, Go
    <2> QED
      BY <2>1, <2>2, <2>3, TakesNone, QuietStep
  <1>11. ASSUME NEW c \in Callers, FindUser(c) PROVE Once'
    <2>1. (Go(c, "accept") \/ Go(c, "create") \/ Hang(c)) /\ UNCHANGED <<token, opened>>
      BY <1>11 DEF FindUser, history
    <2> QED
      BY <1>3, <1>4, <2>1
  <1>12. ASSUME NEW c \in Callers, CreateByMail(c) PROVE Once'
    <2>1. (Go(c, "accept") \/ Hang(c)) /\ UNCHANGED <<token, opened>>
      BY <1>12 DEF CreateByMail
    <2> QED
      BY <1>3, <1>4, <2>1
  <1>13. ASSUME NEW c \in Callers, AcceptInvite(c) PROVE Once'
    <2>1. GoOpen(c, call[c].email) /\ UNCHANGED <<token, opened>>
      BY <1>13 DEF AcceptInvite, history
    <2> QED
      BY <1>5, <2>1
  <1>14. ASSUME NEW c \in Callers, BindIdentity(c) PROVE Once'
    <2>1. (GoOpen(c, call[c].email) \/ Hang(c)) /\ UNCHANGED <<token, opened>>
      BY <1>14 DEF BindIdentity, history
    <2> QED
      BY <1>3, <1>5, <2>1
  <1>15. ASSUME NEW c \in Callers, Join(c) PROVE Once'
    <2>1. (GoOpen(c, call[c].email) \/ Hang(c)) /\ UNCHANGED <<token, opened>>
      BY <1>15 DEF Join
    <2> QED
      BY <1>3, <1>5, <2>1
  <1>16. ASSUME NEW c \in Callers, CallEnds(c) PROVE Once'
    <2>1. Hang(c) /\ UNCHANGED <<token, opened>>
      BY <1>16 DEF CallEnds, history
    <2> QED
      BY <1>3, <2>1
  <1>17. ASSUME NEW c \in Callers, NEW k \in MailTokens, StoreToken(c, k) PROVE Once'
    <2>1. UNCHANGED opened /\ call' = [call EXCEPT ![c] = Quiet]
      BY <1>17 DEF StoreToken, Hang, history
    <2>2. \A j \in MailTokens : Fresh(j)' => Fresh(j)
      BY <1>0, <1>17 DEF StoreToken, Fresh
    <2> QED
      BY <1>h, <2>1, <2>2, TakesNone, QuietStep
  <1>18. ASSUME NEW c \in Callers, NEW l \in Link, UseInvitation(c, l) PROVE Once'
    <2>1. PICK e \in Emails :
             Arrive(c, [Quiet EXCEPT !.pc = "user", !.email = e, !.inv = l.invite])
      BY <1>18 DEF UseInvitation
    <2>x. PICK x : x = [Quiet EXCEPT !.pc = "user", !.email = e, !.inv = l.invite]
      OBVIOUS
    <2>2. x.tok = Nobody
      BY <2>x DEF Quiet
    <2>3. UNCHANGED <<token, opened>>
      BY <1>18 DEF UseInvitation, history
    <2> QED
      BY <1>6, <2>1, <2>x, <2>2, <2>3
  <1>19. ASSUME NEW c \in Callers, NEW f \in Flows, Callback(c, f) PROVE Once'
    <2>x. PICK x : x = [Quiet EXCEPT !.pc = "claims", !.email = flow[f].link,
                                     !.inv = flow[f].inv, !.prov = flow[f].slug]
      OBVIOUS
    <2>1. x.tok = Nobody
      BY <2>x DEF Quiet
    <2>2. (Arrive(c, x) \/ UNCHANGED call) /\ UNCHANGED <<token, opened>>
      BY <1>19, <2>x DEF Callback, history
    <2> QED
      BY <1>1, <1>6, <2>1, <2>2
  <1>20. ASSUME NEW c \in Callers, NEW s \in Subjects, NEW e \in Emails \cup {Nobody},
                Claims(c, s, e)
         PROVE  Once'
    <2>1. UNCHANGED <<token, opened>>
      BY <1>20 DEF Claims, history
    <2>2. ASSUME NEW pc, NEW who, NEW v,
                 call' = [call EXCEPT ![c].pc = pc, ![c].email = who,
                                      ![c].subj = s, ![c].inv = v]
          PROVE  Once'
      <3>k. PICK k : k = call[c]
        OBVIOUS
      <3>x. PICK x : x = [k EXCEPT !.pc = pc, !.email = who, !.subj = s, !.inv = v]
        OBVIOUS
      <3>1. x.tok = k.tok
        BY <1>0, <3>k, <3>x DEF CallRec
      <3>2. call' = [call EXCEPT ![c] = x]
        BY <1>0, <2>2, <3>k, <3>x
      <3> QED
        BY <1>2, <2>1, <3>k, <3>1, <3>2
    <2>w. PICK w : w = identity[<<call[c].prov, s>>]
      OBVIOUS
    <2>3. CASE call[c].email # Nobody
      <3>1. call' = [call EXCEPT ![c].pc = "link", ![c].email = call[c].email,
                                 ![c].subj = s, ![c].inv = Nobody]
        BY <1>20, <2>3 DEF Claims
      <3> QED
        BY <2>2, <3>1
    <2>4. CASE GoOpen(c, w)
      BY <1>5, <2>1, <2>4
    <2>5. CASE call[c].email = Nobody /\ ~GoOpen(c, w)
      <3>1. \/ call' = [call EXCEPT ![c].pc = "bind", ![c].email = e,
                                    ![c].subj = s, ![c].inv = Nobody]
            \/ call' = [call EXCEPT ![c].pc = "join", ![c].email = e,
                                    ![c].subj = s, ![c].inv = Nobody]
            \/ call' = [call EXCEPT ![c].pc = "join", ![c].email = e,
                                    ![c].subj = s, ![c].inv = call[c].inv.invite]
        BY <1>20, <2>5, <2>w DEF Claims
      <3> QED
        BY <2>2, <3>1
    <2> QED
      BY <2>3, <2>4, <2>5
  <1>21. ASSUME NEW c \in Callers, NEW e \in Emails, NEW smtp \in BOOLEAN, UnlinkRead(c, e, smtp)
         PROVE  Once'
    <2>x. PICK x : x = [Quiet EXCEPT !.pc = "unlink", !.email = e]
      OBVIOUS
    <2>1. x.tok = Nobody
      BY <2>x DEF Quiet
    <2>2. Arrive(c, x) /\ UNCHANGED <<token, opened>>
      BY <1>21, <2>x DEF UnlinkRead, history
    <2> QED
      BY <1>6, <2>1, <2>2
  <1>22. ASSUME NEW c \in Callers, NEW x \in DOMAIN identity, Unlink(c, x) PROVE Once'
    <2>1. Hang(c) /\ UNCHANGED <<token, opened>>
      BY <1>22 DEF Unlink, history
    <2> QED
      BY <1>3, <2>1
  <1>23. CASE UNCHANGED evars
    BY <1>1, <1>23 DEF evars
  <1> QED
    BY <1>7, <1>8, <1>9, <1>10, <1>11, <1>12, <1>13, <1>14, <1>15, <1>16, <1>17, <1>18,
       <1>19, <1>20, <1>21, <1>22, <1>23 DEF ExternalNext

LEMMA OnceInit == ExternalInit => Once
  BY NobodyAssumption DEF ExternalInit, Once, Quiet

LEMMA OnceStep == SignInInv /\ Once /\ [ExternalNext]_evars => Once'
  <1> SUFFICES ASSUME SignInInv, Once, [ExternalNext]_evars PROVE Once'
    OBVIOUS
  <1>0. /\ token \in [MailTokens -> MailTokenRow \cup {Nobody}] /\ call \in [Callers -> CallRec]
    BY DEF SignInInv, TokensOK, CallsOK
  <1>1. ASSUME NEW c \in Callers, OpenSession(c) PROVE Once'
    <2>1. UNCHANGED token /\ call' = [call EXCEPT ![c] = Quiet]
      BY <1>1 DEF OpenSession, Hang
    <2>2. \A d \in Callers : call'[d].tok = IF d = c THEN Nobody ELSE call[d].tok
      BY <1>0, <2>1 DEF Quiet
    <2>3. CASE UNCHANGED opened
      BY <2>1, <2>2, <2>3, QuietStep DEF Fresh
    <2>4. CASE call[c].tok # Nobody /\ opened' = [opened EXCEPT ![call[c].tok] = @ + 1]
      <3>k. PICK k \in MailTokens : k = call[c].tok
        BY <1>0, <2>4 DEF CallRec
      <3>1. opened[k] = 0 /\ ~Fresh(k) /\ \A d \in Callers : call[d].tok = k => d = c
        BY <3>k DEF Once
      <3>2. /\ opened' \in [MailTokens -> 0..1]
            /\ \A j \in MailTokens : j # k => opened'[j] = opened[j]
        BY <2>4, <3>k, <3>1 DEF Once
      <3>3. ASSUME NEW j \in MailTokens, Fresh(j)'
            PROVE  opened'[j] = 0 /\ \A d \in Callers : call'[d].tok # j
        BY <2>1, <2>2, <3>1, <3>2, <3>3, NobodyAssumption DEF Once, Fresh
      <3>4. ASSUME NEW j \in MailTokens, NEW d \in Callers, call'[d].tok = j
            PROVE  opened'[j] = 0 /\ \A b \in Callers : call'[b].tok = j => b = d
        BY <2>2, <3>1, <3>2, <3>4, NobodyAssumption DEF Once
      <3> QED
        BY <3>2, <3>3, <3>4 DEF Once
    <2> QED
      BY <1>1, <2>3, <2>4 DEF OpenSession
  <1>2. ASSUME NEW c \in Callers, NEW k \in MailTokens, ConsumeToken(c, k) PROVE Once'
    <2>x. PICK x : x = [Quiet EXCEPT !.pc = "user", !.email = token[k].email,
                                     !.inv = token[k].inv, !.tok = k]
      OBVIOUS
    <2>1. x.tok = k
      BY <2>x DEF Quiet
    <2>2. call' = [call EXCEPT ![c] = x] /\ UNCHANGED opened
      BY <1>2, <2>x DEF ConsumeToken, Arrive, history
    <2>3. \A d \in Callers : call'[d].tok = IF d = c THEN k ELSE call[d].tok
      BY <1>0, <2>1, <2>2
    <2>4. token[k] \in MailTokenRow /\ Fresh(k)
      BY <1>0, <1>2 DEF ConsumeToken, Consumable, Fresh
    <2>5. token' = [token EXCEPT ![k].live = FALSE]
      BY <1>2 DEF ConsumeToken
    <2>6. token'[k].live = FALSE /\ token'[k] \in MailTokenRow
      BY <1>0, <2>4, <2>5 DEF MailTokenRow
    <2>7. \A j \in MailTokens : Fresh(j)' => Fresh(j) /\ j # k
      BY <1>0, <2>5, <2>6, NobodyAssumption DEF Fresh
    <2>8. opened[k] = 0 /\ \A d \in Callers : call[d].tok # k
      BY <2>4 DEF Once
    <2>9. ASSUME NEW j \in MailTokens, Fresh(j)'
          PROVE  opened'[j] = 0 /\ \A d \in Callers : call'[d].tok # j
      BY <2>2, <2>3, <2>7, <2>9 DEF Once
    <2>10. ASSUME NEW j \in MailTokens, NEW d \in Callers, call'[d].tok = j
           PROVE  opened'[j] = 0 /\ \A b \in Callers : call'[b].tok = j => b = d
      BY <2>2, <2>3, <2>8, <2>10 DEF Once
    <2> QED
      BY <2>2, <2>9, <2>10 DEF Once
  <1> QED
    BY <1>1, <1>2, OnceQuietly

\* However often its link and its code are sent in, and whatever else signs in
\* meanwhile, a login token opens at most one session.
THEOREM TokenUsedOnce == ExternalSpec => []TokenOpensOnce
  <1>1. Once => TokenOpensOnce
    BY DEF Once, TokenOpensOnce
  <1> QED
    BY <1>1, SignInInit, SignInStep, OnceInit, OnceStep, PTL DEF ExternalSpec

\* The types of the sign-in state.
THEOREM SignInTypeCorrect == ExternalSpec => []ExternalTypeOK
  <1>1. SignInInv /\ Once => ExternalTypeOK
    BY DEF SignInInv, Rows, TokensOK, CallsOK, CallRec, Once, ExternalTypeOK
  <1> QED
    BY <1>1, SignInInit, SignInStep, OnceInit, OnceStep, PTL DEF ExternalSpec

\* Requests that bind the same identity at the same time do not take it from
\* each other: it stays with its account until it is unlinked.  A provider that
\* is saved, under another slug too, keeps the identities it has.
THEOREM IdentityKeepsOwner == ExternalSpec => IdentityStays
  <1> DEFINE Kept == \A x \in DOMAIN identity :
                        identity[x] # Nobody => identity'[x] \in {identity[x], Nobody}
             Followed == \A p \in Providers, s \in Subjects :
                provider'[p] # provider[p] /\ Owner(p, s) # Nobody => Owner(p, s)' = Owner(p, s)
  <1>1. SignInInv /\ [ExternalNext]_evars => [Kept /\ Followed]_evars
    <2> SUFFICES ASSUME SignInInv, ExternalNext PROVE Kept /\ Followed
      OBVIOUS
    <2>1. /\ identity \in [Slugs \X Subjects -> Emails \cup {Nobody}]
          /\ provider \in [Providers -> ProviderRow \cup {Nobody}]
      BY DEF SignInInv, Rows
    <2>2. ASSUME NEW y, NEW e, UNCHANGED provider,
                 \/ UNCHANGED identity
                 \/ identity' = [identity EXCEPT ![y] = Nobody]
                 \/ identity' = Bound(y, e)
                 \/ identity[y] = Nobody /\ identity' = [identity EXCEPT ![y] = e]
                 \/ identity' = [identity EXCEPT ![y] = IF @ = e THEN Nobody ELSE @]
          PROVE  Kept /\ Followed
      BY <2>1, <2>2 DEF Bound
    <2>3. CASE \E c \in Callers : BindIdentity(c)
      BY <2>2, <2>3 DEF BindIdentity
    <2>4. CASE \E c \in Callers : Join(c)
      BY <2>2, <2>4 DEF Join
    <2>5. CASE \E c \in Callers, x \in DOMAIN identity : Unlink(c, x)
      BY <2>2, <2>5 DEF Unlink
    <2>6. CASE \E x \in DOMAIN identity : AdminUnlink(x)
      BY <2>2, <2>6 DEF AdminUnlink
    <2>7. ASSUME NEW p \in Providers, DeleteProvider(p) PROVE Kept /\ Followed
      <3>1. /\ UNCHANGED identity /\ \A s \in Subjects : Owner(p, s) = Nobody
            /\ \A q \in Providers \ {p} : provider'[q] = provider[q]
        BY <2>1, <2>7 DEF DeleteProvider, Owner
      <3> QED
        BY <3>1
    <2>8. ASSUME NEW p \in Providers, NEW g \in Slugs, NEW on \in BOOLEAN, SaveProvider(p, g, on)
          PROVE  Kept /\ Followed
      <3>r. PICK r : r = [slug |-> g, enabled |-> on]
        OBVIOUS
      <3>1. /\ r \in ProviderRow /\ r # Nobody /\ r.slug = g
            /\ provider'[p] = r /\ \A q \in Providers \ {p} : provider'[q] = provider[q]
        BY <2>1, <2>8, <3>r, NobodyAssumption DEF SaveProvider, ProviderRow
      <3>2. ASSUME NEW s \in Subjects PROVE Owner(p, s)' = identity'[<<g, s>>]
        BY <3>1 DEF Owner
      <3>3. CASE provider[p] = Nobody
        <4>1. UNCHANGED identity /\ \A s \in Subjects : Owner(p, s) = Nobody
          BY <2>8, <3>3 DEF SaveProvider, Owner
        <4> QED
          BY <3>1, <4>1
      <3>4. CASE provider[p] # Nobody /\ provider[p].slug = g
        <4>1. UNCHANGED identity
          BY <2>8, <3>4 DEF SaveProvider
        <4>2. \A s \in Subjects : Owner(p, s) = identity[<<g, s>>]
          BY <3>4 DEF Owner
        <4> QED
          BY <3>1, <3>2, <4>1, <4>2
      <3>5. CASE provider[p] # Nobody /\ provider[p].slug # g
        <4>o. PICK old : old = provider[p].slug
          OBVIOUS
        <4>1. /\ old \in Slugs /\ old # g
              /\ Movable(old, g) /\ identity' = Renamed(old, g)
          BY <2>1, <2>8, <3>5, <4>o DEF SaveProvider, ProviderRow
        <4>2. ASSUME NEW h \in Slugs, NEW s \in Subjects
              PROVE  identity'[<<h, s>>] =
                        IF h = old THEN Nobody
                        ELSE IF h = g /\ identity[<<old, s>>] # Nobody THEN identity[<<old, s>>]
                        ELSE identity[<<h, s>>]
          <5>1. <<h, s>> \in Slugs \X Subjects /\ <<h, s>>[1] = h /\ <<h, s>>[2] = s
            OBVIOUS
          <5> QED
            BY <4>1, <5>1 DEF Renamed
        <4>3. Kept
          <5>1. ASSUME NEW h \in Slugs, NEW s \in Subjects, identity[<<h, s>>] # Nobody
                PROVE  identity'[<<h, s>>] \in {identity[<<h, s>>], Nobody}
            BY <4>1, <4>2, <5>1 DEF Movable
          <5>2. ASSUME NEW x \in DOMAIN identity PROVE \E h \in Slugs, s \in Subjects : x = <<h, s>>
            BY <2>1, <5>2
          <5> QED
            BY <5>1, <5>2
        <4>4. ASSUME NEW s \in Subjects, Owner(p, s) # Nobody PROVE Owner(p, s)' = Owner(p, s)
          <5>1. Owner(p, s) = identity[<<old, s>>]
            BY <3>5, <4>o DEF Owner
          <5>2. identity'[<<g, s>>] = identity[<<old, s>>]
            BY <4>1, <4>2, <4>4, <5>1
          <5> QED
            BY <3>2, <5>1, <5>2
        <4> QED
          BY <3>1, <4>3, <4>4
      <3> QED
        BY <3>3, <3>4, <3>5
    <2>9. CASE /\ ~\E c \in Callers : BindIdentity(c) \/ Join(c) \/ \E x \in DOMAIN identity : Unlink(c, x)
               /\ ~\E x \in DOMAIN identity : AdminUnlink(x)
               /\ ~\E p \in Providers :
                     DeleteProvider(p) \/ (\E g \in Slugs, on \in BOOLEAN : SaveProvider(p, g, on))
      <3>1. ASSUME NEW c \in Callers,
                   \/ \E e \in Emails, l \in Link \cup {Nobody} : RequestLogin(c, e, l)
                   \/ RetireTokens(c) \/ FindUser(c) \/ CreateByMail(c) \/ AcceptInvite(c)
                   \/ OpenSession(c) \/ CallEnds(c)
            PROVE  UNCHANGED <<identity, provider>>
        BY <3>1 DEF RequestLogin, RetireTokens, FindUser, CreateByMail, AcceptInvite,
                    OpenSession, CallEnds
      <3>2. ASSUME NEW c \in Callers,
                   \/ \E k \in MailTokens : StoreToken(c, k) \/ ConsumeToken(c, k)
                   \/ \E l \in Link : UseInvitation(c, l)
                   \/ \E f \in Flows : Callback(c, f)
                   \/ \E s \in Subjects, e \in Emails \cup {Nobody} : Claims(c, s, e)
                   \/ \E e \in Emails, smtp \in BOOLEAN : UnlinkRead(c, e, smtp)
            PROVE  UNCHANGED <<identity, provider>>
        BY <3>2 DEF StoreToken, ConsumeToken, UseInvitation, Callback, Claims, UnlinkRead
      <3>3. ASSUME \/ \E e \in Emails, s \in {"there", "deleted"} : SetAccount(e, s)
                   \/ \E v \in MailInvites :
                         \/ ResendInvite(v)
                         \/ \E e \in Emails : MailInvite(v, e)
                         \/ \E s \in {"revoked", "expired"} : VoidInvite(v, s)
                   \/ \E k \in MailTokens : TokenEnds(k)
                   \/ \E f \in Flows :
                         \/ FlowExpires(f)
                         \/ \E p \in Providers, e \in Emails \cup {Nobody}, l \in Link \cup {Nobody} :
                               StartFlow(f, p, e, l)
            PROVE  UNCHANGED <<identity, provider>>
        BY <3>3 DEF SetAccount, ResendInvite, MailInvite, VoidInvite, TokenEnds, FlowExpires, StartFlow
      <3>4. UNCHANGED <<identity, provider>>
        BY <2>9, <3>1, <3>2, <3>3 DEF ExternalNext
      <3> QED
        BY <3>4
    <2> QED
      BY <2>3, <2>4, <2>5, <2>6, <2>7, <2>8, <2>9
  <1> QED
    BY <1>1, SignInInit, SignInStep, PTL DEF ExternalSpec, IdentityStays
=============================================================================
