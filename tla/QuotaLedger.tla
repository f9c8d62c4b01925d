---------------------------- MODULE QuotaLedger ----------------------------
(***************************************************************************)
(* What the quota promises its operator: a ledger without counters, which  *)
(* knows every hold.  A request is judged by what it read of the policy    *)
(* when it was asked and by the policy when it is admitted; it is admitted *)
(* only if the bytes paid and all the holds that are open leave room at    *)
(* every scope; it pays once, where it holds.  The hold of a request that  *)
(* never gets to pay stays open.                                           *)
(***************************************************************************)
EXTENDS Naturals, Functions

CONSTANTS Payers,          \* requests, each used once
          Callers,         \* who may ask
          Members,         \* who may download
          Scopes,
          NoLimit,
          Amounts,         \* bytes that may be paid at once
          Snapshot(_, _),  \* Snapshot(p, u): what a request of u reads of policy p
          Served(_, _),    \* Served(p, a): is the caller of a served under p
          Limits(_, _),    \* Limits(p, a): the limit at each scope of a, under p
          Size(_)          \* Size(a): what a request holds

VARIABLES policy,  \* everything that administrators and the calendar change
          entry,   \* entry[r]: what the ledger knows of request r
          paid     \* paid[m][s]: bytes paid in month m at scope s

lvars == <<policy, entry, paid>>

\* The bytes on hold in month m at scope s.
Open(m, s) ==
    SumFunction([r \in Payers |->
        IF entry[r].state = "holding" /\ entry[r].month = m /\ s \in entry[r].scopes
        THEN entry[r].amount ELSE 0])

Room(a, bytes) ==
    LET limits == Limits(policy, a)
    IN  \A s \in DOMAIN limits :
            limits[s] # NoLimit => paid[a.month][s] + Open(a.month, s) + bytes <= limits[s]

PayAt(m, scopes, bytes) ==
    [paid EXCEPT ![m] = [s \in Scopes |-> IF s \in scopes THEN @[s] + bytes ELSE @[s]]]

LInit ==
    /\ entry = [r \in Payers |-> [state |-> "new"]]
    /\ \A m \in DOMAIN paid : paid[m] = [s \in Scopes |-> 0]

Ask(r, u) ==
    /\ entry[r].state = "new"
    /\ entry' = [entry EXCEPT ![r] = [state |-> "asking", ask |-> Snapshot(policy, u)]]
    /\ UNCHANGED <<policy, paid>>

Admit(r) ==
    /\ entry[r].state = "asking"
    /\ LET a == entry[r].ask
       IN  /\ Served(policy, a)
           /\ Room(a, Size(a))
           /\ entry' = [entry EXCEPT ![r] =
                    [state |-> "holding", month |-> a.month,
                     scopes |-> DOMAIN Limits(policy, a), amount |-> Size(a)]]
    /\ UNCHANGED <<policy, paid>>

Refuse(r) ==
    /\ entry[r].state = "asking"
    /\ entry' = [entry EXCEPT ![r] = [state |-> "over"]]
    /\ UNCHANGED <<policy, paid>>

Pay(r) ==
    /\ entry[r].state = "holding"
    /\ \E n \in Amounts : paid' = PayAt(entry[r].month, entry[r].scopes, n)
    /\ entry' = [entry EXCEPT ![r] = [state |-> "over"]]
    /\ UNCHANGED policy

\* A download pays each part when it is delivered.
Charge(u) ==
    LET a == Snapshot(policy, u)
    IN  /\ Served(policy, a)
        /\ UNCHANGED <<policy, entry>>
        /\ \E n \in Amounts : /\ paid' = PayAt(a.month, DOMAIN Limits(policy, a), n)
                              /\ Room(a, n)

\* The process stops: nobody asks any more, the holds stay.
Stop ==
    /\ entry' = [r \in Payers |-> IF entry[r].state = "asking" THEN [state |-> "over"]
                                  ELSE entry[r]]
    /\ UNCHANGED <<policy, paid>>

ChangePolicy == UNCHANGED <<entry, paid>>

LNext ==
    \/ ChangePolicy
    \/ \E r \in Payers : \/ \E u \in Callers : Ask(r, u)
                         \/ Admit(r) \/ Refuse(r) \/ Pay(r)
    \/ \E u \in Members : Charge(u)
    \/ Stop

LSpec == LInit /\ [][LNext]_lvars
=============================================================================
