--------------------------- MODULE DurableConfig ---------------------------
(***************************************************************************)
(* What the configuration of the server promises its operator, whatever    *)
(* the number of requests that change it at once: a change is stored       *)
(* before it is in force, it is put in force at most once, and a restart   *)
(* puts in force what is stored, but for what the service owns.  A change  *)
(* edits the document: it replaces all of it or one field.  Nothing orders *)
(* two changes.                                                            *)
(***************************************************************************)
CONSTANTS Writers,       \* requests that may change the configuration
          Documents,     \* configuration documents
          Edits,         \* changes of a document
          NoEdit,
          Apply(_, _),   \* Apply(e, d): document d after the change e
          AtStart(_)     \* AtStart(d): what a start may make of the stored d

VARIABLES stored,        \* the document in the database
          inForce,       \* the document requests are served with
          pending        \* pending[w]: stored by w, not yet in force

dvars == <<stored, inForce, pending>>

DInit ==
    /\ stored \in Documents
    /\ inForce \in AtStart(stored)
    /\ pending = [w \in Writers |-> NoEdit]

Store(w) ==
    /\ pending[w] = NoEdit
    /\ \E e \in Edits :
          /\ stored' = Apply(e, stored)
          /\ \/ pending' = [pending EXCEPT ![w] = e]
             \/ pending' = pending       \* the writer is gone
    /\ UNCHANGED inForce

Enforce(w) ==
    /\ pending[w] # NoEdit
    /\ inForce' = Apply(pending[w], inForce)
    /\ pending' = [pending EXCEPT ![w] = NoEdit]
    /\ UNCHANGED stored

Abandon(w) ==
    /\ pending[w] # NoEdit
    /\ pending' = [pending EXCEPT ![w] = NoEdit]
    /\ UNCHANGED <<stored, inForce>>

Start ==
    /\ inForce' \in AtStart(stored)
    /\ pending' = [w \in Writers |-> NoEdit]
    /\ UNCHANGED stored

DNext == Start \/ \E w \in Writers : Store(w) \/ Enforce(w) \/ Abandon(w)

DSpec == DInit /\ [][DNext]_dvars
=============================================================================
