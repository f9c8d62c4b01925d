------------------------ MODULE AdminAccountsProofs ------------------------
(***************************************************************************)
(* TLAPS proofs about RuntimeConfig and AdminAccounts, for any number of   *)
(* overlapping requests and every choice of documents, forms, service      *)
(* files, names, tokens, authenticators and failure limit.                 *)
(***************************************************************************)
EXTENDS AdminAccounts, TLAPS

-----------------------------------------------------------------------------
(* The configuration is well typed.                                         *)

AnyEdit == AllEdits \cup GlassEdits \cup AcmeEdits
Steps == {"idle", "checking", "saving", "saved", "configured", "written", "client"}
Handler == [pc : Steps, edit : AnyEdit \cup {NoEdit},
            cur : Docs \cup {NoEdit}, acme : Secrets \cup {NoEdit}]

(* Which edit a request carries at which step, and what it has read. *)
Carries(e) ==
    /\ e.pc = "idle" => e = Idle
    /\ e.pc # "idle" => e.edit \in AnyEdit
    /\ e.pc \in {"checking", "configured", "written", "client"} => e.edit \in AllEdits
    /\ e.pc = "saving" => e.edit \notin GlassEdits
    /\ e.edit \in AllEdits => e.cur \in Docs /\ e.acme \in Secrets

ConfigInv ==
    /\ ConfigTypeOK
    /\ \A i \in Handlers : Carries(h[i])

\* The three kinds of edit are told apart by their kind.
LEMMA EditKinds ==
    ASSUME NEW e \in AnyEdit
    PROVE  /\ e # NoEdit
           /\ e.kind = "all" <=> e \in AllEdits
           /\ e.kind = "glass" <=> e \in GlassEdits
           /\ e.kind = "acme" <=> e \in AcmeEdits
           /\ e.kind \in {"all", "glass", "acme"}
  BY NoEditAssumption DEF NoEditAssumption, AnyEdit, AllEdits, GlassEdits, AcmeEdits

\* A document stays a document under every edit.
LEMMA ApplyType ==
    ASSUME NEW e \in AnyEdit, NEW d \in Docs
    PROVE  Apply(e, d) \in Docs
  <1>1. CASE e \in AllEdits
    BY <1>1 DEF AllEdits, Apply
  <1>2. CASE e \in GlassEdits
    BY <1>2 DEF GlassEdits, Apply, Docs
  <1>3. CASE e \in AcmeEdits
    BY <1>3 DEF AcmeEdits, Apply
  <1> QED
    BY <1>1, <1>2, <1>3 DEF AnyEdit

\* A form completed from a document is a document.
LEMMA CompletedType ==
    ASSUME NEW form \in Forms, NEW d \in Docs
    PROVE  Completed(form, d) \in Docs
  BY InputsAssumption DEF InputsAssumption, Completed, Docs

\* What a start makes of a document is a document.
LEMMA StartedType ==
    ASSUME NEW d \in Docs, NEW f \in Files
    PROVE  Started(d, f) \in Docs /\ Started(d, f) \in Starts(d)
  <1>1. f.net \in Nets
    BY InputsAssumption DEF InputsAssumption
  <1> QED
    BY <1>1 DEF Started, Starts, Docs

\* An idle request is well formed.
LEMMA IdleType == Idle \in Handler /\ Carries(Idle)
  BY NoEditAssumption DEF NoEditAssumption, Idle, Handler, Carries, Steps, AnyEdit

\* A step that changes one request to a well-formed one keeps them all so.
LEMMA OneHandler ==
    ASSUME ConfigInv, NEW i \in Handlers, NEW e \in Handler, Carries(e),
           h' = [h EXCEPT ![i] = e]
    PROVE  h' \in [Handlers -> Handler] /\ \A j \in Handlers : Carries(h'[j])
  BY DEF ConfigInv, ConfigTypeOK, Handler, Steps, AnyEdit

\* Moving on with the same edit keeps a request well formed.
LEMMA GotoType ==
    ASSUME ConfigInv, NEW i \in Handlers, NEW pc \in Steps \ {"idle"},
           h[i].pc # "idle", pc # "saved" => h[i].edit \in AllEdits, Goto(i, pc)
    PROVE  h' \in [Handlers -> Handler] /\ \A j \in Handlers : Carries(h'[j])
  <1> DEFINE e == [h[i] EXCEPT !.pc = pc]
  <1>1. h[i] \in Handler /\ Carries(h[i])
    BY DEF ConfigInv, ConfigTypeOK, Handler, Steps, AnyEdit
  <1>2. e \in Handler
    BY <1>1 DEF Handler
  <1>3. e.edit \in AllEdits => e.edit \notin GlassEdits
    BY DEF AllEdits, GlassEdits
  <1>4. Carries(e)
    BY <1>1, <1>3 DEF Carries, Handler
  <1>5. h' = [h EXCEPT ![i] = e]
    BY DEF Goto, ConfigInv, ConfigTypeOK
  <1> QED
    BY <1>2, <1>4, <1>5, OneHandler

LEMMA ConfigInvInit == ConfigInit => ConfigInv
  <1> SUFFICES ASSUME ConfigInit PROVE ConfigInv
    OBVIOUS
  <1>1. file \in Files /\ file.mgmt \in Addrs /\ file.acme \in Secrets /\ row \in Docs
    BY InputsAssumption DEF InputsAssumption, ConfigInit, Docs, Policies
  <1>2. h \in [Handlers -> Handler] /\ \A i \in Handlers : Carries(h[i])
    BY IdleType DEF ConfigInit
  <1>3. row.net \in Nets /\ row.passkeys \in Policies
    BY <1>1 DEF Docs
  <1> QED
    BY <1>1, <1>2, <1>3 DEF ConfigInit, ConfigInv, ConfigTypeOK, Handler, Steps, AnyEdit

LEMMA ConfigInvStep == ConfigInv /\ [ConfigNext]_cvars => ConfigInv'
  <1> SUFFICES ASSUME ConfigInv, [ConfigNext]_cvars PROVE ConfigInv'
    OBVIOUS
  <1> DEFINE HandlersOK == h' \in [Handlers -> Handler] /\ \A j \in Handlers : Carries(h'[j])
  <1>0. /\ ConfigTypeOK /\ file.mgmt \in Addrs /\ file.acme \in Secrets
        /\ \A i \in Handlers : h[i] \in Handler /\ Carries(h[i])
    BY InputsAssumption DEF InputsAssumption, ConfigInv, ConfigTypeOK, Handler, Steps, AnyEdit
  <1> HIDE DEF HandlersOK
  <1>a. ASSUME HandlersOK, UNCHANGED <<file, row, acmeRow, up, live>>, settled' \in BOOLEAN
        PROVE  ConfigInv'
    BY <1>a, <1>0 DEF HandlersOK, ConfigInv, ConfigTypeOK, live, objects, Handler, Steps, AnyEdit
  <1>b. ASSUME NEW i \in Handlers, Done(i) PROVE HandlersOK
    BY <1>b, OneHandler, IdleType DEF Done, HandlersOK
  <1>1. CASE Restart
    <2>1. memory' \in Docs
      BY <1>0, <1>1, StartedType DEF Restart, ConfigTypeOK
    <2>2. memory'.net \in Nets /\ memory'.passkeys \in Policies
      BY <2>1 DEF Docs
    <2>3. h' \in [Handlers -> Handler] /\ \A j \in Handlers : Carries(h'[j])
      BY <1>1, IdleType DEF Restart
    <2> QED
      BY <1>0, <1>1, <2>1, <2>2, <2>3
         DEF Restart, ConfigInv, ConfigTypeOK, Handler, Steps, AnyEdit
  <1>2. CASE EditFile
    BY <1>0, <1>2 DEF EditFile, ConfigInv, ConfigTypeOK, live, objects
  <1>3. ASSUME NEW i \in Handlers, NEW form \in Forms, UpdateConfig(i, form)
        PROVE  ConfigInv'
    <2> DEFINE next == Completed(form, memory)
               e(pc) == [pc |-> pc, edit |-> [kind |-> "all", doc |-> next],
                         cur |-> memory, acme |-> acme]
    <2>1. next \in Docs /\ memory \in Docs /\ acme \in Secrets
      BY <1>0, CompletedType DEF ConfigTypeOK
    <2> HIDE DEF next
    <2>2. [kind |-> "all", doc |-> next] \in AllEdits
          /\ [kind |-> "all", doc |-> next] \notin GlassEdits
      BY <2>1 DEF AllEdits, GlassEdits
    <2>3. \A pc \in {"checking", "saving"} : e(pc) \in Handler /\ Carries(e(pc))
      BY <2>1, <2>2 DEF Handler, Carries, Steps, AnyEdit
    <2>4. \E pc \in {"checking", "saving"} : h' = [h EXCEPT ![i] = e(pc)]
      BY <1>3 DEF UpdateConfig, Begin, next
    <2>5. HandlersOK
      BY <2>3, <2>4, OneHandler DEF HandlersOK
    <2> QED
      BY <1>0, <1>3, <1>a, <2>5 DEF UpdateConfig, Begin, ConfigTypeOK
  <1>4. ASSUME NEW i \in Handlers, NEW ready \in BOOLEAN, UpdateReady(i, ready)
        PROVE  ConfigInv'
    <2>1. HandlersOK
      <3>1. CASE ready
        BY <1>0, <1>4, <3>1, GotoType DEF UpdateReady, Steps, HandlersOK, Carries
      <3>2. CASE ~ready
        BY <1>4, <1>b, <3>2 DEF UpdateReady
      <3> QED
        BY <3>1, <3>2
    <2> QED
      BY <1>0, <1>4, <1>a, <2>1 DEF UpdateReady, ConfigTypeOK
  <1>5. ASSUME NEW i \in Handlers, NEW s \in Secrets \cup {Blank}, UpdateAcme(i, s)
        PROVE  ConfigInv'
    <2> DEFINE a == IF s = Blank THEN acmeRow ELSE s
               e == [Idle EXCEPT !.pc = "saving", !.edit = [kind |-> "acme", acme |-> a]]
    <2>1. a \in Secrets
      BY <1>0 DEF ConfigTypeOK
    <2>2. /\ [kind |-> "acme", acme |-> a] \in AcmeEdits
          /\ [kind |-> "acme", acme |-> a] \notin GlassEdits
          /\ [kind |-> "acme", acme |-> a] \notin AllEdits
      BY <2>1 DEF AcmeEdits, GlassEdits, AllEdits
    <2>3. e \in Handler /\ Carries(e)
      BY <2>2 DEF Handler, Carries, Steps, AnyEdit, Idle
    <2>4. h' = [h EXCEPT ![i] = e]
      BY <1>5 DEF UpdateAcme, Begin
    <2>5. HandlersOK
      BY <2>3, <2>4, OneHandler DEF HandlersOK
    <2> QED
      BY <1>0, <1>5, <1>a, <2>5 DEF UpdateAcme, Begin, ConfigTypeOK
  <1>6. ASSUME NEW i \in Handlers, NEW from \in Names, NEW to \in Names,
               SaveGlass(i, from, to)
        PROVE  ConfigInv'
    <2> DEFINE edit == [kind |-> "glass", from |-> from, to |-> to]
               e == [Idle EXCEPT !.pc = "saved", !.edit = edit]
    <2>1. edit \in GlassEdits /\ edit \notin AllEdits
      BY DEF GlassEdits, AllEdits
    <2>2. e \in Handler /\ Carries(e)
      BY <2>1 DEF Handler, Carries, Steps, AnyEdit, Idle
    <2>3. row' \in Docs
      BY <1>0, <1>6, <2>1, ApplyType DEF SaveGlass, AnyEdit, ConfigTypeOK
    <2>4. HandlersOK
      <3>1. CASE h' = [h EXCEPT ![i] = e]
        BY <2>2, <3>1, OneHandler DEF HandlersOK
      <3>2. CASE h' = h
        BY <1>0, <3>2 DEF HandlersOK, ConfigTypeOK, Handler, Steps, AnyEdit
      <3> QED
        BY <1>6, <3>1, <3>2 DEF SaveGlass, Begin
    <2> QED
      BY <1>0, <1>6, <2>3, <2>4 DEF SaveGlass, Begin, HandlersOK, ConfigInv, ConfigTypeOK,
         live, objects, Handler, Steps, AnyEdit
  <1>7. ASSUME NEW i \in Handlers, Save(i) \/ Disconnect(i) \/ SaveFails(i) PROVE ConfigInv'
    <2>1. h[i].edit \in AnyEdit /\ h[i].pc = "saving"
      BY <1>0, <1>7 DEF Carries, Save, Disconnect, SaveFails
    <2>2. HandlersOK
      BY <1>7, <1>b, <2>1, GotoType DEF Save, Disconnect, SaveFails, HandlersOK, Steps
    <2>3. row' \in Docs
      BY <1>0, <1>7, <2>1, ApplyType DEF Save, Disconnect, SaveFails, Commit, ConfigTypeOK
    <2>4. acmeRow' \in Secrets
      BY <1>0, <1>7, <2>1, EditKinds DEF Save, Disconnect, SaveFails, Commit, ConfigTypeOK, AcmeEdits
    <2> QED
      BY <1>0, <1>7, <2>2, <2>3, <2>4 DEF Save, Disconnect, SaveFails, HandlersOK, ConfigInv,
         ConfigTypeOK, live, objects, Handler, Steps, AnyEdit
  <1>8. ASSUME NEW i \in Handlers, Configure(i) \/ WriteClient(i) \/ WriteWebauthn(i)
        PROVE  ConfigInv'
    <2>1. h[i].edit \in AllEdits /\ h[i].pc # "idle"
      BY <1>0, <1>8, EditKinds DEF Carries, Configure, WriteClient, WriteWebauthn
    <2>2. HandlersOK
      BY <1>8, <1>b, <2>1, GotoType
         DEF Configure, WriteClient, WriteWebauthn, HandlersOK, Steps
    <2>3. h[i].edit.doc.net \in Nets /\ h[i].edit.doc.passkeys \in Policies
      BY <2>1 DEF AllEdits, Docs
    <2> QED
      BY <1>0, <1>8, <2>2, <2>3 DEF Configure, WriteClient, WriteWebauthn, HandlersOK,
         ConfigInv, ConfigTypeOK, objects, Handler, Steps, AnyEdit
  <1>9. ASSUME NEW i \in Handlers, WriteMemory(i) PROVE ConfigInv'
    <2>1. h[i].edit \in AnyEdit
      BY <1>0, <1>9 DEF Carries, WriteMemory
    <2>2. HandlersOK
      <3>1. CASE h[i].edit.kind = "all"
        BY <1>9, <2>1, <3>1, GotoType, EditKinds DEF WriteMemory, HandlersOK, Steps
      <3>2. CASE h[i].edit.kind # "all"
        BY <1>9, <1>b, <3>2 DEF WriteMemory
      <3> QED
        BY <3>1, <3>2
    <2>3. memory' \in Docs
      BY <1>0, <1>9, <2>1, ApplyType DEF WriteMemory, ConfigTypeOK
    <2>4. acme' \in Secrets
      <3>1. CASE h[i].edit \in AllEdits
        BY <1>0, <1>9, <2>1, <3>1, EditKinds DEF WriteMemory, Carries
      <3>2. CASE h[i].edit \in GlassEdits
        BY <1>0, <1>9, <2>1, <3>2, EditKinds DEF WriteMemory, ConfigTypeOK
      <3>3. CASE h[i].edit \in AcmeEdits
        BY <1>9, <2>1, <3>3, EditKinds DEF WriteMemory, AcmeEdits
      <3> QED
        BY <2>1, <3>1, <3>2, <3>3 DEF AnyEdit
    <2> QED
      BY <1>0, <1>9, <2>2, <2>3, <2>4 DEF WriteMemory, HandlersOK,
         ConfigInv, ConfigTypeOK, objects, Handler, Steps, AnyEdit
  <1>10. CASE UNCHANGED cvars
    BY <1>10 DEF cvars, live, objects, ConfigInv, ConfigTypeOK
  <1> QED
    BY <1>1, <1>2, <1>3, <1>4, <1>5, <1>6, <1>7, <1>8, <1>9, <1>10 DEF ConfigNext, ConfigStep

\* The configuration is well typed in every reachable state, and a request
\* that saves, configures or writes carries the edit and the copies it needs.
THEOREM ConfigTypeCorrect == ConfigSpec => []ConfigInv
  BY ConfigInvInit, ConfigInvStep, PTL DEF ConfigSpec

-----------------------------------------------------------------------------
(* Refinement: the requests implement the durable configuration.           *)

Awaiting(e) == IF e.pc \in {"saved", "configured"} /\ e.edit.kind # "acme"
               THEN e.edit ELSE NoEdit
Pend == [i \in Handlers |-> Pending(i)]

\* The step of one request changes its own pending edit only.
LEMMA PendAfter ==
    ASSUME ConfigInv, NEW i \in Handlers, NEW e, h' = [h EXCEPT ![i] = e]
    PROVE  Pend' = [Pend EXCEPT ![i] = Awaiting(e)]
  BY DEF Pend, Pending, Awaiting, ConfigInv, ConfigTypeOK

\* A request that neither saved nor configured has nothing pending.
LEMMA NothingPending ==
    ASSUME NEW i \in Handlers, h[i].pc \notin {"saved", "configured"}
    PROVE  Pend[i] = NoEdit
  BY DEF Pend, Pending

\* A request that waits to be put in force has an edit of the document pending.
LEMMA SomethingPending ==
    ASSUME ConfigInv, NEW i \in Handlers, h[i].pc \in {"saved", "configured"},
           h[i].edit.kind # "acme"
    PROVE  /\ Pend[i] = h[i].edit
           /\ h[i].edit \in AllEdits \cup GlassEdits
           /\ h[i].edit # NoEdit
  <1>1. Carries(h[i])
    BY DEF ConfigInv
  <1>2. h[i].edit \in AnyEdit
    BY <1>1 DEF Carries
  <1> QED
    BY <1>2, EditKinds DEF Pend, Pending, AnyEdit

LEMMA DurableInit == ConfigInit => Durable!DInit
  <1> SUFFICES ASSUME ConfigInit PROVE Durable!DInit
    OBVIOUS
  <1>1. row \in Docs /\ memory = row
    BY ConfigInvInit DEF ConfigInv, ConfigTypeOK, ConfigInit
  <1>2. memory \in Starts(row)
    BY <1>1 DEF Starts, Docs
  <1>3. [i \in Handlers |-> Pending(i)] = [i \in Handlers |-> NoEdit]
    BY DEF ConfigInit, Pending, Idle
  <1> QED
    BY <1>1, <1>2, <1>3 DEF Durable!DInit

LEMMA DurableStep == ConfigInv /\ [ConfigNext]_cvars => [Durable!DNext]_Durable!dvars
  <1> SUFFICES ASSUME ConfigInv, [ConfigNext]_cvars
               PROVE  Durable!DNext \/ UNCHANGED <<row, memory, Pend>>
    BY DEF Durable!dvars, Pend
  <1>0. /\ ConfigTypeOK /\ h \in [Handlers -> Handler]
        /\ \A i \in Handlers : h[i] \in Handler /\ Carries(h[i])
    BY DEF ConfigInv, ConfigTypeOK, Handler, Steps, AnyEdit
  <1>a. ASSUME NEW i \in Handlers, Done(i) PROVE Pend' = [Pend EXCEPT ![i] = NoEdit]
    <2>1. Awaiting(Idle) = NoEdit
      BY DEF Awaiting, Idle
    <2> QED
      BY <1>a, <2>1, PendAfter DEF Done
  <1>b. ASSUME NEW i \in Handlers, NEW pc, Goto(i, pc)
        PROVE  Pend' = [Pend EXCEPT ![i] = Awaiting([h[i] EXCEPT !.pc = pc])]
    <2>1. h' = [h EXCEPT ![i] = [h[i] EXCEPT !.pc = pc]]
      BY <1>0, <1>b DEF Goto
    <2> QED
      BY <2>1, PendAfter
  <1>c. ASSUME NEW i \in Handlers, Pend[i] = NoEdit, Pend' = [Pend EXCEPT ![i] = NoEdit]
        PROVE  Pend' = Pend
    BY <1>c DEF Pend
  <1>1. CASE Restart
    <2>1. memory' \in Starts(row)
      BY <1>0, <1>1, StartedType DEF Restart, ConfigTypeOK
    <2>2. Pend' = [i \in Handlers |-> NoEdit]
      BY <1>1 DEF Restart, Pend, Pending, Idle
    <2>3. Durable!Start
      BY <1>1, <2>1, <2>2 DEF Durable!Start, Restart, Pend
    <2> QED
      BY <2>3 DEF Durable!DNext
  <1>2. CASE EditFile
    BY <1>2 DEF EditFile, live, Pend, Pending
  <1>3. ASSUME NEW i \in Handlers, NEW form \in Forms, UpdateConfig(i, form)
        PROVE  UNCHANGED <<row, memory, Pend>>
    <2>1. Pend[i] = NoEdit
      BY <1>3, NothingPending DEF UpdateConfig, Begin, Idle
    <2>0. PICK pc \in {"checking", "saving"} : \E x, y, z :
            h' = [h EXCEPT ![i] = [pc |-> pc, edit |-> x, cur |-> y, acme |-> z]]
      BY <1>3 DEF UpdateConfig, Begin
    <2>2. PICK x, y, z : h' = [h EXCEPT ![i] = [pc |-> pc, edit |-> x, cur |-> y, acme |-> z]]
      BY <2>0
    <2>3. Awaiting([pc |-> pc, edit |-> x, cur |-> y, acme |-> z]) = NoEdit
      BY DEF Awaiting
    <2>4. Pend' = [Pend EXCEPT ![i] = NoEdit]
      BY <2>2, <2>3, PendAfter
    <2> QED
      BY <1>3, <1>c, <2>1, <2>4 DEF UpdateConfig, live
  <1>4. ASSUME NEW i \in Handlers, NEW ready \in BOOLEAN, UpdateReady(i, ready)
        PROVE  UNCHANGED <<row, memory, Pend>>
    <2>1. Pend[i] = NoEdit
      BY <1>4, NothingPending DEF UpdateReady
    <2>2. Pend' = [Pend EXCEPT ![i] = NoEdit]
      <3>1. CASE ready
        BY <1>0, <1>4, <1>b, <3>1 DEF UpdateReady, Awaiting, Handler
      <3>2. CASE ~ready
        BY <1>4, <1>a, <3>2 DEF UpdateReady
      <3> QED
        BY <3>1, <3>2
    <2> QED
      BY <1>4, <1>c, <2>1, <2>2 DEF UpdateReady, live
  <1>5. ASSUME NEW i \in Handlers, NEW s \in Secrets \cup {Blank}, UpdateAcme(i, s)
        PROVE  UNCHANGED <<row, memory, Pend>>
    <2>1. Pend[i] = NoEdit
      BY <1>5, NothingPending DEF UpdateAcme, Begin, Idle
    <2>2. PICK x : h' = [h EXCEPT ![i] = [Idle EXCEPT !.pc = "saving", !.edit = x]]
      BY <1>5 DEF UpdateAcme, Begin
    <2>3. Awaiting([Idle EXCEPT !.pc = "saving", !.edit = x]) = NoEdit
      BY DEF Awaiting, Idle
    <2>4. Pend' = [Pend EXCEPT ![i] = NoEdit]
      BY <2>2, <2>3, PendAfter
    <2> QED
      BY <1>5, <1>c, <2>1, <2>4 DEF UpdateAcme, live
  <1>6. ASSUME NEW i \in Handlers, NEW from \in Names, NEW to \in Names,
               SaveGlass(i, from, to)
        PROVE  Durable!DNext
    <2> DEFINE edit == [kind |-> "glass", from |-> from, to |-> to]
    <2>1. Pend[i] = NoEdit
      BY <1>6, NothingPending DEF SaveGlass, Idle
    <2>2. edit \in GlassEdits
      BY DEF GlassEdits
    <2>3. Pend' = [Pend EXCEPT ![i] = edit] \/ Pend' = Pend
      <3>1. CASE h' = [h EXCEPT ![i] = [Idle EXCEPT !.pc = "saved", !.edit = edit]]
        <4>1. Awaiting([Idle EXCEPT !.pc = "saved", !.edit = edit]) = edit
          BY DEF Awaiting, Idle
        <4> QED
          BY <3>1, <4>1, PendAfter
      <3>2. CASE h' = h
        BY <3>2 DEF Pend, Pending
      <3> QED
        BY <1>6, <3>1, <3>2 DEF SaveGlass, Begin
    <2>4. row' = Apply(edit, row) /\ memory' = memory
      BY <1>6 DEF SaveGlass, live
    <2> HIDE DEF edit
    <2>5. Durable!Store(i)
      BY <2>1, <2>2, <2>3, <2>4 DEF Durable!Store, Pend
    <2> QED
      BY <2>5 DEF Durable!DNext
  <1>7. ASSUME NEW i \in Handlers, Save(i) \/ Disconnect(i)
        PROVE  Durable!DNext \/ UNCHANGED <<row, memory, Pend>>
    <2>1. /\ Pend[i] = NoEdit /\ h[i].edit \in AnyEdit
          /\ row' = Apply(h[i].edit, row) /\ memory' = memory
      BY <1>0, <1>7, NothingPending DEF Save, Disconnect, Commit, live, Carries
    <2>2. \/ Pend' = [Pend EXCEPT ![i] = Awaiting([h[i] EXCEPT !.pc = "saved"])]
          \/ Pend' = Pend
      BY <1>7, <1>a, <1>b, <1>c, <2>1 DEF Save, Disconnect
    <2>3. CASE h[i].edit.kind = "acme"
      <3>1. row' = row
        BY <2>1, <2>3 DEF Apply
      <3>2. Awaiting([h[i] EXCEPT !.pc = "saved"]) = NoEdit
        BY <1>0, <2>3 DEF Awaiting, Handler
      <3> QED
        BY <1>c, <2>1, <2>2, <3>1, <3>2
    <2>4. CASE h[i].edit.kind # "acme"
      <3>1. Awaiting([h[i] EXCEPT !.pc = "saved"]) = h[i].edit
        BY <1>0, <2>4 DEF Awaiting, Handler
      <3>2. h[i].edit \in AllEdits \cup GlassEdits
        BY <2>1, <2>4, EditKinds DEF AnyEdit
      <3>3. Durable!Store(i)
        BY <2>1, <2>2, <3>1, <3>2 DEF Durable!Store, Pend
      <3> QED
        BY <3>3 DEF Durable!DNext
    <2> QED
      BY <2>3, <2>4
  <1>8. ASSUME NEW i \in Handlers, SaveFails(i) \/ WriteClient(i) \/ WriteWebauthn(i)
        PROVE  UNCHANGED <<row, memory, Pend>>
    <2>1. Pend[i] = NoEdit
      BY <1>8, NothingPending DEF SaveFails, WriteClient, WriteWebauthn
    <2>2. Awaiting([h[i] EXCEPT !.pc = "client"]) = NoEdit
      BY <1>0 DEF Awaiting, Handler
    <2>3. Pend' = [Pend EXCEPT ![i] = NoEdit]
      BY <1>8, <1>a, <1>b, <2>2 DEF SaveFails, WriteClient, WriteWebauthn
    <2> QED
      BY <1>8, <1>c, <2>1, <2>3 DEF SaveFails, WriteClient, WriteWebauthn, live
  <1>9. ASSUME NEW i \in Handlers, Configure(i) PROVE UNCHANGED <<row, memory, Pend>>
    <2>1. Pend[i] = h[i].edit
      BY <1>9, SomethingPending DEF Configure
    <2>2. Awaiting([h[i] EXCEPT !.pc = "configured"]) = h[i].edit
      BY <1>0, <1>9 DEF Awaiting, Handler, Configure
    <2>3. Pend' = [Pend EXCEPT ![i] = h[i].edit]
      BY <1>9, <1>b, <2>2 DEF Configure
    <2>4. Pend' = Pend
      BY <2>1, <2>3 DEF Pend
    <2> QED
      BY <1>9, <2>4 DEF Configure
  <1>10. ASSUME NEW i \in Handlers, WriteMemory(i)
         PROVE  Durable!DNext \/ UNCHANGED <<row, memory, Pend>>
    <2>1. Pend' = [Pend EXCEPT ![i] = NoEdit]
      <3>1. Awaiting([h[i] EXCEPT !.pc = "written"]) = NoEdit
        BY <1>0 DEF Awaiting, Handler
      <3> QED
        BY <1>10, <1>a, <1>b, <3>1 DEF WriteMemory
    <2>2. /\ h[i].pc \in {"saved", "configured"}
          /\ memory' = Apply(h[i].edit, memory) /\ row' = row
      BY <1>10 DEF WriteMemory
    <2>3. CASE h[i].edit.kind = "acme"
      <3>1. memory' = memory
        BY <2>2, <2>3 DEF Apply
      <3>2. Pend[i] = NoEdit
        BY <2>3 DEF Pend, Pending
      <3> QED
        BY <1>c, <2>1, <2>2, <3>1, <3>2
    <2>4. CASE h[i].edit.kind # "acme"
      <3>1. Pend[i] = h[i].edit /\ h[i].edit # NoEdit
        BY <2>2, <2>4, SomethingPending
      <3>2. Durable!Enforce(i)
        BY <2>1, <2>2, <3>1 DEF Durable!Enforce, Pend
      <3> QED
        BY <3>2 DEF Durable!DNext
    <2> QED
      BY <2>3, <2>4
  <1>11. CASE UNCHANGED cvars
    BY <1>11 DEF cvars, live, Pend, Pending
  <1> QED
    BY <1>1, <1>2, <1>3, <1>4, <1>5, <1>6, <1>7, <1>8, <1>9, <1>10, <1>11
       DEF ConfigNext, ConfigStep

\* update_admin_config, the rename and build_application implement the durable
\* configuration: what is in force was stored first and is put in force once.
THEOREM ConfigIsDurable == ConfigSpec => StoredThenInForce
  <1>1. ConfigInit => Durable!DInit
    BY DurableInit
  <1>2. ConfigInv /\ [ConfigNext]_cvars => [Durable!DNext]_Durable!dvars
    BY DurableStep
  <1> QED
    BY <1>1, <1>2, ConfigInvInit, ConfigInvStep, PTL
       DEF ConfigSpec, StoredThenInForce, Durable!DSpec

-----------------------------------------------------------------------------
(* An idle server serves what is stored.                                    *)

(* Document d is what is in force when r is stored: only the environment    *)
(* may make them differ, in the network settings.                           *)
Agree(d, r) ==
    /\ d.listen = r.listen /\ d.hook = r.hook
    /\ d.passkeys = r.passkeys /\ d.glass = r.glass
    /\ "net" \notin Env => d.net = r.net

AllAgree ==
    /\ Agree(memory, row)
    /\ "acme" \notin Env => acme = acmeRow
    /\ client = memory.net /\ selector = memory.net
    /\ webauthn = memory.passkeys

(* The state of the only request under way, by its step. *)
Halfway(e) ==
    /\ e.pc \in {"idle", "checking", "saving"} => AllAgree
    /\ e.pc \in {"checking", "saving", "saved", "configured"} /\ e.edit \in AllEdits =>
          e.cur = memory /\ e.acme = acme
    /\ e.pc \in {"saved", "configured"} =>
          /\ Agree(Apply(e.edit, memory), row)
          /\ "acme" \notin Env =>
                acmeRow = IF e.edit \in AcmeEdits THEN e.edit.acme ELSE acme
          /\ client = memory.net /\ webauthn = memory.passkeys
          /\ selector = IF e.pc = "configured" THEN e.edit.doc.net ELSE memory.net
    /\ e.pc \in {"written", "client"} =>
          /\ memory = e.edit.doc /\ selector = memory.net
          /\ Agree(memory, row)
          /\ "acme" \notin Env => acme = acmeRow
          /\ webauthn = e.cur.passkeys
          /\ client = IF e.pc = "client" THEN memory.net ELSE e.cur.net

(* At most one request is under way, and it is the one the state tells.     *)
SettledInv ==
    settled =>
      \/ ~Busy /\ AllAgree
      \/ \E i \in Handlers :
            /\ \A j \in Handlers \ {i} : h[j].pc = "idle"
            /\ Halfway(h[i])

\* An agreeing document is the stored one but for the environment's settings.
LEMMA AgreeMeans ==
    ASSUME NEW d \in Docs, NEW r \in Docs
    PROVE  Agree(d, r) => d = [r EXCEPT !.net = IF "net" \in Env THEN d.net ELSE @]
  BY DEF Agree, Docs

\* The same edit of the copy and of the row keeps them in agreement.
LEMMA AgreeApply ==
    ASSUME NEW e \in AnyEdit, NEW d \in Docs, NEW r \in Docs, Agree(d, r)
    PROVE  Agree(Apply(e, d), Apply(e, r))
  <1>1. CASE e \in AllEdits
    BY <1>1 DEF AllEdits, Apply, Agree
  <1>2. CASE e \in GlassEdits
    BY <1>2 DEF GlassEdits, Apply, Agree, Docs
  <1>3. CASE e \in AcmeEdits
    BY <1>3 DEF AcmeEdits, Apply, Agree
  <1> QED
    BY <1>1, <1>2, <1>3 DEF AnyEdit

\* Only a replaced document changes the settings the objects are built from.
LEMMA ApplyKeeps ==
    ASSUME NEW e \in AnyEdit, NEW d \in Docs
    PROVE  /\ e \in AllEdits => Apply(e, d) = e.doc
           /\ e \notin AllEdits => /\ Apply(e, d).net = d.net
                                   /\ Apply(e, d).passkeys = d.passkeys
           /\ e \in AcmeEdits => Apply(e, d) = d
  <1>1. CASE e \in AllEdits
    BY <1>1 DEF AllEdits, AcmeEdits, Apply
  <1>2. CASE e \in GlassEdits
    BY <1>2 DEF GlassEdits, AcmeEdits, AllEdits, Apply, Docs
  <1>3. CASE e \in AcmeEdits
    BY <1>3 DEF AcmeEdits, AllEdits, Apply
  <1> QED
    BY <1>1, <1>2, <1>3 DEF AnyEdit

LEMMA SettledInit == ConfigInit => SettledInv
  BY DEF ConfigInit, SettledInv, Busy, Idle, AllAgree, Agree

\* When the requests are settled and request i is under way, it is the one
\* whose step the state tells, and all others are idle.
LEMMA TheOne ==
    ASSUME SettledInv, settled, NEW i \in Handlers, h[i].pc # "idle"
    PROVE  Halfway(h[i]) /\ \A j \in Handlers \ {i} : h[j].pc = "idle"
  BY DEF SettledInv, Busy

\* When no request is under way everything agrees.
LEMMA NoneBusy ==
    ASSUME SettledInv, settled, ~Busy
    PROVE  AllAgree
  BY DEF SettledInv, Busy, Halfway

LEMMA SettledStep == ConfigInv /\ SettledInv /\ [ConfigNext]_cvars => SettledInv'
  <1> SUFFICES ASSUME ConfigInv, SettledInv, [ConfigNext]_cvars, settled'
               PROVE  SettledInv'
    BY DEF SettledInv
  <1>0. /\ ConfigTypeOK /\ h \in [Handlers -> Handler]
        /\ \A i \in Handlers : h[i] \in Handler /\ Carries(h[i])
    BY DEF ConfigInv, ConfigTypeOK, Handler, Steps, AnyEdit
  <1>a. ASSUME NEW i \in Handlers, NEW e, h' = [h EXCEPT ![i] = e],
               \A j \in Handlers \ {i} : h[j].pc = "idle",
               Halfway(e)'
        PROVE  SettledInv'
    <2>1. h'[i] = e /\ \A j \in Handlers \ {i} : h'[j].pc = "idle"
      BY <1>0, <1>a
    <2>2. Halfway(h[i])'
      BY <1>a, <2>1 DEF Halfway
    <2> QED
      BY <2>1, <2>2 DEF SettledInv
  <1>b. ASSUME NEW i \in Handlers, Done(i), AllAgree',
               \A j \in Handlers \ {i} : h[j].pc = "idle"
        PROVE  SettledInv'
    BY <1>0, <1>b DEF Done, SettledInv, Busy, Idle
  <1>c. ASSUME NEW i \in Handlers, h[i] = Idle, ~Busy
        PROVE  \A j \in Handlers \ {i} : h[j].pc = "idle"
    BY <1>c DEF Busy
  <1>d. ASSUME NEW i \in Handlers, NEW pc, Goto(i, pc)
        PROVE  /\ h' = [h EXCEPT ![i] = [h[i] EXCEPT !.pc = pc]]
               /\ [h[i] EXCEPT !.pc = pc] = [pc |-> pc, edit |-> h[i].edit,
                                             cur |-> h[i].cur, acme |-> h[i].acme]
    BY <1>0, <1>d DEF Goto, Handler
  <1>1. CASE Restart
    <2>1. ~Busy'
      BY <1>1 DEF Restart, Busy, Idle
    <2>2. Agree(memory', row')
      BY <1>0, <1>1 DEF Restart, Started, Agree, ConfigTypeOK, Docs
    <2> QED
      BY <1>1, <2>1, <2>2 DEF Restart, SettledInv, AllAgree, Agree
  <1>2. CASE EditFile
    BY <1>2 DEF EditFile, live, objects, SettledInv, Busy, AllAgree, Agree, Halfway
  <1>3. ASSUME NEW i \in Handlers, NEW form \in Forms, UpdateConfig(i, form)
        PROVE  SettledInv'
    <2>1. settled /\ ~Busy /\ h[i] = Idle
      BY <1>3 DEF UpdateConfig, Begin
    <2>2. AllAgree
      BY <2>1, NoneBusy
    <2>0. PICK pc \in {"checking", "saving"} : \E x :
            h' = [h EXCEPT ![i] = [pc |-> pc, edit |-> x, cur |-> memory, acme |-> acme]]
      BY <1>3 DEF UpdateConfig, Begin
    <2>3. PICK x : h' = [h EXCEPT ![i] = [pc |-> pc, edit |-> x, cur |-> memory, acme |-> acme]]
      BY <2>0
    <2>4. UNCHANGED <<row, acmeRow, memory, acme, client, selector, webauthn>>
      BY <1>3 DEF UpdateConfig, live, objects
    <2>5. Halfway([pc |-> pc, edit |-> x, cur |-> memory, acme |-> acme])'
      BY <2>2, <2>4 DEF Halfway, AllAgree, Agree
    <2> QED
      BY <1>a, <1>c, <2>1, <2>3, <2>4, <2>5
  <1>4. ASSUME NEW i \in Handlers, NEW ready \in BOOLEAN, UpdateReady(i, ready)
        PROVE  SettledInv'
    <2>1. h[i].pc = "checking" /\ settled
      BY <1>4 DEF UpdateReady
    <2>2. Halfway(h[i]) /\ \A j \in Handlers \ {i} : h[j].pc = "idle"
      BY <2>1, TheOne
    <2>3. UNCHANGED <<row, acmeRow, memory, acme, client, selector, webauthn>>
      BY <1>4 DEF UpdateReady, live, objects
    <2>4. AllAgree'
      BY <2>1, <2>2, <2>3 DEF Halfway, AllAgree, Agree
    <2>5. CASE ready
      <3>e. PICK e : e = [h[i] EXCEPT !.pc = "saving"]
        OBVIOUS
      <3>1. e.pc = "saving" /\ e.edit = h[i].edit /\ e.cur = h[i].cur /\ e.acme = h[i].acme
        BY <1>0, <3>e DEF Handler
      <3>2. Halfway(e)'
        BY <2>1, <2>2, <2>3, <2>4, <3>1 DEF Halfway
      <3> QED
        BY <1>4, <1>a, <1>d, <2>2, <2>5, <3>e, <3>2 DEF UpdateReady
    <2>6. CASE ~ready
      BY <1>4, <1>b, <2>2, <2>4, <2>6 DEF UpdateReady
    <2> QED
      BY <2>5, <2>6
  <1>5. ASSUME NEW i \in Handlers, NEW s \in Secrets \cup {Blank}, UpdateAcme(i, s)
        PROVE  SettledInv'
    <2>a. PICK a : a = IF s = Blank THEN acmeRow ELSE s
      OBVIOUS
    <2> DEFINE e == [Idle EXCEPT !.pc = "saving", !.edit = [kind |-> "acme", acme |-> a]]
    <2>1. settled /\ ~Busy /\ h[i] = Idle
      BY <1>5 DEF UpdateAcme, Begin
    <2>2. AllAgree
      BY <2>1, NoneBusy
    <2>3. h' = [h EXCEPT ![i] = e]
      BY <1>5, <2>a DEF UpdateAcme, Begin
    <2>4. UNCHANGED <<row, acmeRow, memory, acme, client, selector, webauthn>>
      BY <1>5 DEF UpdateAcme, live, objects
    <2>5. e.pc = "saving" /\ e.edit.kind = "acme"
      BY DEF Idle
    <2>6. e.edit \notin AllEdits
      BY <2>5 DEF AllEdits
    <2> HIDE DEF e
    <2>7. Halfway(e)'
      BY <2>2, <2>4, <2>5, <2>6 DEF Halfway, AllAgree, Agree
    <2> QED
      BY <1>a, <1>c, <2>1, <2>3, <2>7
  <1>6. ASSUME NEW i \in Handlers, NEW from \in Names, NEW to \in Names,
               SaveGlass(i, from, to)
        PROVE  SettledInv'
    <2> DEFINE edit == [kind |-> "glass", from |-> from, to |-> to]
               e == [Idle EXCEPT !.pc = "saved", !.edit = edit]
    <2>1. settled /\ ~Busy /\ h[i] = Idle /\ h' = [h EXCEPT ![i] = e]
      BY <1>6 DEF SaveGlass, Begin
    <2>2. AllAgree
      BY <2>1, NoneBusy
    <2>3. UNCHANGED <<acmeRow, memory, acme, client, selector, webauthn>>
          /\ row' = Apply(edit, row)
      BY <1>6 DEF SaveGlass, live, objects
    <2>4. edit \in GlassEdits /\ edit \notin AllEdits /\ edit \notin AcmeEdits
      BY DEF GlassEdits, AllEdits, AcmeEdits
    <2>5. Agree(Apply(edit, memory), row)'
      <3>1. Agree(Apply(edit, memory), Apply(edit, row))
        BY <1>0, <2>2, <2>4, AgreeApply DEF AllAgree, ConfigTypeOK, AnyEdit
      <3> HIDE DEF edit
      <3> QED
        BY <2>3, <3>1 DEF Agree, Apply
    <2>6. e.pc = "saved" /\ e.edit = edit
      BY DEF Idle
    <2> HIDE DEF e, edit
    <2>7. Halfway(e)'
      BY <2>2, <2>3, <2>4, <2>5, <2>6 DEF Halfway, AllAgree, Agree
    <2> QED
      BY <1>a, <1>c, <2>1, <2>7
  <1>7. ASSUME NEW i \in Handlers, SaveFails(i) PROVE SettledInv'
    <2>1. h[i].pc = "saving" /\ settled
      BY <1>7 DEF SaveFails
    <2>2. Halfway(h[i]) /\ \A j \in Handlers \ {i} : h[j].pc = "idle"
      BY <2>1, TheOne
    <2>3. AllAgree'
      BY <1>7, <2>1, <2>2 DEF SaveFails, live, objects, Halfway, AllAgree, Agree
    <2> QED
      BY <1>7, <1>b, <2>2, <2>3 DEF SaveFails
  <1>8. ASSUME NEW i \in Handlers, Save(i) PROVE SettledInv'
    <2>e. PICK e : e = [h[i] EXCEPT !.pc = "saved"]
      OBVIOUS
    <2>1. h[i].pc = "saving" /\ settled /\ h[i].edit \in AnyEdit
      BY <1>0, <1>8 DEF Save, Carries
    <2>2. Halfway(h[i]) /\ \A j \in Handlers \ {i} : h[j].pc = "idle"
      BY <2>1, TheOne
    <2>3. /\ UNCHANGED <<memory, acme, client, selector, webauthn>>
          /\ row' = Apply(h[i].edit, row)
          /\ acmeRow' = IF h[i].edit \in AcmeEdits THEN h[i].edit.acme ELSE acmeRow
      BY <1>8, <2>1, EditKinds DEF Save, Commit, live, objects
    <2>4. Agree(Apply(h[i].edit, memory), row')
      BY <1>0, <2>1, <2>2, <2>3, AgreeApply DEF Halfway, AllAgree, ConfigTypeOK
    <2>5. /\ e.pc = "saved" /\ e.edit = h[i].edit
          /\ e.cur = h[i].cur /\ e.acme = h[i].acme
      BY <1>0, <2>e DEF Handler
    <2>6. Agree(Apply(e.edit, memory), row)'
      BY <2>3, <2>4, <2>5
    <2>7. Halfway(e)'
      BY <2>1, <2>2, <2>3, <2>5, <2>6 DEF Halfway, AllAgree
    <2> QED
      BY <1>8, <1>a, <1>d, <2>2, <2>e, <2>7 DEF Save
  <1>9. ASSUME NEW i \in Handlers, Disconnect(i) PROVE SettledInv'
    BY <1>9 DEF Disconnect
  <1>10. ASSUME NEW i \in Handlers, Configure(i) PROVE SettledInv'
    <2>e. PICK e : e = [h[i] EXCEPT !.pc = "configured"]
      OBVIOUS
    <2>1. h[i].pc = "saved" /\ settled
      BY <1>10 DEF Configure
    <2>2. Halfway(h[i]) /\ \A j \in Handlers \ {i} : h[j].pc = "idle"
      BY <2>1, TheOne
    <2>3. UNCHANGED <<row, acmeRow, memory, acme, client, webauthn>>
          /\ selector' = h[i].edit.doc.net
      BY <1>10 DEF Configure
    <2>5. /\ e.pc = "configured" /\ e.edit = h[i].edit
          /\ e.cur = h[i].cur /\ e.acme = h[i].acme
      BY <1>0, <2>e DEF Handler
    <2>6. Agree(Apply(e.edit, memory), row)'
      BY <2>1, <2>2, <2>3, <2>5 DEF Halfway, Agree, Apply
    <2>7. Halfway(e)'
      BY <2>1, <2>2, <2>3, <2>5, <2>6 DEF Halfway
    <2> QED
      BY <1>10, <1>a, <1>d, <2>2, <2>e, <2>7 DEF Configure
  <1>11. ASSUME NEW i \in Handlers, WriteMemory(i) PROVE SettledInv'
    <2>1. h[i].pc \in {"saved", "configured"} /\ settled /\ h[i].edit \in AnyEdit
      BY <1>0, <1>11 DEF WriteMemory, Carries
    <2>2. Halfway(h[i]) /\ \A j \in Handlers \ {i} : h[j].pc = "idle"
      BY <2>1, TheOne
    <2>3. /\ UNCHANGED <<row, acmeRow, client, selector, webauthn>>
          /\ memory' = Apply(h[i].edit, memory)
      BY <1>11 DEF WriteMemory, objects
    <2>4. Agree(memory, row)'
      BY <2>1, <2>2, <2>3 DEF Halfway, Agree
    <2>5. CASE h[i].edit \in AllEdits
      <3>e. PICK e : e = [h[i] EXCEPT !.pc = "written"]
        OBVIOUS
      <3>1. /\ h[i].edit.kind = "all" /\ h[i].pc = "configured"
            /\ acme' = h[i].acme /\ Goto(i, "written")
        BY <1>11, <2>1, <2>5, EditKinds DEF WriteMemory
      <3>2. memory' = h[i].edit.doc /\ h[i].edit \notin AcmeEdits
        BY <1>0, <2>1, <2>3, <2>5, ApplyKeeps DEF AllEdits, AcmeEdits, ConfigTypeOK
      <3>3. e.pc = "written" /\ e.edit = h[i].edit /\ e.cur = h[i].cur
        BY <1>0, <3>e DEF Handler
      <3>4. Halfway(e)'
        BY <2>2, <2>3, <2>4, <2>5, <3>1, <3>2, <3>3 DEF Halfway
      <3> QED
        BY <1>a, <1>d, <2>2, <3>e, <3>1, <3>4
    <2>6. CASE h[i].edit \notin AllEdits
      <3>1. Done(i) /\ h[i].pc = "saved"
        BY <1>0, <1>11, <2>1, <2>6, EditKinds DEF WriteMemory, Carries
      <3>2. memory'.net = memory.net /\ memory'.passkeys = memory.passkeys
        BY <1>0, <2>1, <2>3, <2>6, ApplyKeeps DEF ConfigTypeOK
      <3>3. acme' = IF h[i].edit \in AcmeEdits THEN h[i].edit.acme ELSE acme
        <4>1. CASE h[i].edit.kind = "acme"
          BY <1>11, <2>1, <4>1, EditKinds DEF WriteMemory
        <4>2. CASE h[i].edit.kind = "glass"
          BY <1>11, <2>1, <4>2, EditKinds DEF WriteMemory
        <4> QED
          BY <2>1, <2>6, <4>1, <4>2, EditKinds
      <3>4. AllAgree'
        BY <2>2, <2>3, <2>4, <3>1, <3>2, <3>3 DEF Halfway, AllAgree
      <3> QED
        BY <1>b, <2>2, <3>1, <3>4
    <2> QED
      BY <2>5, <2>6
  <1>12. ASSUME NEW i \in Handlers, WriteClient(i) PROVE SettledInv'
    <2>e. PICK e : e = [h[i] EXCEPT !.pc = "client"]
      OBVIOUS
    <2>1. h[i].pc = "written" /\ settled
      BY <1>12 DEF WriteClient
    <2>2. Halfway(h[i]) /\ \A j \in Handlers \ {i} : h[j].pc = "idle"
      BY <2>1, TheOne
    <2>3. /\ UNCHANGED <<row, acmeRow, memory, acme, selector, webauthn>>
          /\ client' = IF h[i].edit.doc.net # h[i].cur.net THEN h[i].edit.doc.net ELSE client
      BY <1>12 DEF WriteClient
    <2>4. client' = memory.net
      BY <2>1, <2>2, <2>3 DEF Halfway
    <2>5. e.pc = "client" /\ e.edit = h[i].edit /\ e.cur = h[i].cur
      BY <1>0, <2>e DEF Handler
    <2>6. Agree(memory, row)'
      BY <2>1, <2>2, <2>3 DEF Halfway, Agree
    <2>7. Halfway(e)'
      BY <2>1, <2>2, <2>3, <2>4, <2>5, <2>6 DEF Halfway
    <2> QED
      BY <1>12, <1>a, <1>d, <2>2, <2>e, <2>7 DEF WriteClient
  <1>13. ASSUME NEW i \in Handlers, WriteWebauthn(i) PROVE SettledInv'
    <2>1. h[i].pc = "client" /\ settled
      BY <1>13 DEF WriteWebauthn
    <2>2. Halfway(h[i]) /\ \A j \in Handlers \ {i} : h[j].pc = "idle"
      BY <2>1, TheOne
    <2>3. UNCHANGED <<row, acmeRow, memory, acme, client, selector>>
      BY <1>13 DEF WriteWebauthn
    <2>4. webauthn' = memory.passkeys
      BY <1>13, <2>1, <2>2 DEF WriteWebauthn, Halfway, PolicyOf
    <2>5. AllAgree'
      BY <2>1, <2>2, <2>3, <2>4 DEF Halfway, AllAgree, Agree
    <2> QED
      BY <1>13, <1>b, <2>2, <2>5 DEF WriteWebauthn
  <1>14. CASE UNCHANGED cvars
    BY <1>14 DEF cvars, live, objects, SettledInv, Busy, AllAgree, Agree, Halfway
  <1> QED
    BY <1>1, <1>2, <1>3, <1>4, <1>5, <1>6, <1>7, <1>8, <1>9, <1>10, <1>11, <1>12, <1>13,
       <1>14 DEF ConfigNext, ConfigStep

\* Unless changes overlapped or the handler of a saved change was dropped, an
\* idle server serves what is stored, and the client, the verifier and the
\* selector are those of the document in memory.
THEOREM ServesWhatIsStored == ConfigSpec => []InForceAgrees
  <1>1. ConfigInv /\ SettledInv => InForceAgrees
    <2> SUFFICES ASSUME ConfigInv, SettledInv, settled, ~Busy
                 PROVE  InForceAgrees
      BY DEF InForceAgrees
    <2>1. AllAgree
      BY NoneBusy
    <2>2. memory \in Docs /\ row \in Docs
      BY DEF ConfigInv, ConfigTypeOK
    <2> QED
      BY <2>1, <2>2, AgreeMeans DEF AllAgree, InForceAgrees
  <1> QED
    BY <1>1, ConfigInvInit, ConfigInvStep, SettledInit, SettledStep, PTL DEF ConfigSpec

-----------------------------------------------------------------------------
(* The accounts.                                                            *)

AdminRec == [name : Names, failed : 0..FailureLimit, lock : {"none", "held", "over"}]
Challenge == [kind : {"registration", "authentication"}, name : Names, tok : Tokens \cup {None}]
OpSteps == {"idle", "password", "mistake", "granted", "add", "drop", "passkey"} \cup Requests

LockOf(a) == (a.failed = FailureLimit) <=> (a.lock # "none")

(* An account request: a failed attempt holds an administrator it read      *)
(* while there was no lock, every other has a name and a token.             *)
OpOK(e) ==
    /\ e \in [pc : OpSteps, name : Names \cup {None}, tok : Tokens \cup {None},
              arg : AdminRec \cup Tokens \cup Keys \cup {None}]
    /\ e.pc = "idle" => e = NoOp
    /\ e.pc # "idle" => e.name \in Names
    /\ e.pc = "mistake" => e.arg \in AdminRec /\ LockOf(e.arg)
    /\ e.pc = "granted" => e.arg \in Tokens
    /\ e.pc = "passkey" => e.arg \in Keys

Tables ==
    /\ sessions \in [Tokens -> Names \cup {None}]
    /\ passkeys \in [Keys -> Names \cup {None}]
    /\ challenges \in [Challenges -> Challenge \cup {None}]

AccountsInv ==
    /\ admin \in AdminRec /\ LockedIffLimit
    /\ Tables /\ CredentialsBelongToAdmin
    /\ op \in [Handlers -> {e \in [pc : OpSteps, name : Names \cup {None},
                                   tok : Tokens \cup {None},
                                   arg : AdminRec \cup Tokens \cup Keys \cup {None}] : OpOK(e)}]

\* A request that is not there is well formed.
LEMMA NoOpOK == OpOK(NoOp)
  BY DEF OpOK, NoOp, OpSteps

\* A step of one request leaves them all well formed if it leaves that one so.
LEMMA OneOp ==
    ASSUME AccountsInv, NEW i \in Handlers, NEW e, OpOK(e), op' = [op EXCEPT ![i] = e]
    PROVE  op' \in [Handlers -> {x \in [pc : OpSteps, name : Names \cup {None},
                                   tok : Tokens \cup {None},
                                   arg : AdminRec \cup Tokens \cup Keys \cup {None}] : OpOK(x)}]
  <1>1. e \in [pc : OpSteps, name : Names \cup {None}, tok : Tokens \cup {None},
               arg : AdminRec \cup Tokens \cup Keys \cup {None}]
    BY DEF OpOK
  <1> QED
    BY <1>1 DEF AccountsInv

\* Moving a request on, with nothing or a token as its argument.
LEMMA AdvanceOK ==
    ASSUME AccountsInv, NEW i \in Handlers, op[i].pc # "idle", NEW pc, NEW x,
           \/ pc \in {"add", "drop"} /\ x = None
           \/ pc = "granted" /\ x \in Tokens,
           Advance(i, pc, x)
    PROVE  op' \in [Handlers -> {y \in [pc : OpSteps, name : Names \cup {None},
                                   tok : Tokens \cup {None},
                                   arg : AdminRec \cup Tokens \cup Keys \cup {None}] : OpOK(y)}]
  <1> DEFINE e == [pc |-> pc, name |-> op[i].name, tok |-> op[i].tok, arg |-> x]
  <1>1. OpOK(op[i])
    BY DEF AccountsInv
  <1>2. OpOK(e)
    BY <1>1 DEF OpOK, OpSteps
  <1>3. op' = [op EXCEPT ![i] = e]
    <2>b. PICK b : b = [op[i] EXCEPT !.pc = pc, !.arg = x]
      OBVIOUS
    <2>1. op' = [op EXCEPT ![i] = b]
      BY <2>b DEF Advance, AccountsInv
    <2>2. op[i] \in [pc : OpSteps, name : Names \cup {None}, tok : Tokens \cup {None},
                     arg : AdminRec \cup Tokens \cup Keys \cup {None}]
      BY <1>1 DEF OpOK
    <2>3. b = e
      BY <2>b, <2>2
    <2> QED
      BY <2>1, <2>3
  <1> QED
    BY <1>2, <1>3, OneOp

\* Writing the count of failures and the lock of an administrator.
LEMMA LockWritten ==
    ASSUME admin \in AdminRec, NEW f \in 0..FailureLimit, NEW l \in {"none", "held", "over"},
           admin' = [admin EXCEPT !.failed = f, !.lock = l],
           (f = FailureLimit) <=> (l # "none")
    PROVE  admin' \in AdminRec /\ LockedIffLimit' /\ admin'.name = admin.name
  <1>1. admin' = [name |-> admin.name, failed |-> f, lock |-> l]
    BY DEF AdminRec
  <1> QED
    BY <1>1 DEF AdminRec, LockedIffLimit

LEMMA AccountsInit == AdminInit => AccountsInv
  <1> SUFFICES ASSUME AdminInit PROVE AccountsInv
    OBVIOUS
  <1>1. memory.glass \in Names
    BY ConfigInvInit DEF AdminInit, ConfigInv, ConfigTypeOK, Docs
  <1>2. admin \in AdminRec /\ LockedIffLimit
    BY <1>1, AccountsAssumption DEF AccountsAssumption, AdminInit, AdminRec, LockedIffLimit
  <1>3. NoOp \in {e \in [pc : OpSteps, name : Names \cup {None}, tok : Tokens \cup {None},
                         arg : AdminRec \cup Tokens \cup Keys \cup {None}] : OpOK(e)}
    BY NoOpOK DEF OpOK
  <1> QED
    BY <1>2, <1>3 DEF AdminInit, AccountsInv, Tables, CredentialsBelongToAdmin

LEMMA AccountsStep == AccountsInv /\ [AdminNext]_avars => AccountsInv'
  <1> SUFFICES ASSUME AccountsInv, [AdminNext]_avars PROVE AccountsInv'
    OBVIOUS
  <1> DEFINE OpsOK == op' \in [Handlers -> {x \in [pc : OpSteps, name : Names \cup {None},
                                   tok : Tokens \cup {None},
                                   arg : AdminRec \cup Tokens \cup Keys \cup {None}] : OpOK(x)}]
             AdminOK == admin' \in AdminRec /\ LockedIffLimit'
  <1>0. /\ admin \in AdminRec /\ LockOf(admin) /\ admin.name \in Names /\ Tables
        /\ CredentialsBelongToAdmin /\ \A i \in Handlers : OpOK(op[i])
        /\ None \notin Names /\ FailureLimit \in Nat \ {0}
    BY AccountsAssumption
       DEF AccountsAssumption, AccountsInv, AdminRec, LockedIffLimit, LockOf
  <1> HIDE DEF OpsOK, AdminOK
  <1>a. ASSUME NEW i \in Handlers, Leave(i) PROVE OpsOK
    BY <1>a, NoOpOK, OneOp DEF Leave, OpsOK
  <1>b. ASSUME UNCHANGED op PROVE OpsOK
    BY <1>b DEF OpsOK, AccountsInv
  <1>c. ASSUME UNCHANGED admin PROVE AdminOK
    BY <1>c DEF AdminOK, AccountsInv, LockedIffLimit
  <1>d. ASSUME OpsOK, UNCHANGED <<admin, sessions, passkeys, challenges>> PROVE AccountsInv'
    BY <1>0, <1>d DEF OpsOK, AccountsInv, Tables, CredentialsBelongToAdmin, LockedIffLimit
  <1>e. ASSUME OpsOK, AdminOK, Tables', CredentialsBelongToAdmin' PROVE AccountsInv'
    BY <1>e DEF OpsOK, AdminOK, AccountsInv
  <1>f. ASSUME NEW n \in Names, sessions' = Without(sessions, n)
        PROVE  /\ sessions' \in [Tokens -> Names \cup {None}]
               /\ \A t \in Tokens : sessions'[t] \in {admin.name, None} \ {n}
    BY <1>0, <1>f DEF Without, Tables, CredentialsBelongToAdmin
  <1>1. CASE AdminRestart
    <2>1. OpsOK
      BY <1>1, NoOpOK DEF AdminRestart, OpsOK, OpOK
    <2> QED
      BY <1>1, <1>d, <2>1 DEF AdminRestart
  <1>2. CASE UNCHANGED accounts
    BY <1>2, <1>b, <1>d DEF accounts
  <1>3. CASE ResetPassword
    <2>1. AdminOK /\ admin'.name = admin.name
      <3>1. 0 \in 0..FailureLimit /\ 0 # FailureLimit
        BY <1>0
      <3> QED
        BY <1>0, <1>3, <3>1, LockWritten DEF ResetPassword, AdminOK
    <2>2. Tables' /\ CredentialsBelongToAdmin'
      BY <1>0, <1>3, <1>f, <2>1 DEF ResetPassword, Tables, CredentialsBelongToAdmin
    <2> QED
      BY <1>3, <1>b, <1>e, <2>1, <2>2 DEF ResetPassword
  <1>4. CASE LockExpires
    <2>1. AdminOK /\ admin'.name = admin.name
      BY <1>0, <1>4 DEF LockExpires, AdminOK, AdminRec, LockedIffLimit, LockOf
    <2>2. Tables' /\ CredentialsBelongToAdmin'
      BY <1>0, <1>4, <2>1 DEF LockExpires, Tables, CredentialsBelongToAdmin
    <2> QED
      BY <1>4, <1>b, <1>e, <2>1, <2>2 DEF LockExpires
  <1>5. ASSUME NEW t \in Tokens, Logout(t) PROVE AccountsInv'
    <2>1. Tables' /\ CredentialsBelongToAdmin'
      BY <1>0, <1>5 DEF Logout, Tables, CredentialsBelongToAdmin
    <2> QED
      BY <1>5, <1>b, <1>c, <1>e, <2>1 DEF Logout
  <1>6. ASSUME NEW k \in {"registration", "authentication"}, NEW n, NEW t \in Tokens \cup {None},
               StoreChallenge(k, n, t), UNCHANGED <<admin, sessions, passkeys>>
        PROVE  Tables' /\ CredentialsBelongToAdmin'
    <2>1. PICK c \in Challenges :
             challenges' = [challenges EXCEPT ![c] = [kind |-> k, name |-> n, tok |-> t]]
      BY <1>6 DEF StoreChallenge
    <2>2. [kind |-> k, name |-> n, tok |-> t] \in Challenge /\ n = admin.name
      BY <1>0, <1>6 DEF StoreChallenge, Challenge
    <2>3. Tables'
      BY <1>0, <1>6, <2>1, <2>2 DEF Tables
    <2> QED
      BY <1>0, <1>6, <2>1, <2>2, <2>3 DEF Tables, CredentialsBelongToAdmin
  <1>7. ASSUME NEW n \in Names, StartPasskeyLogin(n) PROVE AccountsInv'
    <2>1. Tables' /\ CredentialsBelongToAdmin'
      BY <1>6, <1>7 DEF StartPasskeyLogin
    <2> QED
      BY <1>7, <1>b, <1>c, <1>e, <2>1 DEF StartPasskeyLogin
  <1>8. ASSUME NEW c \in Challenges, challenges' = [challenges EXCEPT ![c] = None],
               UNCHANGED <<admin, sessions, passkeys>>
        PROVE  Tables' /\ CredentialsBelongToAdmin'
    BY <1>0, <1>8 DEF Tables, CredentialsBelongToAdmin
  <1>9. ASSUME NEW c \in Challenges, ChallengeExpires(c) PROVE AccountsInv'
    BY <1>8, <1>9, <1>b, <1>c, <1>e DEF ChallengeExpires
  <1>10. ASSUME NEW i \in Handlers, NEW good \in BOOLEAN, LoginRead(i, good) PROVE AccountsInv'
    <2>1. OpOK([pc |-> "password", name |-> admin.name, tok |-> None, arg |-> None])
      BY <1>0 DEF OpOK, OpSteps
    <2>2. OpOK([pc |-> "mistake", name |-> admin.name, tok |-> None, arg |-> admin])
      BY <1>0 DEF OpOK, OpSteps
    <2>3. OpsOK
      BY <1>10, <2>1, <2>2, OneOp DEF LoginRead, Enter, OpsOK
    <2> QED
      BY <1>10, <1>d, <2>3 DEF LoginRead
  <1>11. ASSUME NEW i \in Handlers, LoginFails(i) PROVE AccountsInv'
    <2> DEFINE was == op[i].arg
               failures == FailuresAfter(was)
    <2>1. was \in AdminRec /\ LockOf(was)
      BY <1>0, <1>11 DEF LoginFails, OpOK
    <2>2. failures \in 1..FailureLimit
      BY <1>0, <2>1 DEF FailuresAfter, AdminRec, LockOf
    <2> HIDE DEF failures
    <2>3. admin' = admin \/ admin' = [admin EXCEPT !.failed = failures,
                                 !.lock = IF failures >= FailureLimit THEN "held" ELSE "none"]
      BY <1>11 DEF LoginFails, failures
    <2>4. AdminOK /\ admin'.name = admin.name
      <3> DEFINE l == IF failures >= FailureLimit THEN "held" ELSE "none"
      <3>1. /\ failures \in 0..FailureLimit /\ l \in {"none", "held", "over"}
            /\ (failures = FailureLimit) <=> (l # "none")
        BY <1>0, <2>2
      <3>2. CASE admin' = admin
        BY <1>c, <3>2
      <3>3. CASE admin' = [admin EXCEPT !.failed = failures, !.lock = l]
        <4> HIDE DEF l
        <4> QED
          BY <1>0, <3>1, <3>3, LockWritten DEF AdminOK
      <3> QED
        BY <2>3, <3>2, <3>3
    <2>5. Tables' /\ CredentialsBelongToAdmin'
      BY <1>0, <1>11, <2>4 DEF LoginFails, Tables, CredentialsBelongToAdmin
    <2> QED
      BY <1>11, <1>a, <1>e, <2>4, <2>5 DEF LoginFails
  <1>12. ASSUME NEW i \in Handlers, NEW t \in Tokens, InsertSession(i, t),
                admin'.name = admin.name, UNCHANGED <<passkeys, challenges>>
         PROVE  Tables' /\ CredentialsBelongToAdmin'
    BY <1>0, <1>12 DEF InsertSession, Tables, CredentialsBelongToAdmin
  <1>13. ASSUME NEW i \in Handlers, LoginSucceeds(i) PROVE AccountsInv'
    <2>1. PICK t \in Tokens : InsertSession(i, t) /\ Advance(i, "granted", t)
      BY <1>13 DEF LoginSucceeds
    <2>2. AdminOK /\ admin'.name = admin.name
      <3>1. 0 \in 0..FailureLimit /\ 0 # FailureLimit
        BY <1>0
      <3>2. admin' = admin \/ admin' = [admin EXCEPT !.failed = 0, !.lock = "none"]
        BY <1>13 DEF LoginSucceeds
      <3> QED
        BY <1>0, <1>c, <3>1, <3>2, LockWritten DEF AdminOK
    <2>3. Tables' /\ CredentialsBelongToAdmin'
      BY <1>12, <1>13, <2>1, <2>2 DEF LoginSucceeds
    <2>4. OpsOK
      BY <1>13, <2>1, AdvanceOK DEF LoginSucceeds, OpsOK
    <2> QED
      BY <1>e, <2>2, <2>3, <2>4
  <1>14. ASSUME NEW i \in Handlers, LoginPolicy(i) PROVE AccountsInv'
    <2>1. op[i].arg \in Tokens
      BY <1>0, <1>14 DEF LoginPolicy, OpOK
    <2>2. Tables' /\ CredentialsBelongToAdmin'
      BY <1>0, <1>14, <2>1 DEF LoginPolicy, Tables, CredentialsBelongToAdmin
    <2> QED
      BY <1>14, <1>a, <1>c, <1>e, <2>2 DEF LoginPolicy
  <1>15. ASSUME NEW i \in Handlers, NEW t \in Tokens, NEW pc \in Requests, Authenticate(i, t, pc)
         PROVE  AccountsInv'
    <2>1. sessions[t] \in Names
      BY <1>0, <1>15 DEF Authenticate, Tables
    <2>2. OpOK([pc |-> pc, name |-> sessions[t], tok |-> t, arg |-> None])
      BY <2>1 DEF OpOK, OpSteps, Requests
    <2>3. OpsOK
      BY <1>15, <2>2, OneOp DEF Authenticate, Enter, OpsOK
    <2> QED
      BY <1>15, <1>d, <2>3 DEF Authenticate
  <1>16. ASSUME NEW i \in Handlers, ChangePassword(i) PROVE AccountsInv'
    <2>1. op[i].name \in Names
      BY <1>0, <1>16 DEF ChangePassword, OpOK
    <2>2. Tables' /\ CredentialsBelongToAdmin'
      BY <1>0, <1>16, <1>f, <2>1 DEF ChangePassword, Tables, CredentialsBelongToAdmin
    <2> QED
      BY <1>16, <1>a, <1>c, <1>e, <2>2 DEF ChangePassword
  <1>17. ASSUME NEW i \in Handlers, NEW to \in Names, Rename(i, to) PROVE AccountsInv'
    <2>1. op[i].name \in Names
      BY <1>0, <1>17 DEF Rename, OpOK
    <2>2. AdminOK /\ admin'.name = IF admin.name = op[i].name THEN to ELSE admin.name
      BY <1>0, <1>17, <1>c DEF Rename, AdminOK, AdminRec, LockedIffLimit, LockOf
    <2>3. /\ sessions' \in [Tokens -> Names \cup {None}]
          /\ \A t \in Tokens : sessions'[t] \in {admin'.name, None}
      BY <1>17, <1>f, <2>1, <2>2 DEF Rename
    <2>4. /\ passkeys' \in [Keys -> Names \cup {None}]
          /\ \A k \in Keys : passkeys'[k] \in {admin'.name, None}
      BY <1>0, <1>17, <2>1, <2>2 DEF Rename, Without, Tables, CredentialsBelongToAdmin
    <2>5. /\ challenges' \in [Challenges -> Challenge \cup {None}]
          /\ \A c \in Challenges : challenges'[c] # None => challenges'[c].name = admin'.name
      BY <1>0, <1>17, <2>1, <2>2 DEF Rename, ChallengesOf, Tables, CredentialsBelongToAdmin
    <2>6. Tables' /\ CredentialsBelongToAdmin'
      BY <2>3, <2>4, <2>5 DEF Tables, CredentialsBelongToAdmin
    <2> QED
      BY <1>17, <1>a, <1>e, <2>2, <2>6 DEF Rename
  <1>18. ASSUME NEW i \in Handlers, EndsEarly(i) PROVE AccountsInv'
    BY <1>18, <1>a, <1>d DEF EndsEarly
  <1>19. ASSUME NEW i \in Handlers, StartRegistration(i) PROVE AccountsInv'
    <2>1. op[i].tok \in Tokens \cup {None}
      BY <1>0 DEF OpOK
    <2>2. Tables' /\ CredentialsBelongToAdmin'
      BY <1>6, <1>19, <2>1 DEF StartRegistration
    <2> QED
      BY <1>19, <1>a, <1>c, <1>e, <2>2 DEF StartRegistration
  <1>20. ASSUME NEW i \in Handlers, NEW c \in Challenges, FinishRegistration(i, c)
         PROVE  AccountsInv'
    <2>1. OpsOK
      BY <1>20, <1>a, AdvanceOK DEF FinishRegistration, OpsOK
    <2> QED
      BY <1>8, <1>20, <1>c, <1>e, <2>1 DEF FinishRegistration
  <1>21. ASSUME NEW i \in Handlers, NEW k \in Keys, AddPasskey(i, k) \/ DeletePasskey(i, k)
         PROVE  AccountsInv'
    <2>1. Tables' /\ CredentialsBelongToAdmin'
      BY <1>0, <1>21 DEF AddPasskey, DeletePasskey, Tables, CredentialsBelongToAdmin
    <2> QED
      BY <1>21, <1>a, <1>c, <1>e, <2>1 DEF AddPasskey, DeletePasskey
  <1>22. ASSUME NEW i \in Handlers, NEW k \in Keys, FinishPasskeyLogin(i, k) PROVE AccountsInv'
    <2>1. passkeys[k] \in Names
      BY <1>0, <1>22 DEF FinishPasskeyLogin, Tables
    <2>2. OpOK([pc |-> "passkey", name |-> passkeys[k], tok |-> None, arg |-> k])
      BY <2>1 DEF OpOK, OpSteps
    <2>3. OpsOK
      BY <1>22, <2>2, OneOp DEF FinishPasskeyLogin, Enter, OpsOK
    <2>4. CASE UNCHANGED challenges
      BY <1>22, <1>d, <2>3, <2>4 DEF FinishPasskeyLogin
    <2>5. ASSUME NEW c \in Challenges, challenges' = [challenges EXCEPT ![c] = None]
          PROVE  AccountsInv'
      BY <1>8, <1>22, <1>c, <1>e, <2>3, <2>5 DEF FinishPasskeyLogin
    <2> QED
      BY <1>22, <2>4, <2>5 DEF FinishPasskeyLogin, ChallengesOf
  <1>23. ASSUME NEW i \in Handlers, DeleteCheck(i) PROVE AccountsInv'
    <2>1. OpsOK
      BY <1>23, <1>a, AdvanceOK DEF DeleteCheck, OpsOK
    <2> QED
      BY <1>23, <1>d, <2>1 DEF DeleteCheck
  <1>24. ASSUME NEW i \in Handlers, PasskeySession(i) PROVE AccountsInv'
    <2>1. Tables' /\ CredentialsBelongToAdmin'
      BY <1>12, <1>24 DEF PasskeySession
    <2> QED
      BY <1>24, <1>a, <1>c, <1>e, <2>1 DEF PasskeySession
  <1>25. CASE UNCHANGED avars
    BY <1>2, <1>25 DEF avars
  <1> QED
    BY <1>1, <1>2, <1>3, <1>4, <1>5, <1>7, <1>9, <1>10, <1>11, <1>13, <1>14, <1>15, <1>16,
       <1>17, <1>18, <1>19, <1>20, <1>21, <1>22, <1>23, <1>24, <1>25
       DEF AdminNext, ConfigRequest

-----------------------------------------------------------------------------
(* The composition.                                                         *)

\* What the account requests do to the configuration, the configuration
\* allows: every step of the composition is one of RuntimeConfig or none.
LEMMA ComposedStep == AccountsInv /\ [AdminNext]_avars => [ConfigNext]_cvars
  <1> SUFFICES ASSUME AccountsInv, [AdminNext]_avars PROVE ConfigNext \/ UNCHANGED cvars
    OBVIOUS
  <1>1. ASSUME NEW i \in Handlers, ConfigRequest(i) PROVE ConfigNext
    <2>1. CASE \E form \in Forms : UpdateConfig(i, form)
      BY <2>1 DEF ConfigNext
    <2>2. CASE \E s \in Secrets \cup {Blank} : UpdateAcme(i, s)
      BY <2>2 DEF ConfigNext
    <2>3. CASE UpdateReady(i, PasskeysReady(h[i].edit.doc.glass))
      <3>1. PasskeysReady(h[i].edit.doc.glass) \in BOOLEAN
        BY DEF PasskeysReady
      <3> QED
        BY <2>3, <3>1 DEF ConfigNext
    <2>4. CASE ConfigStep(i)
      BY <2>4 DEF ConfigNext
    <2> QED
      BY <1>1, <2>1, <2>2, <2>3, <2>4 DEF ConfigRequest
  <1>2. ASSUME NEW i \in Handlers, NEW to \in Names, Rename(i, to) PROVE ConfigNext
    <2>1. op[i].name \in Names /\ to # op[i].name
      BY <1>2 DEF Rename, AccountsInv, OpOK
    <2> QED
      BY <1>2, <2>1 DEF Rename, ConfigNext
  <1>3. CASE AdminRestart \/ EditFile
    BY <1>3 DEF AdminRestart, ConfigNext
  <1>4. CASE ResetPassword \/ LockExpires \/ UNCHANGED avars
    BY <1>4 DEF ResetPassword, LockExpires, avars
  <1>5. CASE \/ \E t \in Tokens : Logout(t)
             \/ \E n \in Names : StartPasskeyLogin(n)
             \/ \E c \in Challenges : ChallengeExpires(c)
    BY <1>5 DEF Logout, StartPasskeyLogin, ChallengeExpires
  <1>6. ASSUME NEW i \in Handlers,
               \/ \E good \in BOOLEAN : LoginRead(i, good)
               \/ LoginFails(i) \/ LoginSucceeds(i) \/ LoginPolicy(i)
               \/ \E t \in Tokens, pc \in Requests : Authenticate(i, t, pc)
               \/ ChangePassword(i) \/ EndsEarly(i) \/ StartRegistration(i)
               \/ \E c \in Challenges : FinishRegistration(i, c)
               \/ \E k \in Keys :
                     AddPasskey(i, k) \/ DeletePasskey(i, k) \/ FinishPasskeyLogin(i, k)
               \/ DeleteCheck(i) \/ PasskeySession(i)
        PROVE  UNCHANGED cvars
    BY <1>6 DEF LoginRead, LoginFails, LoginSucceeds, LoginPolicy, Authenticate,
       ChangePassword, EndsEarly, StartRegistration, FinishRegistration, AddPasskey,
       DeletePasskey, FinishPasskeyLogin, DeleteCheck, PasskeySession
  <1> QED
    BY <1>1, <1>2, <1>3, <1>4, <1>5, <1>6 DEF AdminNext

\* The console implements the configuration alone: whatever the requests of
\* the account do in between, the document is handled as RuntimeConfig says.
THEOREM ConsoleImplementsConfig == AdminSpec => ConfigSpec
  <1>1. AdminInit => ConfigInit
    BY DEF AdminInit
  <1> QED
    BY <1>1, AccountsInit, AccountsStep, ComposedStep, PTL DEF AdminSpec, ConfigSpec

\* Every reachable state of the console is well typed.
THEOREM AdminTypeCorrect == AdminSpec => []AdminTypeOK
  <1>1. ConfigInv /\ AccountsInv => AdminTypeOK
    BY DEF ConfigInv, AccountsInv, AdminTypeOK, AdminRec, Tables, Challenge
  <1> QED
    BY <1>1, AccountsInit, AccountsStep, ConsoleImplementsConfig, ConfigTypeCorrect, PTL
       DEF AdminSpec

\* Every session, passkey and challenge names the administrator there is, at
\* any interleaving of sign-ins, registrations and renames.
THEOREM CredentialsFollowRename == AdminSpec => []CredentialsBelongToAdmin
  <1>1. AccountsInv => CredentialsBelongToAdmin
    BY DEF AccountsInv
  <1> QED
    BY <1>1, AccountsInit, AccountsStep, PTL DEF AdminSpec

\* The lock is set exactly while the count of failures is at the limit, though
\* attempts that overlap write counts computed from what they read earlier.
THEOREM LockAtFailureLimit == AdminSpec => []LockedIffLimit
  <1>1. AccountsInv => LockedIffLimit
    BY DEF AccountsInv
  <1> QED
    BY <1>1, AccountsInit, AccountsStep, PTL DEF AdminSpec

\* In the console too an idle server serves what is stored, unless changes
\* overlapped or the handler of a saved change was dropped.
THEOREM ConsoleServesWhatIsStored == AdminSpec => []InForceAgrees
  BY ConsoleImplementsConfig, ServesWhatIsStored, PTL

\* And in the console a change is stored before it is in force.
THEOREM ConsoleIsDurable == AdminSpec => StoredThenInForce
  BY ConsoleImplementsConfig, ConfigIsDurable, PTL
=============================================================================
