--------------------------- MODULE RuntimeConfig ---------------------------
(***************************************************************************)
(* The configuration of the server.  The service file and the environment  *)
(* seed it; from then on the administrator's document is a row of the      *)
(* database, a copy in memory, and three objects built from the copy: the  *)
(* upstream client, the WebAuthn verifier and the upstream selector.       *)
(* A request that changes it reads memory, completes and validates what    *)
(* was submitted, saves the row and then replaces the copy and each object *)
(* under locks of their own, so concurrent requests interleave at every    *)
(* step.  ACME settings have a row and an endpoint of their own, and the   *)
(* rename of an administrator edits one field of the document.             *)
(***************************************************************************)
CONSTANTS Handlers,     \* requests that change the configuration
          Addrs,        \* socket addresses
          Nets,         \* timeout, outbound proxy and TLS settings
          Hooks,        \* alert webhook addresses (shown to nobody)
          Secrets,      \* ACME settings with their credentials
          Blank,        \* a secret left empty in a form
          Names,        \* administrator names
          Forms,        \* what an administrator may submit
          Files,        \* what the operator may write in the service file
          Env,          \* what environment variables manage at start
          NoEdit

VARIABLES file,         \* the service configuration: file and environment
          row, acmeRow, \* settings.runtime_config and acme_settings
          up,           \* the listeners are bound
          memory,       \* AppState::config
          acme,         \* AppState::config().acme
          mgmt,         \* AppState::config().management
          client,       \* what AppState::client was built from
          webauthn,     \* what AppState::webauthn was built from
          selector,     \* what the upstream selector was configured with
          h,            \* the requests under way
          settled       \* since the start no two changes overlapped and
                        \* no saved change was dropped (history)

objects == <<client, webauthn, selector>>
live == <<memory, acme, mgmt, objects>>
cvars == <<file, row, acmeRow, up, live, h, settled>>

Policies == {"off", "on", "required"}

(* The document without what the service owns. *)
Docs == [listen : Addrs, net : Nets, hook : Hooks \cup {Blank},
         passkeys : Policies, glass : Names]

(* Config::validate: the listeners differ (the bounds, lists and addresses *)
(* it also checks belong to fields a document here does not have).         *)
Valid(f) == f.listen # f.mgmt

(* A form is a document without its listener: a form that changes it is    *)
(* refused, and so is one that is not valid.                               *)
ASSUME InputsAssumption ==
    /\ Forms \subseteq [net : Nets, hook : Hooks \cup {Blank},
                        passkeys : Policies, glass : Names]
    /\ Files \subseteq {f \in [listen : Addrs, mgmt : Addrs, net : Nets, acme : Secrets,
                               hook : Hooks \cup {Blank}, glass : Names] : Valid(f)}
    /\ Env \subseteq {"net", "acme"}

AllEdits   == [kind : {"all"}, doc : Docs]
GlassEdits == [kind : {"glass"}, from : Names, to : Names]
AcmeEdits  == [kind : {"acme"}, acme : Secrets]

ASSUME NoEditAssumption == NoEdit \notin AllEdits \cup GlassEdits \cup AcmeEdits

(* A document after a change of it. *)
Apply(e, d) ==
    CASE e.kind = "all"   -> e.doc
      [] e.kind = "glass" -> [d EXCEPT !.glass = IF @ = e.from THEN e.to ELSE @]
      [] e.kind = "acme"  -> d

Idle == [pc |-> "idle", edit |-> NoEdit, cur |-> NoEdit, acme |-> NoEdit]
Busy == \E i \in Handlers : h[i].pc # "idle"

ConfigTypeOK ==
    /\ file \in Files /\ row \in Docs /\ acmeRow \in Secrets /\ up \in BOOLEAN
    /\ memory \in Docs /\ acme \in Secrets /\ mgmt \in Addrs
    /\ client \in Nets /\ webauthn \in Policies /\ selector \in Nets
    /\ settled \in BOOLEAN
    /\ h \in [Handlers ->
          [pc : {"idle", "checking", "saving", "saved", "configured", "written", "client"},
           edit : AllEdits \cup GlassEdits \cup AcmeEdits \cup {NoEdit},
           cur : Docs \cup {NoEdit}, acme : Secrets \cup {NoEdit}]]

-----------------------------------------------------------------------------
(* Starting *)

(* What a start makes of the stored document: only the fields the          *)
(* environment manages are replaced.                                       *)
Started(r, f) == IF "net" \in Env THEN [r EXCEPT !.net = f.net] ELSE r

(* build_application: everything in memory is built again; a listener that *)
(* cannot be bound ends the process.                                       *)
Restart ==
    /\ memory' = Started(row, file)
    /\ acme' = IF "acme" \in Env THEN file.acme ELSE acmeRow
    /\ mgmt' = file.mgmt
    /\ client' = memory'.net
    /\ webauthn' = memory'.passkeys
    /\ selector' = memory'.net
    /\ up' = (memory'.listen # mgmt')
    /\ h' = [i \in Handlers |-> Idle]
    /\ settled' = TRUE
    /\ UNCHANGED <<file, row, acmeRow>>

(* The first start seeds the rows from the service configuration. *)
ConfigInit ==
    /\ file \in Files
    /\ row = [listen |-> file.listen, net |-> file.net, hook |-> file.hook,
              passkeys |-> "off", glass |-> file.glass]
    /\ acmeRow = file.acme
    /\ up = TRUE
    /\ memory = row /\ acme = acmeRow /\ mgmt = file.mgmt
    /\ client = row.net /\ webauthn = row.passkeys /\ selector = row.net
    /\ h = [i \in Handlers |-> Idle]
    /\ settled = TRUE

(* The operator edits the service file, by hand or with `config set`. *)
EditFile ==
    /\ file' \in Files \ {file}
    /\ UNCHANGED <<row, acmeRow, up, live, h, settled>>

-----------------------------------------------------------------------------
(* The general endpoint *)

(* The document a form asks for: a blank webhook keeps the current one. *)
Completed(form, cur) ==
    [listen |-> cur.listen, net |-> form.net,
     hook |-> IF form.hook = Blank THEN cur.hook ELSE form.hook,
     passkeys |-> form.passkeys, glass |-> form.glass]

PolicyOf(d) == <<d.passkeys, d.glass>>

Begin(i, entry) ==
    /\ up
    /\ h[i] = Idle
    /\ h' = [h EXCEPT ![i] = entry]
    /\ settled' = (settled /\ ~Busy)

(* update_admin_config up to its last check: everything is compared with   *)
(* the copy in memory read at the start.                                   *)
UpdateConfig(i, form) ==
    LET next == Completed(form, memory)
        check == PolicyOf(next) # PolicyOf(memory) /\ next.passkeys = "required"
    IN  /\ Begin(i, [pc |-> IF check THEN "checking" ELSE "saving",
                     edit |-> [kind |-> "all", doc |-> next],
                     cur |-> memory, acme |-> acme])
        /\ UNCHANGED <<file, row, acmeRow, up, live>>

Goto(i, pc) == h' = [h EXCEPT ![i].pc = pc]
Done(i)     == h' = [h EXCEPT ![i] = Idle]

(* Requiring passkeys waits for the answer of the database whether every   *)
(* administrator but the break-glass one has two.                          *)
UpdateReady(i, ready) ==
    /\ h[i].pc = "checking"
    /\ IF ready THEN Goto(i, "saving") ELSE Done(i)
    /\ UNCHANGED <<file, row, acmeRow, up, live, settled>>

(* update_admin_acme_config: blank secrets come from the row. *)
UpdateAcme(i, secret) ==
    /\ "acme" \notin Env
    /\ Begin(i, [Idle EXCEPT !.pc = "saving",
                 !.edit = [kind |-> "acme",
                           acme |-> IF secret = Blank THEN acmeRow ELSE secret]])
    /\ UNCHANGED <<file, row, acmeRow, up, live>>

Commit(e) ==
    /\ row' = Apply(e, row)
    /\ acmeRow' = IF e.kind = "acme" THEN e.acme ELSE acmeRow

Save(i) ==
    /\ h[i].pc = "saving"
    /\ Commit(h[i].edit)
    /\ Goto(i, "saved")
    /\ UNCHANGED <<file, up, live, settled>>

\* Mutant: the error of the save is logged and not returned.
SaveFailsUnreturned(i) ==
    /\ h[i].pc = "saving"
    /\ Goto(i, "saved")
    /\ UNCHANGED <<file, row, acmeRow, up, live, settled>>

SaveFails(i) ==
    /\ h[i].pc = "saving"
    /\ Done(i)
    /\ UNCHANGED <<file, row, acmeRow, up, live, settled>>

(* The client disconnects while the save is awaited: the handler is        *)
(* dropped, and the transaction may have been committed.                   *)
Disconnect(i) ==
    /\ h[i].pc = "saving"
    /\ Commit(h[i].edit)
    /\ Done(i)
    /\ settled' = FALSE
    /\ UNCHANGED <<file, up, live>>

(* The rename of an administrator, as far as it concerns the document: its *)
(* transaction edits the row, and memory follows unless the handler was    *)
(* dropped while the commit was awaited.                                   *)
SaveGlass(i, from, to) ==
    LET edit == [kind |-> "glass", from |-> from, to |-> to]
    IN  /\ up /\ h[i] = Idle
        /\ row' = Apply(edit, row)
        /\ \/ Begin(i, [Idle EXCEPT !.pc = "saved", !.edit = edit])
           \/ settled' = FALSE /\ UNCHANGED h
        /\ UNCHANGED <<file, acmeRow, up, live>>

(* cancel_all and UpstreamSelector::configure come before the copy. *)
Configure(i) ==
    /\ h[i].pc = "saved"
    /\ h[i].edit.kind = "all"
    /\ selector' = h[i].edit.doc.net
    /\ Goto(i, "configured")
    /\ UNCHANGED <<file, row, acmeRow, up, memory, acme, mgmt, client, webauthn, settled>>

(* The copy is replaced whole, with the ACME settings read at the start,   *)
(* or one field of it.                                                     *)
WriteMemory(i) ==
    LET e == h[i].edit
    IN  /\ h[i].pc \in {"saved", "configured"}
        /\ e.kind = "all" => h[i].pc = "configured"
        /\ memory' = Apply(e, memory)
        /\ acme' = CASE e.kind = "all" -> h[i].acme
                     [] e.kind = "acme" -> e.acme
                     [] e.kind = "glass" -> acme
        /\ IF e.kind = "all" THEN Goto(i, "written") ELSE Done(i)
        /\ UNCHANGED <<file, row, acmeRow, up, mgmt, objects, settled>>

\* Mutant: the new client is compared with the copy just written.
WriteClientComparingMemory(i) ==
    /\ h[i].pc = "written"
    /\ client' = IF h[i].edit.doc.net # memory.net THEN h[i].edit.doc.net ELSE client
    /\ Goto(i, "client")
    /\ UNCHANGED <<file, row, acmeRow, up, memory, acme, mgmt, webauthn, selector, settled>>

(* Only a changed client or verifier is replaced. *)
WriteClient(i) ==
    /\ h[i].pc = "written"
    /\ client' = IF h[i].edit.doc.net # h[i].cur.net THEN h[i].edit.doc.net ELSE client
    /\ Goto(i, "client")
    /\ UNCHANGED <<file, row, acmeRow, up, memory, acme, mgmt, webauthn, selector, settled>>

WriteWebauthn(i) ==
    /\ h[i].pc = "client"
    /\ webauthn' = IF PolicyOf(h[i].edit.doc) # PolicyOf(h[i].cur)
                   THEN h[i].edit.doc.passkeys ELSE webauthn
    /\ Done(i)
    /\ UNCHANGED <<file, row, acmeRow, up, memory, acme, mgmt, client, selector, settled>>

(* The steps of a request that take no input. *)
ConfigStep(i) ==
    \/ Save(i) \/ SaveFails(i) \/ Disconnect(i) \/ Configure(i)
    \/ WriteMemory(i) \/ WriteClient(i) \/ WriteWebauthn(i)

ConfigNext ==
    \/ Restart \/ EditFile
    \/ \E i \in Handlers :
          \/ \E form \in Forms : UpdateConfig(i, form)
          \/ \E ready \in BOOLEAN : UpdateReady(i, ready)
          \/ \E s \in Secrets \cup {Blank} : UpdateAcme(i, s)
          \/ \E from, to \in Names : from # to /\ SaveGlass(i, from, to)
          \/ ConfigStep(i)

ConfigSpec == ConfigInit /\ [][ConfigNext]_cvars

-----------------------------------------------------------------------------
(* Properties *)

Pending(i) ==
    IF /\ h[i].pc \in {"saved", "configured"}
       /\ h[i].edit.kind # "acme"
    THEN h[i].edit ELSE NoEdit

Starts(d) == IF "net" \in Env THEN {[d EXCEPT !.net = n] : n \in Nets} ELSE {d}

Durable == INSTANCE DurableConfig WITH
    Writers <- Handlers, Documents <- Docs, Edits <- AllEdits \cup GlassEdits,
    AtStart <- Starts, stored <- row, inForce <- memory,
    pending <- [i \in Handlers |-> Pending(i)]

(* The steps of update_admin_config, of the rename and of build_application*)
(* implement the durable configuration: nothing is in force that was not   *)
(* stored first, however requests, disconnects, failing saves and restarts *)
(* interleave.                                                             *)
StoredThenInForce == Durable!DSpec

(* Unless changes overlapped or the handler of a saved change was dropped, *)
(* an idle server serves what is stored, and the client, the verifier and  *)
(* the selector are those of the document in memory, though each is        *)
(* replaced in a step of its own and only when it changed.                 *)
InForceAgrees ==
    (settled /\ ~Busy) =>
        /\ memory = [row EXCEPT !.net = IF "net" \in Env THEN memory.net ELSE @]
        /\ "acme" \notin Env => acme = acmeRow
        /\ client = memory.net /\ selector = memory.net
        /\ webauthn = memory.passkeys
=============================================================================
