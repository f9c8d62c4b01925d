---------------------------- MODULE Notifications ----------------------------
(***************************************************************************)
(* Source health checks (source_health.rs), the alerts they raise          *)
(* (alerts.rs) and the mail outbox (email.rs) that carries these and every *)
(* other mail.  Three background tasks that share tables: the check        *)
(* replaces the table of results, the alert task reads it and queues one   *)
(* mail per recipient, the outbox task sends what is queued.               *)
(***************************************************************************)
EXTENDS Naturals, Sequences, FiniteSets

CONSTANTS Recipients,   \* of alert mails
          BatchSize,    \* messages a round of the outbox reads (10)
          AttemptLimit, \* deliveries that fail before a message is given up (5)
          MaxMails,     \* bound on messages
          MaxFaults     \* bound on stops of the process and failing statements

ASSUME NotificationsAssumption ==
    /\ BatchSize \in Nat \ {0} /\ AttemptLimit \in Nat \ {0}
    /\ MaxMails \in Nat /\ MaxFaults \in Nat

VARIABLES smtp,      \* is sending mail configured and enabled
          outbox,    \* the table email_outbox, in the order of its ids
          batch,     \* what the outbox task read and has not sent
          sending,   \* the message it is sending, and what became of it
          checking,  \* CHECK_RUNNING, and the results on their way
          breached,  \* events whose threshold the traffic or the results reach
          alert,     \* the alert task: event, phase, recipients left, any error
          cooling,   \* pairs of an event and a channel in their cooldown
          sends,     \* history: per message, how often it was handed over
          lost,      \* history: per message, sends whose mark is missing
          faults

nvars == <<smtp, outbox, batch, sending, checking, breached, alert, cooling,
           sends, lost, faults>>

Events == {"quota_threshold", "upstream_health"}
Channels == {"webhook", "mail"}
NoSending == [id |-> 0, ok |-> FALSE, attempts |-> 0]
Calm == [phase |-> "idle", event |-> "quota_threshold", left |-> {}, err |-> FALSE]
mailer == <<batch, sending, sends, lost>>
alerting == <<alert, cooling>>

NotificationsInit ==
    /\ smtp \in BOOLEAN /\ outbox = <<>> /\ batch = {} /\ sending = NoSending
    /\ checking = "no" /\ breached = {}
    /\ alert = Calm /\ cooling = {}
    /\ sends = <<>> /\ lost = <<>> /\ faults = 0

Fault == faults < MaxFaults /\ faults' = faults + 1

-----------------------------------------------------------------------------
(* The outbox *)

(* enqueue_email: a row that is due at once. *)
Enqueued == /\ Len(outbox) < MaxMails
            /\ outbox' = Append(outbox, [status |-> "pending", attempts |-> 0, due |-> TRUE])
            /\ sends' = Append(sends, 0)
            /\ lost' = Append(lost, 0)

(* An invitation or a login code is mailed; refused without SMTP. *)
Enqueue ==
    /\ smtp /\ Enqueued
    /\ UNCHANGED <<smtp, batch, sending, checking, breached, alerting, faults>>

(* The administrator saves the SMTP settings. *)
SaveSmtp ==
    /\ smtp' = ~smtp
    /\ UNCHANGED <<outbox, mailer, checking, breached, alerting, faults>>

Pending == {m \in DOMAIN outbox : outbox[m].status = "pending" /\ outbox[m].due}
FirstOf(S, n) == {m \in S : Cardinality({k \in S : k < m}) < n}

(* process_email_outbox: with SMTP, the oldest messages that are due. *)
ReadOutbox ==
    /\ smtp /\ batch = {} /\ sending = NoSending
    /\ Pending # {}
    /\ batch' = {[id |-> m, attempts |-> outbox[m].attempts] : m \in FirstOf(Pending, BatchSize)}
    /\ UNCHANGED <<smtp, outbox, sending, sends, lost, checking, breached, alerting, faults>>

(* send_email, the oldest first, with the settings read at the start of    *)
(* the round: the server takes the message, or an error is reported (which *)
(* may come after it took it).                                             *)
Send(ok) ==
    /\ sending = NoSending
    /\ \E x \in batch :
          /\ \A y \in batch : x.id <= y.id
          /\ sending' = [id |-> x.id, ok |-> ok, attempts |-> x.attempts]
          /\ sends' = [sends EXCEPT ![x.id] = @ + 1]
          /\ batch' = batch \ {x}
    /\ UNCHANGED <<smtp, outbox, lost, checking, breached, alerting, faults>>

\* Mutant: a failure does not count as an attempt.
MarkOutboxUncounted ==
    LET m == sending.id
    IN  /\ sending # NoSending
        /\ outbox' = IF sending.ok THEN [outbox EXCEPT ![m].status = "sent"]
                     ELSE [outbox EXCEPT ![m].due = FALSE]
        /\ sending' = NoSending
        /\ UNCHANGED <<smtp, batch, sends, lost, checking, breached, alerting, faults>>

(* mark_outbox_sent and mark_outbox_failed: the count is the one that was  *)
(* read, plus one; at the limit it is final, before it the next attempt is *)
(* put off.                                                                *)
MarkOutbox ==
    LET m == sending.id
        tries == sending.attempts + 1
    IN  /\ sending # NoSending
        /\ outbox' = CASE sending.ok -> [outbox EXCEPT ![m].status = "sent"]
                       [] OTHER -> [outbox EXCEPT ![m] =
                              [status |-> IF tries >= AttemptLimit THEN "failed" ELSE "pending",
                               attempts |-> tries, due |-> FALSE]]
        /\ sending' = NoSending
        /\ UNCHANGED <<smtp, batch, sends, lost, checking, breached, alerting, faults>>

(* The statement fails: the round ends, the message stays as it was. *)
MarkFails ==
    /\ sending # NoSending /\ Fault
    /\ lost' = [lost EXCEPT ![sending.id] = @ + 1]
    /\ sending' = NoSending /\ batch' = {}
    /\ UNCHANGED <<smtp, outbox, sends, checking, breached, alerting>>

(* next_attempt_at has come. *)
ComesDue(m) ==
    /\ outbox[m].status = "pending" /\ ~outbox[m].due
    /\ outbox' = [outbox EXCEPT ![m].due = TRUE]
    /\ UNCHANGED <<smtp, mailer, checking, breached, alerting, faults>>

-----------------------------------------------------------------------------
(* Health checks *)

(* run, by the worker or an administrator: RunningGuard admits one. *)
StartCheck ==
    /\ checking = "no"
    /\ checking' = "running"
    /\ UNCHANGED <<smtp, outbox, mailer, breached, alerting, faults>>

(* All probes are done: replace_source_health, one transaction, and the    *)
(* guard is dropped.                                                       *)
FinishCheck(degraded) ==
    /\ checking = "running"
    /\ checking' = "no"
    /\ breached' = IF degraded THEN breached \cup {"upstream_health"}
                               ELSE breached \ {"upstream_health"}
    /\ UNCHANGED <<smtp, outbox, mailer, alerting, faults>>

(* The transaction fails or the administrator's request is dropped: the    *)
(* guard is dropped too.                                                   *)
CheckFails ==
    /\ checking = "running" /\ Fault
    /\ checking' = "no"
    /\ UNCHANGED <<smtp, outbox, mailer, breached, alerting>>

-----------------------------------------------------------------------------
(* Alerts *)

(* The month's traffic reaches the percentage of the quota, or a new month *)
(* begins.                                                                 *)
TrafficMoves ==
    /\ breached' = IF "quota_threshold" \in breached THEN breached \ {"quota_threshold"}
                   ELSE breached \cup {"quota_threshold"}
    /\ UNCHANGED <<smtp, outbox, mailer, checking, alerting, faults>>

(* The phase in which deliver handles the event e, or Calm. *)
Deliver(e) == [Calm EXCEPT !.phase = "webhook", !.event = e]

(* evaluate turns to an event: the quota first, then the sources. *)
Evaluate ==
    /\ alert = Calm /\ breached # {}
    /\ alert' = Deliver(IF "quota_threshold" \in breached THEN "quota_threshold"
                        ELSE "upstream_health")
    /\ UNCHANGED <<smtp, outbox, mailer, checking, breached, cooling, faults>>

(* deliver is done with the event e: an error ends the evaluation, and the *)
(* sources are not looked at in this round.                                *)
AfterEvent(e, err) ==
    IF e = "quota_threshold" /\ ~err /\ "upstream_health" \in breached
    THEN Deliver("upstream_health") ELSE Calm

\* Mutant: an error of the webhook ends the delivery.
PostWebhookOrReturn(ok) ==
    LET e == alert.event
    IN  /\ alert.phase = "webhook"
        /\ <<e, "webhook">> \in cooling => ok
        /\ cooling' = IF ok THEN cooling \cup {<<e, "webhook">>} ELSE cooling
        /\ alert' = IF ~ok \/ <<e, "mail">> \in cooling THEN AfterEvent(e, ~ok)
                    ELSE [alert EXCEPT !.phase = "mail", !.left = Recipients]
        /\ UNCHANGED <<smtp, outbox, mailer, checking, breached, faults>>

(* deliver posts to the webhook unless that cools down, and turns to the   *)
(* mails whatever came of it.  A success starts the cooldown.              *)
PostWebhook(ok) ==
    LET e == alert.event
        skip == <<e, "webhook">> \in cooling
    IN  /\ alert.phase = "webhook"
        /\ skip => ok
        /\ cooling' = IF ok THEN cooling \cup {<<e, "webhook">>} ELSE cooling
        /\ alert' = IF <<e, "mail">> \in cooling THEN AfterEvent(e, ~ok)
                    ELSE [alert EXCEPT !.phase = "mail", !.left = Recipients, !.err = ~ok]
        /\ UNCHANGED <<smtp, outbox, mailer, checking, breached, faults>>

(* The webhook never answers: its client has no timeout, so the task stays *)
(* with this post until the process stops.                                 *)
WebhookHangs ==
    /\ alert.phase = "webhook" /\ <<alert.event, "webhook">> \notin cooling
    /\ alert' = [alert EXCEPT !.phase = "hung"]
    /\ UNCHANGED <<smtp, outbox, mailer, checking, breached, cooling, faults>>

(* enqueue_operational_alert: SMTP is asked for once, then one row per     *)
(* recipient, each in a statement of its own; the channel cools down after *)
(* the last.                                                               *)
QueueAlert(r) ==
    /\ alert.phase = "mail" /\ r \in alert.left
    /\ alert.left = Recipients => smtp
    /\ Enqueued
    /\ IF alert.left = {r}
       THEN /\ alert' = AfterEvent(alert.event, alert.err)
            /\ cooling' = cooling \cup {<<alert.event, "mail">>}
       ELSE /\ alert' = [alert EXCEPT !.left = @ \ {r}]
            /\ UNCHANGED cooling
    /\ UNCHANGED <<smtp, batch, sending, checking, breached, faults>>

(* No SMTP, or a statement fails: no cooldown, and the evaluation ends. *)
QueueAlertFails ==
    /\ alert.phase = "mail"
    /\ IF alert.left = Recipients /\ ~smtp THEN UNCHANGED faults ELSE Fault
    /\ alert' = Calm
    /\ UNCHANGED <<smtp, outbox, mailer, checking, breached, cooling>>

CooldownEnds(x) ==
    /\ x \in cooling
    /\ cooling' = cooling \ {x}
    /\ UNCHANGED <<smtp, outbox, mailer, checking, breached, alert, faults>>

-----------------------------------------------------------------------------
(* The process stops and starts again: the tables stay; a message that was *)
(* handed over and not marked will be sent again.                          *)
StopNotifications ==
    /\ Fault
    /\ lost' = IF sending = NoSending THEN lost ELSE [lost EXCEPT ![sending.id] = @ + 1]
    /\ batch' = {} /\ sending' = NoSending /\ checking' = "no"
    /\ alert' = Calm /\ cooling' = {}
    /\ UNCHANGED <<smtp, outbox, breached, sends>>

OutboxTask == ReadOutbox \/ (\E ok \in BOOLEAN : Send(ok)) \/ MarkOutbox

AlertTask == \/ Evaluate \/ (\E ok \in BOOLEAN : PostWebhook(ok))
             \/ (\E r \in Recipients : QueueAlert(r)) \/ QueueAlertFails

NotificationsNext ==
    \/ Enqueue \/ SaveSmtp \/ OutboxTask \/ MarkFails
    \/ \E m \in DOMAIN outbox : ComesDue(m)
    \/ StartCheck \/ CheckFails \/ (\E b \in BOOLEAN : FinishCheck(b))
    \/ TrafficMoves \/ AlertTask \/ WebhookHangs
    \/ \E x \in Events \X Channels : CooldownEnds(x)
    \/ StopNotifications

(* The runtime polls the task; a post that is not one of WebhookHangs comes *)
(* back, with an answer or an error.                                       *)
AlertFairness == WF_nvars(AlertTask)

-----------------------------------------------------------------------------
(* Properties *)

(* Every time a message was handed to the mail server is accounted for: it *)
(* was sent, or counts as an attempt, or is in flight, or its mark was     *)
(* lost with the process or a failing statement.  So a message is handed   *)
(* over twice only for a reported failure or a lost mark, and never more   *)
(* often than the limit of attempts and the losses allow.                  *)
MailAccounted ==
    \A m \in DOMAIN outbox :
        /\ sends[m] = outbox[m].attempts + lost[m]
                        + (IF outbox[m].status = "sent" THEN 1 ELSE 0)
                        + (IF sending.id = m THEN 1 ELSE 0)
        /\ outbox[m].status = "failed" <=> outbox[m].attempts = AttemptLimit

(* While mail is configured, an event that stays over its threshold is     *)
(* mailed, whatever the webhook answers: the alert of the sources too,     *)
(* unless the quota's comes before it.  Only a webhook that never answers  *)
(* keeps it back.                                                          *)
AlertMailed ==
    \A e \in Events :
        (e \in breached) ~>
            \/ e \notin breached \/ ~smtp \/ <<e, "mail">> \in cooling
            \/ e = "upstream_health" /\ "quota_threshold" \in breached
            \/ alert.phase = "hung" \/ Len(outbox) = MaxMails
=============================================================================
