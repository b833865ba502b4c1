---------------------------- MODULE MessageSend ----------------------------
(***************************************************************************)
(* The outgoing messages of one campaign, from "queued" to a final status: *)
(* _send_one run by Celery tasks and by the sweeps, the provider, delivery *)
(* receipts and the status poll, pause, resume and stop.                   *)
(*                                                                         *)
(* A worker holds one database session for the whole of _send_one.  It     *)
(* commits the claim, and then works on the row and on the campaign as it  *)
(* loaded them: what it loads before the provider call it writes after it. *)
(***************************************************************************)
EXTENDS Naturals, FiniteSets

CONSTANTS
    Messages,      \* one outgoing message per contact
    Workers,       \* Celery worker processes and the inline sweep
    Channel,       \* "sms" or "email"
    MaxAttempts,   \* provider attempts before a message fails (5 in the code)
    MaxAccepted,   \* bound: times the provider accepts one message
    MaxReceipts,   \* bound: webhook calls for one message
    MaxFaults,     \* bound: worker deaths and lost answers of the provider
    MaxTasks       \* bound: tasks of one message waiting in the broker

ASSUME SendAssumption ==
    /\ Channel \in {"sms", "email"}
    /\ MaxAttempts \in Nat \ {0} /\ MaxAccepted \in Nat \ {0}
    /\ MaxReceipts \in Nat /\ MaxFaults \in Nat /\ MaxTasks \in Nat \ {0}
    /\ IsFiniteSet(Messages)

VARIABLES
    msg,       \* messages rows
    cc,        \* status of the contact's campaign_contacts row
    camp,      \* the campaign: status, messages_sent, messages_delivered
    queue,     \* number of send_sms tasks of each message in the broker
    wk,        \* the workers
    accepted,  \* what the provider has taken: acceptances per message
    old,       \* messages created more than 15 minutes ago
    receipts,  \* webhook calls so far, by message
    poll,      \* what the status poll has read and been told, by message
    faults,    \* worker deaths and lost answers so far
    apart      \* history: whose status was written last without the contact

vars == <<msg, cc, camp, queue, wk, accepted, old, receipts, poll, faults, apart>>

Open  == {"queued", "retrying", "sending"}
Final == {"sent", "delivered", "failed", "cancelled"}
Parked == "other"   \* whatever else the gateway calls a message's state

MsgType == [status : Open \union Final \union {Parked},
            wait   : BOOLEAN,            \* retry_at lies in the future
            tries  : 0..MaxAttempts,     \* retry_count
            pid    : 0..MaxAccepted]     \* provider_message_id, 0 for none
CampType == [status : {"running", "paused", "stopped"},
             sent : Nat, delivered : Nat]
WorkerType == [pc    : {"idle", "claim", "hold", "dispatch", "record"},
               m     : Messages,
               task  : BOOLEAN,          \* a broker task, or a sweep
               tries : 0..MaxAttempts,   \* retry_count as loaded
               sent  : Nat,              \* messages_sent as loaded
               pid   : 0..MaxAccepted]   \* provider's answer, 0 if it refused

PollType == [was : {"none"} \union Open \union Final,
             says : {"sent", "delivered", "failed", Parked}]
NoPoll == [was |-> "none", says |-> "sent"]

Idle == [pc |-> "idle", m |-> CHOOSE m \in Messages : TRUE, task |-> FALSE,
         tries |-> 0, sent |-> 0, pid |-> 0]

Init ==
    /\ msg = [m \in Messages |->
                [status |-> "queued", wait |-> FALSE, tries |-> 0, pid |-> 0]]
    /\ cc = [m \in Messages |-> "queued"]
    /\ camp = [status |-> "running", sent |-> 0, delivered |-> 0]
    /\ queue = [m \in Messages |-> 1]
    /\ wk = [w \in Workers |-> Idle]
    /\ accepted = [m \in Messages |-> 0]
    /\ old = {}
    /\ receipts = [m \in Messages |-> 0]
    /\ poll = [m \in Messages |-> NoPoll]
    /\ faults = 0
    /\ apart = {}

Published(m) ==
    queue' = [queue EXCEPT ![m] = IF @ < MaxTasks THEN @ + 1 ELSE @]

Finished(w) == wk' = [wk EXCEPT ![w] = Idle]

\* The message and its contact are written in one transaction.
Together(m) == apart' = apart \ {m}

-----------------------------------------------------------------------------
(* _send_one *)

\* Mutant: a message that is being sent is left alone too.
LoadNotSending(w, m, task) ==
    IF msg[m].status \in {"sent", "delivered", "sending"} \/ msg[m].wait
    THEN UNCHANGED wk
    ELSE wk' = [wk EXCEPT ![w] = [Idle EXCEPT !.pc = "claim", !.m = m,
                                    !.task = task, !.tries = msg[m].tries]]

\* Load the row; sent and delivered messages and waiting ones are left alone.
Load(w, m, task) ==
    IF msg[m].status \in {"sent", "delivered"} \/ msg[m].wait
    THEN UNCHANGED wk
    ELSE wk' = [wk EXCEPT ![w] = [Idle EXCEPT !.pc = "claim", !.m = m,
                                    !.task = task, !.tries = msg[m].tries]]

\* A task whose message has to wait is published again with an ETA.
TakeTask(w, m) ==
    /\ wk[w].pc = "idle"
    /\ queue[m] > 0
    /\ Load(w, m, TRUE)
    /\ IF msg[m].wait /\ msg[m].status \notin {"sent", "delivered"}
       THEN UNCHANGED queue
       ELSE queue' = [queue EXCEPT ![m] = @ - 1]
    /\ UNCHANGED <<msg, cc, camp, accepted, old, receipts, poll, faults, apart>>

\* process_due_message_retries and the inline sweep of what is due.
SweepDue(w, m) ==
    /\ wk[w].pc = "idle"
    /\ msg[m].status \in {"queued", "retrying"} /\ ~msg[m].wait
    /\ Load(w, m, FALSE)
    /\ UNCHANGED <<msg, cc, camp, queue, accepted, old, receipts, poll, faults, apart>>

\* The inline sweep of "sending" rows: stuck is told by the row's age.
SweepStuck(w, m) ==
    /\ wk[w].pc = "idle"
    /\ msg[m].status = "sending" /\ m \in old
    /\ camp.status # "paused"
    /\ Load(w, m, FALSE)
    /\ UNCHANGED <<msg, cc, camp, queue, accepted, old, receipts, poll, faults, apart>>

\* Mutant: a cancelled message can be claimed.
ClaimableCancelled == {"queued", "retrying", "sending", "cancelled"}

\* UPDATE ... SET status = 'sending' WHERE status IN (...)
Claimable == {"queued", "retrying", "sending"}

Claim(w) ==
    LET m == wk[w].m IN
    /\ wk[w].pc = "claim"
    /\ IF msg[m].status \in Claimable
       THEN /\ msg' = [msg EXCEPT ![m].status = "sending", ![m].wait = FALSE]
            /\ wk' = [wk EXCEPT ![w].pc = "hold"]
       ELSE Finished(w) /\ UNCHANGED msg
    /\ UNCHANGED <<cc, camp, queue, accepted, old, receipts, poll, faults, apart>>

\* Mutant: the campaign's status is written as the message's.
HeldAsCampaign(w) ==
    /\ wk[w].pc = "hold"
    /\ camp.status \in {"stopped", "paused"}
    /\ msg' = [msg EXCEPT ![wk[w].m].status = camp.status]
    /\ Finished(w)
    /\ UNCHANGED <<cc, camp, queue, accepted, old, receipts, poll, faults, apart>>

\* _campaign_hold
Held(w) ==
    /\ wk[w].pc = "hold"
    /\ camp.status \in {"stopped", "paused"}
    /\ msg' = [msg EXCEPT ![wk[w].m].status =
                 IF camp.status = "stopped" THEN "cancelled" ELSE "queued"]
    /\ Finished(w)
    /\ UNCHANGED <<cc, camp, queue, accepted, old, receipts, poll, faults, apart>>

\* Back in the queue with a retry time: the campaign's window and caps, or the
\* mailbox's daily allowance.
Defer(w) ==
    /\ msg' = [msg EXCEPT ![wk[w].m].status = "queued", ![wk[w].m].wait = TRUE]
    /\ IF wk[w].task THEN Published(wk[w].m) ELSE UNCHANGED queue
    /\ Finished(w)
    /\ UNCHANGED <<cc, camp, accepted, old, receipts, poll, faults, apart>>

GateRefuses(w) == wk[w].pc = "hold" /\ camp.status = "running" /\ Defer(w)

\* Mutant: the gate allows what belongs to a paused campaign.
GateAllowsPaused(w) ==
    /\ wk[w].pc = "hold"
    /\ camp.status \in {"running", "paused"}
    /\ wk' = [wk EXCEPT ![w].pc = "dispatch", ![w].sent = camp.sent]
    /\ UNCHANGED <<msg, cc, camp, queue, accepted, old, receipts, poll, faults, apart>>

\* The gate allows it; the campaign row loaded for the gate is kept.
GateAllows(w) ==
    /\ wk[w].pc = "hold"
    /\ camp.status = "running"
    /\ wk' = [wk EXCEPT ![w].pc = "dispatch", ![w].sent = camp.sent]
    /\ UNCHANGED <<msg, cc, camp, queue, accepted, old, receipts, poll, faults, apart>>

\* Mutant: a contact whose message failed at once stays "queued".
ContactFailsAfterSent(w) ==
    cc' = [cc EXCEPT ![wk[w].m] = IF @ = "sent" THEN "failed" ELSE @]

\* _record_campaign_outcome of a failed message (messages_failed is left out)
ContactFails(w) ==
    cc' = [cc EXCEPT ![wk[w].m] = IF @ \in {"queued", "sent"} THEN "failed" ELSE @]

\* The contact may not be written to any more.
Blocked(w) ==
    /\ wk[w].pc = "dispatch"
    /\ msg' = [msg EXCEPT ![wk[w].m].status = "failed"]
    /\ ContactFails(w)
    /\ Finished(w)
    /\ Together(wk[w].m)
    /\ UNCHANGED <<camp, queue, accepted, old, receipts, poll, faults>>

\* The provider call: it takes the message, or refuses it, or takes it and the
\* answer is lost, which the worker cannot tell from a refusal.
Dispatch(w) ==
    LET m == wk[w].m IN
    /\ wk[w].pc = "dispatch"
    /\ \/ /\ accepted[m] < MaxAccepted
          /\ accepted' = [accepted EXCEPT ![m] = @ + 1]
          /\ \/ /\ wk' = [wk EXCEPT ![w].pc = "record", ![w].pid = accepted[m] + 1]
                /\ UNCHANGED faults
             \/ /\ faults < MaxFaults /\ faults' = faults + 1
                /\ wk' = [wk EXCEPT ![w].pc = "record"]
       \/ /\ wk' = [wk EXCEPT ![w].pc = "record"]
          /\ UNCHANGED <<accepted, faults>>
    /\ UNCHANGED <<msg, cc, camp, queue, old, receipts, poll, apart>>

\* Mutant: the message keeps the status "sending".
AcceptedUnmarked(w) ==
    LET m == wk[w].m IN
    /\ wk[w].pc = "record" /\ wk[w].pid # 0
    /\ msg' = [msg EXCEPT ![m].pid = wk[w].pid]
    /\ camp' = [camp EXCEPT !.sent = wk[w].sent + 1]
    /\ cc' = [cc EXCEPT ![m] = IF @ = "queued" THEN "sent" ELSE @]
    /\ Finished(w)
    /\ Together(wk[w].m)
    /\ UNCHANGED <<queue, accepted, old, receipts, poll, faults>>

\* Mutant: the counter moves only when the contact's row does.
AcceptedWithContact(w) ==
    LET m == wk[w].m IN
    /\ wk[w].pc = "record" /\ wk[w].pid # 0
    /\ msg' = [msg EXCEPT ![m].status = "sent", ![m].pid = wk[w].pid]
    /\ camp' = IF cc[m] = "queued" THEN [camp EXCEPT !.sent = wk[w].sent + 1] ELSE camp
    /\ cc' = [cc EXCEPT ![m] = IF @ = "queued" THEN "sent" ELSE @]
    /\ Finished(w)
    /\ Together(wk[w].m)
    /\ UNCHANGED <<queue, accepted, old, receipts, poll, faults>>

Accepted(w) ==
    LET m == wk[w].m IN
    /\ wk[w].pc = "record" /\ wk[w].pid # 0
    /\ msg' = [msg EXCEPT ![m].status = "sent", ![m].pid = wk[w].pid]
    /\ camp' = [camp EXCEPT !.sent = wk[w].sent + 1]
    /\ cc' = [cc EXCEPT ![m] = IF @ = "queued" THEN "sent" ELSE @]
    /\ Finished(w)
    /\ Together(wk[w].m)
    /\ UNCHANGED <<queue, accepted, old, receipts, poll, faults>>

\* retry_count goes up by one; it is not told apart beyond MaxAttempts.
Attempt(w) == IF wk[w].tries < MaxAttempts THEN wk[w].tries + 1 ELSE MaxAttempts

\* Retry later, until the attempts are used up.
Retries(w) ==
    LET m == wk[w].m IN
    /\ wk[w].pc = "record" /\ wk[w].pid = 0
    /\ Attempt(w) < MaxAttempts
    /\ msg' = [msg EXCEPT ![m].status = "retrying", ![m].wait = TRUE,
                          ![m].tries = Attempt(w)]
    /\ IF wk[w].task THEN Published(m) ELSE UNCHANGED queue
    /\ Finished(w)
    /\ UNCHANGED <<cc, camp, accepted, old, receipts, poll, faults, apart>>

\* Mutant: a failure is recorded as a success.
GivesUpCounted(w) ==
    LET m == wk[w].m IN
    /\ wk[w].pc = "record" /\ wk[w].pid = 0
    /\ Attempt(w) = MaxAttempts \/ Channel = "email"
    /\ msg' = [msg EXCEPT ![m].status = "failed", ![m].tries = Attempt(w)]
    /\ camp' = [camp EXCEPT !.sent = wk[w].sent + 1]
    /\ ContactFails(w)
    /\ Finished(w)
    /\ Together(wk[w].m)
    /\ UNCHANGED <<queue, accepted, old, receipts, poll, faults>>

\* The last attempt, or an email the provider refuses for good.
GivesUp(w) ==
    LET m == wk[w].m IN
    /\ wk[w].pc = "record" /\ wk[w].pid = 0
    /\ Attempt(w) = MaxAttempts \/ Channel = "email"
    /\ msg' = [msg EXCEPT ![m].status = "failed", ![m].tries = Attempt(w)]
    /\ ContactFails(w)
    /\ Finished(w)
    /\ Together(wk[w].m)
    /\ UNCHANGED <<camp, queue, accepted, old, receipts, poll, faults>>

\* deliver() finds the mailbox's allowance used up.
Deferred(w) ==
    Channel = "email" /\ wk[w].pc = "record" /\ wk[w].pid = 0 /\ Defer(w)

\* A worker dies; the broker redelivers its task (task_acks_late).
Crash(w) ==
    /\ wk[w].pc # "idle" /\ faults < MaxFaults
    /\ faults' = faults + 1
    /\ IF wk[w].task THEN Published(wk[w].m) ELSE UNCHANGED queue
    /\ Finished(w)
    /\ UNCHANGED <<msg, cc, camp, accepted, old, receipts, poll, apart>>

-----------------------------------------------------------------------------
(* Receipts and time *)

Rank(status) ==
    CASE status \in {"queued", "retrying", Parked} -> 0
      [] status = "sending" -> 1
      [] status = "sent" -> 2
      [] OTHER -> 3

\* process_delivery_status: the row is found by the provider's id, so a receipt
\* that comes before the id is committed finds none.
Receipt(m, status) ==
    /\ Channel = "sms"
    /\ msg[m].pid # 0
    /\ receipts[m] < MaxReceipts /\ receipts' = [receipts EXCEPT ![m] = @ + 1]
    /\ Rank(status) >= Rank(msg[m].status)
    /\ msg' = [msg EXCEPT ![m].status = status]
    /\ camp' = [camp EXCEPT
                  !.delivered = IF status = "delivered" /\ msg[m].status # status
                                THEN @ + 1 ELSE @]
    /\ cc' = [cc EXCEPT ![m] =
                IF status = "sent" \/ @ \notin {"queued", "sent"} THEN @
                ELSE IF status = "delivered" THEN "delivered" ELSE "failed"]
    /\ Together(m)
    /\ UNCHANGED <<queue, wk, accepted, old, poll, faults>>

\* apply_event: Brevo's events find the message by its id or, as long as that is
\* not committed, by its address.  They know nothing of the campaign's contact.
\* (The deliveries that they count are the matter of EmailEvents.)
Event(m, type) ==
    /\ Channel = "email"
    /\ accepted[m] > 0
    /\ receipts[m] < MaxReceipts /\ receipts' = [receipts EXCEPT ![m] = @ + 1]
    /\ \/ type = "delivered" /\ msg[m].status # "delivered"
       \/ type = "opened" /\ msg[m].status \in {"queued", "sending", "sent"}
       \/ type = "bounce"
    /\ msg' = [msg EXCEPT ![m].status =
                 IF type = "bounce" THEN "failed" ELSE "delivered"]
    /\ apart' = apart \union {m}
    /\ UNCHANGED <<cc, camp, queue, wk, accepted, old, poll, faults>>

\* What a provider calls the API with
Reported(m) ==
    \/ \E status \in {"sent", "delivered", "failed", "cancelled"} : Receipt(m, status)
    \/ \E type \in {"delivered", "opened", "bounce"} : Event(m, type)

\* _poll and sync_delivery_status read the row and ask the gateway ...
PollAsk(m) ==
    /\ Channel = "sms"
    /\ poll[m] = NoPoll
    /\ msg[m].pid # 0 /\ msg[m].status \in {"sent", "sending", "queued"}
    /\ \E says \in {"sent", "delivered", "failed", Parked} :
         /\ says = Parked => receipts[m] = 0
         /\ poll' = [poll EXCEPT ![m] = [was |-> msg[m].status, says |-> says]]
    /\ UNCHANGED <<msg, cc, camp, queue, wk, accepted, old, receipts, faults, apart>>

\* ... and write its answer, if that is not what they had read.
PollWrite(m) ==
    /\ poll[m] # NoPoll
    /\ msg' = IF poll[m].says = poll[m].was THEN msg
              ELSE [msg EXCEPT ![m].status = poll[m].says]
    /\ apart' = IF poll[m].says = poll[m].was THEN apart ELSE apart \union {m}
    /\ poll' = [poll EXCEPT ![m] = NoPoll]
    /\ UNCHANGED <<cc, camp, queue, wk, accepted, old, receipts, faults>>

RetryDue(m) ==
    /\ msg[m].wait
    /\ msg' = [msg EXCEPT ![m].wait = FALSE]
    /\ UNCHANGED <<cc, camp, queue, wk, accepted, old, receipts, poll, faults, apart>>

GrowsOld(m) ==
    /\ m \notin old
    /\ old' = old \union {m}
    /\ UNCHANGED <<msg, cc, camp, queue, wk, accepted, receipts, poll, faults, apart>>

-----------------------------------------------------------------------------
(* The operator *)

Pause ==
    /\ camp.status = "running"
    /\ camp' = [camp EXCEPT !.status = "paused"]
    /\ UNCHANGED <<msg, cc, queue, wk, accepted, old, receipts, poll, faults, apart>>

\* Resume hands what is still queued back to the broker (republish_queued).
Resume ==
    /\ camp.status = "paused"
    /\ camp' = [camp EXCEPT !.status = "running"]
    /\ queue' = [m \in Messages |->
                   IF msg[m].status = "queued" /\ queue[m] < MaxTasks
                   THEN queue[m] + 1 ELSE queue[m]]
    /\ UNCHANGED <<msg, cc, wk, accepted, old, receipts, poll, faults, apart>>

Stop ==
    /\ camp.status \in {"running", "paused"}
    /\ camp' = [camp EXCEPT !.status = "stopped"]
    /\ msg' = [m \in Messages |->
                 IF msg[m].status \in {"queued", "retrying"}
                 THEN [msg[m] EXCEPT !.status = "cancelled"] ELSE msg[m]]
    /\ cc' = [m \in Messages |-> IF cc[m] = "queued" THEN "cancelled" ELSE cc[m]]
    /\ UNCHANGED <<queue, wk, accepted, old, receipts, poll, faults, apart>>

SendStep(w) ==
    \/ Claim(w) \/ Held(w) \/ GateRefuses(w) \/ GateAllows(w) \/ Blocked(w)
    \/ Dispatch(w) \/ Accepted(w) \/ Retries(w) \/ GivesUp(w) \/ Deferred(w)

Next ==
    \/ \E w \in Workers, m \in Messages :
         TakeTask(w, m) \/ SweepDue(w, m) \/ SweepStuck(w, m)
    \/ \E w \in Workers : SendStep(w) \/ Crash(w)
    \/ \E m \in Messages :
         Reported(m) \/ PollAsk(m) \/ PollWrite(m) \/ RetryDue(m) \/ GrowsOld(m)
    \/ Pause \/ Resume \/ Stop

Spec == Init /\ [][Next]_vars

\* A worker in the middle of _send_one goes on, time passes, the sweeps come
\* back to every message, a campaign's window opens and a mailbox has some of
\* its daily allowance left again and again.
Fairness ==
    /\ \A w \in Workers :
         /\ WF_vars(SendStep(w))
         /\ SF_vars(GateAllows(w))
         /\ SF_vars(Accepted(w) \/ Retries(w) \/ GivesUp(w))
    /\ \A m \in Messages :
         /\ WF_vars(RetryDue(m)) /\ WF_vars(GrowsOld(m))
         /\ SF_vars(\E w \in Workers : SweepDue(w, m))
         /\ SF_vars(\E w \in Workers : SweepStuck(w, m))

\* The polls come back too, and the gateway knows the outcome in the end.
PollFairness ==
    \A m \in Messages :
        /\ WF_vars(PollWrite(m))
        /\ SF_vars(PollAsk(m) /\ poll'[m].says \in {"delivered", "failed"})

FairSpec == Spec /\ Fairness
PollSpec == FairSpec /\ PollFairness

-----------------------------------------------------------------------------
(* Properties *)

\* The type of the state.
TypeOK ==
    /\ msg \in [Messages -> MsgType]
    /\ cc \in [Messages -> {"queued", "sent", "delivered", "failed", "cancelled"}]
    /\ camp \in CampType
    /\ queue \in [Messages -> 0..MaxTasks]
    /\ wk \in [Workers -> WorkerType]
    /\ accepted \in [Messages -> 0..MaxAccepted]
    /\ old \subseteq Messages
    /\ receipts \in [Messages -> 0..MaxReceipts]
    /\ poll \in [Messages -> PollType]
    /\ faults \in 0..MaxFaults
    /\ apart \subseteq Messages

\* The claim of _send_one lets the provider accept a message only once.
AcceptedOnce == \A m \in Messages : accepted[m] <= 1

\* A message that a stop cancelled did not go out.
CancelledNotSent ==
    \A m \in Messages :
        msg[m].status = "cancelled" /\ msg[m].pid = 0 => accepted[m] = 0

\* No task, sweep, retry, late receipt or poll takes a message that was sent,
\* settled or cancelled back into the queue.
FinalStays ==
    [][\A m \in Messages :
         msg[m].status \notin Open => msg'[m].status \notin Open]_vars

\* messages_sent counts what the provider accepted and the worker recorded.
SentIsCounted == camp.sent = Cardinality({m \in Messages : msg[m].pid # 0})

\* Each time that the provider took a message.
Acceptances == {a \in Messages \X (1..MaxAccepted) : a[2] <= accepted[a[1]]}

\* A campaign never reports more sent messages than the provider accepted, with
\* any number of workers that load and write the same counter, deaths and
\* deliveries of the same task.
CountIsHonest == camp.sent <= Cardinality(Acceptances)

\* messages_delivered counts each message once, however many receipts its parts
\* cause.
DeliveredOnce == camp.delivered <= Cardinality(Messages)

\* How far a message is for OutboundMessage: taken as soon as the provider has
\* it, cleared from the gate to the record of a refusal.
Cleared(m) ==
    \E w \in Workers : /\ wk[w].m = m
                      /\ \/ wk[w].pc = "dispatch"
                         \/ wk[w].pc = "record" /\ wk[w].pid = 0

Stage(m) ==
    CASE accepted[m] > 0 -> "taken"
      [] accepted[m] = 0 /\ Cleared(m) -> "cleared"
      [] accepted[m] = 0 /\ ~Cleared(m) /\ msg[m].status \in {"failed", "cancelled"} -> "ended"
      [] OTHER -> "waiting"

Outbound == INSTANCE OutboundMessage WITH
                stage <- [m \in Messages |-> Stage(m)], run <- camp.status

\* Claims, sweeps, retries, deferrals, receipts and polls of one worker amount
\* to OutboundMessage: nothing is cleared unless the campaign runs, taken twice,
\* or taken after it was given up or cancelled.
KeepsPromise == Outbound!Spec

\* A message is over and its contact still counts as under way, which keeps the
\* campaign running.
LeftBehind(m) ==
    msg[m].status \in {"delivered", "failed"} /\ cc[m] \in {"queued", "sent"}

\* "Settle the per-contact row too", as process_delivery_status says
\* (sms_service.py:436): the poll and Brevo's events do not.
SettledTogether == \A m \in Messages : ~LeftBehind(m)

\* Nobody else leaves a contact behind: whatever workers, of which some died or
\* lost an answer, receipts and stops write over one another, a contact under
\* way has a message that is over only if the poll or an event had the last word.
OnlyApart == \A m \in Messages : LeftBehind(m) => m \in apart

\* The poll stays with a message whose receipt does not come until the gateway
\* has said what became of it: "statuses still settling -- keep polling".
PolledToTheEnd ==
    \A m \in Messages :
        msg[m].status = "sent" ~> msg[m].status \in {"delivered", "failed"}

\* A message is sent, given up or cancelled, unless the campaign is paused; a
\* stopped campaign's too, although a worker was sending, or had died sending it.
MessageSettles ==
    \A m \in Messages :
        msg[m].status \in Open ~> (msg[m].status \notin Open \/ camp.status = "paused")
=============================================================================
