---------------------------- MODULE SequenceRun ----------------------------
(***************************************************************************)
(* One contact's way through a campaign's sequence: the batch runs its     *)
(* first step, each later step is run by a follow-up row when that is due, *)
(* and each step that sends creates a message and the next follow-up.      *)
(*                                                                         *)
(* Beat's worker and the API's inline poller both run batches and due      *)
(* follow-ups; operators skip follow-ups, send them at once, pause and     *)
(* stop the campaign; the contact replies or opts out.  How a message is   *)
(* sent is MessageSend's: here it is one step.                             *)
(***************************************************************************)
EXTENDS Naturals, Sequences, FiniteSets

CONSTANTS
    Steps,          \* the snapshot of the sequence, see StepType
    Workers,        \* beat's worker, the inline poller, send-now tasks
    Ops,            \* what else happens; a subset of AllOps
    BrokerMayFail,  \* may the task queue refuse a message
    MayCrash,       \* may a worker die between two of its steps
    MaxMessages,    \* bound: messages created
    MaxFollowUps    \* bound: follow-up rows created

N == Len(Steps)
AllOps == {"pause", "stop", "reply", "optout", "skip", "sendnow"}

\* 0 is a branch left open.
StepType == [type : {"send", "wait", "condition", "stop"}, yes : 0..N, no : 0..N]

\* validate_sequence_steps: a message is sent somewhere, branches lead forward.
ValidSequence ==
    /\ Steps \in Seq(StepType)
    /\ \E i \in 1..N : Steps[i].type = "send"
    /\ \A i \in 1..N : Steps[i].type = "condition" =>
         \A target \in {Steps[i].yes, Steps[i].no} : target = 0 \/ target > i

ASSUME SequenceAssumption ==
    /\ ValidSequence
    /\ Ops \subseteq AllOps
    /\ BrokerMayFail \in BOOLEAN /\ MayCrash \in BOOLEAN
    /\ MaxMessages \in Nat /\ MaxFollowUps \in Nat

VARIABLES
    camp,   \* status of the campaign
    cc,     \* the contact's campaign_contacts row
    fups,   \* the contact's follow-up rows, in the order of their ids
    msgs,   \* the contact's messages in the campaign, in the order of their ids
    opted,  \* the contact has opted out
    wk,     \* the workers
    skip    \* the follow-up an operator is about to skip, 0 for none

vars == <<camp, cc, fups, msgs, opted, wk, skip>>

ContactType == [status : {"pending", "queued", "sent", "delivered", "failed",
                          "replied", "opted_out", "completed", "cancelled"},
                step   : 1..N + 1]
FollowUpType == [step   : 1..N + 1,
                 status : {"pending", "sending", "sent", "failed", "skipped",
                           "cancelled"},
                 due    : BOOLEAN]
MessageType == [step   : 1..N,
                status : {"queued", "sent", "delivered", "failed", "cancelled",
                          "deleted"},
                out    : BOOLEAN,           \* the provider has taken it
                alone  : BOOLEAN]           \* its end is written, but not to the contact
WorkerType == [pc     : {"idle", "claim", "load", "commit", "flush", "rollback",
                         "batch", "complete"},
               f      : 0..MaxFollowUps,    \* the follow-up it works on
               become : {"sent", "failed", "pending", "cancelled"},
               cc     : ContactType,        \* the contact's row as loaded
               m      : 0..MaxMessages,     \* its outbox
               undo   : BOOLEAN]            \* the rollback found cc "queued"

FirstContact == [status |-> "pending", step |-> 1]
Idle == [pc |-> "idle", f |-> 0, become |-> "sent", cc |-> FirstContact, m |-> 0,
         undo |-> FALSE]

Init ==
    /\ camp = "running"
    /\ cc = FirstContact
    /\ fups = <<>> /\ msgs = <<>>
    /\ opted = FALSE
    /\ wk = [w \in Workers |-> Idle]
    /\ skip = 0

-----------------------------------------------------------------------------
(* _execute_sequence_step *)

TypeOf(i) == IF i > N THEN "none" ELSE Steps[i].type

\* What running a step makes of the contact, the message it creates and the
\* step of the follow-up it creates (0 for none), and whether that has to wait.
Outcome(status, step, m, f, late) ==
    [status |-> status, step |-> step, msg |-> m, fup |-> f, late |-> late]

Completed(i) == Outcome("completed", i, 0, 0, FALSE)

\* A message; a wait that follows is entered at once, a condition or another
\* message is left to a follow-up that is due at once.
Sends(i) ==
    CASE TypeOf(i + 1) = "wait" -> Outcome("queued", i + 1, i, i + 2, TRUE)
      [] TypeOf(i + 1) \in {"none", "stop"} -> Outcome("queued", i + 1, i, 0, FALSE)
      [] OTHER -> Outcome("queued", i + 1, i, i + 1, FALSE)

\* No body, no usable sender
Unsendable(i) == Outcome("failed", i, 0, 0, FALSE)

\* A condition asks for replies, outcomes and consent, and may go either way.
Branches(i) == {Steps[i].yes, Steps[i].no}

\* What step i comes to when it is its turn: a send may fail, and a condition
\* whose branch is left open ends the contact's way.
Outcomes(i) ==
    CASE TypeOf(i) = "send" -> {Sends(i), Unsendable(i)}
      [] TypeOf(i) = "wait" -> {Outcome("queued", i, 0, i + 1, TRUE)}
      [] TypeOf(i) = "condition" -> {Completed(i) : open \in Branches(i) \intersect {0}}
      [] OTHER -> {Completed(i)}

\* A condition runs the step it leads to at once.  RunWith(i) is the least set
\* that has i and with a condition the steps that its branches lead to.
Closed(S) ==
    \A j \in S : TypeOf(j) = "condition" => Branches(j) \ {0} \subseteq S
RunWith(i) ==
    {j \in 1..N + 1 : \A S \in SUBSET (1..N + 1) : i \in S /\ Closed(S) => j \in S}

\* All that may come of running step i.
Executed == [i \in 1..N + 1 |-> UNION {Outcomes(j) : j \in RunWith(i)}]

WithinBounds(o) ==
    /\ o.msg = 0 \/ Len(msgs) < MaxMessages
    /\ o.fup = 0 \/ Len(fups) < MaxFollowUps

\* The rows that an outcome adds; a pending follow-up of that step is kept.
Scheduled(rows, o) ==
    \E f \in DOMAIN rows : rows[f].status = "pending" /\ rows[f].step = o.fup
\* A wait that finds its follow-up there leaves the contact's status alone.
StatusAfter(o, row) ==
    IF o.msg = 0 /\ Scheduled(fups, o) THEN row.status ELSE o.status
AddMessage(o) ==
    msgs' = IF o.msg = 0 THEN msgs
            ELSE Append(msgs, [step |-> o.msg, status |-> "queued", out |-> FALSE,
                               alone |-> FALSE])
AddFollowUp(rows, o) ==
    IF o.fup = 0 \/ Scheduled(rows, o) THEN rows
    ELSE Append(rows, [step |-> o.fup, status |-> "pending", due |-> ~o.late])

Pending == {f \in DOMAIN fups : fups[f].status = "pending"}
Cancelled(status) ==
    [f \in DOMAIN fups |-> IF fups[f].status \in status
                           THEN [fups[f] EXCEPT !.status = "cancelled"] ELSE fups[f]]

Update(w, session) == wk' = [wk EXCEPT ![w] = session]
Outbox(w, o) ==
    Update(w, IF o.msg = 0 THEN Idle
              ELSE [Idle EXCEPT !.pc = "flush", !.m = Len(msgs) + 1])

-----------------------------------------------------------------------------
(* process_campaign_batch_async *)

BatchRead(w) ==
    /\ wk[w].pc = "idle"
    /\ camp = "running"
    /\ Update(w, [Idle EXCEPT !.pc = "batch"])
    /\ UNCHANGED <<camp, cc, fups, msgs, opted, skip>>

\* The contact's row is read FOR UPDATE and kept until the commit.
BatchCommit(w) ==
    /\ wk[w].pc = "batch"
    /\ cc.status = "pending"
    /\ \/ /\ cc' = [cc EXCEPT !.status = IF opted THEN "opted_out" ELSE "failed"]
          /\ Update(w, Idle)
          /\ UNCHANGED <<fups, msgs>>
       \/ /\ ~opted
          /\ \E o \in Executed[cc.step] :
               /\ WithinBounds(o)
               /\ cc' = [status |-> StatusAfter(o, cc), step |-> o.step]
               /\ AddMessage(o)
               /\ fups' = AddFollowUp(fups, o)
               /\ Outbox(w, o)
    /\ UNCHANGED <<camp, opted, skip>>

\* Nobody pending: the campaign is completed if nobody is under way either.
BatchFinds(w) ==
    /\ wk[w].pc = "batch"
    /\ cc.status # "pending"
    /\ Update(w, IF cc.status \in {"queued", "sent"} THEN Idle
                 ELSE [Idle EXCEPT !.pc = "complete"])
    /\ UNCHANGED <<camp, cc, fups, msgs, opted, skip>>

CommitComplete(w) ==
    /\ wk[w].pc = "complete"
    /\ camp' = "completed"
    /\ Update(w, Idle)
    /\ UNCHANGED <<cc, fups, msgs, opted, skip>>

\* _flush_outbox
Flushed(w) ==
    /\ wk[w].pc = "flush"
    /\ Update(w, Idle)
    /\ UNCHANGED <<camp, cc, fups, msgs, opted, skip>>

\* The broker refuses the message: its row and the contact's are read ...
FlushRefused(w) ==
    /\ BrokerMayFail /\ Len(msgs) < MaxMessages
    /\ wk[w].pc = "flush"
    /\ Update(w, [wk[w] EXCEPT !.pc = "rollback", !.undo = cc.status = "queued",
                               !.cc = cc])
    /\ UNCHANGED <<camp, cc, fups, msgs, opted, skip>>

\* ... and the message is deleted; the contact goes back to the batch.
FlushRollback(w) ==
    /\ wk[w].pc = "rollback"
    /\ msgs' = [msgs EXCEPT ![wk[w].m].status = "deleted"]
    /\ IF wk[w].undo
       THEN /\ cc' = [status |-> "pending",
                      step |-> IF wk[w].cc.step > 1 THEN wk[w].cc.step - 1 ELSE cc.step]
            /\ fups' = Cancelled({"pending"})
       ELSE UNCHANGED <<cc, fups>>
    /\ Update(w, Idle)
    /\ UNCHANGED <<camp, opted, skip>>

-----------------------------------------------------------------------------
(* process_followup_async *)

\* The due sweep's select ...
FollowUpDue(w, f) ==
    /\ wk[w].pc = "idle"
    /\ camp = "running"
    /\ f \in Pending /\ fups[f].due
    /\ Update(w, [Idle EXCEPT !.pc = "claim", !.f = f])
    /\ UNCHANGED <<camp, cc, fups, msgs, opted, skip>>

\* ... or an operator's "send now".
SendNow(w, f) ==
    /\ "sendnow" \in Ops
    /\ wk[w].pc = "idle"
    /\ f \in Pending
    /\ Update(w, [Idle EXCEPT !.pc = "claim", !.f = f])
    /\ UNCHANGED <<camp, cc, fups, msgs, opted, skip>>

\* Mutant: the claim does not look at the status again.
ClaimAny(w) ==
    /\ wk[w].pc = "claim"
    /\ fups' = [fups EXCEPT ![wk[w].f].status = "sending"]
    /\ Update(w, [wk[w] EXCEPT !.pc = "load"])
    /\ UNCHANGED <<camp, cc, msgs, opted, skip>>

\* UPDATE ... SET status = 'sending' WHERE status IN ('pending', 'paused')
Claim(w) ==
    /\ wk[w].pc = "claim"
    /\ IF wk[w].f \in Pending
       THEN /\ fups' = [fups EXCEPT ![wk[w].f].status = "sending"]
            /\ Update(w, [wk[w] EXCEPT !.pc = "load"])
       ELSE Update(w, Idle) /\ UNCHANGED fups
    /\ UNCHANGED <<camp, cc, msgs, opted, skip>>

\* In a second session: what is to become of the follow-up.
Load(w) ==
    /\ wk[w].pc = "load"
    /\ Update(w, IF fups[wk[w].f].status # "sending" THEN Idle
                 ELSE [wk[w] EXCEPT !.pc = "commit", !.cc = cc,
                         !.become = CASE opted              -> "failed"
                                      [] camp = "paused"    -> "pending"
                                      [] camp = "running"   -> "sent"
                                      [] OTHER              -> "cancelled"])
    /\ UNCHANGED <<camp, cc, fups, msgs, opted, skip>>

\* It does not run its step.
CommitOther(w) ==
    /\ wk[w].pc = "commit" /\ wk[w].become # "sent"
    /\ fups' = [fups EXCEPT ![wk[w].f].status = wk[w].become]
    /\ Update(w, Idle)
    /\ UNCHANGED <<camp, cc, msgs, opted, skip>>

\* It runs its step; of the contact's row only what it changed is written.
CommitStep(w) ==
    /\ wk[w].pc = "commit" /\ wk[w].become = "sent"
    /\ \E o \in Executed[fups[wk[w].f].step] :
         /\ WithinBounds(o)
         /\ LET loaded == wk[w].cc
                status == StatusAfter(o, loaded)
            IN cc' = [status |-> IF status # loaded.status THEN status ELSE cc.status,
                      step   |-> IF o.step # loaded.step THEN o.step ELSE cc.step]
         /\ AddMessage(o)
         /\ fups' = AddFollowUp([fups EXCEPT ![wk[w].f].status = "sent"], o)
         /\ Outbox(w, o)
    /\ UNCHANGED <<camp, opted, skip>>

\* Its step j, or one that a condition leads to, raises (no version, no usable
\* sender, a second reply to ask for): the follow-up is failed, the contact stays at j.
StepRaises(w) ==
    /\ wk[w].pc = "commit" /\ wk[w].become = "sent"
    /\ fups' = [fups EXCEPT ![wk[w].f].status = "failed"]
    /\ \E j \in RunWith(fups[wk[w].f].step) :
         /\ TypeOf(j) \in {"send", "condition"}
         /\ cc' = [cc EXCEPT !.step = IF j # wk[w].cc.step THEN j ELSE @]
    /\ Update(w, Idle)
    /\ UNCHANGED <<camp, msgs, opted, skip>>

\* A worker dies with the follow-up it has claimed.  Elsewhere a death loses
\* nothing: it is as if the worker had not begun, or had published its message.
Crash(w) ==
    /\ MayCrash
    /\ wk[w].pc \in {"load", "commit"}
    /\ Update(w, Idle)
    /\ UNCHANGED <<camp, cc, fups, msgs, opted, skip>>

-----------------------------------------------------------------------------
(* The messages, the contact, the operator and the clock *)

\* _send_one, from its hold check to its outcome
SendMessage(m) ==
    /\ msgs[m].status = "queued"
    /\ \/ /\ camp = "stopped"
          /\ msgs' = [msgs EXCEPT ![m].status = "cancelled"]
          /\ UNCHANGED <<cc, fups>>
       \/ /\ camp \in {"running", "completed"} /\ ~opted
          /\ msgs' = [msgs EXCEPT ![m].status = "sent", ![m].out = TRUE]
          /\ cc' = [cc EXCEPT !.status = IF @ = "queued" THEN "sent" ELSE @]
          /\ UNCHANGED fups
       \/ /\ camp \in {"running", "completed"}
          /\ msgs' = [msgs EXCEPT ![m].status = "failed"]
          /\ IF cc.status \in {"queued", "sent"}
             THEN cc' = [cc EXCEPT !.status = "failed"] /\ fups' = Cancelled({"pending"})
             ELSE UNCHANGED <<cc, fups>>
    /\ UNCHANGED <<camp, opted, wk, skip>>

\* The gateway's receipt, which may come after the end is known otherwise.
Receipt(m) ==
    /\ msgs[m].status = "sent" \/ msgs[m].alone
    /\ \E status \in {"delivered", "failed"} :
         /\ msgs' = [msgs EXCEPT ![m].status = status, ![m].alone = FALSE]
         /\ cc' = [cc EXCEPT !.status = IF @ \in {"queued", "sent"} THEN status ELSE @]
    /\ UNCHANGED <<camp, fups, opted, wk, skip>>

\* The poll of the gateway and Brevo's events write the message alone.
Reported(m) ==
    /\ msgs[m].status = "sent"
    /\ \E status \in {"delivered", "failed"} :
         msgs' = [msgs EXCEPT ![m].status = status, ![m].alone = TRUE]
    /\ UNCHANGED <<camp, cc, fups, opted, wk, skip>>

\* _stop_seq
StopSequence(status) ==
    /\ cc' = [cc EXCEPT !.status = IF @ \in status THEN "replied" ELSE @]
    /\ fups' = Cancelled({"pending", "sending"})

\* A reply, which may be an opt-out, stops the sequence.
Reply(out) ==
    /\ IF out THEN "optout" \in Ops /\ ~opted ELSE "reply" \in Ops
    /\ \E m \in DOMAIN msgs : msgs[m].out
    /\ opted' = (opted \/ out)
    /\ StopSequence({"pending", "queued", "sent", "delivered"})
    /\ UNCHANGED <<camp, msgs, wk, skip>>

\* Consent withdrawn elsewhere (the inbox, a link, the agent) stops nothing.
OptOut ==
    /\ "optout" \in Ops /\ ~opted
    /\ opted' = TRUE
    /\ UNCHANGED <<camp, cc, fups, msgs, wk, skip>>

\* skip_followup reads the follow-up and its contact ...
SkipRead(f) ==
    /\ "skip" \in Ops
    /\ skip = 0
    /\ f \in Pending
    /\ skip' = f
    /\ UNCHANGED <<camp, cc, fups, msgs, opted, wk>>

\* Mutant: the contact is left as it waits.
SkipOnly ==
    /\ skip # 0
    /\ fups' = [fups EXCEPT ![skip].status = "skipped"]
    /\ skip' = 0
    /\ UNCHANGED <<camp, cc, msgs, opted, wk>>

\* ... and ends the contact's automation.
SkipCommit ==
    /\ skip # 0
    /\ fups' = [fups EXCEPT ![skip].status = "skipped"]
    /\ cc' = [cc EXCEPT !.status = "completed"]
    /\ skip' = 0
    /\ UNCHANGED <<camp, msgs, opted, wk>>

PauseResume ==
    /\ "pause" \in Ops
    /\ camp \in {"running", "paused"}
    /\ camp' = IF camp = "running" THEN "paused" ELSE "running"
    /\ UNCHANGED <<cc, fups, msgs, opted, wk, skip>>

Stop ==
    /\ "stop" \in Ops
    /\ camp \in {"running", "paused"}
    /\ camp' = "stopped"
    /\ msgs' = [m \in DOMAIN msgs |-> IF msgs[m].status = "queued"
                  THEN [msgs[m] EXCEPT !.status = "cancelled"] ELSE msgs[m]]
    /\ cc' = [cc EXCEPT !.status = IF @ \in {"pending", "queued"} THEN "cancelled" ELSE @]
    /\ fups' = Cancelled({"pending"})
    /\ UNCHANGED <<opted, wk, skip>>

\* A follow-up's time comes.
Tick(f) ==
    /\ f \in DOMAIN fups /\ ~fups[f].due
    /\ fups' = [fups EXCEPT ![f].due = TRUE]
    /\ UNCHANGED <<camp, cc, msgs, opted, wk, skip>>

WorkerStep(w) ==
    \/ BatchCommit(w) \/ BatchFinds(w) \/ CommitComplete(w)
    \/ Flushed(w) \/ FlushRefused(w) \/ FlushRollback(w)
    \/ Claim(w) \/ Load(w) \/ CommitOther(w) \/ CommitStep(w)
    \/ StepRaises(w)

Next ==
    \/ \E w \in Workers : BatchRead(w) \/ WorkerStep(w) \/ Crash(w)
    \/ \E w \in Workers, f \in DOMAIN fups : FollowUpDue(w, f) \/ SendNow(w, f)
    \/ \E m \in DOMAIN msgs : SendMessage(m) \/ Receipt(m) \/ Reported(m)
    \/ \E out \in BOOLEAN : Reply(out)
    \/ \E f \in DOMAIN fups : SkipRead(f) \/ Tick(f)
    \/ OptOut \/ SkipCommit \/ PauseResume \/ Stop

Spec == Init /\ [][Next]_vars

\* Batches, the due sweep and the message sweeps come back, a worker that has
\* begun goes on, crashes come to an end, time passes, and what was sent is
\* reported on, by a receipt or without the contact's being told.
Fairness ==
    /\ <>[][\A w \in Workers : ~Crash(w)]_vars
    /\ \A w \in Workers : WF_vars(WorkerStep(w))
    /\ SF_vars(\E w \in Workers : BatchRead(w))
    /\ \A f \in 1..MaxFollowUps :
         /\ SF_vars(\E w \in Workers : FollowUpDue(w, f))
         /\ WF_vars(Tick(f))
    /\ \A m \in 1..MaxMessages :
         SF_vars(/\ m \in DOMAIN msgs /\ ~msgs[m].alone
                 /\ SendMessage(m) \/ Receipt(m) \/ Reported(m))

FairSpec == Spec /\ Fairness

-----------------------------------------------------------------------------
(* Properties *)

\* The type of the state.
TypeOK ==
    /\ camp \in {"running", "paused", "stopped", "completed"}
    /\ cc \in ContactType
    /\ fups \in Seq(FollowUpType) /\ Len(fups) <= MaxFollowUps
    /\ msgs \in Seq(MessageType) /\ Len(msgs) <= MaxMessages
    /\ opted \in BOOLEAN
    /\ wk \in [Workers -> WorkerType]
    /\ skip \in 0..MaxFollowUps

\* A contact is at one place of its sequence: the batch and the follow-ups
\* never both have a step of it to run, nor have two follow-ups.
Live == {f \in DOMAIN fups : fups[f].status \in {"pending", "sending"}}
OneThread == Cardinality(Live) + (IF cc.status = "pending" THEN 1 ELSE 0) <= 1

\* However batches, sweeps, "send now" and the operator interleave, no step
\* of the sequence texts the contact twice, and none after a later one.
StepsInOrder ==
    \A m, n \in DOMAIN msgs :
        m < n /\ msgs[m].status # "deleted" => msgs[m].step < msgs[n].step

\* The contact is at one place of its sequence, and goes through it once.
KeepsPlace == OneThread /\ StepsInOrder

\* A campaign keeps running for ever in four cases only: a worker died with
\* the follow-up it had claimed; a message that a sweep had sent was deleted
\* because the broker had refused it, so that no receipt finds it; or its
\* contact waits for what nobody will tell it, since a follow-up failed (its
\* step raised, or the contact had opted out) or the end of a message was
\* written to the message alone.  Otherwise the contact gets to the end of the
\* sequence, is failed, skipped or replies.
Stranded == \E f \in DOMAIN fups :
    fups[f].status = "sending" /\ \A w \in Workers : wk[w].pc = "idle" \/ wk[w].f # f
Untracked == \E m \in DOMAIN msgs : msgs[m].status = "deleted" /\ msgs[m].out
Forgotten ==
    /\ cc.status \in {"queued", "sent"} /\ Live = {}
    /\ \A m \in DOMAIN msgs : msgs[m].status \notin {"queued", "sent"}
    /\ \/ \E f \in DOMAIN fups : fups[f].status = "failed"
       \/ \E m \in DOMAIN msgs : msgs[m].alone
RunEnds == camp = "running" ~> camp # "running" \/ Stranded \/ Untracked \/ Forgotten

\* A campaign that is completed has nothing of a sequence left to run: "Workflow
\* waits use CampaignContact.status="queued"" to keep it running.  It is not so:
\* the outcome and the receipt of the last message overwrite that status.
CompletedSequences == camp = "completed" => Live = {}

\* A contact who has replied gets no further step.  It is not so for a step that
\* a follow-up had begun to run: it is committed over the reply.
RepliedNoMore == [][cc.status = "replied" => Len(msgs') = Len(msgs)]_vars
=============================================================================
