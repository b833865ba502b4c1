------------------------- MODULE CampaignLifecycle -------------------------
(***************************************************************************)
(* One campaign row and its campaign_contacts rows, changed by HTTP        *)
(* requests (Operators) and by the periodic tasks (Workers).               *)
(*                                                                         *)
(* Every handler is split where the code awaits the database: it reads the *)
(* row, decides, and commits later, while other sessions run.  PostgreSQL  *)
(* is at READ COMMITTED and the ORM writes back only the attributes the    *)
(* handler changed, with an unconditional UPDATE ... WHERE id.             *)
(*                                                                         *)
(* The campaign is a template campaign: each contact gets one message,     *)
(* whose own life is reduced here to Sent and Settled.                     *)
(***************************************************************************)
EXTENDS Naturals, FiniteSets

CONSTANTS
    Contacts,       \* the members of the campaign's list
    Operators,      \* request handlers
    Workers,        \* beat tasks and the API's inline poller
    NoSession,      \* "nobody holds the row lock"
    Ops,            \* the requests that are made; a subset of AllOps
    StartStatus,    \* "draft", or "scheduled" for a campaign already armed
    BrokerMayFail,  \* may the task queue refuse a task
    MayCrash,       \* may a session die between two of its steps
    MaxOpen,        \* bound: sessions in progress at the same time
    BatchSize,      \* bound: contacts one batch picks up
    MaxTime         \* bound: last instant of the clock

Sessions == Operators \union Workers
AllOps == {"schedule", "update", "start", "pause", "resume", "stop", "delete"}

ASSUME CampaignAssumption ==
    /\ NoSession \notin Sessions
    /\ Operators \intersect Workers = {}
    /\ Ops \subseteq AllOps
    /\ StartStatus \in {"draft", "scheduled"}
    /\ BrokerMayFail \in BOOLEAN
    /\ MayCrash \in BOOLEAN
    /\ MaxOpen \in Nat \ {0}
    /\ BatchSize \in Nat \ {0}
    /\ MaxTime \in Nat \ {0}
    /\ IsFiniteSet(Contacts)

VARIABLES
    row,    \* the committed campaigns row
    cc,     \* the committed campaign_contacts rows, by contact and inserter
    lock,   \* the session whose open transaction has updated the row
    ses,    \* what each session has read and intends to write
    now,    \* wall clock
    letters,  \* messages rows that refer to the campaign, by contact row
    reached,  \* history: those whose message has gone out
    undone    \* history: those whose message a rollback has deleted

mail == <<letters, reached, undone>>
vars == <<row, cc, lock, ses, now, mail>>

Status == {"draft", "scheduled", "running", "paused", "failed", "completed",
           "stopped"}

Transitions ==
    [status \in Status |->
        CASE status = "draft"     -> {"scheduled", "running"}
          [] status = "scheduled" -> {"draft", "running", "paused", "stopped"}
          [] status = "running"   -> {"paused", "completed", "stopped", "failed"}
          [] status = "paused"    -> {"running", "scheduled", "stopped"}
          [] status = "failed"    -> {"stopped"}
          [] OTHER                -> {}]

Terminal == {"completed", "stopped"}

NoTime == 0
Due(t) == t # NoTime /\ t <= now

\* A row is named by its contact and by the session that inserted it: the
\* table has no unique key on (campaign_id, contact_id).
Slots == Contacts \X Sessions
CCStatus == {"none", "pending", "queued", "sent", "done", "cancelled"}
Live == {"pending", "queued", "sent"}

Times == 0..MaxTime
Totals == 0..Cardinality(Contacts)

RowType == [status     : Status \union {"deleted"},
            pausedFrom : {"none", "scheduled"},
            startAt    : Times,
            total      : Totals,
            sent       : BOOLEAN]

SessionType == [pc   : {"idle", "existing", "claim", "commit", "enqueue",
                        "select", "flush", "rollback"},
                op   : AllOps \union {"launch", "batch", "complete", "crash"},
                snap : RowType,             \* the row as it was read
                want : RowType,             \* the row as the handler left it
                add  : SUBSET Contacts,     \* contacts to enrol
                rows : SUBSET Slots,        \* rows a batch picked up
                back : SUBSET Slots]        \* rows a rollback puts back

NewRow == [status |-> StartStatus, pausedFrom |-> "none",
           startAt |-> IF StartStatus = "scheduled" THEN MaxTime ELSE NoTime,
           total |-> 0, sent |-> FALSE]

Closed == [pc |-> "idle", op |-> "batch", snap |-> NewRow, want |-> NewRow,
           add |-> {}, rows |-> {}, back |-> {}]

Init ==
    /\ row = NewRow
    /\ cc = [x \in Slots |-> "none"]
    /\ lock = NoSession
    /\ ses = [s \in Sessions |-> Closed]
    /\ now = 1
    /\ letters = {} /\ reached = {} /\ undone = {}

-----------------------------------------------------------------------------
(* Sessions and the row *)

Idle(s) == ses[s].pc = "idle"

\* The ORM's flush: only what the handler changed is written.
Flush(current, snap, want) ==
    [f \in DOMAIN current |->
        IF want[f] # snap[f] THEN want[f] ELSE current[f]]

Update(s, session) == ses' = [ses EXCEPT ![s] = session]

\* Open a session: read the row, and go to pc meaning to make it want.
Read(s, op, pc, want) ==
    /\ Idle(s)
    /\ row.status # "deleted"
    /\ Cardinality({t \in Sessions : ~Idle(t)}) < MaxOpen
    /\ Update(s, [Closed EXCEPT !.op = op, !.pc = pc,
                                !.snap = row, !.want = want])
    /\ UNCHANGED <<mail, row, cc, lock, now>>

Request(o, op, pc, want) == op \in Ops /\ Read(o, op, pc, want)

Close(s) == Update(s, Closed)

\* A session that dies leaves a mark, so that fairness can tell it from one
\* that comes to its end.
Die(s) == Update(s, [Closed EXCEPT !.op = "crash"])

At(s, op, pc) == ses[s].op = op /\ ses[s].pc = pc

\* The UPDATE of the row: it waits for another transaction's row lock.
Write(s) ==
    /\ lock \in {NoSession, s}
    /\ row.status # "deleted"
    /\ row' = Flush(row, ses[s].snap, ses[s].want)
    /\ lock' = NoSession

\* Rows a batch holds with SELECT ... FOR UPDATE.
Locked == UNION {ses[w].rows : w \in {v \in Workers : At(v, "batch", "commit")}}

Enrolled == {c \in Contacts : \E s \in Sessions : cc[<<c, s>>] # "none"}

-----------------------------------------------------------------------------
(* Requests that only change the row *)

SetSchedule(o) ==
    /\ row.status \in {"draft", "scheduled"}
    /\ \/ \E t \in now..MaxTime :
            Request(o, "schedule", "commit",
                    [row EXCEPT !.status = "scheduled", !.startAt = t])
       \/ /\ row.status = "scheduled" \/ row.startAt # NoTime
          /\ Request(o, "schedule", "commit",
                     [row EXCEPT !.status = "draft", !.startAt = NoTime])

UpdateCampaign(o) ==
    /\ row.status \in {"draft", "scheduled"}
    /\ \E patch \in SUBSET {"content", "list", "time"} \ {{}} :
       \E t \in IF "time" \in patch THEN {NoTime} \union now..MaxTime
                                    ELSE {row.startAt} :
         LET cleared == "time" \in patch /\ t = NoTime
             demoted == row.status = "scheduled" /\ (cleared \/ patch # {"time"})
         IN Request(o, "update", "commit",
                [row EXCEPT !.status = IF demoted THEN "draft" ELSE @,
                            !.startAt = t,
                            !.total = IF "list" \in patch THEN 0 ELSE @])

\* Mutant: pausedFrom keeps whatever the status was.
PauseKeepsStatus(o) ==
    /\ row.status \in {"running", "scheduled"}
    /\ Request(o, "pause", "commit",
               [row EXCEPT !.status = "paused", !.pausedFrom = row.status])

PauseCampaign(o) ==
    /\ row.status \in {"running", "scheduled"}
    /\ Request(o, "pause", "commit",
               [row EXCEPT !.status = "paused",
                           !.pausedFrom = IF row.status = "scheduled"
                                          THEN "scheduled" ELSE "none"])

ToRunning == [row EXCEPT !.status = "running", !.pausedFrom = "none"]

StartFresh(o) ==
    /\ \/ row.status \in {"draft", "scheduled"}
       \/ row.status = "paused" /\ row.pausedFrom = "scheduled"
    /\ Request(o, "start", "existing", ToRunning)

\* Mutant: a campaign paused mid-send is populated again.
ResumePopulates(o) ==
    /\ row.status = "paused" /\ row.pausedFrom # "scheduled"
    /\ \E op \in {"start", "resume"} : Request(o, op, "existing", ToRunning)

\* Start or resume of a campaign paused mid-send.
ResumeSending(o) ==
    /\ row.status = "paused" /\ row.pausedFrom # "scheduled"
    /\ \E op \in {"start", "resume"} : Request(o, op, "commit", ToRunning)

ResumeSchedule(o) ==
    /\ row.status = "paused" /\ row.pausedFrom = "scheduled"
    /\ Request(o, "resume", "commit",
               [row EXCEPT !.status = "scheduled", !.pausedFrom = "none",
                           !.startAt = IF Due(@) THEN NoTime ELSE @])

\* Mutant: a completed campaign can be stopped.
StopAnything(o) ==
    /\ row.status \in {"running", "paused", "scheduled", "failed", "completed"}
    /\ Request(o, "stop", "commit",
               [row EXCEPT !.status = "stopped", !.pausedFrom = "none"])

StopCampaign(o) ==
    /\ row.status \in {"running", "paused", "scheduled", "failed"}
    /\ Request(o, "stop", "commit",
               [row EXCEPT !.status = "stopped", !.pausedFrom = "none"])

DeleteCampaign(o) ==
    /\ \/ row.status \in {"draft", "scheduled", "failed"}
       \/ row.status = "paused" /\ row.pausedFrom = "scheduled"
    /\ ~row.sent
    /\ Request(o, "delete", "commit", [row EXCEPT !.status = "deleted"])

CommitRow(o) ==
    /\ At(o, "schedule", "commit") \/ At(o, "update", "commit")
         \/ At(o, "pause", "commit")
         \/ (At(o, "resume", "commit") /\ ses[o].want.status = "scheduled")
    /\ Write(o)
    /\ Close(o)
    /\ UNCHANGED <<mail, cc, now>>

\* Mutant: the UPDATE of the contacts does not wait for a batch's row locks.
StopOverBatch(o) ==
    /\ At(o, "stop", "commit")
    /\ Write(o)
    /\ cc' = [x \in Slots |->
                IF cc[x] \in {"pending", "queued"} THEN "cancelled" ELSE cc[x]]
    /\ Close(o)
    /\ UNCHANGED <<mail, now>>

\* Stop: the row, then the contacts; the second UPDATE waits for a batch.
CommitStop(o) ==
    /\ At(o, "stop", "commit")
    /\ Locked = {}
    /\ Write(o)
    /\ cc' = [x \in Slots |->
                IF cc[x] \in {"pending", "queued"} THEN "cancelled" ELSE cc[x]]
    /\ Close(o)
    /\ UNCHANGED <<mail, now>>

\* Mutant: the messages of a deleted campaign do not hold it back.
DeleteAnyway(o) ==
    /\ At(o, "delete", "commit")
    /\ Locked = {}
    /\ Write(o)
    /\ cc' = [x \in Slots |-> "none"]
    /\ Close(o)
    /\ UNCHANGED <<mail, now>>

\* Delete takes the contact rows along; a message that still refers to the
\* campaign makes the database refuse it, and so may a thread that the campaign
\* was the first to write in, which keeps its stamp when the message goes.
CommitDelete(o) ==
    /\ At(o, "delete", "commit")
    /\ Locked = {}
    /\ lock = NoSession
    /\ \/ /\ letters = {}
          /\ Write(o)
          /\ cc' = [x \in Slots |-> "none"]
       \/ /\ letters \union undone # {}
          /\ UNCHANGED <<row, cc, lock>>
    /\ Close(o)
    /\ UNCHANGED <<mail, now>>

\* An UPDATE that finds no row fails the request.
RowGone(s) ==
    /\ ses[s].pc \in {"claim", "existing", "commit", "enqueue"}
    /\ row.status = "deleted"
    /\ Close(s)
    /\ lock' = IF lock = s THEN NoSession ELSE lock
    /\ UNCHANGED <<mail, row, cc, now>>

-----------------------------------------------------------------------------
(* Starting: enrolment of the audience, and the hand-over to the queue *)

\* _populate_campaign_contacts: who is eligible, less who is already there.
ReadExisting(s) ==
    /\ ses[s].pc = "existing"
    /\ row.status # "deleted"
    /\ \E eligible \in SUBSET Contacts \ {{}} :
         LET added == eligible \ Enrolled
         IN Update(s, [ses[s] EXCEPT !.pc = "commit", !.add = added,
                                     !.want = [@ EXCEPT !.total = Cardinality(added)]])
    /\ UNCHANGED <<mail, row, cc, lock, now>>

Enrol(s) ==
    cc' = [x \in Slots |->
             IF x[2] = s /\ x[1] \in ses[s].add THEN "pending" ELSE cc[x]]

CommitStart(o) ==
    /\ At(o, "start", "commit") \/ At(o, "resume", "commit")
    /\ ses[o].want.status = "running"
    /\ Write(o)
    /\ Enrol(o)
    /\ Update(o, [ses[o] EXCEPT !.pc = "enqueue", !.add = {}])
    /\ UNCHANGED <<mail, now>>

Enqueued(o) ==
    /\ ses[o].pc = "enqueue"
    /\ Close(o)
    /\ UNCHANGED <<mail, row, cc, lock, now>>

\* 503: the handler puts the attributes it saved back and commits again.
QueueUnavailable(o) ==
    /\ BrokerMayFail
    /\ ses[o].pc = "enqueue"
    /\ lock = NoSession
    /\ row.status # "deleted"
    /\ LET left == ses[o].want
       IN row' = Flush(row, left, [left EXCEPT !.status = ses[o].snap.status,
                                        !.pausedFrom = ses[o].snap.pausedFrom])
    /\ Close(o)
    /\ UNCHANGED <<mail, cc, lock, now>>

-----------------------------------------------------------------------------
(* The launcher *)

LaunchSelect(w) ==
    /\ row.status = "scheduled" /\ Due(row.startAt)
    /\ Read(w, "launch", "claim", [row EXCEPT !.startAt = NoTime])

\* Mutant: the claim does not keep the row locked until the commit.
ClaimUnlocked(w) ==
    /\ At(w, "launch", "claim")
    /\ lock = NoSession
    /\ row.status = "scheduled"
    /\ Update(w, [ses[w] EXCEPT !.pc = "existing",
            !.want = [@ EXCEPT !.status = "running", !.pausedFrom = "none"]])
    /\ UNCHANGED <<mail, row, cc, lock, now>>

\* UPDATE ... SET scheduled_start_at = NULL WHERE status = 'scheduled'
LaunchClaim(w) ==
    /\ At(w, "launch", "claim")
    /\ lock = NoSession
    /\ row.status = "scheduled"
    /\ lock' = w
    /\ Update(w, [ses[w] EXCEPT !.pc = "existing",
            !.want = [@ EXCEPT !.status = "running", !.pausedFrom = "none"]])
    /\ UNCHANGED <<mail, row, cc, now>>

LaunchSkip(w) ==
    /\ At(w, "launch", "claim")
    /\ lock = NoSession
    /\ row.status \notin {"scheduled", "deleted"}
    /\ Close(w)
    /\ UNCHANGED <<mail, row, cc, lock, now>>

\* Not startable: back to draft.  Any other error leaves it scheduled.
LaunchFails(w) ==
    /\ At(w, "launch", "existing")
    /\ \E status \in {"draft", "scheduled"} :
         row' = [row EXCEPT !.startAt = NoTime, !.status = status]
    /\ lock' = NoSession
    /\ Close(w)
    /\ UNCHANGED <<mail, cc, now>>

CommitLaunch(w) ==
    /\ At(w, "launch", "commit")
    /\ Write(w)
    /\ Enrol(w)
    /\ Close(w)
    /\ UNCHANGED <<mail, now>>

-----------------------------------------------------------------------------
(* The batch *)

BatchRead(w) == row.status = "running" /\ Read(w, "batch", "select", row)

\* No room under the caps, or everything is in another batch's hands.
BatchWait(w) ==
    /\ At(w, "batch", "select")
    /\ Close(w)
    /\ UNCHANGED <<mail, row, cc, lock, now>>

\* Mutant: a batch stops one short of its size.
BatchPickLess(w) ==
    /\ At(w, "batch", "select")
    /\ \E picked \in SUBSET {x \in Slots : cc[x] = "pending"} :
         /\ picked # {} /\ picked \intersect Locked = {}
         /\ Cardinality(picked) < BatchSize
         /\ Update(w, [ses[w] EXCEPT !.pc = "commit", !.rows = picked])
    /\ UNCHANGED <<mail, row, cc, lock, now>>

BatchPick(w) ==
    /\ At(w, "batch", "select")
    /\ \E picked \in SUBSET {x \in Slots : cc[x] = "pending"} :
         /\ picked # {} /\ picked \intersect Locked = {}
         /\ Cardinality(picked) <= BatchSize
         /\ Update(w, [ses[w] EXCEPT !.pc = "commit", !.rows = picked])
    /\ UNCHANGED <<mail, row, cc, lock, now>>

\* Each contact gets its message, or is refused on the spot.
BatchCommit(w) ==
    /\ At(w, "batch", "commit")
    /\ \E refused \in SUBSET ses[w].rows :
         /\ cc' = [x \in Slots |-> IF x \in refused THEN "done"
                                   ELSE IF x \in ses[w].rows THEN "queued"
                                   ELSE cc[x]]
         /\ letters' = letters \union (ses[w].rows \ refused)
         /\ Update(w, [ses[w] EXCEPT !.pc = "flush", !.rows = @ \ refused])
    /\ UNCHANGED <<row, lock, now, reached, undone>>

Flushed(w) ==
    /\ At(w, "batch", "flush")
    /\ Close(w)
    /\ UNCHANGED <<mail, row, cc, lock, now>>

\* _flush_outbox: the broker refused some; their contacts are read ...
FlushRefused(w) ==
    /\ BrokerMayFail
    /\ At(w, "batch", "flush")
    /\ \E lost \in SUBSET ses[w].rows :
         Update(w, [ses[w] EXCEPT !.pc = "rollback", !.rows = lost,
                                  !.back = {x \in lost : cc[x] = "queued"}])
    /\ UNCHANGED <<mail, row, cc, lock, now>>

\* ... and those that were queued are written back to pending, whatever they
\* have become meanwhile.  The messages are deleted, although the sweep may
\* have sent some that no task was published for.
FlushRollback(w) ==
    /\ At(w, "batch", "rollback")
    /\ ses[w].back \intersect Locked = {}
    /\ cc' = [x \in Slots |->
                IF x \in ses[w].back /\ cc[x] # "none" THEN "pending" ELSE cc[x]]
    /\ letters' = letters \ ses[w].rows
    /\ undone' = undone \union ses[w].rows
    /\ Close(w)
    /\ UNCHANGED <<row, lock, now, reached>>

NothingRemains == \A x \in Slots : cc[x] \notin {"pending", "queued", "sent"}

\* Mutant: contacts whose message is under way do not count.
BatchFindsNonePending(w) ==
    /\ At(w, "batch", "select")
    /\ \A x \in Slots : cc[x] # "pending"
    /\ Update(w, [ses[w] EXCEPT !.op = "complete", !.pc = "commit",
                                !.want = [@ EXCEPT !.status = "completed"]])
    /\ UNCHANGED <<mail, row, cc, lock, now>>

\* Mutant: a campaign that sent nothing is not completed.
BatchFindsSent(w) ==
    /\ At(w, "batch", "select")
    /\ NothingRemains
    /\ row.sent
    /\ Update(w, [ses[w] EXCEPT !.op = "complete", !.pc = "commit",
                                !.want = [@ EXCEPT !.status = "completed"]])
    /\ UNCHANGED <<mail, row, cc, lock, now>>

BatchFinds(w) ==
    /\ At(w, "batch", "select")
    /\ NothingRemains
    /\ Update(w, [ses[w] EXCEPT !.op = "complete", !.pc = "commit",
                                !.want = [@ EXCEPT !.status = "completed"]])
    /\ UNCHANGED <<mail, row, cc, lock, now>>

CommitComplete(w) ==
    /\ At(w, "complete", "commit")
    /\ Write(w)
    /\ Close(w)
    /\ UNCHANGED <<mail, cc, now>>

-----------------------------------------------------------------------------
(* What happens to messages, the clock, and crashes *)

\* _record_campaign_outcome, success: the contact and the campaign's counter.
Sent(x) ==
    /\ cc[x] = "queued" /\ x \in letters /\ x \notin Locked
    /\ lock = NoSession
    /\ cc' = [cc EXCEPT ![x] = "sent"]
    /\ row' = [row EXCEPT !.sent = TRUE]
    /\ reached' = reached \union {x}
    /\ UNCHANGED <<lock, ses, now, letters, undone>>

\* A failure, a receipt, or the contact's own reply.
Settled(x) ==
    /\ cc[x] \in Live /\ x \notin Locked
    /\ cc' = [cc EXCEPT ![x] = "done"]
    /\ UNCHANGED <<mail, row, lock, ses, now>>

Crash(s) ==
    /\ MayCrash
    /\ ~Idle(s)
    /\ Die(s)
    /\ lock' = IF lock = s THEN NoSession ELSE lock
    /\ UNCHANGED <<mail, row, cc, now>>

Tick ==
    /\ now < MaxTime
    /\ now' = now + 1
    /\ UNCHANGED <<mail, row, cc, lock, ses>>

OperatorStep(o) ==
    \/ SetSchedule(o) \/ UpdateCampaign(o) \/ PauseCampaign(o)
    \/ StartFresh(o) \/ ResumeSending(o) \/ ResumeSchedule(o)
    \/ StopCampaign(o) \/ DeleteCampaign(o)
    \/ CommitRow(o) \/ CommitStop(o) \/ CommitDelete(o)
    \/ CommitStart(o) \/ Enqueued(o) \/ QueueUnavailable(o)

LaunchStep(w) ==
    LaunchClaim(w) \/ LaunchSkip(w) \/ LaunchFails(w) \/ CommitLaunch(w)

BatchStep(w) ==
    \/ BatchCommit(w) \/ Flushed(w) \/ FlushRefused(w)
    \/ FlushRollback(w) \/ CommitComplete(w)

WorkerStep(w) ==
    \/ LaunchSelect(w) \/ LaunchStep(w)
    \/ BatchRead(w) \/ BatchWait(w) \/ BatchPick(w) \/ BatchFinds(w)
    \/ BatchStep(w)

AnyStep(s) == ReadExisting(s) \/ RowGone(s) \/ Crash(s)

Next ==
    \/ \E o \in Operators : OperatorStep(o)
    \/ \E w \in Workers : WorkerStep(w)
    \/ \E s \in Sessions : AnyStep(s)
    \/ \E x \in Slots : Sent(x) \/ Settled(x)
    \/ Tick

Spec == Init /\ [][Next]_vars

\* Beat and the inline poller run the launcher and the batch of every running
\* campaign again and again, and a task that has begun takes its next step.
\* Nothing is assumed of requests and of messages; crashes come to an end.
Fairness ==
    /\ <>[][\A s \in Sessions : ~Crash(s)]_vars
    /\ WF_vars(Tick)
    /\ \A w \in Workers :
         /\ SF_vars(LaunchSelect(w))
         /\ WF_vars(LaunchStep(w) \/ ReadExisting(w) \/ RowGone(w))
         /\ SF_vars(BatchRead(w))
         /\ SF_vars(BatchPick(w))
         /\ SF_vars(BatchFinds(w))
         /\ WF_vars(BatchWait(w))
         /\ WF_vars(BatchStep(w))

FairSpec == Spec /\ Fairness
-----------------------------------------------------------------------------
(* Properties *)

\* The type of the state.
TypeOK ==
    /\ row \in RowType
    /\ cc \in [Slots -> CCStatus]
    /\ lock \in Sessions \union {NoSession}
    /\ ses \in [Sessions -> SessionType]
    /\ now \in 1..MaxTime
    /\ letters \subseteq Slots /\ reached \subseteq Slots /\ undone \subseteq Slots

\* A contact has at most one row in the campaign, however the launchers of
\* beat and of the inline poller, pauses, stops and crashes fall together: the
\* claim's row lock covers the read of the existing rows and the inserts.
EnrolledOnce ==
    \A c \in Contacts : \A s, t \in Sessions :
        cc[<<c, s>>] # "none" /\ cc[<<c, t>>] # "none" => s = t

\* The batch that completes a campaign leaves no contact waiting for, or in
\* the middle of, its message (process_campaign_batch_async's last check).
CompletedDrained == row.status = "completed" => NothingRemains

\* Once a campaign is stopped no contact is left to be picked up or sent to,
\* although a batch, a launcher or another request was in the middle of its
\* work on the same rows when the stop came.
StoppedQuiet ==
    row.status = "stopped" =>
        \A x \in Slots : cc[x] \notin {"pending", "queued"}

\* "Once a campaign has touched real recipients its history is the record":
\* delete_campaign checks messages_sent on a row it read earlier; launches,
\* batches and sends may come between, and then only the messages' foreign key
\* refuses the delete.  It cannot where a rollback has deleted the message of
\* somebody who had got it.
HistoryKept == row.status = "deleted" => reached \subseteq undone

\* Every change of status is a move of the TRANSITIONS table, or a delete of a
\* campaign that has not been started.
LegalMoves ==
    [][row'.status # row.status =>
         \/ row'.status \in Transitions[row.status]
         \/ row'.status = "deleted" /\ row.status # "running"]_vars

\* completed and stopped are final.
TerminalIsFinal ==
    [][row.status \in Terminal => row'.status = row.status]_vars

\* A campaign that has not been launched has no contact rows; that is what
\* lets resume put a campaign paused while scheduled back on its schedule.
EmptyBeforeLaunch ==
    \/ row.status \in {"draft", "scheduled"}
    \/ row.status = "paused" /\ row.pausedFrom = "scheduled"
    => Enrolled = {}

\* total_contacts of a campaign that was launched is the size of its audience.
TotalIsAudience ==
    row.status \in {"running", "completed"} =>
        row.total = Cardinality(Enrolled)

\* The rows of the contacts are those of a launch, and all of it.
AudienceMatches == EmptyBeforeLaunch /\ TotalIsAudience

\* The launcher starts a campaign only when the launch time that the row holds
\* at that moment has come.
LaunchOnTime ==
    [][\A w \in Workers : LaunchClaim(w) => Due(row.startAt)]_vars

\* A campaign whose launch time has come does not stay armed for ever.
DueIsLaunched ==
    (row.status = "scheduled" /\ Due(row.startAt))
        ~> ~(row.status = "scheduled" /\ Due(row.startAt))

\* A pending contact of a running campaign is picked up by some batch, unless
\* the campaign leaves running first.
PendingIsServed ==
    \A x \in Slots :
        (row.status = "running" /\ cc[x] = "pending")
            ~> (row.status # "running" \/ cc[x] # "pending")

\* The launcher and the batch processor get round to everybody.
QueueIsServed == DueIsLaunched /\ PendingIsServed

\* A running campaign with nothing left to do is completed, or somebody pauses
\* or stops it.
DrainedCompletes ==
    (row.status = "running" /\ NothingRemains)
        ~> (row.status # "running" \/ ~NothingRemains)
=============================================================================
