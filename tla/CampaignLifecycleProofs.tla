---------------------- MODULE CampaignLifecycleProofs ----------------------
(***************************************************************************)
(* Proofs about CampaignLifecycle, for any set of contacts, requests and   *)
(* workers.                                                                *)
(***************************************************************************)
EXTENDS CampaignLifecycle, FiniteSetTheorems, TLAPS

-----------------------------------------------------------------------------
(* Types *)

\* What the ORM writes back is a row again.
LEMMA FlushType ==
    ASSUME NEW current \in RowType, NEW snap \in RowType, NEW want \in RowType
    PROVE  Flush(current, snap, want) \in RowType
  <1>1. DOMAIN current = {"status", "pausedFrom", "startAt", "total", "sent"}
    BY DEF RowType
  <1>2. Flush(current, snap, want) =
          [f \in {"status", "pausedFrom", "startAt", "total", "sent"} |->
             IF want[f] # snap[f] THEN want[f] ELSE current[f]]
    BY <1>1 DEF Flush
  <1>. QED BY <1>2 DEF RowType

\* A session that is closed, and one that has just read the row, are typed.
LEMMA TimesTotals ==
    /\ 0 \in Totals /\ 1 \in 1..MaxTime /\ NoTime \in Times /\ MaxTime \in Times
    /\ \A n \in 1..MaxTime : \A t \in n..MaxTime : t \in Times
  <1>1. Cardinality(Contacts) \in Nat
    BY FS_CardinalityType, CampaignAssumption
  <1>. QED BY <1>1, CampaignAssumption DEF Times, Totals, NoTime

LEMMA ClosedType == NewRow \in RowType /\ Closed \in SessionType
  <1>1. NewRow \in RowType
    BY TimesTotals, CampaignAssumption DEF NewRow, RowType, Status
  <1>. QED BY <1>1 DEF Closed, SessionType

LEMMA UpdateType ==
    ASSUME TypeOK, NEW s \in Sessions, NEW session \in SessionType,
           Update(s, session)
    PROVE  ses' \in [Sessions -> SessionType]
  BY DEF TypeOK, Update

LEMMA CloseType ==
    ASSUME TypeOK, NEW s \in Sessions, Close(s) \/ Die(s)
    PROVE  ses' \in [Sessions -> SessionType]
  <1>1. [Closed EXCEPT !.op = "crash"] \in SessionType
    BY ClosedType DEF SessionType
  <1>. QED BY <1>1, ClosedType, UpdateType DEF Close, Die

LEMMA ReadType ==
    ASSUME TypeOK, NEW s \in Sessions, NEW pc, NEW op, NEW want \in RowType,
           pc \in {"existing", "claim", "commit", "select"},
           op \in AllOps \union {"launch", "batch"},
           Read(s, op, pc, want)
    PROVE  TypeOK'
  <1>. USE DEF mail
  <1>1. [Closed EXCEPT !.op = op, !.pc = pc, !.snap = row, !.want = want]
          \in SessionType
    BY ClosedType DEF SessionType, TypeOK
  <1>. QED BY <1>1, UpdateType DEF Read, TypeOK

LEMMA WriteType ==
    ASSUME TypeOK, NEW s \in Sessions, Write(s)
    PROVE  row' \in RowType /\ lock' \in Sessions \union {NoSession}
  <1>1. ses[s].snap \in RowType /\ ses[s].want \in RowType /\ row \in RowType
    BY DEF TypeOK, SessionType
  <1>. QED BY <1>1, FlushType DEF Write

LEMMA EnrolType ==
    ASSUME TypeOK, NEW s \in Sessions, Enrol(s)
    PROVE  cc' \in [Slots -> CCStatus]
  BY DEF TypeOK, Enrol, CCStatus

\* Every step of a request preserves the types.
LEMMA OperatorType ==
    ASSUME TypeOK, NEW o \in Operators, OperatorStep(o)
    PROVE  TypeOK'
  <1>. USE DEF mail
  <1>. o \in Sessions
    BY DEF Sessions
  <1>0. /\ row \in RowType /\ NoTime \in Times /\ 0 \in Totals
        /\ \A t \in now..MaxTime : t \in Times
    BY TimesTotals DEF TypeOK
  <1>1. CASE SetSchedule(o)
    <2>1. \A t \in now..MaxTime :
            [row EXCEPT !.status = "scheduled", !.startAt = t] \in RowType
      BY <1>0 DEF RowType, Status
    <2>2. [row EXCEPT !.status = "draft", !.startAt = NoTime] \in RowType
      BY <1>0 DEF RowType, Status
    <2>. QED BY <1>1, <2>1, <2>2, ReadType DEF SetSchedule, Request, AllOps
  <1>2. CASE UpdateCampaign(o)
    <2>1. \A t \in Times : \A st \in {"draft", row.status} :
          \A n \in {0, row.total} :
            [row EXCEPT !.status = st, !.startAt = t, !.total = n] \in RowType
      BY <1>0 DEF RowType, Status
    <2>2. PICK t \in {NoTime, row.startAt} \union now..MaxTime,
               st \in {"draft", row.status}, n \in {0, row.total} :
            Request(o, "update", "commit",
                    [row EXCEPT !.status = st, !.startAt = t, !.total = n])
      BY <1>2 DEF UpdateCampaign
    <2>3. t \in Times
      BY <1>0, <2>2 DEF RowType
    <2>. QED BY <2>1, <2>2, <2>3, ReadType DEF Request, AllOps
  <1>3. CASE PauseCampaign(o)
    <2>1. \A p \in {"none", "scheduled"} :
            [row EXCEPT !.status = "paused", !.pausedFrom = p] \in RowType
      BY <1>0 DEF RowType, Status
    <2>. QED BY <1>3, <2>1, ReadType DEF PauseCampaign, Request, AllOps
  <1>4. ToRunning \in RowType
    BY <1>0 DEF ToRunning, RowType, Status
  <1>5. CASE StartFresh(o)
    BY <1>5, <1>4, ReadType DEF StartFresh, Request, AllOps
  <1>6. CASE ResumeSending(o)
    BY <1>6, <1>4, ReadType DEF ResumeSending, Request, AllOps
  <1>7. CASE ResumeSchedule(o)
    <2>1. \A t \in {NoTime, row.startAt} :
            [row EXCEPT !.status = "scheduled", !.pausedFrom = "none",
                        !.startAt = t] \in RowType
      BY <1>0 DEF RowType, Status
    <2>2. PICK t \in {NoTime, row.startAt} :
            Request(o, "resume", "commit",
                    [row EXCEPT !.status = "scheduled", !.pausedFrom = "none",
                                !.startAt = t])
      BY <1>7 DEF ResumeSchedule
    <2>. QED BY <2>1, <2>2, ReadType DEF Request, AllOps
  <1>8. CASE StopCampaign(o)
    <2>1. [row EXCEPT !.status = "stopped", !.pausedFrom = "none"] \in RowType
      BY <1>0 DEF RowType, Status
    <2>. QED BY <1>8, <2>1, ReadType DEF StopCampaign, Request, AllOps
  <1>9. CASE DeleteCampaign(o)
    <2>1. [row EXCEPT !.status = "deleted"] \in RowType
      BY <1>0 DEF RowType
    <2>. QED BY <1>9, <2>1, ReadType DEF DeleteCampaign, Request, AllOps
  <1>10. CASE CommitRow(o)
    BY <1>10, WriteType, CloseType DEF CommitRow, TypeOK
  <1>11. CASE CommitStop(o)
    <2>1. cc' \in [Slots -> CCStatus]
      BY <1>11 DEF CommitStop, TypeOK, CCStatus
    <2>. QED BY <1>11, <2>1, WriteType, CloseType DEF CommitStop, TypeOK
  <1>12. CASE CommitDelete(o)
    <2>1. cc' \in [Slots -> CCStatus]
      BY <1>12 DEF CommitDelete, TypeOK, CCStatus
    <2>. QED BY <1>12, <2>1, WriteType, CloseType DEF CommitDelete, TypeOK
  <1>13. CASE CommitStart(o)
    <2>1. ses' \in [Sessions -> SessionType]
      BY <1>13, UpdateType DEF CommitStart, TypeOK, SessionType
    <2>. QED BY <1>13, <2>1, WriteType, EnrolType DEF CommitStart, TypeOK
  <1>14. CASE Enqueued(o)
    BY <1>14, CloseType DEF Enqueued, TypeOK
  <1>15. CASE QueueUnavailable(o)
    <2>1. ses[o].snap \in RowType /\ ses[o].want \in RowType
      BY DEF TypeOK, SessionType
    <2>2. [ses[o].want EXCEPT !.status = ses[o].snap.status,
                              !.pausedFrom = ses[o].snap.pausedFrom] \in RowType
      BY <2>1 DEF RowType
    <2>3. row' \in RowType
      BY <1>15, <1>0, <2>1, <2>2, FlushType DEF QueueUnavailable
    <2>. QED BY <1>15, <2>3, CloseType DEF QueueUnavailable, TypeOK
  <1>. QED
    BY <1>1, <1>2, <1>3, <1>5, <1>6, <1>7, <1>8, <1>9, <1>10, <1>11, <1>12,
       <1>13, <1>14, <1>15 DEF OperatorStep

\* So does every step of a launcher or of a batch.
LEMMA WorkerType ==
    ASSUME TypeOK, NEW w \in Workers, WorkerStep(w)
    PROVE  TypeOK'
  <1>. USE DEF mail
  <1>. w \in Sessions
    BY DEF Sessions
  <1>0. row \in RowType /\ NoTime \in Times
    BY TimesTotals DEF TypeOK
  <1>1. CASE LaunchSelect(w)
    <2>1. [row EXCEPT !.startAt = NoTime] \in RowType
      BY <1>0 DEF RowType
    <2>. QED BY <1>1, <2>1, ReadType DEF LaunchSelect
  <1>2. CASE LaunchClaim(w)
    <2>1. [ses[w] EXCEPT !.pc = "existing",
            !.want = [@ EXCEPT !.status = "running", !.pausedFrom = "none"]] \in SessionType
      <3>1. [ses[w].want EXCEPT !.status = "running", !.pausedFrom = "none"]
              \in RowType
        BY DEF TypeOK, SessionType, RowType, Status
      <3>. QED BY <3>1 DEF TypeOK, SessionType
    <2>. QED BY <1>2, <2>1, UpdateType DEF LaunchClaim, TypeOK
  <1>3. CASE LaunchSkip(w)
    BY <1>3, CloseType DEF LaunchSkip, TypeOK
  <1>4. CASE LaunchFails(w)
    <2>1. row' \in RowType
      BY <1>4, <1>0 DEF LaunchFails, RowType, Status
    <2>. QED BY <1>4, <2>1, CloseType DEF LaunchFails, TypeOK
  <1>5. CASE CommitLaunch(w)
    BY <1>5, WriteType, EnrolType, CloseType DEF CommitLaunch, TypeOK
  <1>6. CASE BatchRead(w)
    BY <1>6, <1>0, ReadType DEF BatchRead
  <1>7. CASE BatchWait(w)
    BY <1>7, CloseType DEF BatchWait, TypeOK
  <1>8. CASE BatchPick(w)
    <2>1. \A picked \in SUBSET Slots :
            [ses[w] EXCEPT !.pc = "commit", !.rows = picked] \in SessionType
      BY DEF TypeOK, SessionType
    <2>2. PICK picked \in SUBSET Slots :
            Update(w, [ses[w] EXCEPT !.pc = "commit", !.rows = picked])
      BY <1>8 DEF BatchPick
    <2>. QED BY <1>8, <2>1, <2>2, UpdateType DEF BatchPick, TypeOK
  <1>9. CASE BatchFinds(w)
    <2>1. [ses[w] EXCEPT !.op = "complete", !.pc = "commit",
                         !.want = [@ EXCEPT !.status = "completed"]] \in SessionType
      <3>1. [ses[w].want EXCEPT !.status = "completed"] \in RowType
        BY DEF TypeOK, SessionType, RowType, Status
      <3>. QED BY <3>1 DEF TypeOK, SessionType
    <2>. QED BY <1>9, <2>1, UpdateType DEF BatchFinds, TypeOK
  <1>10. CASE BatchCommit(w)
    <2>1. PICK refused \in SUBSET ses[w].rows :
            Update(w, [ses[w] EXCEPT !.pc = "flush", !.rows = @ \ refused])
      BY <1>10 DEF BatchCommit
    <2>2. [ses[w] EXCEPT !.pc = "flush", !.rows = @ \ refused] \in SessionType
      BY <2>1 DEF TypeOK, SessionType
    <2>3. cc' \in [Slots -> CCStatus]
      BY <1>10 DEF BatchCommit, TypeOK, CCStatus
    <2>4. ses[w].rows \subseteq Slots
      BY DEF TypeOK, SessionType
    <2>5. letters' \subseteq Slots /\ reached' \subseteq Slots /\ undone' \subseteq Slots
      BY <1>10, <2>4 DEF BatchCommit, TypeOK
    <2>6. ses' \in [Sessions -> SessionType]
      BY <2>1, <2>2, UpdateType
    <2>7. row' \in RowType /\ lock' \in Sessions \union {NoSession} /\ now' \in 1..MaxTime
      BY <1>10 DEF BatchCommit, TypeOK
    <2>. QED BY <2>3, <2>5, <2>6, <2>7 DEF TypeOK
  <1>11. CASE Flushed(w)
    BY <1>11, CloseType DEF Flushed, TypeOK
  <1>12. CASE FlushRefused(w)
    <2>1. PICK lost \in SUBSET ses[w].rows :
            Update(w, [ses[w] EXCEPT !.pc = "rollback", !.rows = lost,
                                     !.back = {x \in lost : cc[x] = "queued"}])
      BY <1>12 DEF FlushRefused
    <2>2. [ses[w] EXCEPT !.pc = "rollback", !.rows = lost,
                         !.back = {x \in lost : cc[x] = "queued"}] \in SessionType
      BY <2>1 DEF TypeOK, SessionType
    <2>. QED BY <1>12, <2>1, <2>2, UpdateType DEF FlushRefused, TypeOK
  <1>13. CASE FlushRollback(w)
    <2>1. cc' \in [Slots -> CCStatus]
      BY <1>13 DEF FlushRollback, TypeOK, CCStatus
    <2>2. ses[w].rows \subseteq Slots
      BY DEF TypeOK, SessionType
    <2>3. letters' \subseteq Slots /\ reached' \subseteq Slots /\ undone' \subseteq Slots
      BY <1>13, <2>2 DEF FlushRollback, TypeOK
    <2>4. ses' \in [Sessions -> SessionType]
      BY <1>13, CloseType DEF FlushRollback
    <2>5. row' \in RowType /\ lock' \in Sessions \union {NoSession} /\ now' \in 1..MaxTime
      BY <1>13 DEF FlushRollback, TypeOK
    <2>. QED BY <2>1, <2>3, <2>4, <2>5 DEF TypeOK
  <1>14. CASE CommitComplete(w)
    BY <1>14, WriteType, CloseType DEF CommitComplete, TypeOK
  <1>. QED
    BY <1>1, <1>2, <1>3, <1>4, <1>5, <1>6, <1>7, <1>8, <1>9, <1>10, <1>11,
       <1>12, <1>13, <1>14 DEF WorkerStep, LaunchStep, BatchStep

\* And every other step: a read of the enrolled contacts, an error, a crash,
\* the fate of a message, the clock.
LEMMA OtherType ==
    ASSUME TypeOK,
           \/ \E s \in Sessions : AnyStep(s)
           \/ \E x \in Slots : Sent(x) \/ Settled(x)
           \/ Tick
    PROVE  TypeOK'
  <1>. USE DEF mail
  <1>1. CASE \E s \in Sessions : ReadExisting(s)
    <2>1. PICK s \in Sessions : ReadExisting(s)
      BY <1>1
    <2>2. PICK added \in SUBSET Contacts :
            Update(s, [ses[s] EXCEPT !.pc = "commit", !.add = added,
                                     !.want = [@ EXCEPT !.total = Cardinality(added)]])
      BY <2>1 DEF ReadExisting
    <2>3. Cardinality(added) \in Totals
      BY FS_Subset, FS_CardinalityType, CampaignAssumption DEF Totals
    <2>4. [ses[s] EXCEPT !.pc = "commit", !.add = added,
                         !.want = [@ EXCEPT !.total = Cardinality(added)]] \in SessionType
      <3>1. [ses[s].want EXCEPT !.total = Cardinality(added)] \in RowType
        BY <2>3 DEF TypeOK, SessionType, RowType
      <3>. QED BY <3>1 DEF TypeOK, SessionType
    <2>. QED BY <2>1, <2>2, <2>4, UpdateType DEF ReadExisting, TypeOK
  <1>2. CASE \E s \in Sessions : RowGone(s) \/ Crash(s)
    BY <1>2, CloseType DEF RowGone, Crash, TypeOK
  <1>3. CASE \E x \in Slots : Sent(x)
    BY <1>3 DEF Sent, TypeOK, CCStatus, RowType
  <1>4. CASE \E x \in Slots : Settled(x)
    BY <1>4 DEF Settled, TypeOK, CCStatus
  <1>5. CASE Tick
    BY <1>5, CampaignAssumption DEF Tick, TypeOK
  <1>. QED BY <1>1, <1>2, <1>3, <1>4, <1>5 DEF AnyStep

\* TypeOK is an invariant of the campaign: rows, locks and session records keep
\* their types whatever requests, tasks and crashes come together.
THEOREM TypeCorrect == Spec => []TypeOK
  <1>. USE DEF mail
  <1>1. Init => TypeOK
    BY ClosedType, TimesTotals DEF Init, TypeOK, CCStatus
  <1>2. TypeOK /\ [Next]_vars => TypeOK'
    <2>1. CASE UNCHANGED vars
      BY <2>1 DEF vars, TypeOK
    <2>. QED BY <2>1, OperatorType, WorkerType, OtherType DEF Next
  <1>. QED BY <1>1, <1>2, PTL DEF Spec

-----------------------------------------------------------------------------
(* A batch keeps the rows it has locked *)

\* The rows of a batch stay pending, and its own, until it commits.
BatchRows ==
    \A w \in Workers : At(w, "batch", "commit") =>
        \A x \in ses[w].rows :
            /\ cc[x] = "pending"
            /\ \A v \in Workers : At(v, "batch", "commit") /\ x \in ses[v].rows
                                    => v = w

\* A batch is never about to read the enrolled contacts.
BatchInv ==
    /\ BatchRows
    /\ \A s \in Sessions : ses[s].pc = "existing" => ses[s].op # "batch"

\* Steps of other sessions, and other steps of a batch, leave them alone.
LEMMA BatchUpdate ==
    ASSUME TypeOK, BatchInv, NEW s \in Sessions, NEW session,
           Update(s, session),
           session.op = "batch" => session.pc \notin {"commit", "existing"},
           \A x \in Locked : cc[x] = "pending" => cc'[x] = "pending"
    PROVE  BatchInv'
  <1>1. \A w \in Sessions :
          /\ w = s => ses'[w] = session
          /\ w # s => ses'[w] = ses[w]
    BY DEF Update, TypeOK
  <1>4. \A w \in Workers :
          ses'[w].op = "batch" /\ ses'[w].pc = "commit" => ses'[w] = ses[w]
    BY <1>1 DEF Sessions
  <1>2. \A w \in Workers : At(w, "batch", "commit") => ses[w].rows \subseteq Locked
    BY DEF Locked
  <1>3. BatchRows'
    BY <1>4, <1>2 DEF BatchInv, BatchRows, At
  <1>. QED BY <1>1, <1>3 DEF BatchInv

LEMMA BatchClose ==
    ASSUME TypeOK, BatchInv, NEW s \in Sessions, Close(s) \/ Die(s),
           \A x \in Locked : cc[x] = "pending" => cc'[x] = "pending"
    PROVE  BatchInv'
  <1>. DEFINE session == [Closed EXCEPT !.op = "crash"]
  <1>1. Closed.pc = "idle" /\ session.pc = "idle"
    BY DEF Closed
  <1>2. Update(s, Closed) \/ Update(s, session)
    BY DEF Close, Die
  <1>. HIDE DEF session
  <1>. QED BY <1>1, <1>2, BatchUpdate

LEMMA BatchRead_ ==
    ASSUME TypeOK, BatchInv, NEW s \in Sessions, NEW op, NEW pc, NEW want,
           Read(s, op, pc, want), op = "batch" => pc \notin {"commit", "existing"}
    PROVE  BatchInv'
  <1>. DEFINE session == [Closed EXCEPT !.op = op, !.pc = pc,
                                        !.snap = row, !.want = want]
  <1>1. session.pc = pc /\ session.op = op
    BY DEF Closed
  <1>2. Update(s, session) /\ cc' = cc
    BY DEF Read
  <1>. HIDE DEF session
  <1>. QED BY <1>1, <1>2, BatchUpdate

LEMMA BatchOperator ==
    ASSUME TypeOK, BatchInv, NEW o \in Operators, OperatorStep(o)
    PROVE  BatchInv'
  <1>. o \in Sessions
    BY DEF Sessions
  <1>1. CASE \/ SetSchedule(o) \/ UpdateCampaign(o) \/ PauseCampaign(o)
             \/ StartFresh(o) \/ ResumeSending(o) \/ ResumeSchedule(o)
             \/ StopCampaign(o) \/ DeleteCampaign(o)
    <2>1. PICK op, pc, want : op \in Ops /\ Read(o, op, pc, want)
      BY <1>1 DEF SetSchedule, UpdateCampaign, PauseCampaign, StartFresh,
         ResumeSending, ResumeSchedule, StopCampaign, DeleteCampaign, Request
    <2>2. op # "batch"
      BY <2>1, CampaignAssumption DEF AllOps
    <2>. QED BY <2>1, <2>2, BatchRead_
  <1>2. CASE CommitRow(o) \/ Enqueued(o) \/ QueueUnavailable(o)
    BY <1>2, BatchClose DEF CommitRow, Enqueued, QueueUnavailable
  <1>3. CASE CommitStop(o) \/ CommitDelete(o)
    BY <1>3, BatchClose DEF CommitStop, CommitDelete
  <1>4. CASE CommitStart(o)
    <2>. DEFINE session == [ses[o] EXCEPT !.pc = "enqueue", !.add = {}]
    <2>1. \A x \in Slots : cc[x] = "pending" => cc'[x] = "pending"
      BY <1>4 DEF CommitStart, Enrol
    <2>2. Locked \subseteq Slots
      BY DEF Locked, TypeOK, SessionType, Sessions
    <2>3. session.pc = "enqueue" /\ Update(o, session)
      BY <1>4 DEF CommitStart, TypeOK, SessionType
    <2>. HIDE DEF session
    <2>. QED BY <2>1, <2>2, <2>3, BatchUpdate
  <1>. QED BY <1>1, <1>2, <1>3, <1>4 DEF OperatorStep

LEMMA BatchWorker ==
    ASSUME TypeOK, BatchInv, NEW w \in Workers, WorkerStep(w)
    PROVE  BatchInv'
  <1>. w \in Sessions
    BY DEF Sessions
  <1>0. ses[w] \in SessionType /\ Locked \subseteq Slots
    BY DEF TypeOK, Locked, SessionType, Sessions
  <1>1. CASE LaunchSelect(w) \/ BatchRead(w)
    <2>1. PICK op, pc, want : /\ Read(w, op, pc, want)
                              /\ pc \in {"claim", "select"}
      BY <1>1 DEF LaunchSelect, BatchRead
    <2>. QED BY <2>1, BatchRead_
  <1>2. CASE LaunchClaim(w)
    <2>1. PICK session : /\ session.op = "launch" /\ Update(w, session)
      <3>. DEFINE session == [ses[w] EXCEPT !.pc = "existing",
             !.want = [@ EXCEPT !.status = "running", !.pausedFrom = "none"]]
      <3>1. session.op = "launch" /\ Update(w, session)
        BY <1>2, <1>0 DEF LaunchClaim, SessionType, At
      <3>. HIDE DEF session
      <3>. QED BY <3>1
    <2>. QED BY <1>2, <2>1, BatchUpdate DEF LaunchClaim
  <1>3. CASE LaunchSkip(w) \/ LaunchFails(w) \/ BatchWait(w) \/ Flushed(w)
               \/ CommitComplete(w)
    BY <1>3, BatchClose
    DEF LaunchSkip, LaunchFails, BatchWait, Flushed, CommitComplete
  <1>4. CASE CommitLaunch(w)
    <2>1. \A x \in Slots : cc[x] = "pending" => cc'[x] = "pending"
      BY <1>4 DEF CommitLaunch, Enrol
    <2>. QED BY <1>4, <2>1, <1>0, BatchClose DEF CommitLaunch
  <1>5. CASE BatchPick(w)
    <2>1. PICK picked \in SUBSET {x \in Slots : cc[x] = "pending"} :
            /\ picked \intersect Locked = {}
            /\ Update(w, [ses[w] EXCEPT !.pc = "commit", !.rows = picked])
      BY <1>5 DEF BatchPick
    <2>2. /\ ses'[w].rows = picked
          /\ \A v \in Workers \ {w} : ses'[v] = ses[v]
          /\ cc' = cc
      BY <2>1, <1>0, <1>5 DEF BatchPick, Update, TypeOK, SessionType, Sessions
    <2>3. \A v \in Workers : At(v, "batch", "commit") =>
            ses[v].rows \intersect picked = {}
      BY <2>1 DEF Locked
    <2>4. BatchRows'
      BY <2>1, <2>2, <2>3 DEF BatchInv, BatchRows, At
    <2>5. ses'[w].pc = "commit" /\ \A s \in Sessions \ {w} : ses'[s] = ses[s]
      BY <2>1, <1>0 DEF Update, TypeOK, SessionType
    <2>. QED BY <2>4, <2>5 DEF BatchInv
  <1>6. CASE BatchFinds(w) \/ FlushRefused(w)
    <2>1. CASE BatchFinds(w)
      <3>. DEFINE session == [ses[w] EXCEPT !.op = "complete", !.pc = "commit",
                                !.want = [@ EXCEPT !.status = "completed"]]
      <3>1. session.op = "complete" /\ Update(w, session) /\ cc' = cc
        BY <2>1, <1>0 DEF BatchFinds, SessionType
      <3>. HIDE DEF session
      <3>. QED BY <3>1, BatchUpdate
    <2>2. CASE FlushRefused(w)
      <3>1. PICK lost : \E back :
              Update(w, [ses[w] EXCEPT !.pc = "rollback", !.rows = lost, !.back = back])
        BY <2>2 DEF FlushRefused
      <3>3. PICK back :
              Update(w, [ses[w] EXCEPT !.pc = "rollback", !.rows = lost, !.back = back])
        BY <3>1
      <3>. DEFINE session == [ses[w] EXCEPT !.pc = "rollback", !.rows = lost,
                                            !.back = back]
      <3>2. session.pc = "rollback" /\ Update(w, session) /\ cc' = cc
        BY <3>3, <2>2, <1>0 DEF FlushRefused, SessionType
      <3>. HIDE DEF session
      <3>. QED BY <3>2, BatchUpdate
    <2>. QED BY <1>6, <2>1, <2>2
  <1>7. CASE BatchCommit(w)
    <2>1. /\ ses'[w].pc = "flush"
          /\ \A s \in Sessions \ {w} : ses'[s] = ses[s]
          /\ \A x \in Slots \ ses[w].rows : cc'[x] = cc[x]
      BY <1>7, <1>0 DEF BatchCommit, Update, TypeOK, SessionType, Sessions
    <2>2. \A v \in Workers \ {w} : At(v, "batch", "commit") =>
            /\ ses[v].rows \subseteq Slots
            /\ ses[v].rows \intersect ses[w].rows = {}
      BY <1>7 DEF BatchCommit, BatchInv, BatchRows, TypeOK, SessionType, Sessions
    <2>3. BatchRows'
      BY <2>1, <2>2 DEF BatchInv, BatchRows, At, Sessions
    <2>. QED BY <2>1, <2>3 DEF BatchInv
  <1>8. CASE FlushRollback(w)
    <2>1. \A x \in Slots : cc[x] = "pending" => cc'[x] = "pending"
      BY <1>8 DEF FlushRollback
    <2>. QED BY <1>8, <2>1, <1>0, BatchClose DEF FlushRollback
  <1>. QED
    BY <1>1, <1>2, <1>3, <1>4, <1>5, <1>6, <1>7, <1>8
    DEF WorkerStep, LaunchStep, BatchStep

LEMMA BatchOther ==
    ASSUME TypeOK, BatchInv,
           \/ \E s \in Sessions : AnyStep(s)
           \/ \E x \in Slots : Sent(x) \/ Settled(x)
           \/ Tick
    PROVE  BatchInv'
  <1>1. CASE \E s \in Sessions : ReadExisting(s)
    <2>1. PICK s \in Sessions : ReadExisting(s)
      BY <1>1
    <2>2. PICK added :
            Update(s, [ses[s] EXCEPT !.pc = "commit", !.add = added,
                                     !.want = [@ EXCEPT !.total = Cardinality(added)]])
      BY <2>1 DEF ReadExisting
    <2>. DEFINE session == [ses[s] EXCEPT !.pc = "commit", !.add = added,
                                !.want = [@ EXCEPT !.total = Cardinality(added)]]
    <2>3. session.op # "batch" /\ Update(s, session) /\ cc' = cc
      BY <2>1, <2>2 DEF ReadExisting, BatchInv, TypeOK, SessionType
    <2>. HIDE DEF session
    <2>. QED BY <2>3, BatchUpdate
  <1>2. CASE \E s \in Sessions : RowGone(s) \/ Crash(s)
    BY <1>2, BatchClose DEF RowGone, Crash
  <1>3. CASE \E x \in Slots : Sent(x) \/ Settled(x)
    <2>0. Locked \subseteq Slots
      BY DEF Locked, TypeOK, SessionType, Sessions
    <2>1. /\ ses' = ses
          /\ \A x \in Locked : cc'[x] = cc[x]
      BY <1>3, <2>0 DEF Sent, Settled, TypeOK
    <2>. QED BY <2>1 DEF BatchInv, BatchRows, At, Locked
  <1>4. CASE Tick
    BY <1>4 DEF Tick, BatchInv, BatchRows, At
  <1>. QED BY <1>1, <1>2, <1>3, <1>4 DEF AnyStep

LEMMA BatchInvariant == Spec => []BatchInv
  <1>1. Init => BatchInv
    BY DEF Init, BatchInv, BatchRows, At, Closed, Sessions
  <1>2. TypeOK /\ BatchInv /\ [Next]_vars => BatchInv'
    <2>1. CASE UNCHANGED vars
      BY <2>1 DEF vars, BatchInv, BatchRows, At
    <2>. QED BY <2>1, BatchOperator, BatchWorker, BatchOther DEF Next
  <1>. QED BY <1>1, <1>2, TypeCorrect, PTL DEF Spec

-----------------------------------------------------------------------------
(* A contact is enrolled once *)

\* Only a launcher reads the enrolled contacts, and it does so, and inserts,
\* under the row lock; what it is about to insert is not there.
LaunchLocked ==
    \A s \in Sessions :
        /\ ses[s].pc = "existing" => ses[s].op = "launch"
        /\ ses[s].op = "launch" /\ ses[s].pc \in {"existing", "commit"}
              => lock = s
        /\ ses[s].add # {} =>
              /\ At(s, "launch", "commit")
              /\ \A c \in ses[s].add : \A t \in Sessions : cc[<<c, t>>] = "none"

EnrolInv == TypeOK /\ BatchRows /\ LaunchLocked /\ EnrolledOnce

\* A session that goes on without anything to insert, and releases at most its
\* own lock, preserves the invariant if no contact row appears.
LEMMA EnrolUpdate ==
    ASSUME EnrolInv, NEW s \in Sessions, NEW session, Update(s, session),
           session.pc # "existing", session.add = {},
           session.op = "launch" => session.pc # "commit",
           lock' = lock \/ (lock' = NoSession /\ lock \in {s, NoSession}),
           \A x \in Slots : cc[x] = "none" => cc'[x] = "none"
    PROVE  LaunchLocked' /\ EnrolledOnce'
  <1>1. \A c \in Contacts, t \in Sessions :
          cc[<<c, t>>] = "none" => cc'[<<c, t>>] = "none"
    BY DEF Slots
  <1>2. EnrolledOnce'
    BY <1>1 DEF EnrolInv, EnrolledOnce
  <1>3. LaunchLocked'
    <2>. SUFFICES ASSUME NEW t \in Sessions
                  PROVE  /\ ses'[t].pc = "existing" => ses'[t].op = "launch"
                         /\ ses'[t].op = "launch"
                              /\ ses'[t].pc \in {"existing", "commit"}
                                => lock' = t
                         /\ ses'[t].add # {} =>
                              /\ ses'[t].op = "launch" /\ ses'[t].pc = "commit"
                              /\ \A c \in ses'[t].add : \A u \in Sessions :
                                   cc'[<<c, u>>] = "none"
      BY DEF LaunchLocked, At
    <2>1. CASE t = s
      <3>. ses'[s] = session
        BY DEF Update, EnrolInv, TypeOK
      <3>. QED BY <2>1
    <2>2. CASE t # s
      <3>1. ses'[t] = ses[t] /\ ses[t].add \subseteq Contacts
        BY <2>2 DEF Update, EnrolInv, TypeOK, SessionType
      <3>2. lock = t => lock' = t
        BY <2>2, CampaignAssumption
      <3>. QED BY <3>1, <3>2, <1>1 DEF EnrolInv, LaunchLocked, At
    <2>. QED BY <2>1, <2>2
  <1>. QED BY <1>2, <1>3

\* In particular a session that has just read the row, or is over.
LEMMA EnrolRead ==
    ASSUME EnrolInv, NEW s \in Sessions, NEW op, NEW pc, NEW want,
           Read(s, op, pc, want), pc # "existing", op = "launch" => pc # "commit"
    PROVE  LaunchLocked' /\ EnrolledOnce'
  <1>. DEFINE session == [Closed EXCEPT !.op = op, !.pc = pc,
                                        !.snap = row, !.want = want]
  <1>1. session.pc = pc /\ session.add = {} /\ session.op = op
    BY DEF Closed
  <1>2. Update(s, session) /\ lock' = lock /\ cc' = cc
    BY DEF Read
  <1>. HIDE DEF session
  <1>. QED BY <1>1, <1>2, EnrolUpdate

LEMMA EnrolClose ==
    ASSUME EnrolInv, NEW s \in Sessions, Close(s) \/ Die(s),
           lock' = lock \/ (lock' = NoSession /\ lock \in {s, NoSession}),
           \A x \in Slots : cc[x] = "none" => cc'[x] = "none"
    PROVE  LaunchLocked' /\ EnrolledOnce'
  <1>. DEFINE session == [Closed EXCEPT !.op = "crash"]
  <1>1. /\ Closed.pc = "idle" /\ Closed.add = {} /\ Closed.op = "batch"
        /\ session.pc = "idle" /\ session.add = {} /\ session.op = "crash"
    BY DEF Closed
  <1>2. Update(s, Closed) \/ Update(s, session)
    BY DEF Close, Die
  <1>. HIDE DEF session
  <1>. QED BY <1>1, <1>2, EnrolUpdate

LEMMA EnrolOperator ==
    ASSUME "start" \notin Ops, EnrolInv, NEW o \in Operators, OperatorStep(o)
    PROVE  LaunchLocked' /\ EnrolledOnce'
  <1>. o \in Sessions
    BY DEF Sessions
  <1>1. CASE \/ SetSchedule(o) \/ UpdateCampaign(o) \/ PauseCampaign(o)
             \/ StartFresh(o) \/ ResumeSending(o) \/ ResumeSchedule(o)
             \/ StopCampaign(o) \/ DeleteCampaign(o)
    <2>1. PICK op, want : op \in Ops /\ Read(o, op, "commit", want)
      BY <1>1 DEF SetSchedule, UpdateCampaign, PauseCampaign, StartFresh,
         ResumeSending, ResumeSchedule, StopCampaign, DeleteCampaign, Request
    <2>2. op # "launch"
      BY <2>1, CampaignAssumption DEF AllOps
    <2>. QED BY <2>1, <2>2, EnrolRead
  <1>2. CASE CommitRow(o)
    BY <1>2, EnrolClose DEF CommitRow, Write
  <1>3. CASE CommitStop(o)
    <2>1. \A x \in Slots : cc[x] = "none" => cc'[x] = "none"
      BY <1>3 DEF CommitStop
    <2>. QED BY <1>3, <2>1, EnrolClose DEF CommitStop, Write
  <1>4. CASE CommitDelete(o)
    <2>1. \A x \in Slots : cc[x] = "none" => cc'[x] = "none"
      BY <1>4 DEF CommitDelete
    <2>. QED BY <1>4, <2>1, EnrolClose DEF CommitDelete, Write
  <1>5. CASE CommitStart(o)
    <2>. DEFINE session == [ses[o] EXCEPT !.pc = "enqueue", !.add = {}]
    <2>1. ses[o].add = {}
      BY <1>5 DEF CommitStart, EnrolInv, LaunchLocked, At
    <2>2. \A x \in Slots : cc[x] = "none" => cc'[x] = "none"
      BY <1>5, <2>1 DEF CommitStart, Enrol
    <2>3. session.pc = "enqueue" /\ session.add = {}
      BY DEF EnrolInv, TypeOK, SessionType
    <2>4. Update(o, session) /\ lock' = NoSession /\ lock \in {o, NoSession}
      BY <1>5 DEF CommitStart, Write
    <2>. HIDE DEF session
    <2>. QED BY <2>2, <2>3, <2>4, EnrolUpdate
  <1>6. CASE Enqueued(o) \/ QueueUnavailable(o)
    BY <1>6, EnrolClose DEF Enqueued, QueueUnavailable
  <1>. QED BY <1>1, <1>2, <1>3, <1>4, <1>5, <1>6 DEF OperatorStep

LEMMA EnrolWorker ==
    ASSUME EnrolInv, NEW w \in Workers, WorkerStep(w)
    PROVE  LaunchLocked' /\ EnrolledOnce'
  <1>. w \in Sessions
    BY DEF Sessions
  <1>0. ses[w] \in SessionType
    BY DEF EnrolInv, TypeOK
  <1>1. CASE LaunchSelect(w) \/ BatchRead(w)
    <2>1. PICK op, pc, want : /\ Read(w, op, pc, want)
                              /\ pc \in {"claim", "select"}
      BY <1>1 DEF LaunchSelect, BatchRead
    <2>. QED BY <2>1, EnrolRead
  <1>2. CASE LaunchClaim(w)
    <2>1. /\ ses'[w].pc = "existing" /\ ses'[w].op = "launch"
          /\ ses'[w].add = ses[w].add /\ ses[w].add = {}
          /\ \A t \in Sessions \ {w} : ses'[t] = ses[t]
          /\ lock = NoSession /\ lock' = w /\ cc' = cc
      BY <1>2, <1>0 DEF LaunchClaim, Update, At, EnrolInv, LaunchLocked, TypeOK,
         SessionType
    <2>. QED BY <2>1, CampaignAssumption DEF EnrolInv, LaunchLocked, EnrolledOnce, At
  <1>3. CASE LaunchSkip(w) \/ BatchWait(w) \/ Flushed(w)
    BY <1>3, EnrolClose DEF LaunchSkip, BatchWait, Flushed
  <1>4. CASE LaunchFails(w)
    <2>1. lock = w
      BY <1>4 DEF LaunchFails, EnrolInv, LaunchLocked, At
    <2>. QED BY <1>4, <2>1, EnrolClose DEF LaunchFails
  <1>5. CASE CommitLaunch(w)
    <2>1. /\ lock = w /\ lock' = NoSession
          /\ ses' = [ses EXCEPT ![w] = Closed]
      BY <1>5, CampaignAssumption DEF CommitLaunch, Write, Close, Update, EnrolInv,
         LaunchLocked, At
    <2>2. \A t \in Sessions : ses[t].add # {} => t = w
      BY <2>1 DEF EnrolInv, LaunchLocked, At
    <2>3. \A c \in ses[w].add, t \in Sessions : cc[<<c, t>>] = "none"
      BY DEF EnrolInv, LaunchLocked
    <2>4. \A c \in Contacts, t \in Sessions :
            cc'[<<c, t>>] # "none" =>
              cc[<<c, t>>] # "none" \/ (t = w /\ c \in ses[w].add)
      BY <1>5 DEF CommitLaunch, Enrol, Slots
    <2>5. EnrolledOnce'
      BY <2>3, <2>4 DEF EnrolInv, EnrolledOnce
    <2>6. Closed.pc = "idle" /\ Closed.op = "batch" /\ Closed.add = {}
      BY DEF Closed
    <2>7. \A t \in Sessions : /\ t = w => ses'[t] = Closed
                              /\ t # w => ses'[t] = ses[t]
      BY <2>1 DEF EnrolInv, TypeOK
    <2>8. LaunchLocked'
      BY <2>1, <2>2, <2>6, <2>7 DEF EnrolInv, LaunchLocked, At
    <2>. QED BY <2>5, <2>8
  <1>6. CASE BatchPick(w) \/ BatchFinds(w) \/ BatchCommit(w) \/ FlushRefused(w)
    <2>1. ses[w].add = {}
      BY <1>6 DEF BatchPick, BatchFinds, BatchCommit, FlushRefused, At,
         EnrolInv, LaunchLocked
    <2>2. /\ ses'[w].add = {} /\ ses'[w].pc # "existing" /\ ses'[w].op # "launch"
          /\ Update(w, ses'[w])
      <3>1. CASE BatchPick(w)
        BY <3>1, <2>1, <1>0 DEF BatchPick, At, Update, EnrolInv, TypeOK, SessionType
      <3>2. CASE BatchFinds(w)
        BY <3>2, <2>1, <1>0 DEF BatchFinds, At, Update, EnrolInv, TypeOK, SessionType
      <3>3. CASE BatchCommit(w)
        BY <3>3, <2>1, <1>0 DEF BatchCommit, At, Update, EnrolInv, TypeOK, SessionType
      <3>4. CASE FlushRefused(w)
        BY <3>4, <2>1, <1>0 DEF FlushRefused, At, Update, EnrolInv, TypeOK, SessionType
      <3>. QED BY <1>6, <3>1, <3>2, <3>3, <3>4
    <2>3. \A x \in ses[w].rows : At(w, "batch", "commit") => cc[x] = "pending"
      BY DEF EnrolInv, BatchRows
    <2>4. /\ lock' = lock
          /\ \A x \in Slots : cc[x] = "none" => cc'[x] = "none"
      BY <1>6, <2>3 DEF BatchPick, BatchFinds, BatchCommit, FlushRefused
    <2>. QED BY <2>2, <2>4, EnrolUpdate
  <1>7. CASE FlushRollback(w)
    <2>1. \A x \in Slots : cc[x] = "none" => cc'[x] = "none"
      BY <1>7 DEF FlushRollback
    <2>. QED BY <1>7, <2>1, EnrolClose DEF FlushRollback
  <1>8. CASE CommitComplete(w)
    BY <1>8, EnrolClose DEF CommitComplete, Write
  <1>. QED
    BY <1>1, <1>2, <1>3, <1>4, <1>5, <1>6, <1>7, <1>8
    DEF WorkerStep, LaunchStep, BatchStep

LEMMA EnrolOther ==
    ASSUME EnrolInv,
           \/ \E s \in Sessions : AnyStep(s)
           \/ \E x \in Slots : Sent(x) \/ Settled(x)
           \/ Tick
    PROVE  LaunchLocked' /\ EnrolledOnce'
  <1>1. CASE \E s \in Sessions : ReadExisting(s)
    <2>1. PICK s \in Sessions : ReadExisting(s)
      BY <1>1
    <2>2. PICK added \in SUBSET (Contacts \ Enrolled) :
            Update(s, [ses[s] EXCEPT !.pc = "commit", !.add = added,
                                     !.want = [@ EXCEPT !.total = Cardinality(added)]])
      BY <2>1 DEF ReadExisting
    <2>3. /\ ses'[s].pc = "commit" /\ ses'[s].op = ses[s].op
          /\ ses'[s].add = added
          /\ \A t \in Sessions \ {s} : ses'[t] = ses[t]
          /\ lock' = lock /\ cc' = cc
      BY <2>1, <2>2 DEF ReadExisting, Update, EnrolInv, TypeOK, SessionType
    <2>4. ses[s].op = "launch" /\ lock = s
      BY <2>1 DEF ReadExisting, EnrolInv, LaunchLocked
    <2>5. \A c \in added, t \in Sessions : cc[<<c, t>>] = "none"
      BY DEF Enrolled
    <2>6. EnrolledOnce'
      BY <2>3 DEF EnrolInv, EnrolledOnce
    <2>7. LaunchLocked'
      BY <2>3, <2>4, <2>5 DEF EnrolInv, LaunchLocked, At
    <2>. QED BY <2>6, <2>7
  <1>2. CASE \E s \in Sessions : RowGone(s) \/ Crash(s)
    <2>1. PICK s \in Sessions : RowGone(s) \/ Crash(s)
      BY <1>2
    <2>. QED BY <2>1, EnrolClose DEF RowGone, Crash
  <1>3. CASE \E x \in Slots : Sent(x) \/ Settled(x)
    <2>1. /\ ses' = ses /\ lock' = lock
          /\ \A x \in Slots : cc[x] = "none" => cc'[x] = "none"
      BY <1>3 DEF Sent, Settled, EnrolInv, TypeOK, Live
    <2>2. \A c \in Contacts, t \in Sessions :
            cc[<<c, t>>] = "none" => cc'[<<c, t>>] = "none"
      BY <2>1 DEF Slots
    <2>3. EnrolledOnce'
      BY <2>2 DEF EnrolInv, EnrolledOnce
    <2>4. \A s \in Sessions : ses[s].add \subseteq Contacts
      BY DEF EnrolInv, TypeOK, SessionType
    <2>. QED BY <2>1, <2>2, <2>3, <2>4 DEF EnrolInv, LaunchLocked, At
  <1>4. CASE Tick
    BY <1>4 DEF Tick, EnrolInv, LaunchLocked, EnrolledOnce, At
  <1>. QED BY <1>1, <1>2, <1>3, <1>4 DEF AnyStep

LEMMA EnrolInvariant ==
    ASSUME "start" \notin Ops
    PROVE  Spec => []EnrolInv
  <1>1. Init => LaunchLocked /\ EnrolledOnce
    BY DEF Init, LaunchLocked, EnrolledOnce, Closed, Slots, At
  <1>2. EnrolInv /\ [Next]_vars => LaunchLocked' /\ EnrolledOnce'
    <2>1. CASE UNCHANGED vars
      BY <2>1 DEF vars, EnrolInv, LaunchLocked, EnrolledOnce, At
    <2>. QED BY <2>1, EnrolOperator, EnrolWorker, EnrolOther DEF Next
  <1>3. TypeOK /\ BatchInv /\ LaunchLocked /\ EnrolledOnce /\ [Next]_vars
          => LaunchLocked' /\ EnrolledOnce'
    BY <1>2 DEF EnrolInv, BatchInv
  <1>4. TypeOK /\ BatchInv /\ LaunchLocked /\ EnrolledOnce => EnrolInv
    BY DEF EnrolInv, BatchInv
  <1>. QED BY <1>1, <1>3, <1>4, TypeCorrect, BatchInvariant, PTL DEF Spec

\* When campaigns are launched only by launchers, on beat and in the API, no
\* contact is ever enrolled twice, for any number of launchers and whatever
\* requests and crashes come in between.
THEOREM EnrolledOnceHolds ==
    ASSUME "start" \notin Ops
    PROVE  Spec => []EnrolledOnce
  <1>1. EnrolInv => EnrolledOnce
    BY DEF EnrolInv
  <1>. QED BY <1>1, EnrolInvariant, PTL

-----------------------------------------------------------------------------
(* A stopped campaign is quiet *)

\* What a session means to write: only a stop writes stopped, and whoever
\* enrols contacts also changes the status to running.
Intent(session) ==
    /\ session.pc # "rollback"
    /\ session.op # "stop" => session.want.status # "stopped"
    /\ session.op = "launch" => session.snap.status = "scheduled"
    /\ session.op = "launch" /\ session.pc \in {"existing", "commit"}
          => session.want.status = "running"
    /\ session.op \in {"start", "resume"} /\ session.pc \in {"existing", "commit"}
          => session.snap.status # "running"

Intents == \A s \in Sessions : Intent(ses[s])

LEMMA IntentUpdate ==
    ASSUME TypeOK, Intents, NEW s \in Sessions, NEW session,
           Update(s, session), Intent(session)
    PROVE  Intents'
  <1>1. \A t \in Sessions : ses'[t] = session \/ ses'[t] = ses[t]
    BY DEF Update, TypeOK
  <1>. QED BY <1>1 DEF Intents, Intent

LEMMA IntentClose ==
    ASSUME TypeOK, Intents, NEW s \in Sessions, Close(s) \/ Die(s)
    PROVE  Intents'
  <1>. DEFINE session == [Closed EXCEPT !.op = "crash"]
  <1>1. Intent(Closed) /\ Intent(session)
    BY CampaignAssumption DEF Intent, Closed, NewRow
  <1>2. Update(s, Closed) \/ Update(s, session)
    BY DEF Close, Die
  <1>. HIDE DEF session
  <1>. QED BY <1>1, <1>2, IntentUpdate

LEMMA IntentRead ==
    ASSUME TypeOK, Intents, NEW s \in Sessions, NEW op, NEW pc, NEW want,
           Read(s, op, pc, want), pc # "rollback",
           op # "stop" => want.status # "stopped",
           op = "launch" => row.status = "scheduled" /\ pc = "claim",
           op \in {"start", "resume"} => row.status # "running"
    PROVE  Intents'
  <1>. DEFINE session == [Closed EXCEPT !.op = op, !.pc = pc,
                                        !.snap = row, !.want = want]
  <1>1. /\ session.pc = pc /\ session.op = op
        /\ session.snap = row /\ session.want = want
    BY DEF Closed
  <1>2. Update(s, session)
    BY DEF Read
  <1>. HIDE DEF session
  <1>. QED BY <1>1, <1>2, IntentUpdate DEF Intent

LEMMA IntentsOperator ==
    ASSUME TypeOK, Intents, NEW o \in Operators, OperatorStep(o)
    PROVE  Intents'
  <1>. o \in Sessions
    BY DEF Sessions
  <1>0. row \in RowType
    BY DEF TypeOK
  <1>1. CASE SetSchedule(o)
    <2>1. PICK st \in {"scheduled", "draft"}, t \in {NoTime} \union now..MaxTime :
            Read(o, "schedule", "commit",
                 [row EXCEPT !.status = st, !.startAt = t])
      BY <1>1 DEF SetSchedule, Request
    <2>2. [row EXCEPT !.status = st, !.startAt = t].status = st
      BY <1>0 DEF RowType
    <2>. QED BY <2>1, <2>2, IntentRead
  <1>2. CASE UpdateCampaign(o)
    <2>1. PICK t \in {NoTime, row.startAt} \union now..MaxTime,
               st \in {"draft", row.status}, n \in {0, row.total} :
            Read(o, "update", "commit",
                 [row EXCEPT !.status = st, !.startAt = t, !.total = n])
      BY <1>2 DEF UpdateCampaign, Request
    <2>. DEFINE want == [row EXCEPT !.status = st, !.startAt = t, !.total = n]
    <2>2. want.status \in {"scheduled", "draft"}
      BY <1>2, <1>0 DEF UpdateCampaign, RowType
    <2>3. Read(o, "update", "commit", want)
      BY <2>1
    <2>. HIDE DEF want
    <2>. QED BY <2>2, <2>3, IntentRead
  <1>3. CASE PauseCampaign(o)
    <2>1. PICK from \in {"none", "scheduled"} :
            Read(o, "pause", "commit",
                 [row EXCEPT !.status = "paused", !.pausedFrom = from])
      BY <1>3 DEF PauseCampaign, Request
    <2>2. [row EXCEPT !.status = "paused", !.pausedFrom = from].status = "paused"
      BY <1>0 DEF RowType
    <2>. QED BY <2>1, <2>2, IntentRead
  <1>4. CASE StartFresh(o) \/ ResumeSending(o)
    <2>1. ToRunning.status = "running"
      BY <1>0 DEF ToRunning, RowType
    <2>2. PICK op \in {"start", "resume"}, pc \in {"existing", "commit"} :
            Read(o, op, pc, ToRunning)
      BY <1>4 DEF StartFresh, ResumeSending, Request
    <2>3. row.status # "running"
      BY <1>4 DEF StartFresh, ResumeSending
    <2>. QED BY <2>1, <2>2, <2>3, IntentRead
  <1>5. CASE ResumeSchedule(o)
    <2>1. PICK t \in {NoTime, row.startAt} :
            Read(o, "resume", "commit",
                 [row EXCEPT !.status = "scheduled", !.pausedFrom = "none",
                             !.startAt = t])
      BY <1>5 DEF ResumeSchedule, Request
    <2>. DEFINE want == [row EXCEPT !.status = "scheduled",
                                    !.pausedFrom = "none", !.startAt = t]
    <2>2. want.status = "scheduled"
      BY <1>0 DEF RowType
    <2>3. Read(o, "resume", "commit", want) /\ row.status = "paused"
      BY <1>5, <2>1 DEF ResumeSchedule
    <2>. HIDE DEF want
    <2>. QED BY <2>2, <2>3, IntentRead
  <1>6. CASE StopCampaign(o)
    BY <1>6, IntentRead DEF StopCampaign, Request
  <1>7. CASE DeleteCampaign(o)
    <2>1. [row EXCEPT !.status = "deleted"].status = "deleted"
      BY <1>0 DEF RowType
    <2>. QED BY <1>7, <2>1, IntentRead DEF DeleteCampaign, Request
  <1>8. CASE \/ CommitRow(o) \/ CommitStop(o) \/ CommitDelete(o) \/ Enqueued(o)
             \/ QueueUnavailable(o)
    BY <1>8, IntentClose
    DEF CommitRow, CommitStop, CommitDelete, Enqueued, QueueUnavailable
  <1>9. CASE CommitStart(o)
    <2>. DEFINE session == [ses[o] EXCEPT !.pc = "enqueue", !.add = {}]
    <2>1. /\ session.pc = "enqueue" /\ session.op = ses[o].op
          /\ session.snap = ses[o].snap /\ session.want = ses[o].want
      BY DEF TypeOK, SessionType
    <2>2. Update(o, session) /\ Intent(ses[o])
      BY <1>9 DEF CommitStart, Intents
    <2>. HIDE DEF session
    <2>. QED BY <2>1, <2>2, IntentUpdate DEF Intent
  <1>. QED
    BY <1>1, <1>2, <1>3, <1>4, <1>5, <1>6, <1>7, <1>8, <1>9 DEF OperatorStep

LEMMA IntentsWorker ==
    ASSUME ~BrokerMayFail, TypeOK, Intents, NEW w \in Workers, WorkerStep(w)
    PROVE  Intents'
  <1>. w \in Sessions
    BY DEF Sessions
  <1>0. ses[w] \in SessionType /\ row \in RowType /\ Intent(ses[w])
    BY DEF TypeOK, Intents
  <1>1. CASE LaunchSelect(w)
    <2>1. [row EXCEPT !.startAt = NoTime].status = row.status
      BY <1>0 DEF RowType
    <2>. QED BY <1>1, <2>1, IntentRead DEF LaunchSelect
  <1>2. CASE LaunchClaim(w)
    <2>. DEFINE session == [ses[w] EXCEPT !.pc = "existing",
           !.want = [@ EXCEPT !.status = "running", !.pausedFrom = "none"]]
    <2>1. /\ session.pc = "existing" /\ session.op = "launch"
          /\ session.snap = ses[w].snap /\ session.want.status = "running"
          /\ ses[w].op = "launch"
      BY <1>2, <1>0 DEF LaunchClaim, At, SessionType, RowType
    <2>2. Update(w, session)
      BY <1>2 DEF LaunchClaim
    <2>. HIDE DEF session
    <2>. QED BY <1>0, <2>1, <2>2, IntentUpdate DEF Intent
  <1>3. CASE \/ LaunchSkip(w) \/ LaunchFails(w) \/ CommitLaunch(w)
             \/ BatchWait(w) \/ Flushed(w) \/ FlushRollback(w) \/ CommitComplete(w)
    BY <1>3, IntentClose DEF LaunchSkip, LaunchFails, CommitLaunch, BatchWait,
       Flushed, FlushRollback, CommitComplete
  <1>4. CASE BatchRead(w)
    BY <1>4, IntentRead DEF BatchRead
  <1>5. CASE BatchPick(w) \/ BatchCommit(w)
    <2>1. PICK pc \in {"commit", "flush"} : \E rows :
            Update(w, [ses[w] EXCEPT !.pc = pc, !.rows = rows])
      BY <1>5 DEF BatchPick, BatchCommit
    <2>2. PICK rows : Update(w, [ses[w] EXCEPT !.pc = pc, !.rows = rows])
      BY <2>1
    <2>. DEFINE session == [ses[w] EXCEPT !.pc = pc, !.rows = rows]
    <2>3. /\ session.pc = pc /\ session.op = "batch"
          /\ session.want = ses[w].want /\ ses[w].op = "batch"
      BY <1>5, <1>0 DEF BatchPick, BatchCommit, At, SessionType
    <2>4. Update(w, session)
      BY <2>2
    <2>. HIDE DEF session
    <2>. QED BY <1>0, <2>3, <2>4, IntentUpdate DEF Intent
  <1>6. CASE BatchFinds(w)
    <2>. DEFINE session == [ses[w] EXCEPT !.op = "complete", !.pc = "commit",
                              !.want = [@ EXCEPT !.status = "completed"]]
    <2>1. /\ session.op = "complete" /\ session.pc = "commit"
          /\ session.want.status = "completed"
      BY <1>0 DEF SessionType, RowType
    <2>2. Update(w, session)
      BY <1>6 DEF BatchFinds
    <2>. HIDE DEF session
    <2>. QED BY <2>1, <2>2, IntentUpdate DEF Intent
  <1>7. ~FlushRefused(w)
    BY DEF FlushRefused
  <1>. QED
    BY <1>1, <1>2, <1>3, <1>4, <1>5, <1>6, <1>7
    DEF WorkerStep, LaunchStep, BatchStep

LEMMA IntentsOther ==
    ASSUME TypeOK, Intents,
           \/ \E s \in Sessions : AnyStep(s)
           \/ \E x \in Slots : Sent(x) \/ Settled(x)
           \/ Tick
    PROVE  Intents'
  <1>1. CASE \E s \in Sessions : ReadExisting(s)
    <2>1. PICK s \in Sessions : ReadExisting(s)
      BY <1>1
    <2>2. PICK added :
            Update(s, [ses[s] EXCEPT !.pc = "commit", !.add = added,
                                     !.want = [@ EXCEPT !.total = Cardinality(added)]])
      BY <2>1 DEF ReadExisting
    <2>. DEFINE session == [ses[s] EXCEPT !.pc = "commit", !.add = added,
                                !.want = [@ EXCEPT !.total = Cardinality(added)]]
    <2>3. /\ session.pc = "commit" /\ session.op = ses[s].op
          /\ session.snap = ses[s].snap
          /\ session.want.status = ses[s].want.status
          /\ ses[s].pc = "existing" /\ Intent(ses[s]) /\ Update(s, session)
      BY <2>1, <2>2 DEF ReadExisting, TypeOK, SessionType, RowType, Intents
    <2>. HIDE DEF session
    <2>. QED BY <2>3, IntentUpdate DEF Intent
  <1>2. CASE \E s \in Sessions : RowGone(s) \/ Crash(s)
    BY <1>2, IntentClose DEF RowGone, Crash
  <1>3. CASE Tick \/ \E x \in Slots : Sent(x) \/ Settled(x)
    BY <1>3 DEF Tick, Sent, Settled, Intents
  <1>. QED BY <1>1, <1>2, <1>3 DEF AnyStep

\* The row after a write has the status it had, or the one the session wants.
LEMMA WriteStatus ==
    ASSUME TypeOK, NEW s \in Sessions, Write(s)
    PROVE  /\ row'.status \in {row.status, ses[s].want.status}
           /\ ses[s].want.status # ses[s].snap.status
                => row'.status = ses[s].want.status
  BY DEF Write, Flush, TypeOK, RowType

\* A step that writes no stopped and adds no contact to serve is harmless.
LEMMA QuietFrame ==
    ASSUME StoppedQuiet, row'.status = "stopped" => row.status = "stopped",
           \A x \in Slots : cc'[x] \in {"pending", "queued"}
                              => cc[x] \in {"pending", "queued"}
    PROVE  StoppedQuiet'
  BY DEF StoppedQuiet

LEMMA QuietOperator ==
    ASSUME ~BrokerMayFail, TypeOK, Intents, StoppedQuiet,
           NEW o \in Operators, OperatorStep(o)
    PROVE  StoppedQuiet'
  <1>. o \in Sessions
    BY DEF Sessions
  <1>0. Intent(ses[o])
    BY DEF Intents
  <1>1. CASE \/ SetSchedule(o) \/ UpdateCampaign(o) \/ PauseCampaign(o)
             \/ StartFresh(o) \/ ResumeSending(o) \/ ResumeSchedule(o)
             \/ StopCampaign(o) \/ DeleteCampaign(o) \/ Enqueued(o)
    <2>1. row' = row /\ cc' = cc
      BY <1>1 DEF SetSchedule, UpdateCampaign, PauseCampaign, StartFresh,
         ResumeSending, ResumeSchedule, StopCampaign, DeleteCampaign, Request,
         Read, Enqueued
    <2>. QED BY <2>1, QuietFrame
  <1>2. CASE CommitRow(o)
    <2>1. row'.status \in {row.status, ses[o].want.status}
      BY <1>2, WriteStatus DEF CommitRow
    <2>2. ses[o].want.status # "stopped"
      BY <1>0, <1>2 DEF CommitRow, At, Intent
    <2>. QED BY <1>2, <2>1, <2>2, QuietFrame DEF CommitRow
  <1>3. CASE CommitStop(o)
    BY <1>3 DEF CommitStop, StoppedQuiet
  <1>4. CASE CommitDelete(o)
    <2>1. row'.status \in {row.status, ses[o].want.status}
      BY <1>4, WriteStatus DEF CommitDelete
    <2>2. ses[o].want.status # "stopped"
      BY <1>0, <1>4 DEF CommitDelete, At, Intent
    <2>3. \A x \in Slots : cc'[x] \in {"pending", "queued"}
                             => cc[x] \in {"pending", "queued"}
      BY <1>4 DEF CommitDelete
    <2>. QED BY <2>1, <2>2, <2>3, QuietFrame
  <1>5. CASE CommitStart(o)
    <2>1. ses[o].want.status # ses[o].snap.status /\ ses[o].want.status = "running"
      BY <1>0, <1>5 DEF CommitStart, At, Intent
    <2>2. row'.status = "running"
      BY <1>5, <2>1, WriteStatus DEF CommitStart
    <2>. QED BY <2>2 DEF StoppedQuiet
  <1>6. ~QueueUnavailable(o)
    BY DEF QueueUnavailable
  <1>. QED BY <1>1, <1>2, <1>3, <1>4, <1>5, <1>6 DEF OperatorStep

LEMMA QuietWorker ==
    ASSUME ~BrokerMayFail, TypeOK, BatchInv, Intents, StoppedQuiet,
           NEW w \in Workers, WorkerStep(w)
    PROVE  StoppedQuiet'
  <1>. w \in Sessions
    BY DEF Sessions
  <1>0. Intent(ses[w]) /\ ses[w] \in SessionType /\ row \in RowType
    BY DEF Intents, TypeOK
  <1>1. CASE \/ LaunchSelect(w) \/ LaunchClaim(w) \/ LaunchSkip(w) \/ BatchRead(w)
             \/ BatchWait(w) \/ BatchPick(w) \/ BatchFinds(w) \/ Flushed(w)
    <2>1. row' = row /\ cc' = cc
      BY <1>1 DEF LaunchSelect, LaunchClaim, LaunchSkip, BatchRead, Read,
         BatchWait, BatchPick, BatchFinds, Flushed
    <2>. QED BY <2>1, QuietFrame
  <1>2. CASE LaunchFails(w)
    <2>1. row'.status \in {"draft", "scheduled"} /\ cc' = cc
      BY <1>2, <1>0 DEF LaunchFails, RowType
    <2>. QED BY <2>1, QuietFrame
  <1>3. CASE CommitLaunch(w)
    <2>1. row'.status = "running"
      BY <1>0, <1>3, WriteStatus DEF CommitLaunch, At, Intent
    <2>. QED BY <2>1 DEF StoppedQuiet
  <1>4. CASE BatchCommit(w)
    <2>1. \A x \in ses[w].rows : cc[x] = "pending"
      BY <1>4 DEF BatchCommit, BatchInv, BatchRows
    <2>2. row' = row
          /\ \A x \in Slots : cc'[x] \in {"pending", "queued"}
                                => cc[x] \in {"pending", "queued"}
      BY <1>4, <2>1 DEF BatchCommit
    <2>. QED BY <2>2, QuietFrame
  <1>5. CASE CommitComplete(w)
    <2>1. row'.status \in {row.status, ses[w].want.status}
      BY <1>5, WriteStatus DEF CommitComplete
    <2>2. ses[w].want.status # "stopped"
      BY <1>0, <1>5 DEF CommitComplete, At, Intent
    <2>. QED BY <1>5, <2>1, <2>2, QuietFrame DEF CommitComplete
  <1>6. ~FlushRefused(w) /\ ~FlushRollback(w)
    BY <1>0 DEF FlushRefused, FlushRollback, At, Intent
  <1>. QED
    BY <1>1, <1>2, <1>3, <1>4, <1>5, <1>6
    DEF WorkerStep, LaunchStep, BatchStep

LEMMA QuietOther ==
    ASSUME TypeOK, StoppedQuiet,
           \/ \E s \in Sessions : AnyStep(s)
           \/ \E x \in Slots : Sent(x) \/ Settled(x)
           \/ Tick
    PROVE  StoppedQuiet'
  <1>1. row'.status = row.status
    BY DEF AnyStep, ReadExisting, RowGone, Crash, Sent, Settled, Tick, TypeOK, RowType
  <1>2. \A x \in Slots : cc'[x] \in {"pending", "queued"}
                           => cc[x] \in {"pending", "queued"}
    BY DEF AnyStep, ReadExisting, RowGone, Crash, Sent, Settled, Tick, TypeOK
  <1>. QED BY <1>1, <1>2, QuietFrame

\* While the task queue takes every task, no contact of a stopped campaign is
\* waiting or queued, whatever requests, launchers and batches were half way
\* through their work when the stop was committed.
THEOREM StoppedQuietHolds ==
    ASSUME ~BrokerMayFail
    PROVE  Spec => []StoppedQuiet
  <1>1. Init => Intents /\ StoppedQuiet
    BY CampaignAssumption
    DEF Init, Intents, Intent, Closed, NewRow, StoppedQuiet
  <1>2. TypeOK /\ BatchInv /\ Intents /\ StoppedQuiet /\ [Next]_vars
          => Intents' /\ StoppedQuiet'
    <2>1. CASE UNCHANGED vars
      BY <2>1 DEF vars, Intents, StoppedQuiet
    <2>. QED
      BY <2>1, IntentsOperator, IntentsWorker, IntentsOther, QuietOperator,
         QuietWorker, QuietOther DEF Next
  <1>. QED BY <1>1, <1>2, TypeCorrect, BatchInvariant, PTL DEF Spec

-----------------------------------------------------------------------------
(* A campaign that is completed is drained *)

\* The requests that pause, stop or delete a campaign.
Holding == {"pause", "stop", "delete"}

\* What a session is about, if nothing is started or rescheduled by hand.
Meant(session) ==
    session.pc # "idle" =>
        /\ session.op \in Holding \union {"launch", "batch", "complete"}
        /\ session.op \in Holding => session.want.status \in {"paused", "stopped", "deleted"}
        /\ session.op = "complete" => session.want.status = "completed"

InBatch(session) == session.op \in {"batch", "complete"} /\ session.pc # "idle"

\* The row is locked by a launcher of a scheduled campaign, and a batch works on
\* one that has been launched: there is no enrolment between the last check of
\* a batch and its commit.
DrainInv ==
    /\ row.status = "completed" => NothingRemains
    /\ lock # NoSession => row.status = "scheduled"
    /\ \A s \in Sessions :
         /\ Meant(ses[s])
         /\ InBatch(ses[s]) => row.status \notin {"draft", "scheduled"}
         /\ InBatch(ses[s]) /\ ses[s].op = "complete" => NothingRemains

\* A session goes on, and no contact is added.
LEMMA DrainUpdate ==
    ASSUME TypeOK, DrainInv, NEW s \in Sessions, NEW session, Update(s, session),
           Meant(session), NothingRemains => NothingRemains',
           row'.status = "completed" => row.status = "completed" \/ NothingRemains,
           row'.status \in {"draft", "scheduled"} => row.status \in {"draft", "scheduled"},
           lock' # NoSession => row'.status = "scheduled",
           InBatch(session) => row.status \notin {"draft", "scheduled"},
           InBatch(session) /\ session.op = "complete" => NothingRemains
    PROVE  DrainInv'
  <1>1. \A t \in Sessions : ses'[t] = session \/ ses'[t] = ses[t]
    BY DEF Update, TypeOK
  <1>. QED BY <1>1 DEF DrainInv, Meant, InBatch

LEMMA DrainClose ==
    ASSUME TypeOK, DrainInv, NEW s \in Sessions, Close(s) \/ Die(s),
           NothingRemains => NothingRemains',
           row'.status = "completed" => row.status = "completed" \/ NothingRemains,
           row'.status \in {"draft", "scheduled"} => row.status \in {"draft", "scheduled"},
           lock' # NoSession => row'.status = "scheduled"
    PROVE  DrainInv'
  <1>. DEFINE session == [Closed EXCEPT !.op = "crash"]
  <1>1. Closed.pc = "idle" /\ session.pc = "idle"
    BY DEF Closed
  <1>2. Update(s, Closed) \/ Update(s, session)
    BY DEF Close, Die
  <1>. HIDE DEF session
  <1>. QED BY <1>1, <1>2, DrainUpdate DEF Meant, InBatch

LEMMA DrainRead ==
    ASSUME TypeOK, DrainInv, NEW s \in Sessions, NEW op, NEW pc, NEW want,
           Read(s, op, pc, want),
           op \in Holding \union {"launch", "batch"},
           op \in Holding => want.status \in {"paused", "stopped", "deleted"},
           op = "batch" => row.status \notin {"draft", "scheduled"}
    PROVE  DrainInv'
  <1>. DEFINE session == [Closed EXCEPT !.op = op, !.pc = pc, !.snap = row, !.want = want]
  <1>1. session.pc = pc /\ session.op = op /\ session.want = want
    BY DEF Closed
  <1>2. Update(s, session) /\ row' = row /\ cc' = cc /\ lock' = lock
    BY DEF Read
  <1>. HIDE DEF session
  <1>3. op # "complete"
    BY DEF Holding
  <1>4. NothingRemains' = NothingRemains
    BY <1>2 DEF NothingRemains
  <1>. QED BY <1>1, <1>2, <1>3, <1>4, DrainUpdate DEF Meant, InBatch, DrainInv, Holding

LEMMA DrainOperator ==
    ASSUME Ops \subseteq Holding, ~BrokerMayFail, TypeOK, DrainInv,
           NEW o \in Operators, OperatorStep(o)
    PROVE  DrainInv'
  <1>. o \in Sessions
    BY DEF Sessions
  <1>0. row \in RowType /\ Meant(ses[o])
    BY DEF TypeOK, DrainInv
  <1>1. ~SetSchedule(o) /\ ~UpdateCampaign(o) /\ ~StartFresh(o) /\ ~ResumeSending(o)
        /\ ~ResumeSchedule(o) /\ ~QueueUnavailable(o)
    BY DEF SetSchedule, UpdateCampaign, StartFresh, ResumeSending, ResumeSchedule,
           QueueUnavailable, Request, Holding
  <1>2. CASE PauseCampaign(o)
    <2>1. PICK from \in {"none", "scheduled"} :
            Read(o, "pause", "commit", [row EXCEPT !.status = "paused", !.pausedFrom = from])
      BY <1>2 DEF PauseCampaign, Request
    <2>2. [row EXCEPT !.status = "paused", !.pausedFrom = from].status = "paused"
      BY <1>0 DEF RowType
    <2>. QED BY <2>1, <2>2, DrainRead DEF Holding
  <1>3. CASE StopCampaign(o)
    <2>1. [row EXCEPT !.status = "stopped", !.pausedFrom = "none"].status = "stopped"
      BY <1>0 DEF RowType
    <2>. QED BY <1>3, <2>1, DrainRead DEF StopCampaign, Request, Holding
  <1>4. CASE DeleteCampaign(o)
    <2>1. [row EXCEPT !.status = "deleted"].status = "deleted"
      BY <1>0 DEF RowType
    <2>. QED BY <1>4, <2>1, DrainRead DEF DeleteCampaign, Request, Holding
  <1>5. CASE CommitRow(o) \/ CommitStop(o)
    <2>1. ses[o].op \in {"pause", "stop"}
      BY <1>0, <1>5 DEF CommitRow, CommitStop, At, Meant, Holding
    <2>2. ses[o].want.status \in {"paused", "stopped", "deleted"}
      BY <1>0, <1>5, <2>1 DEF CommitRow, CommitStop, At, Meant, Holding
    <2>3. row'.status \in {row.status, ses[o].want.status} /\ lock' = NoSession
      BY <1>5, WriteStatus DEF CommitRow, CommitStop, Write
    <2>4. NothingRemains => NothingRemains'
      BY <1>5 DEF CommitRow, CommitStop, NothingRemains
    <2>. QED BY <1>5, <2>2, <2>3, <2>4, DrainClose DEF CommitRow, CommitStop
  <1>6. CASE CommitDelete(o)
    <2>1. ses[o].want.status \in {"paused", "stopped", "deleted"}
      BY <1>0, <1>6 DEF CommitDelete, At, Meant, Holding
    <2>2. row'.status \in {row.status, ses[o].want.status} /\ lock' = NoSession
      BY <1>6, WriteStatus DEF CommitDelete, Write
    <2>3. NothingRemains => NothingRemains'
      BY <1>6 DEF CommitDelete, NothingRemains
    <2>. QED BY <1>6, <2>1, <2>2, <2>3, DrainClose DEF CommitDelete
  <1>7. ~CommitStart(o)
    BY <1>0 DEF CommitStart, At, Meant, Holding
  <1>8. CASE Enqueued(o)
    <2>1. NothingRemains' = NothingRemains
      BY <1>8 DEF Enqueued, NothingRemains
    <2>. QED BY <1>8, <2>1, DrainClose DEF Enqueued, DrainInv
  <1>. QED BY <1>1, <1>2, <1>3, <1>4, <1>5, <1>6, <1>7, <1>8 DEF OperatorStep

LEMMA DrainWorker ==
    ASSUME ~BrokerMayFail, EnrolInv, Intents, DrainInv, NEW w \in Workers, WorkerStep(w)
    PROVE  DrainInv'
  <1>. w \in Sessions
    BY DEF Sessions
  <1>. TypeOK
    BY DEF EnrolInv
  <1>0. /\ row \in RowType /\ ses[w] \in SessionType /\ Meant(ses[w]) /\ Intent(ses[w])
        /\ lock # NoSession => row.status = "scheduled"
    BY DEF TypeOK, DrainInv, Intents
  <1>1. CASE LaunchSelect(w) \/ BatchRead(w)
    BY <1>1, DrainRead DEF LaunchSelect, BatchRead, Holding
  <1>2. CASE LaunchClaim(w)
    <2>. DEFINE session == [ses[w] EXCEPT !.pc = "existing",
           !.want = [@ EXCEPT !.status = "running", !.pausedFrom = "none"]]
    <2>1. session.op = "launch" /\ Update(w, session)
      BY <1>0, <1>2 DEF LaunchClaim, At, SessionType
    <2>. HIDE DEF session
    <2>2. row' = row /\ row.status = "scheduled" /\ NothingRemains' = NothingRemains
      BY <1>2 DEF LaunchClaim, NothingRemains
    <2>. QED BY <2>1, <2>2, DrainUpdate DEF Meant, InBatch, Holding
  <1>3. CASE LaunchSkip(w) \/ BatchWait(w) \/ Flushed(w)
    <2>1. row' = row /\ lock' = lock /\ Close(w) /\ NothingRemains' = NothingRemains
      BY <1>3 DEF LaunchSkip, BatchWait, Flushed, NothingRemains
    <2>. QED BY <1>0, <2>1, DrainClose
  <1>4. CASE LaunchFails(w)
    <2>1. lock = w /\ row.status = "scheduled" /\ lock' = NoSession
      BY <1>0, <1>4, CampaignAssumption DEF LaunchFails, EnrolInv, LaunchLocked, At
    <2>2. row'.status \in {"draft", "scheduled"} /\ NothingRemains' = NothingRemains
      BY <1>0, <1>4 DEF LaunchFails, RowType, NothingRemains
    <2>. QED BY <1>4, <2>1, <2>2, DrainClose DEF LaunchFails
  <1>5. CASE CommitLaunch(w)
    <2>1. lock = w /\ row.status = "scheduled" /\ lock' = NoSession
      BY <1>0, <1>5, CampaignAssumption DEF CommitLaunch, EnrolInv, LaunchLocked, At, Write
    <2>2. row'.status = "running"
      BY <1>0, <1>5, WriteStatus DEF CommitLaunch, At, Intent
    <2>3. \A t \in Sessions : ses'[t] = Closed \/ ses'[t] = ses[t]
      BY <1>5 DEF CommitLaunch, Close, Update, TypeOK
    <2>4. \A t \in Sessions : Meant(ses'[t]) /\ ~InBatch(ses'[t])
      <3>1. Closed.pc = "idle"
        BY DEF Closed
      <3>2. \A t \in Sessions : Meant(ses[t]) /\ ~InBatch(ses[t])
        BY <2>1 DEF DrainInv
      <3>. QED BY <2>3, <3>1, <3>2 DEF Meant, InBatch
    <2>. QED BY <2>1, <2>2, <2>4 DEF DrainInv, Meant, InBatch
  <1>6. CASE BatchPick(w) \/ BatchCommit(w)
    <2>1. PICK pc \in {"commit", "flush"} : \E rows :
            Update(w, [ses[w] EXCEPT !.pc = pc, !.rows = rows])
      BY <1>6 DEF BatchPick, BatchCommit
    <2>2. PICK rows : Update(w, [ses[w] EXCEPT !.pc = pc, !.rows = rows])
      BY <2>1
    <2>. DEFINE session == [ses[w] EXCEPT !.pc = pc, !.rows = rows]
    <2>3. session.pc = pc /\ session.op = "batch" /\ InBatch(ses[w])
      BY <1>6, <1>0 DEF BatchPick, BatchCommit, At, SessionType, InBatch
    <2>4. Update(w, session)
      BY <2>2
    <2>. HIDE DEF session
    <2>5. row.status \notin {"draft", "scheduled"}
      BY <2>3 DEF DrainInv
    <2>6. \A x \in ses[w].rows : BatchCommit(w) => cc[x] = "pending"
      BY DEF BatchCommit, EnrolInv, BatchRows
    <2>7. NothingRemains => NothingRemains'
      BY <1>6, <2>6 DEF BatchPick, BatchCommit, NothingRemains
    <2>8. row' = row /\ lock' = lock
      BY <1>6 DEF BatchPick, BatchCommit
    <2>. QED BY <1>0, <2>3, <2>4, <2>5, <2>7, <2>8, DrainUpdate DEF Meant, InBatch, Holding
  <1>7. CASE BatchFinds(w)
    <2>. DEFINE session == [ses[w] EXCEPT !.op = "complete", !.pc = "commit",
                              !.want = [@ EXCEPT !.status = "completed"]]
    <2>1. session.op = "complete" /\ session.want.status = "completed"
      BY <1>0 DEF SessionType, RowType
    <2>2. Update(w, session) /\ row' = row /\ lock' = lock /\ NothingRemains
          /\ NothingRemains' = NothingRemains
      BY <1>7 DEF BatchFinds, NothingRemains
    <2>. HIDE DEF session
    <2>3. row.status \notin {"draft", "scheduled"}
      BY <1>7 DEF BatchFinds, At, DrainInv, InBatch
    <2>. QED BY <1>0, <2>1, <2>2, <2>3, DrainUpdate DEF Meant, InBatch, Holding
  <1>8. CASE CommitComplete(w)
    <2>1. NothingRemains /\ ses[w].want.status = "completed"
      BY <1>0, <1>8 DEF CommitComplete, At, DrainInv, InBatch, Meant
    <2>2. row'.status \in {row.status, "completed"} /\ lock' = NoSession
          /\ NothingRemains' = NothingRemains
      BY <1>8, <2>1, WriteStatus DEF CommitComplete, Write, NothingRemains
    <2>. QED BY <1>8, <2>1, <2>2, DrainClose DEF CommitComplete
  <1>9. ~FlushRefused(w) /\ ~FlushRollback(w)
    BY <1>0 DEF FlushRefused, FlushRollback, At, Intent
  <1>. QED
    BY <1>1, <1>2, <1>3, <1>4, <1>5, <1>6, <1>7, <1>8, <1>9 DEF WorkerStep, LaunchStep, BatchStep

LEMMA DrainOther ==
    ASSUME EnrolInv, DrainInv,
           \/ \E s \in Sessions : AnyStep(s)
           \/ \E x \in Slots : Sent(x) \/ Settled(x)
           \/ Tick
    PROVE  DrainInv'
  <1>. TypeOK
    BY DEF EnrolInv
  <1>0. lock # NoSession => row.status = "scheduled"
    BY DEF DrainInv
  <1>1. CASE \E s \in Sessions : ReadExisting(s)
    <2>1. PICK s \in Sessions : ReadExisting(s)
      BY <1>1
    <2>2. PICK added :
            Update(s, [ses[s] EXCEPT !.pc = "commit", !.add = added,
                                     !.want = [@ EXCEPT !.total = Cardinality(added)]])
      BY <2>1 DEF ReadExisting
    <2>. DEFINE session == [ses[s] EXCEPT !.pc = "commit", !.add = added,
                                !.want = [@ EXCEPT !.total = Cardinality(added)]]
    <2>3. session.op = "launch" /\ Update(s, session)
      BY <2>1, <2>2 DEF ReadExisting, TypeOK, SessionType, EnrolInv, LaunchLocked
    <2>. HIDE DEF session
    <2>4. row' = row /\ lock' = lock /\ NothingRemains' = NothingRemains
      BY <2>1 DEF ReadExisting, NothingRemains
    <2>. QED BY <1>0, <2>3, <2>4, DrainUpdate DEF Meant, InBatch, Holding
  <1>2. CASE \E s \in Sessions : RowGone(s) \/ Crash(s)
    <2>1. PICK s \in Sessions : RowGone(s) \/ Crash(s)
      BY <1>2
    <2>2. row' = row /\ lock' \in {lock, NoSession} /\ NothingRemains' = NothingRemains
      BY <2>1 DEF RowGone, Crash, NothingRemains
    <2>. QED BY <1>0, <2>1, <2>2, DrainClose DEF RowGone, Crash
  <1>3. CASE \E x \in Slots : Sent(x) \/ Settled(x)
    <2>1. ses' = ses /\ lock' = lock /\ row'.status = row.status
          /\ (NothingRemains => NothingRemains')
      BY <1>3 DEF Sent, Settled, NothingRemains, Live, TypeOK, RowType
    <2>. QED BY <2>1 DEF DrainInv
  <1>4. CASE Tick
    BY <1>4 DEF Tick, DrainInv, NothingRemains
  <1>. QED BY <1>1, <1>2, <1>3, <1>4 DEF AnyStep

\* A completed campaign has no contact that waits for, or is in the middle of,
\* its message, for any launchers, batches, pauses, stops, deletes and crashes,
\* while the task queue takes every task.
THEOREM CompletedDrainedHolds ==
    ASSUME Ops \subseteq Holding, ~BrokerMayFail
    PROVE  Spec => []CompletedDrained
  <1>1. Init => Intents /\ DrainInv
    BY CampaignAssumption
    DEF Init, Intents, Intent, Closed, NewRow, DrainInv, Meant, InBatch
  <1>2. EnrolInv /\ Intents /\ DrainInv /\ [Next]_vars => Intents' /\ DrainInv'
    <2>1. CASE UNCHANGED vars
      BY <2>1 DEF vars, Intents, DrainInv, NothingRemains
    <2>. QED
      BY <2>1, IntentsOperator, IntentsWorker, IntentsOther, DrainOperator, DrainWorker,
         DrainOther DEF Next, EnrolInv
  <1>3. DrainInv => CompletedDrained
    BY DEF DrainInv, CompletedDrained
  <1>4. "start" \notin Ops
    BY DEF Holding
  <1>. QED BY <1>1, <1>2, <1>3, <1>4, EnrolInvariant, PTL DEF Spec

-----------------------------------------------------------------------------
(* The history of a campaign that has reached somebody is kept *)

\* What a session takes the row for: it was there, and only a delete means to
\* make it go.
Told(session) ==
    /\ session.snap.status # "deleted"
    /\ session.op # "delete" => session.want.status # "deleted"

\* A deleted campaign has no message and no contact row, so that none of its
\* contacts can be given a message or be reached later on.
Gone == row.status = "deleted" => letters = {} /\ \A x \in Slots : cc[x] = "none"

\* Whoever was reached has a message, unless it was deleted.
OnRecord == reached \subseteq letters \union undone

HistoryInv == Gone /\ \A s \in Sessions : Told(ses[s])

LEMMA ToldUpdate ==
    ASSUME TypeOK, HistoryInv, NEW s \in Sessions, NEW session,
           Update(s, session), Told(session)
    PROVE  \A t \in Sessions : Told(ses'[t])
  <1>1. \A t \in Sessions : ses'[t] = session \/ ses'[t] = ses[t]
    BY DEF Update, TypeOK
  <1>. QED BY <1>1 DEF HistoryInv

LEMMA ToldClose ==
    ASSUME TypeOK, HistoryInv, NEW s \in Sessions, Close(s) \/ Die(s)
    PROVE  \A t \in Sessions : Told(ses'[t])
  <1>. DEFINE session == [Closed EXCEPT !.op = "crash"]
  <1>1. Told(Closed) /\ Told(session)
    BY CampaignAssumption DEF Told, Closed, NewRow
  <1>2. Update(s, Closed) \/ Update(s, session)
    BY DEF Close, Die
  <1>. HIDE DEF session
  <1>. QED BY <1>1, <1>2, ToldUpdate

LEMMA ToldRead ==
    ASSUME TypeOK, HistoryInv, NEW s \in Sessions, NEW op, NEW pc, NEW want,
           Read(s, op, pc, want), op # "delete" => want.status # "deleted"
    PROVE  \A t \in Sessions : Told(ses'[t])
  <1>. DEFINE session == [Closed EXCEPT !.op = op, !.pc = pc,
                                        !.snap = row, !.want = want]
  <1>1. session.op = op /\ session.snap = row /\ session.want = want
    BY DEF Closed
  <1>2. Update(s, session) /\ row.status # "deleted"
    BY DEF Read
  <1>. HIDE DEF session
  <1>. QED BY <1>1, <1>2, ToldUpdate DEF Told

LEMMA ToldOperator ==
    ASSUME TypeOK, HistoryInv, NEW o \in Operators, OperatorStep(o)
    PROVE  \A t \in Sessions : Told(ses'[t])
  <1>. o \in Sessions
    BY DEF Sessions
  <1>0. row \in RowType
    BY DEF TypeOK
  <1>1. CASE SetSchedule(o)
    <2>1. PICK st \in {"scheduled", "draft"}, t \in {NoTime} \union now..MaxTime :
            Read(o, "schedule", "commit",
                 [row EXCEPT !.status = st, !.startAt = t])
      BY <1>1 DEF SetSchedule, Request
    <2>2. [row EXCEPT !.status = st, !.startAt = t].status = st
      BY <1>0 DEF RowType
    <2>. QED BY <2>1, <2>2, ToldRead
  <1>2. CASE UpdateCampaign(o)
    <2>1. PICK t \in {NoTime, row.startAt} \union now..MaxTime,
               st \in {"draft", row.status}, n \in {0, row.total} :
            Read(o, "update", "commit",
                 [row EXCEPT !.status = st, !.startAt = t, !.total = n])
      BY <1>2 DEF UpdateCampaign, Request
    <2>. DEFINE want == [row EXCEPT !.status = st, !.startAt = t, !.total = n]
    <2>2. want.status \in {"scheduled", "draft"}
      BY <1>2, <1>0 DEF UpdateCampaign, RowType
    <2>3. Read(o, "update", "commit", want)
      BY <2>1
    <2>. HIDE DEF want
    <2>. QED BY <2>2, <2>3, ToldRead
  <1>3. CASE PauseCampaign(o)
    <2>1. PICK from \in {"none", "scheduled"} :
            Read(o, "pause", "commit",
                 [row EXCEPT !.status = "paused", !.pausedFrom = from])
      BY <1>3 DEF PauseCampaign, Request
    <2>2. [row EXCEPT !.status = "paused", !.pausedFrom = from].status = "paused"
      BY <1>0 DEF RowType
    <2>. QED BY <2>1, <2>2, ToldRead
  <1>4. CASE StartFresh(o) \/ ResumeSending(o)
    <2>1. ToRunning.status = "running"
      BY <1>0 DEF ToRunning, RowType
    <2>2. PICK op \in {"start", "resume"}, pc \in {"existing", "commit"} :
            Read(o, op, pc, ToRunning)
      BY <1>4 DEF StartFresh, ResumeSending, Request
    <2>. QED BY <2>1, <2>2, ToldRead
  <1>5. CASE ResumeSchedule(o)
    <2>1. PICK t \in {NoTime, row.startAt} :
            Read(o, "resume", "commit",
                 [row EXCEPT !.status = "scheduled", !.pausedFrom = "none",
                             !.startAt = t])
      BY <1>5 DEF ResumeSchedule, Request
    <2>. DEFINE want == [row EXCEPT !.status = "scheduled",
                                    !.pausedFrom = "none", !.startAt = t]
    <2>2. want.status = "scheduled"
      BY <1>0 DEF RowType
    <2>3. Read(o, "resume", "commit", want)
      BY <2>1
    <2>. HIDE DEF want
    <2>. QED BY <2>2, <2>3, ToldRead
  <1>6. CASE StopCampaign(o)
    <2>1. [row EXCEPT !.status = "stopped", !.pausedFrom = "none"].status = "stopped"
      BY <1>0 DEF RowType
    <2>. QED BY <1>6, <2>1, ToldRead DEF StopCampaign, Request
  <1>7. CASE DeleteCampaign(o)
    BY <1>7, ToldRead DEF DeleteCampaign, Request
  <1>8. CASE \/ CommitRow(o) \/ CommitStop(o) \/ CommitDelete(o) \/ Enqueued(o)
             \/ QueueUnavailable(o)
    BY <1>8, ToldClose
    DEF CommitRow, CommitStop, CommitDelete, Enqueued, QueueUnavailable
  <1>9. CASE CommitStart(o)
    <2>. DEFINE session == [ses[o] EXCEPT !.pc = "enqueue", !.add = {}]
    <2>1. /\ session.op = ses[o].op /\ session.snap = ses[o].snap
          /\ session.want = ses[o].want
      BY DEF TypeOK, SessionType
    <2>2. Update(o, session) /\ Told(ses[o])
      BY <1>9 DEF CommitStart, HistoryInv
    <2>. HIDE DEF session
    <2>. QED BY <2>1, <2>2, ToldUpdate DEF Told
  <1>. QED
    BY <1>1, <1>2, <1>3, <1>4, <1>5, <1>6, <1>7, <1>8, <1>9 DEF OperatorStep

LEMMA ToldWorker ==
    ASSUME TypeOK, HistoryInv, NEW w \in Workers, WorkerStep(w)
    PROVE  \A t \in Sessions : Told(ses'[t])
  <1>. w \in Sessions
    BY DEF Sessions
  <1>0. ses[w] \in SessionType /\ row \in RowType /\ Told(ses[w])
    BY DEF TypeOK, HistoryInv
  <1>1. CASE LaunchSelect(w) \/ BatchRead(w)
    <2>1. [row EXCEPT !.startAt = NoTime].status = row.status
      BY <1>0 DEF RowType
    <2>2. row.status \in {"scheduled", "running"}
      BY <1>1 DEF LaunchSelect, BatchRead
    <2>. QED BY <1>1, <2>1, <2>2, ToldRead DEF LaunchSelect, BatchRead
  <1>2. CASE LaunchClaim(w)
    <2>. DEFINE session == [ses[w] EXCEPT !.pc = "existing",
           !.want = [@ EXCEPT !.status = "running", !.pausedFrom = "none"]]
    <2>1. /\ session.op = ses[w].op /\ session.snap = ses[w].snap
          /\ session.want.status = "running"
      BY <1>0 DEF SessionType, RowType
    <2>2. Update(w, session)
      BY <1>2 DEF LaunchClaim
    <2>. HIDE DEF session
    <2>. QED BY <1>0, <2>1, <2>2, ToldUpdate DEF Told
  <1>5. CASE BatchFinds(w)
    <2>. DEFINE session == [ses[w] EXCEPT !.op = "complete", !.pc = "commit",
                              !.want = [@ EXCEPT !.status = "completed"]]
    <2>1. /\ session.op = "complete" /\ session.snap = ses[w].snap
          /\ session.want.status = "completed"
      BY <1>0 DEF SessionType, RowType
    <2>2. Update(w, session)
      BY <1>5 DEF BatchFinds
    <2>. HIDE DEF session
    <2>. QED BY <1>0, <2>1, <2>2, ToldUpdate DEF Told
  <1>3. CASE \/ LaunchSkip(w) \/ LaunchFails(w) \/ CommitLaunch(w)
             \/ BatchWait(w) \/ Flushed(w) \/ FlushRollback(w) \/ CommitComplete(w)
    BY <1>3, ToldClose DEF LaunchSkip, LaunchFails, CommitLaunch, BatchWait,
       Flushed, FlushRollback, CommitComplete
  <1>4. CASE BatchPick(w) \/ BatchCommit(w) \/ FlushRefused(w)
    <2>1. ASSUME NEW pc, NEW rows, NEW back,
                 Update(w, [ses[w] EXCEPT !.pc = pc, !.rows = rows, !.back = back])
          PROVE  \A t \in Sessions : Told(ses'[t])
      <3>. DEFINE session == [ses[w] EXCEPT !.pc = pc, !.rows = rows, !.back = back]
      <3>1. /\ session.op = ses[w].op /\ session.snap = ses[w].snap
            /\ session.want = ses[w].want
        BY <1>0 DEF SessionType
      <3>2. Update(w, session)
        BY <2>1
      <3>. HIDE DEF session
      <3>. QED BY <1>0, <3>1, <3>2, ToldUpdate DEF Told
    <2>2. ASSUME NEW pc, NEW rows
          PROVE  [ses[w] EXCEPT !.pc = pc, !.rows = rows, !.back = ses[w].back]
                   = [ses[w] EXCEPT !.pc = pc, !.rows = rows]
      BY <1>0 DEF SessionType
    <2>3. CASE BatchPick(w)
      <3>1. PICK rows : Update(w, [ses[w] EXCEPT !.pc = "commit", !.rows = rows])
        BY <2>3 DEF BatchPick
      <3>2. Update(w, [ses[w] EXCEPT !.pc = "commit", !.rows = rows, !.back = ses[w].back])
        BY <3>1, <2>2 DEF Update
      <3>. QED BY <3>2, <2>1
    <2>4. CASE BatchCommit(w)
      <3>1. PICK refused :
              Update(w, [ses[w] EXCEPT !.pc = "flush", !.rows = @ \ refused])
        BY <2>4 DEF BatchCommit
      <3>2. Update(w, [ses[w] EXCEPT !.pc = "flush", !.rows = ses[w].rows \ refused])
        BY <3>1
      <3>3. Update(w, [ses[w] EXCEPT !.pc = "flush", !.rows = ses[w].rows \ refused,
                                     !.back = ses[w].back])
        BY <3>2, <2>2 DEF Update
      <3>. QED BY <3>3, <2>1
    <2>5. CASE FlushRefused(w)
      <3>1. PICK lost :
              Update(w, [ses[w] EXCEPT !.pc = "rollback", !.rows = lost,
                                       !.back = {x \in lost : cc[x] = "queued"}])
        BY <2>5 DEF FlushRefused
      <3>. QED BY <3>1, <2>1
    <2>. QED BY <1>4, <2>3, <2>4, <2>5
  <1>. QED BY <1>1, <1>2, <1>3, <1>4, <1>5 DEF WorkerStep, LaunchStep, BatchStep

LEMMA ToldOther ==
    ASSUME TypeOK, HistoryInv,
           \/ \E s \in Sessions : AnyStep(s)
           \/ \E x \in Slots : Sent(x) \/ Settled(x)
           \/ Tick
    PROVE  \A t \in Sessions : Told(ses'[t])
  <1>1. CASE \E s \in Sessions : ReadExisting(s)
    <2>1. PICK s \in Sessions : ReadExisting(s)
      BY <1>1
    <2>2. PICK added :
            Update(s, [ses[s] EXCEPT !.pc = "commit", !.add = added,
                                     !.want = [@ EXCEPT !.total = Cardinality(added)]])
      BY <2>1 DEF ReadExisting
    <2>. DEFINE session == [ses[s] EXCEPT !.pc = "commit", !.add = added,
                                !.want = [@ EXCEPT !.total = Cardinality(added)]]
    <2>3. /\ session.op = ses[s].op /\ session.snap = ses[s].snap
          /\ session.want.status = ses[s].want.status
          /\ Told(ses[s]) /\ Update(s, session)
      BY <2>1, <2>2 DEF TypeOK, SessionType, RowType, HistoryInv
    <2>. HIDE DEF session
    <2>. QED BY <2>3, ToldUpdate DEF Told
  <1>2. CASE \E s \in Sessions : RowGone(s) \/ Crash(s)
    BY <1>2, ToldClose DEF RowGone, Crash
  <1>3. CASE Tick \/ \E x \in Slots : Sent(x) \/ Settled(x)
    BY <1>3 DEF Tick, Sent, Settled, HistoryInv
  <1>. QED BY <1>1, <1>2, <1>3 DEF AnyStep

\* A write that is not a delete leaves a campaign that is there.
LEMMA WriteStays ==
    ASSUME TypeOK, HistoryInv, NEW s \in Sessions, Write(s), ses[s].op # "delete"
    PROVE  row'.status # "deleted"
  BY WriteStatus DEF Write, HistoryInv, Told

\* Only a delete of a campaign without messages makes it go, and nothing comes
\* back.
LEMMA GoneOperator ==
    ASSUME TypeOK, HistoryInv, NEW o \in Operators, OperatorStep(o)
    PROVE  Gone' /\ UNCHANGED mail
  <1>. o \in Sessions
    BY DEF Sessions
  <1>. USE DEF mail
  <1>0. row \in RowType /\ ses[o] \in SessionType /\ Told(ses[o]) /\ Gone
    BY DEF TypeOK, HistoryInv
  <1>1. ASSUME row' = row, cc' = cc, UNCHANGED mail PROVE Gone'
    BY <1>0, <1>1 DEF Gone
  <1>2. CASE \/ SetSchedule(o) \/ UpdateCampaign(o) \/ PauseCampaign(o)
             \/ StartFresh(o) \/ ResumeSending(o) \/ ResumeSchedule(o)
             \/ StopCampaign(o) \/ DeleteCampaign(o) \/ Enqueued(o)
    BY <1>1, <1>2 DEF SetSchedule, UpdateCampaign, PauseCampaign, StartFresh,
       ResumeSending, ResumeSchedule, StopCampaign, DeleteCampaign, Enqueued,
       Request, Read
  <1>3. CASE CommitRow(o) \/ CommitStop(o) \/ CommitStart(o)
    BY <1>3, WriteStays DEF CommitRow, CommitStop, CommitStart, At, Gone
  <1>4. CASE CommitDelete(o)
    BY <1>0, <1>4 DEF CommitDelete, Gone
  <1>5. CASE QueueUnavailable(o)
    <2>1. row'.status \in {row.status, ses[o].snap.status} /\ row.status # "deleted"
      BY <1>0, <1>5 DEF QueueUnavailable, Flush, SessionType, RowType
    <2>. QED BY <1>0, <1>5, <2>1 DEF Gone, Told, QueueUnavailable
  <1>. QED BY <1>2, <1>3, <1>4, <1>5 DEF OperatorStep

LEMMA GoneWorker ==
    ASSUME TypeOK, BatchInv, HistoryInv, NEW w \in Workers, WorkerStep(w)
    PROVE  Gone' /\ (OnRecord => OnRecord')
  <1>. w \in Sessions
    BY DEF Sessions
  <1>. USE DEF mail, OnRecord
  <1>0. row \in RowType /\ ses[w] \in SessionType /\ cc \in [Slots -> CCStatus] /\ Gone
    BY DEF TypeOK, HistoryInv
  <1>1. ASSUME row' = row, cc' = cc, UNCHANGED mail PROVE Gone' /\ (OnRecord => OnRecord')
    BY <1>0, <1>1 DEF Gone
  <1>2. CASE \/ LaunchSelect(w) \/ LaunchClaim(w) \/ LaunchSkip(w) \/ BatchRead(w)
             \/ BatchWait(w) \/ BatchPick(w) \/ BatchFinds(w) \/ Flushed(w)
             \/ FlushRefused(w)
    BY <1>1, <1>2 DEF LaunchSelect, LaunchClaim, LaunchSkip, BatchRead, BatchWait,
       BatchPick, BatchFinds, Flushed, FlushRefused, Read
  <1>3. CASE LaunchFails(w)
    <2>1. row'.status \in {"draft", "scheduled"}
      BY <1>0, <1>3 DEF LaunchFails, RowType
    <2>. QED BY <1>3, <2>1 DEF Gone, LaunchFails
  <1>4. CASE CommitLaunch(w) \/ CommitComplete(w)
    BY <1>4, WriteStays DEF CommitLaunch, CommitComplete, At, Gone
  <1>5. CASE BatchCommit(w)
    <2>1. \A x \in ses[w].rows : x \in Slots /\ cc[x] = "pending"
      BY <1>0, <1>5 DEF BatchCommit, BatchInv, BatchRows, SessionType
    <2>2. row.status = "deleted" => ses[w].rows = {}
      BY <1>0, <2>1 DEF Gone
    <2>. QED BY <1>0, <1>5, <2>2 DEF BatchCommit, Gone
  <1>6. CASE FlushRollback(w)
    BY <1>0, <1>6 DEF FlushRollback, Gone
  <1>. QED BY <1>2, <1>3, <1>4, <1>5, <1>6 DEF WorkerStep, LaunchStep, BatchStep

LEMMA GoneOther ==
    ASSUME TypeOK, HistoryInv,
           \/ \E s \in Sessions : AnyStep(s)
           \/ \E x \in Slots : Sent(x) \/ Settled(x)
           \/ Tick
    PROVE  Gone' /\ (OnRecord => OnRecord')
  <1>. USE DEF mail, OnRecord
  <1>0. row \in RowType /\ Gone
    BY DEF TypeOK, HistoryInv
  <1>1. CASE \E s \in Sessions : AnyStep(s)
    BY <1>0, <1>1 DEF AnyStep, ReadExisting, RowGone, Crash, Gone
  <1>2. CASE \E x \in Slots : Sent(x) \/ Settled(x)
    <2>1. row.status # "deleted"
      BY <1>0, <1>2 DEF Sent, Settled, Live, Gone
    <2>2. row'.status = row.status
      BY <1>0, <1>2 DEF Sent, Settled, RowType
    <2>. QED BY <1>2, <2>1, <2>2 DEF Gone, Sent, Settled
  <1>3. CASE Tick
    BY <1>0, <1>3 DEF Tick, Gone
  <1>. QED BY <1>1, <1>2, <1>3

\* A campaign that has reached somebody is never deleted, whatever starts,
\* batches and outcomes come between the delete's check and its commit, and
\* however the task queue and the sessions fail, unless a rollback has deleted
\* the messages of all who were reached.
THEOREM HistoryKeptHolds == Spec => []HistoryKept
  <1>0. NewRow.status # "deleted" /\ Told(Closed)
    BY CampaignAssumption DEF Told, Closed, NewRow
  <1>1. Init => HistoryInv /\ OnRecord
    BY <1>0 DEF Init, HistoryInv, Gone, OnRecord
  <1>2. TypeOK /\ BatchInv /\ HistoryInv /\ OnRecord /\ [Next]_vars => (HistoryInv /\ OnRecord)'
    <2>1. CASE UNCHANGED vars
      BY <2>1 DEF vars, mail, HistoryInv, Gone, OnRecord
    <2>2. ASSUME TypeOK, HistoryInv, OnRecord, NEW o \in Operators, OperatorStep(o)
          PROVE  OnRecord'
      BY <2>2, GoneOperator DEF OnRecord, mail
    <2>. QED
      BY <2>1, <2>2, ToldOperator, ToldWorker, ToldOther, GoneOperator, GoneWorker,
         GoneOther DEF Next, HistoryInv
  <1>3. HistoryInv /\ OnRecord => HistoryKept
    BY DEF HistoryInv, Gone, OnRecord, HistoryKept
  <1>. QED BY <1>1, <1>2, <1>3, TypeCorrect, BatchInvariant, PTL DEF Spec

-----------------------------------------------------------------------------
(* One session at a time *)

\* A campaign that was not launched, and one that was.
Unlaunched(r) ==
    r.status \in {"draft", "scheduled"} \/ (r.status = "paused" /\ r.pausedFrom = "scheduled")
Launched(r) ==
    r.status \in {"running", "completed"} \/ (r.status = "paused" /\ r.pausedFrom # "scheduled")

\* What a session that is at pc is about: it found the row old, and means it to
\* become new.
Plan(op, pc, old, new, add) ==
    \/ /\ op \in {"schedule", "update"} /\ pc = "commit"
       /\ old.status \in {"draft", "scheduled"} /\ new.status \in {"draft", "scheduled"}
    \/ /\ op = "resume" /\ pc = "commit"
       /\ old.status = "paused" /\ Unlaunched(old) /\ new.status = "scheduled"
    \/ /\ op = "pause" /\ pc = "commit"
       /\ old.status \in {"running", "scheduled"} /\ new.status = "paused"
       /\ new.pausedFrom = "scheduled" <=> old.status = "scheduled"
       /\ new.total = old.total
    \/ /\ op = "stop" /\ pc = "commit"
       /\ old.status \in {"running", "paused", "scheduled", "failed"}
       /\ new.status = "stopped"
    \/ /\ op = "delete" /\ pc = "commit"
       /\ Unlaunched(old) \/ old.status = "failed"
       /\ new.status = "deleted"
    \/ /\ op \in {"start", "resume", "launch"} /\ pc \in {"existing", "commit"}
       /\ Unlaunched(old) /\ new.status = "running"
       /\ pc = "commit" => new.total = Cardinality(add)
       /\ op = "launch" => old.status = "scheduled"
    \/ /\ op \in {"start", "resume"} /\ pc = "commit" /\ add = {}
       /\ old.status = "paused" /\ Launched(old) /\ new.status = "running"
       /\ new.total = old.total
    \/ op \in {"start", "resume"} /\ pc = "enqueue"
    \/ op = "launch" /\ pc = "claim" /\ old.status = "scheduled"
    \/ /\ op = "batch" /\ pc \in {"select", "commit", "flush"}
       /\ old.status = "running" /\ new = old
    \/ /\ op = "complete" /\ pc = "commit"
       /\ old.status = "running" /\ new.status = "completed" /\ new.total = old.total

PlanOf(session) ==
    Plan(session.op, session.pc, session.snap, session.want, session.add)

\* The row is as it was read; only the mark that something was sent is not its
\* reader's to change.
Same(r, other) ==
    r.status = other.status /\ r.pausedFrom = other.pausedFrom /\ r.total = other.total

UpToDate(session) ==
    session.pc \in {"existing", "claim", "commit", "select"} => Same(session.snap, row)

Alone == \A s, t \in Sessions : ~Idle(s) /\ ~Idle(t) => s = t

Audience ==
    /\ Unlaunched(row) => Enrolled = {}
    /\ Launched(row) => row.total = Cardinality(Enrolled)

SerialInv ==
    /\ Alone
    /\ \A s \in Sessions : ~Idle(s) => PlanOf(ses[s]) /\ UpToDate(ses[s])
    /\ Audience

Move ==
    row'.status # row.status =>
        \/ row'.status \in Transitions[row.status]
        \/ row'.status = "deleted" /\ row.status # "running"

\* The only session in progress goes on, or a first one opens.
LEMMA SerialUpdate ==
    ASSUME TypeOK, SerialInv, NEW s \in Sessions, NEW session, Update(s, session),
           \A t \in Sessions \ {s} : Idle(t),
           session.pc # "idle" => PlanOf(session),
           session.pc \in {"existing", "claim", "commit", "select"}
              => Same(session.snap, row'),
           Audience'
    PROVE  SerialInv'
  <1>1. \A t \in Sessions : ses'[t] = IF t = s THEN session ELSE ses[t]
    BY DEF Update, TypeOK
  <1>2. Alone'
    BY <1>1 DEF Alone, Idle
  <1>3. \A t \in Sessions : ses'[t].pc # "idle" => t = s /\ ses'[t] = session
    BY <1>1 DEF Idle
  <1>. QED BY <1>2, <1>3 DEF SerialInv, Idle, UpToDate

LEMMA SerialOthers ==
    ASSUME SerialInv, NEW s \in Sessions, ~Idle(s)
    PROVE  \A t \in Sessions \ {s} : Idle(t)
  BY DEF SerialInv, Alone

LEMMA SerialClose ==
    ASSUME TypeOK, SerialInv, NEW s \in Sessions, ~Idle(s), Close(s) \/ Die(s), Audience'
    PROVE  SerialInv'
  <1>1. \A t \in Sessions : ses'[t].pc = "idle"
    BY SerialOthers DEF Close, Die, Update, TypeOK, Closed, Idle
  <1>. QED BY <1>1 DEF SerialInv, Alone, Idle

LEMMA SerialRead ==
    ASSUME MaxOpen = 1, TypeOK, SerialInv, NEW s \in Sessions, NEW op, NEW pc, NEW want,
           Read(s, op, pc, want), Plan(op, pc, row, want, {})
    PROVE  SerialInv' /\ Move
  <1>. DEFINE Open == {t \in Sessions : ~Idle(t)}
  <1>1. \A t \in Sessions : Idle(t)
    <2>. SUFFICES ASSUME NEW t \in Sessions, ~Idle(t)
                  PROVE  FALSE
      OBVIOUS
    <2>1. Open = {t}
      BY DEF SerialInv, Alone
    <2>2. Cardinality(Open) = 1
      BY <2>1, FS_Singleton
    <2>. QED BY <2>2 DEF Read
  <1>. DEFINE session == [Closed EXCEPT !.op = op, !.pc = pc, !.snap = row, !.want = want]
  <1>2. /\ session.pc = pc /\ session.op = op /\ session.snap = row
        /\ session.want = want /\ session.add = {}
    BY DEF Closed
  <1>3. Update(s, session) /\ row' = row /\ cc' = cc
    BY DEF Read
  <1>. HIDE DEF session
  <1>4. \A t \in Sessions : ses'[t] = IF t = s THEN session ELSE ses[t]
    BY <1>3 DEF Update, TypeOK
  <1>5. \A t \in Sessions : ses'[t].pc # "idle" => t = s /\ ses'[t] = session
    BY <1>1, <1>4 DEF Idle
  <1>6. Alone' /\ Audience'
    BY <1>3, <1>5 DEF Alone, Idle, SerialInv, Audience, Enrolled
  <1>7. PlanOf(session)
    BY <1>2 DEF PlanOf
  <1>8. \A t \in Sessions : ~(ses'[t].pc = "idle") => PlanOf(ses'[t]) /\ Same(ses'[t].snap, row')
    BY <1>2, <1>3, <1>5, <1>7 DEF Same
  <1>. QED BY <1>3, <1>6, <1>8 DEF SerialInv, Idle, UpToDate, Move

\* What is written is what was meant.
LEMMA SerialWrite ==
    ASSUME TypeOK, NEW s \in Sessions, Write(s), Same(ses[s].snap, row)
    PROVE  Same(row', ses[s].want)
  BY DEF TypeOK, SessionType, RowType, Write, Flush, Same

LEMMA SameEnrolled ==
    ASSUME \A x \in Slots : cc'[x] = "none" <=> cc[x] = "none"
    PROVE  Enrolled' = Enrolled
  BY DEF Enrolled, Slots

\* A step that leaves the row and whose contacts they are.
LEMMA AudienceFrame ==
    ASSUME SerialInv, Same(row, row'),
           \A x \in Slots : cc'[x] = "none" <=> cc[x] = "none"
    PROVE  Audience' /\ Move
  BY SameEnrolled DEF SerialInv, Audience, Same, Unlaunched, Launched, Move

\* Enrolling is what makes an empty audience the added contacts.
LEMMA EnrolCounts ==
    ASSUME NEW s \in Sessions, ses[s].add \subseteq Contacts, Enrol(s)
    PROVE  /\ Enrolled = {} => Enrolled' = ses[s].add
           /\ ses[s].add = {} => Enrolled' = Enrolled
  <1>1. \A c \in Contacts, t \in Sessions : <<c, t>> \in Slots
    BY DEF Slots
  <1>2. \A c \in Contacts, t \in Sessions :
          cc'[<<c, t>>] = IF t = s /\ c \in ses[s].add THEN "pending" ELSE cc[<<c, t>>]
    BY <1>1 DEF Enrol
  <1>3. \A c \in Contacts :
          (\E t \in Sessions : cc'[<<c, t>>] # "none")
            <=> c \in ses[s].add \/ \E t \in Sessions : cc[<<c, t>>] # "none"
    BY <1>2
  <1>4. Enrolled' = Enrolled \union ses[s].add
    BY <1>3 DEF Enrolled
  <1>. QED BY <1>4

LEMMA SerialOperator ==
    ASSUME MaxOpen = 1, ~BrokerMayFail, TypeOK, SerialInv,
           NEW o \in Operators, OperatorStep(o)
    PROVE  SerialInv' /\ Move
  <1>. o \in Sessions
    BY DEF Sessions
  <1>0. row \in RowType /\ ses[o] \in SessionType
    BY DEF TypeOK
  <1>. DEFINE old == ses[o].snap
              new == ses[o].want
  <1>a. ASSUME ses[o].pc = "commit"
        PROVE  /\ ~Idle(o) /\ Same(old, row)
               /\ Plan(ses[o].op, "commit", old, new, ses[o].add)
    BY <1>a DEF SerialInv, Idle, UpToDate, PlanOf
  <1>1. CASE SetSchedule(o)
    <2>1. PICK st \in {"scheduled", "draft"}, t \in {NoTime} \union now..MaxTime :
            Read(o, "schedule", "commit",
                 [row EXCEPT !.status = st, !.startAt = t])
      BY <1>1 DEF SetSchedule, Request
    <2>2. [row EXCEPT !.status = st, !.startAt = t].status = st
      BY <1>0 DEF RowType
    <2>3. row.status \in {"draft", "scheduled"}
      BY <1>1 DEF SetSchedule
    <2>. QED BY <2>1, <2>2, <2>3, SerialRead DEF Plan
  <1>2. CASE UpdateCampaign(o)
    <2>1. PICK t \in {NoTime, row.startAt} \union now..MaxTime,
               st \in {"draft", row.status}, n \in {0, row.total} :
            Read(o, "update", "commit",
                 [row EXCEPT !.status = st, !.startAt = t, !.total = n])
      BY <1>2 DEF UpdateCampaign, Request
    <2>. DEFINE want == [row EXCEPT !.status = st, !.startAt = t, !.total = n]
    <2>2. want.status \in {"scheduled", "draft"} /\ row.status \in {"draft", "scheduled"}
      BY <1>2, <1>0 DEF UpdateCampaign, RowType
    <2>3. Read(o, "update", "commit", want)
      BY <2>1
    <2>. HIDE DEF want
    <2>. QED BY <2>2, <2>3, SerialRead DEF Plan
  <1>3. CASE PauseCampaign(o)
    <2>. DEFINE from == IF row.status = "scheduled" THEN "scheduled" ELSE "none"
                want == [row EXCEPT !.status = "paused", !.pausedFrom = from]
    <2>1. Read(o, "pause", "commit", want) /\ row.status \in {"running", "scheduled"}
      BY <1>3 DEF PauseCampaign, Request
    <2>2. want.status = "paused" /\ want.pausedFrom = from /\ want.total = row.total
      BY <1>0 DEF RowType
    <2>. HIDE DEF want
    <2>. QED BY <2>1, <2>2, SerialRead DEF Plan
  <1>4. ToRunning.status = "running" /\ ToRunning.total = row.total
    BY <1>0 DEF ToRunning, RowType
  <1>5. CASE StartFresh(o)
    <2>1. Read(o, "start", "existing", ToRunning) /\ Unlaunched(row)
      BY <1>5 DEF StartFresh, Request, Unlaunched
    <2>. QED BY <1>4, <2>1, SerialRead DEF Plan
  <1>6. CASE ResumeSending(o)
    <2>1. PICK op \in {"start", "resume"} : Read(o, op, "commit", ToRunning)
      BY <1>6 DEF ResumeSending, Request
    <2>2. row.status = "paused" /\ Launched(row)
      BY <1>6 DEF ResumeSending, Launched
    <2>. QED BY <1>4, <2>1, <2>2, SerialRead DEF Plan
  <1>7. CASE ResumeSchedule(o)
    <2>1. PICK t \in {NoTime, row.startAt} :
            Read(o, "resume", "commit",
                 [row EXCEPT !.status = "scheduled", !.pausedFrom = "none",
                             !.startAt = t])
      BY <1>7 DEF ResumeSchedule, Request
    <2>. DEFINE want == [row EXCEPT !.status = "scheduled",
                                    !.pausedFrom = "none", !.startAt = t]
    <2>2. want.status = "scheduled"
      BY <1>0 DEF RowType
    <2>3. Read(o, "resume", "commit", want) /\ row.status = "paused" /\ Unlaunched(row)
      BY <1>7, <2>1 DEF ResumeSchedule, Unlaunched
    <2>. HIDE DEF want
    <2>. QED BY <2>2, <2>3, SerialRead DEF Plan
  <1>8. CASE StopCampaign(o)
    <2>1. [row EXCEPT !.status = "stopped", !.pausedFrom = "none"].status = "stopped"
      BY <1>0 DEF RowType
    <2>. QED BY <1>8, <2>1, SerialRead DEF StopCampaign, Request, Plan
  <1>9. CASE DeleteCampaign(o)
    <2>1. [row EXCEPT !.status = "deleted"].status = "deleted"
      BY <1>0 DEF RowType
    <2>. QED BY <1>9, <2>1, SerialRead DEF DeleteCampaign, Request, Plan, Unlaunched
  <1>10. CASE CommitRow(o)
    <2>1. ses[o].pc = "commit" /\ Write(o) /\ Close(o) /\ Enrolled' = Enrolled
      BY <1>10 DEF CommitRow, At, Enrolled
    <2>2. Same(row', new) /\ Same(old, row)
      BY <1>a, <2>1, SerialWrite
    <2>3. Audience' /\ Move
      BY <1>10, <1>a, <2>1, <2>2 DEF CommitRow, At, Plan, Same, SerialInv, Audience,
         Unlaunched, Launched, Move, Transitions, Status
    <2>. QED BY <1>a, <2>1, <2>3, SerialClose
  <1>11. CASE CommitStop(o)
    <2>1. ses[o].pc = "commit" /\ Write(o) /\ Close(o)
      BY <1>11 DEF CommitStop, At
    <2>2. Same(row', new) /\ Same(old, row)
      BY <1>a, <2>1, SerialWrite
    <2>3. Audience' /\ Move
      BY <1>11, <1>a, <2>1, <2>2 DEF CommitStop, At, Plan, Same, Audience,
         Unlaunched, Launched, Move, Transitions, Status
    <2>. QED BY <1>a, <2>1, <2>3, SerialClose
  <1>12. CASE CommitDelete(o)
    <2>1. ses[o].pc = "commit" /\ Close(o)
      BY <1>12 DEF CommitDelete, At
    <2>2. CASE UNCHANGED <<row, cc, lock>>
      BY <1>a, <2>1, <2>2, AudienceFrame, SerialClose DEF Same
    <2>3. CASE Write(o)
      <3>1. Same(row', new) /\ Same(old, row)
        BY <1>a, <2>1, <2>3, SerialWrite
      <3>2. Audience' /\ Move
        BY <1>12, <1>a, <2>1, <3>1 DEF CommitDelete, At, Plan, Same, Audience,
           Unlaunched, Launched, Move
      <3>. QED BY <1>a, <2>1, <3>2, SerialClose
    <2>. QED BY <1>12, <2>2, <2>3 DEF CommitDelete
  <1>13. CASE CommitStart(o)
    <2>1. ses[o].pc = "commit" /\ Write(o) /\ Enrol(o)
      BY <1>13 DEF CommitStart, At
    <2>2. Same(row', new) /\ Same(old, row)
      BY <1>a, <2>1, SerialWrite
    <2>3. Audience' /\ Move
      <3>1. CASE /\ Unlaunched(old) /\ new.status = "running"
                 /\ new.total = Cardinality(ses[o].add)
        <4>1. Unlaunched(row)
          BY <2>2, <3>1 DEF Same, Unlaunched
        <4>2. Enrolled' = ses[o].add
          BY <1>0, <2>1, <4>1, EnrolCounts DEF SerialInv, Audience, SessionType
        <4>. QED BY <2>2, <3>1, <4>1, <4>2 DEF Same, Audience, Unlaunched, Launched, Move,
                    Transitions, Status
      <3>2. CASE /\ ses[o].add = {} /\ old.status = "paused" /\ Launched(old)
                 /\ new.status = "running" /\ new.total = old.total
        <4>1. Launched(row)
          BY <2>2, <3>2 DEF Same, Launched
        <4>2. Enrolled' = Enrolled
          BY <1>0, <2>1, <3>2, EnrolCounts DEF SessionType
        <4>. QED BY <2>2, <3>2, <4>1, <4>2 DEF Same, Audience, Unlaunched, Launched, Move,
                    Transitions, Status, SerialInv
      <3>3. Plan(ses[o].op, "commit", old, new, ses[o].add)
            /\ ses[o].op \in {"start", "resume"} /\ new.status = "running"
        BY <1>a, <1>13, <2>1 DEF CommitStart, At
      <3>. QED BY <3>1, <3>2, <3>3 DEF Plan
    <2>. DEFINE session == [ses[o] EXCEPT !.pc = "enqueue", !.add = {}]
    <2>4. session.pc = "enqueue" /\ session.op \in {"start", "resume"}
      BY <1>0, <1>13 DEF CommitStart, At, SessionType
    <2>5. Update(o, session)
      BY <1>13 DEF CommitStart
    <2>. HIDE DEF session
    <2>. QED BY <1>a, <2>1, <2>3, <2>4, <2>5, SerialUpdate, SerialOthers DEF PlanOf, Plan
  <1>14. CASE Enqueued(o)
    <2>1. ~Idle(o) /\ row' = row /\ cc' = cc /\ Close(o)
      BY <1>14 DEF Enqueued, Idle
    <2>. QED BY <2>1, AudienceFrame, SerialClose DEF Same
  <1>15. ~QueueUnavailable(o)
    BY DEF QueueUnavailable
  <1>. QED
    BY <1>1, <1>2, <1>3, <1>5, <1>6, <1>7, <1>8, <1>9, <1>10, <1>11, <1>12, <1>13,
       <1>14, <1>15 DEF OperatorStep

LEMMA SerialWorker ==
    ASSUME MaxOpen = 1, ~BrokerMayFail, TypeOK, BatchInv, SerialInv,
           NEW w \in Workers, WorkerStep(w)
    PROVE  SerialInv' /\ Move
  <1>. w \in Sessions
    BY DEF Sessions
  <1>0. row \in RowType /\ ses[w] \in SessionType
    BY DEF TypeOK
  <1>. DEFINE old == ses[w].snap
              new == ses[w].want
  <1>a. ASSUME ~Idle(w)
        PROVE  /\ ses[w].pc \in {"existing", "claim", "commit", "select"} => Same(old, row)
               /\ Plan(ses[w].op, ses[w].pc, old, new, ses[w].add)
    BY <1>a DEF SerialInv, UpToDate, PlanOf
  <1>1. CASE LaunchSelect(w)
    BY <1>1, SerialRead DEF LaunchSelect, Plan
  <1>2. CASE BatchRead(w)
    BY <1>2, SerialRead DEF BatchRead, Plan
  <1>3. CASE LaunchClaim(w)
    <2>. DEFINE session == [ses[w] EXCEPT !.pc = "existing",
           !.want = [@ EXCEPT !.status = "running", !.pausedFrom = "none"]]
    <2>1. /\ session.op = "launch" /\ session.pc = "existing" /\ session.snap = old
          /\ session.want.status = "running"
      BY <1>0, <1>3 DEF LaunchClaim, At, SessionType, RowType
    <2>2. Update(w, session) /\ ~Idle(w) /\ row' = row /\ cc' = cc
      BY <1>3 DEF LaunchClaim, At, Idle
    <2>. HIDE DEF session
    <2>3. Same(old, row) /\ row.status = "scheduled"
      BY <1>3, <1>a, <2>2 DEF LaunchClaim, At
    <2>4. PlanOf(session)
      BY <2>1, <2>3 DEF PlanOf, Plan, Same, Unlaunched
    <2>5. Audience' /\ Move
      BY <2>2, AudienceFrame DEF Same
    <2>. QED BY <2>1, <2>2, <2>3, <2>4, <2>5, SerialUpdate, SerialOthers
  <1>4. CASE LaunchSkip(w) \/ BatchWait(w) \/ Flushed(w)
    <2>1. ~Idle(w) /\ row' = row /\ cc' = cc /\ Close(w)
      BY <1>4 DEF LaunchSkip, BatchWait, Flushed, At, Idle
    <2>. QED BY <2>1, AudienceFrame, SerialClose DEF Same
  <1>5. CASE LaunchFails(w)
    <2>1. ~Idle(w) /\ Close(w) /\ Enrolled' = Enrolled
      BY <1>5 DEF LaunchFails, At, Idle, Enrolled
    <2>2. row.status = "scheduled"
      BY <1>5, <1>a, <2>1 DEF LaunchFails, At, Plan, Same
    <2>3. row'.status \in {"draft", "scheduled"}
      BY <1>0, <1>5 DEF LaunchFails, RowType
    <2>4. Audience' /\ Move
      BY <2>1, <2>2, <2>3 DEF SerialInv, Audience, Unlaunched, Launched, Move,
         Transitions, Status
    <2>. QED BY <2>1, <2>4, SerialClose
  <1>6. CASE CommitLaunch(w)
    <2>1. ses[w].pc = "commit" /\ ~Idle(w) /\ Write(w) /\ Enrol(w) /\ Close(w)
      BY <1>6 DEF CommitLaunch, At, Idle
    <2>2. Same(row', new) /\ Same(old, row)
      BY <1>a, <2>1, SerialWrite
    <2>3. /\ Unlaunched(old) /\ new.status = "running"
          /\ new.total = Cardinality(ses[w].add)
      BY <1>a, <1>6, <2>1 DEF CommitLaunch, At, Plan
    <2>4. Enrolled' = ses[w].add
      BY <1>0, <2>1, <2>2, <2>3, EnrolCounts
      DEF SerialInv, Audience, SessionType, Same, Unlaunched
    <2>5. Audience' /\ Move
      BY <2>2, <2>3, <2>4 DEF Same, Audience, Unlaunched, Launched, Move, Transitions, Status
    <2>. QED BY <2>1, <2>5, SerialClose
  <1>7. CASE BatchPick(w) \/ BatchCommit(w)
    <2>1. PICK pc \in {"commit", "flush"} : \E rows :
            Update(w, [ses[w] EXCEPT !.pc = pc, !.rows = rows])
            /\ (pc = "commit" => BatchPick(w))
      BY <1>7 DEF BatchPick, BatchCommit
    <2>2. PICK rows : Update(w, [ses[w] EXCEPT !.pc = pc, !.rows = rows])
      BY <2>1
    <2>. DEFINE session == [ses[w] EXCEPT !.pc = pc, !.rows = rows]
    <2>3. /\ session.pc = pc /\ session.op = "batch" /\ session.snap = old
          /\ session.want = new /\ ses[w].op = "batch" /\ ~Idle(w)
      BY <1>7, <1>0 DEF BatchPick, BatchCommit, At, SessionType, Idle
    <2>4. Update(w, session) /\ row' = row
      BY <1>7, <2>2 DEF BatchPick, BatchCommit
    <2>. HIDE DEF session
    <2>5. PlanOf(session)
      BY <1>a, <2>3 DEF PlanOf, Plan
    <2>6. pc = "commit" => Same(old, row')
      BY <1>a, <2>1, <2>3, <2>4 DEF BatchPick, At
    <2>7. \A x \in Slots : cc'[x] = "none" <=> cc[x] = "none"
      <3>1. \A x \in ses[w].rows : BatchCommit(w) => cc[x] = "pending"
        BY DEF BatchCommit, BatchInv, BatchRows
      <3>. QED BY <1>7, <3>1 DEF BatchPick, BatchCommit
    <2>8. Audience' /\ Move
      BY <2>4, <2>7, AudienceFrame DEF Same
    <2>. QED BY <2>3, <2>4, <2>5, <2>6, <2>8, SerialUpdate, SerialOthers
  <1>8. CASE BatchFinds(w)
    <2>. DEFINE session == [ses[w] EXCEPT !.op = "complete", !.pc = "commit",
                              !.want = [@ EXCEPT !.status = "completed"]]
    <2>1. /\ session.op = "complete" /\ session.pc = "commit" /\ session.snap = old
          /\ session.want.status = "completed" /\ session.want.total = new.total
      BY <1>0 DEF SessionType, RowType
    <2>2. Update(w, session) /\ ~Idle(w) /\ row' = row /\ cc' = cc
      BY <1>8 DEF BatchFinds, At, Idle
    <2>. HIDE DEF session
    <2>3. Same(old, row) /\ old.status = "running" /\ new = old
      BY <1>8, <1>a, <2>2 DEF BatchFinds, At, Plan
    <2>4. PlanOf(session)
      BY <2>1, <2>3 DEF PlanOf, Plan
    <2>5. Audience' /\ Move
      BY <2>2, AudienceFrame DEF Same
    <2>. QED BY <2>1, <2>2, <2>3, <2>4, <2>5, SerialUpdate, SerialOthers
  <1>9. CASE CommitComplete(w)
    <2>1. ses[w].pc = "commit" /\ ~Idle(w) /\ Write(w) /\ Close(w) /\ Enrolled' = Enrolled
      BY <1>9 DEF CommitComplete, At, Idle, Enrolled
    <2>2. Same(row', new) /\ Same(old, row)
      BY <1>a, <2>1, SerialWrite
    <2>3. old.status = "running" /\ new.status = "completed" /\ new.total = old.total
      BY <1>a, <1>9, <2>1 DEF CommitComplete, At, Plan
    <2>4. Audience' /\ Move
      BY <2>1, <2>2, <2>3 DEF Same, SerialInv, Audience, Unlaunched, Launched, Move,
         Transitions, Status
    <2>. QED BY <2>1, <2>4, SerialClose
  <1>10. ~FlushRefused(w) /\ ~FlushRollback(w)
    <2>1. ~At(w, "batch", "rollback")
      BY <1>a DEF At, Idle, Plan
    <2>. QED BY <2>1 DEF FlushRefused, FlushRollback
  <1>. QED
    BY <1>1, <1>2, <1>3, <1>4, <1>5, <1>6, <1>7, <1>8, <1>9, <1>10
    DEF WorkerStep, LaunchStep, BatchStep

LEMMA SerialOther ==
    ASSUME TypeOK, SerialInv,
           \/ \E s \in Sessions : AnyStep(s)
           \/ \E x \in Slots : Sent(x) \/ Settled(x)
           \/ Tick
    PROVE  SerialInv' /\ Move
  <1>1. CASE \E s \in Sessions : ReadExisting(s)
    <2>1. PICK s \in Sessions : ReadExisting(s)
      BY <1>1
    <2>2. PICK added :
            Update(s, [ses[s] EXCEPT !.pc = "commit", !.add = added,
                                     !.want = [@ EXCEPT !.total = Cardinality(added)]])
      BY <2>1 DEF ReadExisting
    <2>. DEFINE session == [ses[s] EXCEPT !.pc = "commit", !.add = added,
                                !.want = [@ EXCEPT !.total = Cardinality(added)]]
    <2>3. /\ session.op = ses[s].op /\ session.pc = "commit" /\ session.add = added
          /\ session.snap = ses[s].snap /\ session.want.status = ses[s].want.status
          /\ session.want.total = Cardinality(added)
      BY <2>1 DEF TypeOK, SessionType, RowType
    <2>4. Update(s, session) /\ ses[s].pc = "existing" /\ ~Idle(s) /\ row' = row /\ cc' = cc
      BY <2>1, <2>2 DEF ReadExisting, Idle
    <2>. HIDE DEF session
    <2>5. PlanOf(ses[s]) /\ Same(ses[s].snap, row)
      BY <2>4 DEF SerialInv, UpToDate
    <2>6. PlanOf(session)
      BY <2>3, <2>4, <2>5 DEF PlanOf, Plan
    <2>7. Audience' /\ Move
      BY <2>4, AudienceFrame DEF Same
    <2>. QED BY <2>3, <2>4, <2>5, <2>6, <2>7, SerialUpdate, SerialOthers
  <1>2. CASE \E s \in Sessions : RowGone(s) \/ Crash(s)
    <2>1. PICK s \in Sessions : RowGone(s) \/ Crash(s)
      BY <1>2
    <2>2. ~Idle(s) /\ row' = row /\ cc' = cc /\ (Close(s) \/ Die(s))
      BY <2>1 DEF RowGone, Crash, Idle
    <2>. QED BY <2>2, AudienceFrame, SerialClose DEF Same
  <1>3. CASE Tick \/ \E x \in Slots : Sent(x) \/ Settled(x)
    <2>1. ses' = ses /\ Same(row, row')
      BY <1>3 DEF Tick, Sent, Settled, Same, TypeOK, RowType
    <2>2. \A x \in Slots : cc'[x] = "none" <=> cc[x] = "none"
      BY <1>3 DEF Tick, Sent, Settled, TypeOK, Live
    <2>3. Audience' /\ Move
      BY <2>1, <2>2, AudienceFrame
    <2>. QED BY <2>1, <2>3 DEF SerialInv, Alone, Idle, UpToDate, Same
  <1>. QED BY <1>1, <1>2, <1>3 DEF AnyStep

LEMMA SerialInvariant ==
    ASSUME MaxOpen = 1, ~BrokerMayFail
    PROVE  Spec => [](TypeOK /\ BatchInv /\ SerialInv)
  <1>1. Init => SerialInv
    <2>. SUFFICES ASSUME Init
                  PROVE  SerialInv
      OBVIOUS
    <2>1. \A s \in Sessions : Idle(s)
      BY DEF Init, Idle, Closed
    <2>2. Enrolled = {}
      BY DEF Init, Enrolled, Slots
    <2>3. ~Launched(row)
      BY CampaignAssumption DEF Init, NewRow, Launched
    <2>. QED BY <2>1, <2>2, <2>3 DEF SerialInv, Alone, Audience
  <1>2. TypeOK /\ BatchInv /\ SerialInv /\ [Next]_vars => SerialInv'
    <2>1. CASE UNCHANGED vars
      BY <2>1 DEF vars, SerialInv, Alone, Idle, UpToDate, Audience, Enrolled
    <2>. QED BY <2>1, SerialOperator, SerialWorker, SerialOther DEF Next
  <1>. QED BY <1>1, <1>2, TypeCorrect, BatchInvariant, PTL DEF Spec

\* One session at a time, a campaign that was not launched has no contact rows,
\* and one that was counts exactly those it has, through every sequence of
\* requests, launches, batches, outcomes and crashes.
THEOREM AudienceMatchesHolds ==
    ASSUME MaxOpen = 1, ~BrokerMayFail
    PROVE  Spec => []AudienceMatches
  <1>1. SerialInv => AudienceMatches
    BY DEF SerialInv, Audience, AudienceMatches, EmptyBeforeLaunch, TotalIsAudience,
           Unlaunched, Launched
  <1>. QED BY <1>1, SerialInvariant, PTL

\* One session at a time, every change of the status is a move of the
\* TRANSITIONS table.
THEOREM LegalMovesHold ==
    ASSUME MaxOpen = 1, ~BrokerMayFail
    PROVE  Spec => LegalMoves
  <1>1. TypeOK /\ BatchInv /\ SerialInv /\ [Next]_vars => Move
    <2>1. CASE UNCHANGED vars
      BY <2>1 DEF vars, Move
    <2>. QED BY <2>1, SerialOperator, SerialWorker, SerialOther DEF Next
  <1>2. Spec => [][Move]_vars
    BY <1>1, SerialInvariant, PTL DEF Spec
  <1>. QED BY <1>2 DEF LegalMoves, Move

=============================================================================
