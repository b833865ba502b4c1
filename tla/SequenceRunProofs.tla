-------------------------- MODULE SequenceRunProofs --------------------------
(***************************************************************************)
(* Proofs about SequenceRun, for any sequence the validation accepts, any  *)
(* number of workers, of messages and of follow-ups.                       *)
(***************************************************************************)
EXTENDS SequenceRun, FiniteSetTheorems, TLAPS

-----------------------------------------------------------------------------
(* What running a step comes to *)

LEMMA Sizes == N \in Nat /\ MaxMessages \in Nat /\ MaxFollowUps \in Nat
  BY SequenceAssumption DEF N, ValidSequence

LEMMA StepTyped == ASSUME NEW i \in 1..N PROVE Steps[i] \in StepType
  BY Sizes, SequenceAssumption DEF N, ValidSequence

\* Branches lead forward: running step i runs no step before it.
LEMMA RunsForward == ASSUME NEW i \in 1..N + 1 PROVE RunWith(i) \subseteq i..N + 1
  <1>1. i..N + 1 \in SUBSET (1..N + 1) /\ i \in i..N + 1
    BY Sizes
  <1>2. Closed(i..N + 1)
    <2>. SUFFICES ASSUME NEW j \in i..N + 1, TypeOf(j) = "condition",
                         NEW k \in Branches(j) \ {0}
                  PROVE  k \in i..N + 1
      BY DEF Closed
    <2>1. j \in 1..N /\ Steps[j].type = "condition"
      BY Sizes DEF TypeOf
    <2>2. k \in 0..N /\ k > j
      BY <2>1, StepTyped, SequenceAssumption DEF StepType, Branches, ValidSequence
    <2>. QED BY <2>1, <2>2, Sizes
  <1>. QED BY <1>1, <1>2 DEF RunWith

\* The outcomes of running step i.
OutcomesFrom(i) ==
    {o \in [status : {"queued", "failed", "completed"}, step : i..N + 1,
            msg : {0} \union (i..N), fup : {0} \union (i + 1..N + 1), late : BOOLEAN] :
       o.fup # 0 => o.fup > o.msg}

\* What a step sends is a step from it on, and what it leaves to a follow-up
\* comes after both.
LEMMA Forward ==
    ASSUME NEW i \in 1..N + 1
    PROVE  Executed[i] \subseteq OutcomesFrom(i)
  <1>. SUFFICES ASSUME NEW j \in RunWith(i), NEW o \in Outcomes(j)
                PROVE  o \in OutcomesFrom(i)
    BY DEF Executed
  <1>1. j \in i..N + 1 /\ j \in Nat /\ i \in Nat
    BY RunsForward, Sizes
  <1>2. TypeOf(j) # "none" => j \in i..N
    <2>1. j \in 1..N => Steps[j] \in StepType
      BY StepTyped
    <2>. QED BY <1>1, Sizes DEF TypeOf
  <1>3. TypeOf(j + 1) # "none" => j + 1 \in i..N
    BY <1>1, Sizes DEF TypeOf
  <1>4. Completed(j) \in OutcomesFrom(i) /\ Unsendable(j) \in OutcomesFrom(i)
    BY <1>1, Sizes DEF Completed, Unsendable, Outcome, OutcomesFrom
  <1>5. TypeOf(j) = "send" => Sends(j) \in OutcomesFrom(i)
    BY <1>1, <1>2, <1>3, Sizes DEF Sends, Outcome, OutcomesFrom
  <1>6. TypeOf(j) = "wait" => Outcome("queued", j, 0, j + 1, TRUE) \in OutcomesFrom(i)
    BY <1>1, <1>2, Sizes DEF Outcome, OutcomesFrom
  <1>. QED BY <1>4, <1>5, <1>6 DEF Outcomes

-----------------------------------------------------------------------------
(* Types *)

\* A row that is changed leaves a sequence of rows.
LEMMA RowChanged ==
    ASSUME NEW T, NEW rows \in Seq(T), NEW new \in [DOMAIN rows -> T]
    PROVE  new \in Seq(T) /\ Len(new) = Len(rows) /\ DOMAIN new = DOMAIN rows
  OBVIOUS

LEMMA RowsTyped ==
    ASSUME TypeOK
    PROVE  /\ \A f \in DOMAIN fups : fups[f] \in FollowUpType
           /\ \A m \in DOMAIN msgs : msgs[m] \in MessageType
  <1>1. \A f \in 1..Len(fups) : fups[f] \in FollowUpType
    BY DEF TypeOK
  <1>2. \A m \in 1..Len(msgs) : msgs[m] \in MessageType
    BY DEF TypeOK
  <1>. QED BY <1>1, <1>2 DEF TypeOK

LEMMA CancelledTyped ==
    ASSUME TypeOK, NEW S
    PROVE  /\ Cancelled(S) \in Seq(FollowUpType)
           /\ Len(Cancelled(S)) = Len(fups) /\ DOMAIN Cancelled(S) = DOMAIN fups
  <1>1. Cancelled(S) \in [DOMAIN fups -> FollowUpType]
    BY RowsTyped DEF Cancelled, FollowUpType
  <1>. QED BY <1>1, RowChanged DEF TypeOK

\* The rows that an outcome adds.
LEMMA AddTyped ==
    ASSUME TypeOK, NEW i \in 1..N + 1, NEW o \in OutcomesFrom(i), WithinBounds(o),
           NEW rows \in Seq(FollowUpType), Len(rows) = Len(fups),
           AddMessage(o), fups' = AddFollowUp(rows, o)
    PROVE  /\ fups' \in Seq(FollowUpType) /\ Len(fups') <= MaxFollowUps
           /\ msgs' \in Seq(MessageType) /\ Len(msgs') <= MaxMessages
  <1>1. o.msg # 0 => [step |-> o.msg, status |-> "queued", out |-> FALSE, alone |-> FALSE]
                      \in MessageType
    BY Sizes DEF OutcomesFrom, MessageType
  <1>2. o.fup # 0 => [step |-> o.fup, status |-> "pending", due |-> ~o.late] \in FollowUpType
    BY Sizes DEF OutcomesFrom, FollowUpType
  <1>3. msgs' \in Seq(MessageType) /\ Len(msgs') <= MaxMessages
    BY <1>1, Sizes DEF TypeOK, AddMessage, WithinBounds
  <1>4. fups' \in Seq(FollowUpType) /\ Len(fups') <= MaxFollowUps
    BY <1>2, Sizes DEF TypeOK, AddFollowUp, WithinBounds
  <1>. QED BY <1>3, <1>4

LEMMA OutboxTyped ==
    ASSUME TypeOK, NEW w \in Workers, NEW i \in 1..N + 1, NEW o \in OutcomesFrom(i),
           WithinBounds(o), Outbox(w, o)
    PROVE  wk' \in [Workers -> WorkerType]
  <1>1. Idle \in WorkerType
    BY Sizes DEF Idle, WorkerType, ContactType, FirstContact
  <1>2. o.msg # 0 => [Idle EXCEPT !.pc = "flush", !.m = Len(msgs) + 1] \in WorkerType
    <2>. SUFFICES ASSUME o.msg # 0 PROVE Len(msgs) + 1 \in 0..MaxMessages
      BY <1>1 DEF WorkerType
    <2>. QED BY Sizes DEF WithinBounds, TypeOK
  <1>. QED BY <1>1, <1>2 DEF Outbox, Update, TypeOK

\* A worker's follow-up is one of the contact's rows.
Refs == \A w \in Workers : wk[w].pc \in {"claim", "load", "commit"} => wk[w].f \in DOMAIN fups

LEMMA TypeKept == TypeOK /\ Refs /\ [Next]_vars => TypeOK'
  <1>. SUFFICES ASSUME TypeOK, Refs, [Next]_vars PROVE TypeOK'
    OBVIOUS
  <1>i. Idle \in WorkerType
    BY Sizes DEF Idle, WorkerType, ContactType, FirstContact
  <1>. USE DEF TypeOK
  <1>w. ASSUME NEW w \in Workers, NEW run \in WorkerType, Update(w, run)
        PROVE  wk' \in [Workers -> WorkerType]
    BY <1>w DEF Update
  <1>1. ASSUME NEW w \in Workers, BatchRead(w) \/ BatchFinds(w) \/ Flushed(w) \/ Crash(w)
        PROVE  TypeOK'
    <2>1. [Idle EXCEPT !.pc = "batch"] \in WorkerType /\ [Idle EXCEPT !.pc = "complete"] \in WorkerType
      BY <1>i DEF WorkerType
    <2>2. \E run \in WorkerType : Update(w, run)
      BY <1>1, <2>1, <1>i DEF BatchRead, BatchFinds, Flushed, Crash
    <2>. QED BY <1>1, <2>2, <1>w DEF BatchRead, BatchFinds, Flushed, Crash
  <1>2. ASSUME NEW w \in Workers, BatchCommit(w) PROVE TypeOK'
    <2>1. CASE /\ cc' = [cc EXCEPT !.status = IF opted THEN "opted_out" ELSE "failed"]
               /\ Update(w, Idle) /\ UNCHANGED <<fups, msgs>>
      <3>1. cc' \in ContactType
        BY <2>1 DEF ContactType
      <3>. QED BY <1>2, <2>1, <3>1, <1>w, <1>i DEF BatchCommit
    <2>2. CASE \E o \in Executed[cc.step] :
                 /\ WithinBounds(o)
                 /\ cc' = [status |-> StatusAfter(o, cc), step |-> o.step]
                 /\ AddMessage(o) /\ fups' = AddFollowUp(fups, o) /\ Outbox(w, o)
      <3>1. PICK o \in Executed[cc.step] :
              /\ WithinBounds(o)
              /\ cc' = [status |-> StatusAfter(o, cc), step |-> o.step]
              /\ AddMessage(o) /\ fups' = AddFollowUp(fups, o) /\ Outbox(w, o)
        BY <2>2
      <3>2. cc.step \in 1..N + 1 /\ o \in OutcomesFrom(cc.step)
        BY <3>1, Forward DEF ContactType
      <3>3. cc' \in ContactType
        BY <3>1, <3>2, Sizes DEF ContactType, OutcomesFrom, StatusAfter
      <3>4. wk' \in [Workers -> WorkerType]
        BY <3>1, <3>2, OutboxTyped
      <3>. QED BY <1>2, <3>1, <3>2, <3>3, <3>4, AddTyped DEF BatchCommit
    <2>. QED BY <1>2, <2>1, <2>2 DEF BatchCommit
  <1>3. ASSUME NEW w \in Workers, CommitComplete(w) PROVE TypeOK'
    BY <1>3, <1>w, <1>i DEF CommitComplete
  <1>4. ASSUME NEW w \in Workers, FlushRefused(w) PROVE TypeOK'
    <2>1. [wk[w] EXCEPT !.pc = "rollback", !.undo = cc.status = "queued", !.cc = cc]
            \in WorkerType
      BY DEF WorkerType
    <2>. QED BY <1>4, <2>1, <1>w DEF FlushRefused
  <1>5. ASSUME NEW w \in Workers, FlushRollback(w) PROVE TypeOK'
    <2>1. [msgs EXCEPT ![wk[w].m].status = "deleted"] \in [DOMAIN msgs -> MessageType]
      BY RowsTyped DEF MessageType
    <2>2. msgs' \in Seq(MessageType) /\ Len(msgs') <= MaxMessages
      BY <1>5, <2>1, RowChanged DEF FlushRollback
    <2>3. wk[w].cc.step \in 1..N + 1 /\ cc.step \in 1..N + 1
      BY DEF WorkerType, ContactType
    <2>4. cc' \in ContactType
      BY <1>5, <2>3, Sizes DEF FlushRollback, ContactType
    <2>5. fups' \in Seq(FollowUpType) /\ Len(fups') <= MaxFollowUps
      BY <1>5, CancelledTyped DEF FlushRollback
    <2>6. wk' \in [Workers -> WorkerType]
      BY <1>5, <1>w, <1>i DEF FlushRollback
    <2>. QED BY <1>5, <2>2, <2>4, <2>5, <2>6 DEF FlushRollback
  <1>6. ASSUME NEW w \in Workers, NEW f \in DOMAIN fups, FollowUpDue(w, f) \/ SendNow(w, f)
        PROVE  TypeOK'
    <2>1. f \in 0..MaxFollowUps
      BY Sizes
    <2>2. [Idle EXCEPT !.pc = "claim", !.f = f] \in WorkerType
      BY <1>i, <2>1 DEF WorkerType
    <2>. QED BY <1>6, <2>2, <1>w DEF FollowUpDue, SendNow
  <1>7. ASSUME NEW w \in Workers, Claim(w) PROVE TypeOK'
    <2>1. [fups EXCEPT ![wk[w].f].status = "sending"] \in [DOMAIN fups -> FollowUpType]
      BY RowsTyped DEF FollowUpType
    <2>2. fups' = fups \/ fups' = [fups EXCEPT ![wk[w].f].status = "sending"]
      BY <1>7 DEF Claim
    <2>3. fups' \in Seq(FollowUpType) /\ Len(fups') <= MaxFollowUps
      BY <2>1, <2>2, RowChanged
    <2>4. [wk[w] EXCEPT !.pc = "load"] \in WorkerType
      BY DEF WorkerType
    <2>. QED BY <1>7, <2>3, <2>4, <1>w, <1>i DEF Claim
  <1>8. ASSUME NEW w \in Workers, Load(w) PROVE TypeOK'
    <2>1. ASSUME NEW b \in {"sent", "failed", "pending", "cancelled"}
          PROVE  [wk[w] EXCEPT !.pc = "commit", !.cc = cc, !.become = b] \in WorkerType
      BY DEF WorkerType
    <2>2. (CASE opted -> "failed" [] camp = "paused" -> "pending"
             [] camp = "running" -> "sent" [] OTHER -> "cancelled")
            \in {"sent", "failed", "pending", "cancelled"}
      OBVIOUS
    <2>. QED BY <1>8, <2>1, <2>2, <1>w, <1>i DEF Load
  <1>9. ASSUME NEW w \in Workers, CommitOther(w) PROVE TypeOK'
    <2>1. [fups EXCEPT ![wk[w].f].status = wk[w].become] \in [DOMAIN fups -> FollowUpType]
      BY RowsTyped DEF FollowUpType, WorkerType
    <2>2. fups' \in Seq(FollowUpType) /\ Len(fups') <= MaxFollowUps
      BY <1>9, <2>1, RowChanged DEF CommitOther
    <2>. QED BY <1>9, <2>2, <1>w, <1>i DEF CommitOther
  <1>10. ASSUME NEW w \in Workers, CommitStep(w) PROVE TypeOK'
    <2>1. wk[w].f \in DOMAIN fups /\ fups[wk[w].f].step \in 1..N + 1
      BY <1>10, RowsTyped DEF CommitStep, Refs, FollowUpType
    <2>2. PICK o \in Executed[fups[wk[w].f].step] :
            /\ WithinBounds(o)
            /\ LET loaded == wk[w].cc
                   status == StatusAfter(o, loaded)
               IN cc' = [status |-> IF status # loaded.status THEN status ELSE cc.status,
                         step   |-> IF o.step # loaded.step THEN o.step ELSE cc.step]
            /\ AddMessage(o)
            /\ fups' = AddFollowUp([fups EXCEPT ![wk[w].f].status = "sent"], o)
            /\ Outbox(w, o)
      BY <1>10 DEF CommitStep
    <2>3. o \in OutcomesFrom(fups[wk[w].f].step)
      BY <2>1, <2>2, Forward
    <2>4. StatusAfter(o, wk[w].cc) \in {"queued", "failed", "completed", wk[w].cc.status}
      BY <2>3 DEF StatusAfter, OutcomesFrom
    <2>5. o.step \in 1..N + 1
      BY <2>1, <2>3, Sizes DEF OutcomesFrom
    <2>6. cc' \in ContactType
      BY <2>2, <2>4, <2>5 DEF ContactType, WorkerType
    <2>7. wk' \in [Workers -> WorkerType]
      BY <2>1, <2>2, <2>3, OutboxTyped
    <2>8. [fups EXCEPT ![wk[w].f].status = "sent"] \in [DOMAIN fups -> FollowUpType]
      BY RowsTyped DEF FollowUpType
    <2>9. [fups EXCEPT ![wk[w].f].status = "sent"] \in Seq(FollowUpType)
          /\ Len([fups EXCEPT ![wk[w].f].status = "sent"]) = Len(fups)
      BY <2>8, RowChanged
    <2>. QED BY <1>10, <2>1, <2>2, <2>3, <2>6, <2>7, <2>9, AddTyped DEF CommitStep
  <1>11. ASSUME NEW m \in DOMAIN msgs, SendMessage(m) \/ Receipt(m) \/ Reported(m)
         PROVE  TypeOK'
    <2>1. ASSUME NEW s \in {"cancelled", "failed", "delivered"}
          PROVE  /\ [msgs EXCEPT ![m].status = s] \in [DOMAIN msgs -> MessageType]
                 /\ \A b \in BOOLEAN : [msgs EXCEPT ![m].status = s, ![m].alone = b]
                                          \in [DOMAIN msgs -> MessageType]
      BY RowsTyped DEF MessageType
    <2>2. [msgs EXCEPT ![m].status = "sent", ![m].out = TRUE] \in [DOMAIN msgs -> MessageType]
      BY RowsTyped DEF MessageType
    <2>3. msgs' \in [DOMAIN msgs -> MessageType]
      BY <1>11, <2>1, <2>2 DEF SendMessage, Receipt, Reported
    <2>4. msgs' \in Seq(MessageType) /\ Len(msgs') <= MaxMessages
      BY <2>3, RowChanged
    <2>5. cc' \in ContactType
      BY <1>11 DEF SendMessage, Receipt, Reported, ContactType
    <2>6. fups' \in Seq(FollowUpType) /\ Len(fups') <= MaxFollowUps
      BY <1>11, CancelledTyped DEF SendMessage, Receipt, Reported
    <2>. QED BY <1>11, <2>4, <2>5, <2>6 DEF SendMessage, Receipt, Reported
  <1>12. ASSUME NEW out \in BOOLEAN, Reply(out) PROVE TypeOK'
    <2>1. cc' \in ContactType
      BY <1>12 DEF Reply, StopSequence, ContactType
    <2>. QED BY <1>12, <2>1, CancelledTyped DEF Reply, StopSequence
  <1>13. ASSUME NEW f \in DOMAIN fups, SkipRead(f) PROVE TypeOK'
    BY <1>13, Sizes DEF SkipRead
  <1>14. ASSUME NEW f \in DOMAIN fups, Tick(f) PROVE TypeOK'
    <2>1. [fups EXCEPT ![f].due = TRUE] \in [DOMAIN fups -> FollowUpType]
      BY RowsTyped DEF FollowUpType
    <2>. QED BY <1>14, <2>1, RowChanged DEF Tick
  <1>15. CASE SkipCommit
    <2>1. [fups EXCEPT ![skip].status = "skipped"] \in [DOMAIN fups -> FollowUpType]
      BY RowsTyped DEF FollowUpType
    <2>2. cc' \in ContactType
      BY <1>15 DEF SkipCommit, ContactType
    <2>. QED BY <1>15, <2>1, <2>2, Sizes, RowChanged DEF SkipCommit
  <1>16. CASE PauseResume
    BY <1>16 DEF PauseResume
  <1>17. CASE Stop
    <2>1. [m \in DOMAIN msgs |-> IF msgs[m].status = "queued"
             THEN [msgs[m] EXCEPT !.status = "cancelled"] ELSE msgs[m]]
            \in [DOMAIN msgs -> MessageType]
      BY RowsTyped DEF MessageType
    <2>2. msgs' \in Seq(MessageType) /\ Len(msgs') <= MaxMessages
      BY <1>17, <2>1, RowChanged DEF Stop
    <2>3. cc' \in ContactType
      BY <1>17 DEF Stop, ContactType
    <2>. QED BY <1>17, <2>2, <2>3, CancelledTyped DEF Stop
  <1>18. CASE UNCHANGED vars
    BY <1>18 DEF vars
  <1>19. ASSUME NEW w \in Workers, StepRaises(w) PROVE TypeOK'
    <2>1. [fups EXCEPT ![wk[w].f].status = "failed"] \in [DOMAIN fups -> FollowUpType]
      BY RowsTyped DEF FollowUpType
    <2>2. cc' \in ContactType
      BY <1>19 DEF StepRaises, RunWith, ContactType
    <2>. QED BY <1>19, <2>1, <2>2, <1>w, <1>i, RowChanged DEF StepRaises
  <1>20. CASE OptOut
    BY <1>20, Zenon DEF OptOut
  <1>. QED
    BY <1>1, <1>2, <1>3, <1>4, <1>5, <1>6, <1>7, <1>8, <1>9, <1>10, <1>11, <1>12, <1>13,
       <1>14, <1>15, <1>16, <1>17, <1>18, <1>19, <1>20 DEF Next, WorkerStep


\* No row of a follow-up ever goes away.
LEMMA RowsStay ==
    ASSUME TypeOK, Refs, Next
    PROVE  DOMAIN fups \subseteq DOMAIN fups'
  <1>1. ASSUME NEW rows \in Seq(FollowUpType), NEW o, DOMAIN fups = DOMAIN rows,
               fups' = AddFollowUp(rows, o)
        PROVE  DOMAIN fups \subseteq DOMAIN fups'
    BY <1>1 DEF AddFollowUp
  <1>2. ASSUME NEW w \in Workers, BatchCommit(w) PROVE DOMAIN fups \subseteq DOMAIN fups'
    BY <1>1, <1>2 DEF BatchCommit, TypeOK
  <1>3. ASSUME NEW w \in Workers, CommitStep(w) PROVE DOMAIN fups \subseteq DOMAIN fups'
    <2>1. [fups EXCEPT ![wk[w].f].status = "sent"] \in [DOMAIN fups -> FollowUpType]
      BY RowsTyped DEF TypeOK, FollowUpType
    <2>. QED BY <1>1, <1>3, <2>1, RowChanged DEF CommitStep, TypeOK
  <1>. QED
    BY <1>2, <1>3, RowsTyped
    DEF Next, WorkerStep, BatchRead, BatchFinds, CommitComplete, Flushed, FlushRefused,
        FlushRollback, FollowUpDue, SendNow, Claim, Load, CommitOther, StepRaises, Crash,
        SendMessage, Receipt, Reported, Reply, StopSequence, OptOut, SkipRead, SkipCommit, PauseResume, Stop, Tick, Cancelled

LEMMA RefsKept == TypeOK /\ Refs /\ [Next]_vars => Refs'
  <1>. SUFFICES ASSUME TypeOK, Refs, [Next]_vars PROVE Refs'
    OBVIOUS
  <1>1. CASE UNCHANGED vars
    BY <1>1 DEF vars, Refs
  <1>2. CASE Next
    <2>1. DOMAIN fups \subseteq DOMAIN fups'
      BY <1>2, RowsStay
    <2>2. ASSUME NEW v \in Workers, NEW run, Update(v, run), run.pc \notin {"claim", "load", "commit"}
          PROVE  Refs'
      BY <2>1, <2>2 DEF Update, Refs, TypeOK
    <2>3. ASSUME NEW v \in Workers, NEW run, Update(v, run), wk[v].pc \in {"claim", "load", "commit"},
                 run.f = wk[v].f
          PROVE  Refs'
      BY <2>1, <2>3 DEF Update, Refs, TypeOK
    <2>4. ASSUME NEW v \in Workers,
                 BatchRead(v) \/ BatchFinds(v) \/ CommitComplete(v) \/ Flushed(v)
                 \/ FlushRollback(v) \/ CommitOther(v) \/ StepRaises(v) \/ Crash(v)
          PROVE  Refs'
      BY <2>2, <2>4 DEF BatchRead, BatchFinds, CommitComplete, Flushed, FlushRollback,
                        CommitOther, StepRaises, Crash, Idle
    <2>5. ASSUME NEW v \in Workers, BatchCommit(v) \/ CommitStep(v) PROVE Refs'
      BY <2>2, <2>5 DEF BatchCommit, CommitStep, Outbox, Idle
    <2>6. ASSUME NEW v \in Workers, FlushRefused(v) PROVE Refs'
      <3>1. [wk[v] EXCEPT !.pc = "rollback", !.undo = cc.status = "queued", !.cc = cc].pc = "rollback"
        BY DEF TypeOK, WorkerType
      <3>. QED BY <2>2, <2>6, <3>1 DEF FlushRefused
    <2>7. ASSUME NEW v \in Workers, Claim(v) \/ Load(v) PROVE Refs'
      <3>1. CASE Update(v, Idle)
        BY <2>2, <3>1 DEF Idle
      <3>2. CASE ~Update(v, Idle)
        BY <2>3, <2>7, <3>2 DEF Claim, Load, TypeOK, WorkerType
      <3>. QED BY <3>1, <3>2
    <2>8. ASSUME NEW v \in Workers, NEW f \in DOMAIN fups, FollowUpDue(v, f) \/ SendNow(v, f)
          PROVE  Refs'
      BY <2>1, <2>8 DEF FollowUpDue, SendNow, Update, Refs, TypeOK, Idle
    <2>9. CASE UNCHANGED wk
      BY <2>1, <2>9 DEF Refs
    <2>. QED
      BY <1>2, <2>4, <2>5, <2>6, <2>7, <2>8, <2>9
      DEF Next, WorkerStep, SendMessage, Receipt, Reported, Reply, OptOut, SkipRead,
          SkipCommit, PauseResume, Stop, Tick
  <1>. QED BY <1>1, <1>2

LEMMA InitTyped == Init => TypeOK /\ Refs
  <1>1. Idle \in WorkerType /\ FirstContact \in ContactType
    BY Sizes DEF Idle, WorkerType, ContactType, FirstContact
  <1>2. Init => TypeOK
    <2>. SUFFICES ASSUME Init PROVE TypeOK
      OBVIOUS
    <2>1. wk \in [Workers -> WorkerType] /\ cc \in ContactType
      BY <1>1 DEF Init
    <2>2. fups \in Seq(FollowUpType) /\ Len(fups) <= MaxFollowUps
      <3>1. fups = <<>>
        BY DEF Init
      <3>. QED BY <3>1, Sizes
    <2>3. msgs \in Seq(MessageType) /\ Len(msgs) <= MaxMessages
      <3>1. msgs = <<>>
        BY DEF Init
      <3>. QED BY <3>1, Sizes
    <2>4. camp = "running" /\ skip \in 0..MaxFollowUps
      BY Sizes DEF Init
    <2>5. opted \in BOOLEAN
      BY Zenon DEF Init
    <2>. QED BY <2>1, <2>2, <2>3, <2>4, <2>5 DEF TypeOK
  <1>3. Init => Refs
    BY DEF Init, Refs, Idle
  <1>. QED BY <1>2, <1>3

\* Every reachable state has its type.
THEOREM TypeCorrect == Spec => []TypeOK
  <1>1. TypeOK /\ Refs /\ [Next]_vars => (TypeOK /\ Refs)'
    BY TypeKept, RefsKept
  <1>. QED BY InitTyped, <1>1, PTL DEF Spec

-----------------------------------------------------------------------------
(* One place in the sequence *)

\* The workers that hold a follow-up they have claimed, and the follow-ups
\* that are live or held.  A held one may have been cancelled or skipped, but
\* its holder can still run its step, or put it back to pending.
At(w) == wk[w].pc \in {"load", "commit"}
Held == {wk[w].f : w \in {v \in Workers : At(v)}}
Busy == Live \union Held

\* Until the batch has run the first step there is nothing else.
Untouched == cc.status = "pending" => DOMAIN fups = {} /\ DOMAIN msgs = {}
\* At most one follow-up is busy, in the hands of at most one worker, ...
OneBusy == \A f, g \in Busy : f = g
OneHolder == \A v, w \in Workers : At(v) /\ At(w) => v = w
HeldIsClaimed == \A w \in Workers : At(w) => fups[wk[w].f].status # "pending"
\* ... and it is ahead of every message, of which each is ahead of those before.
Ahead == \A f \in Busy, m \in DOMAIN msgs : msgs[m].step < fups[f].step
Ordered == \A m, n \in DOMAIN msgs : m < n => msgs[m].step < msgs[n].step
\* What a worker has loaded is not a contact that waits for the batch.
LoadedLate == \A w \in Workers : wk[w].pc = "commit" => wk[w].cc.status # "pending"
NoRollback == \A w \in Workers : wk[w].pc # "rollback"

PlaceInv ==
    /\ Untouched /\ OneBusy /\ OneHolder /\ HeldIsClaimed /\ Ahead /\ Ordered
    /\ LoadedLate /\ NoRollback

LEMMA BusyIsRow == TypeOK /\ Refs => Busy \subseteq DOMAIN fups
  BY DEF Refs, Busy, Held, At, Live

LEMMA PlaceIsKept == TypeOK /\ Refs /\ PlaceInv => KeepsPlace
  <1>. SUFFICES ASSUME TypeOK, Refs, PlaceInv PROVE KeepsPlace
    OBVIOUS
  <1>1. Cardinality(Live) \in {0, 1} /\ (Live = {} => Cardinality(Live) = 0)
    <2>1. CASE Live = {}
      BY <2>1, FS_EmptySet
    <2>2. CASE Live # {}
      <3>1. PICK f : f \in Live
        BY <2>2
      <3>2. Live = {f}
        BY <3>1 DEF PlaceInv, OneBusy, Busy
      <3>. QED BY <2>2, <3>2, FS_Singleton
    <2>. QED BY <2>1, <2>2
  <1>2. cc.status = "pending" => Live = {}
    BY DEF PlaceInv, Untouched, Live
  <1>3. OneThread
    BY <1>1, <1>2 DEF OneThread
  <1>4. StepsInOrder
    BY DEF StepsInOrder, PlaceInv, Ordered
  <1>. QED BY <1>3, <1>4 DEF KeepsPlace

\* A step keeps the place that adds no row, makes nothing live and takes no
\* follow-up into a worker's hands.
LEMMA QuietKeepsPlace ==
    ASSUME TypeOK, Refs, PlaceInv,
           DOMAIN fups' = DOMAIN fups, DOMAIN msgs' = DOMAIN msgs,
           \A f \in DOMAIN fups : fups'[f].step = fups[f].step,
           \A f \in DOMAIN fups : fups'[f].status \in {"pending", "sending"}
                                    => fups[f].status = fups'[f].status,
           \A m \in DOMAIN msgs : msgs'[m].step = msgs[m].step,
           cc'.status = "pending" => cc.status = "pending",
           \A w \in Workers : At(w)' => At(w) /\ wk'[w].f = wk[w].f,
           LoadedLate', NoRollback'
    PROVE  PlaceInv'
  <1>1. Live' \subseteq Live /\ Held' \subseteq Held
    BY DEF Live, Held
  <1>2. Untouched' /\ Ordered'
    BY DEF PlaceInv, Untouched, Ordered
  <1>3. Busy' \subseteq Busy /\ Busy \subseteq DOMAIN fups
    BY <1>1, BusyIsRow DEF Busy
  <1>4. OneBusy' /\ Ahead'
    BY <1>3 DEF PlaceInv, OneBusy, Ahead
  <1>5. OneHolder' /\ HeldIsClaimed'
    BY DEF PlaceInv, OneHolder, HeldIsClaimed, Refs, At
  <1>. QED BY <1>2, <1>4, <1>5 DEF PlaceInv

\* A step that is run while the contact has no other follow-up, live or held,
\* and no message from that step on.
LEMMA RunKeepsPlace ==
    ASSUME TypeOK, Refs, PlaceInv, NEW v \in Workers, NEW i \in 1..N + 1,
           NEW o \in OutcomesFrom(i), NEW rows \in Seq(FollowUpType),
           DOMAIN rows = DOMAIN fups,
           \A f \in DOMAIN rows : rows[f].status \notin {"pending", "sending"},
           \A m \in DOMAIN msgs : msgs[m].step < i,
           \A w \in Workers : At(w) => w = v,
           AddMessage(o), fups' = AddFollowUp(rows, o), Outbox(v, o),
           cc'.status # "pending"
    PROVE  PlaceInv'
  <1>1. \A w \in Workers : ~At(w)' /\ wk'[w].pc \notin {"commit", "rollback"}
    BY DEF Outbox, Update, Idle, At, TypeOK, PlaceInv, NoRollback
  <1>2. Held' = {}
    BY <1>1 DEF Held
  <1>3. \A m \in DOMAIN msgs' :
          \/ m \in DOMAIN msgs /\ msgs'[m] = msgs[m]
          \/ o.msg # 0 /\ m = Len(msgs) + 1 /\ msgs'[m].step = o.msg
    BY DEF AddMessage, TypeOK
  <1>4. \A f \in DOMAIN fups' :
          \/ f \in DOMAIN rows /\ fups'[f] = rows[f]
          \/ o.fup # 0 /\ f = Len(rows) + 1 /\ fups'[f].step = o.fup
    BY DEF AddFollowUp
  <1>5. \A f \in Live' : o.fup # 0 /\ f = Len(rows) + 1 /\ fups'[f].step = o.fup
    BY <1>4 DEF Live
  <1>6. Busy' = Live'
    BY <1>2 DEF Busy
  <1>7. OneBusy'
    BY <1>5, <1>6 DEF OneBusy
  <1>8. \A m \in DOMAIN msgs : msgs[m] \in MessageType /\ msgs[m].step \in Nat
    BY RowsTyped, Sizes DEF MessageType
  <1>9. Ahead'
    <2>. SUFFICES ASSUME NEW f \in Live', NEW m \in DOMAIN msgs' PROVE msgs'[m].step < fups'[f].step
      BY <1>6 DEF Ahead
    <2>1. o.fup \in i + 1..N + 1 /\ fups'[f].step = o.fup /\ o.fup > o.msg
      BY <1>5 DEF OutcomesFrom
    <2>. QED BY <2>1, <1>3, <1>8, Sizes
  <1>10. Ordered'
    <2>. SUFFICES ASSUME NEW m \in DOMAIN msgs', NEW n \in DOMAIN msgs', m < n
                  PROVE  msgs'[m].step < msgs'[n].step
      BY DEF Ordered
    <2>1. DOMAIN msgs = 1..Len(msgs) /\ Len(msgs) \in Nat
      BY DEF TypeOK
    <2>2. CASE n \in DOMAIN msgs
      BY <2>1, <2>2, <1>3 DEF PlaceInv, Ordered
    <2>3. CASE n \notin DOMAIN msgs
      <3>1. o.msg \in i..N /\ msgs'[n].step = o.msg /\ m \in DOMAIN msgs /\ msgs'[m] = msgs[m]
        BY <2>1, <2>3, <1>3 DEF OutcomesFrom
      <3>. QED BY <3>1, <1>8, Sizes
    <2>. QED BY <2>2, <2>3
  <1>11. Untouched' /\ OneHolder' /\ HeldIsClaimed' /\ LoadedLate' /\ NoRollback'
    BY <1>1 DEF Untouched, OneHolder, HeldIsClaimed, LoadedLate, NoRollback
  <1>. QED BY <1>7, <1>9, <1>10, <1>11 DEF PlaceInv

\* Without a refused message every step keeps the contact's place.
LEMMA PlaceKept ==
    ASSUME ~BrokerMayFail, TypeOK, Refs, PlaceInv, [Next]_vars
    PROVE  PlaceInv'
  <1>. USE DEF TypeOK
  <1>u. ASSUME NEW v \in Workers, NEW run, Update(v, run)
        PROVE  \A w \in Workers : wk'[w] = IF w = v THEN run ELSE wk[w]
    BY <1>u DEF Update
  <1>1. ASSUME NEW v \in Workers, NEW run, Update(v, run), UNCHANGED <<cc, fups, msgs>>,
               \/ run.pc \notin {"load", "commit", "rollback"}
               \/ At(v) /\ run.f = wk[v].f /\ run.pc = "commit" /\ run.cc.status # "pending"
        PROVE  PlaceInv'
    <2>1. \A w \in Workers : At(w)' => At(w) /\ wk'[w].f = wk[w].f
      BY <1>1, <1>u DEF At
    <2>2. LoadedLate' /\ NoRollback'
      BY <1>1, <1>u DEF PlaceInv, LoadedLate, NoRollback
    <2>. QED BY <1>1, <2>1, <2>2, QuietKeepsPlace
  <1>2. ASSUME NEW w \in Workers,
               BatchRead(w) \/ BatchFinds(w) \/ CommitComplete(w) \/ Flushed(w) \/ Crash(w)
        PROVE  PlaceInv'
    BY <1>1, <1>2 DEF BatchRead, BatchFinds, CommitComplete, Flushed, Crash, Idle
  <1>3. ASSUME NEW w \in Workers, FlushRefused(w) \/ FlushRollback(w) PROVE PlaceInv'
    BY <1>3 DEF FlushRefused, FlushRollback, PlaceInv, NoRollback
  <1>4. ASSUME NEW w \in Workers, NEW f \in DOMAIN fups, FollowUpDue(w, f) \/ SendNow(w, f)
        PROVE  PlaceInv'
    BY <1>1, <1>4 DEF FollowUpDue, SendNow, Idle
  <1>5. ASSUME NEW w \in Workers, BatchCommit(w) PROVE PlaceInv'
    <2>1. DOMAIN fups = {} /\ DOMAIN msgs = {} /\ Busy = {}
      <3>1. DOMAIN fups = {} /\ DOMAIN msgs = {}
        BY <1>5 DEF BatchCommit, PlaceInv, Untouched
      <3>. QED BY <3>1, BusyIsRow
    <2>2. CASE /\ cc' = [cc EXCEPT !.status = IF opted THEN "opted_out" ELSE "failed"]
               /\ Update(w, Idle) /\ UNCHANGED <<fups, msgs>>
      <3>1. cc'.status # "pending"
        BY <2>2 DEF ContactType
      <3>2. \A v \in Workers : At(v)' => At(v) /\ wk'[v].f = wk[v].f
        BY <2>2, <1>u DEF At, Idle
      <3>3. LoadedLate' /\ NoRollback'
        BY <2>2, <1>u DEF PlaceInv, LoadedLate, NoRollback, Idle
      <3>. QED BY <2>2, <3>1, <3>2, <3>3, QuietKeepsPlace
    <2>3. CASE \E o \in Executed[cc.step] :
                 /\ WithinBounds(o)
                 /\ cc' = [status |-> StatusAfter(o, cc), step |-> o.step]
                 /\ AddMessage(o) /\ fups' = AddFollowUp(fups, o) /\ Outbox(w, o)
      <3>1. PICK o \in Executed[cc.step] :
              /\ cc' = [status |-> StatusAfter(o, cc), step |-> o.step]
              /\ AddMessage(o) /\ fups' = AddFollowUp(fups, o) /\ Outbox(w, o)
        BY <2>3
      <3>2. cc.step \in 1..N + 1 /\ o \in OutcomesFrom(cc.step)
        BY <3>1, Forward DEF ContactType
      <3>3. cc'.status # "pending"
        BY <3>1, <3>2, <2>1 DEF StatusAfter, Scheduled, OutcomesFrom
      <3>4. \A v \in Workers : ~At(v)
        BY <2>1 DEF Busy, Held
      <3>. QED BY <3>1, <3>2, <3>3, <3>4, <2>1, RunKeepsPlace
    <2>. QED BY <1>5, <2>2, <2>3 DEF BatchCommit
  <1>6. ASSUME NEW w \in Workers, Claim(w) PROVE PlaceInv'
    <2>1. CASE wk[w].f \notin Pending
      BY <1>1, <1>6, <2>1 DEF Claim, Idle
    <2>2. CASE wk[w].f \in Pending
      <3>. DEFINE f == wk[w].f
      <3>1. /\ fups' = [fups EXCEPT ![f].status = "sending"]
            /\ Update(w, [wk[w] EXCEPT !.pc = "load"]) /\ UNCHANGED <<cc, msgs>>
        BY <1>6, <2>2 DEF Claim
      <3>2. f \in DOMAIN fups /\ f \in Live /\ fups[f].status = "pending"
        BY <2>2 DEF Pending, Live
      <3>3. \A v \in Workers : wk'[v] = IF v = w THEN [wk[w] EXCEPT !.pc = "load"] ELSE wk[v]
        BY <3>1, <1>u
      <3>4. \A v \in Workers : ~At(v)
        <4>. SUFFICES ASSUME NEW v \in Workers, At(v) PROVE FALSE
          OBVIOUS
        <4>1. wk[v].f = f
          BY <3>2 DEF PlaceInv, OneBusy, Busy, Held
        <4>. QED BY <3>2, <4>1 DEF PlaceInv, HeldIsClaimed
      <3>5. At(w)' /\ wk'[w].f = f /\ wk'[w].pc = "load" /\ \A v \in Workers : At(v)' => v = w
        BY <3>3, <3>4 DEF At, WorkerType
      <3>6. /\ DOMAIN fups' = DOMAIN fups /\ fups'[f].status = "sending"
            /\ \A g \in DOMAIN fups : /\ fups'[g].step = fups[g].step
                                      /\ g # f => fups'[g] = fups[g]
        BY <3>1, <3>2, RowsTyped DEF FollowUpType
      <3>7. Busy' \subseteq Busy
        <4>1. Live' \subseteq Live
          <5>. SUFFICES ASSUME NEW g \in Live' PROVE g \in Live
            OBVIOUS
          <5>1. g \in DOMAIN fups /\ fups'[g].status \in {"pending", "sending"}
            BY <3>6 DEF Live
          <5>2. g # f => fups'[g] = fups[g]
            BY <3>6, <5>1, Zenon
          <5>3. g # f => g \in Live
            BY <5>1, <5>2, Zenon DEF Live
          <5>. QED BY <3>2, <5>3
        <4>2. Held' \subseteq {f}
          BY <3>5 DEF Held
        <4>. QED BY <3>2, <4>1, <4>2 DEF Busy
      <3>8. Untouched' /\ Ordered' /\ OneHolder' /\ HeldIsClaimed'
        BY <3>1, <3>5, <3>6 DEF PlaceInv, Untouched, Ordered, OneHolder, HeldIsClaimed
      <3>9. OneBusy' /\ Ahead'
        BY <3>1, <3>6, <3>7, BusyIsRow DEF PlaceInv, OneBusy, Ahead
      <3>10. LoadedLate' /\ NoRollback'
        BY <3>3, <3>5 DEF PlaceInv, LoadedLate, NoRollback
      <3>. QED BY <3>8, <3>9, <3>10 DEF PlaceInv
    <2>. QED BY <2>1, <2>2
  <1>7. ASSUME NEW w \in Workers, Load(w) PROVE PlaceInv'
    <2>1. CASE Update(w, Idle)
      BY <1>1, <1>7, <2>1 DEF Load, Idle
    <2>2. CASE ~Update(w, Idle)
      <3>1. cc.status # "pending"
        BY <1>7 DEF Load, Refs, PlaceInv, Untouched
      <3>2. PICK b : Update(w, [wk[w] EXCEPT !.pc = "commit", !.cc = cc, !.become = b])
        BY <1>7, <2>2 DEF Load
      <3>3. LET run == [wk[w] EXCEPT !.pc = "commit", !.cc = cc, !.become = b]
            IN  run.pc = "commit" /\ run.f = wk[w].f /\ run.cc = cc
        BY DEF WorkerType
      <3>. QED BY <1>1, <1>7, <3>1, <3>2, <3>3 DEF Load, At
    <2>. QED BY <2>1, <2>2
  <1>8. ASSUME NEW w \in Workers, CommitOther(w) \/ StepRaises(w) PROVE PlaceInv'
    <2>. DEFINE f == wk[w].f
    <2>1. At(w) /\ f \in DOMAIN fups /\ f \in Busy
      BY <1>8 DEF CommitOther, StepRaises, At, Refs, Busy, Held
    <2>2. \A v \in Workers : wk'[v] = IF v = w THEN Idle ELSE wk[v]
      BY <1>8, <1>u DEF CommitOther, StepRaises
    <2>3. \A v \in Workers : ~At(v)'
      BY <2>1, <2>2 DEF At, Idle, PlaceInv, OneHolder
    <2>4. /\ DOMAIN fups' = DOMAIN fups
          /\ \A g \in DOMAIN fups : /\ fups'[g].step = fups[g].step
                                    /\ g # f => fups'[g] = fups[g]
      <3>1. \E s \in {"sent", "failed", "pending", "cancelled"} :
              fups' = [fups EXCEPT ![f].status = s]
        BY <1>8 DEF CommitOther, StepRaises, WorkerType
      <3>. QED BY <2>1, <3>1, RowsTyped DEF FollowUpType
    <2>5. Busy' \subseteq Busy
      <3>1. Live' \subseteq Live \union {f}
        <4>. SUFFICES ASSUME NEW g \in Live' PROVE g \in Live \union {f}
          OBVIOUS
        <4>1. g \in DOMAIN fups /\ fups'[g].status \in {"pending", "sending"}
          BY <2>4 DEF Live
        <4>2. g # f => fups'[g] = fups[g]
          BY <2>4, <4>1, Zenon
        <4>. QED BY <4>1, <4>2, Zenon DEF Live
      <3>2. Held' = {}
        BY <2>3 DEF Held
      <3>. QED BY <2>1, <3>1, <3>2 DEF Busy
    <2>6. UNCHANGED msgs /\ cc'.status = cc.status
      BY <1>8 DEF CommitOther, StepRaises, ContactType
    <2>7. Untouched' /\ Ordered' /\ OneHolder' /\ HeldIsClaimed'
      BY <2>3, <2>4, <2>6 DEF PlaceInv, Untouched, Ordered, OneHolder, HeldIsClaimed
    <2>8. OneBusy' /\ Ahead'
      BY <2>4, <2>5, <2>6, BusyIsRow DEF PlaceInv, OneBusy, Ahead
    <2>9. LoadedLate' /\ NoRollback'
      BY <2>2 DEF PlaceInv, LoadedLate, NoRollback, Idle
    <2>. QED BY <2>7, <2>8, <2>9 DEF PlaceInv
  <1>9. ASSUME NEW w \in Workers, CommitStep(w) PROVE PlaceInv'
    <2>. DEFINE f == wk[w].f
                rows == [fups EXCEPT ![f].status = "sent"]
    <2>1. At(w) /\ f \in DOMAIN fups /\ f \in Busy /\ fups[f].step \in 1..N + 1
      BY <1>9, RowsTyped DEF CommitStep, At, Refs, Busy, Held, FollowUpType
    <2>2. PICK o \in Executed[fups[f].step] :
            /\ WithinBounds(o)
            /\ LET loaded == wk[w].cc
                   status == StatusAfter(o, loaded)
               IN cc' = [status |-> IF status # loaded.status THEN status ELSE cc.status,
                         step   |-> IF o.step # loaded.step THEN o.step ELSE cc.step]
            /\ AddMessage(o)
            /\ fups' = AddFollowUp(rows, o)
            /\ Outbox(w, o)
      BY <1>9 DEF CommitStep
    <2>3. o \in OutcomesFrom(fups[f].step)
      BY <2>1, <2>2, Forward
    <2>4. rows \in [DOMAIN fups -> FollowUpType]
      BY RowsTyped DEF FollowUpType
    <2>5. rows \in Seq(FollowUpType) /\ DOMAIN rows = DOMAIN fups
      BY <2>4, RowChanged
    <2>6. \A g \in DOMAIN rows : rows[g].status \notin {"pending", "sending"}
      <3>. SUFFICES ASSUME NEW g \in DOMAIN fups, g # f
                    PROVE  fups[g].status \notin {"pending", "sending"}
        BY <2>1, <2>5, RowsTyped DEF FollowUpType
      <3>. QED BY <2>1 DEF PlaceInv, OneBusy, Busy, Live
    <2>7. \A m \in DOMAIN msgs : msgs[m].step < fups[f].step
      BY <2>1 DEF PlaceInv, Ahead
    <2>8. \A v \in Workers : At(v) => v = w
      BY <2>1 DEF PlaceInv, OneHolder
    <2>9. cc.status # "pending" /\ wk[w].cc.status # "pending"
      BY <1>9, <2>1 DEF CommitStep, PlaceInv, Untouched, LoadedLate
    <2>10. cc'.status # "pending"
      <3>1. StatusAfter(o, wk[w].cc) # "pending"
        BY <2>3, <2>9 DEF StatusAfter, OutcomesFrom
      <3>. QED BY <2>2, <2>9, <3>1
    <2>. HIDE DEF rows
    <2>. QED BY <2>1, <2>2, <2>3, <2>5, <2>6, <2>7, <2>8, <2>10, RunKeepsPlace
  <1>10. ASSUME UNCHANGED wk, DOMAIN fups' = DOMAIN fups, DOMAIN msgs' = DOMAIN msgs,
                \A f \in DOMAIN fups : /\ fups'[f].step = fups[f].step
                                       /\ \/ fups'[f].status = fups[f].status
                                          \/ fups'[f].status \notin {"pending", "sending"},
                \A m \in DOMAIN msgs : msgs'[m].step = msgs[m].step,
                cc'.status = "pending" => cc.status = "pending"
         PROVE  PlaceInv'
    <2>1. LoadedLate' /\ NoRollback' /\ \A w \in Workers : At(w)' => At(w) /\ wk'[w].f = wk[w].f
      BY <1>10 DEF PlaceInv, LoadedLate, NoRollback, At
    <2>. QED BY <1>10, <2>1, QuietKeepsPlace
  <1>11. ASSUME NEW S
         PROVE  \A f \in DOMAIN fups : /\ Cancelled(S)[f].step = fups[f].step
                                       /\ \/ Cancelled(S)[f].status = fups[f].status
                                          \/ Cancelled(S)[f].status = "cancelled"
    BY RowsTyped DEF Cancelled, FollowUpType
  <1>12. ASSUME NEW m \in DOMAIN msgs, SendMessage(m) \/ Receipt(m) \/ Reported(m)
         PROVE  PlaceInv'
    <2>1. UNCHANGED wk /\ (fups' = fups \/ fups' = Cancelled({"pending"}))
      BY <1>12 DEF SendMessage, Receipt, Reported
    <2>2. DOMAIN msgs' = DOMAIN msgs /\ \A n \in DOMAIN msgs : msgs'[n].step = msgs[n].step
      <3>1. CASE SendMessage(m)
        <4>1. CASE msgs' = [msgs EXCEPT ![m].status = "sent", ![m].out = TRUE]
          BY <4>1, RowsTyped DEF MessageType
        <4>2. CASE \E s : msgs' = [msgs EXCEPT ![m].status = s]
          BY <4>2, RowsTyped DEF MessageType
        <4>. QED BY <3>1, <4>1, <4>2 DEF SendMessage
      <3>2. CASE Receipt(m)
        <4>1. PICK s : msgs' = [msgs EXCEPT ![m].status = s, ![m].alone = FALSE]
          BY <3>2 DEF Receipt
        <4>. QED BY <4>1, RowsTyped DEF MessageType
      <3>3. CASE Reported(m)
        BY <3>3, RowsTyped DEF Reported, MessageType
      <3>. QED BY <1>12, <3>1, <3>2, <3>3
    <2>3. cc'.status = "pending" => cc.status = "pending"
      BY <1>12 DEF SendMessage, Receipt, Reported, ContactType
    <2>4. /\ DOMAIN fups' = DOMAIN fups
          /\ \A f \in DOMAIN fups : /\ fups'[f].step = fups[f].step
                                    /\ \/ fups'[f].status = fups[f].status
                                       \/ fups'[f].status = "cancelled"
      BY <2>1, <1>11, CancelledTyped
    <2>. QED BY <2>1, <2>2, <2>3, <2>4, <1>10
  <1>13. ASSUME NEW out \in BOOLEAN, Reply(out) PROVE PlaceInv'
    <2>1. cc'.status = "pending" => cc.status = "pending"
      BY <1>13 DEF Reply, StopSequence, ContactType
    <2>. QED BY <1>13, <2>1, <1>10, <1>11, CancelledTyped DEF Reply, StopSequence
  <1>14. ASSUME NEW f \in DOMAIN fups, SkipRead(f) PROVE PlaceInv'
    BY <1>14, <1>10 DEF SkipRead
  <1>15. ASSUME NEW f \in DOMAIN fups, Tick(f) PROVE PlaceInv'
    <2>1. /\ DOMAIN fups' = DOMAIN fups
          /\ \A g \in DOMAIN fups : fups'[g].step = fups[g].step /\ fups'[g].status = fups[g].status
      BY <1>15, RowsTyped DEF Tick, FollowUpType
    <2>. QED BY <1>15, <2>1, <1>10 DEF Tick
  <1>16. CASE SkipCommit
    <2>1. /\ DOMAIN fups' = DOMAIN fups
          /\ \A g \in DOMAIN fups : /\ fups'[g].step = fups[g].step
                                    /\ \/ fups'[g].status = fups[g].status
                                       \/ fups'[g].status = "skipped"
      BY <1>16, RowsTyped DEF SkipCommit, FollowUpType
    <2>2. cc'.status = "completed"
      BY <1>16 DEF SkipCommit, ContactType
    <2>. QED BY <1>16, <2>1, <2>2, <1>10 DEF SkipCommit
  <1>17. CASE PauseResume
    BY <1>17, <1>10 DEF PauseResume
  <1>18. CASE Stop
    <2>1. DOMAIN msgs' = DOMAIN msgs /\ \A m \in DOMAIN msgs : msgs'[m].step = msgs[m].step
      BY <1>18, RowsTyped DEF Stop, MessageType
    <2>2. cc'.status = "pending" => cc.status = "pending"
      BY <1>18 DEF Stop, ContactType
    <2>. QED BY <1>18, <2>1, <2>2, <1>10, <1>11, CancelledTyped DEF Stop
  <1>19. CASE UNCHANGED vars
    BY <1>19, <1>10 DEF vars
  <1>20. CASE OptOut
    BY <1>20, <1>10 DEF OptOut
  <1>. QED
    BY <1>2, <1>3, <1>4, <1>5, <1>6, <1>7, <1>8, <1>9, <1>12, <1>13, <1>14, <1>15, <1>16,
       <1>17, <1>18, <1>19, <1>20 DEF Next, WorkerStep

\* While the broker takes what it is given, a contact is at one place of its
\* sequence and goes through it once, whatever batches, sweeps, "send now",
\* receipts, replies, the operator and deaths of workers do in between.
THEOREM KeepsPlaceHolds == ASSUME ~BrokerMayFail PROVE Spec => []KeepsPlace
  <1>1. Init => PlaceInv
    BY DEF Init, PlaceInv, Untouched, OneBusy, OneHolder, HeldIsClaimed, Ahead, Ordered,
           LoadedLate, NoRollback, Busy, Live, Held, At, Idle
  <1>2. TypeOK /\ Refs /\ PlaceInv /\ [Next]_vars => (TypeOK /\ Refs /\ PlaceInv)'
    BY TypeKept, RefsKept, PlaceKept
  <1>3. TypeOK /\ Refs /\ PlaceInv => KeepsPlace
    BY PlaceIsKept
  <1>. QED BY InitTyped, <1>1, <1>2, <1>3, PTL DEF Spec

=============================================================================
