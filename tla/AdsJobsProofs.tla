----------------------------- MODULE AdsJobsProofs -----------------------------
(***************************************************************************)
(* Proofs about AdsJobs, for any number of contacts, jobs, sessions and    *)
(* workers and any limits.  That a contact gets one message rests on where *)
(* its assignment is once it has one; the limits, on there being one slice *)
(* at a time, which is all that is asked: jobs may be created twice.       *)
(***************************************************************************)
EXTENDS AdsJobs, FiniteSetTheorems, TLAPS

-----------------------------------------------------------------------------
(* Types *)

LEMMA IdleTypes ==
    /\ NoSlot \in Slots
    /\ IdleWorker \in WorkerType /\ IdleWorker.pc = "idle"
    /\ IdleSession \in SessionType
  <1>1. NoSlot \in Slots
    BY AdsAssumption DEF NoSlot
  <1>. QED BY <1>1 DEF IdleWorker, WorkerType, IdleSession, SessionType, CampStatus, CampaignTransitions

LEMMA JobTypes ==
    /\ NoJob \in JobType
    /\ \A st \in {"none", "queued", "running", "failed"}, due \in {"never", "later", "now"} :
         [st |-> st, due |-> due, attempts |-> 0] \in JobType
  BY AdsAssumption DEF NoJob, JobType

LEMMA LooksType ==
    ASSUME TypeOK, NEW s \in Sessions, Looks(s)
    PROVE  ses' \in [Sessions -> SessionType]
  <1>1. ses[s] \in SessionType /\ Target(s) \in {"later", "now"}
    BY DEF Target, TypeOK, SessionType
  <1>2. Active # {} => Found \in Slots
    BY DEF Found, Active
  <1>. DEFINE found == [ses[s] EXCEPT !.does = "wake", !.job = Found]
  <1>3. /\ [ses[s] EXCEPT !.does = "insert", !.due = Target(s)] \in SessionType
        /\ [ses[s] EXCEPT !.does = "leave"] \in SessionType
    BY <1>1 DEF SessionType
  <1>4. ASSUME Active # {}
        PROVE  /\ [found EXCEPT !.due = Target(s)] \in SessionType
               /\ [found EXCEPT !.due = "keep"] \in SessionType
    BY <1>1, <1>2, <1>4 DEF SessionType
  <1>. QED BY <1>1, <1>3, <1>4 DEF Looks, TypeOK

LEMMA SyncedType ==
    ASSUME TypeOK, NEW S \in SUBSET Assignments
    PROVE  Synced(S) \in [Assignments -> AsgStatus] /\ NewlySent(S) \subseteq Assignments
  BY DEF Synced, NewlySent, TypeOK, AsgStatus

LEMMA RefreshedType ==
    ASSUME NEW old \in JobType, NEW seen
    PROVE  Refreshed(old, seen) \in JobType /\ Refreshed(old, seen).st \in {"none", "queued"}
  <1>1. [old EXCEPT !.st = "queued", !.due = "never", !.attempts = 0] \in JobType
    <2>1. 0 \in 0..MaxRetries
      BY AdsAssumption
    <2>. QED BY <2>1 DEF JobType
  <1>2. [old EXCEPT !.st = "queued", !.due = "never", !.attempts = 0].st = "queued"
    BY DEF JobType
  <1>. HIDE DEF JobType
  <1>. QED BY <1>1, <1>2, JobTypes DEF Refreshed, NoJob

\* What a request or a sweep has read is a plan for its session.
LEMMA PlanTypes ==
    ASSUME TypeOK, NEW s \in Sessions,
           \/ Launch(s) \/ Pause(s) \/ Resume(s) \/ BulkResume(s) \/ DispatchNow(s) \/ RetryJob(s)
           \/ Close(s, "complete", "completed") \/ Close(s, "archive", "archived")
           \/ ReadDue(s) \/ ReadMissing(s) \/ Looks(s)
    PROVE  /\ ses' \in [Sessions -> SessionType]
           /\ UNCHANGED <<setup, camp, ahead, contacts, jobs, slices>>
  <1>1. StartTarget \in {"active", "scheduled"} /\ DueTarget \in {"later", "now"}
        /\ {"active", "scheduled", "paused", "completed", "archived"} \subseteq CampStatus
    BY DEF StartTarget, DueTarget, CampStatus, CampaignTransitions
  <1>2. ASSUME NEW does \in {"look", "write"}, NEW as \in {"launch", "retry", "other"},
               NEW to \in CampStatus \union {"same"}, NEW due \in {"keep", "later", "now"},
               Begins(s, Plan(does, as, to, due))
        PROVE  /\ ses' \in [Sessions -> SessionType]
               /\ UNCHANGED <<setup, camp, ahead, contacts, jobs, slices>>
    <2>1. Plan(does, as, to, due) \in SessionType
      BY IdleTypes DEF Plan, SessionType
    <2>. QED BY <1>2, <2>1 DEF Begins, TypeOK
  <1>3. CASE Launch(s)
    BY <1>1, <1>2, <1>3 DEF Launch
  <1>4. CASE Resume(s) \/ DispatchNow(s) \/ RetryJob(s)
    BY <1>1, <1>2, <1>4 DEF Resume, DispatchNow, RetryJob
  <1>5. CASE \/ Pause(s) \/ BulkResume(s)
             \/ Close(s, "complete", "completed") \/ Close(s, "archive", "archived")
    BY <1>1, <1>2, <1>5 DEF Pause, BulkResume, Close, Writes
  <1>6. CASE ReadDue(s) \/ ReadMissing(s)
    BY <1>1, <1>2, <1>6 DEF ReadDue, ReadMissing
  <1>7. CASE Looks(s)
    BY <1>7, LooksType DEF Looks
  <1>. QED BY <1>3, <1>4, <1>5, <1>6, <1>7

LEMMA RequestTypes ==
    ASSUME TypeOK, RequestStep \/ SweepStep \/ \E s \in Sessions : Looks(s)
    PROVE  TypeOK'
  <1>1. ASSUME NEW a \in Assignments, AddContact(a) \/ OptOut(a) PROVE TypeOK'
    BY <1>1 DEF AddContact, OptOut, TypeOK, AsgStatus, jobs, slices
  <1>2. ASSUME ses' \in [Sessions -> SessionType],
               UNCHANGED <<setup, camp, ahead, contacts, jobs, slices>>
        PROVE  TypeOK'
    BY <1>2 DEF TypeOK, contacts, jobs, slices
  <1>. QED BY <1>1, <1>2, PlanTypes DEF RequestStep, SweepStep

\* A session that commits.
LEMMA CommitTypes ==
    ASSUME TypeOK, NEW s \in Sessions, Commits(s)
    PROVE  TypeOK'
  <1>. DEFINE plan == ses[s]
  <1>1. plan \in SessionType
    BY DEF TypeOK
  <1>2. camp' \in CampStatus
    BY <1>1 DEF Commits, TypeOK, SessionType
  <1>3. asg' \in [Assignments -> AsgStatus]
    BY DEF Commits, Assigned, TypeOK, AsgStatus
  <1>4. job' \in [Slots -> JobType] /\ last' \in Slots
    <2>1. CASE plan.does = "insert"
      <3>1. Insert(plan.due) /\ plan.due \in {"later", "now"}
        BY <1>1, <2>1 DEF Commits, SessionType
      <3>2. PICK j \in Free :
              /\ last' = j
              /\ job' = [k \in Slots |->
                           IF k = j THEN [st |-> "queued", due |-> plan.due, attempts |-> 0]
                           ELSE IF job[k].st = "failed" THEN NoJob ELSE job[k]]
        BY <3>1 DEF Insert
      <3>. QED BY <3>1, <3>2, JobTypes DEF Free, TypeOK
    <2>2. CASE plan.does = "wake"
      <3>1. /\ last' = last
            /\ job' = [k \in Slots |->
                         IF k = plan.job /\ job[k].st # "none"
                         THEN [job[k] EXCEPT !.due = IF plan.due = "keep" THEN @ ELSE plan.due,
                                             !.attempts = IF plan.as = "retry" THEN 0 ELSE @]
                         ELSE IF plan.as = "retry" /\ job[k].st = "failed" THEN NoJob ELSE job[k]]
        BY <2>2 DEF Commits, Wake
      <3>2. \A k \in Slots : [job[k] EXCEPT !.due = IF plan.due = "keep" THEN @ ELSE plan.due,
                                             !.attempts = IF plan.as = "retry" THEN 0 ELSE @] \in JobType
        <4>1. 0 \in 0..MaxRetries
          BY AdsAssumption
        <4>2. plan.due \in {"keep", "later", "now"}
          BY <1>1 DEF SessionType
        <4>. QED BY <4>1, <4>2 DEF TypeOK, JobType
      <3>. QED BY <3>1, <3>2, JobTypes DEF TypeOK
    <2>3. CASE plan.does \notin {"insert", "wake"}
      BY <2>3 DEF Commits, jobs, TypeOK
    <2>. QED BY <2>1, <2>2, <2>3
  <1>5. ses' \in [Sessions -> SessionType]
    BY IdleTypes DEF Commits, TypeOK
  <1>. QED BY <1>2, <1>3, <1>4, <1>5 DEF Commits, TypeOK, slices

\* The clock and the recovery of jobs whose worker is dead; sessions that die.
LEMMA JobTypesKept ==
    ASSUME TypeOK,
           \/ \E j \in Slots : RecoverStale(j) \/ JobDue(j)
           \/ \E s \in Sessions : SessionDies(s)
    PROVE  TypeOK'
  <1>1. ASSUME NEW j \in Slots, RecoverStale(j) \/ JobDue(j) PROVE TypeOK'
    <2>1. \/ job' = [job EXCEPT ![j] = [job[j] EXCEPT !.st = "queued", !.due = "now"]]
          \/ job' = [job EXCEPT ![j] = [job[j] EXCEPT !.due = "now"]]
      BY <1>1 DEF RecoverStale, JobDue, TypeOK, JobType
    <2>2. /\ [job[j] EXCEPT !.st = "queued", !.due = "now"] \in JobType
          /\ [job[j] EXCEPT !.due = "now"] \in JobType
      BY DEF TypeOK, JobType
    <2>3. job' \in [Slots -> JobType]
      BY <2>1, <2>2 DEF TypeOK
    <2>. QED BY <1>1, <2>3 DEF RecoverStale, JobDue, TypeOK, contacts, slices
  <1>2. ASSUME NEW s \in Sessions, SessionDies(s) PROVE TypeOK'
    BY <1>2, IdleTypes DEF SessionDies, TypeOK, contacts, jobs, slices
  <1>. QED BY <1>1, <1>2

\* Slices.
LEMMA SliceTypes ==
    ASSUME TypeOK, NEW w \in Workers,
           SliceStep(w) \/ SliceFails(w) \/ Crash(w) \/ \E j \in Slots : ClaimJob(w, j)
    PROVE  TypeOK'
  <1>. USE DEF TypeOK, contacts, jobs, slices
  <1>0. wk[w] \in WorkerType /\ wk[w].job \in Slots /\ wk[w].rows \subseteq Assignments
        /\ wk[w].seen \in CampStatus
        /\ {"active", "completed"} \subseteq CampStatus
    BY DEF WorkerType, CampStatus, CampaignTransitions
  <1>1. ASSUME NEW j \in Slots, ClaimJob(w, j) PROVE TypeOK'
    <2>1. [IdleWorker EXCEPT !.pc = "open", !.job = j] \in WorkerType
      BY IdleTypes DEF WorkerType
    <2>2. job' = [job EXCEPT ![j] = [job[j] EXCEPT !.st = "running"]]
      BY <1>1 DEF ClaimJob, JobType
    <2>3. [job[j] EXCEPT !.st = "running"] \in JobType
      BY DEF JobType
    <2>4. lapped' \in BOOLEAN
      <3>1. lapped' = IF \E v \in Workers \ {w} : wk[v].pc # "idle" THEN TRUE ELSE lapped
        BY <1>1 DEF ClaimJob
      <3>. QED BY <3>1
    <2>5. job' \in [Slots -> JobType]
      BY <2>2, <2>3
    <2>6. wk' \in [Workers -> WorkerType]
      <3>1. wk' = [wk EXCEPT ![w] = [IdleWorker EXCEPT !.pc = "open", !.job = j]]
        BY <1>1 DEF ClaimJob
      <3>. QED BY <2>1, <3>1
    <2>7. UNCHANGED <<setup, camp, ahead, contacts, last, ses>>
      BY <1>1 DEF ClaimJob
    <2>. QED BY <2>4, <2>5, <2>6, <2>7
  <1>2. CASE OpenSlice(w)
    <2>1. \E pc \in {"plan", "finish"} : wk' = [wk EXCEPT ![w] = [wk[w] EXCEPT !.seen = camp, !.pc = pc]]
      BY <1>2, <1>0 DEF OpenSlice, WorkerType
    <2>2. \A pc \in {"plan", "finish"} : [wk[w] EXCEPT !.seen = camp, !.pc = pc] \in WorkerType
      BY <1>0 DEF WorkerType
    <2>. QED BY <1>2, <2>1, <2>2 DEF OpenSlice
  <1>3. CASE PlanSlice(w)
    <2>1. CASE Exhausted
      <3>1. wk' = [wk EXCEPT ![w] = [wk[w] EXCEPT !.pc = "finish", !.seen = "completed"]]
        BY <1>3, <2>1, <1>0 DEF PlanSlice, WorkerType
      <3>2. [wk[w] EXCEPT !.pc = "finish", !.seen = "completed"] \in WorkerType
        BY <1>0 DEF WorkerType
      <3>. QED BY <1>3, <3>1, <3>2 DEF PlanSlice
    <2>2. CASE ~Exhausted
      <3>1. PICK rows \in SUBSET {a \in Assignments : asg[a] = "pending"} :
              wk' = [wk EXCEPT ![w].pc = "claim", ![w].rows = rows]
        BY <1>3, <2>2 DEF PlanSlice
      <3>2. wk' = [wk EXCEPT ![w] = [wk[w] EXCEPT !.pc = "claim", !.rows = rows]]
        BY <3>1, <1>0 DEF WorkerType
      <3>3. [wk[w] EXCEPT !.pc = "claim", !.rows = rows] \in WorkerType
        BY <1>0 DEF WorkerType
      <3>. QED BY <1>3, <3>2, <3>3 DEF PlanSlice
    <2>. QED BY <2>1, <2>2
  <1>4. CASE ClaimRows(w)
    <2>1. wk' = [wk EXCEPT ![w] = [wk[w] EXCEPT !.pc = "finish", !.seen = "active"]]
      BY <1>4, <1>0 DEF ClaimRows, WorkerType
    <2>2. [wk[w] EXCEPT !.pc = "finish", !.seen = "active"] \in WorkerType
      BY <1>0 DEF WorkerType
    <2>3. PICK sent \in SUBSET Claimable(w), skipped \in SUBSET Claimable(w) :
            /\ asg' = [a \in Assignments |->
                          IF a \in sent THEN "sending"
                          ELSE IF a \in skipped THEN "skipped"
                          ELSE IF a \in Claimable(w) THEN "later" ELSE asg[a]]
            /\ msg' = [a \in Assignments |-> IF a \in sent THEN "queued" ELSE msg[a]]
            /\ fresh' = fresh \union sent
            /\ sends' = [a \in Assignments |-> IF a \in sent THEN sends[a] + 1 ELSE sends[a]]
      BY <1>4 DEF ClaimRows
    <2>4. asg' \in [Assignments -> AsgStatus] /\ msg' \in [Assignments -> MsgStatus]
      BY <2>3 DEF AsgStatus, MsgStatus
    <2>5. fresh' \subseteq Assignments /\ sends' \in [Assignments -> Nat]
      BY <1>0, <2>3 DEF Claimable
    <2>. QED BY <1>0, <1>4, <2>1, <2>2, <2>4, <2>5 DEF ClaimRows
  <1>5. CASE FinishSlice(w)
    <2>1. \E old \in SUBSET Assignments : asg' = Synced(old) /\ heard' = heard \union NewlySent(old)
      BY <1>5 DEF FinishSlice
    <2>2. job' \in [Slots -> JobType]
      BY <1>0, <1>5, RefreshedType DEF FinishSlice
    <2>3. camp' \in CampStatus
      BY <1>0, <1>5 DEF FinishSlice
    <2>. QED BY <1>5, <2>1, <2>2, <2>3, SyncedType, IdleTypes DEF FinishSlice
  <1>6. CASE SliceFails(w)
    <2>. DEFINE j == wk[w].job
                n == job[j].attempts + 1
                old == job[j]
    <2>1. old \in JobType
      BY <1>0
    <2>2. /\ [st |-> "failed", due |-> old.due, attempts |-> MaxRetries] \in JobType
          /\ ~(n >= MaxRetries) => [st |-> "queued", due |-> "later", attempts |-> n] \in JobType
      BY <2>1, AdsAssumption DEF JobType
    <2>3. job' = [job EXCEPT ![j] =
                    IF n >= MaxRetries
                    THEN [st |-> "failed", due |-> old.due, attempts |-> MaxRetries]
                    ELSE [st |-> "queued", due |-> "later", attempts |-> n]]
      BY <1>6 DEF SliceFails
    <2>. HIDE DEF n, old
    <2>4. job' \in [Slots -> JobType]
      BY <2>2, <2>3
    <2>. QED BY <1>6, <2>4, IdleTypes DEF SliceFails
  <1>7. CASE Crash(w)
    BY <1>7, IdleTypes DEF Crash
  <1>. QED BY <1>1, <1>2, <1>3, <1>4, <1>5, <1>6, <1>7 DEF SliceStep

LEMMA TypeKept ==
    ASSUME TypeOK, [Next]_vars
    PROVE  TypeOK'
  <1>1. CASE \E a \in Assignments : MessageSettles(a) \/ AttemptDue(a)
    BY <1>1 DEF MessageSettles, AttemptDue, TypeOK, AsgStatus, MsgStatus, contacts, jobs, slices
  <1>2. CASE SyncDelivery
    BY <1>2, SyncedType DEF SyncDelivery, TypeOK, jobs, slices
  <1>3. CASE StartPasses \/ WindowPasses \/ UNCHANGED vars
    BY <1>3 DEF StartPasses, WindowPasses, vars, TypeOK, contacts, jobs, slices
  <1>4. CASE \E w \in Workers : \/ SliceStep(w) \/ SliceFails(w) \/ Crash(w)
                                \/ \E j \in Slots : ClaimJob(w, j)
    BY <1>4, SliceTypes
  <1>. QED
    BY <1>1, <1>2, <1>3, <1>4, RequestTypes, CommitTypes, JobTypesKept DEF Next

\* TypeOK is an invariant.
THEOREM TypeCorrect == Spec => []TypeOK
  <1>1. Init => TypeOK
    <2>1. "draft" \in CampStatus
      BY DEF CampStatus, CampaignTransitions
    <2>2. ASSUME Init PROVE wk \in [Workers -> WorkerType] /\ ses \in [Sessions -> SessionType]
      BY <2>2, IdleTypes DEF Init
    <2>3. ASSUME Init PROVE job \in [Slots -> JobType] /\ last \in Slots
      BY <2>3, IdleTypes, JobTypes DEF Init
    <2>4. ASSUME Init
          PROVE  /\ asg \in [Assignments -> AsgStatus] /\ msg \in [Assignments -> MsgStatus]
                 /\ sends \in [Assignments -> Nat]
      BY <2>4 DEF Init, AsgStatus, MsgStatus
    <2>5. ASSUME Init
          PROVE  /\ camp \in CampStatus /\ setup \in Setups /\ ahead \in BOOLEAN
                 /\ fresh \subseteq Assignments /\ heard \subseteq Assignments
                 /\ gone \subseteq Assignments /\ lapped \in BOOLEAN
      BY <2>1, <2>5 DEF Init
    <2>. QED BY <2>2, <2>3, <2>4, <2>5 DEF TypeOK
  <1>2. TypeOK /\ [Next]_vars => TypeOK'
    BY TypeKept
  <1>. QED BY <1>1, <1>2, PTL DEF Spec

-----------------------------------------------------------------------------
(* What a step does to the contacts *)

After == {"sending", "sent", "failed", "bounced"}

\* Only ClaimRows sends, and only to those that are pending; a receipt moves a
\* contact on, and one that was skipped stays.
LEMMA SyncMoves ==
    ASSUME TypeOK, NEW S
    PROVE  \A a \in Assignments :
             /\ asg[a] \in After => Synced(S)[a] \in After
             /\ asg[a] \notin After => Synced(S)[a] = asg[a]
             /\ Synced(S)[a] = "sending" => asg[a] = "sending"
             /\ Synced(S)[a] = "sent" => asg[a] \in {"sending", "sent"}
             /\ Synced(S)[a] = "bounced" => asg[a] \in {"sent", "bounced"}
  BY DEF Synced, TypeOK, AsgStatus, After

LEMMA OthersMove ==
    ASSUME TypeOK, [Next]_vars, \A w \in Workers : ~ClaimRows(w)
    PROVE  /\ setup' = setup /\ fresh' \subseteq fresh /\ sends' = sends
           /\ \A a \in Assignments :
                /\ asg[a] \in After => asg'[a] \in After
                /\ asg'[a] \in {"absent", "pending", "later"} =>
                     asg[a] \in {"absent", "pending", "later"}
                /\ asg'[a] = "sending" => asg[a] = "sending"
                /\ asg'[a] = "sent" => asg[a] \in {"sending", "sent"}
                /\ asg'[a] = "bounced" => asg[a] \in {"sent", "bounced"}
                /\ asg[a] = "skipped" => asg'[a] = "skipped"
  <1>. USE DEF contacts, jobs, slices
  <1>0. \A a \in Assignments : asg[a] \in AsgStatus
    BY DEF TypeOK
  <1>1. CASE RequestStep \/ SweepStep \/ \E s \in Sessions : Looks(s)
    <2>1. ASSUME NEW a \in Assignments, AddContact(a) \/ OptOut(a)
          PROVE  /\ setup' = setup /\ fresh' = fresh /\ sends' = sends
                 /\ asg[a] \in {"absent", "pending", "later"}
                 /\ asg'[a] \in {"pending", "skipped"}
                 /\ \A b \in Assignments \ {a} : asg'[b] = asg[b]
      BY <2>1 DEF AddContact, OptOut, Absent, Pending, TypeOK
    <2>2. CASE \E a \in Assignments : AddContact(a) \/ OptOut(a)
      BY <2>1, <2>2, <1>0 DEF After
    <2>3. CASE ~\E a \in Assignments : AddContact(a) \/ OptOut(a)
      BY <1>1, <2>3, PlanTypes DEF RequestStep, SweepStep
    <2>. QED BY <2>2, <2>3
  <1>2. CASE \E s \in Sessions : Commits(s)
    <2>1. PICK S \in SUBSET Absent : asg' = Assigned(S)
      BY <1>2 DEF Commits
    <2>2. \A a \in Assignments : \/ asg'[a] = asg[a]
                                 \/ asg[a] = "absent" /\ asg'[a] = "pending"
      BY <2>1 DEF Assigned, Absent
    <2>. QED BY <1>0, <1>2, <2>2 DEF Commits, After
  <1>3. CASE \/ \E s \in Sessions : SessionDies(s)
             \/ \E j \in Slots : RecoverStale(j) \/ JobDue(j)
    BY <1>3 DEF SessionDies, RecoverStale, JobDue
  <1>4. ASSUME NEW w \in Workers,
               \/ OpenSlice(w) \/ PlanSlice(w) \/ SliceFails(w) \/ Crash(w)
               \/ \E j \in Slots : ClaimJob(w, j)
        PROVE  setup' = setup /\ fresh' = fresh /\ asg' = asg /\ sends' = sends
    BY <1>4 DEF OpenSlice, PlanSlice, SliceFails, Crash, ClaimJob
  <1>5. ASSUME (\E w \in Workers : FinishSlice(w)) \/ SyncDelivery
        PROVE  setup' = setup /\ fresh' = fresh /\ sends' = sends /\ \E S : asg' = Synced(S)
    BY <1>5 DEF FinishSlice, SyncDelivery
  <1>6. CASE \E a \in Assignments : MessageSettles(a) \/ AttemptDue(a)
    BY <1>0, <1>6 DEF MessageSettles, AttemptDue, TypeOK, After
  <1>7. CASE StartPasses \/ WindowPasses \/ UNCHANGED vars
    BY <1>7 DEF StartPasses, WindowPasses, vars
  <1>8. CASE (\E w \in Workers : FinishSlice(w)) \/ SyncDelivery
    BY <1>0, <1>5, <1>8, SyncMoves DEF After, AsgStatus
  <1>. QED BY <1>1, <1>2, <1>3, <1>4, <1>6, <1>7, <1>8 DEF Next, SliceStep

\* A slice that claims sends to some of what it has selected and is pending.
LEMMA ClaimMoves ==
    ASSUME TypeOK, NEW w \in Workers, ClaimRows(w)
    PROVE  /\ wk[w].pc = "claim" /\ setup' = setup /\ lapped' = lapped /\ gone' = gone
           /\ wk'[w].pc = "finish" /\ \A v \in Workers \ {w} : wk'[v] = wk[v]
           /\ \E sent \in SUBSET Claimable(w) :
                /\ fresh' = fresh \union sent
                /\ \A a \in Assignments :
                     IF a \in sent
                     THEN asg'[a] = "sending" /\ sends'[a] = sends[a] + 1 /\ msg'[a] = "queued"
                     ELSE /\ sends'[a] = sends[a] /\ msg'[a] = msg[a]
                          /\ IF a \in Claimable(w) THEN asg'[a] \in {"skipped", "later"}
                             ELSE asg'[a] = asg[a]
           /\ \A a \in Claimable(w) : a \in wk[w].rows /\ asg[a] = "pending"
  <1>1. \A a \in Claimable(w) : a \in wk[w].rows /\ asg[a] = "pending"
    BY DEF Claimable
  <1>2. PICK sent \in SUBSET Claimable(w), skipped \in SUBSET Claimable(w) :
          /\ asg' = [a \in Assignments |->
                       IF a \in sent THEN "sending"
                       ELSE IF a \in skipped THEN "skipped"
                       ELSE IF a \in Claimable(w) THEN "later" ELSE asg[a]]
          /\ msg' = [a \in Assignments |-> IF a \in sent THEN "queued" ELSE msg[a]]
          /\ sends' = [a \in Assignments |-> IF a \in sent THEN sends[a] + 1 ELSE sends[a]]
          /\ fresh' = fresh \union sent
    BY DEF ClaimRows
  <1>3. wk[w].pc = "claim" /\ setup' = setup /\ lapped' = lapped /\ gone' = gone
    BY DEF ClaimRows
  <1>4. wk'[w].pc = "finish" /\ \A v \in Workers \ {w} : wk'[v] = wk[v]
    BY DEF ClaimRows, TypeOK, WorkerType
  <1>5. \A a \in Assignments :
          IF a \in sent
          THEN asg'[a] = "sending" /\ sends'[a] = sends[a] + 1 /\ msg'[a] = "queued"
          ELSE /\ sends'[a] = sends[a] /\ msg'[a] = msg[a]
               /\ IF a \in Claimable(w) THEN asg'[a] \in {"skipped", "later"} ELSE asg'[a] = asg[a]
    BY <1>2
  <1>. QED BY <1>1, <1>2, <1>3, <1>4, <1>5

-----------------------------------------------------------------------------
(* One message *)

\* The inductive invariant of SentOnce: who has a message is past the states
\* from which it may be claimed, whichever slices have selected it.
SentInv ==
    \A a \in Assignments :
        /\ sends[a] <= 1
        /\ asg[a] \in {"absent", "pending", "later"} => sends[a] = 0
        /\ msg[a] # "none" => asg[a] \in After
        /\ a \in gone \union fresh => asg[a] \in After

LEMMA MessagesMove ==
    ASSUME TypeOK, SentInv, [Next]_vars, \A w \in Workers : ~ClaimRows(w), NEW a \in Assignments
    PROVE  /\ msg'[a] # "none" => msg[a] # "none"
           /\ a \in gone' => a \in gone \/ msg[a] # "none"
  <1>. USE DEF contacts, jobs, slices
  <1>1. CASE \E b \in Assignments : MessageSettles(b)
    BY <1>1 DEF MessageSettles, TypeOK
  <1>2. CASE RequestStep \/ SweepStep
    <2>1. CASE \E b \in Assignments : AddContact(b) \/ OptOut(b)
      BY <2>1 DEF AddContact, OptOut
    <2>2. CASE ~\E b \in Assignments : AddContact(b) \/ OptOut(b)
      BY <1>2, <2>2, PlanTypes DEF RequestStep, SweepStep
    <2>. QED BY <2>1, <2>2
  <1>3. CASE \E s \in Sessions : Looks(s) \/ Commits(s) \/ SessionDies(s)
    BY <1>3 DEF Looks, Commits, SessionDies
  <1>4. CASE \/ \E j \in Slots : RecoverStale(j) \/ JobDue(j)
             \/ SyncDelivery \/ StartPasses \/ WindowPasses \/ UNCHANGED vars
             \/ \E b \in Assignments : AttemptDue(b)
    BY <1>4 DEF RecoverStale, JobDue, SyncDelivery, StartPasses, WindowPasses, vars, AttemptDue
  <1>5. CASE \E w \in Workers : \/ OpenSlice(w) \/ PlanSlice(w) \/ FinishSlice(w)
                                \/ SliceFails(w) \/ Crash(w)
                                \/ \E j \in Slots : ClaimJob(w, j)
    BY <1>5 DEF OpenSlice, PlanSlice, FinishSlice, SliceFails, Crash, ClaimJob
  <1>. QED BY <1>1, <1>2, <1>3, <1>4, <1>5 DEF Next, SliceStep

LEMMA SentKept ==
    ASSUME TypeOK, SentInv, [Next]_vars
    PROVE  SentInv'
  <1>0. \A a \in Assignments : sends[a] \in Nat
    BY DEF TypeOK
  <1>1. CASE \E w \in Workers : ClaimRows(w)
    BY <1>0, <1>1, ClaimMoves DEF SentInv, After
  <1>2. CASE \A w \in Workers : ~ClaimRows(w)
    BY <1>0, <1>2, OthersMove, MessagesMove DEF SentInv
  <1>. QED BY <1>1, <1>2

LEMMA SentInvHolds == Spec => [](TypeOK /\ SentInv)
  <1>1. Init => SentInv
    BY DEF Init, SentInv
  <1>2. TypeOK /\ SentInv /\ [Next]_vars => SentInv'
    BY SentKept
  <1>. QED BY <1>1, <1>2, TypeCorrect, PTL DEF Spec

\* However many jobs there are and slices overlap, are taken for dead, fail or
\* die, a contact is given one message, and none after it was skipped.
THEOREM SentOnceAlways == Spec => SentOnce
  <1>1. SentInv => \A a \in Assignments : sends[a] <= 1
    BY DEF SentInv
  <1>2. TypeOK /\ [Next]_vars =>
          [\A a \in Assignments : asg[a] = "skipped" => asg'[a] = "skipped" /\ sends'[a] = sends[a]]_vars
    <2>. SUFFICES ASSUME TypeOK, [Next]_vars, NEW a \in Assignments, asg[a] = "skipped"
                  PROVE  asg'[a] = "skipped" /\ sends'[a] = sends[a]
      OBVIOUS
    <2>1. CASE \E w \in Workers : ClaimRows(w)
      BY <2>1, ClaimMoves
    <2>2. CASE \A w \in Workers : ~ClaimRows(w)
      BY <2>2, OthersMove
    <2>. QED BY <2>1, <2>2
  <1>. QED BY <1>1, <1>2, SentInvHolds, PTL DEF Spec, SentOnce

-----------------------------------------------------------------------------
(* What a slice may release *)

\* Those that the drip counts because they were released within the window.
Released == fresh \intersect Out

\* What a slice has selected fits in what the limits leave.
RowsFit ==
    \A w \in Workers : wk[w].pc = "claim" =>
        /\ setup.total # 0 => Cardinality(Used) + Cardinality(wk[w].rows) <= setup.total
        /\ setup.drip # 0 /\ wk[w].rows # {} =>
              Cardinality(Released) + Cardinality(wk[w].rows) <= setup.drip

\* The inductive invariant of WithinLimits: while no two slices have been under
\* way together, what the code counts, and with it what the slice at work has
\* selected, is within the limits.
LimitsInv ==
    lapped \/ /\ \A v, w \in Workers : wk[v].pc # "idle" /\ wk[w].pc # "idle" => v = w
              /\ setup.total # 0 => Cardinality(Used) <= setup.total
              /\ setup.drip # 0 => Cardinality(Released) <= setup.drip
              /\ RowsFit

LEMMA ContactsCounted ==
    ASSUME NEW S \in SUBSET Assignments
    PROVE  /\ IsFiniteSet(S) /\ Cardinality(S) \in Nat
           /\ \A T \in SUBSET S : Cardinality(T) <= Cardinality(S) /\ Cardinality(T) \in Nat
  <1>1. IsFiniteSet(S) /\ \A T \in SUBSET S : IsFiniteSet(T)
    BY FS_Subset, AdsAssumption
  <1>. QED BY <1>1, FS_Subset, FS_CardinalityType

LEMMA TogetherCounted ==
    ASSUME NEW S \in SUBSET Assignments, NEW T \in SUBSET Assignments, NEW U \in SUBSET (S \union T)
    PROVE  Cardinality(U) <= Cardinality(S) + Cardinality(T)
  <1>1. IsFiniteSet(S) /\ IsFiniteSet(T) /\ S \union T \in SUBSET Assignments
        /\ S \intersect T \in SUBSET Assignments
    BY ContactsCounted
  <1>2. Cardinality(S \union T) = Cardinality(S) + Cardinality(T) - Cardinality(S \intersect T)
    BY <1>1, FS_Union
  <1>3. /\ Cardinality(U) <= Cardinality(S \union T)
        /\ Cardinality(U) \in Nat /\ Cardinality(S \union T) \in Nat
    BY <1>1, ContactsCounted
  <1>4. /\ Cardinality(S) \in Nat /\ Cardinality(T) \in Nat
        /\ Cardinality(S \intersect T) \in Nat
    BY <1>1, ContactsCounted
  <1>. QED BY <1>2, <1>3, <1>4

LEMMA PairMin ==
    ASSUME NEW a \in Int, NEW b \in Int
    PROVE  Min({a, b}) <= a /\ Min({a, b}) <= b /\ Min({a, b}) \in Int
  <1>1. \E x \in {a, b} : \A y \in {a, b} : x =< y
    OBVIOUS
  <1>2. Min({a, b}) \in {a, b} /\ \A y \in {a, b} : Min({a, b}) =< y
    BY <1>1 DEF Min
  <1>. QED BY <1>2

\* What is left of a limit is no more than what has not been taken.
LEMMA LeftBound ==
    ASSUME NEW limit \in Nat, NEW S \in SUBSET Assignments
    PROVE  /\ Left(limit, S) \in Int
           /\ limit # 0 => /\ Left(limit, S) > 0 => Left(limit, S) + Cardinality(S) <= limit
                           /\ Cardinality(S) <= limit => Left(limit, S) + Cardinality(S) <= limit
  <1>. DEFINE n == limit - Cardinality(S)
  <1>1. Cardinality(S) \in Nat
    BY ContactsCounted
  <1>2. Max({n, 0}) = IF n >= 0 THEN n ELSE 0
    <2>1. \E x \in {n, 0} : \A y \in {n, 0} : x >= y
      BY <1>1
    <2>2. Max({n, 0}) \in {n, 0} /\ \A y \in {n, 0} : Max({n, 0}) >= y
      BY <2>1 DEF Max
    <2>. QED BY <1>1, <2>2
  <1>. QED BY <1>1, <1>2, AdsAssumption DEF Left

LEMMA RoomBound ==
    ASSUME TypeOK
    PROVE  /\ Room \in Int
           /\ Room <= Left(setup.total, Used) /\ Room <= Left(setup.drip, Recent)
           /\ setup.total \in Nat /\ setup.drip \in Nat
           /\ Used \in SUBSET Assignments /\ Recent \in SUBSET Assignments
           /\ Released \in SUBSET Recent
  <1>1. /\ setup.total \in Nat /\ setup.drip \in Nat
        /\ Used \in SUBSET Assignments /\ Recent \in SUBSET Assignments
        /\ Released \in SUBSET Recent
    BY AdsAssumption DEF TypeOK, Used, Recent, Out, Released
  <1>. DEFINE total == Left(setup.total, Used)
              drip == Left(setup.drip, Recent)
  <1>2. Limit \in Int /\ total \in Int /\ drip \in Int
    BY <1>1, LeftBound, AdsAssumption
  <1>. HIDE DEF total, drip
  <1>3. \E x \in {Limit, total, drip} : \A y \in {Limit, total, drip} : x =< y
    BY <1>2
  <1>4. /\ Min({Limit, total, drip}) \in {Limit, total, drip}
        /\ \A y \in {Limit, total, drip} : Min({Limit, total, drip}) =< y
    BY <1>3 DEF Min
  <1>5. /\ Min({Limit, total, drip}) \in Int
        /\ Min({Limit, total, drip}) <= total /\ Min({Limit, total, drip}) <= drip
    BY <1>2, <1>4
  <1>. QED BY <1>1, <1>5 DEF Room, total, drip

\* A slice selects what fits in both setup.
LEMMA PlansFit ==
    ASSUME TypeOK, NEW w \in Workers, PlanSlice(w), wk'[w].pc = "claim"
    PROVE  /\ setup.total # 0 => Cardinality(Used) + Cardinality(wk'[w].rows) <= setup.total
           /\ setup.drip # 0 /\ wk'[w].rows # {} =>
                Cardinality(Released) + Cardinality(wk'[w].rows) <= setup.drip
  <1>1. ~Exhausted
    BY DEF PlanSlice, TypeOK, WorkerType
  <1>2. PICK rows \in SUBSET {a \in Assignments : asg[a] = "pending"} :
          /\ Cardinality(rows) = Min({Room, Cardinality({a \in Assignments : asg[a] = "pending"})})
          /\ wk' = [wk EXCEPT ![w].pc = "claim", ![w].rows = rows]
    BY <1>1 DEF PlanSlice
  <1>3. wk'[w].rows = rows
    BY <1>2 DEF TypeOK, WorkerType
  <1>4. /\ Cardinality(rows) <= Room /\ Cardinality(rows) \in Nat
        /\ IsFiniteSet(rows)
    <2>1. Cardinality({a \in Assignments : asg[a] = "pending"}) \in Nat
      BY ContactsCounted
    <2>2. Cardinality(rows) <= Room
      BY <1>2, <2>1, RoomBound, PairMin
    <2>3. rows \in SUBSET Assignments
      BY <1>2
    <2>. QED BY <2>2, <2>3, ContactsCounted
  <1>5. Cardinality(Used) \in Nat /\ Cardinality(Recent) \in Nat
        /\ Cardinality(Released) <= Cardinality(Recent) /\ Cardinality(Released) \in Nat
    BY RoomBound, ContactsCounted
  <1>6. ASSUME setup.total # 0 PROVE Cardinality(Used) + Cardinality(rows) <= setup.total
    <2>1. Cardinality(Used) <= setup.total
      BY <1>1, <1>5, <1>6, RoomBound DEF Exhausted
    <2>2. /\ Left(setup.total, Used) \in Int
          /\ Left(setup.total, Used) + Cardinality(Used) <= setup.total
      BY <1>6, <2>1, RoomBound, LeftBound
    <2>. QED BY <1>4, <1>5, <2>2, RoomBound
  <1>7. ASSUME setup.drip # 0, rows # {}
        PROVE  Cardinality(Released) + Cardinality(rows) <= setup.drip
    <2>1. Cardinality(rows) > 0
      BY <1>4, <1>7, FS_EmptySet
    <2>2. Left(setup.drip, Recent) \in Int /\ Left(setup.drip, Recent) > 0
      BY <1>4, <2>1, RoomBound, LeftBound
    <2>3. Left(setup.drip, Recent) + Cardinality(Recent) <= setup.drip
      BY <1>7, <2>2, RoomBound, LeftBound
    <2>. QED BY <1>4, <1>5, <2>2, <2>3, RoomBound
  <1>. QED BY <1>3, <1>6, <1>7

LEMMA OthersUse ==
    ASSUME TypeOK, [Next]_vars, \A w \in Workers : ~ClaimRows(w)
    PROVE  /\ Used' \subseteq Used /\ Released' \subseteq Released
           /\ Cardinality(Used') <= Cardinality(Used)
           /\ Cardinality(Released') <= Cardinality(Released)
           /\ Cardinality(Used') \in Nat /\ Cardinality(Used) \in Nat
           /\ Cardinality(Released') \in Nat /\ Cardinality(Released) \in Nat
  <1>1. Used' \subseteq Used /\ Released' \subseteq Released
    BY OthersMove DEF Used, Released, Out
  <1>2. Used \in SUBSET Assignments /\ Released \in SUBSET Assignments
    BY DEF Used, Released, Out
  <1>. QED BY <1>1, <1>2, ContactsCounted

\* Only PlanSlice selects, and only ClaimJob sets a worker to work.
LEMMA SlicesSelect ==
    ASSUME TypeOK, [Next]_vars, NEW w \in Workers
    PROVE  /\ wk'[w].pc = "claim" => PlanSlice(w) \/ wk'[w] = wk[w]
           /\ wk'[w].pc # "idle" => wk[w].pc # "idle" \/ \E j \in Slots : ClaimJob(w, j)
           /\ \A j \in Slots : ClaimJob(w, j) /\ ~lapped' =>
                                 \A v \in Workers \ {w} : wk[v].pc = "idle" /\ wk'[v].pc = "idle"
  <1>. USE DEF contacts, jobs, slices
  <1>1. ASSUME NEW v \in Workers, NEW j \in Slots, ClaimJob(v, j)
        PROVE  /\ wk'[v].pc = "open" /\ \A u \in Workers \ {v} : wk'[u] = wk[u]
               /\ ~lapped' => \A u \in Workers \ {v} : wk[u].pc = "idle"
    BY <1>1 DEF ClaimJob, IdleWorker, TypeOK
  <1>2. ASSUME NEW v \in Workers, OpenSlice(v) \/ PlanSlice(v) \/ ClaimRows(v)
        PROVE  /\ wk[v].pc # "idle" /\ \A u \in Workers \ {v} : wk'[u] = wk[u]
               /\ wk'[v].pc = "claim" => PlanSlice(v)
    <2>1. CASE OpenSlice(v)
      BY <2>1 DEF OpenSlice, TypeOK, WorkerType
    <2>2. CASE PlanSlice(v)
      BY <2>2 DEF PlanSlice, TypeOK
    <2>3. CASE ClaimRows(v)
      BY <2>3, ClaimMoves
    <2>. QED BY <1>2, <2>1, <2>2, <2>3
  <1>3. ASSUME NEW v \in Workers, FinishSlice(v) \/ SliceFails(v) \/ Crash(v)
        PROVE  wk'[v].pc = "idle" /\ \A u \in Workers \ {v} : wk'[u] = wk[u]
    <2>1. wk' = [wk EXCEPT ![v] = IdleWorker]
      BY <1>3 DEF FinishSlice, SliceFails, Crash
    <2>. QED BY <2>1, IdleTypes DEF TypeOK
  <1>4. CASE RequestStep \/ SweepStep
    <2>1. wk' = wk
      <3>1. CASE \E b \in Assignments : AddContact(b) \/ OptOut(b)
        BY <3>1 DEF AddContact, OptOut
      <3>2. CASE ~\E b \in Assignments : AddContact(b) \/ OptOut(b)
        BY <1>4, <3>2, PlanTypes DEF RequestStep, SweepStep
      <3>. QED BY <3>1, <3>2
    <2>. QED BY <1>1, <2>1
  <1>5. CASE \/ \E s \in Sessions : Looks(s) \/ Commits(s) \/ SessionDies(s)
             \/ \E j \in Slots : RecoverStale(j) \/ JobDue(j)
             \/ \E a \in Assignments : MessageSettles(a) \/ AttemptDue(a)
             \/ SyncDelivery \/ StartPasses \/ WindowPasses \/ UNCHANGED vars
    <2>1. wk' = wk
      BY <1>5 DEF Looks, Commits, SessionDies, RecoverStale, JobDue, MessageSettles, AttemptDue,
                  SyncDelivery, StartPasses, WindowPasses, vars
    <2>. QED BY <1>1, <2>1
  <1>6. CASE \E v \in Workers, j \in Slots : ClaimJob(v, j)
    BY <1>1, <1>6
  <1>7. CASE \E v \in Workers : OpenSlice(v) \/ PlanSlice(v) \/ ClaimRows(v)
    BY <1>1, <1>2, <1>7
  <1>8. CASE \E v \in Workers : FinishSlice(v) \/ SliceFails(v) \/ Crash(v)
    BY <1>1, <1>3, <1>8
  <1>. QED BY <1>4, <1>5, <1>6, <1>7, <1>8 DEF Next, SliceStep

LEMMA LappedStays ==
    ASSUME [Next]_vars, TypeOK, lapped
    PROVE  lapped'
  <1>. USE DEF contacts, jobs, slices
  <1>1. CASE RequestStep \/ SweepStep \/ \E s \in Sessions : Looks(s)
    <2>1. CASE \E b \in Assignments : AddContact(b) \/ OptOut(b)
      BY <2>1 DEF AddContact, OptOut
    <2>2. CASE ~\E b \in Assignments : AddContact(b) \/ OptOut(b)
      BY <1>1, <2>2, PlanTypes DEF RequestStep, SweepStep
    <2>. QED BY <2>1, <2>2
  <1>2. CASE \E v \in Workers, j \in Slots : ClaimJob(v, j)
    BY <1>2 DEF ClaimJob
  <1>3. CASE \/ \E s \in Sessions : Looks(s) \/ Commits(s) \/ SessionDies(s)
             \/ \E j \in Slots : RecoverStale(j) \/ JobDue(j)
             \/ \E a \in Assignments : MessageSettles(a) \/ AttemptDue(a)
             \/ SyncDelivery \/ StartPasses \/ WindowPasses \/ UNCHANGED vars
    BY <1>3 DEF Looks, Commits, SessionDies, RecoverStale, JobDue, MessageSettles, AttemptDue,
                SyncDelivery, StartPasses, WindowPasses, vars
  <1>4. CASE \E v \in Workers : SliceStep(v) \/ SliceFails(v) \/ Crash(v)
    BY <1>4 DEF SliceStep, OpenSlice, PlanSlice, ClaimRows, FinishSlice, SliceFails, Crash
  <1>. QED BY <1>1, <1>2, <1>3, <1>4 DEF Next

LEMMA LimitsKept ==
    ASSUME TypeOK, LimitsInv, [Next]_vars
    PROVE  LimitsInv'
  <1>. SUFFICES ASSUME ~lapped' PROVE LimitsInv'
    BY DEF LimitsInv
  <1>0. ~lapped
    BY LappedStays
  <1>1. \A v, w \in Workers : wk'[v].pc # "idle" /\ wk'[w].pc # "idle" => v = w
    BY <1>0, SlicesSelect DEF LimitsInv
  <1>2. CASE \E w \in Workers : ClaimRows(w)
    <2>. PICK w \in Workers : ClaimRows(w)
      BY <1>2
    <2>1. \A v \in Workers : wk'[v].pc # "claim"
      BY <1>1, ClaimMoves
    <2>2. /\ wk[w].rows \in SUBSET Assignments /\ setup' = setup
          /\ Used \in SUBSET Assignments /\ Released \in SUBSET Assignments
          /\ Used' \in SUBSET Assignments /\ Released' \in SUBSET Assignments
      BY ClaimMoves DEF Used, Released, Out, TypeOK, WorkerType
    <2>3. /\ Used' \in SUBSET (Used \union wk[w].rows)
          /\ Released' \in SUBSET (Released \union wk[w].rows)
      BY ClaimMoves DEF Used, Released, Out
    <2>4. /\ Cardinality(Used') <= Cardinality(Used) + Cardinality(wk[w].rows)
          /\ Cardinality(Released') <= Cardinality(Released) + Cardinality(wk[w].rows)
          /\ Cardinality(Used') \in Nat /\ Cardinality(Used) \in Nat
          /\ Cardinality(Released') \in Nat /\ Cardinality(Released) \in Nat
          /\ Cardinality(wk[w].rows) \in Nat
      BY <2>2, <2>3, TogetherCounted, ContactsCounted
    <2>5. setup.total \in Nat /\ setup.drip \in Nat
      BY RoomBound
    <2>6. setup.total # 0 => Cardinality(Used') <= setup.total
      BY <1>0, <2>4, <2>5, ClaimMoves DEF LimitsInv, RowsFit
    <2>7. setup.drip # 0 => Cardinality(Released') <= setup.drip
      <3>1. CASE wk[w].rows = {}
        <4>1. Released' \in SUBSET Released
          BY <2>3, <3>1
        <4>2. Cardinality(Released') <= Cardinality(Released)
          BY <2>2, <4>1, ContactsCounted
        <4>. QED BY <1>0, <2>4, <2>5, <4>2 DEF LimitsInv
      <3>2. CASE wk[w].rows # {}
        BY <1>0, <2>4, <2>5, <3>2, ClaimMoves DEF LimitsInv, RowsFit
      <3>. QED BY <3>1, <3>2
    <2>. QED BY <1>1, <2>1, <2>2, <2>6, <2>7 DEF LimitsInv, RowsFit
  <1>3. CASE \A w \in Workers : ~ClaimRows(w)
    <2>1. setup' = setup /\ setup.total \in Nat /\ setup.drip \in Nat
      BY <1>3, OthersMove, RoomBound
    <2>2. /\ setup.total # 0 => Cardinality(Used') <= setup.total
          /\ setup.drip # 0 => Cardinality(Released') <= setup.drip
      BY <1>0, <1>3, <2>1, OthersUse DEF LimitsInv
    <2>3. ASSUME NEW w \in Workers, wk'[w].pc = "claim"
          PROVE  /\ setup.total # 0 => Cardinality(Used') + Cardinality(wk'[w].rows) <= setup.total
                 /\ setup.drip # 0 /\ wk'[w].rows # {} =>
                      Cardinality(Released') + Cardinality(wk'[w].rows) <= setup.drip
      <3>1. wk'[w].rows \in SUBSET Assignments
        BY TypeKept DEF TypeOK, WorkerType
      <3>2. Cardinality(wk'[w].rows) \in Nat
        BY <3>1, ContactsCounted
      <3>3. CASE PlanSlice(w)
        BY <1>3, <2>1, <2>3, <3>2, <3>3, OthersUse, PlansFit
      <3>4. CASE wk'[w] = wk[w]
        BY <1>0, <1>3, <2>1, <2>3, <3>2, <3>4, OthersUse DEF LimitsInv, RowsFit
      <3>. QED BY <2>3, <3>3, <3>4, SlicesSelect
    <2>. QED BY <1>1, <2>1, <2>2, <2>3 DEF LimitsInv, RowsFit
  <1>. QED BY <1>2, <1>3

LEMMA LimitsInvHolds == Spec => [](TypeOK /\ SentInv /\ LimitsInv)
  <1>1. Init => LimitsInv
    <2>. SUFFICES ASSUME Init PROVE LimitsInv
      OBVIOUS
    <2>1. Used = {} /\ Released = {} /\ setup.total \in Nat /\ setup.drip \in Nat
      BY AdsAssumption DEF Init, Used, Released, Out
    <2>2. \A w \in Workers : wk[w].pc = "idle"
      BY IdleTypes DEF Init
    <2>. QED BY <2>1, <2>2, FS_EmptySet DEF LimitsInv, RowsFit
  <1>2. TypeOK /\ LimitsInv /\ [Next]_vars => LimitsInv'
    BY LimitsKept
  <1>. QED BY <1>1, <1>2, SentInvHolds, PTL DEF Spec

\* Whatever fails, dies, is retried or changed by operators, and however many
\* jobs there are, slices that follow one another reach no more contacts than
\* the total limit and the drip allow, those excepted that the code forgets.
THEOREM WithinLimitsAlways == Spec => []WithinLimits
  <1>1. TypeOK /\ SentInv /\ LimitsInv => WithinLimits
    <2>. SUFFICES ASSUME TypeOK, SentInv, LimitsInv, ~lapped PROVE LimitHolds /\ Paced
      BY DEF WithinLimits
    <2>1. Contacted \ Forgotten \in SUBSET Used /\ Used \in SUBSET Assignments
      BY DEF Contacted, Forgotten, Sending, Used, SentInv, After, TypeOK
    <2>2. fresh \ Dropped \in SUBSET Released /\ Released \in SUBSET Assignments
      BY DEF Dropped, Released, Out, SentInv, After, TypeOK
    <2>3. /\ Cardinality(Contacted \ Forgotten) <= Cardinality(Used)
          /\ Cardinality(fresh \ Dropped) <= Cardinality(Released)
          /\ Cardinality(Contacted \ Forgotten) \in Nat /\ Cardinality(Used) \in Nat
          /\ Cardinality(fresh \ Dropped) \in Nat /\ Cardinality(Released) \in Nat
      BY <2>1, <2>2, ContactsCounted
    <2>. QED BY <2>3, RoomBound DEF LimitsInv, LimitHolds, Paced
  <1>. QED BY <1>1, LimitsInvHolds, PTL
=============================================================================
