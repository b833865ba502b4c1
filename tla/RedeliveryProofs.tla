--------------------------- MODULE RedeliveryProofs ---------------------------
(***************************************************************************)
(* Proofs about the components whose work may be delivered again: the      *)
(* ledger of the agent's calls (ExecutionGuard), for any number of         *)
(* repetitions of a call, of expiries and of calls that are cut; the       *)
(* verification jobs (VerificationJobs), for any snapshot, chunk, number   *)
(* of tasks and of deaths; and the inbox, where mails and texts come again *)
(* and several tasks store them (MailboxSync, InboundTexts,                *)
(* ThreadAttribution), for any mails, texts, readers, handlers, sessions   *)
(* and runs.                                                               *)
(***************************************************************************)
EXTENDS ExecutionGuard, VerificationJobs, MailboxSync, InboundTexts, ThreadAttribution,
        FiniteSetTheorems, SequenceTheorems, NaturalsInduction, WellFoundedInduction, TLAPS

-----------------------------------------------------------------------------
(* The ledger of the agent's calls: types *)

\* Every reachable state of the ledger and its calls has its type.
THEOREM GuardTyped ==
    ASSUME MaxExpired \in Nat, MaxCut \in Nat
    PROVE  GSpec => []GTypeOK
  <1>1. GInit => GTypeOK
    <2>1. NewCall \in CallType
      BY DEF NewCall, CallType
    <2>2. GInit => gcall \in [Calls -> CallType]
      BY <2>1 DEF GInit
    <2>3. GInit => gover \in BOOLEAN /\ grow \in {"none", "fresh", "old"}
      BY Zenon DEF GInit
    <2>4. GInit => gwork \in Nat /\ gexp \in 0..MaxExpired /\ gcut \in 0..MaxCut
      BY DEF GInit
    <2>. QED BY <2>2, <2>3, <2>4, Zenon DEF GInit, GTypeOK
  <1>2. GTypeOK /\ [GNext]_gvars => GTypeOK'
    <2>. SUFFICES ASSUME GTypeOK, [GNext]_gvars PROVE GTypeOK'
      OBVIOUS
    <2>. USE DEF GTypeOK, CallType
    <2>1. CASE UNCHANGED gvars
      BY <2>1 DEF gvars
    <2>2. ASSUME NEW q \in Calls, Arrive(q) PROVE GTypeOK'
      BY <2>2 DEF Arrive
    <2>3. ASSUME NEW q \in Calls, Lookup(q) PROVE GTypeOK'
      BY <2>3 DEF Lookup, CallTo
    <2>4. ASSUME NEW q \in Calls, Work(q) PROVE GTypeOK'
      BY <2>4 DEF Work, CallTo
    <2>5. ASSUME NEW q \in Calls, Record(q) PROVE GTypeOK'
      BY <2>5 DEF Record, CallTo
    <2>6. ASSUME NEW q \in Calls, CommitAnswer(q) PROVE GTypeOK'
      BY <2>6 DEF CommitAnswer, CallTo
    <2>7. ASSUME NEW q \in Calls, InsertRefused(q) PROVE GTypeOK'
      BY <2>7 DEF InsertRefused, CallTo
    <2>8. ASSUME NEW q \in Calls, Cut(q) PROVE GTypeOK'
      BY <2>8 DEF Cut, CallTo
    <2>9. CASE Expire
      BY <2>9 DEF Expire
    <2>. QED
      BY <2>1, <2>2, <2>3, <2>4, <2>5, <2>6, <2>7, <2>8, <2>9 DEF GNext
  <1>. QED BY <1>1, <1>2, PTL DEF GSpec

-----------------------------------------------------------------------------
(* Replays, and the record of what was created *)

\* A call that found an answer on record when it came has not gone on to
\* work, and the answer is still there while it lasts.
LateWaits ==
    \A q \in Calls :
        /\ gcall[q].exp <= gexp
        /\ gcall[q].late /\ gcall[q].exp = gexp
             => gcall[q].pc = "end" \/ (gcall[q].pc = "lookup" /\ grow = "fresh")

\* A call that comes when the answer is on record does no work while the
\* answer lasts, whatever other calls are under way, expire or are cut.
THEOREM LateIsReplayHolds ==
    ASSUME MaxExpired \in Nat, MaxCut \in Nat
    PROVE  GSpec => []LateIsReplay
  <1>1. GInit => LateWaits
    BY DEF GInit, LateWaits, NewCall
  <1>2. GTypeOK /\ LateWaits /\ [GNext]_gvars => LateWaits'
    <2>. SUFFICES ASSUME GTypeOK, LateWaits, [GNext]_gvars PROVE LateWaits'
      OBVIOUS
    <2>. USE DEF GTypeOK, CallType, LateWaits
    <2>1. CASE UNCHANGED gvars
      BY <2>1 DEF gvars
    <2>2. ASSUME NEW q \in Calls, Arrive(q) PROVE LateWaits'
      <3>1. /\ gcall'[q].pc = "lookup" /\ gcall'[q].exp = gexp
            /\ gcall'[q].late <=> grow = "fresh"
        BY <2>2 DEF Arrive
      <3>2. \A r \in Calls \ {q} : gcall'[r] = gcall[r]
        BY <2>2 DEF Arrive
      <3>3. grow' = grow /\ gexp' = gexp
        BY <2>2 DEF Arrive
      <3>4. SUFFICES ASSUME NEW r \in Calls
                     PROVE  /\ gcall'[r].exp <= gexp'
                            /\ gcall'[r].late /\ gcall'[r].exp = gexp'
                                 => gcall'[r].pc = "end"
                                    \/ (gcall'[r].pc = "lookup" /\ grow' = "fresh")
        OBVIOUS
      <3>5. CASE r = q
        BY <3>1, <3>3, <3>5
      <3>. QED BY <3>2, <3>3, <3>5
    <2>3. ASSUME NEW q \in Calls, Lookup(q) PROVE LateWaits'
      BY <2>3 DEF Lookup, CallTo, CallAt
    <2>4. ASSUME NEW q \in Calls, Work(q) \/ Record(q) \/ InsertRefused(q)
          PROVE  LateWaits'
      BY <2>4 DEF Work, Record, InsertRefused, CallTo, CallAt
    <2>5. ASSUME NEW q \in Calls, CommitAnswer(q) PROVE LateWaits'
      BY <2>5 DEF CommitAnswer, CallTo, CallAt
    <2>6. ASSUME NEW q \in Calls, Cut(q) PROVE LateWaits'
      BY <2>6 DEF Cut, CallTo
    <2>7. CASE Expire
      BY <2>7 DEF Expire
    <2>. QED BY <2>1, <2>2, <2>3, <2>4, <2>5, <2>6, <2>7 DEF GNext
  <1>3. LateWaits => LateIsReplay
    BY DEF LateWaits, LateIsReplay
  <1>. QED BY <1>1, <1>2, <1>3, GuardTyped, PTL DEF GSpec

\* A campaign that was created is on record and what is on record was
\* created, whatever calls overlap, are refused or are cut.
THEOREM CreatedIsRecordedHolds ==
    ASSUME MaxExpired \in Nat, MaxCut \in Nat
    PROVE  GSpec => []CreatedIsRecorded
  <1>1. GInit => CreatedIsRecorded
    BY DEF GInit, CreatedIsRecorded
  <1>2. GTypeOK /\ CreatedIsRecorded /\ [GNext]_gvars => CreatedIsRecorded'
    BY DEF GTypeOK, CreatedIsRecorded, GNext, gvars, Arrive, Lookup, Work, Record,
           CommitAnswer, InsertRefused, Cut, Expire
  <1>. QED BY <1>1, <1>2, GuardTyped, PTL DEF GSpec

-----------------------------------------------------------------------------
(* The work is done once *)

\* As long as calls follow one another, at most one is under way,
Alone == ~gover => \A p, q \in Working : p = q

\* and one that went on to work found no answer that lasts.
Unanswered ==
    ~gover => \A q \in Working : gcall[q].pc # "lookup" => grow # "fresh"

\* Work that is done and not on record is that of a call under way.
Worked == gkind # "create" /\ \E q \in Calls : gcall[q].pc \in {"record", "insert", "update"}

\* What was done, by what is on record
WorkBound ==
    ~gover /\ (gkind # "create" => gcut = 0) =>
        /\ grow = "fresh" => gwork <= 1 + gexp
        /\ grow = "old" => gwork <= IF Worked THEN 1 + gexp ELSE gexp
        /\ grow = "none" => gwork <= IF Worked THEN 1 ELSE 0

LEMMA AloneKept ==
    ASSUME GTypeOK, Alone, Unanswered, [GNext]_gvars
    PROVE  Alone' /\ Unanswered'
  <1>. USE DEF GTypeOK, CallType, Alone, Unanswered, Working
  <1>1. CASE UNCHANGED gvars
    BY <1>1 DEF gvars
  <1>2. ASSUME NEW q \in Calls, Arrive(q) PROVE Alone' /\ Unanswered'
    BY <1>2 DEF Arrive, CallAt
  <1>3. ASSUME NEW q \in Calls, Lookup(q) \/ Work(q) \/ Record(q) \/ InsertRefused(q)
        PROVE  Alone' /\ Unanswered'
    BY <1>3 DEF Lookup, Work, Record, InsertRefused, CallTo, CallAt
  <1>4. ASSUME NEW q \in Calls, CommitAnswer(q) PROVE Alone' /\ Unanswered'
    BY <1>4 DEF CommitAnswer, CallTo, CallAt
  <1>5. ASSUME NEW q \in Calls, Cut(q) PROVE Alone' /\ Unanswered'
    BY <1>5 DEF Cut, CallTo
  <1>6. CASE Expire
    BY <1>6 DEF Expire
  <1>. QED BY <1>1, <1>2, <1>3, <1>4, <1>5, <1>6 DEF GNext

LEMMA BoundKept ==
    ASSUME GTypeOK, Alone, Unanswered, WorkBound, [GNext]_gvars
    PROVE  WorkBound'
  <1>. USE DEF GTypeOK, CallType, WorkBound
  <1>1. CASE UNCHANGED gvars
    BY <1>1 DEF gvars, Worked
  <1>2. ASSUME NEW q \in Calls, Arrive(q) PROVE WorkBound'
    <2>1. Worked' <=> Worked
      BY <1>2 DEF Arrive, Worked, CallAt
    <2>. QED BY <1>2, <2>1 DEF Arrive
  <1>3. ASSUME NEW q \in Calls, Lookup(q) \/ Record(q) PROVE WorkBound'
    <2>1. Worked' <=> Worked
      BY <1>3 DEF Lookup, Record, Worked, CallTo, CallAt
    <2>. QED BY <1>3, <2>1 DEF Lookup, Record
  <1>4. ASSUME NEW q \in Calls, Work(q) PROVE WorkBound'
    <2>1. ~gover => ~Worked
      BY <1>4 DEF Work, Worked, Alone, Working, CallAt
    <2>2. ~gover => grow # "fresh"
      BY <1>4 DEF Work, Unanswered, Working, CallAt
    <2>3. gkind # "create" /\ gwork' # gwork => Worked'
      BY <1>4 DEF Work, Worked, CallTo
    <2>. QED BY <1>4, <2>1, <2>2, <2>3 DEF Work
  <1>5. ASSUME NEW q \in Calls, CommitAnswer(q) PROVE WorkBound'
    <2>1. gkind # "create" => Worked
      BY <1>5 DEF CommitAnswer, Worked, CallAt
    <2>2. ~gover => grow # "fresh"
      BY <1>5 DEF CommitAnswer, Unanswered, Working, CallAt
    <2>. QED BY <1>5, <2>1, <2>2 DEF CommitAnswer, Worked
  <1>6. ASSUME NEW q \in Calls, InsertRefused(q) PROVE WorkBound'
    <2>1. gover
      BY <1>6 DEF InsertRefused, Alone, Working, CallAt
    <2>. QED BY <1>6, <2>1 DEF InsertRefused
  <1>7. ASSUME NEW q \in Calls, Cut(q) PROVE WorkBound'
    <2>1. gkind # "create" => gcut' # 0
      BY <1>7 DEF Cut
    <2>2. gkind = "create" => ~Worked /\ ~Worked'
      BY <1>7 DEF Cut, Worked
    <2>. QED BY <1>7, <2>1, <2>2 DEF Cut
  <1>8. CASE Expire
    <2>1. ~gover => ~Worked'
      BY <1>8 DEF Expire, Worked, Unanswered, Working
    <2>. QED BY <1>8, <2>1 DEF Expire
  <1>. QED
    BY <1>1, <1>2, <1>3, <1>4, <1>5, <1>6, <1>7, <1>8 DEF GNext

\* Calls that follow one another do the work once per lifetime of the recorded
\* answer: a create always, a start or a run as long as none is cut.
THEOREM WorkOnceHolds ==
    ASSUME MaxExpired \in Nat, MaxCut \in Nat
    PROVE  GSpec => []WorkOnce
  <1>1. GInit => Alone /\ Unanswered /\ WorkBound
    BY DEF GInit, NewCall, Alone, Unanswered, Working, WorkBound, Worked
  <1>2. GTypeOK /\ Alone /\ Unanswered /\ WorkBound /\ [GNext]_gvars
          => Alone' /\ Unanswered' /\ WorkBound'
    BY AloneKept, BoundKept
  <1>3. GTypeOK /\ WorkBound => WorkOnce
    BY DEF GTypeOK, WorkBound, WorkOnce
  <1>. QED BY <1>1, <1>2, <1>3, GuardTyped, PTL DEF GSpec

\* A key stands for one operation, for any number of calls, expiries and cuts:
\* done once, on record and replayed.
THEOREM KeyHonouredHolds ==
    ASSUME MaxExpired \in Nat, MaxCut \in Nat
    PROVE  GSpec => []KeyHonoured
  <1>1. GTypeOK /\ WorkOnce /\ LateIsReplay /\ CreatedIsRecorded => KeyHonoured
    BY DEF KeyHonoured
  <1>. QED
    BY <1>1, GuardTyped, WorkOnceHolds, LateIsReplayHolds, CreatedIsRecordedHolds, PTL

-----------------------------------------------------------------------------
(* The verification jobs *)

\* What is checked lies in the window that the task works on.
InWindow(run) == run.pc \in {"check", "commit"} => Checked(run) \subseteq Window(run.row)
Shape == VTypeOK /\ \A r \in Runners : InWindow(vrun[r])

-----------------------------------------------------------------------------
(* Windows *)

\* Those that are checked and those that are not make up the window.
LEMMA WindowCounts ==
    ASSUME N \in Nat, NEW row \in JobType, NEW S \in SUBSET Window(row)
    PROVE  /\ IsFiniteSet(Window(row))
           /\ Cardinality(Window(row)) \in Nat
           /\ Cardinality(S) \in Nat /\ Cardinality(Window(row) \ S) \in Nat
           /\ Cardinality(Window(row)) = Cardinality(S) + Cardinality(Window(row) \ S)
           /\ row.processed + Cardinality(Window(row)) <= N
  <1>1. IsFiniteSet(1..N)
    BY FS_Interval
  <1>2. IsFiniteSet(Window(row))
    BY <1>1, FS_Subset DEF Window, Contact
  <1>3. IsFiniteSet(S) /\ IsFiniteSet(Window(row) \ S)
    BY <1>2, FS_Subset
  <1>4. (Window(row) \ S) \intersect S = {} /\ (Window(row) \ S) \union S = Window(row)
    OBVIOUS
  <1>5. Cardinality(Window(row)) =
          Cardinality(Window(row) \ S) + Cardinality(S) - Cardinality((Window(row) \ S) \intersect S)
    BY <1>3, <1>4, FS_Union
  <1>6. Cardinality((Window(row) \ S) \intersect S) = 0
    BY <1>4, FS_EmptySet
  <1>7. /\ Cardinality(Window(row)) \in Nat
        /\ Cardinality(S) \in Nat /\ Cardinality(Window(row) \ S) \in Nat
    BY <1>2, <1>3, FS_CardinalityType
  <1>8. row.processed + Cardinality(Window(row)) <= N
    <2>1. row.processed \in 0..N
      BY DEF JobType
    <2>2. /\ IsFiniteSet(row.processed + 1 .. N)
          /\ Cardinality(row.processed + 1 .. N)
               = IF row.processed + 1 > N THEN 0 ELSE N - (row.processed + 1) + 1
      <3>1. row.processed + 1 \in Int /\ N \in Int
        BY <2>1
      <3>. QED BY <3>1, FS_Interval
    <2>3. Window(row) \subseteq row.processed + 1 .. N
      BY <2>1 DEF Window, Contact
    <2>4. Cardinality(Window(row)) <= Cardinality(row.processed + 1 .. N)
      BY <2>2, <2>3, FS_Subset
    <2>. QED BY <2>1, <2>2, <2>4, <1>7
  <1>. QED BY <1>2, <1>5, <1>6, <1>7, <1>8

\* After a chunk the row still counts as many contacts as it has gone through.
LEMMA TalliedCounts ==
    ASSUME N \in Nat, NEW run \in RunnerType, InWindow(run), run.pc = "commit"
    PROVE  LET row == Tallied(run)
           IN /\ row \in JobType
              /\ row.status = run.row.status
              /\ row.processed >= run.row.processed
              /\ run.row.checked + run.row.skipped = run.row.processed
                   => row.checked + row.skipped = row.processed
  <1>. DEFINE W == Window(run.row)  C == Checked(run)
  <1>1. C \in SUBSET W /\ run.row \in JobType
    BY DEF InWindow, RunnerType
  <1>2. /\ Cardinality(W) \in Nat /\ Cardinality(C) \in Nat /\ Cardinality(W \ C) \in Nat
        /\ Cardinality(W) = Cardinality(C) + Cardinality(W \ C)
        /\ run.row.processed + Cardinality(W) <= N
    BY <1>1, WindowCounts
  <1>3. Tallied(run) = [run.row EXCEPT !.processed = @ + Cardinality(W),
                                       !.checked = @ + Cardinality(C),
                                       !.skipped = @ + Cardinality(W \ C)]
    BY DEF Tallied
  <1>. HIDE DEF W, C
  <1>4. PICK w \in Nat, c \in Nat, d \in Nat :
          /\ w = c + d /\ run.row.processed + w <= N
          /\ Tallied(run) = [run.row EXCEPT !.processed = @ + w, !.checked = @ + c,
                                            !.skipped = @ + d]
    BY <1>2, <1>3
  <1>5. /\ Tallied(run).status = run.row.status
        /\ Tallied(run).processed = run.row.processed + w
        /\ Tallied(run).checked = run.row.checked + c
        /\ Tallied(run).skipped = run.row.skipped + d
    BY <1>1, <1>4 DEF JobType
  <1>6. /\ run.row.processed + w \in 0..N /\ run.row.checked + c \in Nat
        /\ run.row.skipped + d \in Nat
    BY <1>1, <1>4 DEF JobType
  <1>7. Tallied(run) \in JobType
    BY <1>1, <1>4, <1>6 DEF JobType
  <1>. QED BY <1>1, <1>4, <1>5, <1>7 DEF JobType

-----------------------------------------------------------------------------
(* Types *)

LEMMA ShapeKept ==
    ASSUME N \in Nat, MaxCrashes \in Nat, Shape, [VNext]_vvars
    PROVE  Shape'
  <1>. USE DEF Shape, VTypeOK
  <1>0. /\ IdleRun \in RunnerType /\ InWindow(IdleRun)
        /\ NoAddress \in [Contact -> Address]
    BY DEF IdleRun, NewJob, NoAddress, RunnerType, JobType, Address, ActiveJob, InWindow
  <1>1. ASSUME NEW r \in Runners, NEW run \in RunnerType, InWindow(run), Set(r, run)
        PROVE  vrun' \in [Runners -> RunnerType] /\ \A q \in Runners : InWindow(vrun'[q])
    BY <1>1 DEF Set
  <1>2. CASE UNCHANGED vvars
    BY <1>2 DEF vvars, InWindow, Checked, Window
  <1>3. ASSUME NEW r \in Runners, Begin(r) PROVE Shape'
    <2>1. /\ [IdleRun EXCEPT !.pc = "start", !.row = vjob] \in RunnerType
          /\ InWindow([IdleRun EXCEPT !.pc = "start", !.row = vjob])
      BY <1>0 DEF IdleRun, RunnerType, InWindow
    <2>. QED BY <1>1, <1>3, <2>1 DEF Begin, TaskOnly
  <1>4. ASSUME NEW r \in Runners, Start(r) PROVE Shape'
    <2>1. /\ [vrun[r] EXCEPT !.pc = "loop", !.row.status = "running"] \in RunnerType
          /\ InWindow([vrun[r] EXCEPT !.pc = "loop", !.row.status = "running"])
      BY DEF RunnerType, JobType, ActiveJob, InWindow
    <2>2. vjob' \in JobType
      BY <1>4 DEF Start, JobType, ActiveJob
    <2>. QED BY <1>1, <1>4, <2>1, <2>2 DEF Start, TaskOnly
  <1>5. ASSUME NEW r \in Runners, Refresh(r) PROVE Shape'
    <2>. DEFINE run == [pc |-> "check", row |-> vjob,
                        seen |-> [c \in Contact |->
                                    IF c \in Window(vjob) THEN vaddr[c] ELSE "gone"]]
    <2>1. run \in RunnerType
      BY DEF RunnerType, Address
    <2>2. InWindow(run)
      BY DEF InWindow, Checked
    <2>3. Set(r, run) \/ Set(r, IdleRun)
      BY <1>5 DEF Refresh
    <2>. QED BY <1>0, <1>1, <1>5, <2>1, <2>2, <2>3 DEF Refresh, TaskOnly
  <1>6. ASSUME NEW r \in Runners, Reread(r) PROVE Shape'
    <2>. DEFINE run == [vrun[r] EXCEPT !.pc = "commit",
                 !.seen = [c \in Contact |-> IF vaddr[c] = @[c] THEN @[c] ELSE "gone"]]
    <2>1. run \in RunnerType
      BY DEF RunnerType, Address
    <2>2. InWindow(run)
      BY <1>6 DEF InWindow, Checked, Reread, Step, RunnerType
    <2>. QED BY <1>1, <1>6, <2>1, <2>2 DEF Reread, TaskOnly
  <1>7. ASSUME NEW r \in Runners, CommitChunk(r) PROVE Shape'
    <2>1. Tallied(vrun[r]) \in JobType
      BY <1>7, TalliedCounts DEF CommitChunk, Step
    <2>. DEFINE run == [pc |-> "loop", row |-> Tallied(vrun[r]), seen |-> NoAddress]
    <2>2. run \in RunnerType /\ InWindow(run)
      BY <1>0, <2>1 DEF RunnerType, InWindow
    <2>3. vjob' \in JobType
      BY <1>7, <2>1 DEF CommitChunk, Written, JobType
    <2>4. vmark' \in [Contact -> {"none", "old", "new"}]
      BY <1>7 DEF CommitChunk, Checked, RunnerType, Address
    <2>5. vrun' \in [Runners -> RunnerType] /\ \A q \in Runners : InWindow(vrun'[q])
      BY <1>1, <1>7, <2>2 DEF CommitChunk
    <2>. QED BY <1>7, <2>3, <2>4, <2>5 DEF CommitChunk, TaskOnly
  <1>8. ASSUME NEW r \in Runners, Finish(r) \/ Fail(r) \/ Crash(r) PROVE Shape'
    <2>1. vjob' \in JobType
      BY <1>8 DEF Finish, Fail, Crash, JobType
    <2>. QED BY <1>0, <1>1, <1>8, <2>1 DEF Finish, Fail, Crash, TaskOnly
  <1>9. CASE CancelRead \/ CancelCommit
    BY <1>9 DEF CancelRead, CancelCommit, JobType, ActiveJob
  <1>10. ASSUME NEW c \in Contact, Edit(c) \/ Delete(c) PROVE Shape'
    BY <1>10 DEF Edit, Delete, Address
  <1>. QED
    BY <1>2, <1>3, <1>4, <1>5, <1>6, <1>7, <1>8, <1>9, <1>10 DEF VNext, RunStep

LEMMA InitShape == ASSUME N \in Nat, MaxCrashes \in Nat PROVE VInit => Shape
  <1>1. IdleRun \in RunnerType /\ InWindow(IdleRun) /\ NewJob \in JobType
    BY DEF IdleRun, NewJob, NoAddress, RunnerType, JobType, Address, ActiveJob, InWindow
  <1>. QED BY <1>1 DEF VInit, Shape, VTypeOK, Address

-----------------------------------------------------------------------------
(* Verdicts *)

\* A task that is about to commit has verdicts for addresses contacts have.
AboutToMark ==
    \A r \in Runners, c \in Contact :
        vrun[r].pc = "commit" => vrun[r].seen[c] \in {"gone", vaddr[c]}

\* A verdict that is shown belongs to the address that is shown, for any number
\* of tasks that overlap, of edits, deletions, deaths and cancellations, if no
\* edit falls between the second read and the commit.
THEOREM VerdictMatchesHolds ==
    ASSUME N \in Nat, MaxCrashes \in Nat, ~Raced
    PROVE  VSpec => []VerdictMatches
  <1>1. VInit => AboutToMark /\ VerdictMatches
    BY DEF VInit, IdleRun, AboutToMark, VerdictMatches
  <1>2. Shape /\ AboutToMark /\ VerdictMatches /\ [VNext]_vvars
          => AboutToMark' /\ VerdictMatches'
    <2>. SUFFICES ASSUME Shape, AboutToMark, VerdictMatches, [VNext]_vvars
                  PROVE  AboutToMark' /\ VerdictMatches'
      OBVIOUS
    <2>. USE DEF Shape, VTypeOK, RunnerType, AboutToMark, VerdictMatches
    <2>1. CASE UNCHANGED vvars
      BY <2>1 DEF vvars
    <2>2. ASSUME NEW r \in Runners, Begin(r) \/ Start(r) \/ Refresh(r) \/ Finish(r) \/ Fail(r) \/ Crash(r)
          PROVE  AboutToMark' /\ VerdictMatches'
      <3>1. vrun'[r].pc # "commit" /\ \A q \in Runners \ {r} : vrun'[q] = vrun[q]
        <4>1. CASE Begin(r)
          BY <4>1 DEF Begin, Set, IdleRun
        <4>2. CASE Start(r)
          BY <4>2 DEF Start, Set
        <4>3. CASE Refresh(r)
          BY <4>3 DEF Refresh, Set, IdleRun
        <4>4. CASE Finish(r) \/ Fail(r) \/ Crash(r)
          BY <4>4 DEF Finish, Fail, Crash, Set, IdleRun
        <4>. QED BY <2>2, <4>1, <4>2, <4>3, <4>4
      <3>2. vaddr' = vaddr /\ vmark' = vmark
        BY <2>2 DEF Begin, Start, Refresh, Finish, Fail, Crash
      <3>. QED BY <3>1, <3>2
    <2>3. ASSUME NEW r \in Runners, Reread(r) PROVE AboutToMark' /\ VerdictMatches'
      BY <2>3 DEF Reread, Set
    <2>4. ASSUME NEW r \in Runners, CommitChunk(r) PROVE AboutToMark' /\ VerdictMatches'
      <3>1. VerdictMatches'
        BY <2>4 DEF CommitChunk, Checked, Step
      <3>2. vrun'[r].pc # "commit" /\ \A q \in Runners \ {r} : vrun'[q] = vrun[q]
        BY <2>4 DEF CommitChunk, Set
      <3>. QED BY <2>4, <3>1, <3>2 DEF CommitChunk
    <2>5. CASE CancelRead \/ CancelCommit
      BY <2>5 DEF CancelRead, CancelCommit
    <2>6. ASSUME NEW c \in Contact, Edit(c) \/ Delete(c)
          PROVE  AboutToMark' /\ VerdictMatches'
      BY <2>6 DEF Edit, Delete, Step
    <2>. QED BY <2>1, <2>2, <2>3, <2>4, <2>5, <2>6 DEF VNext, RunStep
  <1>. QED BY <1>1, <1>2, InitShape, ShapeKept, PTL DEF VSpec

-----------------------------------------------------------------------------
(* Counts and progress *)

\* At most one task is under way, and it has the row as it is but for a
\* cancellation.
SameRow ==
    ~Overlap =>
        /\ \A r, q \in Runners : vrun[r].pc # "idle" /\ vrun[q].pc # "idle" => r = q
        /\ \A r \in Runners :
             vrun[r].pc # "idle" =>
                /\ vrun[r].row.processed = vjob.processed
                /\ vrun[r].row.checked = vjob.checked
                /\ vrun[r].row.skipped = vjob.skipped

LEMMA SameRowKept ==
    ASSUME N \in Nat, Shape, SameRow, CountsAddUp, [VNext]_vvars
    PROVE  SameRow' /\ CountsAddUp' /\ (~Overlap => vjob'.processed >= vjob.processed)
  <1>. SUFFICES ASSUME ~Overlap
                PROVE  SameRow' /\ CountsAddUp' /\ vjob'.processed >= vjob.processed
    BY DEF SameRow, CountsAddUp
  <1>. USE DEF Shape, VTypeOK, RunnerType, JobType, SameRow, CountsAddUp
  <1>1. CASE UNCHANGED vvars
    BY <1>1 DEF vvars
  <1>2. ASSUME NEW r \in Runners, Begin(r)
        PROVE  SameRow' /\ CountsAddUp' /\ vjob'.processed >= vjob.processed
    BY <1>2 DEF Begin, Set, Step, IdleRun
  <1>3. ASSUME NEW r \in Runners, Start(r)
        PROVE  SameRow' /\ CountsAddUp' /\ vjob'.processed >= vjob.processed
    BY <1>3 DEF Start, Set, Step
  <1>4. ASSUME NEW r \in Runners, Refresh(r) \/ Reread(r)
        PROVE  SameRow' /\ CountsAddUp' /\ vjob'.processed >= vjob.processed
    <2>1. CASE Refresh(r)
      <3>1. vjob' = vjob /\ vrun[r].pc # "idle"
        BY <2>1 DEF Refresh, Step
      <3>2. \/ vrun' = [vrun EXCEPT ![r] = IdleRun]
            \/ vrun'[r].row = vjob /\ \A q \in Runners \ {r} : vrun'[q] = vrun[q]
        BY <2>1 DEF Refresh, Set
      <3>3. CASE vrun' = [vrun EXCEPT ![r] = IdleRun]
        <4>1. vrun'[r].pc = "idle" /\ \A q \in Runners \ {r} : vrun'[q] = vrun[q]
          BY <3>3 DEF IdleRun
        <4>. QED BY <3>1, <4>1
      <3>. QED BY <3>1, <3>2, <3>3
    <2>2. CASE Reread(r)
      <3>1. vjob' = vjob /\ vrun[r].pc # "idle"
        BY <2>2 DEF Reread, Step
      <3>2. vrun'[r].row = vrun[r].row /\ \A q \in Runners \ {r} : vrun'[q] = vrun[q]
        BY <2>2 DEF Reread, Set
      <3>. QED BY <3>1, <3>2
    <2>. QED BY <1>4, <2>1, <2>2
  <1>5. ASSUME NEW r \in Runners, CommitChunk(r)
        PROVE  SameRow' /\ CountsAddUp' /\ vjob'.processed >= vjob.processed
    <2>. DEFINE row == Tallied(vrun[r])
    <2>1. /\ row \in JobType /\ row.processed >= vrun[r].row.processed
          /\ vrun[r].row.checked + vrun[r].row.skipped = vrun[r].row.processed
               => row.checked + row.skipped = row.processed
      BY <1>5, TalliedCounts DEF CommitChunk, Step
    <2>2. /\ vjob'.processed = row.processed
          /\ vjob'.checked = row.checked
          /\ vjob'.skipped = row.skipped
      BY <1>5, <2>1 DEF CommitChunk, Written, Step
    <2>3. /\ vrun'[r].row = row
          /\ \A q \in Runners \ {r} : vrun'[q] = vrun[q] /\ vrun[q].pc = "idle"
      BY <1>5 DEF CommitChunk, Set, Step
    <2>4. /\ vrun[r].row.processed = vjob.processed /\ vrun[r].row.checked = vjob.checked
          /\ vrun[r].row.skipped = vjob.skipped /\ vrun[r].row \in JobType
      BY <1>5 DEF CommitChunk, Step
    <2>. HIDE DEF row
    <2>5. CountsAddUp' /\ vjob'.processed >= vjob.processed
      <3>1. row.checked + row.skipped = row.processed /\ row.processed >= vjob.processed
        BY <2>1, <2>4
      <3>. QED BY <2>2, <3>1
    <2>6. SameRow'
      BY <2>2, <2>3
    <2>. QED BY <2>5, <2>6
  <1>6. ASSUME NEW r \in Runners, Finish(r) \/ Fail(r) \/ Crash(r)
        PROVE  SameRow' /\ CountsAddUp' /\ vjob'.processed >= vjob.processed
    <2>1. /\ vjob'.processed = vjob.processed /\ vjob'.checked = vjob.checked
          /\ vjob'.skipped = vjob.skipped
      BY <1>6 DEF Finish, Fail, Crash
    <2>2. vrun'[r].pc = "idle" /\ \A q \in Runners \ {r} : vrun'[q] = vrun[q]
      BY <1>6 DEF Finish, Fail, Crash, Set, IdleRun
    <2>. QED BY <2>1, <2>2
  <1>7. CASE CancelRead \/ CancelCommit
    BY <1>7 DEF CancelRead, CancelCommit
  <1>8. ASSUME NEW c \in Contact, Edit(c) \/ Delete(c)
        PROVE  SameRow' /\ CountsAddUp' /\ vjob'.processed >= vjob.processed
    BY <1>8 DEF Edit, Delete
  <1>. QED BY <1>1, <1>2, <1>3, <1>4, <1>5, <1>6, <1>7, <1>8 DEF VNext, RunStep

\* Every contact of the snapshot is counted under one heading and once, for any
\* snapshot and chunk, any edits, deletions, failures, deaths and resumes.
THEOREM CountsAddUpHolds ==
    ASSUME N \in Nat, MaxCrashes \in Nat
    PROVE  VSpec => []CountsAddUp
  <1>1. VInit => SameRow /\ CountsAddUp
    BY DEF VInit, NewJob, IdleRun, SameRow, CountsAddUp
  <1>2. Shape /\ SameRow /\ CountsAddUp /\ [VNext]_vvars => SameRow' /\ CountsAddUp'
    BY SameRowKept
  <1>. QED BY <1>1, <1>2, InitShape, ShapeKept, PTL DEF VSpec

\* A job's row, its tasks and its verdicts have their types, its counts add up
\* and its verdicts belong to the addresses that are shown.
THEOREM ResultsHoldAlways ==
    ASSUME N \in Nat, MaxCrashes \in Nat, ~Raced
    PROVE  VSpec => []ResultsHold
  <1>1. Shape => VTypeOK
    BY DEF Shape
  <1>2. VTypeOK /\ CountsAddUp /\ VerdictMatches => ResultsHold
    BY DEF ResultsHold
  <1>. QED
    BY <1>1, <1>2, InitShape, ShapeKept, CountsAddUpHolds, VerdictMatchesHolds, PTL DEF VSpec

-----------------------------------------------------------------------------
(* The mailbox *)

\* Positions are numbers and passes are records.
PassShape == [pc : {"idle", "list", "store", "waits"}, old : Nat, next : Nat,
              todo : SUBSET Mails, new : SUBSET Mails, answers : BOOLEAN]
MailboxShape ==
    /\ bhere \in Nat /\ bcursor \in Nat
    /\ bpass \in [Readers -> PassShape]

\* No reply up to c is missing from S.
Complete(c, S) == \A m \in Replies : m <= c => m \in S

\* A pass began where nothing was missing, and its watermark had arrived.  What
\* is missing up to the watermark it has listed, or inserted.
PassComplete(p) ==
    LET pass == bpass[p]
    IN pass.pc # "idle" =>
         /\ Complete(pass.old, bstored)
         /\ pass.pc = "list" => pass.next <= bhere
         /\ pass.pc # "list" => Complete(pass.next, bstored \union pass.todo \union pass.new)

CursorInv ==
    /\ MailboxShape
    /\ NoneMissed
    /\ \A p \in Readers : PassComplete(p)

-----------------------------------------------------------------------------

\* Numbers and records stay what they are.
LEMMA MailboxShapeKept ==
    ASSUME Mails \subseteq Nat, MailboxShape, [BNext]_bvars
    PROVE  MailboxShape'
  <1>. USE DEF MailboxShape
  <1>0. /\ IdlePass \in PassShape
        /\ \A p \in Readers, pass \in PassShape : Put(p, pass) => bpass' \in [Readers -> PassShape]
        /\ \A c : Newer(c) \subseteq Mails
    BY DEF IdlePass, PassShape, Put, Newer
  <1>1. CASE UNCHANGED bvars
    BY <1>1 DEF bvars
  <1>2. CASE MailArrives
    BY <1>2 DEF MailArrives
  <1>3. ASSUME NEW p \in Readers, Watermark(p) PROVE MailboxShape'
    <2>1. [IdlePass EXCEPT !.pc = "list", !.old = bcursor, !.next = bhere] \in PassShape
      BY DEF IdlePass, PassShape
    <2>. QED BY <1>0, <1>3, <2>1 DEF Watermark, InboxKept
  <1>4. ASSUME NEW p \in Readers, ListNewer(p) \/ ListPart(p) PROVE MailboxShape'
    <2>1. \A S \in SUBSET Mails :
            /\ [bpass[p] EXCEPT !.pc = "store", !.todo = S] \in PassShape
            /\ [bpass[p] EXCEPT !.pc = "store", !.todo = S, !.next = bpass[p].old] \in PassShape
      BY DEF PassShape
    <2>2. bpass' \in [Readers -> PassShape]
      BY <1>0, <1>4, <2>1 DEF ListNewer, ListPart
    <2>. QED BY <1>4, <2>2 DEF ListNewer, ListPart, InboxKept
  <1>5. ASSUME NEW p \in Readers, StoreStep(p) PROVE MailboxShape'
    <2>1. ASSUME NEW m \in Mails, PassOver(p, m) \/ Wait(p, m) PROVE MailboxShape'
      BY <2>1 DEF PassOver, Wait, Put, InboxKept, PassShape
    <2>2. ASSUME NEW m \in Mails, NEW answer \in BOOLEAN, StoreReply(p, m, answer) PROVE MailboxShape'
      <3>1. PICK b \in BOOLEAN :
              bpass' = [bpass EXCEPT ![p] = [bpass[p] EXCEPT !.todo = @ \ {m},
                                             !.new = @ \union {m}, !.answers = b]]
        BY <2>2 DEF StoreReply, Put, PassShape
      <3>. QED BY <2>2, <3>1 DEF StoreReply, InboxKept, PassShape
    <2>. QED BY <1>5, <2>1, <2>2 DEF StoreStep
  <1>6. ASSUME NEW p \in Readers, WaitEnds(p) PROVE MailboxShape'
    <2>1. [bpass[p] EXCEPT !.pc = "store"] \in PassShape
      BY DEF PassShape
    <2>2. bpass' \in [Readers -> PassShape]
      BY <1>0, <1>6, <2>1 DEF WaitEnds
    <2>. QED BY <1>6, <2>2 DEF WaitEnds, InboxKept
  <1>7. ASSUME NEW p \in Readers, CommitPass(p) \/ LosePass(p) PROVE MailboxShape'
    <2>1. bpass' \in [Readers -> PassShape]
      BY <1>0, <1>7 DEF CommitPass, LosePass
    <2>2. bpass[p].next \in Nat
      BY DEF PassShape
    <2>. QED BY <1>7, <2>1, <2>2 DEF CommitPass, LosePass, InboxKept
  <1>. QED
    BY <1>1, <1>2, <1>3, <1>4, <1>5, <1>6, <1>7 DEF BNext, PassStep

\* A pass that is not touched stays complete: the inbox only grows.
LEMMA OthersComplete ==
    ASSUME MailboxShape, NEW p \in Readers, PassComplete(p), bpass'[p] = bpass[p],
           bstored \subseteq bstored', bhere' \in Nat, bhere <= bhere'
    PROVE  PassComplete(p)'
  BY DEF MailboxShape, PassShape, PassComplete, Complete

\* A step of a pass leaves it complete, and the cursor behind what is stored.
LEMMA OwnComplete ==
    ASSUME Mails \subseteq Nat, Replies \subseteq Mails, CursorInv,
           NEW p \in Readers, PassStep(p) \/ ListPart(p) \/ LosePass(p)
    PROVE  PassComplete(p)' /\ NoneMissed' /\ bstored \subseteq bstored'
  <1>. USE DEF CursorInv, MailboxShape, PassShape, PassComplete, Complete, NoneMissed
  <1>1. CASE Watermark(p)
    BY <1>1 DEF Watermark, Put, InboxKept, IdlePass, PassAt
  <1>2. CASE ListNewer(p)
    BY <1>2 DEF ListNewer, Put, InboxKept, PassAt, Newer
  <1>3. CASE ListPart(p)
    BY <1>3 DEF ListPart, Put, InboxKept, PassAt
  <1>4. ASSUME NEW m \in Mails, PassOver(p, m) \/ Wait(p, m)
        PROVE  PassComplete(p)' /\ NoneMissed' /\ bstored \subseteq bstored'
    BY <1>4 DEF PassOver, Wait, Put, InboxKept, Turn, PassAt
  <1>5. ASSUME NEW m \in Mails, NEW answer \in BOOLEAN, StoreReply(p, m, answer)
        PROVE  PassComplete(p)' /\ NoneMissed' /\ bstored \subseteq bstored'
    <2>1. /\ bpass'[p].pc = bpass[p].pc /\ bpass[p].pc = "store"
          /\ bpass'[p].old = bpass[p].old /\ bpass'[p].next = bpass[p].next
          /\ bpass'[p].todo = bpass[p].todo \ {m}
          /\ bpass'[p].new = bpass[p].new \union {m}
      BY <1>5 DEF StoreReply, Put, Turn, PassAt
    <2>. QED BY <1>5, <2>1 DEF StoreReply, InboxKept
  <1>6. CASE WaitEnds(p)
    BY <1>6 DEF WaitEnds, Put, InboxKept, IdlePass, PassAt
  <1>7. CASE CommitPass(p)
    <2>1. Complete(bpass[p].next, bstored')
      BY <1>7 DEF CommitPass, PassAt
    <2>. QED BY <1>7, <2>1 DEF CommitPass, Put, IdlePass
  <1>8. CASE LosePass(p)
    BY <1>8 DEF LosePass, Put, InboxKept, IdlePass
  <1>. QED
    BY <1>1, <1>2, <1>3, <1>4, <1>5, <1>6, <1>7, <1>8 DEF PassStep, StoreStep

\* No reply lies behind the committed cursor that is not in the inbox, for any
\* mails, any number of overlapping passes, incomplete fetches and deaths.
THEOREM NoneMissedHolds ==
    ASSUME Mails \subseteq Nat, Replies \subseteq Mails, 0 \notin Replies
    PROVE  BSpec => []NoneMissed
  <1>1. BInit => CursorInv
    BY DEF BInit, CursorInv, MailboxShape, PassShape, NoneMissed, PassComplete, IdlePass
  <1>2. CursorInv /\ [BNext]_bvars => CursorInv'
    <2>. SUFFICES ASSUME CursorInv, [BNext]_bvars PROVE CursorInv'
      OBVIOUS
    <2>1. MailboxShape'
      BY MailboxShapeKept DEF CursorInv
    <2>2. CASE UNCHANGED bvars
      BY <2>1, <2>2 DEF bvars, CursorInv, NoneMissed, PassComplete, Complete
    <2>3. CASE MailArrives
      <3>1. \A p \in Readers : PassComplete(p)'
        BY <2>1, <2>3, OthersComplete DEF MailArrives, CursorInv, MailboxShape
      <3>. QED BY <2>1, <2>3, <3>1 DEF MailArrives, CursorInv, NoneMissed
    <2>4. ASSUME NEW p \in Readers, PassStep(p) \/ ListPart(p) \/ LosePass(p)
          PROVE  CursorInv'
      <3>1. PassComplete(p)' /\ NoneMissed' /\ bstored \subseteq bstored'
        BY <2>4, OwnComplete
      <3>2. bhere' = bhere /\ \A q \in Readers \ {p} : bpass'[q] = bpass[q]
        BY <2>4 DEF CursorInv, MailboxShape, PassStep, StoreStep, Watermark, ListNewer, ListPart,
                    PassOver, Wait, StoreReply, WaitEnds, CommitPass, LosePass, Put, InboxKept
      <3>3. \A q \in Readers \ {p} : PassComplete(q)'
        BY <3>1, <3>2, OthersComplete DEF CursorInv, MailboxShape
      <3>. QED BY <2>1, <3>1, <3>3 DEF CursorInv
    <2>. QED BY <2>2, <2>3, <2>4 DEF BNext
  <1>3. CursorInv => NoneMissed
    BY DEF CursorInv
  <1>. QED BY <1>1, <1>2, <1>3, PTL DEF BSpec

-----------------------------------------------------------------------------
(* The mailbox: types, and the automatic reply *)

\* Passes of the state's type.
LEMMA PassTypes ==
    /\ IdlePass \in PassType /\ IdlePass.pc = "idle" /\ ~IdlePass.answers
    /\ \A pass \in PassType, S \in SUBSET Mails, T \in SUBSET Mails, answers \in BOOLEAN :
         /\ [pass EXCEPT !.pc = "store", !.todo = S] \in PassType
         /\ [pass EXCEPT !.pc = "store", !.todo = S, !.next = pass.old] \in PassType
         /\ [pass EXCEPT !.todo = S] \in PassType
         /\ [pass EXCEPT !.todo = S, !.new = T, !.answers = answers] \in PassType
         /\ [pass EXCEPT !.pc = "waits"] \in PassType
         /\ [pass EXCEPT !.pc = "store"] \in PassType
    /\ \A c, d \in MailCount : [IdlePass EXCEPT !.pc = "list", !.old = c, !.next = d] \in PassType
  <1>1. 0 \in MailCount
    BY MailAssumption DEF MailCount
  <1>. QED BY <1>1 DEF IdlePass, PassType

\* What a pass stores and commits are replies.
OnlyReplies == \A p \in Readers : bpass[p].new \subseteq Replies

LEMMA MailTypesKept ==
    ASSUME BTypeOK, OnlyReplies, [BNext]_bvars
    PROVE  BTypeOK' /\ OnlyReplies'
  <1>. USE DEF BTypeOK, OnlyReplies
  <1>1. CASE UNCHANGED bvars
    BY <1>1 DEF bvars
  <1>2. CASE MailArrives
    BY <1>2, MailAssumption DEF MailArrives, MailCount
  <1>3. ASSUME NEW p \in Readers, NEW pass \in PassType, Put(p, pass),
               pass.new \subseteq bpass[p].new
        PROVE  bpass' \in [Readers -> PassType] /\ OnlyReplies'
    BY <1>3 DEF Put
  <1>4. ASSUME NEW p \in Readers, Watermark(p) PROVE BTypeOK' /\ OnlyReplies'
    <2>1. PICK pass \in PassType : Put(p, pass) /\ pass.new = {}
      BY <1>4, PassTypes DEF Watermark, IdlePass
    <2>. QED BY <1>3, <1>4, <2>1 DEF Watermark, InboxKept
  <1>5. ASSUME NEW p \in Readers, ListNewer(p) \/ ListPart(p) PROVE BTypeOK' /\ OnlyReplies'
    <2>1. \A S \in SUBSET Newer(bpass[p].old) : S \in SUBSET Mails
      BY DEF Newer
    <2>2. PICK pass \in PassType : Put(p, pass) /\ pass.new = bpass[p].new
      <3>1. PICK S \in SUBSET Newer(bpass[p].old) :
              \/ Put(p, [bpass[p] EXCEPT !.pc = "store", !.todo = S])
              \/ Put(p, [bpass[p] EXCEPT !.pc = "store", !.todo = S, !.next = bpass[p].old])
        BY <1>5 DEF ListNewer, ListPart
      <3>2. bpass[p] \in PassType
        OBVIOUS
      <3>3. /\ [bpass[p] EXCEPT !.pc = "store", !.todo = S].new = bpass[p].new
            /\ [bpass[p] EXCEPT !.pc = "store", !.todo = S, !.next = bpass[p].old].new = bpass[p].new
        BY <3>2 DEF PassType
      <3>. QED BY <2>1, <3>1, <3>2, <3>3, PassTypes
    <2>3. bpass' \in [Readers -> PassType] /\ OnlyReplies'
      BY <1>3, <2>2
    <2>4. berrors' \in 0..MaxErrors /\ UNCHANGED <<bhere, bcursor, bstored, banswers, blost, bover>>
      <3>1. berrors \in 0..MaxErrors /\ MaxErrors \in Nat
        BY MailAssumption
      <3>2. CASE ListNewer(p)
        BY <3>1, <3>2 DEF ListNewer, InboxKept
      <3>3. CASE ListPart(p)
        BY <3>1, <3>3 DEF ListPart, InboxKept
      <3>. QED BY <1>5, <3>2, <3>3
    <2>. QED BY <2>3, <2>4
  <1>6. ASSUME NEW p \in Readers, StoreStep(p) PROVE BTypeOK' /\ OnlyReplies'
    <2>1. bpass[p] \in PassType /\ bpass[p].todo \subseteq Mails /\ bpass[p].new \subseteq Replies
          /\ bpass[p].answers \in BOOLEAN
      BY DEF PassType
    <2>2. ASSUME NEW m \in Mails, PassOver(p, m) \/ Wait(p, m) PROVE BTypeOK' /\ OnlyReplies'
      <3>1. PICK pass \in PassType : Put(p, pass) /\ pass.new = bpass[p].new
        <4>1. /\ [bpass[p] EXCEPT !.todo = @ \ {m}].new = bpass[p].new
              /\ [bpass[p] EXCEPT !.pc = "waits"].new = bpass[p].new
          BY <2>1 DEF PassType
        <4>2. /\ [bpass[p] EXCEPT !.todo = @ \ {m}] \in PassType
              /\ [bpass[p] EXCEPT !.pc = "waits"] \in PassType
          BY <2>1 DEF PassType
        <4>. QED BY <2>2, <4>1, <4>2 DEF PassOver, Wait
      <3>. QED BY <1>3, <2>2, <3>1 DEF PassOver, Wait, InboxKept
    <2>3. ASSUME NEW m \in Mails, NEW answer \in BOOLEAN, StoreReply(p, m, answer)
          PROVE  BTypeOK' /\ OnlyReplies'
      <3>. DEFINE more == bpass[p].answers \/ (answer /\ ~Answered(p))
                  pass == [bpass[p] EXCEPT !.todo = @ \ {m}, !.new = @ \union {m}, !.answers = more]
      <3>1. m \in Replies /\ Put(p, pass)
        BY <2>3 DEF StoreReply
      <3>2. more \in BOOLEAN
        BY <2>1
      <3>. HIDE DEF more
      <3>3. pass \in PassType /\ pass.new = bpass[p].new \union {m}
        BY <2>1, <3>2 DEF PassType
      <3>. HIDE DEF pass
      <3>4. bpass' \in [Readers -> PassType] /\ OnlyReplies'
        BY <2>1, <3>1, <3>3 DEF Put
      <3>. QED BY <2>3, <3>4 DEF StoreReply, InboxKept
    <2>. QED BY <1>6, <2>2, <2>3 DEF StoreStep
  <1>7. ASSUME NEW p \in Readers, WaitEnds(p) PROVE BTypeOK' /\ OnlyReplies'
    <2>1. PICK pass \in PassType : Put(p, pass) /\ pass.new \subseteq bpass[p].new
      <3>1. bpass[p] \in PassType
        OBVIOUS
      <3>2. [bpass[p] EXCEPT !.pc = "store"].new = bpass[p].new /\ IdlePass.new = {}
        BY <3>1 DEF PassType, IdlePass
      <3>. QED BY <1>7, <3>1, <3>2, PassTypes DEF WaitEnds
    <2>. QED BY <1>3, <1>7, <2>1 DEF WaitEnds, InboxKept
  <1>8. ASSUME NEW p \in Readers, CommitPass(p) \/ LosePass(p) PROVE BTypeOK' /\ OnlyReplies'
    <2>1. bpass[p].next \in MailCount /\ bpass[p].new \subseteq Replies
      BY DEF PassType
    <2>2. bpass' \in [Readers -> PassType] /\ OnlyReplies'
      <3>1. Put(p, IdlePass) /\ IdlePass.new \subseteq bpass[p].new
        BY <1>8 DEF CommitPass, LosePass, IdlePass
      <3>. QED BY <1>3, <3>1, PassTypes
    <2>3. CASE CommitPass(p)
      BY <2>1, <2>2, <2>3 DEF CommitPass
    <2>4. CASE LosePass(p)
      BY <2>2, <2>4, MailAssumption DEF LosePass, InboxKept
    <2>. QED BY <1>8, <2>3, <2>4
  <1>. QED
    BY <1>1, <1>2, <1>4, <1>5, <1>6, <1>7, <1>8 DEF BNext, PassStep

\* BTypeOK is an invariant.
LEMMA MailTypes == BSpec => [](BTypeOK /\ OnlyReplies)
  <1>1. BInit => BTypeOK /\ OnlyReplies
    <2>. SUFFICES ASSUME BInit PROVE BTypeOK /\ OnlyReplies
      OBVIOUS
    <2>1. bhere \in MailCount /\ bcursor \in MailCount
      BY MailAssumption DEF BInit, MailCount
    <2>2. berrors \in 0..MaxErrors /\ blost \in 0..MaxAborted /\ banswers \in 0..2
      BY MailAssumption DEF BInit
    <2>3. bover \in BOOLEAN
      BY Zenon DEF BInit
    <2>4. bpass \in [Readers -> PassType] /\ OnlyReplies
      <3>1. IdlePass.new = {}
        BY DEF IdlePass
      <3>. QED BY <3>1, PassTypes DEF BInit, OnlyReplies
    <2>. QED BY <2>1, <2>2, <2>3, <2>4 DEF BInit, BTypeOK
  <1>2. BTypeOK /\ OnlyReplies /\ [BNext]_bvars => BTypeOK' /\ OnlyReplies'
    BY MailTypesKept
  <1>. QED BY <1>1, <1>2, PTL DEF BSpec

\* Passes that follow one another: a reply that is queued is the first.
AnswerInv ==
    ~bover =>
        /\ \A p, q \in Readers : ~PassAt(p, "idle") /\ ~PassAt(q, "idle") => p = q
        /\ \A p \in Readers : bpass[p].answers => banswers = 0 /\ ~PassAt(p, "idle")
        /\ banswers <= 1

LEMMA AnswersKept ==
    ASSUME BTypeOK, AnswerInv, [BNext]_bvars
    PROVE  AnswerInv'
  <1>. SUFFICES ASSUME ~bover' PROVE AnswerInv'
    BY DEF AnswerInv
  <1>. USE DEF BTypeOK, AnswerInv, PassAt
  <1>0. \A p \in Readers : bpass[p] \in PassType
    OBVIOUS
  <1>1. CASE UNCHANGED bvars \/ MailArrives
    BY <1>1 DEF bvars, MailArrives
  <1>2. ASSUME NEW p \in Readers, Watermark(p) PROVE AnswerInv'
    <2>1. /\ \A q \in Readers : bpass[q].pc = "idle"
          /\ banswers' = banswers /\ ~bover
      BY <1>2 DEF Watermark, InboxKept
    <2>2. \A q \in Readers \ {p} : bpass'[q] = bpass[q]
      BY <1>2 DEF Watermark, Put
    <2>3. ~bpass'[p].answers
      BY <1>2 DEF Watermark, Put, IdlePass
    <2>. QED BY <2>1, <2>2, <2>3
  <1>3. ASSUME NEW p \in Readers, ~PassAt(p, "idle"), banswers' = banswers, bover' = bover,
               \A q \in Readers \ {p} : bpass'[q] = bpass[q],
               ~bpass'[p].answers \/ /\ ~PassAt(p, "idle")'
                                     /\ bpass[p].answers \/ ~Answered(p)
        PROVE  AnswerInv'
    <2>1. bpass'[p].answers => banswers = 0
      BY <1>3 DEF Answered
    <2>. QED BY <1>3, <2>1
  <1>4. ASSUME NEW p \in Readers, ListNewer(p) \/ ListPart(p) PROVE AnswerInv'
    <2>1. /\ bpass'[p].answers = bpass[p].answers /\ bpass'[p].pc = "store"
          /\ \A q \in Readers \ {p} : bpass'[q] = bpass[q]
      <3>1. CASE ListNewer(p)
        BY <1>0, <3>1 DEF ListNewer, Put, PassType
      <3>2. CASE ListPart(p)
        <4>1. PICK S : bpass' = [bpass EXCEPT ![p] = [bpass[p] EXCEPT !.pc = "store", !.todo = S,
                                                                      !.next = bpass[p].old]]
          BY <3>2 DEF ListPart, Put
        <4>. QED BY <1>0, <4>1 DEF PassType
      <3>. QED BY <1>4, <3>1, <3>2
    <2>. QED BY <1>3, <1>4, <2>1 DEF ListNewer, ListPart, InboxKept
  <1>5. ASSUME NEW p \in Readers, NEW m \in Mails, PassOver(p, m) \/ Wait(p, m) PROVE AnswerInv'
    <2>1. /\ bpass'[p].answers = bpass[p].answers /\ bpass'[p].pc \in {"store", "waits"}
          /\ \A q \in Readers \ {p} : bpass'[q] = bpass[q]
      BY <1>0, <1>5 DEF PassOver, Wait, Turn, Put, PassType
    <2>. QED BY <1>3, <1>5, <2>1 DEF PassOver, Wait, Turn, InboxKept
  <1>6. ASSUME NEW p \in Readers, NEW m \in Mails, NEW answer \in BOOLEAN, StoreReply(p, m, answer)
        PROVE  AnswerInv'
    <2>. DEFINE more == bpass[p].answers \/ (answer /\ ~Answered(p))
    <2>1. more => bpass[p].answers \/ ~Answered(p)
      OBVIOUS
    <2>2. bpass' = [bpass EXCEPT ![p] = [bpass[p] EXCEPT !.todo = @ \ {m}, !.new = @ \union {m},
                                                         !.answers = more]]
      BY <1>6 DEF StoreReply, Put
    <2>. HIDE DEF more
    <2>3. /\ bpass'[p].answers = more /\ bpass'[p].pc = bpass[p].pc
          /\ \A q \in Readers \ {p} : bpass'[q] = bpass[q]
      BY <1>0, <2>2 DEF PassType
    <2>4. bpass[p].pc = "store" /\ banswers' = banswers /\ bover' = bover
      BY <1>6 DEF StoreReply, Turn, InboxKept
    <2>. QED BY <1>3, <2>1, <2>3, <2>4
  <1>7. ASSUME NEW p \in Readers, WaitEnds(p) PROVE AnswerInv'
    <2>1. /\ \/ bpass'[p].answers = bpass[p].answers /\ bpass'[p].pc = "store"
             \/ ~bpass'[p].answers
          /\ \A q \in Readers \ {p} : bpass'[q] = bpass[q]
      <3>1. bpass' = [bpass EXCEPT ![p] = IdlePass]
            \/ bpass' = [bpass EXCEPT ![p] = [bpass[p] EXCEPT !.pc = "store"]]
        BY <1>7 DEF WaitEnds, Put
      <3>2. CASE bpass' = [bpass EXCEPT ![p] = IdlePass]
        BY <3>2, PassTypes
      <3>3. CASE bpass' = [bpass EXCEPT ![p] = [bpass[p] EXCEPT !.pc = "store"]]
        BY <1>0, <3>3 DEF PassType
      <3>. QED BY <3>1, <3>2, <3>3
    <2>. QED BY <1>3, <1>7, <2>1 DEF WaitEnds, InboxKept
  <1>8. ASSUME NEW p \in Readers, LosePass(p) PROVE AnswerInv'
    <2>1. ~bpass'[p].answers /\ \A q \in Readers \ {p} : bpass'[q] = bpass[q]
      BY <1>8, PassTypes DEF LosePass, Put
    <2>. QED BY <1>3, <1>8, <2>1 DEF LosePass, InboxKept
  <1>9. ASSUME NEW p \in Readers, CommitPass(p) PROVE AnswerInv'
    <2>1. /\ ~bpass'[p].answers /\ bpass'[p].pc = "idle"
          /\ \A q \in Readers \ {p} : bpass'[q] = bpass[q]
      BY <1>9, PassTypes DEF CommitPass, Put
    <2>2. bpass[p].pc = "store" /\ bover' = bover
      BY <1>9 DEF CommitPass
    <2>3. \A q \in Readers \ {p} : ~bpass[q].answers
      BY <2>2
    <2>4. banswers' <= 1
      BY <1>9, <2>2 DEF CommitPass
    <2>. QED BY <2>1, <2>2, <2>3, <2>4
  <1>. QED
    BY <1>1, <1>2, <1>4, <1>5, <1>6, <1>7, <1>8, <1>9 DEF BNext, PassStep, StoreStep

\* A contact gets one automatic reply in the cooldown, however many mails it
\* writes and whichever passes fail or die, if passes do not overlap.
THEOREM MailAnsweredOnceHolds == BSpec => [](BTypeOK /\ MailAnsweredOnce)
  <1>1. BInit => AnswerInv
    <2>1. BInit => banswers = 0 /\ \A p \in Readers : bpass[p].pc = "idle" /\ ~bpass[p].answers
      BY PassTypes DEF BInit
    <2>. QED BY <2>1 DEF AnswerInv, PassAt
  <1>2. BTypeOK /\ AnswerInv /\ [BNext]_bvars => AnswerInv'
    BY AnswersKept
  <1>3. AnswerInv => MailAnsweredOnce
    BY DEF AnswerInv, MailAnsweredOnce
  <1>. QED BY <1>1, <1>2, <1>3, MailTypes, PTL DEF BSpec

-----------------------------------------------------------------------------
(* The texts *)

\* Counters are numbers and requests are records.
RequestShape ==
    [pc : {"idle", "event", "store", "answer", "end", "broken"},
     text : Texts \union {NoText}, saved : BOOLEAN,
     unread : Nat, out : BOOLEAN, counted : BOOLEAN, replies : Nat]
TextsShape ==
    /\ tunread \in Nat /\ treplies \in Nat /\ trefused \in Nat
    /\ tout \in BOOLEAN /\ tcounted \in BOOLEAN
    /\ th \in [Handlers -> RequestShape]

\* While the database has refused nothing, each event on record is in the inbox,
\* and so is what an automatic reply has committed.
StoredInv ==
    trefused = 0 =>
        /\ tevent \subseteq tstored
        /\ tacked \subseteq tstored
        /\ \A h \in Handlers : /\ th[h].saved => th[h].text \in tstored
                               /\ th[h].pc # "broken"

-----------------------------------------------------------------------------

\* Numbers and records stay what they are.
LEMMA TextsShapeKept ==
    ASSUME TextsShape, [TNext]_tvars
    PROVE  TextsShape'
  <1>. USE DEF TextsShape
  <1>0. /\ IdleHandler \in RequestShape
        /\ \A h \in Handlers, r \in RequestShape : [th EXCEPT ![h] = r] \in [Handlers -> RequestShape]
    BY DEF IdleHandler, RequestShape
  <1>1. CASE UNCHANGED tvars
    BY <1>1 DEF tvars
  <1>2. ASSUME NEW h \in Handlers, NEW x \in Texts, Deliver(h, x) PROVE TextsShape'
    <2>1. [IdleHandler EXCEPT !.pc = "event", !.text = x] \in RequestShape
      BY DEF IdleHandler, RequestShape
    <2>. QED BY <1>0, <1>2, <2>1 DEF Deliver, Inbox, Bounds
  <1>3. ASSUME NEW h \in Handlers, NEW pc \in {"store", "end", "broken"}, Goto(h, pc)
        PROVE  th' \in [Handlers -> RequestShape]
    BY <1>3 DEF Goto, RequestShape
  <1>4. ASSUME NEW h \in Handlers, Event(h) PROVE TextsShape'
    BY <1>0, <1>3, <1>4 DEF Event, Inbox, Bounds
  <1>5. ASSUME NEW h \in Handlers, StoreText(h) PROVE TextsShape'
    <2>1. PICK o \in BOOLEAN :
            th' = [th EXCEPT ![h] = [th[h] EXCEPT !.pc = "answer", !.unread = tunread, !.out = o,
                                                  !.counted = tcounted, !.replies = treplies]]
      BY <1>5 DEF StoreText
    <2>2. th' \in [Handlers -> RequestShape]
      BY <2>1 DEF RequestShape
    <2>. QED BY <1>5, <2>2 DEF StoreText, Inbox, Bounds
  <1>6. ASSUME NEW h \in Handlers, Applied(h)
        PROVE  tunread' \in Nat /\ treplies' \in Nat /\ tout' \in BOOLEAN /\ tcounted' \in BOOLEAN
    BY <1>6 DEF Applied, RequestShape
  <1>7. ASSUME NEW h \in Handlers, Answer(h) PROVE TextsShape'
    <2>1. th' \in [Handlers -> RequestShape]
      BY <1>7 DEF Answer, RequestShape
    <2>. QED BY <1>6, <1>7, <2>1 DEF Answer, Bounds
  <1>8. ASSUME NEW h \in Handlers, NoAnswer(h) \/ Refused(h) PROVE TextsShape'
    BY <1>3, <1>8 DEF NoAnswer, Refused, Inbox, Bounds
  <1>9. ASSUME NEW h \in Handlers, Ends(h) \/ BrokenEnds(h) \/ Kill(h) PROVE TextsShape'
    BY <1>0, <1>6, <1>9 DEF Ends, BrokenEnds, Acked, Kill, Inbox, Bounds
  <1>10. CASE Look
    BY <1>10 DEF Look, Bounds
  <1>. QED
    BY <1>1, <1>2, <1>4, <1>5, <1>7, <1>8, <1>9, <1>10 DEF TNext, HandlerStep

\* Each step leaves what is on record in the inbox.
LEMMA StoredKept ==
    ASSUME TextsShape, StoredInv, [TNext]_tvars
    PROVE  StoredInv'
  <1>. USE DEF TextsShape, RequestShape, StoredInv
  <1>1. CASE UNCHANGED tvars
    BY <1>1 DEF tvars
  <1>2. ASSUME NEW h \in Handlers, NEW x \in Texts, Deliver(h, x) PROVE StoredInv'
    <2>1. trefused' = trefused /\ tevent' = tevent /\ tstored' = tstored
      BY <1>2 DEF Deliver, Inbox, Bounds
    <2>2. tacked' \subseteq tacked \union tevent
      BY <1>2 DEF Deliver
    <2>3. \A g \in Handlers : th'[g] = th[g] \/ (~th'[g].saved /\ th'[g].pc = "event")
      <3>. DEFINE r == [IdleHandler EXCEPT !.pc = "event", !.text = x]
      <3>1. r.pc = "event" /\ r.saved = FALSE
        BY DEF IdleHandler
      <3>2. th' = th \/ th' = [th EXCEPT ![h] = r]
        BY <1>2 DEF Deliver
      <3>. HIDE DEF r
      <3>. QED BY <3>1, <3>2
    <2>. QED BY <2>1, <2>2, <2>3
  <1>3. ASSUME NEW h \in Handlers, Event(h) PROVE StoredInv'
    BY <1>3 DEF Event, Goto, Inbox, Bounds, IdleHandler
  <1>4. ASSUME NEW h \in Handlers, StoreText(h) PROVE StoredInv'
    BY <1>4 DEF StoreText, Inbox, Bounds
  <1>5. ASSUME NEW h \in Handlers, Answer(h) PROVE StoredInv'
    BY <1>5 DEF Answer, Applied, Bounds
  <1>6. ASSUME NEW h \in Handlers, NoAnswer(h) PROVE StoredInv'
    BY <1>6 DEF NoAnswer, Goto, Inbox, Bounds
  <1>7. ASSUME NEW h \in Handlers, Ends(h) PROVE StoredInv'
    <2>1. trefused = 0 => th[h].text \in tstored' /\ tstored \subseteq tstored'
      BY <1>7 DEF Ends, Applied, Inbox
    <2>. QED BY <1>7, <2>1 DEF Ends, Acked, Bounds, IdleHandler
  <1>8. ASSUME NEW h \in Handlers, BrokenEnds(h) PROVE StoredInv'
    BY <1>8 DEF BrokenEnds, Acked, At, Bounds
  <1>9. ASSUME NEW h \in Handlers, Refused(h) PROVE StoredInv'
    BY <1>9 DEF Refused
  <1>10. ASSUME NEW h \in Handlers, Kill(h) PROVE StoredInv'
    BY <1>10 DEF Kill, Inbox, IdleHandler
  <1>11. CASE Look
    BY <1>11 DEF Look, Bounds
  <1>. QED
    BY <1>1, <1>2, <1>3, <1>4, <1>5, <1>6, <1>7, <1>8, <1>9, <1>10, <1>11
    DEF TNext, HandlerStep

\* A text for which the device was answered is in the inbox, for any texts, any
\* number of repeated and overlapping deliveries and of requests that die, as
\* long as the database refuses no statement.
THEOREM AckedIsStoredHolds == TSpec => []AckedIsStored
  <1>1. TInit => TextsShape /\ StoredInv
    <2>1. IdleHandler \in RequestShape /\ ~IdleHandler.saved /\ IdleHandler.pc = "idle"
      BY DEF IdleHandler, RequestShape
    <2>2. TInit => th \in [Handlers -> RequestShape] /\ \A h \in Handlers : th[h] = IdleHandler
      BY <2>1 DEF TInit
    <2>3. TInit => tout \in BOOLEAN /\ tcounted \in BOOLEAN
      BY Zenon DEF TInit
    <2>. QED BY <2>1, <2>2, <2>3 DEF TInit, TextsShape, StoredInv
  <1>2. TextsShape /\ StoredInv /\ [TNext]_tvars => TextsShape' /\ StoredInv'
    BY TextsShapeKept, StoredKept
  <1>3. StoredInv => AckedIsStored
    BY DEF StoredInv, AckedIsStored
  <1>. QED BY <1>1, <1>2, <1>3, PTL DEF TSpec

-----------------------------------------------------------------------------
(* The texts: types, and counts that are right for requests in a row *)

\* A request that has a text to store, and nothing of it committed.
Owing(h) == th[h].pc \in {"store", "answer", "end"} /\ ~th[h].saved

\* Each text is stored once, and no counter has more than the texts stored.
HandlerCounted(h) ==
    /\ th[h].pc # "idle" => th[h].text \in Texts
    /\ th[h].pc \in {"idle", "event", "store", "answer"} => ~th[h].saved
    /\ Owing(h) => th[h].text \notin tstored
    /\ th[h].unread <= Cardinality(tstored) /\ th[h].replies <= Cardinality(tstored)

CountInv ==
    /\ TextsShape
    /\ tevent \subseteq Texts /\ tacked \subseteq Texts /\ tstored \subseteq tevent
    /\ tnew \in Nat /\ tnew <= Cardinality(tstored)
    /\ tunread <= Cardinality(tstored) /\ treplies <= Cardinality(tstored)
    /\ tanswers \in {0, 1} /\ (tanswers = 1 => tstored # {})
    /\ trefused \in 0..MaxRefused /\ tkilled \in 0..MaxKilled /\ tover \in BOOLEAN
    /\ \A h \in Handlers : HandlerCounted(h)
    /\ \A g, h \in Handlers : g # h /\ Owing(g) /\ Owing(h) => th[g].text # th[h].text

LEMMA StoredCounted ==
    ASSUME CountInv
    PROVE  /\ Cardinality(tstored) \in Nat
           /\ \A x \in Texts \ tstored :
                Cardinality(tstored \union {x}) = Cardinality(tstored) + 1
           /\ Cardinality(tstored) <= Cardinality(Texts) /\ Cardinality(Texts) \in Nat
           /\ tstored # {} => Cardinality(tstored) >= 1
  <1>1. IsFiniteSet(tstored)
    BY FS_Subset, TextsAssumption DEF CountInv
  <1>2. tstored \subseteq Texts
    BY DEF CountInv
  <1>. QED BY <1>1, <1>2, TextsAssumption, FS_Subset, FS_AddElement, FS_CardinalityType, FS_EmptySet

\* A commit of a text that is new.
LEMMA AppliedCounted ==
    ASSUME CountInv, NEW h \in Handlers, th[h].pc \in {"answer", "end"}, ~th[h].saved, Applied(h)
    PROVE  /\ Cardinality(tstored') = Cardinality(tstored) + 1 /\ Cardinality(tstored) \in Nat
           /\ tstored' = tstored \union {th[h].text} /\ th[h].text \in Texts
           /\ tnew' \in Nat /\ tnew' <= Cardinality(tstored')
           /\ tunread' <= Cardinality(tstored') /\ treplies' <= Cardinality(tstored')
  <1>1. th[h].text \in Texts /\ th[h].text \notin tstored
    BY DEF CountInv, HandlerCounted, Owing
  <1>2. /\ Cardinality(tstored') = Cardinality(tstored) + 1 /\ Cardinality(tstored) \in Nat
        /\ tstored' = tstored \union {th[h].text}
    BY <1>1, StoredCounted DEF Applied
  <1>3. /\ tnew \in Nat /\ tnew <= Cardinality(tstored)
        /\ treplies \in Nat /\ treplies <= Cardinality(tstored)
        /\ th[h].unread \in Nat /\ th[h].unread <= Cardinality(tstored)
        /\ th[h].replies \in Nat /\ th[h].replies <= Cardinality(tstored)
    BY DEF CountInv, HandlerCounted, TextsShape, RequestShape
  <1>4. /\ tnew' = tnew + 1 /\ tunread' = th[h].unread + 1
        /\ treplies' = treplies \/ treplies' = th[h].replies + 1
    BY DEF Applied
  <1>. QED BY <1>1, <1>2, <1>3, <1>4

\* Requests in a row load what is there, and count one reply.
RowInv ==
    ~tover =>
        /\ \A g, h \in Handlers : ~At(g, "idle") /\ ~At(h, "idle") => g = h
        /\ treplies = (IF tstored = {} THEN 0 ELSE 1)
        /\ tcounted <=> tstored # {}
        /\ tunread = tnew
        /\ \A h \in Handlers : th[h].pc \in {"answer", "end"} /\ ~th[h].saved =>
              /\ th[h].unread = tunread /\ th[h].replies = treplies
              /\ th[h].counted <=> tcounted
        /\ \A h \in Handlers : th[h].pc = "answer" /\ tout => th[h].out

\* Steps of a request that commit nothing.
LEMMA MovesCounted ==
    ASSUME CountInv, NEW h \in Handlers, NEW r,
           th' = [th EXCEPT ![h] = r], TextsShape',
           UNCHANGED Inbox, UNCHANGED <<tanswers, tover>>,
           tevent' \subseteq Texts, tevent \subseteq tevent', tacked' \subseteq Texts,
           trefused' \in 0..MaxRefused, tkilled' \in 0..MaxKilled,
           r.pc # "idle" => r.text \in Texts,
           r.pc \in {"idle", "event", "store", "answer"} => ~r.saved,
           r.pc \in {"store", "answer", "end"} /\ ~r.saved =>
              /\ r.text \notin tstored
              /\ \A g \in Handlers \ {h} : Owing(g) => th[g].text # r.text,
           r.unread \in {0, th[h].unread, tunread}, r.replies \in {0, th[h].replies, treplies}
    PROVE  CountInv'
  <1>1. th'[h] = r /\ \A g \in Handlers \ {h} : th'[g] = th[g]
    BY DEF CountInv, TextsShape
  <1>2. UNCHANGED <<tstored, tunread, tnew, treplies, tanswers, tover>>
    BY DEF Inbox
  <1>3. r.unread <= Cardinality(tstored) /\ r.replies <= Cardinality(tstored)
    BY StoredCounted DEF CountInv, HandlerCounted
  <1>4. \A g \in Handlers : HandlerCounted(g)'
    BY <1>1, <1>2, <1>3 DEF CountInv, HandlerCounted, Owing
  <1>5. \A g, k \in Handlers : g # k /\ Owing(g)' /\ Owing(k)' => th'[g].text # th'[k].text
    BY <1>1 DEF CountInv, Owing
  <1>. QED BY <1>2, <1>4, <1>5 DEF CountInv

\* A text is committed: it was owed by one request.
LEMMA CommitsCounted ==
    ASSUME CountInv, NEW h \in Handlers, th[h].pc \in {"answer", "end"}, ~th[h].saved,
           Applied(h), TextsShape', NEW r, th' = [th EXCEPT ![h] = r],
           tevent' = tevent \union {th[h].text}, tacked' \subseteq tacked \union {th[h].text},
           tanswers' \in {0, 1}, UNCHANGED <<trefused, tkilled, tover>>,
           \/ r = IdleHandler
           \/ /\ r.pc = "end" /\ r.saved /\ r.text = th[h].text
              /\ r.unread = th[h].unread /\ r.replies = th[h].replies
    PROVE  CountInv'
  <1>1. th'[h] = r /\ \A g \in Handlers \ {h} : th'[g] = th[g]
    BY DEF CountInv, TextsShape
  <1>2. /\ Cardinality(tstored') = Cardinality(tstored) + 1 /\ Cardinality(tstored) \in Nat
        /\ tstored' = tstored \union {th[h].text} /\ th[h].text \in Texts
        /\ tnew' \in Nat /\ tnew' <= Cardinality(tstored')
        /\ tunread' <= Cardinality(tstored') /\ treplies' <= Cardinality(tstored')
    BY AppliedCounted
  <1>3. \A g \in Handlers : /\ th[g].unread \in Nat /\ th[g].replies \in Nat
                            /\ th[g].unread <= Cardinality(tstored)
                            /\ th[g].replies <= Cardinality(tstored)
    BY DEF CountInv, HandlerCounted, TextsShape, RequestShape
  <1>4. HandlerCounted(h)' /\ ~Owing(h)'
    <2>1. CASE r = IdleHandler
      BY <1>1, <1>2, <2>1 DEF HandlerCounted, Owing, IdleHandler
    <2>2. CASE r # IdleHandler
      BY <1>1, <1>2, <1>3, <2>2 DEF HandlerCounted, Owing
    <2>. QED BY <2>1, <2>2
  <1>5. \A g \in Handlers \ {h} : HandlerCounted(g)'
    <2>. TAKE g \in Handlers \ {h}
    <2>1. th'[g] = th[g] /\ HandlerCounted(g)
      BY <1>1 DEF CountInv
    <2>2. Owing(g) => th[g].text # th[h].text
      BY DEF CountInv, Owing
    <2>3. th[g].unread <= Cardinality(tstored') /\ th[g].replies <= Cardinality(tstored')
      BY <1>2, <1>3
    <2>. QED BY <1>2, <2>1, <2>2, <2>3 DEF HandlerCounted, Owing
  <1>6. \A g, k \in Handlers : g # k /\ Owing(g)' /\ Owing(k)' => th'[g].text # th'[k].text
    BY <1>1, <1>4 DEF CountInv, Owing
  <1>. QED BY <1>2, <1>4, <1>5, <1>6 DEF CountInv

LEMMA TextsCounted ==
    ASSUME CountInv, [TNext]_tvars
    PROVE  CountInv'
  <1>0. TextsShape' /\ \A h \in Handlers : th[h] \in RequestShape
    BY TextsShapeKept DEF CountInv, TextsShape
  <1>. USE DEF At
  <1>1. CASE UNCHANGED tvars
    BY <1>1 DEF tvars, CountInv, TextsShape, HandlerCounted, Owing
  <1>2. CASE Look
    <2>1. 0 <= Cardinality(tstored)
      BY StoredCounted
    <2>. QED BY <1>0, <1>2, <2>1 DEF Look, Bounds, CountInv, HandlerCounted, Owing
  <1>3. ASSUME NEW h \in Handlers, NEW x \in Texts, Deliver(h, x) PROVE CountInv'
    <2>. DEFINE r == [IdleHandler EXCEPT !.pc = "event", !.text = x]
    <2>1. /\ r.pc = "event" /\ r.text = x /\ ~r.saved /\ r.unread = 0 /\ r.replies = 0
      BY DEF IdleHandler
    <2>2. tover' \in BOOLEAN
      BY <1>3, Zenon DEF Deliver, CountInv
    <2>3. CASE th' = th
      BY <1>0, <1>3, <2>2, <2>3 DEF Deliver, Inbox, Bounds, CountInv, HandlerCounted, Owing
    <2>4. CASE th' = [th EXCEPT ![h] = r]
      <3>. HIDE DEF r
      <3>1. th'[h] = r /\ \A g \in Handlers \ {h} : th'[g] = th[g]
        BY <2>4 DEF CountInv, TextsShape
      <3>2. UNCHANGED <<tstored, tunread, tnew, treplies, tanswers, tevent, trefused, tkilled>>
            /\ tacked' \subseteq Texts
        BY <1>3 DEF Deliver, Inbox, Bounds, CountInv
      <3>3. \A g \in Handlers : HandlerCounted(g)'
        BY <2>1, <3>1, <3>2, StoredCounted DEF CountInv, HandlerCounted, Owing
      <3>4. \A g, k \in Handlers : g # k /\ Owing(g)' /\ Owing(k)' => th'[g].text # th'[k].text
        BY <2>1, <3>1 DEF CountInv, Owing
      <3>. QED BY <1>0, <2>2, <3>2, <3>3, <3>4 DEF CountInv
    <2>. QED BY <1>3, <2>3, <2>4 DEF Deliver
  <1>4. ASSUME NEW h \in Handlers, Event(h) PROVE CountInv'
    <2>1. UNCHANGED Inbox /\ UNCHANGED <<tevent, tacked, tanswers, tover, trefused, tkilled>>
      BY <1>4 DEF Event, Bounds
    <2>2. CASE th[h].text \in tevent
      BY <1>0, <1>4, <2>1, <2>2, MovesCounted DEF Event, IdleHandler, CountInv
    <2>3. CASE th[h].text \notin tevent
      <3>. DEFINE r == [th[h] EXCEPT !.pc = "store"]
      <3>1. th' = [th EXCEPT ![h] = r]
        BY <1>4, <2>3 DEF Event, Goto
      <3>2. /\ r.pc = "store" /\ r.text = th[h].text /\ r.saved = th[h].saved
            /\ r.unread = th[h].unread /\ r.replies = th[h].replies
        BY <1>0 DEF RequestShape
      <3>. HIDE DEF r
      <3>3. th[h].text \in Texts /\ ~th[h].saved /\ th[h].text \notin tstored
        BY <1>4, <2>3 DEF Event, CountInv, HandlerCounted
      <3>4. \A g \in Handlers \ {h} : Owing(g) => th[g].text # th[h].text
        BY <1>4 DEF Event, Holds, Owing
      <3>. QED BY <1>0, <2>1, <3>1, <3>2, <3>3, <3>4, MovesCounted DEF CountInv
    <2>. QED BY <2>2, <2>3
  <1>5. ASSUME NEW h \in Handlers, StoreText(h) PROVE CountInv'
    <2>. DEFINE out == tout \/ th[h].text \in OptOuts
                r == [th[h] EXCEPT !.pc = "answer", !.unread = tunread, !.out = out,
                                   !.counted = tcounted, !.replies = treplies]
    <2>1. th' = [th EXCEPT ![h] = r]
      BY <1>5 DEF StoreText
    <2>. HIDE DEF out
    <2>2. /\ r.pc = "answer" /\ r.text = th[h].text /\ r.saved = th[h].saved
          /\ r.unread = tunread /\ r.replies = treplies
      BY <1>0 DEF RequestShape
    <2>. HIDE DEF r
    <2>3. UNCHANGED Inbox /\ UNCHANGED <<tevent, tacked, tanswers, tover, trefused, tkilled>>
      BY <1>5 DEF StoreText, Bounds
    <2>4. /\ th[h].text \in Texts /\ ~th[h].saved /\ th[h].text \notin tstored
          /\ \A g \in Handlers \ {h} : Owing(g) => th[g].text # th[h].text
      BY <1>5 DEF StoreText, CountInv, HandlerCounted, Owing
    <2>. QED BY <1>0, <2>1, <2>2, <2>3, <2>4, MovesCounted DEF CountInv
  <1>6. ASSUME NEW h \in Handlers, NEW pc \in {"end", "broken"}, Goto(h, pc),
               th[h].pc \in {"store", "answer", "end"}, pc = "end" => th[h].pc = "answer",
               UNCHANGED Inbox, UNCHANGED <<tevent, tacked, tanswers, tkilled, tover>>,
               trefused' \in 0..MaxRefused
        PROVE  CountInv'
    <2>. DEFINE r == [th[h] EXCEPT !.pc = pc]
    <2>1. th' = [th EXCEPT ![h] = r]
      BY <1>6 DEF Goto
    <2>2. /\ r.pc = pc /\ r.text = th[h].text /\ r.saved = th[h].saved
          /\ r.unread = th[h].unread /\ r.replies = th[h].replies
      BY <1>0 DEF RequestShape
    <2>. HIDE DEF r
    <2>3. /\ th[h].text \in Texts
          /\ ~th[h].saved => /\ th[h].text \notin tstored
                             /\ \A g \in Handlers \ {h} : Owing(g) => th[g].text # th[h].text
      BY <1>6 DEF CountInv, HandlerCounted, Owing
    <2>4. /\ tevent' \subseteq Texts /\ tevent \subseteq tevent' /\ tacked' \subseteq Texts
          /\ tkilled' \in 0..MaxKilled /\ UNCHANGED <<tanswers, tover>>
      BY <1>6 DEF CountInv
    <2>5. r.pc \notin {"idle", "event", "store", "answer"}
      BY <2>2
    <2>6. r.pc \in {"store", "answer", "end"} /\ ~r.saved =>
             /\ r.text \notin tstored
             /\ \A g \in Handlers \ {h} : Owing(g) => th[g].text # r.text
      BY <2>2, <2>3
    <2>. QED BY <1>0, <1>6, <2>1, <2>2, <2>3, <2>4, <2>5, <2>6, MovesCounted
  <1>7. ASSUME NEW h \in Handlers, NoAnswer(h) PROVE CountInv'
    BY <1>6, <1>7 DEF NoAnswer, Bounds, CountInv
  <1>8. ASSUME NEW h \in Handlers, Refused(h) PROVE CountInv'
    <2>1. trefused' \in 0..MaxRefused
      BY <1>8, TextsAssumption DEF Refused, CountInv
    <2>. QED BY <1>6, <1>8, <2>1 DEF Refused
  <1>9. ASSUME NEW h \in Handlers, Answer(h) PROVE CountInv'
    <2>. DEFINE r == [th[h] EXCEPT !.pc = "end", !.saved = TRUE]
    <2>1. th' = [th EXCEPT ![h] = r]
      BY <1>0, <1>9 DEF Answer, RequestShape, CountInv, TextsShape
    <2>2. /\ r.pc = "end" /\ r.text = th[h].text /\ r.saved
          /\ r.unread = th[h].unread /\ r.replies = th[h].replies
      BY <1>0 DEF RequestShape
    <2>. HIDE DEF r
    <2>3. ~th[h].saved /\ th[h].pc = "answer" /\ Applied(h) /\ tanswers' = 1
      BY <1>9 DEF Answer, MayAnswer, CountInv, HandlerCounted
    <2>4. /\ tevent' = tevent \union {th[h].text} /\ tacked' = tacked
          /\ UNCHANGED <<trefused, tkilled, tover>>
      BY <1>9 DEF Answer, Bounds
    <2>. QED BY <1>0, <2>1, <2>2, <2>3, <2>4, CommitsCounted
  <1>10. ASSUME NEW h \in Handlers, Acked(h), th[h].pc # "idle", UNCHANGED Inbox PROVE CountInv'
    <2>1. /\ tevent' \subseteq Texts /\ tevent \subseteq tevent' /\ tacked' \subseteq Texts
          /\ th' = [th EXCEPT ![h] = IdleHandler]
          /\ UNCHANGED <<tanswers, tover, trefused, tkilled>>
      BY <1>10 DEF Acked, Bounds, CountInv, HandlerCounted
    <2>2. /\ IdleHandler.pc = "idle" /\ ~IdleHandler.saved
          /\ IdleHandler.unread = 0 /\ IdleHandler.replies = 0
      BY DEF IdleHandler
    <2>. QED BY <1>0, <1>10, <2>1, <2>2, MovesCounted DEF CountInv
  <1>11. ASSUME NEW h \in Handlers, Ends(h) PROVE CountInv'
    <2>1. CASE th[h].saved
      BY <1>10, <1>11, <2>1 DEF Ends
    <2>2. CASE ~th[h].saved
      <3>1. th[h].pc = "end" /\ Applied(h) /\ Acked(h)
        BY <1>11, <2>2 DEF Ends
      <3>2. /\ th' = [th EXCEPT ![h] = IdleHandler] /\ tevent' = tevent \union {th[h].text}
            /\ tacked' = tacked \union {th[h].text} /\ tanswers' \in {0, 1}
            /\ UNCHANGED <<trefused, tkilled, tover>>
        BY <3>1 DEF Acked, Bounds, CountInv
      <3>. QED BY <1>0, <2>2, <3>1, <3>2, CommitsCounted
    <2>. QED BY <2>1, <2>2
  <1>12. ASSUME NEW h \in Handlers, BrokenEnds(h) PROVE CountInv'
    BY <1>10, <1>12 DEF BrokenEnds
  <1>13. ASSUME NEW h \in Handlers, Kill(h) PROVE CountInv'
    <2>1. /\ IdleHandler.pc = "idle" /\ ~IdleHandler.saved
          /\ IdleHandler.unread = 0 /\ IdleHandler.replies = 0
      BY DEF IdleHandler
    <2>2. tkilled' \in 0..MaxKilled /\ trefused' \in 0..MaxRefused
      BY <1>13, TextsAssumption DEF Kill, CountInv
    <2>. QED BY <1>0, <1>13, <2>1, <2>2, MovesCounted DEF Kill, CountInv
  <1>. QED
    BY <1>1, <1>2, <1>3, <1>4, <1>5, <1>7, <1>8, <1>9, <1>11, <1>12, <1>13
    DEF TNext, HandlerStep

LEMMA CountInit == TInit => CountInv /\ RowInv
  <1>. SUFFICES ASSUME TInit PROVE CountInv /\ RowInv
    OBVIOUS
  <1>1. /\ IdleHandler \in RequestShape /\ IdleHandler.pc = "idle" /\ ~IdleHandler.saved
        /\ IdleHandler.unread = 0 /\ IdleHandler.replies = 0
    BY DEF IdleHandler, RequestShape
  <1>2. th \in [Handlers -> RequestShape] /\ \A h \in Handlers : th[h] = IdleHandler
    BY <1>1 DEF TInit
  <1>3. tout \in BOOLEAN /\ tcounted \in BOOLEAN /\ tover \in BOOLEAN /\ ~tcounted
    BY Zenon DEF TInit
  <1>4. Cardinality(tstored) = 0
    BY FS_EmptySet DEF TInit
  <1>5. TextsShape
    BY <1>2, <1>3 DEF TInit, TextsShape
  <1>6. \A h \in Handlers : HandlerCounted(h) /\ ~Owing(h)
    BY <1>1, <1>2, <1>4 DEF HandlerCounted, Owing
  <1>7. CountInv
    BY <1>3, <1>4, <1>5, <1>6, TextsAssumption DEF TInit, CountInv
  <1>8. RowInv
    BY <1>1, <1>2, <1>3 DEF TInit, RowInv, At
  <1>. QED BY <1>7, <1>8

LEMMA CountTypes == CountInv => TTypeOK
  <1>. SUFFICES ASSUME CountInv PROVE TTypeOK
    OBVIOUS
  <1>1. /\ Cardinality(tstored) \in Nat /\ Cardinality(Texts) \in Nat
        /\ Cardinality(tstored) <= Cardinality(Texts)
        /\ tstored # {} => Cardinality(tstored) >= 1
    BY StoredCounted
  <1>2. \A n \in Nat : n <= Cardinality(tstored) => n \in Count
    BY <1>1 DEF Count
  <1>3. tunread \in Count /\ tnew \in Count /\ treplies \in Count /\ tanswers \in Count
    BY <1>1, <1>2 DEF CountInv, TextsShape
  <1>4. \A h \in Handlers : th[h] \in HandlerType
    <2>. TAKE h \in Handlers
    <2>1. th[h] \in RequestShape /\ HandlerCounted(h)
      BY DEF CountInv, TextsShape
    <2>2. th[h].unread \in Count /\ th[h].replies \in Count
      BY <1>2, <2>1 DEF HandlerCounted, RequestShape
    <2>. QED BY <2>1, <2>2 DEF RequestShape, HandlerType
  <1>5. th \in [Handlers -> HandlerType]
    BY <1>4 DEF CountInv, TextsShape
  <1>. QED BY <1>3, <1>5 DEF CountInv, TextsShape, TTypeOK

\* A commit of a request in a row: what it loaded is what is there.
LEMMA AppliedInRow ==
    ASSUME CountInv, RowInv, ~tover, NEW h \in Handlers, th[h].pc \in {"answer", "end"},
           ~th[h].saved, Applied(h)
    PROVE  /\ tstored' # {} /\ tcounted' /\ tunread' = tnew' /\ treplies' = 1
  <1>1. /\ th[h].unread = tunread /\ th[h].replies = treplies /\ (th[h].counted <=> tcounted)
        /\ treplies = (IF tstored = {} THEN 0 ELSE 1) /\ (tcounted <=> tstored # {})
        /\ tunread = tnew
    BY DEF RowInv
  <1>2. /\ tstored' = tstored \union {th[h].text} /\ tcounted' = TRUE
        /\ tunread' = th[h].unread + 1 /\ tnew' = tnew + 1
        /\ treplies' = IF th[h].counted THEN treplies ELSE th[h].replies + 1
    BY DEF Applied
  <1>. QED BY <1>1, <1>2

\* A request alone moves: the others are idle, before and after.
LEMMA AloneInRow ==
    ASSUME CountInv, RowInv, ~tover, NEW h \in Handlers, ~At(h, "idle"), NEW r,
           th' = [th EXCEPT ![h] = r],
           treplies' = (IF tstored' = {} THEN 0 ELSE 1),
           tcounted' <=> tstored' # {},
           tunread' = tnew',
           r.pc \in {"answer", "end"} /\ ~r.saved =>
              r.unread = tunread' /\ r.replies = treplies' /\ (r.counted <=> tcounted'),
           r.pc = "answer" /\ tout' => r.out
    PROVE  RowInv'
  <1>1. th'[h] = r /\ \A g \in Handlers \ {h} : th'[g] = th[g]
    BY DEF CountInv, TextsShape
  <1>2. \A g \in Handlers \ {h} : th[g].pc = "idle"
    BY DEF RowInv, At
  <1>3. \A g \in Handlers : th'[g].pc # "idle" => g = h
    BY <1>1, <1>2
  <1>. QED BY <1>1, <1>3 DEF RowInv, At

\* Each step keeps the counts right, while requests come in a row.
LEMMA RowKept ==
    ASSUME CountInv, RowInv, [TNext]_tvars
    PROVE  RowInv'
  <1>. SUFFICES ASSUME ~tover' PROVE RowInv'
    BY DEF RowInv
  <1>0. \A h \in Handlers : th[h] \in RequestShape
    BY DEF CountInv, TextsShape
  <1>1. CASE UNCHANGED tvars
    BY <1>1 DEF tvars, RowInv, At
  <1>2. CASE Look
    <2>1. ~tover /\ \A h \in Handlers : th[h].pc = "idle"
      BY <1>2 DEF Look, At
    <2>2. tunread' = 0 /\ tnew' = 0 /\ UNCHANGED <<th, tstored, tcounted, treplies>>
      BY <1>2 DEF Look
    <2>. QED BY <2>1, <2>2 DEF RowInv, At
  <1>3. ASSUME NEW h \in Handlers, NEW x \in Texts, Deliver(h, x) PROVE RowInv'
    <2>1. ~tover /\ (\A g \in Handlers : th[g].pc = "idle") /\ UNCHANGED Inbox
      BY <1>3 DEF Deliver, At
    <2>2. CASE th' = th
      BY <2>1, <2>2 DEF RowInv, At, Inbox
    <2>. DEFINE r == [IdleHandler EXCEPT !.pc = "event", !.text = x]
    <2>3. CASE th' = [th EXCEPT ![h] = r]
      <3>1. r.pc = "event"
        BY DEF IdleHandler
      <3>. HIDE DEF r
      <3>2. th'[h] = r /\ \A g \in Handlers \ {h} : th'[g] = th[g]
        BY <2>3 DEF CountInv, TextsShape
      <3>3. \A g \in Handlers : g # h => th'[g].pc = "idle"
        BY <2>1, <3>2
      <3>4. \A g \in Handlers : th'[g].pc \in {"idle", "event"}
        BY <3>1, <3>2, <3>3
      <3>. QED BY <2>1, <3>3, <3>4 DEF RowInv, At, Inbox
    <2>. QED BY <1>3, <2>2, <2>3 DEF Deliver
  <1>4. ASSUME NEW h \in Handlers, NEW r, th' = [th EXCEPT ![h] = r], ~tover,
               th[h].pc # "idle", UNCHANGED Inbox,
               r.pc \in {"answer", "end"} /\ ~r.saved =>
                  r.unread = tunread /\ r.replies = treplies /\ (r.counted <=> tcounted),
               r.pc = "answer" /\ tout => r.out
        PROVE  RowInv'
    <2>1. UNCHANGED <<tstored, tunread, tnew, tout, tcounted, treplies>>
      BY <1>4 DEF Inbox
    <2>2. treplies = (IF tstored = {} THEN 0 ELSE 1) /\ (tcounted <=> tstored # {}) /\ tunread = tnew
      BY <1>4 DEF RowInv
    <2>. QED BY <1>4, <2>1, <2>2, AloneInRow DEF At
  <1>5. ASSUME NEW h \in Handlers, NEW pc \in {"store", "end", "broken"}, Goto(h, pc), ~tover,
               th[h].pc # "idle", pc = "end" => th[h].pc = "answer", UNCHANGED Inbox
        PROVE  RowInv'
    <2>. DEFINE r == [th[h] EXCEPT !.pc = pc]
    <2>1. th' = [th EXCEPT ![h] = r]
      BY <1>5 DEF Goto
    <2>2. /\ r.pc = pc /\ r.saved = th[h].saved /\ r.unread = th[h].unread
          /\ r.replies = th[h].replies /\ r.counted = th[h].counted
      BY <1>0 DEF RequestShape
    <2>. HIDE DEF r
    <2>3. pc = "end" /\ ~th[h].saved =>
             /\ th[h].unread = tunread /\ th[h].replies = treplies
             /\ th[h].counted <=> tcounted
      BY <1>5 DEF RowInv
    <2>4. /\ r.pc \in {"answer", "end"} /\ ~r.saved =>
                r.unread = tunread /\ r.replies = treplies /\ (r.counted <=> tcounted)
          /\ r.pc # "answer"
      BY <2>2, <2>3
    <2>. QED BY <1>4, <1>5, <2>1, <2>4
  <1>6. ASSUME NEW h \in Handlers, th' = [th EXCEPT ![h] = IdleHandler], ~tover,
               th[h].pc # "idle", UNCHANGED Inbox
        PROVE  RowInv'
    <2>1. IdleHandler.pc = "idle"
      BY DEF IdleHandler
    <2>. QED BY <1>4, <1>6, <2>1
  <1>7. ASSUME NEW h \in Handlers, Event(h) PROVE RowInv'
    <2>1. ~tover /\ UNCHANGED Inbox /\ th[h].pc = "event"
      BY <1>7 DEF Event, At
    <2>2. CASE th[h].text \in tevent
      BY <1>6, <1>7, <2>1, <2>2 DEF Event
    <2>3. CASE th[h].text \notin tevent
      BY <1>5, <1>7, <2>1, <2>3 DEF Event
    <2>. QED BY <2>2, <2>3
  <1>8. ASSUME NEW h \in Handlers, StoreText(h) PROVE RowInv'
    <2>. DEFINE out == tout \/ th[h].text \in OptOuts
                r == [th[h] EXCEPT !.pc = "answer", !.unread = tunread, !.out = out,
                                   !.counted = tcounted, !.replies = treplies]
    <2>1. th' = [th EXCEPT ![h] = r]
      BY <1>8 DEF StoreText
    <2>2. tout => out
      OBVIOUS
    <2>. HIDE DEF out
    <2>3. /\ r.unread = tunread /\ r.replies = treplies /\ r.counted = tcounted /\ r.out = out
      BY <1>0 DEF RequestShape
    <2>. HIDE DEF r
    <2>4. ~tover /\ UNCHANGED Inbox /\ th[h].pc # "idle"
      BY <1>8 DEF StoreText, At
    <2>. QED BY <1>4, <2>1, <2>2, <2>3, <2>4
  <1>9. ASSUME NEW h \in Handlers, Answer(h) PROVE RowInv'
    <2>. DEFINE r == [th[h] EXCEPT !.pc = "end", !.saved = TRUE]
    <2>1. th' = [th EXCEPT ![h] = r]
      BY <1>0, <1>9 DEF Answer, RequestShape, CountInv, TextsShape
    <2>2. r.pc = "end" /\ r.saved
      BY <1>0 DEF RequestShape
    <2>. HIDE DEF r
    <2>3. ~th[h].saved /\ th[h].pc = "answer" /\ Applied(h) /\ ~tover
      BY <1>9 DEF Answer, At, CountInv, HandlerCounted
    <2>4. tstored' # {} /\ tcounted' /\ tunread' = tnew' /\ treplies' = 1
      BY <2>3, AppliedInRow
    <2>. QED BY <2>1, <2>2, <2>3, <2>4, AloneInRow DEF At
  <1>10. ASSUME NEW h \in Handlers, NoAnswer(h) PROVE RowInv'
    BY <1>5, <1>10 DEF NoAnswer, At
  <1>11. ASSUME NEW h \in Handlers, Refused(h) PROVE RowInv'
    BY <1>5, <1>11 DEF Refused
  <1>12. ASSUME NEW h \in Handlers, Ends(h) PROVE RowInv'
    <2>1. th[h].pc = "end" /\ ~tover /\ th' = [th EXCEPT ![h] = IdleHandler]
      BY <1>12 DEF Ends, Acked, At
    <2>2. CASE th[h].saved
      BY <1>6, <1>12, <2>1, <2>2 DEF Ends
    <2>3. CASE ~th[h].saved
      <3>1. tstored' # {} /\ tcounted' /\ tunread' = tnew' /\ treplies' = 1
        BY <1>12, <2>1, <2>3, AppliedInRow DEF Ends
      <3>2. IdleHandler.pc = "idle"
        BY DEF IdleHandler
      <3>. QED BY <2>1, <3>1, <3>2, AloneInRow DEF At
    <2>. QED BY <2>2, <2>3
  <1>13. ASSUME NEW h \in Handlers, BrokenEnds(h) \/ Kill(h) PROVE RowInv'
    BY <1>6, <1>13 DEF BrokenEnds, Acked, Kill, At
  <1>. QED
    BY <1>1, <1>2, <1>3, <1>7, <1>8, <1>9, <1>10, <1>11, <1>12, <1>13 DEF TNext, HandlerStep

\* For any texts, any deliveries and requests that die: state keeps its types,
\* and while requests do not overlap, a contact who writes many times counts as
\* one reply, and the badge shows what the operator has not seen.
THEOREM RepliesOnceHolds == TSpec => [](TTypeOK /\ RepliesOnce /\ UnreadCounts)
  <1>1. CountInv /\ RowInv /\ [TNext]_tvars => CountInv' /\ RowInv'
    BY TextsCounted, RowKept
  <1>2. CountInv /\ RowInv => TTypeOK /\ RepliesOnce /\ UnreadCounts
    BY CountTypes DEF RowInv, RepliesOnce, UnreadCounts
  <1>. QED BY <1>1, <1>2, CountInit, PTL DEF TSpec

\* After the opt-out there is no automatic reply, while requests do not overlap:
\* a request reads the opt-out with the text, and nobody else writes it since.
THEOREM StopUnansweredHolds == TSpec => StopUnanswered
  <1>1. CountInv /\ RowInv /\ [TNext]_tvars => CountInv' /\ RowInv'
    BY TextsCounted, RowKept
  <1>2. CountInv /\ RowInv /\ [TNext]_tvars => [~tover /\ tout => tanswers' = tanswers]_tvars
    <2>. SUFFICES ASSUME CountInv, RowInv, TNext, ~tover, tout PROVE tanswers' = tanswers
      OBVIOUS
    <2>1. ASSUME NEW h \in Handlers, Answer(h) PROVE FALSE
      BY <2>1 DEF Answer, MayAnswer, RowInv, At
    <2>. QED
      BY <2>1 DEF TNext, HandlerStep, Deliver, Event, StoreText, NoAnswer, Ends, BrokenEnds, Acked,
                  Refused, Kill, Look
  <1>. QED BY <1>1, <1>2, CountInit, PTL DEF TSpec, StopUnanswered

-----------------------------------------------------------------------------
(* The threads *)

LSpec == LInit /\ [][LNext]_lvars

\* What a row's columns may hold: campaigns of their system.
RowShape == {row \in [Columns -> Sources \union {NoOne}] :
            /\ row["first_campaign"] \in Classic \union {NoOne}
            /\ row["last_campaign"] \in Classic \union {NoOne}
            /\ row["first_ads"] \in AdsRuns \union {NoOne}
            /\ row["last_ads"] \in AdsRuns \union {NoOne}}

ThreadMails == Seq([by : Sources, gone : BOOLEAN])

\* A row that is earned by the campaigns of S.
Earned(row, S) ==
    /\ row \in RowShape
    /\ FirstOf(row) \union LastOf(row) \subseteq S
    /\ LastOf(row) # {} => FirstOf(row) # {}

SessionShape == [pc : {"idle", "send", "mend", "reply", "flush"}, from : Sources \union {Hand},
                 row : RowShape \union {Missing}, new : RowShape, counted : Classic \union {NoOne},
                 at : Nat]

\* A thread that some campaign has stamped, or that has been mended.
Touched == lrow # Missing /\ FirstOf(lrow) # {}

\* A first touch that a session has read is there still, and is left alone.
FirstKept(s, k) ==
    lw[s].row # Missing /\ lw[s].row[k] # NoOne => lrow[k] # NoOne /\ lw[s].new[k] = lw[s].row[k]

SessionInv(s) ==
    /\ lw[s].row # Missing => lrow # Missing
    /\ LAt(s, "mend") \/ LAt(s, "reply") => lw[s].row # Missing
    /\ LAt(s, "send") /\ lw[s].from # Hand => FirstOf(lw[s].new) # {}
    /\ LAt(s, "flush") => Touched /\ lw[s].at \in DOMAIN lmails
    /\ Open(s) =>
         /\ Earned(lw[s].new, Writing(lmails) \union ({lw[s].from} \ {Hand}))
         /\ LAt(s, "mend") \/ LAt(s, "reply") => lw[s].from = Hand
         /\ FirstKept(s, "first_campaign") /\ FirstKept(s, "first_ads")

EarnedInv ==
    /\ lmails \in ThreadMails
    /\ lrow = Missing => Writing(lmails) = {}
    /\ Withdrawn(lmails) # {} => Touched
    /\ lrow = Missing \/ Earned(lrow, Writing(lmails))
    /\ lw \in [Writers -> SessionShape]
    /\ \A s \in Writers : SessionInv(s)

\* The last campaign is the one that is counted, unless it has lost a message.
CountsLast(s) ==
    lmails # <<>> /\ lmails[Len(lmails)].by \in Classic \ Withdrawn(lmails)
        => lw[s].counted = lmails[Len(lmails)].by

\* What a session is about to write, if it is alone.
Intended(s) ==
    LET row == IF lrow = Missing THEN Blank ELSE lrow IN
    IF LAt(s, "send")
    THEN lw[s].new = IF lw[s].from = Hand THEN row ELSE Stamped(row, lw[s].from)
    ELSE lw[s].new = Mended(lrow) /\ (LAt(s, "reply") => CountsLast(s))

SerialInv ==
    ~lover =>
        \A s \in Writers : Open(s) =>
            /\ \A r \in Writers \ {s} : ~Open(r)
            /\ lw[s].row = lrow
            /\ Intended(s)

TouchInv == EarnedInv /\ SerialInv /\ TouchExact /\ RepliesAgree

-----------------------------------------------------------------------------

\* A missing thread has no campaign in any column, nor has a row its marks.
LEMMA MissingApart ==
    /\ Blank \in RowShape
    /\ Missing \notin RowShape
    /\ "missing" # NoOne
    /\ FirstOf(Blank) = {} /\ LastOf(Blank) = {}
  <1>1. /\ "first_campaign" \in Columns /\ "first_ads" \in Columns
        /\ "last_campaign" \in Columns /\ "last_ads" \in Columns
    BY DEF Columns
  <1>2. \A k \in Columns : Missing[k] = "missing" /\ Blank[k] = NoOne
    BY DEF Missing, Blank
  <1>3. "missing" # NoOne /\ "missing" \notin Sources
    BY SourcesAssumption DEF NoOne
  <1>4. Blank \in RowShape
    BY <1>1, <1>2 DEF RowShape, Blank
  <1>5. Missing \notin RowShape
    BY <1>1, <1>2, <1>3 DEF RowShape
  <1>6. FirstOf(Blank) = {} /\ LastOf(Blank) = {}
    BY <1>1, <1>2 DEF FirstOf, LastOf
  <1>. QED BY <1>3, <1>4, <1>5, <1>6

\* A column of a row of RowShape can be read.
LEMMA ColumnsKnown ==
    /\ "first_campaign" \in Columns /\ "first_ads" \in Columns
    /\ "last_campaign" \in Columns /\ "last_ads" \in Columns
    /\ \A k \in Columns : k \in {"first_campaign", "first_ads", "last_campaign", "last_ads"}
  BY DEF Columns

\* Of some of the first numbers one is the least and one the greatest.
LEMMA EndsFound ==
    ASSUME NEW n \in Nat, NEW I \in SUBSET (1..n), I # {}
    PROVE  /\ \E i \in I : \A j \in I : i <= j
           /\ \E i \in I : \A j \in I : j <= i
  <1>1. \E R : IsWellFoundedOn(R, Nat) /\ \A x, y \in Nat : y < x => <<y, x>> \in R
    <2>1. IsWellFoundedOn(OpToRel(<, Nat), Nat)
      BY NatLessThanWellFounded
    <2>2. \A x, y \in Nat : y < x => <<y, x>> \in OpToRel(<, Nat)
      BY DEF OpToRel
    <2>. WITNESS OpToRel(<, Nat)
    <2>. QED BY <2>1, <2>2
  <1>2. PICK R : IsWellFoundedOn(R, Nat) /\ \A x, y \in Nat : y < x => <<y, x>> \in R
    BY <1>1
  <1>3. ASSUME NEW T \in SUBSET Nat, T # {}
        PROVE  \E x \in T : \A y \in T : x <= y
    <2>1. PICK x \in T : \A y \in T : ~ (<<y, x>> \in R)
      BY <1>2, <1>3, WFMin
    <2>2. \A y \in T : y \in Nat /\ x \in Nat /\ ~ (y < x)
      BY <1>2, <2>1
    <2>. QED BY <2>2
  <1>4. \E i \in I : \A j \in I : i <= j
    <2>1. I \in SUBSET Nat
      OBVIOUS
    <2>. QED BY <1>3, <2>1
  <1>5. \E i \in I : \A j \in I : j <= i
    <2>. DEFINE T == {n - i : i \in I}
    <2>1. T \in SUBSET Nat /\ T # {}
      <3>1. \A i \in I : i \in 1..n
        OBVIOUS
      <3>2. \A i \in I : n - i \in Nat
        BY <3>1
      <3>3. T \subseteq Nat
        BY <3>2
      <3>. QED BY <3>3
    <2>2. PICK x \in T : \A y \in T : x <= y
      BY <1>3, <2>1
    <2>3. PICK i \in I : x = n - i
      BY <2>2
    <2>4. \A j \in I : n - i <= n - j
      BY <2>2, <2>3
    <2>. QED BY <2>4
  <1>. QED BY <1>4, <1>5

\* The campaign of the first and of the last of some messages
LEMMA EndsKnown ==
    ASSUME NEW m \in ThreadMails, NEW I \in SUBSET (DOMAIN m)
    PROVE  /\ I = {} => FirstBy(m, I) = NoOne /\ LastBy(m, I) = NoOne
           /\ I # {} => \E i \in I : (\A j \in I : i <= j) /\ FirstBy(m, I) = m[i].by
           /\ I # {} => \E i \in I : (\A j \in I : j <= i) /\ LastBy(m, I) = m[i].by
  <1>1. DOMAIN m = 1..Len(m) /\ Len(m) \in Nat
    BY DEF ThreadMails
  <1>2. ASSUME I # {}
        PROVE  /\ \E i \in I : \A j \in I : i <= j
               /\ \E i \in I : \A j \in I : j <= i
    BY <1>1, <1>2, EndsFound
  <1>3. ASSUME I # {} PROVE \E i \in I : (\A j \in I : i <= j) /\ FirstBy(m, I) = m[i].by
    <2>. DEFINE i == CHOOSE i \in I : \A j \in I : i <= j
    <2>1. i \in I /\ \A j \in I : i <= j
      BY <1>2, <1>3
    <2>2. FirstBy(m, I) = m[i].by
      BY <1>3 DEF FirstBy
    <2>. QED BY <2>1, <2>2
  <1>4. ASSUME I # {} PROVE \E i \in I : (\A j \in I : j <= i) /\ LastBy(m, I) = m[i].by
    <2>. DEFINE i == CHOOSE i \in I : \A j \in I : j <= i
    <2>1. i \in I /\ \A j \in I : j <= i
      BY <1>2, <1>4
    <2>2. LastBy(m, I) = m[i].by
      BY <1>4 DEF LastBy
    <2>. QED BY <2>1, <2>2
  <1>5. I = {} => FirstBy(m, I) = NoOne /\ LastBy(m, I) = NoOne
    BY DEF FirstBy, LastBy
  <1>. QED BY <1>3, <1>4, <1>5

\* The messages know of nobody who has not written.
LEMMA MailsKnown ==
    ASSUME NEW m \in ThreadMails
    PROVE  /\ Writing(m) \subseteq Sources
           /\ m = <<>> <=> Writing(m) = {}
           /\ m # <<>> => m[1].by \in Writing(m) /\ m[Len(m)].by \in Writing(m)
           /\ {Oldest(m), Newest(m)} \subseteq Writing(m) \union {NoOne}
           /\ Oldest(m) = NoOne <=> There(m) = {}
           /\ Newest(m) = NoOne <=> There(m) = {}
           /\ There(m) # {} => m # <<>>
           /\ Withdrawn(m) = {} /\ m # <<>> => Oldest(m) = m[1].by /\ Newest(m) = m[Len(m)].by
           /\ LastClassic(m) \in Classic \union {NoOne}
           /\ m # <<>> /\ m[Len(m)].by \in Classic \ Withdrawn(m) => LastClassic(m) = m[Len(m)].by
           /\ \A c \in Writing(m) : (\E i \in There(m) : m[i].by = c) \/ c \in Withdrawn(m)
  <1>1. /\ DOMAIN m = 1..Len(m) /\ Len(m) \in Nat
        /\ \A i \in DOMAIN m : m[i] \in [by : Sources, gone : BOOLEAN]
        /\ m # <<>> => Len(m) \in DOMAIN m /\ 1 \in DOMAIN m
        /\ m = <<>> => DOMAIN m = {}
    <2>1. DOMAIN m = 1..Len(m) /\ Len(m) \in Nat
      BY LenProperties DEF ThreadMails
    <2>2. \A i \in DOMAIN m : m[i] \in [by : Sources, gone : BOOLEAN]
      BY <2>1, ElementOfSeq DEF ThreadMails
    <2>3. m = <<>> <=> Len(m) = 0
      BY EmptySeq DEF ThreadMails
    <2>4. m # <<>> => Len(m) \in DOMAIN m /\ 1 \in DOMAIN m
      BY <2>1, <2>3
    <2>5. m = <<>> => DOMAIN m = {}
      BY <2>1, <2>3
    <2>. QED BY <2>1, <2>2, <2>4, <2>5
  <1>2. \A i \in DOMAIN m : m[i].by \in Sources /\ m[i].by \in Writing(m)
    BY <1>1 DEF Writing
  <1>3. Writing(m) \subseteq Sources
    BY <1>1 DEF Writing
  <1>4. m = <<>> <=> Writing(m) = {}
    <2>1. m # <<>> => Writing(m) # {}
      BY <1>1, <1>2
    <2>2. m = <<>> => Writing(m) = {}
      BY <1>1 DEF Writing
    <2>. QED BY <2>1, <2>2
  <1>5. m # <<>> => m[1].by \in Writing(m) /\ m[Len(m)].by \in Writing(m)
    BY <1>1, <1>2
  <1>6. NoOne \notin Sources
    BY SourcesAssumption
  <1>7. There(m) \in SUBSET (DOMAIN m) /\ (There(m) # {} => m # <<>>)
    BY <1>1 DEF There
  <1>8. /\ There(m) = {} => Oldest(m) = NoOne /\ Newest(m) = NoOne
        /\ There(m) # {} => \E i \in There(m) : (\A j \in There(m) : i <= j) /\ Oldest(m) = m[i].by
        /\ There(m) # {} => \E i \in There(m) : (\A j \in There(m) : j <= i) /\ Newest(m) = m[i].by
    BY <1>7, EndsKnown DEF Oldest, Newest
  <1>9. /\ {Oldest(m), Newest(m)} \subseteq Writing(m) \union {NoOne}
        /\ Oldest(m) = NoOne <=> There(m) = {}
        /\ Newest(m) = NoOne <=> There(m) = {}
    BY <1>2, <1>6, <1>7, <1>8
  <1>10. \A j \in DOMAIN m : j \in There(m) \/ m[j].by \in Withdrawn(m)
    BY DEF There, Withdrawn
  <1>11. ASSUME Withdrawn(m) = {}, m # <<>>
         PROVE  Oldest(m) = m[1].by /\ Newest(m) = m[Len(m)].by
    <2>1. There(m) = DOMAIN m
      BY <1>7, <1>10, <1>11
    <2>. QED BY <1>1, <1>8, <1>11, <2>1
  <1>12. /\ LastClassic(m) \in Classic \union {NoOne}
         /\ m # <<>> /\ m[Len(m)].by \in Classic \ Withdrawn(m) => LastClassic(m) = m[Len(m)].by
    <2>. DEFINE I == {i \in There(m) : m[i].by \in Classic}
    <2>1. I \in SUBSET (DOMAIN m)
      BY <1>7
    <2>2. LastClassic(m) = LastBy(m, I)
      BY DEF LastClassic
    <2>3. /\ I = {} => LastBy(m, I) = NoOne
          /\ I # {} => \E i \in I : (\A j \in I : j <= i) /\ LastBy(m, I) = m[i].by
      BY <2>1, EndsKnown
    <2>4. LastClassic(m) \in Classic \union {NoOne}
      BY <2>2, <2>3
    <2>5. ASSUME m # <<>>, m[Len(m)].by \in Classic \ Withdrawn(m)
          PROVE  LastClassic(m) = m[Len(m)].by
      <3>1. Len(m) \in I
        BY <1>1, <1>10, <2>5
      <3>2. PICK i \in I : (\A j \in I : j <= i) /\ LastBy(m, I) = m[i].by
        BY <2>3, <3>1
      <3>3. i = Len(m)
        BY <1>1, <2>1, <3>1, <3>2
      <3>. QED BY <2>2, <3>2, <3>3
    <2>. QED BY <2>4, <2>5
  <1>13. \A c \in Writing(m) : (\E i \in There(m) : m[i].by = c) \/ c \in Withdrawn(m)
    BY <1>10 DEF Writing
  <1>. QED BY <1>3, <1>4, <1>5, <1>7, <1>9, <1>11, <1>12, <1>13

\* One more message
LEMMA SentKnown ==
    ASSUME NEW m \in ThreadMails, NEW c \in Sources \union {Hand}
    PROVE  /\ Sent(m, c) \in ThreadMails
           /\ Writing(Sent(m, c)) = Writing(m) \union ({c} \ {Hand})
           /\ Withdrawn(Sent(m, c)) = Withdrawn(m)
           /\ c = Hand => Sent(m, c) = m
           /\ c # Hand =>
                 /\ Len(Sent(m, c)) = Len(m) + 1
                 /\ Sent(m, c)[Len(m) + 1].by = c
                 /\ Sent(m, c)[1].by = IF m = <<>> THEN c ELSE m[1].by
                 /\ Len(m) + 1 \in DOMAIN Sent(m, c)
  <1>1. Hand \notin Sources
    BY SourcesAssumption
  <1>2. CASE c = Hand
    BY <1>1, <1>2 DEF Sent
  <1>3. CASE c # Hand
    <2>. DEFINE e == [by |-> c, gone |-> FALSE]
                n == Append(m, e)
    <2>1. Sent(m, c) = n /\ c \in Sources
      BY <1>3 DEF Sent
    <2>2. e \in [by : Sources, gone : BOOLEAN] /\ e.by = c /\ e.gone = FALSE
      BY <2>1
    <2>. HIDE DEF e
    <2>3. /\ n \in ThreadMails /\ Len(n) = Len(m) + 1 /\ n[Len(m) + 1] = e
          /\ \A i \in 1..Len(m) : n[i] = m[i]
          /\ DOMAIN m = 1..Len(m) /\ Len(m) \in Nat
          /\ DOMAIN n = 1..Len(n)
      BY <2>2, AppendProperties, LenProperties DEF ThreadMails
    <2>. HIDE DEF n
    <2>4. DOMAIN n = DOMAIN m \union {Len(m) + 1} /\ \A i \in DOMAIN m : n[i] = m[i]
      BY <2>3
    <2>5. Writing(n) = Writing(m) \union {c}
      BY <2>2, <2>3, <2>4 DEF Writing
    <2>6. Withdrawn(n) = Withdrawn(m)
      BY <2>2, <2>3, <2>4 DEF Withdrawn
    <2>7. n[1].by = IF m = <<>> THEN c ELSE m[1].by
      <3>1. m = <<>> <=> Len(m) = 0
        BY EmptySeq DEF ThreadMails
      <3>. QED BY <2>2, <2>3, <3>1
    <2>. QED BY <1>3, <2>1, <2>2, <2>3, <2>4, <2>5, <2>6, <2>7
  <1>. QED BY <1>2, <1>3

\* A stamp takes the first touch if it is free, and always the last one.
LEMMA StampedEarned ==
    ASSUME NEW S, NEW row, Earned(row, S), NEW c \in Sources
    PROVE  LET new == Stamped(row, c) IN
           /\ Earned(new, S \union {c})
           /\ LastOf(new) = {c}
           /\ FirstOf(new) = IF FirstOf(row) = {} THEN {c} ELSE FirstOf(row)
           /\ FirstOf(row) # {} => /\ new["first_campaign"] = row["first_campaign"]
                                   /\ new["first_ads"] = row["first_ads"]
  <1>. DEFINE new == Stamped(row, c)
  <1>1. /\ new["first_campaign"] = IF FirstOf(row) = {} /\ c \in Classic THEN c ELSE row["first_campaign"]
        /\ new["first_ads"] = IF FirstOf(row) = {} /\ c \in AdsRuns THEN c ELSE row["first_ads"]
        /\ new["last_campaign"] = IF c \in Classic THEN c ELSE NoOne
        /\ new["last_ads"] = IF c \in AdsRuns THEN c ELSE NoOne
    BY ColumnsKnown DEF Stamped
  <1>2. /\ c \in Classic \/ c \in AdsRuns
        /\ ~(c \in Classic /\ c \in AdsRuns)
        /\ c # NoOne
    BY SourcesAssumption DEF Sources
  <1>3. row \in RowShape
    BY DEF Earned
  <1>4. /\ row["first_campaign"] \in Classic \union {NoOne}
        /\ row["last_campaign"] \in Classic \union {NoOne}
        /\ row["first_ads"] \in AdsRuns \union {NoOne}
        /\ row["last_ads"] \in AdsRuns \union {NoOne}
    BY <1>3 DEF RowShape
  <1>5. FirstOf(row) = {row["first_campaign"], row["first_ads"]} \ {NoOne}
    BY DEF FirstOf
  <1>6. LastOf(new) = {c}
    BY <1>1, <1>2 DEF LastOf
  <1>7. FirstOf(new) = IF FirstOf(row) = {} THEN {c} ELSE FirstOf(row)
    <2>1. CASE FirstOf(row) = {}
      <3>1. row["first_campaign"] = NoOne /\ row["first_ads"] = NoOne
        BY <1>5, <2>1
      <3>. QED BY <1>1, <1>2, <2>1, <3>1 DEF FirstOf
    <2>2. CASE FirstOf(row) # {}
      BY <1>1, <2>2 DEF FirstOf
    <2>. QED BY <2>1, <2>2
  <1>8. new \in RowShape
    <2>1. new \in [Columns -> Sources \union {NoOne}]
      <3>1. ASSUME NEW k \in Columns PROVE new[k] \in Sources \union {NoOne}
        BY <1>1, <1>2, <1>4, ColumnsKnown DEF Sources
      <3>. QED BY <3>1 DEF Stamped
    <2>. QED BY <1>1, <1>4, <2>1 DEF RowShape
  <1>9. FirstOf(new) \union LastOf(new) \subseteq S \union {c}
    BY <1>6, <1>7 DEF Earned
  <1>10. FirstOf(new) # {}
    BY <1>7
  <1>. QED BY <1>1, <1>6, <1>7, <1>8, <1>9, <1>10 DEF Earned

\* Mending fills in what is missing from who wrote first and last.
LEMMA MendedEarned ==
    ASSUME lmails \in ThreadMails, NEW row, Earned(row, Writing(lmails))
    PROVE  LET new == Mended(row) IN
           /\ Earned(new, Writing(lmails))
           /\ FirstOf(new) = IF FirstOf(row) = {} /\ There(lmails) # {} THEN {Oldest(lmails)} ELSE FirstOf(row)
           /\ LastOf(new) = IF LastOf(row) = {} /\ There(lmails) # {} THEN {Newest(lmails)} ELSE LastOf(row)
           /\ FirstOf(row) # {} => /\ new["first_campaign"] = row["first_campaign"]
                                   /\ new["first_ads"] = row["first_ads"]
  <1>. DEFINE new == Mended(row)
              old == Oldest(lmails)
              late == Newest(lmails)
  <1>1. /\ new["first_campaign"] = IF FirstOf(row) = {} /\ old \in Classic THEN old ELSE row["first_campaign"]
        /\ new["first_ads"] = IF FirstOf(row) = {} /\ old \in AdsRuns THEN old ELSE row["first_ads"]
        /\ new["last_campaign"] = IF LastOf(row) = {} /\ late \in Classic THEN late ELSE row["last_campaign"]
        /\ new["last_ads"] = IF LastOf(row) = {} /\ late \in AdsRuns THEN late ELSE row["last_ads"]
    BY ColumnsKnown DEF Mended
  <1>2. /\ old \in Sources \union {NoOne} /\ late \in Sources \union {NoOne}
        /\ old # NoOne => old \in Writing(lmails)
        /\ late # NoOne => late \in Writing(lmails)
        /\ old = NoOne <=> There(lmails) = {}
        /\ late = NoOne <=> There(lmails) = {}
        /\ NoOne \notin Sources
        /\ \A c \in Sources : c \in Classic <=> c \notin AdsRuns
        /\ Sources = Classic \union AdsRuns
    BY MailsKnown, SourcesAssumption DEF Sources
  <1>3. row \in RowShape
    BY DEF Earned
  <1>4. /\ row["first_campaign"] \in Classic \union {NoOne}
        /\ row["last_campaign"] \in Classic \union {NoOne}
        /\ row["first_ads"] \in AdsRuns \union {NoOne}
        /\ row["last_ads"] \in AdsRuns \union {NoOne}
    BY <1>3 DEF RowShape
  <1>. HIDE DEF new, old, late
  <1>5. FirstOf(new) = IF FirstOf(row) = {} /\ There(lmails) # {} THEN {old} ELSE FirstOf(row)
    <2>1. CASE FirstOf(row) = {}
      <3>1. row["first_campaign"] = NoOne /\ row["first_ads"] = NoOne
        BY <2>1 DEF FirstOf
      <3>. QED BY <1>1, <1>2, <2>1, <3>1 DEF FirstOf
    <2>2. CASE FirstOf(row) # {}
      BY <1>1, <2>2 DEF FirstOf
    <2>. QED BY <2>1, <2>2
  <1>6. LastOf(new) = IF LastOf(row) = {} /\ There(lmails) # {} THEN {late} ELSE LastOf(row)
    <2>1. CASE LastOf(row) = {}
      <3>1. row["last_campaign"] = NoOne /\ row["last_ads"] = NoOne
        BY <2>1 DEF LastOf
      <3>. QED BY <1>1, <1>2, <2>1, <3>1 DEF LastOf
    <2>2. CASE LastOf(row) # {}
      BY <1>1, <2>2 DEF LastOf
    <2>. QED BY <2>1, <2>2
  <1>7. new \in RowShape
    <2>1. new \in [Columns -> Sources \union {NoOne}]
      <3>1. ASSUME NEW k \in Columns PROVE new[k] \in Sources \union {NoOne}
        BY <1>1, <1>2, <1>4, ColumnsKnown
      <3>. QED BY <3>1 DEF Mended, new
    <2>. QED BY <1>1, <1>4, <2>1 DEF RowShape
  <1>8. /\ FirstOf(new) \union LastOf(new) \subseteq Writing(lmails)
        /\ LastOf(new) # {} => FirstOf(new) # {}
    BY <1>2, <1>5, <1>6 DEF Earned
  <1>. QED BY <1>1, <1>5, <1>6, <1>7, <1>8 DEF Earned, new, old, late


\* A row that has both touches is not mended.
LEMMA MendedWhole ==
    ASSUME NEW row \in RowShape, FirstOf(row) # {}, LastOf(row) # {}
    PROVE  Mended(row) = row
  <1>1. row \in [Columns -> Sources \union {NoOne}]
    BY DEF RowShape
  <1>2. Mended(row) = [k \in Columns |-> row[k]]
    BY ColumnsKnown DEF Mended
  <1>. QED BY <1>1, <1>2

FirstColumns == {"first_campaign", "first_ads"}

\* What a session holds when it begins is no less earned than what was read.
LEMMA EntersEarned ==
    ASSUME EarnedInv, NEW s \in Writers, NEW e \in SessionShape,
           lw' = [lw EXCEPT ![s] = e], UNCHANGED <<lrow, lmails>>,
           e.pc \in {"send", "mend", "reply"}, e.row = lrow,
           e.pc = "send" /\ e.from # Hand => FirstOf(e.new) # {},
           e.pc \in {"mend", "reply"} => lrow # Missing /\ e.from = Hand,
           Earned(e.new, Writing(lmails) \union ({e.from} \ {Hand})),
           \A k \in FirstColumns : lrow # Missing /\ lrow[k] # NoOne => e.new[k] = lrow[k]
    PROVE  EarnedInv'
  <1>1. lw' \in [Writers -> SessionShape] /\ lw'[s] = e /\ \A r \in Writers \ {s} : lw'[r] = lw[r]
    BY DEF EarnedInv
  <1>2. lrow' = lrow /\ lmails' = lmails /\ (lmails \in ThreadMails)'
    BY DEF EarnedInv
  <1>3. SessionInv(s)'
    BY <1>1, <1>2 DEF SessionInv, FirstKept, Open, LAt, FirstColumns
  <1>4. ASSUME NEW r \in Writers \ {s} PROVE SessionInv(r)'
    BY <1>1, <1>2 DEF EarnedInv, SessionInv, FirstKept, Open, LAt, Touched
  <1>5. /\ (lrow = Missing => Writing(lmails) = {})'
        /\ (lrow = Missing \/ Earned(lrow, Writing(lmails)))'
        /\ (Withdrawn(lmails) # {} => Touched)'
    BY <1>2 DEF EarnedInv, Touched
  <1>. QED BY <1>1, <1>2, <1>3, <1>4, <1>5 DEF EarnedInv

\* A send begins with the thread as it was read, or with a new one.
LEMMA SendsEarned ==
    ASSUME EarnedInv, NEW s \in Writers, NEW c \in Sources \union {Hand}, Sends(s, c)
    PROVE  EarnedInv'
  <1>. DEFINE row == IF lrow = Missing THEN Blank ELSE lrow
              new == IF c = Hand THEN row ELSE Stamped(row, c)
              e == [pc |-> "send", from |-> c, row |-> lrow, new |-> new, counted |-> NoOne, at |-> 0]
  <1>1. lw' = [lw EXCEPT ![s] = e] /\ UNCHANGED <<lrow, lmails>>
    BY DEF Sends
  <1>2. Earned(row, Writing(lmails))
    BY MissingApart DEF EarnedInv, Earned
  <1>3. /\ Earned(new, Writing(lmails) \union ({c} \ {Hand}))
        /\ \A k \in FirstColumns : row[k] # NoOne => new[k] = row[k]
        /\ c # Hand => FirstOf(new) # {}
    <2>1. CASE c = Hand
      BY <1>2, <2>1 DEF Earned
    <2>2. CASE c # Hand
      <3>1. c \in Sources /\ c \notin {Hand}
        BY <2>2
      <3>2. Earned(new, Writing(lmails) \union {c}) /\ FirstOf(new) # {}
        BY <1>2, <2>2, <3>1, StampedEarned
      <3>3. ASSUME NEW k \in FirstColumns, row[k] # NoOne PROVE new[k] = row[k]
        <4>1. FirstOf(row) # {}
          BY <3>3 DEF FirstOf, FirstColumns
        <4>. QED BY <1>2, <2>2, <3>1, <4>1, StampedEarned DEF FirstColumns
      <3>. QED BY <3>1, <3>2, <3>3
    <2>. QED BY <2>1, <2>2
  <1>. HIDE DEF new
  <1>4. e \in SessionShape
    BY <1>3 DEF SessionShape, Earned, EarnedInv
  <1>5. \A k \in FirstColumns : lrow # Missing /\ lrow[k] # NoOne => new[k] = lrow[k]
    BY <1>3
  <1>6. /\ e.pc = "send" /\ e.row = lrow /\ e.new = new /\ e.from = c
        /\ e.pc \in {"send", "mend", "reply"} /\ e.pc \notin {"mend", "reply"}
    OBVIOUS
  <1>. HIDE DEF e
  <1>. QED BY <1>1, <1>3, <1>4, <1>5, <1>6, EntersEarned

\* The inbox and a reply begin with the thread mended.
LEMMA MendsEarned ==
    ASSUME EarnedInv, NEW s \in Writers, Opens(s) \/ Replied(s)
    PROVE  EarnedInv'
  <1>. DEFINE new == Mended(lrow)
              pc == IF Opens(s) THEN "mend" ELSE "reply"
              counted == IF Opens(s) THEN NoOne ELSE LastClassic(lmails)
              e == [pc |-> pc, from |-> Hand, row |-> lrow, new |-> new, counted |-> counted, at |-> 0]
  <1>1. lrow # Missing /\ UNCHANGED <<lrow, lmails>>
    BY DEF Opens, Replied
  <1>2. lw' = [lw EXCEPT ![s] = e]
    <2>1. CASE Opens(s)
      BY <2>1 DEF Opens
    <2>2. CASE ~Opens(s)
      BY <2>2 DEF Replied
    <2>. QED BY <2>1, <2>2
  <1>3. Earned(lrow, Writing(lmails)) /\ lmails \in ThreadMails
    BY <1>1 DEF EarnedInv
  <1>4. /\ Earned(new, Writing(lmails))
        /\ FirstOf(lrow) # {} => /\ new["first_campaign"] = lrow["first_campaign"]
                                 /\ new["first_ads"] = lrow["first_ads"]
    BY <1>3, MendedEarned
  <1>5. \A k \in FirstColumns : lrow[k] # NoOne => new[k] = lrow[k]
    <2>1. ASSUME NEW k \in FirstColumns, lrow[k] # NoOne PROVE new[k] = lrow[k]
      <3>1. FirstOf(lrow) # {}
        BY <2>1 DEF FirstOf, FirstColumns
      <3>. QED BY <1>4, <3>1 DEF FirstColumns
    <2>. QED BY <2>1
  <1>6. counted \in Classic \union {NoOne} /\ pc \in {"mend", "reply"}
    BY <1>3, MailsKnown
  <1>. HIDE DEF new, counted, pc
  <1>7. e \in SessionShape
    BY <1>3, <1>4, <1>6 DEF SessionShape, Earned
  <1>8. /\ e.pc = pc /\ e.row = lrow /\ e.new = new /\ e.from = Hand
        /\ e.pc \in {"send", "mend", "reply"}
        /\ e.pc = "send" /\ e.from # Hand => FirstOf(e.new) # {}
    BY <1>6
  <1>. HIDE DEF e
  <1>9. Writing(lmails) \union ({Hand} \ {Hand}) = Writing(lmails)
    OBVIOUS
  <1>. QED BY <1>1, <1>2, <1>4, <1>5, <1>6, <1>7, <1>8, <1>9, EntersEarned

\* What is written keeps a first touch of the row, and one of the session.
LEMMA ColumnsWrittenKnown ==
    ASSUME EarnedInv, NEW s \in Writers, Open(s), ~ThreadRefused(s)
    PROVE  /\ lw[s].row = Missing => lrow = Missing /\ ColumnsWritten(s) = lw[s].new
           /\ lw[s].row # Missing => Earned(lrow, Writing(lmails))
           /\ \A k \in Columns : ColumnsWritten(s)[k] = lw[s].new[k] \/ ColumnsWritten(s)[k] = lrow[k]
           /\ \A k \in FirstColumns :
                 (lw[s].row # Missing /\ lrow[k] # NoOne) \/ lw[s].new[k] # NoOne
                    => ColumnsWritten(s)[k] # NoOne
  <1>1. lw[s].new \in RowShape /\ lw[s].new \in [Columns -> Sources \union {NoOne}]
    BY DEF EarnedInv, SessionShape, RowShape
  <1>2. SessionInv(s)
    BY DEF EarnedInv
  <1>3. \A k \in Columns : ColumnsWritten(s)[k] =
            IF lw[s].row # Missing /\ lw[s].new[k] = lw[s].row[k] THEN lrow[k] ELSE lw[s].new[k]
    BY DEF ColumnsWritten
  <1>4. lw[s].row = Missing => lrow = Missing /\ ColumnsWritten(s) = lw[s].new
    <2>1. SUFFICES ASSUME lw[s].row = Missing PROVE ColumnsWritten(s) = lw[s].new
      BY DEF ThreadRefused
    <2>2. ColumnsWritten(s) = [k \in Columns |-> lw[s].new[k]]
      BY <2>1 DEF ColumnsWritten
    <2>. QED BY <1>1, <2>2
  <1>5. lw[s].row # Missing => Earned(lrow, Writing(lmails))
    BY <1>2 DEF SessionInv, EarnedInv
  <1>6. ASSUME NEW k \in FirstColumns,
               (lw[s].row # Missing /\ lrow[k] # NoOne) \/ lw[s].new[k] # NoOne
        PROVE  ColumnsWritten(s)[k] # NoOne
    <2>1. FirstKept(s, k) /\ k \in Columns
      BY <1>2 DEF SessionInv, FirstColumns, Columns
    <2>. QED BY <1>3, <1>6, <2>1 DEF FirstKept
  <1>. QED BY <1>3, <1>4, <1>5, <1>6

\* So the row that is written is earned too.
LEMMA ColumnsWrittenEarned ==
    ASSUME EarnedInv, NEW s \in Writers, Open(s), ~ThreadRefused(s)
    PROVE  Earned(ColumnsWritten(s), Writing(lmails) \union ({lw[s].from} \ {Hand}))
  <1>. DEFINE row == ColumnsWritten(s)
              new == lw[s].new
              S == Writing(lmails) \union ({lw[s].from} \ {Hand})
  <1>1. Earned(new, S)
    BY DEF EarnedInv, SessionInv
  <1>2. CASE lw[s].row = Missing
    BY <1>1, <1>2, ColumnsWrittenKnown
  <1>3. CASE lw[s].row # Missing
    <2>1. Earned(lrow, S)
      BY <1>3, ColumnsWrittenKnown DEF Earned
    <2>2. \A k \in Columns : row[k] = new[k] \/ row[k] = lrow[k]
      BY ColumnsWrittenKnown
    <2>3. \A k \in FirstColumns : lrow[k] # NoOne \/ new[k] # NoOne => row[k] # NoOne
      BY <1>3, ColumnsWrittenKnown
    <2>4. new \in RowShape /\ lrow \in RowShape
      BY <1>1, <2>1 DEF Earned
    <2>5. row \in [Columns -> Sources \union {NoOne}]
      <3>1. \A k \in Columns : row[k] \in Sources \union {NoOne}
        BY <2>2, <2>4 DEF RowShape
      <3>. QED BY <3>1 DEF ColumnsWritten
    <2>. HIDE DEF row, new, S
    <2>6. row \in RowShape
      BY <2>2, <2>4, <2>5, ColumnsKnown DEF RowShape
    <2>7. FirstOf(row) \union LastOf(row) \subseteq S
      BY <1>1, <2>1, <2>2, ColumnsKnown DEF Earned, FirstOf, LastOf
    <2>8. LastOf(row) # {} => FirstOf(row) # {}
      <3>1. LastOf(row) # {} => LastOf(new) # {} \/ LastOf(lrow) # {}
        BY <2>2, ColumnsKnown DEF LastOf
      <3>2. FirstOf(new) # {} \/ FirstOf(lrow) # {} => FirstOf(row) # {}
        BY <2>3 DEF FirstOf, FirstColumns
      <3>. QED BY <1>1, <2>1, <3>1, <3>2 DEF Earned
    <2>. QED BY <2>6, <2>7, <2>8 DEF Earned, row, S
  <1>. QED BY <1>2, <1>3

\* The messages after a session has ended
LEMMA ClosesMails ==
    ASSUME EarnedInv, NEW s \in Writers, Closes(s)
    PROVE  /\ lmails' \in ThreadMails
           /\ Writing(lmails') = Writing(lmails) \union ({lw[s].from} \ {Hand})
           /\ Withdrawn(lmails') = Withdrawn(lmails)
           /\ DOMAIN lmails \subseteq DOMAIN lmails'
           /\ LAt(s, "send") /\ lw[s].from # Hand =>
                 /\ Len(lmails') = Len(lmails) + 1
                 /\ Len(lmails) + 1 \in DOMAIN lmails'
                 /\ lmails' # <<>>
                 /\ lmails'[Len(lmails')].by = lw[s].from
                 /\ lmails'[1].by = IF lmails = <<>> THEN lw[s].from ELSE lmails[1].by
           /\ ~(LAt(s, "send") /\ lw[s].from # Hand) => UNCHANGED lmails
  <1>1. lmails \in ThreadMails /\ SessionInv(s) /\ lw[s] \in SessionShape
    BY DEF EarnedInv
  <1>2. lw[s].from \in Sources \union {Hand}
    BY <1>1 DEF SessionShape
  <1>. DEFINE c == lw[s].from
  <1>3. CASE LAt(s, "send") /\ c # Hand
    <2>1. lmails' = Sent(lmails, c)
      BY <1>3 DEF Closes
    <2>. HIDE DEF c
    <2>2. /\ lmails' \in ThreadMails /\ Writing(lmails') = Writing(lmails) \union ({c} \ {Hand})
          /\ Withdrawn(lmails') = Withdrawn(lmails)
          /\ Len(lmails') = Len(lmails) + 1 /\ Len(lmails) + 1 \in DOMAIN lmails'
          /\ lmails'[Len(lmails) + 1].by = c
          /\ lmails'[1].by = IF lmails = <<>> THEN c ELSE lmails[1].by
      <3>1. c \in Sources \union {Hand} /\ c # Hand
        BY <1>2, <1>3 DEF c
      <3>. QED BY <1>1, <2>1, <3>1, SentKnown
    <2>3. DOMAIN lmails = 1..Len(lmails) /\ DOMAIN lmails' = 1..Len(lmails') /\ Len(lmails) \in Nat
      BY <1>1, <2>2, LenProperties DEF ThreadMails
    <2>4. lmails' # <<>> /\ DOMAIN lmails \subseteq DOMAIN lmails'
      BY <2>2, <2>3
    <2>. QED BY <1>3, <2>2, <2>4 DEF c
  <1>4. CASE ~(LAt(s, "send") /\ c # Hand)
    <2>1. lmails' = lmails
      BY <1>1, <1>4 DEF Closes, Sent
    <2>2. c = Hand
      BY <1>1, <1>4 DEF Closes, SessionInv, LAt, SessionShape, Open
    <2>. QED BY <1>1, <1>4, <2>1, <2>2
  <1>. QED BY <1>3, <1>4

\* A first touch stays.
LEMMA TouchStays ==
    ASSUME EarnedInv, NEW s \in Writers, Closes(s),
           Touched \/ (LAt(s, "send") /\ lw[s].from # Hand)
    PROVE  Touched'
  <1>1. Open(s) /\ ~ThreadRefused(s) /\ lrow' = ColumnsWritten(s) /\ SessionInv(s)
    BY DEF Closes, EarnedInv
  <1>2. \E k \in FirstColumns : (lw[s].row # Missing /\ lrow[k] # NoOne) \/ lw[s].new[k] # NoOne
    <2>1. CASE Touched
      BY <1>1, <2>1 DEF Touched, ThreadRefused, FirstOf, FirstColumns
    <2>2. CASE LAt(s, "send") /\ lw[s].from # Hand
      BY <1>1, <2>2 DEF SessionInv, FirstOf, FirstColumns
    <2>. QED BY <2>1, <2>2
  <1>3. PICK k \in FirstColumns : lrow'[k] # NoOne
    BY <1>1, <1>2, ColumnsWrittenKnown
  <1>4. FirstOf(lrow') # {}
    BY <1>3 DEF FirstOf, FirstColumns
  <1>5. lrow' # Missing
    BY <1>1, ColumnsWrittenEarned, MissingApart DEF Earned
  <1>. QED BY <1>4, <1>5 DEF Touched

\* What a session becomes when it ends
LEMMA EndsShape ==
    ASSUME EarnedInv, NEW s \in Writers, Closes(s)
    PROVE  /\ lw' \in [Writers -> SessionShape]
           /\ \A r \in Writers \ {s} : lw'[r] = lw[r]
           /\ lw'[s].row = Missing /\ lw'[s].pc \in {"idle", "flush"}
           /\ lw'[s].pc = "flush" =>
                 /\ LAt(s, "send") /\ lw[s].from # Hand
                 /\ lw'[s].at = Len(lmails) + 1
  <1>. DEFINE e == IF LAt(s, "send") /\ lw[s].from \in Classic
                   THEN [SessionIdle EXCEPT !.pc = "flush", !.at = Len(lmails) + 1]
                   ELSE SessionIdle
  <1>1. lw' = [lw EXCEPT ![s] = e]
    BY DEF Closes
  <1>2. Len(lmails) \in Nat
    BY LenProperties DEF EarnedInv, ThreadMails
  <1>3. SessionIdle = [pc |-> "idle", from |-> Hand, row |-> Missing, counted |-> NoOne,
                       new |-> Blank, at |-> 0]
    BY DEF SessionIdle
  <1>4. e = [pc |-> e.pc, from |-> Hand, row |-> Missing, counted |-> NoOne, new |-> Blank, at |-> e.at]
    BY <1>3
  <1>5. /\ e.pc \in {"idle", "flush"} /\ e.at \in Nat
        /\ e.pc = "flush" => LAt(s, "send") /\ lw[s].from \in Classic /\ e.at = Len(lmails) + 1
    BY <1>2, <1>3
  <1>. HIDE DEF e
  <1>6. e \in SessionShape /\ e.row = Missing
    BY <1>4, <1>5, MissingApart DEF SessionShape
  <1>7. Hand \notin Classic
    BY SourcesAssumption DEF Sources
  <1>. QED BY <1>1, <1>5, <1>6, <1>7 DEF EarnedInv

\* A session that ends keeps what the others have read.
LEMMA ClosesEarned ==
    ASSUME EarnedInv, NEW s \in Writers, Closes(s)
    PROVE  EarnedInv'
  <1>1. Open(s) /\ ~ThreadRefused(s) /\ lrow' = ColumnsWritten(s)
    BY DEF Closes
  <1>2. Earned(lrow', Writing(lmails'))
    BY <1>1, ColumnsWrittenEarned, ClosesMails
  <1>3. lrow' # Missing
    BY <1>2, MissingApart DEF Earned
  <1>4. Withdrawn(lmails') # {} => Touched'
    BY ClosesMails, TouchStays DEF EarnedInv
  <1>5. SessionInv(s)'
    <2>1. lw'[s].pc = "flush" => Touched' /\ lw'[s].at \in DOMAIN lmails'
      BY EndsShape, ClosesMails, TouchStays
    <2>. QED BY <2>1, EndsShape DEF SessionInv, LAt, Open
  <1>6. ASSUME NEW r \in Writers \ {s} PROVE SessionInv(r)'
    <2>1. SessionInv(r) /\ lw'[r] = lw[r] /\ lw[r] \in SessionShape
      BY EndsShape DEF EarnedInv
    <2>2. ASSUME NEW k \in FirstColumns, FirstKept(r, k) PROVE FirstKept(r, k)'
      <3>1. SUFFICES ASSUME lw[r].row # Missing, lw[r].row[k] # NoOne PROVE lrow'[k] # NoOne
        BY <2>1, <2>2 DEF FirstKept
      <3>2. lrow[k] # NoOne /\ lrow # Missing
        BY <2>1, <2>2, <3>1 DEF FirstKept, SessionInv
      <3>3. lw[s].row # Missing
        BY <1>1, <3>2, ColumnsWrittenKnown
      <3>. QED BY <1>1, <3>2, <3>3, ColumnsWrittenKnown
    <2>3. Writing(lmails) \subseteq Writing(lmails')
      BY ClosesMails
    <2>4. Open(r) => Earned(lw[r].new, Writing(lmails') \union ({lw[r].from} \ {Hand}))
      BY <2>1, <2>3 DEF SessionInv, Earned
    <2>5. LAt(r, "flush") => Touched' /\ lw[r].at \in DOMAIN lmails'
      BY <2>1, ClosesMails, TouchStays DEF SessionInv
    <2>. QED BY <1>3, <2>1, <2>2, <2>4, <2>5 DEF SessionInv, LAt, Open, FirstColumns
  <1>. QED BY <1>2, <1>3, <1>4, <1>5, <1>6, ClosesMails, EndsShape DEF EarnedInv

\* A session that is given up leaves nothing, one whose message is published
\* nothing more.
LEMMA DropsEarned ==
    ASSUME EarnedInv, NEW s \in Writers, Drops(s)
    PROVE  EarnedInv'
  <1>1. SessionIdle \in SessionShape
    BY MissingApart DEF SessionIdle, SessionShape
  <1>2. /\ lw' \in [Writers -> SessionShape] /\ lw'[s] = SessionIdle
        /\ \A r \in Writers \ {s} : lw'[r] = lw[r]
        /\ lrow' = lrow /\ lmails' = lmails
    BY <1>1 DEF EarnedInv, Drops
  <1>3. SessionInv(s)'
    BY <1>2 DEF SessionInv, SessionIdle, LAt, Open
  <1>4. ASSUME NEW r \in Writers \ {s} PROVE SessionInv(r)'
    BY <1>2 DEF EarnedInv, SessionInv, FirstKept, LAt, Open, Touched
  <1>5. /\ (lmails \in ThreadMails)' /\ (lrow = Missing => Writing(lmails) = {})'
        /\ (lrow = Missing \/ Earned(lrow, Writing(lmails)))'
        /\ (Withdrawn(lmails) # {} => Touched)'
    BY <1>2 DEF EarnedInv, Touched
  <1>. QED BY <1>2, <1>3, <1>4, <1>5 DEF EarnedInv

\* A deleted message is withdrawn, and nobody ceases to have written.
LEMMA WithdrawsMails ==
    ASSUME EarnedInv, NEW s \in Writers, Withdraws(s)
    PROVE  /\ lmails' \in ThreadMails /\ Touched
           /\ Len(lmails') = Len(lmails) /\ DOMAIN lmails' = DOMAIN lmails
           /\ \A j \in DOMAIN lmails : lmails'[j].by = lmails[j].by
           /\ Writing(lmails') = Writing(lmails)
           /\ Withdrawn(lmails) \subseteq Withdrawn(lmails')
           /\ lmails # <<>> /\ lmails' # <<>>
           /\ 1 \in DOMAIN lmails /\ Len(lmails) \in DOMAIN lmails
  <1>. DEFINE i == lw[s].at
              e == [by |-> lmails[i].by, gone |-> TRUE]
  <1>1. i \in DOMAIN lmails /\ Touched /\ lmails \in ThreadMails
    BY DEF EarnedInv, SessionInv, Withdraws
  <1>2. lmails' = [lmails EXCEPT ![i] = e]
    BY DEF Withdraws
  <1>. HIDE DEF i
  <1>3. /\ lmails' \in ThreadMails
        /\ Len(lmails') = Len(lmails) /\ DOMAIN lmails' = DOMAIN lmails
        /\ \A j \in DOMAIN lmails : lmails'[j].by = lmails[j].by
        /\ Writing(lmails') = Writing(lmails)
        /\ Withdrawn(lmails) \subseteq Withdrawn(lmails')
    <2>1. lmails[i] \in [by : Sources, gone : BOOLEAN] /\ i \in 1..Len(lmails)
      BY <1>1, ElementOfSeq, LenProperties DEF ThreadMails
    <2>2. e \in [by : Sources, gone : BOOLEAN] /\ e.by = lmails[i].by /\ e.gone = TRUE
      BY <2>1
    <2>. HIDE DEF e
    <2>3. lmails' \in ThreadMails /\ Len(lmails') = Len(lmails)
      BY <1>1, <1>2, <2>1, <2>2, ExceptSeq DEF ThreadMails
    <2>4. /\ DOMAIN lmails' = DOMAIN lmails
          /\ \A j \in DOMAIN lmails : lmails'[j] = IF j = i THEN e ELSE lmails[j]
      BY <1>2
    <2>5. \A j \in DOMAIN lmails : lmails'[j].by = lmails[j].by /\ (lmails[j].gone => lmails'[j].gone)
      BY <2>2, <2>4
    <2>6. Writing(lmails') = Writing(lmails) /\ Withdrawn(lmails) \subseteq Withdrawn(lmails')
      BY <2>4, <2>5 DEF Writing, Withdrawn
    <2>. QED BY <2>3, <2>4, <2>5, <2>6
  <1>4. DOMAIN lmails = 1..Len(lmails) /\ Len(lmails) \in Nat
    BY <1>1, LenProperties DEF ThreadMails
  <1>5. 1 \in DOMAIN lmails /\ Len(lmails) \in DOMAIN lmails
    BY <1>1, <1>4
  <1>6. lmails # <<>> /\ lmails' # <<>>
    BY <1>3, <1>5
  <1>. QED BY <1>1, <1>3, <1>5, <1>6

\* A message that is deleted takes nothing from what is earned.
LEMMA WithdrawsEarned ==
    ASSUME EarnedInv, NEW s \in Writers, Withdraws(s)
    PROVE  EarnedInv'
  <1>1. SessionIdle \in SessionShape
    BY MissingApart DEF SessionIdle, SessionShape
  <1>2. /\ lw' \in [Writers -> SessionShape] /\ lw'[s] = SessionIdle
        /\ \A r \in Writers \ {s} : lw'[r] = lw[r]
        /\ lrow' = lrow
    BY <1>1 DEF EarnedInv, Withdraws
  <1>3. SessionInv(s)'
    BY <1>2 DEF SessionInv, SessionIdle, LAt, Open
  <1>4. Writing(lmails') = Writing(lmails) /\ DOMAIN lmails' = DOMAIN lmails /\ lmails' \in ThreadMails /\ Touched
    BY WithdrawsMails
  <1>5. ASSUME NEW r \in Writers \ {s} PROVE SessionInv(r)'
    BY <1>2, <1>4 DEF EarnedInv, SessionInv, FirstKept, LAt, Open, Touched
  <1>6. /\ (lrow = Missing => Writing(lmails) = {})'
        /\ (lrow = Missing \/ Earned(lrow, Writing(lmails)))'
        /\ Touched'
    BY <1>2, <1>4 DEF EarnedInv, Touched
  <1>. QED BY <1>2, <1>3, <1>4, <1>5, <1>6 DEF EarnedInv

-----------------------------------------------------------------------------

\* A session that begins while another one is under way is an overlap.
LEMMA BeginsSerial ==
    ASSUME TouchInv, NEW s \in Writers,
           (\E c \in Sources \union {Hand} : Sends(s, c)) \/ Opens(s) \/ Replied(s)
    PROVE  SerialInv' /\ TouchExact' /\ RepliesAgree'
  <1>1. /\ UNCHANGED <<lrow, lmails, lreply, lold>>
        /\ lover' = (lover \/ \E r \in Writers : Open(r))
        /\ \A r \in Writers \ {s} : lw'[r] = lw[r]
    BY DEF Sends, Opens, Replied, Starts, TouchInv, EarnedInv
  <1>2. TouchExact' /\ RepliesAgree'
    BY <1>1 DEF TouchInv, TouchExact, RepliesAgree
  <1>3. /\ lw'[s].row = lrow
        /\ Intended(s)'
    <2>1. ASSUME NEW c \in Sources \union {Hand}, Sends(s, c)
          PROVE  lw'[s].row = lrow /\ Intended(s)'
      <3>. DEFINE new == IF c = Hand THEN IF lrow = Missing THEN Blank ELSE lrow
                         ELSE Stamped(IF lrow = Missing THEN Blank ELSE lrow, c)
      <3>1. lw'[s] = [pc |-> "send", from |-> c, row |-> lrow, counted |-> NoOne, new |-> new, at |-> 0]
        BY <2>1 DEF Sends, TouchInv, EarnedInv
      <3>. HIDE DEF new
      <3>2. lw'[s].pc = "send" /\ lw'[s].from = c /\ lw'[s].row = lrow /\ lw'[s].new = new
        BY <3>1
      <3>3. lrow' = lrow
        BY <1>1
      <3>. QED BY <3>2, <3>3 DEF Intended, LAt, new
    <2>2. ASSUME Opens(s) \/ Replied(s)
          PROVE  lw'[s].row = lrow /\ Intended(s)'
      <3>1. /\ lw'[s].pc \in {"mend", "reply"}
            /\ lw'[s].row = lrow
            /\ lw'[s].new = Mended(lrow)
            /\ lw'[s].pc = "reply" => lw'[s].counted = LastClassic(lmails)
        BY <2>2 DEF Opens, Replied, TouchInv, EarnedInv
      <3>2. lrow' = lrow /\ lmails' = lmails
        BY <1>1
      <3>3. Mended(lrow)' = Mended(lrow)
        BY <3>2 DEF Mended
      <3>4. lmails \in ThreadMails
        BY DEF TouchInv, EarnedInv
      <3>5. lw'[s].pc = "reply" => CountsLast(s)'
        BY <3>1, <3>2, <3>4, MailsKnown DEF CountsLast
      <3>. QED BY <3>1, <3>2, <3>3, <3>5 DEF Intended, LAt
    <2>. QED BY <2>1, <2>2
  <1>4. SerialInv'
    <2>1. SUFFICES ASSUME ~lover', NEW t \in Writers, Open(t)'
                   PROVE  t = s /\ \A r \in Writers \ {s} : ~Open(r)'
      BY <1>1, <1>3 DEF SerialInv
    <2>2. \A r \in Writers : ~Open(r)
      BY <1>1, <2>1
    <2>. QED BY <1>1, <2>1, <2>2 DEF LAt, Open
  <1>. QED BY <1>2, <1>4

\* A session that was alone writes what it means to, as it read it.
LEMMA ClosesAlone ==
    ASSUME TouchInv, NEW s \in Writers, Closes(s), ~lover
    PROVE  lrow' = lw[s].new /\ lw[s].row = lrow /\ Intended(s)
  <1>1. /\ Open(s) /\ ~ThreadRefused(s) /\ EarnedInv
        /\ lrow' = ColumnsWritten(s)
    BY DEF Closes, TouchInv
  <1>2. lw[s].row = lrow /\ Intended(s)
    BY <1>1 DEF TouchInv, SerialInv
  <1>3. lw[s].new \in [Columns -> Sources \union {NoOne}]
    BY <1>1 DEF EarnedInv, SessionShape, RowShape
  <1>4. ColumnsWritten(s) = [k \in Columns |-> lw[s].new[k]]
    BY <1>2 DEF ColumnsWritten
  <1>. QED BY <1>1, <1>2, <1>3, <1>4

\* The first and the last touch are exact after a session that was alone.
LEMMA ClosesExact ==
    ASSUME TouchInv, NEW s \in Writers, Closes(s)
    PROVE  TouchExact'
  <1>1. /\ Open(s) /\ ~ThreadRefused(s)
        /\ lover' = lover
        /\ lold' = (lold \/ (LAt(s, "send") /\ lw[s].from # Hand /\ FirstOf(lrow) = {} /\ Writing(lmails) # {}))
    BY DEF Closes
  <1>2. SUFFICES ASSUME ~lover, FirstOf(lrow') # {}
                 PROVE  /\ LastOf(lrow') = {lmails'[Len(lmails')].by}
                        /\ ~lold' => FirstOf(lrow') = {lmails'[1].by}
                        /\ lold' => \E c \in Sources : FirstOf(lrow') = {c}
    BY <1>1 DEF TouchExact
  <1>3. EarnedInv /\ lmails \in ThreadMails /\ SessionInv(s)
    BY DEF TouchInv, EarnedInv
  <1>4. /\ lrow' = lw[s].new /\ lw[s].row = lrow /\ Intended(s)
        /\ lw[s].from \in Sources \union {Hand}
    BY <1>2, <1>3, ClosesAlone DEF EarnedInv, SessionShape
  <1>5. lrow # Missing /\ FirstOf(lrow) # {} =>
            /\ LastOf(lrow) = {lmails[Len(lmails)].by}
            /\ ~lold => FirstOf(lrow) = {lmails[1].by}
            /\ lold => \E c \in Sources : FirstOf(lrow) = {c}
    BY <1>2 DEF TouchInv, TouchExact
  <1>6. CASE LAt(s, "send") /\ lw[s].from # Hand
    <2>. DEFINE c == lw[s].from
                row == IF lrow = Missing THEN Blank ELSE lrow
    <2>1. c \in Sources /\ lrow' = Stamped(row, c) /\ Earned(row, Writing(lmails))
      BY <1>3, <1>4, <1>6, MissingApart DEF Intended, EarnedInv, Earned
    <2>2. /\ lmails'[Len(lmails')].by = c
          /\ lmails'[1].by = IF lmails = <<>> THEN c ELSE lmails[1].by
      BY <1>3, <1>6, ClosesMails
    <2>3. lmails = <<>> <=> Writing(lmails) = {}
      BY <1>3, MailsKnown
    <2>. HIDE DEF c, row
    <2>4. /\ LastOf(lrow') = {c}
          /\ FirstOf(lrow') = IF FirstOf(row) = {} THEN {c} ELSE FirstOf(row)
      BY <2>1, StampedEarned
    <2>5. CASE FirstOf(row) = {}
      <3>1. Writing(lmails) # {} => lold'
        <4>1. lrow = Missing => Writing(lmails) = {}
          BY <1>3 DEF EarnedInv
        <4>. QED BY <1>1, <1>6, <2>5, <4>1 DEF row
      <3>. QED BY <2>1, <2>2, <2>3, <2>4, <2>5, <3>1
    <2>6. CASE FirstOf(row) # {}
      <3>1. lrow # Missing /\ row = lrow /\ Writing(lmails) # {}
        BY <2>1, <2>6, MissingApart DEF Earned, row
      <3>2. lold' <=> lold
        BY <1>1, <2>6, <3>1
      <3>. QED BY <1>5, <2>2, <2>3, <2>4, <2>6, <3>1, <3>2
    <2>. QED BY <2>5, <2>6
  <1>7. CASE ~(LAt(s, "send") /\ lw[s].from # Hand)
    <2>1. lmails' = lmails /\ (lold' <=> lold)
      BY <1>1, <1>3, <1>7, ClosesMails
    <2>2. CASE LAt(s, "send")
      <3>1. lrow' = IF lrow = Missing THEN Blank ELSE lrow
        BY <1>4, <1>7, <2>2 DEF Intended
      <3>2. lrow # Missing /\ lrow' = lrow
        BY <1>2, <3>1, MissingApart
      <3>. QED BY <1>2, <1>5, <2>1, <3>2
    <2>3. CASE ~LAt(s, "send")
      <3>1. lw[s] \in SessionShape /\ lrow # Missing /\ lrow' = Mended(lrow)
        BY <1>1, <1>3, <1>4, <2>3 DEF EarnedInv, SessionInv, SessionShape, LAt, Open, Intended
      <3>2. Earned(lrow, Writing(lmails))
        BY <1>3, <3>1 DEF EarnedInv
      <3>3. /\ FirstOf(lrow') = IF FirstOf(lrow) = {} /\ There(lmails) # {} THEN {Oldest(lmails)} ELSE FirstOf(lrow)
            /\ LastOf(lrow') = IF LastOf(lrow) = {} /\ There(lmails) # {} THEN {Newest(lmails)} ELSE LastOf(lrow)
        BY <1>3, <3>1, <3>2, MendedEarned
      <3>4. CASE FirstOf(lrow) = {}
        <4>1. LastOf(lrow) = {} /\ There(lmails) # {}
          BY <1>2, <3>2, <3>3, <3>4 DEF Earned
        <4>2. Withdrawn(lmails) = {}
          BY <1>3, <3>4 DEF EarnedInv, Touched
        <4>3. Oldest(lmails) = lmails[1].by /\ Newest(lmails) = lmails[Len(lmails)].by
          BY <1>3, <4>1, <4>2, MailsKnown
        <4>4. Oldest(lmails) \in Sources
          BY <1>3, <4>1, MailsKnown
        <4>. QED BY <2>1, <3>3, <3>4, <4>1, <4>3, <4>4
      <3>5. CASE FirstOf(lrow) # {}
        BY <1>5, <2>1, <3>1, <3>3, <3>5
      <3>. QED BY <3>4, <3>5
    <2>. QED BY <2>2, <2>3
  <1>. QED BY <1>6, <1>7

\* A reply that ends alone is filed where it is counted.
LEMMA ClosesAgree ==
    ASSUME TouchInv, NEW s \in Writers, Closes(s), TouchExact', EarnedInv'
    PROVE  RepliesAgree'
  <1>1. lover' = lover /\ Open(s)
    BY DEF Closes
  <1>2. CASE ~LAt(s, "reply")
    <2>1. Withdrawn(lmails') = Withdrawn(lmails) /\ lreply' = lreply
      BY <1>2, ClosesMails DEF TouchInv, Closes
    <2>. QED BY <1>1, <2>1 DEF TouchInv, RepliesAgree
  <1>3. CASE LAt(s, "reply")
    <2>1. lreply' = [to |-> Credited(lw[s].new), counted |-> lw[s].counted]
      BY <1>3 DEF Closes
    <2>2. SUFFICES ASSUME ~lover, Credited(lw[s].new) \in Classic \ Withdrawn(lmails')
                   PROVE  lw[s].counted = Credited(lw[s].new)
      BY <1>1, <2>1 DEF RepliesAgree
    <2>3. lrow' = lw[s].new /\ CountsLast(s) /\ lmails' = lmails
      <3>1. ~LAt(s, "send")
        BY <1>3 DEF LAt
      <3>2. lrow' = lw[s].new /\ Intended(s)
        BY <2>2, ClosesAlone
      <3>3. lmails' = lmails
        BY <3>1 DEF Closes
      <3>. QED BY <1>3, <3>1, <3>2, <3>3 DEF Intended
    <2>. DEFINE row == lw[s].new
                last == row["last_campaign"]
    <2>4. row \in RowShape /\ row # Missing
      BY MissingApart DEF TouchInv, EarnedInv, SessionShape
    <2>5. last \in Classic /\ last # NoOne /\ Credited(row) = last
      <3>1. row["last_ads"] \notin Classic
        BY <2>4, SourcesAssumption DEF RowShape, Sources
      <3>2. last # NoOne
        BY <2>2, <3>1 DEF Credited
      <3>. QED BY <2>2, <3>2 DEF Credited
    <2>6. last \in LastOf(row)
      BY <2>5 DEF LastOf
    <2>7. FirstOf(row) # {}
      BY <2>3, <2>4, <2>6 DEF EarnedInv, Earned
    <2>8. LastOf(row) = {lmails[Len(lmails)].by}
      BY <1>1, <2>2, <2>3, <2>4, <2>7 DEF TouchExact
    <2>9. lmails[Len(lmails)].by = last
      BY <2>6, <2>8
    <2>10. lmails # <<>>
      <3>1. lmails \in ThreadMails /\ last \in Writing(lmails)
        BY <2>3, <2>4, <2>6 DEF TouchInv, EarnedInv, Earned
      <3>. QED BY <3>1, MailsKnown
    <2>. QED BY <2>2, <2>3, <2>5, <2>9, <2>10 DEF CountsLast
  <1>. QED BY <1>2, <1>3

\* An end leaves no session under way, or the same ones as before.
LEMMA EndsSerial ==
    ASSUME TouchInv, NEW s \in Writers, Closes(s) \/ (LAt(s, "send") /\ Drops(s))
    PROVE  SerialInv'
  <1>1. /\ lover' = lover /\ Open(s)
        /\ lw'[s].pc \in {"idle", "flush"}
        /\ \A r \in Writers \ {s} : lw'[r] = lw[r]
    <2>1. CASE Closes(s)
      BY <2>1, EndsShape DEF Closes, TouchInv
    <2>2. CASE LAt(s, "send") /\ Drops(s)
      BY <2>2 DEF Drops, TouchInv, EarnedInv, SessionIdle, LAt, Open
    <2>. QED BY <2>1, <2>2
  <1>2. SUFFICES ASSUME ~lover, NEW r \in Writers PROVE ~Open(r)'
    BY <1>1 DEF SerialInv
  <1>3. CASE r = s
    BY <1>1, <1>3 DEF LAt, Open
  <1>4. CASE r # s
    <2>1. ~Open(r)
      BY <1>1, <1>2, <1>4 DEF TouchInv, SerialInv
    <2>. QED BY <1>1, <1>4, <2>1 DEF LAt, Open
  <1>. QED BY <1>3, <1>4

\* What a session that is alone means to write stands when a message of
\* another one is published or deleted: the thread is stamped, so that there is
\* nothing to mend.
LEMMA FlushSerial ==
    ASSUME TouchInv, NEW s \in Writers, LAt(s, "flush"), Drops(s) \/ Withdraws(s)
    PROVE  SerialInv'
  <1>1. /\ lover' = lover /\ lrow' = lrow
        /\ ~Open(s)' /\ \A r \in Writers \ {s} : lw'[r] = lw[r]
    BY DEF Drops, Withdraws, TouchInv, EarnedInv, SessionIdle, LAt, Open
  <1>2. Touched /\ EarnedInv
    BY DEF TouchInv, EarnedInv, SessionInv
  <1>3. SUFFICES ASSUME ~lover, NEW t \in Writers, Open(t)'
                 PROVE  /\ \A r \in Writers \ {t} : ~Open(r)'
                        /\ lw'[t].row = lrow
                        /\ Intended(t)'
    BY <1>1 DEF SerialInv
  <1>4. t # s /\ lw'[t] = lw[t] /\ Open(t)
    BY <1>1, <1>3 DEF Open, LAt
  <1>5. /\ \A r \in Writers \ {t} : ~Open(r)
        /\ lw[t].row = lrow
        /\ Intended(t)
    BY <1>3, <1>4 DEF TouchInv, SerialInv
  <1>6. \A r \in Writers \ {t} : ~Open(r)'
    BY <1>1, <1>5 DEF Open, LAt
  <1>7. Intended(t)'
    <2>1. CASE LAt(t, "send")
      BY <1>1, <1>4, <1>5, <2>1 DEF Intended, LAt
    <2>2. CASE ~LAt(t, "send")
      <3>1. lrow \in RowShape /\ FirstOf(lrow) # {}
        BY <1>2 DEF EarnedInv, Earned, Touched
      <3>2. LastOf(lrow) # {}
        BY <1>2, <1>3 DEF TouchInv, TouchExact, Touched
      <3>3. Mended(lrow) = lrow
        BY <3>1, <3>2, MendedWhole
      <3>4. Mended(lrow)' = lrow
        <4>1. lrow' \in RowShape /\ FirstOf(lrow') # {} /\ LastOf(lrow') # {}
          BY <1>1, <3>1, <3>2
        <4>2. \A k \in Columns : Mended(lrow)'[k] = lrow'[k]
          BY <4>1, ColumnsKnown DEF Mended
        <4>3. Mended(lrow)' = [k \in Columns |-> lrow'[k]]
          BY <4>1, ColumnsKnown DEF Mended
        <4>. QED BY <1>1, <4>1, <4>3 DEF RowShape
      <3>5. CountsLast(t) => CountsLast(t)'
        <4>1. CASE Drops(s)
          BY <1>4, <4>1 DEF Drops, CountsLast
        <4>2. CASE Withdraws(s)
          BY <1>2, <1>4, <4>2, WithdrawsMails DEF CountsLast
        <4>. QED BY <4>1, <4>2
      <3>6. lw[t].new = Mended(lrow) /\ (LAt(t, "reply") => CountsLast(t))
        BY <1>5, <2>2 DEF Intended
      <3>7. lw'[t].new = Mended(lrow)' /\ (LAt(t, "reply")' => CountsLast(t)') /\ ~LAt(t, "send")'
        BY <1>4, <2>2, <3>3, <3>4, <3>5, <3>6 DEF LAt
      <3>. QED BY <3>7 DEF Intended
    <2>. QED BY <2>1, <2>2
  <1>. QED BY <1>4, <1>5, <1>6, <1>7

\* A message that is deleted leaves both touches, and a reply where it is.
LEMMA WithdrawsExact ==
    ASSUME TouchInv, NEW s \in Writers, Withdraws(s)
    PROVE  TouchExact' /\ RepliesAgree'
  <1>1. lrow' = lrow /\ lreply' = lreply /\ lold' = lold /\ lover' = lover /\ EarnedInv
    BY DEF Withdraws, TouchInv
  <1>2. /\ lmails'[1].by = lmails[1].by
        /\ lmails'[Len(lmails')].by = lmails[Len(lmails)].by
        /\ Withdrawn(lmails) \subseteq Withdrawn(lmails')
    BY <1>1, WithdrawsMails
  <1>3. TouchExact'
    BY <1>1, <1>2 DEF TouchInv, TouchExact
  <1>4. RepliesAgree'
    BY <1>1, <1>2 DEF TouchInv, RepliesAgree
  <1>. QED BY <1>3, <1>4

LEMMA TouchInit == LInit => TouchInv
  <1>. SUFFICES ASSUME LInit PROVE TouchInv
    OBVIOUS
  <1>1. lw = [r \in Writers |-> SessionIdle] /\ lreply = NoReply /\ lover = FALSE
    BY DEF LInit
  <1>2. SessionIdle \in SessionShape /\ SessionIdle.pc = "idle" /\ SessionIdle.row = Missing
    BY MissingApart DEF SessionIdle, SessionShape
  <1>3. lw \in [Writers -> SessionShape] /\ \A r \in Writers : SessionInv(r) /\ ~Open(r)
    BY <1>1, <1>2 DEF SessionInv, LAt, Open
  <1>4. NoOne \notin Sources /\ Hand \notin Sources
    BY SourcesAssumption
  <1>5. <<>> \in ThreadMails /\ Writing(<<>>) = {} /\ Withdrawn(<<>>) = {}
    <2>1. <<>> \in ThreadMails
      BY EmptySeq DEF ThreadMails
    <2>2. DOMAIN <<>> = {}
      BY EmptySeq
    <2>. QED BY <2>1, <2>2 DEF Writing, Withdrawn
  <1>6. /\ lmails \in ThreadMails /\ Withdrawn(lmails) = {}
        /\ lrow = Missing => Writing(lmails) = {}
        /\ lrow = Missing \/ lrow = Blank
    <2>1. CASE lrow = Missing /\ lmails = <<>>
      BY <1>5, <2>1
    <2>2. CASE lrow = Blank /\ \E c \in Sources \union {Hand} : lmails = Sent(<<>>, c)
      <3>1. PICK c \in Sources \union {Hand} : lmails = Sent(<<>>, c)
        BY <2>2
      <3>2. lmails \in ThreadMails /\ Withdrawn(lmails) = {}
        BY <1>5, <3>1, SentKnown
      <3>3. lrow # Missing
        BY <2>2, MissingApart
      <3>. QED BY <2>2, <3>2, <3>3
    <2>. QED BY <2>1, <2>2 DEF LInit
  <1>7. lrow = Missing \/ Earned(lrow, Writing(lmails))
    BY <1>6, MissingApart DEF Earned
  <1>8. SerialInv
    BY <1>3 DEF SerialInv
  <1>9. TouchExact
    BY <1>6, MissingApart DEF TouchExact
  <1>10. RepliesAgree
    BY <1>1, <1>4 DEF RepliesAgree, NoReply, Sources
  <1>. QED BY <1>3, <1>6, <1>7, <1>8, <1>9, <1>10 DEF TouchInv, EarnedInv

\* Every step keeps the invariant.
LEMMA TouchStep == TouchInv /\ [LNext]_lvars => TouchInv'
  <1>. SUFFICES ASSUME TouchInv, [LNext]_lvars PROVE TouchInv'
    OBVIOUS
  <1>1. ASSUME NEW s \in Writers, NEW c \in Sources \union {Hand}, Sends(s, c) PROVE TouchInv'
    BY <1>1, SendsEarned, BeginsSerial DEF TouchInv
  <1>2. ASSUME NEW s \in Writers, Opens(s) \/ Replied(s) PROVE TouchInv'
    BY <1>2, MendsEarned, BeginsSerial DEF TouchInv
  <1>3. ASSUME NEW s \in Writers, Closes(s) PROVE TouchInv'
    <2>1. EarnedInv' /\ TouchExact' /\ SerialInv'
      BY <1>3, ClosesEarned, ClosesExact, EndsSerial DEF TouchInv
    <2>2. RepliesAgree'
      BY <1>3, <2>1, ClosesAgree
    <2>. QED BY <2>1, <2>2 DEF TouchInv
  <1>4. ASSUME NEW s \in Writers, Drops(s) PROVE TouchInv'
    <2>1. EarnedInv'
      BY <1>4, DropsEarned DEF TouchInv
    <2>2. SerialInv'
      <3>1. LAt(s, "send") \/ LAt(s, "flush")
        BY <1>4 DEF Drops
      <3>. QED BY <1>4, <3>1, EndsSerial, FlushSerial
    <2>3. TouchExact' /\ RepliesAgree'
      BY <1>4 DEF Drops, TouchInv, TouchExact, RepliesAgree
    <2>. QED BY <2>1, <2>2, <2>3 DEF TouchInv
  <1>5. ASSUME NEW s \in Writers, Withdraws(s) PROVE TouchInv'
    <2>1. EarnedInv'
      BY <1>5, WithdrawsEarned DEF TouchInv
    <2>2. SerialInv'
      <3>1. LAt(s, "flush")
        BY <1>5 DEF Withdraws
      <3>. QED BY <1>5, <3>1, FlushSerial
    <2>3. TouchExact' /\ RepliesAgree'
      BY <1>5, WithdrawsExact
    <2>. QED BY <2>1, <2>2, <2>3 DEF TouchInv
  <1>6. CASE UNCHANGED lvars
    <2>1. UNCHANGED <<lrow, lmails, lw, lreply, lold, lover>>
      BY <1>6 DEF lvars
    <2>2. EarnedInv'
      BY <2>1 DEF TouchInv, EarnedInv, SessionInv, FirstKept, LAt, Open, Touched
    <2>3. Mended(lrow)' = Mended(lrow)
      BY <2>1 DEF Mended
    <2>4. SerialInv'
      BY <2>1, <2>3 DEF TouchInv, SerialInv, Intended, CountsLast, LAt, Open
    <2>5. TouchExact' /\ RepliesAgree'
      BY <2>1 DEF TouchInv, TouchExact, RepliesAgree
    <2>. QED BY <2>2, <2>4, <2>5 DEF TouchInv
  <1>. QED BY <1>1, <1>2, <1>3, <1>4, <1>5, <1>6 DEF LNext

\* However sends, the inbox and replies interleave, and whatever messages the
\* broker refuses, a thread shows no campaign that has not written in it or lost
\* a message there, and a first touch with a last one; as long as sessions
\* follow one another both touches are those of the first and the last message,
\* and a reply is counted where it is filed unless its campaign lost one.
THEOREM TouchesHoldAlways == LSpec => []TouchesHold
  <1>1. TouchInv => TouchesHold
    <2>. SUFFICES ASSUME TouchInv PROVE TouchEarned
      BY DEF TouchInv, TouchesHold
    <2>1. SUFFICES ASSUME lrow # Missing, NEW c \in FirstOf(lrow) \union LastOf(lrow)
                   PROVE  /\ (\E i \in There(lmails) : lmails[i].by = c) \/ c \in Withdrawn(lmails)
                          /\ LastOf(lrow) # {} => FirstOf(lrow) # {}
      BY DEF TouchEarned
    <2>2. Earned(lrow, Writing(lmails)) /\ lmails \in ThreadMails
      BY <2>1 DEF TouchInv, EarnedInv
    <2>3. c \in Writing(lmails)
      BY <2>1, <2>2 DEF Earned
    <2>. QED BY <2>2, <2>3, MailsKnown DEF Earned
  <1>. QED BY <1>1, TouchInit, TouchStep, PTL DEF LSpec
=============================================================================
