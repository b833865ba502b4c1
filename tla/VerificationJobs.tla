-------------------------- MODULE VerificationJobs --------------------------
(***************************************************************************)
(* A queued email verification: one email_verification_jobs row, the       *)
(* contacts it was made for, and the asyncio tasks that run it.  A task    *)
(* carries the row as it has loaded it and writes the attributes it has    *)
(* changed; processed is the index at which a restart goes on.             *)
(***************************************************************************)
EXTENDS Naturals, FiniteSets

CONSTANTS
    N,           \* length of the snapshot; contacts are 1..N
    Chunk,       \* contacts that are checked and committed at a time
    Runners,     \* tasks of this process, and of one that is being replaced
    Overlap,     \* does a process start before the one it replaces has ended
    MaxCrashes,  \* bound on the deaths of a process
    MayCancel,   \* may the job be cancelled
    Raced        \* may an edit fall between the second read and the commit

VARIABLES
    vjob,     \* the committed row
    vaddr,    \* the address of a contact, or that it is gone
    vmark,    \* the address for which a contact shows a verdict
    vrun,     \* the tasks
    vcancel,  \* the status a cancel request has read
    vcrash    \* deaths so far

vvars == <<vjob, vaddr, vmark, vrun, vcancel, vcrash>>

Contact == 1..N
ActiveJob == {"queued", "running"}
JobType == [status : ActiveJob \union {"done", "failed", "cancelled"},
            processed : 0..N,
            checked : Nat,     \* valid, invalid, risky and unknown together
            skipped : Nat]
NewJob == [status |-> "queued", processed |-> 0, checked |-> 0, skipped |-> 0]
Address == {"old", "new", "gone"}
RunnerType == [pc : {"idle", "start", "loop", "check", "commit"},
               row : JobType,                  \* as loaded
               seen : [Contact -> Address]]    \* the addresses that are checked
NoAddress == [c \in Contact |-> "gone"]
IdleRun == [pc |-> "idle", row |-> NewJob, seen |-> NoAddress]

VInit ==
    /\ vjob = NewJob
    /\ vaddr = [c \in Contact |-> "old"]
    /\ vmark = [c \in Contact |-> "none"]
    /\ vrun = [r \in Runners |-> IdleRun]
    /\ vcancel = "none"
    /\ vcrash = 0

\* The part of the snapshot that a task works on next
Window(row) == {c \in Contact : row.processed < c /\ c <= row.processed + Chunk}

Step(r, from) == vrun[r].pc = from
Set(r, run) == vrun' = [vrun EXCEPT ![r] = run]
TaskOnly == UNCHANGED <<vcancel, vcrash>>

-----------------------------------------------------------------------------
\* Mutant: a job that was running is not resumed.
BeginQueued(r) ==
    /\ Step(r, "idle")
    /\ Overlap \/ \A q \in Runners : Step(q, "idle")
    /\ vjob.status = "queued"
    /\ Set(r, [IdleRun EXCEPT !.pc = "start", !.row = vjob])
    /\ UNCHANGED <<vjob, vaddr, vmark>> /\ TaskOnly

\* run_job, spawned when the job is made or by resume_pending at a start
Begin(r) ==
    /\ Step(r, "idle")
    /\ Overlap \/ \A q \in Runners : Step(q, "idle")
    /\ vjob.status \in ActiveJob
    /\ Set(r, [IdleRun EXCEPT !.pc = "start", !.row = vjob])
    /\ UNCHANGED <<vjob, vaddr, vmark>> /\ TaskOnly

\* The capability of the server has been asked for; running is written
\* if it is a change to what was loaded.
Start(r) ==
    /\ Step(r, "start")
    /\ vjob' = IF vrun[r].row.status = "running" THEN vjob
               ELSE [vjob EXCEPT !.status = "running"]
    /\ Set(r, [vrun[r] EXCEPT !.pc = "loop", !.row.status = "running"])
    /\ UNCHANGED <<vaddr, vmark>> /\ TaskOnly

\* The row is read again, and the addresses to check.
Refresh(r) ==
    /\ Step(r, "loop") /\ vrun[r].row.processed < N
    /\ Set(r, IF vjob.status # "running" THEN IdleRun
              ELSE [pc |-> "check", row |-> vjob,
                    seen |-> [c \in Contact |->
                                IF c \in Window(vjob) THEN vaddr[c] ELSE "gone"]])
    /\ UNCHANGED <<vjob, vaddr, vmark>> /\ TaskOnly

\* Mutant: the verdict goes to whatever address the contact has now.
RereadAny(r) ==
    /\ Step(r, "check")
    /\ Set(r, [vrun[r] EXCEPT !.pc = "commit"])
    /\ UNCHANGED <<vjob, vaddr, vmark>> /\ TaskOnly

\* The mailboxes have been asked; the contacts are read again, and a verdict
\* is for those that have the address still.
Reread(r) ==
    /\ Step(r, "check")
    /\ Set(r, [vrun[r] EXCEPT !.pc = "commit",
                 !.seen = [c \in Contact |-> IF vaddr[c] = @[c] THEN @[c] ELSE "gone"]])
    /\ UNCHANGED <<vjob, vaddr, vmark>> /\ TaskOnly

Checked(run) == {c \in Contact : run.seen[c] # "gone"}

\* The row after a chunk
Tallied(run) ==
    [run.row EXCEPT !.processed = @ + Cardinality(Window(run.row)),
                    !.checked = @ + Cardinality(Checked(run)),
                    !.skipped = @ + Cardinality(Window(run.row) \ Checked(run))]

\* Of the row, only what differs from what was loaded is written.
Written(old, new) == [k \in DOMAIN vjob |-> IF new[k] = old[k] THEN vjob[k] ELSE new[k]]

CommitChunk(r) ==
    /\ Step(r, "commit")
    /\ \A c \in Checked(vrun[r]) : vaddr[c] # "gone"
    /\ vjob' = Written(vrun[r].row, Tallied(vrun[r]))
    /\ vmark' = [c \in Contact |->
                   IF c \in Checked(vrun[r]) THEN vrun[r].seen[c] ELSE vmark[c]]
    /\ Set(r, [pc |-> "loop", row |-> Tallied(vrun[r]), seen |-> NoAddress])
    /\ UNCHANGED vaddr /\ TaskOnly

Finish(r) ==
    /\ Step(r, "loop") /\ vrun[r].row.processed >= N
    /\ vjob' = [vjob EXCEPT !.status = "done"]
    /\ Set(r, IdleRun)
    /\ UNCHANGED <<vaddr, vmark>> /\ TaskOnly

\* An exception: what was not committed is rolled back.
Fail(r) ==
    /\ vrun[r].pc \in {"start", "check", "commit"}
    /\ vjob' = IF vjob.status \in ActiveJob THEN [vjob EXCEPT !.status = "failed"] ELSE vjob
    /\ Set(r, IdleRun)
    /\ UNCHANGED <<vaddr, vmark>> /\ TaskOnly

Crash(r) ==
    /\ vcrash < MaxCrashes /\ ~Step(r, "idle")
    /\ vcrash' = vcrash + 1
    /\ Set(r, IdleRun)
    /\ UNCHANGED <<vjob, vaddr, vmark, vcancel>>

-----------------------------------------------------------------------------
(* The requests *)

CancelRead ==
    /\ MayCancel /\ vcancel = "none"
    /\ vjob.status \in ActiveJob
    /\ vcancel' = vjob.status
    /\ UNCHANGED <<vjob, vaddr, vmark, vrun, vcrash>>

CancelCommit ==
    /\ vcancel # "none"
    /\ vjob' = [vjob EXCEPT !.status = "cancelled"]
    /\ vcancel' = "none"
    /\ UNCHANGED <<vaddr, vmark, vrun, vcrash>>

\* update_contact with another address: what was learned about the old one
\* is forgotten.
Edit(c) ==
    /\ vaddr[c] = "old"
    /\ Raced \/ \A r \in Runners : ~Step(r, "commit")
    /\ vaddr' = [vaddr EXCEPT ![c] = "new"]
    /\ vmark' = [vmark EXCEPT ![c] = "none"]
    /\ UNCHANGED <<vjob, vrun, vcancel, vcrash>>

Delete(c) ==
    /\ vaddr[c] # "gone"
    /\ Raced \/ \A r \in Runners : ~Step(r, "commit")
    /\ vaddr' = [vaddr EXCEPT ![c] = "gone"]
    /\ vmark' = [vmark EXCEPT ![c] = "none"]
    /\ UNCHANGED <<vjob, vrun, vcancel, vcrash>>

RunStep(r) == Start(r) \/ Refresh(r) \/ Reread(r) \/ CommitChunk(r) \/ Finish(r)

VNext ==
    \/ \E r \in Runners : Begin(r) \/ RunStep(r) \/ Fail(r) \/ Crash(r)
    \/ CancelRead \/ CancelCommit
    \/ \E c \in Contact : Edit(c) \/ Delete(c)

VSpec == VInit /\ [][VNext]_vvars

-----------------------------------------------------------------------------
(* Properties *)

VTypeOK ==
    /\ vjob \in JobType
    /\ vaddr \in [Contact -> Address]
    /\ vmark \in [Contact -> {"none", "old", "new"}]
    /\ vrun \in [Runners -> RunnerType]
    /\ vcancel \in ActiveJob \union {"none"}
    /\ vcrash \in 0..MaxCrashes

\* Every contact of the snapshot is counted once, under one heading, across
\* edits, deletions, deaths and resumes, as long as processes do not overlap.
CountsAddUp == ~Overlap => vjob.checked + vjob.skipped = vjob.processed

\* A job that says done has gone through its snapshot, and progress, "the
\* index into the snapshot", never goes back: no contact is checked twice for
\* the record or passed over.
ProgressKept == [][~Overlap => /\ vjob'.processed >= vjob.processed
                               /\ vjob'.status = "done" => vjob'.processed = N]_vvars

\* "Never apply a verdict to an address that was edited while it was being
\* checked": a verdict that is shown belongs to the address that is shown.
VerdictMatches == \A c \in Contact : vmark[c] \in {"none", vaddr[c]}

\* A job comes to an end, over deaths and restarts.
VOwes == vjob.status \in ActiveJob
JobEnds == VOwes ~> ~VOwes

\* What a job shows at any time: its row and its contacts' verdicts are sound.
ResultsHold == VTypeOK /\ CountsAddUp /\ VerdictMatches
=============================================================================
