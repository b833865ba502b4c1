------------------------------ MODULE AdsJobs ------------------------------
(***************************************************************************)
(* The SMS Ads Manager's durable jobs: one ads_campaigns row, its          *)
(* assignments, their messages, and the ads_campaign_jobs rows that drive  *)
(* it.  A job is claimed with a conditional UPDATE and worked on in a      *)
(* second session, slice by slice, while operators change the campaign,    *)
(* beat and the inline poller both repair jobs, at the same time, and the  *)
(* send pipeline settles messages.  Whoever wants a job looks for one and  *)
(* inserts one in two steps, so that there may be several.                 *)
(*                                                                         *)
(* Sessions keep the attributes they have loaded (expire_on_commit is      *)
(* off), so the status a slice has read is the one it goes by to its end.  *)
(***************************************************************************)
EXTENDS Naturals, FiniteSets, FiniteSetsExt

CONSTANTS
    Assignments,  \* the contacts that may be assigned to the campaign
    Slots,        \* names for job rows; a finished row's name is used again
    Workers,      \* beat tasks, the inline poller and background tasks
    Sessions,     \* requests and sweeps that may be under way together
    Setups,       \* total_limit and drip_batch_size, 0 for none, the contacts that
                  \* match, the sessions and workers there are, the requests that
                  \* are made (a subset of AllOps), and whether anything fails or dies
    Limit,        \* the batch a slice may send
    MaxRetries,   \* max_retries of a job
    LongSlices    \* may a slice take more than ten minutes

AllOps == {"launch", "pause", "resume", "bulkresume", "complete", "archive",
           "dispatch", "retry", "add", "optout"}

ASSUME AdsAssumption ==
    /\ IsFiniteSet(Assignments) /\ IsFiniteSet(Slots) /\ Slots # {}
    /\ Setups \subseteq [total : Nat, drip : Nat, contacts : SUBSET Assignments,
                         sessions : SUBSET Sessions, workers : SUBSET Workers,
                         ops : SUBSET AllOps, faults : BOOLEAN]
    /\ Limit \in Nat \ {0} /\ MaxRetries \in Nat \ {0}
    /\ LongSlices \in BOOLEAN

VARIABLES
    camp,    \* status of the campaign
    setup,   \* its limits, and who takes part
    ahead,   \* its start_date lies in the future
    asg,     \* send_status of the assignments
    msg,     \* status of the message of an assignment
    fresh,   \* assignments dispatched within the drip window
    heard,   \* assignments the provider accepted within it
    job,     \* the job rows
    last,    \* the one that was created last
    ses,     \* what requests and sweeps that are under way will commit
    wk,      \* the workers
    sends,   \* history: messages that were created for an assignment
    gone,    \* history: assignments whose message the provider accepted
    lapped   \* history: two slices were under way at the same time

vars == <<camp, setup, ahead, asg, msg, fresh, heard, job, last, ses, wk,
          sends, gone, lapped>>

contacts == <<asg, msg, fresh, heard, sends, gone>>
jobs == <<job, last>>
slices == <<wk, lapped>>

CampaignTransitions ==
    [draft     |-> {"active", "scheduled", "archived", "error"},
     scheduled |-> {"active", "paused", "draft", "archived", "error"},
     active    |-> {"paused", "completed", "archived", "error"},
     paused    |-> {"active", "scheduled", "completed", "archived", "error"},
     completed |-> {"archived"},
     error     |-> {"draft", "active", "archived"},
     archived  |-> {}]

CampStatus == DOMAIN CampaignTransitions
Allowed(to) == to \in CampaignTransitions[camp]

\* "later": pending, with next_attempt_at ahead.  "bounced": failed after it
\* had been sent, so that sent_at is set.
AsgStatus == {"absent", "pending", "later", "sending", "sent", "failed",
              "bounced", "skipped"}
MsgStatus == {"none", "queued", "sent", "failed"}

\* A job: "none" stands for completed and cancelled rows, and for a failed one
\* that has a successor, which nothing reads any more.
JobType == [st : {"none", "queued", "running", "failed"},
            due : {"never", "later", "now"},
            attempts : 0..MaxRetries]
NoJob == [st |-> "none", due |-> "never", attempts |-> 0]

WorkerType == [pc : {"idle", "open", "plan", "claim", "finish"},
               job : Slots,
               seen : CampStatus,             \* the campaign as loaded
               rows : SUBSET Assignments]     \* the assignments selected
NoSlot == CHOOSE j \in Slots : TRUE
IdleWorker == [pc |-> "idle", job |-> NoSlot, seen |-> "draft", rows |-> {}]

\* A request or a sweep that is under way: the status it writes, if any, and
\* the wake-up time it has for the job it will look for, which becomes the one
\* it gives to the job it has found or to a new one.
SessionType ==
    {plan \in [does : {"nothing", "look", "leave", "wake", "insert", "write"},
               to : CampStatus \union {"same"},
               job : Slots,
               due : {"keep", "later", "now"},
               as : {"launch", "retry", "other"}] :
        plan.does = "insert" => plan.due # "keep"}
IdleSession == [does |-> "nothing", to |-> "same", job |-> NoSlot,
                due |-> "keep", as |-> "other"]

Init ==
    /\ camp = "draft"
    /\ setup \in Setups
    /\ ahead \in BOOLEAN
    /\ asg = [a \in Assignments |-> "absent"]
    /\ msg = [a \in Assignments |-> "none"]
    /\ fresh = {} /\ heard = {}
    /\ job = [j \in Slots |-> NoJob]
    /\ last = NoSlot
    /\ ses = [s \in Sessions |-> IdleSession]
    /\ wk = [w \in Workers |-> IdleWorker]
    /\ sends = [a \in Assignments |-> 0]
    /\ gone = {} /\ lapped = FALSE

Pending  == {a \in Assignments : asg[a] \in {"pending", "later"}}
Sending  == {a \in Assignments : asg[a] = "sending"}
InFlight == {a \in Assignments : msg[a] = "queued"}
\* sent_total: sent_at is set, or it is being sent
Used     == {a \in Assignments : asg[a] \in {"sending", "sent", "bounced"}}
\* what drip_allowance counts: last_action_at is the later of the two
Out      == {a \in Assignments : asg[a] \in {"sending", "sent"}}
Recent   == (fresh \union heard) \intersect Out

-----------------------------------------------------------------------------
(* schedule_campaign_job: it looks for an active job, and wakes the one it  *)
(* has found or inserts one, which others see when the session commits.     *)

Active == {j \in Slots : job[j].st \in {"queued", "running"}}
\* The newest of the active ones
Found == IF last \in Active THEN last ELSE CHOOSE j \in Active : TRUE

\* Names that a new row may take: what is active, worked on or about to be
\* woken keeps its name.
Free == {j \in Slots \ Active :
            /\ \A w \in Workers : wk[w].pc # "idle" => wk[w].job # j
            /\ \A s \in Sessions : ses[s].does = "wake" => ses[s].job # j}

\* Without a target (an idempotent launch, a repair) a job that has no wake-up
\* time gets one; with a target, one that wakes up later.
Sooner(target, due) ==
    \/ target = "now" /\ due # "now"
    \/ target = "later" /\ due = "never"
    \/ target = "keep" /\ due = "never"
Target(s) == IF ses[s].due = "keep" THEN "now" ELSE ses[s].due

\* A launch locks the campaign's row when it reads it.  Who writes the status
\* writes it when it looks for the job (autoflush), and a retry cancels the
\* failed job then; both are locked to the commit.
Looked(s) == ses[s].does \in {"leave", "wake", "insert"}
Holds(s) == ses[s].as = "launch" \/ (Looked(s) /\ ses[s].to # "same")
OthersHold(s) == \E t \in Sessions \ {s} : Holds(t)

Looks(s) ==
    LET found == [ses[s] EXCEPT !.does = "wake", !.job = Found]
    IN /\ ses[s].does = "look"
       /\ ses[s].to # "same" => ~OthersHold(s)
       /\ ses[s].as = "retry" =>
             \A t \in Sessions \ {s} : Looked(t) => ses[t].as # "retry"
       /\ ses' = [ses EXCEPT ![s] =
                    IF Active = {} THEN [@ EXCEPT !.does = "insert", !.due = Target(s)]
                    ELSE IF Sooner(@.due, job[Found].due)
                    THEN [found EXCEPT !.due = Target(s)]
                    ELSE IF @.as = "retry" THEN [found EXCEPT !.due = "keep"]
                    ELSE [@ EXCEPT !.does = "leave"]]
       /\ UNCHANGED <<setup, camp, ahead, contacts, jobs, slices>>

-----------------------------------------------------------------------------
(* Requests: each reads the campaign, looks for the job if it has to, and  *)
(* commits                                                                  *)

Begins(s, plan) ==
    /\ s \in setup.sessions
    /\ ses[s].does = "nothing"
    /\ ses' = [ses EXCEPT ![s] = plan]
    /\ UNCHANGED <<setup, camp, ahead, contacts, jobs, slices>>

Plan(does, as, to, due) ==
    [does |-> does, to |-> to, job |-> NoSlot, due |-> due, as |-> as]

StartTarget == IF ahead THEN "scheduled" ELSE "active"
DueTarget   == IF ahead THEN "later" ELSE "now"

\* A launch of a campaign that was launched only looks for its job.
Launch(s) ==
    /\ "launch" \in setup.ops
    /\ ~OthersHold(s)
    /\ \/ camp = "active"    /\ Begins(s, Plan("look", "launch", "same", "keep"))
       \/ camp = "scheduled" /\ Begins(s, Plan("look", "launch", "same", "later"))
       \/ /\ camp \notin {"active", "scheduled"}
          /\ Allowed(StartTarget)
          /\ Begins(s, Plan("look", "launch", StartTarget, DueTarget))

Resume(s) ==
    /\ "resume" \in setup.ops
    /\ camp = "paused"
    /\ Begins(s, Plan("look", "other", StartTarget, DueTarget))

DispatchNow(s) ==
    /\ "dispatch" \in setup.ops
    /\ camp = "active"
    /\ Begins(s, Plan("look", "other", "same", "now"))

RetryJob(s) ==
    /\ "retry" \in setup.ops
    /\ camp = "active"
    /\ job[last].st = "failed"
    /\ Begins(s, Plan("look", "retry", "same", "now"))

\* The requests that leave the jobs alone: the bulk action writes the status
\* only, and complete and archive whatever the table allows.
Writes(s, op, to) == op \in setup.ops /\ Begins(s, Plan("write", "other", to, "keep"))

Pause(s)      == camp \in {"active", "scheduled"} /\ Writes(s, "pause", "paused")
BulkResume(s) == camp = "paused" /\ Writes(s, "bulkresume", "active")
Close(s, op, to) == camp # to /\ Allowed(to) /\ Writes(s, op, to)

\* build_audience: the contacts that match now and are not assigned yet
Assigned(S) == [a \in Assignments |-> IF a \in S THEN "pending" ELSE asg[a]]
Absent == {a \in setup.contacts : asg[a] = "absent"}

\* The session's row becomes the newest; a failed one before it is no longer
\* looked at.
Insert(due) ==
    \E j \in Free :
        /\ job' = [k \in Slots |->
                      IF k = j THEN [st |-> "queued", due |-> due, attempts |-> 0]
                      ELSE IF job[k].st = "failed" THEN NoJob ELSE job[k]]
        /\ last' = j

\* The row that was found may have ended or begun to run meanwhile.
Wake(plan) ==
    /\ job' = [k \in Slots |->
                  IF k = plan.job /\ job[k].st # "none"
                  THEN [job[k] EXCEPT !.due = IF plan.due = "keep" THEN @ ELSE plan.due,
                                      !.attempts = IF plan.as = "retry" THEN 0 ELSE @]
                  ELSE IF plan.as = "retry" /\ job[k].st = "failed" THEN NoJob ELSE job[k]]
    /\ UNCHANGED last

Commits(s) ==
    LET plan == ses[s]
    IN /\ plan.does = "write" \/ Looked(s)
       /\ plan.does = "write" => ~OthersHold(s)
       \* The key of a new job waits for a launch that holds the campaign.
       /\ plan.does = "insert" => \A t \in Sessions \ {s} : ses[t].as # "launch"
       /\ camp' = IF plan.to = "same" THEN camp ELSE plan.to
       /\ \/ plan.does = "insert" /\ Insert(plan.due)
          \/ plan.does = "wake" /\ Wake(plan)
          \/ plan.does \in {"leave", "write"} /\ UNCHANGED jobs
       /\ \E S \in SUBSET Absent :
             /\ plan.as # "launch" \/ plan.to = "same" => S = {}
             /\ asg' = Assigned(S)
       /\ ses' = [ses EXCEPT ![s] = IdleSession]
       /\ UNCHANGED <<setup, ahead, msg, fresh, heard, sends, gone, slices>>

\* A request is cut, or its process dies: nothing of it is committed.
SessionDies(s) ==
    /\ setup.faults
    /\ ses[s].does # "nothing"
    /\ ses' = [ses EXCEPT ![s] = IdleSession]
    /\ UNCHANGED <<setup, camp, ahead, contacts, jobs, slices>>

\* add_contacts, rebuild-audience, and refresh_always_on of the poller
AddContact(a) ==
    /\ "add" \in setup.ops
    /\ a \in Absent
    /\ asg' = [asg EXCEPT ![a] = "pending"]
    /\ UNCHANGED <<setup, camp, ahead, msg, fresh, heard, sends, gone, jobs, ses, slices>>

\* An opt-out, a suppression or a deleted creative takes what is pending.
OptOut(a) ==
    /\ "optout" \in setup.ops
    /\ a \in Pending
    /\ asg' = [asg EXCEPT ![a] = "skipped"]
    /\ UNCHANGED <<setup, camp, ahead, msg, fresh, heard, sends, gone, jobs, ses, slices>>

-----------------------------------------------------------------------------
(* The sweeps of beat and the poller: activate_due_campaigns and            *)
(* create_missing_jobs                                                      *)

ReadDue(s) ==
    /\ camp = "scheduled" /\ ~ahead
    /\ Begins(s, Plan("look", "other", "active", "now"))

\* Mutant: only a campaign that has not started is repaired.
ReadMissingScheduled(s) ==
    /\ camp = "scheduled"
    /\ Active = {}
    /\ Begins(s, Plan("look", "other", "same", "later"))

\* A campaign whose latest job has failed for good is left alone.
ReadMissing(s) ==
    /\ camp \in {"active", "scheduled"}
    /\ Active = {}
    /\ job[last].st # "failed"
    /\ camp = "scheduled" \/ Pending \union Sending # {}
    /\ Begins(s, Plan("look", "other", "same", IF camp = "scheduled" THEN "later" ELSE "keep"))

\* A running job that was not touched for ten minutes.
RecoverStale(j) ==
    /\ job[j].st = "running"
    /\ LongSlices \/ \A w \in Workers : wk[w].pc # "idle" => wk[w].job # j
    /\ job' = [job EXCEPT ![j].st = "queued", ![j].due = "now"]
    /\ UNCHANGED <<setup, camp, ahead, contacts, last, ses, slices>>

-----------------------------------------------------------------------------
(* process_campaign_job *)

ClaimJob(w, j) ==
    /\ w \in setup.workers /\ wk[w].pc = "idle"
    /\ job[j].st = "queued" /\ job[j].due = "now"
    /\ job' = [job EXCEPT ![j].st = "running"]
    /\ wk' = [wk EXCEPT ![w] = [IdleWorker EXCEPT !.pc = "open", !.job = j]]
    /\ lapped' = IF \E v \in Workers \ {w} : wk[v].pc # "idle" THEN TRUE ELSE lapped
    /\ UNCHANGED <<setup, camp, ahead, contacts, last, ses>>

\* The second session loads the campaign.
OpenSlice(w) ==
    /\ wk[w].pc = "open"
    /\ wk' = [wk EXCEPT ![w].seen = camp,
                        ![w].pc = IF camp = "active" \/ (camp = "scheduled" /\ ~ahead)
                                  THEN "plan" ELSE "finish"]
    /\ UNCHANGED <<setup, camp, ahead, contacts, jobs, ses, lapped>>

\* What a limit leaves, when it is set, of the batch
Left(limit, taken) ==
    IF limit = 0 THEN Limit ELSE Max({limit - Cardinality(taken), 0})

\* Mutant: the drip counts only what the provider accepted.
RoomDripSent == Min({Limit, Left(setup.total, Used), Left(setup.drip, Recent \ Sending)})

Room == Min({Limit, Left(setup.total, Used), Left(setup.drip, Recent)})

Exhausted == setup.total # 0 /\ Cardinality(Used) >= setup.total

\* dispatch_campaign counts, then selects; at the total it means to complete
\* the campaign, by the status it has loaded.
PlanSlice(w) ==
    /\ wk[w].pc = "plan"
    /\ IF Exhausted
       THEN wk' = [wk EXCEPT ![w].pc = "finish", ![w].seen = "completed"]
       ELSE \E rows \in SUBSET {a \in Assignments : asg[a] = "pending"} :
              /\ Cardinality(rows) =
                   Min({Room, Cardinality({a \in Assignments : asg[a] = "pending"})})
              /\ wk' = [wk EXCEPT ![w].pc = "claim", ![w].rows = rows]
    /\ UNCHANGED <<setup, camp, ahead, contacts, jobs, ses, lapped>>

\* Mutant: a row is claimed without looking at its status again.
ClaimableBlind(w) == wk[w].rows

Claimable(w) == {a \in wk[w].rows : asg[a] = "pending"}

\* Each row is claimed by a conditional UPDATE and validated: it is sent on,
\* skipped, or put back for later.  All rows commit together; a slice that
\* started a scheduled campaign commits that too.  What is committed is
\* published, and the send pipeline finds what the broker loses.
ClaimRows(w) ==
    /\ wk[w].pc = "claim"
    /\ \E sent \in SUBSET Claimable(w) :
       \E skipped \in SUBSET (Claimable(w) \ sent) :
         /\ asg' = [a \in Assignments |->
                      IF a \in sent THEN "sending"
                      ELSE IF a \in skipped THEN "skipped"
                      ELSE IF a \in Claimable(w) THEN "later" ELSE asg[a]]
         /\ msg' = [a \in Assignments |-> IF a \in sent THEN "queued" ELSE msg[a]]
         /\ sends' = [a \in Assignments |-> IF a \in sent THEN sends[a] + 1 ELSE sends[a]]
         /\ fresh' = fresh \union sent
    /\ wk[w].seen = "scheduled" => \A s \in Sessions : ~Holds(s)
    /\ camp' = IF wk[w].seen = "scheduled" THEN "active" ELSE camp
    /\ wk' = [wk EXCEPT ![w].pc = "finish", ![w].seen = "active"]
    /\ UNCHANGED <<setup, ahead, heard, gone, jobs, ses, lapped>>

\* sync_delivery for the assignments in S
Synced(S) ==
    [a \in Assignments |->
        IF a \notin S THEN asg[a]
        ELSE IF msg[a] = "sent" /\ asg[a] = "sending" THEN "sent"
        ELSE IF msg[a] = "failed" /\ asg[a] = "sending" THEN "failed"
        ELSE IF msg[a] = "failed" /\ asg[a] = "sent" THEN "bounced"
        ELSE asg[a]]
\* sent_at becomes last_action_at when it is first seen.
NewlySent(S) == {a \in S : msg[a] = "sent" /\ asg[a] = "sending"}

\* refresh_job_status, by the status the slice has loaded.
Refreshed(old, seen) ==
    CASE seen \in {"paused", "draft", "error"} ->
            [old EXCEPT !.st = "queued", !.due = "never", !.attempts = 0]
      [] seen \in {"archived", "completed"} -> NoJob
      [] seen = "scheduled" -> [st |-> "queued", due |-> "later", attempts |-> 0]
      [] OTHER -> IF Pending \union Sending \union InFlight # {}
                  THEN [st |-> "queued", due |-> "later", attempts |-> 0]
                  ELSE NoJob

\* The end of a slice.  The rows it has claimed are still in its session as
\* they were, so only the other assignments are brought up to date.
FinishSlice(w) ==
    /\ wk[w].pc = "finish"
    /\ wk[w].seen = "completed" /\ camp # "completed" => \A s \in Sessions : ~Holds(s)
    /\ LET seen == wk[w].seen
           old == IF seen \in {"active", "completed"}
                  THEN Assignments \ wk[w].rows ELSE {}
       IN /\ asg' = Synced(old)
          /\ heard' = heard \union NewlySent(old)
          /\ job' = [job EXCEPT ![wk[w].job] = Refreshed(@, seen)]
          /\ camp' = IF seen = "completed" THEN "completed" ELSE camp
    /\ wk' = [wk EXCEPT ![w] = IdleWorker]
    /\ UNCHANGED <<setup, ahead, msg, fresh, sends, gone, last, ses, lapped>>

\* An exception rolls the session back; another session counts the attempt.
SliceFails(w) ==
    /\ setup.faults
    /\ wk[w].pc \in {"plan", "claim", "finish"}
    /\ LET n == job[wk[w].job].attempts + 1
       IN job' = [job EXCEPT ![wk[w].job] =
                    IF n >= MaxRetries
                    THEN [st |-> "failed", due |-> @.due, attempts |-> MaxRetries]
                    ELSE [st |-> "queued", due |-> "later", attempts |-> n]]
    /\ wk' = [wk EXCEPT ![w] = IdleWorker]
    /\ UNCHANGED <<setup, camp, ahead, contacts, last, ses, lapped>>

Crash(w) ==
    /\ setup.faults
    /\ wk[w].pc # "idle"
    /\ wk' = [wk EXCEPT ![w] = IdleWorker]
    /\ UNCHANGED <<setup, camp, ahead, contacts, jobs, ses, lapped>>

-----------------------------------------------------------------------------
(* The world around: the send pipeline, receipts and the clock *)

\* The provider accepts or refuses a message, or reports that it bounced.
MessageSettles(a) ==
    /\ \/ msg[a] = "queued" /\ \E st \in {"sent", "failed"} : msg' = [msg EXCEPT ![a] = st]
       \/ msg[a] = "sent" /\ msg' = [msg EXCEPT ![a] = "failed"]
    /\ gone' = gone \union {b \in {a} : msg'[b] = "sent"}
    /\ UNCHANGED <<setup, camp, ahead, asg, fresh, heard, sends, jobs, ses, slices>>

\* sync_delivery of the cycle, in a session of its own
SyncDelivery ==
    /\ asg # Synced(Assignments)
    /\ asg' = Synced(Assignments)
    /\ heard' = heard \union NewlySent(Assignments)
    /\ UNCHANGED <<setup, camp, ahead, msg, fresh, sends, gone, jobs, ses, slices>>

StartPasses ==
    /\ ahead /\ ahead' = FALSE
    /\ UNCHANGED <<setup, camp, contacts, jobs, ses, slices>>

JobDue(j) ==
    /\ job[j].st = "queued" /\ job[j].due = "later"
    /\ camp = "scheduled" => ~ahead
    /\ job' = [job EXCEPT ![j].due = "now"]
    /\ UNCHANGED <<setup, camp, ahead, contacts, last, ses, slices>>

AttemptDue(a) ==
    /\ asg[a] = "later"
    /\ asg' = [asg EXCEPT ![a] = "pending"]
    /\ UNCHANGED <<setup, camp, ahead, msg, fresh, heard, sends, gone, jobs, ses, slices>>

WindowPasses ==
    /\ setup.drip # 0       \* nothing else reads the window
    /\ fresh \union heard # {}
    /\ fresh' = {} /\ heard' = {}
    /\ UNCHANGED <<setup, camp, ahead, asg, msg, sends, gone, jobs, ses, slices>>

RequestStep ==
    \/ \E s \in Sessions :
         \/ Launch(s) \/ Pause(s) \/ Resume(s) \/ BulkResume(s) \/ DispatchNow(s) \/ RetryJob(s)
         \/ Close(s, "complete", "completed") \/ Close(s, "archive", "archived")
    \/ \E a \in Assignments : AddContact(a) \/ OptOut(a)

SweepStep == \E s \in Sessions : ReadDue(s) \/ ReadMissing(s)
SliceStep(w) == OpenSlice(w) \/ PlanSlice(w) \/ ClaimRows(w) \/ FinishSlice(w)

Next ==
    \/ RequestStep
    \/ SweepStep
    \/ \E s \in Sessions : Looks(s) \/ Commits(s) \/ SessionDies(s)
    \/ \E j \in Slots : RecoverStale(j) \/ JobDue(j)
    \/ \E w \in Workers, j \in Slots : ClaimJob(w, j)
    \/ \E w \in Workers : SliceStep(w) \/ SliceFails(w) \/ Crash(w)
    \/ \E a \in Assignments : MessageSettles(a) \/ AttemptDue(a)
    \/ SyncDelivery \/ StartPasses \/ WindowPasses

Spec == Init /\ [][Next]_vars

\* Assignments that a step puts back for another attempt
PutBack == \E a \in Assignments : asg[a] # "later" /\ asg'[a] = "later"

\* The poller and the clock go on, a slice that was begun ends or fails, and
\* deaths, exceptions and reasons to put a contact back come to an end.
Fairness ==
    /\ <>[][/\ \A w \in Workers : ~Crash(w) /\ ~SliceFails(w)
            /\ \A s \in Sessions : ~SessionDies(s)
            /\ ~PutBack]_vars
    /\ \A s \in Sessions : WF_vars(Looks(s) \/ Commits(s))
    /\ SF_vars(\E s \in Sessions : ReadDue(s)) /\ SF_vars(\E s \in Sessions : ReadMissing(s))
    /\ WF_vars(StartPasses) /\ WF_vars(WindowPasses)
    /\ \A j \in Slots : /\ WF_vars(RecoverStale(j)) /\ WF_vars(JobDue(j))
                        /\ SF_vars(\E w \in Workers : ClaimJob(w, j))
    /\ \A w \in Workers : SF_vars(SliceStep(w))
    /\ \A a \in Assignments : WF_vars(AttemptDue(a)) /\ WF_vars(MessageSettles(a))

FairSpec == Spec /\ Fairness

-----------------------------------------------------------------------------
(* Properties *)

\* The type of the state.
TypeOK ==
    /\ camp \in CampStatus /\ setup \in Setups /\ ahead \in BOOLEAN
    /\ asg \in [Assignments -> AsgStatus] /\ msg \in [Assignments -> MsgStatus]
    /\ fresh \subseteq Assignments /\ heard \subseteq Assignments
    /\ job \in [Slots -> JobType]
    /\ last \in Slots
    /\ ses \in [Sessions -> SessionType]
    /\ sends \in [Assignments -> Nat] /\ gone \subseteq Assignments /\ lapped \in BOOLEAN
    /\ wk \in [Workers -> WorkerType]

\* "Atomic claim: two workers can never both send this row": however many jobs
\* and slices run side by side, are cut off and are taken up again, a contact
\* is given one message of the campaign; and none after it was skipped, because
\* it opted out, was suppressed or failed the last check.
SentOnce ==
    /\ [](\A a \in Assignments : sends[a] <= 1)
    /\ [][\A a \in Assignments : asg[a] = "skipped" => asg'[a] = "skipped" /\ sends'[a] = sends[a]]_vars

\* Those who got the campaign's message or are about to.  The code counts
\* neither the total nor the drip by them: a message that the provider took
\* and that failed before the cycle saw it as sent has no sent_at, and one
\* that failed is no longer in the window.
Contacted == gone \union Sending
Forgotten == {a \in gone : asg[a] = "failed"}
Dropped   == {a \in Assignments : asg[a] \in {"failed", "bounced"}}

\* The campaign reaches no more contacts than its total limit, except for those
\* it has forgotten.
LimitHolds == setup.total # 0 => Cardinality(Contacted \ Forgotten) <= setup.total

\* What was dispatched in the window and has not failed is within the drip.
Paced == setup.drip # 0 => Cardinality(fresh \ Dropped) <= setup.drip

\* Slices that follow one another keep within the total and the drip, whatever
\* is retried, cut off, reported late or changed by operators, and however many
\* jobs there are.  Slices of two jobs that overlap count the same rest.
WithinLimits == lapped \/ (LimitHolds /\ Paced)

Lost == \E j \in Slots : job[j].st = "queued" /\ job[j].due = "never"
Failed == job[last].st = "failed"

\* A contact of a campaign that was launched is sent to or skipped, unless the
\* campaign is held or ends, its job has failed for good, or was left without
\* a time to wake up.
Served ==
    \A a \in Assignments :
        (a \in Pending /\ camp \in {"active", "scheduled"})
            ~> (a \notin Pending \/ camp \notin {"active", "scheduled"}
                \/ Failed \/ Lost)

\* The poller finds "launched campaigns with pending work": the job of an
\* active campaign has a time at which it wakes up.
JobAwake == camp = "active" => ~Lost

\* "Create or wake the nonterminal job for one campaign, idempotently".
OneJob == Cardinality(Active) <= 1

\* A paused or archived campaign is not set going, nor completed, behind the
\* operator's back.
LegalMoves == [][camp' # camp => Allowed(camp')]_vars
=============================================================================
