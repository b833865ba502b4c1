---------------------------- MODULE AdsFollowUps ----------------------------
(***************************************************************************)
(* The follow-up chain of an ads campaign.  A task is a step for a         *)
(* contact; the first is queued with the campaign's own message, each      *)
(* further one with the message of the step before it.  process_followups  *)
(* takes the tasks that are longest due, works through them and commits    *)
(* once; it claims nothing.                                                *)
(***************************************************************************)
EXTENDS Naturals, Sequences, FiniteSets, SequencesExt

CONSTANTS
    Leads,      \* contacts
    Steps,      \* the chain is 1..Steps
    Acting,     \* steps that do something else than send
    ByHand,     \* tasks an operator has written, which have no step
    Passes,     \* poller, beat, and operators who press process
    TaskLimit,  \* tasks of one pass
    MaxDeaths   \* bound on passes that die or raise an exception

VARIABLES
    ftask,   \* status of a task
    fdue,    \* tasks whose time has come, longest due first
    fheld,   \* the campaign is paused, archived or a draft
    fout,    \* contacts who have opted out
    flive,   \* steps that are active
    fpass,   \* the passes
    fmsg,    \* messages created for a task
    fdied    \* passes lost so far

fvars == <<ftask, fdue, fheld, fout, flive, fpass, fmsg, fdied>>

Chain == 1..Steps
Keys == (Chain \X Leads) \union ByHand
Open == {"pending", "paused"}
\* "cancelled" stands for cancelled and skipped.
TaskStatus == Open \union {"none", "completed", "cancelled"}

PassType == [todo : SUBSET Keys,               \* selected and not looked at
             loaded : [Keys -> TaskStatus],    \* status when selected
             set : [Keys -> TaskStatus],       \* written, not committed
             held : {"unread", "yes", "no"},   \* the campaign, once loaded
             sent : SUBSET Keys]               \* messages created
NoTasks == [k \in Keys |-> "none"]
IdlePass == [todo |-> {}, loaded |-> NoTasks, set |-> NoTasks, held |-> "unread",
             sent |-> {}]

FInit ==
    /\ ftask = [k \in Keys |-> IF k \in ByHand THEN "pending" ELSE "none"]
    /\ fdue \in SetToSeqs(ByHand)
    /\ fheld = FALSE /\ fout = {} /\ flive = Chain
    /\ fpass = [p \in Passes |-> IdlePass]
    /\ fmsg = [k \in Keys |-> 0]
    /\ fdied = 0

Busy(p) == fpass[p] # IdlePass

\* next_followup_step: the first live step after one, 0 if there is none
Following(f) ==
    LET later == {g \in flive : g > f}
    IN IF later = {} THEN 0 ELSE CHOOSE g \in later : \A h \in later : g <= h

-----------------------------------------------------------------------------
\* dispatch_campaign has created the campaign's message to a contact.
FirstQueued(c) ==
    /\ ~fheld /\ c \notin fout
    /\ \A f \in Chain : ftask[<<f, c>>] = "none"
    /\ Following(0) # 0
    /\ ftask' = [ftask EXCEPT ![<<Following(0), c>>] = "pending"]
    /\ UNCHANGED <<fdue, fheld, fout, flive, fpass, fmsg, fdied>>

\* wait_hours have passed.
FallsDue(k) ==
    /\ ftask[k] = "pending" /\ ~Contains(fdue, k)
    /\ fdue' = Append(fdue, k)
    /\ UNCHANGED <<ftask, fheld, fout, flive, fpass, fmsg, fdied>>

Earlier(j, k) == \E m, n \in DOMAIN fdue : m < n /\ fdue[m] = j /\ fdue[n] = k

Selected(statuses) ==
    LET due == {k \in ToSet(fdue) : ftask[k] \in statuses}
    IN {k \in due : Cardinality({j \in due : Earlier(j, k)}) < TaskLimit}

Opens(p, tasks) ==
    /\ ~Busy(p) /\ tasks # {}
    /\ fpass' = [fpass EXCEPT ![p].todo = tasks,
                              ![p].loaded = [k \in Keys |-> IF k \in tasks THEN ftask[k]
                                                            ELSE "none"]]
    /\ UNCHANGED <<ftask, fdue, fheld, fout, flive, fmsg, fdied>>

\* The periodic pass includes paused tasks; the button does not; send-now
\* takes one task, due or not.
Sweep(p) == Opens(p, Selected(Open))
ProcessNow(p) == Opens(p, Selected({"pending"}))
SendNow(p, k) == ftask[k] \in Open /\ Opens(p, {k})

\* The task whose turn it is leaves the list with a status, and maybe more.
\* The session keeps the campaign as loaded for the task before; a manual task
\* has none.
Held(p) == IF fpass[p].held = "unread" THEN fheld ELSE fpass[p].held = "yes"
Done(p, k, pass) ==
    [pass EXCEPT !.todo = @ \ {k},
                 !.held = IF k \in ByHand THEN "unread" ELSE IF Held(p) THEN "yes" ELSE "no"]
Turn(p, k) == k \in fpass[p].todo /\ \A j \in fpass[p].todo : ~Earlier(j, k)
Skips(p, k) == Held(p) \/ k \in ByHand
Cancels(k) == k[1] \notin flive \/ k[2] \in fout
Put(p, k, pass) ==
    /\ fpass' = [fpass EXCEPT ![p] = Done(p, k, pass)]
    /\ UNCHANGED <<ftask, fdue, fheld, fout, flive, fmsg, fdied>>

LeaveTask(p, k) == Turn(p, k) /\ Skips(p, k) /\ Put(p, k, fpass[p])

\* A removed step, an opt-out, or a condition that is not met
CancelTask(p, k) ==
    /\ Turn(p, k) /\ ~Skips(p, k)
    /\ Put(p, k, [fpass[p] EXCEPT !.set[k] = "cancelled"])

\* The sender of the thread is unavailable.
PauseTask(p, k) ==
    /\ Turn(p, k) /\ ~Skips(p, k) /\ ~Cancels(k) /\ k[1] \notin Acting
    /\ Put(p, k, [fpass[p] EXCEPT !.set[k] = "paused"])

\* _queue_followup_task: the next step's task, unless there is one.
Queued(p, k, pass) ==
    LET next == <<Following(k[1]), k[2]>>
    IN IF Following(k[1]) = 0 \/ ftask[next] # "none" \/ pass.set[next] # "none"
       THEN pass ELSE [pass EXCEPT !.set[next] = "pending"]

SendTask(p, k) ==
    /\ Turn(p, k) /\ ~Skips(p, k) /\ ~Cancels(k) /\ k[1] \notin Acting
    /\ Put(p, k, Queued(p, k, [fpass[p] EXCEPT !.set[k] = "completed", !.sent = @ \union {k}]))

\* A tag, a status, a suppression: the chain ends here.
ActTask(p, k) ==
    /\ Turn(p, k) /\ ~Skips(p, k) /\ ~Cancels(k) /\ k[1] \in Acting
    /\ Put(p, k, [fpass[p] EXCEPT !.set[k] = "completed"])

\* Rows that are inserted, and rows whose status differs from what was loaded
Inserted(p) == {k \in Keys : fpass[p].set[k] = "pending"}
Changed(p) == {k \in Keys : fpass[p].set[k] \notin {"none", fpass[p].loaded[k]}}
Ends(p) == Busy(p) /\ fpass[p].todo = {}
\* The unique (step, contact) key
Clash(p) == \E k \in Inserted(p) : ftask[k] # "none"

CommitPass(p) ==
    /\ Ends(p) /\ ~Clash(p)
    /\ ftask' = [k \in Keys |-> IF k \in Changed(p) THEN fpass[p].set[k] ELSE ftask[k]]
    /\ fmsg' = [k \in Keys |-> IF k \in fpass[p].sent THEN fmsg[k] + 1 ELSE fmsg[k]]
    /\ fpass' = [fpass EXCEPT ![p] = IdlePass]
    /\ UNCHANGED <<fdue, fheld, fout, flive, fdied>>

\* The messages are part of the transaction: all of it is rolled back.
LosePass(p) ==
    /\ Busy(p)
    /\ fdied < MaxDeaths \/ (Ends(p) /\ Clash(p))
    /\ fdied' = IF Ends(p) /\ Clash(p) THEN fdied ELSE fdied + 1
    /\ fpass' = [fpass EXCEPT ![p] = IdlePass]
    /\ UNCHANGED <<ftask, fdue, fheld, fout, flive, fmsg>>

-----------------------------------------------------------------------------
(* Operators and contacts *)

\* Tasks in S that are pending are cancelled.
Cancelled(S) == [k \in Keys |-> IF k \in S /\ ftask[k] = "pending" THEN "cancelled" ELSE ftask[k]]

OperatorSets(k) ==
    /\ ftask[k] \in Open
    /\ \E st \in {"completed", "cancelled"} : ftask' = [ftask EXCEPT ![k] = st]
    /\ UNCHANGED <<fdue, fheld, fout, flive, fpass, fmsg, fdied>>

HoldRelease ==
    /\ fheld' = ~fheld
    /\ UNCHANGED <<ftask, fdue, fout, flive, fpass, fmsg, fdied>>

DeleteStep(f) ==
    /\ f \in flive
    /\ flive' = flive \ {f}
    /\ ftask' = Cancelled({f} \X Leads)
    /\ UNCHANGED <<fdue, fheld, fout, fpass, fmsg, fdied>>

RestoreStep(f) ==
    /\ f \in Chain \ flive
    /\ flive' = flive \union {f}
    /\ UNCHANGED <<ftask, fdue, fheld, fout, fpass, fmsg, fdied>>

\* suppress_contact
OptOut(c) ==
    /\ c \notin fout
    /\ fout' = fout \union {c}
    /\ ftask' = Cancelled(Chain \X {c})
    /\ UNCHANGED <<fdue, fheld, flive, fpass, fmsg, fdied>>

Handle(p, k) == CancelTask(p, k) \/ SendTask(p, k) \/ ActTask(p, k)
PassStep(p) ==
    \/ \E k \in Keys : LeaveTask(p, k) \/ PauseTask(p, k) \/ Handle(p, k)
    \/ CommitPass(p)

FNext ==
    \/ \E p \in Passes :
         \/ Sweep(p) \/ ProcessNow(p) \/ PassStep(p) \/ LosePass(p)
         \/ \E k \in Keys : SendNow(p, k)
    \/ \E c \in Leads : FirstQueued(c) \/ OptOut(c)
    \/ \E k \in Keys : FallsDue(k) \/ OperatorSets(k)
    \/ \E f \in Chain : DeleteStep(f) \/ RestoreStep(f)
    \/ HoldRelease

FSpec == FInit /\ [][FNext]_fvars

-----------------------------------------------------------------------------
(* Properties *)

FTypeOK ==
    /\ ftask \in [Keys -> TaskStatus]
    /\ ToSet(fdue) \subseteq Keys /\ IsInjective(fdue)
    /\ fheld \in BOOLEAN /\ fout \subseteq Leads /\ flive \subseteq Chain
    /\ fpass \in [Passes -> PassType]
    /\ fmsg \in [Keys -> Nat]
    /\ fdied \in 0..MaxDeaths

\* "A sweep that runs twice (or a retry after a crash) cannot create a second
\* task": with one pass at a time nobody gets a step twice.
StepOnce == \A k \in Keys : fmsg[k] <= 1

\* "Step N is only ever queued once step N-1 has actually gone out": a contact
\* has one open task, and one that follows another had its message before.
OneOpen ==
    \A c \in Leads :
        /\ Cardinality({f \in Chain : ftask[<<f, c>>] \in Open}) <= 1
        /\ \A f, g \in Chain :
             f < g /\ ftask[<<f, c>>] # "none" /\ ftask[<<g, c>>] # "none"
                => fmsg[<<f, c>>] > 0

\* A task that is due is dealt with, whatever deaths, pauses of the sender and
\* tasks left for a human come first, unless the campaign is held.
Owes(k) == ftask[k] \in Open /\ Contains(fdue, k)
Pays(k) == ftask[k] \notin Open \/ fheld
DueTaskEnds == \A k \in Chain \X Leads : Owes(k) ~> Pays(k)

\* The chain of steps, for every contact: each step once and one after another.
StepsHold == FTypeOK /\ StepOnce /\ OneOpen
=============================================================================
