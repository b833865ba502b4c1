------------------------------- MODULE PollPacing -------------------------------
(***************************************************************************)
(* When the inline poller comes back.  A pass does what is due, then looks *)
(* at the tables it knows of and sleeps: briefly if there is work or       *)
(* somebody is about, else until the next known job, and no longer than    *)
(* the idle interval.  A request wakes it.  Time is counted in units of    *)
(* the shortest time between two passes.                                   *)
(***************************************************************************)
EXTENDS Naturals, FiniteSets

CONSTANTS
    Timed,       \* jobs with a time, of which the earliest is looked up, past or not
    Countable,   \* jobs that are counted once they are due: messages, ads jobs
    Unknown,     \* jobs that are not looked for: chains of follow-ups
    Stuck,       \* jobs that no pass takes: a follow-up of an ended campaign
    Delays,      \* how far ahead a job may be set
    Interval, IdleInterval, ActiveWindow,  \* the settings of the poller
    MaxPass,     \* bound on the time a pass takes
    KeepsAsked   \* a request is waited for across a failed pass (see FallsAsleep)

VARIABLES
    ploop,   \* the loop: where it is and what it has found out
    pwake,   \* the event that a request sets
    psince,  \* time since the last request, up to ActiveWindow
    plast,   \* time since the last pass that ran, up to 1
    pjob,    \* each job: none, or the time until it is due
    pdb,     \* the database answers
    pseen,   \* ghost: jobs that a look has found, since they are known of
    pwait,   \* ghost: how long each job has been due
    pasked   \* ghost: how long a request has waited for a pass

pvars == <<ploop, pwake, psince, plast, pjob, pdb, pseen, pwait, pasked>>

PollJobs == Timed \union Countable \union Unknown
None == IdleInterval + 2              \* a job that is not there
Nobody == IdleInterval + MaxPass + 1  \* no request waits
Open(j) == pjob[j] # None
Due == {j \in PollJobs : pjob[j] = 0}
Least(S) == CHOOSE t \in S : \A u \in S : t <= u
Up1(t, bound) == IF t < bound THEN t + 1 ELSE bound
Down1(t) == IF t = 0 THEN 0 ELSE t - 1

Resting(delay) == [at |-> "asleep", left |-> delay, busy |-> 0,
                   did |-> FALSE, pending |-> FALSE, due |-> None, ok |-> TRUE]

PInit ==
    /\ ploop = Resting(Interval)
    /\ pwake = FALSE /\ psince = ActiveWindow /\ plast = 1
    /\ pjob = [j \in PollJobs |-> None] /\ pdb = TRUE
    /\ pseen = {} /\ pwait = [j \in PollJobs |-> 0] /\ pasked = Nobody

-----------------------------------------------------------------------------
(* The loop *)

\* next_poll_delay
NextDelay(l, since) ==
    CASE ~l.ok -> IdleInterval
      [] l.ok /\ (l.did \/ l.pending \/ since < ActiveWindow \/ l.due <= Interval) -> Interval
      [] OTHER -> Least({IdleInterval, l.due})

\* The sleep is over, or a request has woken the loop.  A pass within the
\* shortest time of the last one does nothing; one that cannot reach the
\* database fails.
Begin ==
    /\ ploop.at = "asleep"
    /\ ploop.left = 0 \/ pwake
    /\ ploop' = [Resting(0) EXCEPT !.at = IF pdb /\ plast = 0 THEN "looking" ELSE "passing"]
    /\ plast' = IF pdb THEN 0 ELSE plast
    /\ pasked' = IF pdb /\ plast = 0 THEN pasked ELSE Nobody
    /\ UNCHANGED <<pwake, psince, pjob, pdb, pseen, pwait>>

\* The pass does what is due; the count of what it did may be lost, as some
\* of the sweeps fail when they return it.
Serve ==
    /\ ploop.at = "passing" /\ pdb
    /\ \E did \in {FALSE, Due \ Stuck # {}} :
         ploop' = [ploop EXCEPT !.at = "looking", !.did = did]
    /\ pjob' = [j \in PollJobs |-> IF j \in Due \ Stuck THEN None ELSE pjob[j]]
    /\ pwait' = [j \in PollJobs |-> IF j \in Due \ Stuck THEN 0 ELSE pwait[j]]
    /\ pseen' = pseen \ (Due \ Stuck)
    /\ UNCHANGED <<pwake, psince, plast, pdb, pasked>>

\* The database fails the pass: at its first query, and the loop backs off,
\* or later, and the pass ends early with whatever it did.
Fails ==
    /\ ploop.at = "passing" /\ ~pdb
    /\ \/ ploop' = [ploop EXCEPT !.at = "looked", !.ok = FALSE]
       \/ ploop' = [ploop EXCEPT !.at = "looking"]
    /\ UNCHANGED <<pwake, psince, plast, pjob, pdb, pseen, pwait, pasked>>

\* _pending_work_snapshot
Look ==
    /\ ploop.at = "looking"
    /\ LET now == Due \intersect Countable
           next == {j \in Timed \union Countable : Open(j)} \ now IN
       IF pdb
       THEN /\ ploop' = [ploop EXCEPT !.at = "looked", !.pending = now # {},
                                      !.due = Least({pjob[j] : j \in next} \union {None})]
            /\ pseen' = now \union next
       ELSE ploop' = [ploop EXCEPT !.at = "looked", !.ok = FALSE] /\ UNCHANGED pseen
    /\ UNCHANGED <<pwake, psince, plast, pjob, pdb, pwait, pasked>>

\* The delay, and the event is cleared, with nothing in between.  A request
\* that came while a pass found the database down is forgotten here.
FallsAsleep ==
    /\ ploop.at = "looked"
    /\ ploop' = Resting(NextDelay(ploop, psince))
    /\ pwake' = FALSE
    /\ pasked' = IF ploop.ok \/ KeepsAsked THEN pasked ELSE Nobody
    /\ UNCHANGED <<psince, plast, pjob, pdb, pseen, pwait>>

LoopStep == Begin \/ Serve \/ Fails \/ Look \/ FallsAsleep

-----------------------------------------------------------------------------
(* The others *)

\* touch, before the request is handled
Request ==
    /\ pwake' = TRUE /\ psince' = 0
    /\ pasked' = IF pasked = Nobody THEN 0 ELSE pasked
    /\ UNCHANGED <<ploop, plast, pjob, pdb, pseen, pwait>>

\* A request or a worker commits a job.
Appears ==
    /\ pdb
    /\ \E j \in PollJobs, t \in Delays :
         /\ ~Open(j)
         /\ j \in Unknown => t = 0
         /\ pjob' = [pjob EXCEPT ![j] = t]
    /\ UNCHANGED <<ploop, pwake, psince, plast, pdb, pseen, pwait, pasked>>

\* An outage starts or ends.  What waits is counted from its end.
Outage ==
    /\ pdb' = ~pdb
    /\ pseen' = {} /\ pwait' = [j \in PollJobs |-> 0]
    /\ UNCHANGED <<ploop, pwake, psince, plast, pjob, pasked>>

\* Time passes while the loop sleeps, or during a pass.
Clock ==
    /\ \/ /\ ploop.at = "asleep" /\ ploop.left > 0 /\ ~pwake
          /\ ploop' = [ploop EXCEPT !.left = @ - 1]
       \/ /\ ploop.at = "passing" /\ ploop.busy < MaxPass
          /\ ploop' = [ploop EXCEPT !.busy = @ + 1]
    /\ psince' = Up1(psince, ActiveWindow) /\ plast' = Up1(plast, 1)
    /\ pjob' = [j \in PollJobs |-> IF Open(j) THEN Down1(pjob[j]) ELSE None]
    /\ pwait' = [j \in PollJobs |-> IF j \in Due /\ pdb THEN Up1(pwait[j], Nobody) ELSE pwait[j]]
    /\ pasked' = IF pasked = Nobody THEN Nobody ELSE Up1(pasked, Nobody - 1)
    /\ UNCHANGED <<pwake, pdb, pseen>>

PNext == LoopStep \/ Request \/ Appears \/ Outage \/ Clock

-----------------------------------------------------------------------------
(* Properties *)

\* A request is followed by a pass within the interval, whatever the loop was
\* doing when it came; a job that a look has found is done that soon after it
\* is due, and any other within the idle interval; all but for the time of a
\* pass.  (_poll_loop, next_poll_delay, PollActivity.touch)
PassesInTime ==
    /\ pasked # Nobody => pasked <= Interval + MaxPass
    /\ \A j \in PollJobs \ Stuck :
         pwait[j] <= MaxPass + (IF j \in pseen THEN Interval ELSE IdleInterval)

\* With nobody about and nothing it could do the loop comes to sleep for the idle
\* interval, so that the database can be suspended.
POwes == pdb /\ psince = ActiveWindow /\ \A j \in PollJobs \ Stuck : ~Open(j)
PPays == ~POwes \/ (ploop.at = "asleep" /\ ploop.left = IdleInterval)
=============================================================================
