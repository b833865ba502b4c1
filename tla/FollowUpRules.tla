--------------------------- MODULE FollowUpRules ---------------------------
(***************************************************************************)
(* Campaign follow-up rules: rule 1 reminds everybody whom the campaign    *)
(* has written to, rule r whom rule r-1 has reminded.  A sweep goes over   *)
(* the rules in one transaction: it reads who has been handled, sends, and *)
(* writes log rows, unique for a rule and a contact, that are committed    *)
(* together at its end.                                                    *)
(***************************************************************************)
EXTENDS Naturals, FiniteSets

CONSTANTS
    People,      \* contacts the campaign has a message for
    K,           \* the rules are 1..K
    Sweepers,    \* the poller, beat and operators who press run
    RuleLimit,   \* contacts a rule sends to or stops in one sweep
    MaxLost      \* bound on deaths, and refused commits, of sweeps

VARIABLES
    rcamp,   \* status of the campaign
    rmsg,    \* status of the last message to a contact
    rdue,    \* contacts for whom the delay after it has passed
    rout,    \* contacts whose row has left SENT_STATUSES
    rclosed, \* contacts who have opted out
    rlog,    \* the committed log rows
    rsw,     \* the sweeps
    rgone,   \* how often a reminder was sent, committed or not
    rlost    \* sweeps lost so far

rvars == <<rcamp, rmsg, rdue, rout, rclosed, rlog, rsw, rgone, rlost>>

Rules == 1..K
Keys == Rules \X People
\* "stopped" stands for stopped and failed.
LogStatus == {"none", "paused", "sent", "stopped"}
Final == {"sent", "stopped"}
Nothing == [k \in Keys |-> "none"]
Alive == {"running", "completed"}

SweepType == [pc : {"idle", "rule", "contacts"},
              rest : SUBSET Rules,          \* rules still to open
              inOrder : BOOLEAN,
              rule : Rules,
              todo : SUBSET People,         \* selected for the rule
              done : 0..RuleLimit,          \* sent to or stopped by it
              log : [Keys -> LogStatus],    \* written, not committed
              new : SUBSET Keys,            \* of these, inserted
              msg : [People -> {"none", "queued", "sent"}]]
IdleSweep == [pc |-> "idle", rest |-> {}, inOrder |-> TRUE, rule |-> 1, todo |-> {},
              done |-> 0, log |-> Nothing, new |-> {}, msg |-> [c \in People |-> "none"]]

RInit ==
    /\ rcamp = "running"
    /\ rmsg = [c \in People |-> "queued"]
    /\ rdue = {} /\ rout = {} /\ rclosed = {}
    /\ rlog = Nothing
    /\ rsw = [s \in Sweepers |-> IdleSweep]
    /\ rgone = [k \in Keys |-> 0]
    /\ rlost = 0

\* What a sweep sees: its own rows over the committed ones.
Log(s, k) == IF rsw[s].log[k] # "none" THEN rsw[s].log[k] ELSE rlog[k]
Last(s, c) == IF rsw[s].msg[c] # "none" THEN rsw[s].msg[c] ELSE rmsg[c]

-----------------------------------------------------------------------------
\* The periodic sweep takes the rules by step_order, process-now as the
\* database gives them, and run takes one.
SweepBegins(s) ==
    /\ rsw[s].pc = "idle"
    /\ rcamp \in Alive
    /\ rsw' = [rsw EXCEPT ![s].pc = "rule", ![s].rest = Rules]
    /\ UNCHANGED <<rcamp, rmsg, rdue, rout, rclosed, rlog, rgone, rlost>>

RunPressed(s, rules) ==
    /\ rsw[s].pc = "idle"
    /\ rsw' = [rsw EXCEPT ![s].pc = "rule", ![s].rest = rules, ![s].inOrder = FALSE]
    /\ UNCHANGED <<rcamp, rmsg, rdue, rout, rclosed, rlog, rgone, rlost>>

\* Mutant: a contact that was reminded is not handled.
HandledStopped(s, r) == {c \in People : Log(s, <<r, c>>) = "stopped"}

Handled(s, r) == {c \in People : Log(s, <<r, c>>) \in Final}

Eligible(s, r) == {c \in People : r = 1 \/ Log(s, <<r - 1, c>>) = "sent"}

OpenRule(s, r) ==
    /\ rsw[s].pc = "rule"
    /\ r \in rsw[s].rest
    /\ rsw[s].inOrder => \A q \in rsw[s].rest : r <= q
    /\ rsw' = [rsw EXCEPT
                 ![s].rest = @ \ {r},
                 ![s].rule = IF rcamp \in Alive THEN r ELSE 1,
                 ![s].pc = IF rcamp \in Alive THEN "contacts" ELSE "rule",
                 ![s].todo = IF rcamp \in Alive
                             THEN (Eligible(s, r) \ Handled(s, r)) \ rout ELSE {}]
    /\ UNCHANGED <<rcamp, rmsg, rdue, rout, rclosed, rlog, rgone, rlost>>

\* _log_followup: a row that is there is updated, else one is added.
Logged(s, c, status) ==
    LET k == <<rsw[s].rule, c>>
    IN [rsw[s] EXCEPT !.todo = @ \ {c},
                      !.log[k] = status,
                      !.new = IF rlog[k] = "none" THEN @ \union {k} ELSE @,
                      !.done = IF status = "paused" THEN @ ELSE @ + 1]

\* The contact whose turn it is
Turn(s, c) ==
    /\ rsw[s].pc = "contacts"
    /\ c \in rsw[s].todo
    /\ rsw[s].done < RuleLimit

Stops(s, c) == c \in rclosed \/ Last(s, c) = "failed"
Due(s, c) == /\ ~Stops(s, c) /\ Last(s, c) \notin {"queued", "sending"}
             /\ c \in rdue /\ rsw[s].msg[c] = "none"

StopContact(s, c) ==
    /\ Turn(s, c) /\ Stops(s, c)
    /\ rsw' = [rsw EXCEPT ![s] = Logged(s, c, "stopped")]
    /\ UNCHANGED <<rcamp, rmsg, rdue, rout, rclosed, rlog, rgone, rlost>>

Wait(s, c) ==
    /\ Turn(s, c) /\ ~Stops(s, c) /\ ~Due(s, c)
    /\ rsw' = [rsw EXCEPT ![s].todo = @ \ {c}]
    /\ UNCHANGED <<rcamp, rmsg, rdue, rout, rclosed, rlog, rgone, rlost>>

\* The pinned sender is away, or the contact cannot be written to.
NotSent(s, c, status) ==
    /\ Turn(s, c) /\ Due(s, c)
    /\ rsw' = [rsw EXCEPT ![s] = Logged(s, c, status)]
    /\ UNCHANGED <<rcamp, rmsg, rdue, rout, rclosed, rlog, rgone, rlost>>

\* The provider has the reminder, or the campaign's gate defers it and the
\* send pipeline sends it once it is committed.
Remind(s, c, st) ==
    /\ Turn(s, c) /\ Due(s, c)
    /\ rsw' = [rsw EXCEPT ![s] = [Logged(s, c, "sent") EXCEPT !.msg[c] = st]]
    /\ rgone' = IF st = "sent" THEN [rgone EXCEPT ![<<rsw[s].rule, c>>] = @ + 1] ELSE rgone
    /\ UNCHANGED <<rcamp, rmsg, rdue, rout, rclosed, rlog, rlost>>

CloseRule(s) ==
    /\ rsw[s].pc = "contacts"
    /\ rsw[s].todo = {} \/ rsw[s].done = RuleLimit
    /\ rsw' = [rsw EXCEPT ![s].pc = "rule", ![s].todo = {}, ![s].rule = 1, ![s].done = 0]
    /\ UNCHANGED <<rcamp, rmsg, rdue, rout, rclosed, rlog, rgone, rlost>>

Ready(s) == rsw[s].pc = "rule" /\ rsw[s].rest = {}
Written(s) == {k \in Keys : rsw[s].log[k] # "none"}
\* Another sweep has inserted a row in between.
Clash(s) == \E k \in rsw[s].new : rlog[k] # "none"

Commit(s) ==
    /\ Ready(s) /\ ~Clash(s)
    /\ rlog' = [k \in Keys |-> IF k \in Written(s) THEN rsw[s].log[k] ELSE rlog[k]]
    /\ rmsg' = [c \in People |-> Last(s, c)]
    /\ rdue' = rdue \ {c \in People : rsw[s].msg[c] # "none"}
    \* the deferred reminders are from now on the pipeline's to send
    /\ rgone' = [k \in Keys |-> IF rsw[s].log[k] = "sent" /\ rsw[s].msg[k[2]] = "queued"
                                THEN rgone[k] + 1 ELSE rgone[k]]
    /\ rsw' = [rsw EXCEPT ![s] = IdleSweep]
    /\ UNCHANGED <<rcamp, rout, rclosed, rlost>>

\* The unique key refuses the insert, and with it the sweep's transaction;
\* or the process dies.
Lose(s) ==
    /\ rsw[s].pc # "idle"
    /\ rlost < MaxLost \/ (Ready(s) /\ Clash(s))
    /\ rsw' = [rsw EXCEPT ![s] = IdleSweep]
    /\ rlost' = IF Ready(s) /\ Clash(s) THEN rlost ELSE rlost + 1
    /\ UNCHANGED <<rcamp, rmsg, rdue, rout, rclosed, rlog, rgone>>

-----------------------------------------------------------------------------
(* The campaign, the send pipeline, contacts and the clock *)

PauseResume ==
    /\ rcamp' = IF rcamp = "running" THEN "paused" ELSE "running"
    /\ UNCHANGED <<rmsg, rdue, rout, rclosed, rlog, rsw, rgone, rlost>>

\* A message given up on fails its contact, unless that is settled already;
\* an email's bounce leaves the contact as it is.
MessageSettles(c) ==
    /\ rmsg[c] \in {"queued", "retrying"}
    /\ \E st \in {"sent", "failed", "retrying"} :
         /\ st # rmsg[c] /\ rmsg' = [rmsg EXCEPT ![c] = st]
         /\ rout' = rout \/ (st = "failed" /\ rout' = rout \union {c})
    /\ UNCHANGED <<rcamp, rdue, rclosed, rlog, rsw, rgone, rlost>>

\* A failed receipt, a stop or the end of its sequence takes the contact out;
\* one whose message the broker has refused is out until it is written again.
RowMoves(c) ==
    /\ rout' = (rout \ {c}) \union ({c} \ rout)
    /\ UNCHANGED <<rcamp, rmsg, rdue, rclosed, rlog, rsw, rgone, rlost>>

OptOut(c) ==
    /\ c \notin rclosed
    /\ rclosed' = rclosed \union {c}
    /\ UNCHANGED <<rcamp, rmsg, rdue, rout, rlog, rsw, rgone, rlost>>

\* The delay is counted from sent_at, or from created_at without one.
DelayPasses(c) ==
    /\ c \notin rdue
    /\ rdue' = rdue \union {c}
    /\ UNCHANGED <<rcamp, rmsg, rout, rclosed, rlog, rsw, rgone, rlost>>

Decide(s, c) ==
    \/ StopContact(s, c) \/ Wait(s, c)
    \/ NotSent(s, c, "paused") \/ NotSent(s, c, "stopped")
    \/ Remind(s, c, "sent") \/ Remind(s, c, "queued")

Handles(s, c) == Decide(s, c) /\ rsw'[s].log[<<rsw[s].rule, c>>] # "paused"

SweepStep(s) ==
    \/ \E r \in Rules : OpenRule(s, r)
    \/ \E c \in People : Decide(s, c)
    \/ CloseRule(s) \/ Commit(s)

RNext ==
    \/ \E s \in Sweepers :
         \/ SweepBegins(s) \/ SweepStep(s) \/ Lose(s)
         \/ \E rules \in {{r} : r \in Rules} \union {Rules} : RunPressed(s, rules)
    \/ PauseResume
    \/ \E c \in People : MessageSettles(c) \/ RowMoves(c) \/ OptOut(c) \/ DelayPasses(c)

RSpec == RInit /\ [][RNext]_rvars

-----------------------------------------------------------------------------
(* Properties *)

RTypeOK ==
    /\ rcamp \in Alive \union {"paused"}
    /\ rmsg \in [People -> {"queued", "retrying", "sent", "failed"}]
    /\ rdue \subseteq People /\ rout \subseteq People /\ rclosed \subseteq People
    /\ rlog \in [Keys -> LogStatus]
    /\ rsw \in [Sweepers -> SweepType]
    /\ rgone \in [Keys -> Nat]
    /\ rlost \in 0..MaxLost

\* "The unique (followup_id, contact_id) log row is what guarantees
\* exactly-once": as long as no sweep is lost after it has sent, nobody is
\* reminded twice by a rule.
OncePerContact == rlost = 0 => \A k \in Keys : rgone[k] <= 1

\* "Step N only considers contacts that step N-1 actually sent to."
ChainInOrder ==
    \A r \in Rules, c \in People : r > 1 /\ rgone[<<r, c>>] > 0 => rgone[<<r - 1, c>>] > 0

\* A chain that a rule has ended for a contact goes no further.
ChainEnds ==
    \A r \in Rules, c \in People :
        rlost = 0 /\ rlog[<<r, c>>] = "stopped"
            => \A q \in Rules : q >= r => rgone[<<q, c>>] = 0

\* A contact whose delay is over is handled by the first rule, whatever pauses
\* of the sender, limits and lost sweeps come before, unless the campaign is
\* held or the contact's row leaves SENT_STATUSES: as the contact of a message
\* that was given up on does, whom no rule takes up, not even to stop.
Owes(c) == c \in rdue \ rout /\ rmsg[c] \in {"sent", "failed"}
Pays(c) == rlog[<<1, c>>] \in Final \/ rcamp = "paused" \/ c \in rout
DueIsHandled == \A c \in People : Owes(c) ~> Pays(c)

\* A reminder goes out after the message it reminds of.
RemindsOfSent ==
    [][\A c \in People : rgone'[<<1, c>>] > rgone[<<1, c>>] => rmsg[c] = "sent"]_rvars

\* The chain of rules, for every contact: each rule once, in order, to its end.
RemindersHold == RTypeOK /\ OncePerContact /\ ChainInOrder /\ ChainEnds
=============================================================================
