---------------------------- MODULE ExecutionGuard ----------------------------
(***************************************************************************)
(* The idempotency ledger: calls that carry one key of one operation.  A   *)
(* call looks up the recorded answer, does the work if there is none, and  *)
(* records its own.  "create" does its work in the transaction of the      *)
(* record, "start" commits it before, and "run" sends while it works.      *)
(***************************************************************************)
EXTENDS Naturals, FiniteSets

CONSTANTS
    Calls,      \* the call and its repetitions
    Operations, \* subset of {"create", "start", "run"}
    MaxExpired, \* bound on expiries of the recorded answer
    MaxCut      \* bound on calls that die, or whose commit fails

VARIABLES
    gkind,    \* the operation
    grow,     \* the ledger row, "none", "fresh" or "old" (past its 24 hours)
    gcall,    \* the calls
    gwork,    \* how often the work was done, for good
    gexp,     \* expiries so far
    gcut,     \* calls cut so far
    gover     \* two calls have overlapped

gvars == <<gkind, grow, gcall, gwork, gexp, gcut, gover>>

CallType == [pc : {"new", "lookup", "work", "record", "insert", "update", "end"},
             late : BOOLEAN,        \* came when an answer was on record
             exp : 0..MaxExpired]   \* expiries when it came
NewCall == [pc |-> "new", late |-> FALSE, exp |-> 0]
Working == {q \in Calls : gcall[q].pc \notin {"new", "end"}}

GInit ==
    /\ gkind \in Operations
    /\ grow = "none"
    /\ gcall = [q \in Calls |-> NewCall]
    /\ gwork = 0 /\ gexp = 0 /\ gcut = 0 /\ gover = FALSE

CallAt(q, pc) == gcall[q].pc = pc
CallTo(q, pc) == gcall' = [gcall EXCEPT ![q].pc = pc]

Arrive(q) ==
    /\ CallAt(q, "new")
    /\ gcall' = [gcall EXCEPT ![q] = [pc |-> "lookup", late |-> grow = "fresh", exp |-> gexp]]
    /\ gover' = (gover \/ Working # {})
    /\ UNCHANGED <<gkind, grow, gwork, gexp, gcut>>

\* Mutant: an answer that is recorded is looked for and not used.
LookupMiss(q) ==
    /\ CallAt(q, "lookup")
    /\ CallTo(q, "work")
    /\ UNCHANGED <<gkind, grow, gwork, gexp, gcut, gover>>

\* get_idempotent_replay
Lookup(q) ==
    /\ CallAt(q, "lookup")
    /\ CallTo(q, IF grow = "fresh" THEN "end" ELSE "work")
    /\ UNCHANGED <<gkind, grow, gwork, gexp, gcut, gover>>

\* The work; 400, 409 and 503 leave nothing done.
Work(q) ==
    /\ CallAt(q, "work")
    /\ \/ CallTo(q, "end") /\ UNCHANGED gwork
       \/ /\ CallTo(q, "record")
          /\ gwork' = IF gkind = "create" THEN gwork ELSE gwork + 1
    /\ UNCHANGED <<gkind, grow, gexp, gcut, gover>>

\* record_idempotent_result reads the row; an insert waits for another one.
Record(q) ==
    /\ CallAt(q, "record")
    /\ grow # "none" \/ \A p \in Calls : ~CallAt(p, "insert")
    /\ CallTo(q, IF grow = "none" THEN "insert" ELSE "update")
    /\ UNCHANGED <<gkind, grow, gwork, gexp, gcut, gover>>

CommitAnswer(q) ==
    /\ CallAt(q, "insert") \/ CallAt(q, "update")
    /\ grow' = "fresh"
    /\ gwork' = IF gkind = "create" THEN gwork + 1 ELSE gwork
    /\ CallTo(q, "end")
    /\ UNCHANGED <<gkind, gexp, gcut, gover>>

\* The unique key refuses an insert that has waited for another one: what is
\* not committed of the work goes with it.
InsertRefused(q) ==
    /\ CallAt(q, "record")
    /\ \E p \in Calls : CallAt(p, "insert")
    /\ CallTo(q, "end")
    /\ UNCHANGED <<gkind, grow, gwork, gexp, gcut, gover>>

Cut(q) ==
    /\ q \in Working /\ gcut < MaxCut
    /\ gcut' = gcut + 1
    /\ CallTo(q, "end")
    /\ UNCHANGED <<gkind, grow, gwork, gexp, gover>>

Expire ==
    /\ grow = "fresh" /\ gexp < MaxExpired
    /\ grow' = "old" /\ gexp' = gexp + 1
    /\ UNCHANGED <<gkind, gcall, gwork, gcut, gover>>

GNext ==
    \/ \E q \in Calls : \/ Arrive(q) \/ Lookup(q) \/ Work(q) \/ Record(q)
                        \/ CommitAnswer(q) \/ InsertRefused(q) \/ Cut(q)
    \/ Expire

GSpec == GInit /\ [][GNext]_gvars

-----------------------------------------------------------------------------
(* Properties *)

GTypeOK ==
    /\ gkind \in Operations
    /\ grow \in {"none", "fresh", "old"}
    /\ gcall \in [Calls -> CallType]
    /\ gwork \in Nat
    /\ gexp \in 0..MaxExpired /\ gcut \in 0..MaxCut
    /\ gover \in BOOLEAN

\* Calls that follow one another create a campaign once per lifetime of the
\* answer, cut or not; a start or a run that is cut may be repeated.
WorkOnce ==
    ~gover /\ (gkind # "create" => gcut = 0) => gwork <= 1 + gexp

\* "Mutations carrying an Idempotency-Key return the cached outcome on
\* replay": a call that comes when the answer is on record does no work while
\* the answer lasts, whatever other calls are under way.
LateIsReplay ==
    \A q \in Calls : gcall[q].late /\ gcall[q].exp = gexp
                        => gcall[q].pc \in {"lookup", "end"}

\* A campaign that was created is on record, and the other way round.
CreatedIsRecorded == gkind = "create" => (gwork > 0 <=> grow # "none")

\* A key stands for one operation, done once, on record and replayed.
KeyHonoured == GTypeOK /\ WorkOnce /\ LateIsReplay /\ CreatedIsRecorded
=============================================================================
