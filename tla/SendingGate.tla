---------------------------- MODULE SendingGate ----------------------------
(***************************************************************************)
(* The campaign's own sending limits: a cap on the messages sent within a  *)
(* period, and a delay between two sends.  They are asked twice, by room() *)
(* when a batch creates messages and by check() when a worker is about to  *)
(* send one, and each answer is put together from several queries while    *)
(* other batches and workers go on.                                        *)
(*                                                                         *)
(* Time is kept as the age of what was sent.  A check fixes its own "now"  *)
(* when it begins: what has aged out by then it does not count later.      *)
(***************************************************************************)
EXTENDS Naturals, FiniteSets, FiniteSetsExt

CONSTANTS
    Messages,    \* the campaign's messages, created and to be created
    FollowUps,   \* those that a sequence's due follow-ups create
    Batches,     \* beat and the inline poller, running process_campaign_batch
    Workers,     \* whoever runs _send_one
    Cap,         \* messages per period, 0 for no cap
    Period,      \* the cap's period
    Delay,       \* time between two sends, 0 for none
    MayCrash,    \* may a worker die after its claim
    MayReclaim,  \* may a worker claim what another one is sending
    MayBounce    \* may a sent message be reported as failed later

ASSUME GateAssumption ==
    /\ IsFiniteSet(Messages) /\ Messages # {} /\ FollowUps \subseteq Messages
    /\ Cap \in Nat /\ Period \in Nat /\ Delay \in Nat
    /\ MayCrash \in BOOLEAN /\ MayReclaim \in BOOLEAN
    /\ MayBounce \in BOOLEAN

VARIABLES
    msg,   \* status of each message; "none" before it is created
    age,   \* time since it left, up to Aged; Aged also if it has not
    bt,    \* the batches: what room() has read
    wk     \* the workers: what check() has read

vars == <<msg, age, bt, wk>>

Aged == Max({Period, Delay}) + 1

\* Mutant: a message that is being sent is not in flight.
InFlightQueued == {m \in Messages : msg[m] = "queued"}

InFlight == {m \in Messages : msg[m] \in {"queued", "sending"}}
Success  == {m \in Messages : msg[m] = "sent"}

\* What the sessions of a batch and of a worker know: the messages in flight
\* they counted, and those whose sent_at lies before their cut-offs.
Reading == [inflight : Nat,
            expired  : SUBSET Messages,     \* sent before now - Period
            rested   : SUBSET Messages]     \* sent before now - Delay
NoReading == [inflight |-> 0, expired |-> {}, rested |-> {}]

BatchType == [pc : {"idle", "count", "rest", "fill"}, read : Reading,
              room : Nat]
WorkerType == [pc : {"idle", "read", "count", "rest", "dispatch"},
               read : Reading, m : Messages]

IdleBatch == [pc |-> "idle", read |-> NoReading, room |-> 0]
IdleWorker == [pc |-> "idle", read |-> NoReading, m |-> CHOOSE m \in Messages : TRUE]

Init ==
    /\ msg = [m \in Messages |-> "none"]
    /\ age = [m \in Messages |-> Aged]
    /\ bt = [b \in Batches |-> IdleBatch]
    /\ wk = [w \in Workers |-> IdleWorker]

\* _in_flight_count, with the check's "now"
ReadInFlight(others) ==
    [inflight |-> Cardinality(InFlight \intersect others),
     expired  |-> {m \in Success : age[m] > Period},
     rested   |-> {m \in Success : age[m] >= Delay}]

\* _sent_count(now - Period), and last_sent + Delay <= now
SentCount(read) == Cardinality(Success \ read.expired)
LastSentRests(read) == Success \subseteq read.rested

-----------------------------------------------------------------------------
(* Creating messages *)

Pending == {m \in Messages \ FollowUps : msg[m] = "none"}

\* room(): first what is in flight ...
BatchOpen(b) ==
    /\ bt[b].pc = "idle"
    /\ Pending # {}
    /\ bt' = [bt EXCEPT ![b] = [pc |-> "count", read |-> ReadInFlight(Messages),
                                room |-> Cardinality(Messages)]]
    /\ UNCHANGED <<msg, age, wk>>

\* Mutant: what is queued already takes no room.
BatchCountSent(b) ==
    /\ bt[b].pc = "count"
    /\ LET used == SentCount(bt[b].read)
       IN bt' = [bt EXCEPT ![b].pc = "rest",
                    ![b].room = IF Cap = 0 THEN @
                                ELSE IF used >= Cap THEN 0 ELSE Cap - used]
    /\ UNCHANGED <<msg, age, wk>>

\* ... then what was sent within the period ...
BatchCount(b) ==
    /\ bt[b].pc = "count"
    /\ LET used == SentCount(bt[b].read) + bt[b].read.inflight
       IN bt' = [bt EXCEPT ![b].pc = "rest",
                    ![b].room = IF Cap = 0 THEN @
                                ELSE IF used >= Cap THEN 0 ELSE Cap - used]
    /\ UNCHANGED <<msg, age, wk>>

\* ... then when the last one was sent.
BatchRest(b) ==
    /\ bt[b].pc = "rest"
    /\ LET slot == IF bt[b].read.inflight = 0 /\ LastSentRests(bt[b].read)
                   THEN 1 ELSE 0
       IN bt' = [bt EXCEPT ![b].pc = "fill",
                    ![b].room = IF Delay = 0 THEN @ ELSE Min({@, slot})]
    /\ UNCHANGED <<msg, age, wk>>

\* The contacts are picked with SKIP LOCKED, so two batches never share one,
\* but each fills the room that it saw.
BatchFill(b) ==
    /\ bt[b].pc = "fill"
    /\ \E picked \in SUBSET Pending :
         /\ Cardinality(picked) = Min({bt[b].room, Cardinality(Pending)})
         /\ msg' = [m \in Messages |-> IF m \in picked THEN "queued" ELSE msg[m]]
    /\ bt' = [bt EXCEPT ![b] = IdleBatch]
    /\ UNCHANGED <<age, wk>>

\* process_followup_async runs the next step of the sequence: no room() here.
FollowUpDue(m) ==
    /\ m \in FollowUps /\ msg[m] = "none"
    /\ msg' = [msg EXCEPT ![m] = "queued"]
    /\ UNCHANGED <<age, bt, wk>>

-----------------------------------------------------------------------------
(* Sending messages *)

\* _send_one's claim matches a message in "sending", so that one whose worker
\* has died is sent.  It does not see whether the worker has died.
Claim(w, m) ==
    /\ wk[w].pc = "idle"
    /\ msg[m] \in {"queued", "sending"}
    /\ MayReclaim \/ \A v \in Workers : wk[v].pc # "idle" => wk[v].m # m
    /\ msg' = [msg EXCEPT ![m] = "sending"]
    /\ wk' = [wk EXCEPT ![w] = [IdleWorker EXCEPT !.pc = "read", !.m = m]]
    /\ UNCHANGED <<age, bt>>

\* Mutant: the message that asks is in its own way.
CheckReadAll(w) ==
    /\ wk[w].pc = "read"
    /\ wk' = [wk EXCEPT ![w].pc = "count", ![w].read = ReadInFlight(Messages)]
    /\ UNCHANGED <<msg, age, bt>>

CheckRead(w) ==
    /\ wk[w].pc = "read"
    /\ wk' = [wk EXCEPT ![w].pc = "count",
                        ![w].read = ReadInFlight(Messages \ {wk[w].m})]
    /\ UNCHANGED <<msg, age, bt>>

\* The message goes back to the queue and is tried again later.
Refused(w) ==
    /\ msg' = [msg EXCEPT ![wk[w].m] = "queued"]
    /\ wk' = [wk EXCEPT ![w] = IdleWorker]
    /\ UNCHANGED <<age, bt>>

OverCap(w) == Cap # 0 /\ SentCount(wk[w].read) + wk[w].read.inflight >= Cap
\* Mutant: what is in flight does not matter to the delay.
TooSoonAfterSent(w) == Delay # 0 /\ ~LastSentRests(wk[w].read)

TooSoon(w) == Delay # 0 /\ (wk[w].read.inflight # 0 \/ ~LastSentRests(wk[w].read))

Passed(w, pc) == wk' = [wk EXCEPT ![w].pc = pc] /\ UNCHANGED <<msg, age, bt>>

CheckCap(w) ==
    /\ wk[w].pc = "count"
    /\ IF OverCap(w) THEN Refused(w) ELSE Passed(w, "rest")

CheckDelay(w) ==
    /\ wk[w].pc = "rest"
    /\ IF TooSoon(w) THEN Refused(w) ELSE Passed(w, "dispatch")

\* The provider accepts the message, or it fails for good ...
Settles(w) ==
    /\ wk[w].pc = "dispatch"
    /\ \/ /\ msg' = [msg EXCEPT ![wk[w].m] = "sent"]
          /\ age' = [age EXCEPT ![wk[w].m] = 0]
       \/ /\ msg' = [msg EXCEPT ![wk[w].m] = "failed"]
          /\ UNCHANGED age
    /\ wk' = [wk EXCEPT ![w] = IdleWorker]
    /\ UNCHANGED bt

\* ... or is to be tried again.
Retries(w) == wk[w].pc = "dispatch" /\ Refused(w)

Crash(w) ==
    /\ MayCrash
    /\ wk[w].pc # "idle"
    /\ wk' = [wk EXCEPT ![w] = IdleWorker]
    /\ UNCHANGED <<msg, age, bt>>

\* A failed receipt
Bounce(m) ==
    /\ MayBounce
    /\ msg[m] = "sent"
    /\ msg' = [msg EXCEPT ![m] = "failed"]
    /\ UNCHANGED <<age, bt, wk>>

Tick ==
    /\ \E m \in Messages : age[m] < Aged
    /\ age' = [m \in Messages |-> Min({age[m] + 1, Aged})]
    /\ UNCHANGED <<msg, bt, wk>>

BatchStep(b) == BatchCount(b) \/ BatchRest(b) \/ BatchFill(b)
CheckStep(w) == CheckRead(w) \/ CheckCap(w) \/ CheckDelay(w)

Next ==
    \/ \E b \in Batches : BatchOpen(b) \/ BatchStep(b)
    \/ \E m \in Messages : FollowUpDue(m) \/ Bounce(m)
    \/ \E w \in Workers, m \in Messages : Claim(w, m)
    \/ \E w \in Workers : CheckStep(w) \/ Settles(w) \/ Retries(w) \/ Crash(w)
    \/ Tick

Spec == Init /\ [][Next]_vars

\* The sweeps come back to every message, a check and a batch that have begun
\* go on, attempts are numbered, crashes come to an end, and time passes.
Fairness ==
    /\ <>[][\A w \in Workers : ~Crash(w)]_vars
    /\ WF_vars(Tick)
    /\ \A b \in Batches : WF_vars(BatchOpen(b)) /\ WF_vars(BatchStep(b))
    /\ \A m \in Messages : SF_vars(\E w \in Workers : Claim(w, m))
    /\ \A w \in Workers : WF_vars(CheckStep(w)) /\ SF_vars(Settles(w))

FairSpec == Spec /\ Fairness

-----------------------------------------------------------------------------
(* Properties *)

\* The type of the state.
TypeOK ==
    /\ msg \in [Messages -> {"none", "queued", "sending", "sent", "failed"}]
    /\ age \in [Messages -> 0..Aged]
    /\ bt \in [Batches -> BatchType]
    /\ wk \in [Workers -> WorkerType]

\* However the workers' checks overlap with each other, with batches and with
\* follow-ups, no period sees more messages leave than the cap allows.
CapHolds ==
    Cap # 0 => Cardinality({m \in Messages : age[m] <= Period}) <= Cap

\* Two messages of a campaign with a delay leave at least that delay apart.
Spaced ==
    [][\A m \in Messages :
         msg'[m] = "sent" /\ msg[m] # "sent" =>
            \A n \in Messages \ {m} : age[n] >= Delay]_vars

\* One batch at a time creates no more messages than the cap will let through,
\* which is what keeps them from standing in each other's way.
QueueFits ==
    Cap # 0 => Cardinality(InFlight)
                + Cardinality({m \in Success : age[m] <= Period}) <= Cap

\* A message that was refused by the gate is sent or fails in the end: "the
\* message is left queued so the next retry / inline sweep sends it".
QueuedLeaves ==
    \A m \in Messages :
        msg[m] \in {"queued", "sending"} ~> msg[m] \in {"sent", "failed"}
=============================================================================
