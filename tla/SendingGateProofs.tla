--------------------------- MODULE SendingGateProofs ---------------------------
(***************************************************************************)
(* Proofs about SendingGate, for any cap, period and delay and any number  *)
(* of messages, batches and workers.                                       *)
(***************************************************************************)
EXTENDS SendingGate, FiniteSetTheorems, TLAPS

-----------------------------------------------------------------------------
(* Numbers and sets of messages *)

LEMMA PairMax ==
    ASSUME NEW a \in Nat, NEW b \in Nat
    PROVE  Max({a, b}) \in Nat /\ a <= Max({a, b}) /\ b <= Max({a, b})
  <1>1. \E x \in {a, b} : \A y \in {a, b} : x >= y
    OBVIOUS
  <1>2. Max({a, b}) \in {a, b} /\ \A y \in {a, b} : Max({a, b}) >= y
    BY <1>1 DEF Max
  <1>. QED BY <1>2

LEMMA PairMin ==
    ASSUME NEW a \in Nat, NEW b \in Nat
    PROVE  Min({a, b}) = IF a <= b THEN a ELSE b
  <1>1. \E x \in {a, b} : \A y \in {a, b} : x =< y
    OBVIOUS
  <1>2. Min({a, b}) \in {a, b} /\ \A y \in {a, b} : Min({a, b}) =< y
    BY <1>1 DEF Min
  <1>. QED BY <1>2

LEMMA AgedType == Aged \in Nat /\ Period < Aged /\ Delay < Aged
  BY PairMax, GateAssumption DEF Aged

\* Sets of messages are finite, and counted up to the number of messages.
LEMMA MessagesCounted ==
    ASSUME NEW S \in SUBSET Messages
    PROVE  /\ IsFiniteSet(S)
           /\ Cardinality(S) \in 0..Cardinality(Messages)
           /\ \A T \in SUBSET S : Cardinality(T) <= Cardinality(S)
  <1>1. IsFiniteSet(S) /\ Cardinality(S) <= Cardinality(Messages)
    BY FS_Subset, GateAssumption
  <1>2. Cardinality(S) \in Nat /\ Cardinality(Messages) \in Nat
    BY <1>1, FS_CardinalityType, GateAssumption
  <1>. QED BY <1>1, <1>2, FS_Subset

-----------------------------------------------------------------------------
(* Types *)

LEMMA ReadingType ==
    ASSUME NEW others \in SUBSET Messages
    PROVE  ReadInFlight(others) \in Reading /\ NoReading \in Reading
  <1>1. InFlight \intersect others \in SUBSET Messages
    BY DEF InFlight
  <1>2. Cardinality(InFlight \intersect others) \in Nat
    BY <1>1, MessagesCounted
  <1>3. /\ {m \in Success : age[m] > Period} \in SUBSET Messages
        /\ {m \in Success : age[m] >= Delay} \in SUBSET Messages
    BY DEF Success
  <1>. QED BY <1>2, <1>3 DEF ReadInFlight, NoReading, Reading

LEMMA IdleType == IdleBatch \in BatchType /\ IdleWorker \in WorkerType
  <1>1. NoReading \in Reading
    BY ReadingType
  <1>. QED BY <1>1, GateAssumption DEF IdleBatch, IdleWorker, BatchType, WorkerType

\* What a batch or a worker counts is a number of messages.
LEMMA SentCountType ==
    ASSUME NEW read
    PROVE  SentCount(read) \in Nat
  BY MessagesCounted DEF SentCount, Success

\* Steps of a batch.
LEMMA BatchType_ ==
    ASSUME TypeOK, NEW b \in Batches, BatchOpen(b) \/ BatchStep(b)
    PROVE  TypeOK'
  <1>. USE GateAssumption
  <1>0. bt[b] \in BatchType /\ Cardinality(Messages) \in Nat
    BY FS_CardinalityType DEF TypeOK
  <1>1. CASE BatchOpen(b)
    <2>1. [pc |-> "count", read |-> ReadInFlight(Messages), room |-> Cardinality(Messages)]
            \in BatchType
      BY <1>0, ReadingType DEF BatchType
    <2>. QED BY <1>1, <2>1 DEF BatchOpen, TypeOK
  <1>2. CASE BatchCount(b)
    <2>. DEFINE used == SentCount(bt[b].read) + bt[b].read.inflight
                room == IF Cap = 0 THEN bt[b].room
                        ELSE IF used >= Cap THEN 0 ELSE Cap - used
    <2>1. used \in Nat
      BY <1>0, SentCountType DEF BatchType, Reading
    <2>2. room \in Nat
      BY <1>0, <2>1 DEF BatchType
    <2>3. bt' = [bt EXCEPT ![b] = [bt[b] EXCEPT !.pc = "rest", !.room = room]]
      BY <1>2 DEF BatchCount, TypeOK
    <2>. HIDE DEF used, room
    <2>4. [bt[b] EXCEPT !.pc = "rest", !.room = room] \in BatchType
      BY <1>0, <2>2 DEF BatchType
    <2>. QED BY <1>2, <2>3, <2>4 DEF BatchCount, TypeOK
  <1>3. CASE BatchRest(b)
    <2>. DEFINE slot == IF bt[b].read.inflight = 0 /\ LastSentRests(bt[b].read)
                        THEN 1 ELSE 0
                room == IF Delay = 0 THEN bt[b].room ELSE Min({bt[b].room, slot})
    <2>1. room \in Nat
      BY <1>0, PairMin DEF BatchType
    <2>2. bt' = [bt EXCEPT ![b] = [bt[b] EXCEPT !.pc = "fill", !.room = room]]
      BY <1>3 DEF BatchRest, TypeOK
    <2>. HIDE DEF slot, room
    <2>3. [bt[b] EXCEPT !.pc = "fill", !.room = room] \in BatchType
      BY <1>0, <2>1 DEF BatchType
    <2>. QED BY <1>3, <2>2, <2>3 DEF BatchRest, TypeOK
  <1>4. CASE BatchFill(b)
    BY <1>4, IdleType DEF BatchFill, TypeOK
  <1>. QED BY <1>1, <1>2, <1>3, <1>4 DEF BatchStep

\* Steps of a worker.
LEMMA WorkerType_ ==
    ASSUME TypeOK, NEW w \in Workers,
           CheckStep(w) \/ Settles(w) \/ Retries(w) \/ Crash(w) \/ \E m \in Messages : Claim(w, m)
    PROVE  TypeOK'
  <1>0. wk[w] \in WorkerType /\ wk[w].m \in Messages
    BY DEF TypeOK, WorkerType
  <1>1. CASE \E m \in Messages : Claim(w, m)
    <2>1. PICK m \in Messages : Claim(w, m)
      BY <1>1
    <2>2. [IdleWorker EXCEPT !.pc = "read", !.m = m] \in WorkerType
      BY IdleType DEF WorkerType
    <2>. QED BY <2>1, <2>2 DEF Claim, TypeOK
  <1>2. CASE CheckRead(w)
    <2>. DEFINE read == ReadInFlight(Messages \ {wk[w].m})
    <2>1. read \in Reading
      BY ReadingType
    <2>2. wk' = [wk EXCEPT ![w] = [wk[w] EXCEPT !.pc = "count", !.read = read]]
      BY <1>2 DEF CheckRead, TypeOK
    <2>. HIDE DEF read
    <2>3. [wk[w] EXCEPT !.pc = "count", !.read = read] \in WorkerType
      BY <1>0, <2>1 DEF WorkerType
    <2>. QED BY <1>2, <2>2, <2>3 DEF CheckRead, TypeOK
  <1>3. ASSUME Refused(w) PROVE TypeOK'
    BY <1>0, <1>3, IdleType DEF Refused, TypeOK
  <1>4. ASSUME NEW pc \in {"rest", "dispatch"}, Passed(w, pc) PROVE TypeOK'
    <2>1. [wk[w] EXCEPT !.pc = pc] \in WorkerType
      BY <1>0 DEF WorkerType
    <2>. QED BY <1>4, <2>1 DEF Passed, TypeOK
  <1>5. CASE Settles(w) \/ Crash(w)
    BY <1>0, <1>5, AgedType, IdleType DEF Settles, Crash, TypeOK
  <1>. QED BY <1>1, <1>2, <1>3, <1>4, <1>5 DEF CheckStep, CheckCap, CheckDelay, Retries

LEMMA AgesGrow ==
    ASSUME TypeOK, Tick, NEW m \in Messages
    PROVE  /\ age'[m] \in 0..Aged /\ age[m] <= age'[m]
           /\ age[m] = Aged => age'[m] = Aged
  <1>1. age[m] \in 0..Aged /\ age'[m] = Min({age[m] + 1, Aged})
    BY DEF Tick, TypeOK
  <1>. QED BY <1>1, AgedType, PairMin

\* TypeOK is an invariant.
THEOREM TypeCorrect == Spec => []TypeOK
  <1>1. Init => TypeOK
    BY IdleType, AgedType DEF Init, TypeOK
  <1>2. TypeOK /\ [Next]_vars => TypeOK'
    <2>. SUFFICES ASSUME TypeOK, [Next]_vars PROVE TypeOK'
      OBVIOUS
    <2>1. CASE \E m \in Messages : FollowUpDue(m) \/ Bounce(m)
      BY <2>1 DEF FollowUpDue, Bounce, TypeOK
    <2>2. CASE Tick
      BY <2>2, AgesGrow DEF Tick, TypeOK
    <2>3. CASE UNCHANGED vars
      BY <2>3 DEF vars, TypeOK
    <2>. QED BY <2>1, <2>2, <2>3, BatchType_, WorkerType_ DEF Next
  <1>. QED BY <1>1, <1>2, PTL DEF Spec

-----------------------------------------------------------------------------
(* Workers that have asked *)

\* A message is in the hands of the worker that claimed it, until it is settled.
ClaimHolds ==
    \A w \in Workers : wk[w].pc # "idle" =>
        /\ msg[wk[w].m] = "sending"
        /\ \A v \in Workers \ {w} : wk[v].pc # "idle" => wk[v].m # wk[w].m

\* What has an age was sent.
AgeOfSent == \A m \in Messages : age[m] # Aged => msg[m] = "sent"

\* What a worker will not count, because it left before the cut-off, is old.
CutOffs ==
    \A w \in Workers :
        /\ \A m \in wk[w].read.expired : msg[m] = "sent" /\ age[m] > Period
        /\ \A m \in wk[w].read.rested : msg[m] = "sent" /\ age[m] >= Delay

LeaseInv == ClaimHolds /\ AgeOfSent /\ CutOffs

Recent == {m \in Messages : age[m] <= Period}
Asked == {w \in Workers : wk[w].pc \in {"count", "rest", "dispatch"}}

\* The messages of the workers that asked before w, in some order of asking.
Before(order, w) == {m \in Messages : \E v \in Asked : <<v, w>> \in order /\ wk[v].m = m}

\* An order in which the workers have asked.
Ordered(order) ==
    \A v, w \in Asked :
        /\ v # w <=> <<v, w>> \in order \/ <<w, v>> \in order
        /\ \A u \in Asked : <<u, v>> \in order /\ <<v, w>> \in order => <<u, w>> \in order

\* Those that asked before were in flight, and counted.
Counted(order) == \A w \in Asked : Cardinality(Before(order, w)) <= wk[w].read.inflight

\* When the cap lets a worker pass there is room for its message, for all that
\* left within the period and for all that asked before.
RoomKept(order) ==
    Cap # 0 =>
        \A w \in Asked : wk[w].pc # "count" =>
            Cardinality(Recent \union Before(order, w) \union {wk[w].m}) <= Cap

\* When the delay lets a worker pass nothing was in flight as it asked, and
\* everything else has rested.
AllRest ==
    Delay # 0 =>
        \A w \in Workers : wk[w].pc = "dispatch" =>
            /\ wk[w].read.inflight = 0
            /\ \A m \in Messages \ {wk[w].m} : age[m] >= Delay

InOrder(order) == Ordered(order) /\ Counted(order) /\ RoomKept(order)

\* The inductive invariant: the checks overlap, but there is an order in which
\* the workers asked, and each has counted those before it.
GateInv ==
    /\ LeaseInv /\ AllRest /\ CapHolds
    /\ \E order \in SUBSET (Workers \X Workers) : InOrder(order)

-----------------------------------------------------------------------------
(* The claims and the cut-offs *)

\* A batch or a follow-up creates messages, and leaves those of workers alone.
LEMMA CreatedOnly ==
    ASSUME TypeOK,
           \/ \E b \in Batches : BatchOpen(b) \/ BatchStep(b)
           \/ \E m \in Messages : FollowUpDue(m)
    PROVE  /\ wk' = wk /\ age' = age
           /\ \A m \in Messages : msg[m] # "none" => msg'[m] = msg[m]
  <1>1. CASE \E b \in Batches : BatchFill(b)
    BY <1>1 DEF BatchFill, Pending
  <1>2. CASE \E m \in Messages : FollowUpDue(m)
    BY <1>2 DEF FollowUpDue, TypeOK
  <1>. QED BY <1>1, <1>2 DEF BatchOpen, BatchStep, BatchCount, BatchRest

\* A worker that is done with its message leaves it no longer sending, or it
\* has died.
LEMMA LeaseLeaves ==
    ASSUME TypeOK, LeaseInv, NEW w \in Workers, wk[w].pc # "idle",
           wk' = [wk EXCEPT ![w] = IdleWorker],
           \A m \in Messages \ {wk[w].m} : msg'[m] = msg[m] /\ age'[m] = age[m],
           \/ age'[wk[w].m] = age[wk[w].m]
           \/ msg'[wk[w].m] = "sent"
    PROVE  LeaseInv'
  <1>1. msg[wk[w].m] = "sending" /\ wk[w].m \in Messages
    BY DEF LeaseInv, ClaimHolds, TypeOK, WorkerType
  <1>2. /\ wk'[w].pc = "idle" /\ wk'[w].read.expired = {} /\ wk'[w].read.rested = {}
        /\ \A v \in Workers \ {w} : wk'[v] = wk[v]
    BY DEF IdleWorker, NoReading, TypeOK
  <1>3. ClaimHolds'
    BY <1>2 DEF LeaseInv, ClaimHolds, TypeOK, WorkerType
  <1>4. AgeOfSent'
    BY <1>1 DEF LeaseInv, AgeOfSent
  <1>5. \A v \in Workers : /\ wk[v].read.expired \subseteq Messages \ {wk[w].m}
                           /\ wk[v].read.rested \subseteq Messages \ {wk[w].m}
    BY <1>1 DEF LeaseInv, CutOffs, TypeOK, WorkerType, Reading
  <1>6. CutOffs'
    BY <1>2, <1>5 DEF LeaseInv, CutOffs
  <1>. QED BY <1>3, <1>4, <1>6 DEF LeaseInv

\* A worker that goes on keeps its message.
LEMMA LeaseStays ==
    ASSUME TypeOK, LeaseInv, NEW w \in Workers, wk[w].pc # "idle", NEW pc, NEW read,
           wk' = [wk EXCEPT ![w] = [wk[w] EXCEPT !.pc = pc, !.read = read]],
           read = wk[w].read \/ \E S \in SUBSET Messages : read = ReadInFlight(S),
           UNCHANGED <<msg, age>>
    PROVE  LeaseInv'
  <1>1. /\ wk'[w].m = wk[w].m /\ wk'[w].read = read /\ wk'[w].pc = pc
        /\ \A v \in Workers \ {w} : wk'[v] = wk[v]
    BY DEF TypeOK, WorkerType
  <1>2. \A v \in Workers : wk'[v].m = wk[v].m /\ (wk'[v].pc # "idle" => wk[v].pc # "idle")
    BY <1>1
  <1>3. ClaimHolds'
    BY <1>2 DEF LeaseInv, ClaimHolds
  <1>4. /\ \A m \in read.expired : msg[m] = "sent" /\ age[m] > Period
        /\ \A m \in read.rested : msg[m] = "sent" /\ age[m] >= Delay
    <2>1. CASE read = wk[w].read
      BY <2>1 DEF LeaseInv, CutOffs
    <2>2. CASE \E S \in SUBSET Messages : read = ReadInFlight(S)
      BY <2>2 DEF ReadInFlight, Success
    <2>. QED BY <2>1, <2>2
  <1>5. CutOffs'
    BY <1>1, <1>4 DEF LeaseInv, CutOffs
  <1>. QED BY <1>3, <1>5 DEF LeaseInv, AgeOfSent

LEMMA LeaseKept ==
    ASSUME TypeOK, LeaseInv, [Next]_vars, ~MayReclaim, ~MayBounce
    PROVE  LeaseInv'
  <1>1. CASE \/ \E b \in Batches : BatchOpen(b) \/ BatchStep(b)
             \/ \E m \in Messages : FollowUpDue(m)
    <2>1. /\ wk' = wk /\ age' = age
          /\ \A m \in Messages : msg[m] \in {"sending", "sent"} => msg'[m] = msg[m]
      BY <1>1, CreatedOnly
    <2>2. \A w \in Workers : /\ wk[w].m \in Messages
                             /\ wk[w].read.expired \subseteq Messages
                             /\ wk[w].read.rested \subseteq Messages
      BY DEF TypeOK, WorkerType, Reading
    <2>. QED BY <2>1, <2>2 DEF LeaseInv, ClaimHolds, AgeOfSent, CutOffs
  <1>2. ASSUME NEW w \in Workers, NEW m \in Messages, Claim(w, m) PROVE LeaseInv'
    <2>1. /\ wk[w].pc = "idle" /\ msg[m] \in {"queued", "sending"}
          /\ \A v \in Workers : wk[v].pc # "idle" => wk[v].m # m
          /\ age' = age /\ msg' = [msg EXCEPT ![m] = "sending"]
      BY <1>2 DEF Claim
    <2>2. /\ wk'[w].m = m /\ wk'[w].read = NoReading
          /\ \A v \in Workers \ {w} : wk'[v] = wk[v]
      BY <1>2, IdleType DEF Claim, TypeOK, IdleWorker
    <2>3. ClaimHolds'
      BY <2>1, <2>2 DEF LeaseInv, ClaimHolds, TypeOK, WorkerType
    <2>4. AgeOfSent'
      BY <2>1 DEF LeaseInv, AgeOfSent, TypeOK
    <2>5. CutOffs'
      BY <2>1, <2>2 DEF LeaseInv, CutOffs, NoReading, TypeOK, WorkerType, Reading
    <2>. QED BY <2>3, <2>4, <2>5 DEF LeaseInv
  <1>3. ASSUME NEW w \in Workers, CheckRead(w) PROVE LeaseInv'
    <2>1. wk' = [wk EXCEPT ![w] = [wk[w] EXCEPT !.pc = "count",
                                     !.read = ReadInFlight(Messages \ {wk[w].m})]]
      BY <1>3 DEF CheckRead, TypeOK
    <2>. DEFINE read == ReadInFlight(Messages \ {wk[w].m})
    <2>2. \E S \in SUBSET Messages : read = ReadInFlight(S)
      OBVIOUS
    <2>3. wk[w].pc # "idle" /\ UNCHANGED <<msg, age>>
      BY <1>3 DEF CheckRead
    <2>4. wk' = [wk EXCEPT ![w] = [wk[w] EXCEPT !.pc = "count", !.read = read]]
      BY <2>1
    <2>. HIDE DEF read
    <2>. QED BY <2>2, <2>3, <2>4, LeaseStays
  <1>4. ASSUME NEW w \in Workers, NEW pc \in {"rest", "dispatch"}, wk[w].pc # "idle", Passed(w, pc)
        PROVE  LeaseInv'
    <2>1. wk' = [wk EXCEPT ![w] = [wk[w] EXCEPT !.pc = pc, !.read = wk[w].read]]
      BY <1>4 DEF Passed, TypeOK, WorkerType
    <2>. QED BY <1>4, <2>1, LeaseStays DEF Passed
  <1>5. ASSUME NEW w \in Workers, wk[w].pc # "idle", Refused(w) PROVE LeaseInv'
    BY <1>5, LeaseLeaves DEF Refused, TypeOK
  <1>6. ASSUME NEW w \in Workers, Settles(w) \/ Crash(w) PROVE LeaseInv'
    <2>1. wk[w].m \in Messages
      BY DEF TypeOK, WorkerType
    <2>. QED BY <1>6, <2>1, LeaseLeaves DEF Settles, Crash, TypeOK
  <1>7. CASE Tick
    <2>1. \A m \in Messages : age[m] <= age'[m] /\ (age[m] = Aged => age'[m] = Aged)
      BY <1>7, AgesGrow
    <2>2. wk' = wk /\ msg' = msg
      BY <1>7 DEF Tick
    <2>3. \A m \in Messages : age'[m] \in Nat /\ age[m] \in Nat
      BY <1>7, AgesGrow, AgedType DEF TypeOK
    <2>4. \A w \in Workers : /\ wk[w].read.expired \subseteq Messages
                             /\ wk[w].read.rested \subseteq Messages
      BY DEF TypeOK, WorkerType, Reading
    <2>5. CutOffs'
      BY <2>1, <2>2, <2>3, <2>4, GateAssumption DEF LeaseInv, CutOffs
    <2>. QED BY <2>1, <2>2, <2>5 DEF LeaseInv, ClaimHolds, AgeOfSent
  <1>8. CASE UNCHANGED vars
    BY <1>8 DEF vars, LeaseInv, ClaimHolds, AgeOfSent, CutOffs
  <1>. QED
    BY <1>1, <1>2, <1>3, <1>4, <1>5, <1>6, <1>7, <1>8
    DEF Next, CheckStep, CheckCap, CheckDelay, Retries, Bounce

-----------------------------------------------------------------------------
(* The order of asking *)

\* As long as no worker asks, the order stays and what was before shrinks.
LEMMA OrderKept ==
    ASSUME TypeOK, NEW order, Ordered(order), Counted(order),
           \A w \in Workers : w \in Asked' =>
              w \in Asked /\ wk'[w].m = wk[w].m /\ wk'[w].read = wk[w].read
    PROVE  /\ Ordered(order)' /\ Counted(order)'
           /\ \A w \in Asked' : Before(order, w)' \subseteq Before(order, w)
  <1>1. Asked' \subseteq Asked /\ Asked \subseteq Workers
    BY DEF Asked
  <1>2. \A w \in Asked' : Before(order, w)' \subseteq Before(order, w)
    BY <1>1 DEF Before
  <1>3. Ordered(order)'
    BY <1>1 DEF Ordered
  <1>4. ASSUME NEW w \in Asked' PROVE Cardinality(Before(order, w)') <= wk'[w].read.inflight
    <2>1. Before(order, w) \in SUBSET Messages /\ Before(order, w)' \in SUBSET Before(order, w)
      BY <1>2, <1>4 DEF Before
    <2>2. Cardinality(Before(order, w)') <= Cardinality(Before(order, w))
      BY <2>1, MessagesCounted
    <2>3. /\ Cardinality(Before(order, w)') \in Nat /\ Cardinality(Before(order, w)) \in Nat
          /\ wk[w].read.inflight \in Nat
      BY <2>1, <1>1, <1>4, MessagesCounted DEF TypeOK, WorkerType, Reading
    <2>4. Cardinality(Before(order, w)) <= wk[w].read.inflight /\ wk'[w].read = wk[w].read
      BY <1>1, <1>4 DEF Counted
    <2>. QED BY <2>2, <2>3, <2>4
  <1>. QED BY <1>2, <1>3, <1>4 DEF Counted

\* Room is kept while nothing leaves and nobody passes the cap.
LEMMA RoomStays ==
    ASSUME TypeOK, NEW order, InOrder(order),
           \A w \in Workers : w \in Asked' =>
              /\ w \in Asked /\ wk'[w].m = wk[w].m /\ wk'[w].read = wk[w].read
              /\ wk'[w].pc # "count" => wk[w].pc # "count",
           Recent' \subseteq Recent
    PROVE  InOrder(order)'
  <1>1. /\ Ordered(order)' /\ Counted(order)'
        /\ \A w \in Asked' : Before(order, w)' \subseteq Before(order, w)
    BY OrderKept DEF InOrder
  <1>2. ASSUME Cap # 0, NEW w \in Asked', wk'[w].pc # "count"
        PROVE  Cardinality(Recent' \union Before(order, w)' \union {wk'[w].m}) <= Cap
    <2>1. w \in Asked /\ wk[w].pc # "count" /\ wk'[w].m = wk[w].m /\ wk[w].m \in Messages
      BY <1>2 DEF Asked, TypeOK, WorkerType
    <2>. DEFINE S == Recent \union Before(order, w) \union {wk[w].m}
                T == Recent' \union Before(order, w)' \union {wk'[w].m}
    <2>2. S \in SUBSET Messages /\ T \in SUBSET S
      BY <1>1, <1>2, <2>1 DEF Recent, Before
    <2>3. Cardinality(S) <= Cap
      BY <1>2, <2>1 DEF InOrder, RoomKept
    <2>. HIDE DEF S, T
    <2>4. Cardinality(T) <= Cardinality(S) /\ Cardinality(S) \in Nat /\ Cardinality(T) \in Nat
      BY <2>2, MessagesCounted
    <2>5. Cardinality(T) <= Cap
      BY <2>3, <2>4, GateAssumption
    <2>. QED BY <2>5 DEF T
  <1>. QED BY <1>1, <1>2 DEF InOrder, RoomKept

\* A worker that asks becomes the last in the order: those before it hold
\* messages that are being sent, which it counts.
LEMMA OrderGrows ==
    ASSUME TypeOK, LeaseInv, NEW order \in SUBSET (Workers \X Workers), InOrder(order),
           NEW w \in Workers, CheckRead(w)
    PROVE  \E after \in SUBSET (Workers \X Workers) : InOrder(after)'
  <1>1. /\ wk[w].pc = "read" /\ w \notin Asked /\ Asked \subseteq Workers
        /\ UNCHANGED <<msg, age>>
    BY DEF CheckRead, Asked
  <1>. PICK after : after = (order \intersect (Asked \X Asked)) \union (Asked \X {w})
    OBVIOUS
  <1>. PICK inflight : inflight = Cardinality(InFlight \intersect (Messages \ {wk[w].m}))
    OBVIOUS
  <1>2. /\ wk'[w].m = wk[w].m /\ wk'[w].pc = "count" /\ wk'[w].read.inflight = inflight
        /\ \A v \in Workers \ {w} : wk'[v] = wk[v]
    BY DEF CheckRead, ReadInFlight, TypeOK, WorkerType
  <1>3. Asked' = Asked \union {w}
    BY <1>1, <1>2 DEF Asked
  <1>4. after \in SUBSET (Workers \X Workers)
    BY <1>1
  <1>5. /\ \A u, v \in Asked : <<u, v>> \in after <=> <<u, v>> \in order
        /\ \A u \in Asked : <<u, w>> \in after /\ <<w, u>> \notin after
        /\ <<w, w>> \notin after
    BY <1>1
  <1>6. \A v \in Asked : Before(after, v)' = Before(order, v)
    <2>1. \A v \in Asked, u \in Asked' :
             <<u, v>> \in after <=> u \in Asked /\ <<u, v>> \in order
      BY <1>1, <1>3, <1>5
    <2>2. \A u \in Asked : wk'[u].m = wk[u].m /\ u \in Asked'
      BY <1>1, <1>2, <1>3
    <2>. QED BY <2>1, <2>2 DEF Before
  <1>7. Ordered(after)'
    <2>1. \A u, v \in Asked' : u # v <=> <<u, v>> \in after \/ <<v, u>> \in after
      BY <1>1, <1>3, <1>5 DEF InOrder, Ordered
    <2>2. \A t, u, v \in Asked' : <<t, u>> \in after /\ <<u, v>> \in after => <<t, v>> \in after
      BY <1>1, <1>3, <1>5 DEF InOrder, Ordered
    <2>. QED BY <2>1, <2>2 DEF Ordered
  <1>8. Cardinality(Before(after, w)') <= inflight
    <2>1. \A v \in Asked : /\ wk[v].m \in Messages \ {wk[w].m} /\ msg[wk[v].m] = "sending"
                           /\ wk'[v].m = wk[v].m
      BY <1>1, <1>2 DEF LeaseInv, ClaimHolds, Asked, TypeOK, WorkerType
    <2>2. \A v \in Asked' : <<v, w>> \in after => v \in Asked
      BY <1>3, <1>5
    <2>3. Before(after, w)' \subseteq InFlight \intersect (Messages \ {wk[w].m})
      BY <2>1, <2>2 DEF Before, InFlight
    <2>4. InFlight \intersect (Messages \ {wk[w].m}) \in SUBSET Messages
      BY DEF InFlight
    <2>. QED BY <2>3, <2>4, MessagesCounted
  <1>9. Counted(after)'
    <2>1. \A v \in Asked : v # w /\ v \in Workers
      BY <1>1
    <2>. QED BY <2>1, <1>2, <1>3, <1>6, <1>8 DEF InOrder, Counted
  <1>10. RoomKept(after)'
    <2>1. Recent' = Recent
      BY <1>1 DEF Recent
    <2>2. \A v \in Asked : v # w /\ v \in Workers
      BY <1>1
    <2>. QED BY <2>1, <2>2, <1>2, <1>3, <1>6 DEF InOrder, RoomKept
  <1>11. InOrder(after)'
    BY <1>7, <1>9, <1>10 DEF InOrder
  <1>. QED BY <1>4, <1>11

\* Nothing is before a worker that counted nothing in flight, so there is at
\* most one of them.
LEMMA OneAlone ==
    ASSUME TypeOK, NEW order, InOrder(order), NEW v \in Asked, NEW w \in Asked,
           wk[v].read.inflight = 0, wk[w].read.inflight = 0
    PROVE  v = w
  <1>1. ASSUME NEW u \in Asked, wk[u].read.inflight = 0 PROVE Before(order, u) = {}
    <2>1. Before(order, u) \in SUBSET Messages
      BY DEF Before
    <2>2. Cardinality(Before(order, u)) <= 0 /\ Cardinality(Before(order, u)) \in Nat
      BY <1>1, <2>1, MessagesCounted DEF InOrder, Counted
    <2>3. Cardinality(Before(order, u)) = 0
      BY <2>2
    <2>. QED BY <2>1, <2>3, MessagesCounted, FS_EmptySet
  <1>2. wk[v].m \in Messages /\ wk[w].m \in Messages
    BY DEF Asked, TypeOK, WorkerType
  <1>3. <<v, w>> \notin order /\ <<w, v>> \notin order
    BY <1>1, <1>2 DEF Before
  <1>. QED BY <1>3 DEF InOrder, Ordered

-----------------------------------------------------------------------------
(* The workers' steps *)

LEMMA UnionCounted ==
    ASSUME NEW S \in SUBSET Messages, NEW T \in SUBSET Messages, NEW m \in Messages
    PROVE  Cardinality(S \union T \union {m}) <= Cardinality(S) + Cardinality(T) + 1
  <1>1. IsFiniteSet(S) /\ IsFiniteSet(T) /\ IsFiniteSet(S \union T)
    BY MessagesCounted, S \union T \in SUBSET Messages
  <1>2. Cardinality(S \union T) = Cardinality(S) + Cardinality(T) - Cardinality(S \intersect T)
    BY <1>1, FS_Union
  <1>3. /\ Cardinality(S) \in Nat /\ Cardinality(T) \in Nat
        /\ Cardinality(S \intersect T) \in Nat
        /\ Cardinality(S \union T) \in Nat
    BY MessagesCounted, S \intersect T \in SUBSET Messages, S \union T \in SUBSET Messages
  <1>4. Cardinality(S \union T \union {m})
          = IF m \in S \union T THEN Cardinality(S \union T) ELSE Cardinality(S \union T) + 1
    BY <1>1, FS_AddElement
  <1>. QED BY <1>2, <1>3, <1>4

\* What left within the period is counted by whoever has asked, however long ago.
LEMMA RecentCounted ==
    ASSUME TypeOK, LeaseInv, NEW w \in Workers
    PROVE  Cardinality(Recent) <= SentCount(wk[w].read)
  <1>1. \A m \in Messages : age[m] \in Nat
    BY AgedType DEF TypeOK
  <1>2. \A m \in Recent : msg[m] = "sent" /\ m \notin wk[w].read.expired
    BY <1>1, AgedType, GateAssumption DEF Recent, LeaseInv, AgeOfSent, CutOffs
  <1>3. Recent \in SUBSET (Success \ wk[w].read.expired)
    BY <1>2 DEF Recent, Success
  <1>4. Success \ wk[w].read.expired \in SUBSET Messages
    BY DEF Success
  <1>. QED BY <1>3, <1>4, MessagesCounted DEF SentCount

\* The cap lets a worker pass when there is room for its message.
LEMMA PassesCap ==
    ASSUME TypeOK, LeaseInv, NEW order, InOrder(order), NEW w \in Workers,
           wk[w].pc = "count", ~OverCap(w), Passed(w, "rest")
    PROVE  InOrder(order)'
  <1>1. /\ wk'[w].m = wk[w].m /\ wk'[w].read = wk[w].read /\ wk'[w].pc = "rest"
        /\ \A v \in Workers \ {w} : wk'[v] = wk[v]
        /\ UNCHANGED <<msg, age>>
    BY DEF Passed, TypeOK, WorkerType
  <1>2. Asked' = Asked /\ w \in Asked /\ Asked \subseteq Workers
    BY <1>1 DEF Asked
  <1>3. \A v \in Workers : wk'[v].m = wk[v].m /\ wk'[v].read = wk[v].read
    BY <1>1
  <1>4. Recent' = Recent /\ \A v \in Workers : Before(order, v)' = Before(order, v)
    BY <1>1, <1>2, <1>3 DEF Recent, Before
  <1>5. Ordered(order)' /\ Counted(order)'
    BY <1>2, <1>3, <1>4 DEF InOrder, Ordered, Counted
  <1>6. ASSUME Cap # 0 PROVE Cardinality(Recent \union Before(order, w) \union {wk[w].m}) <= Cap
    <2>. DEFINE inflight == wk[w].read.inflight
                all == Cardinality(Recent \union Before(order, w) \union {wk[w].m})
    <2>1. /\ Recent \in SUBSET Messages /\ Before(order, w) \in SUBSET Messages
          /\ wk[w].m \in Messages /\ inflight \in Nat
          /\ Recent \union Before(order, w) \union {wk[w].m} \in SUBSET Messages
      BY DEF Recent, Before, TypeOK, WorkerType, Reading
    <2>2. SentCount(wk[w].read) + inflight < Cap
      BY <1>6, <2>1, SentCountType, GateAssumption DEF OverCap
    <2>3. Cardinality(Before(order, w)) <= inflight
      BY <1>2 DEF InOrder, Counted
    <2>4. all <= Cardinality(Recent) + Cardinality(Before(order, w)) + 1
      BY <2>1, UnionCounted
    <2>5. /\ Cardinality(Recent) \in Nat /\ Cardinality(Before(order, w)) \in Nat
          /\ all \in Nat
      BY <2>1, MessagesCounted
    <2>. HIDE DEF inflight, all
    <2>6. all <= Cap
      BY <2>1, <2>2, <2>3, <2>4, <2>5, RecentCounted, SentCountType, GateAssumption
    <2>. QED BY <2>6 DEF all
  <1>7. RoomKept(order)'
    <2>1. ASSUME Cap # 0, NEW v \in Asked', wk'[v].pc # "count"
          PROVE  Cardinality(Recent' \union Before(order, v)' \union {wk'[v].m}) <= Cap
      <3>1. CASE v = w
        BY <3>1, <2>1, <1>1, <1>2, <1>4, <1>6
      <3>2. CASE v # w
        BY <3>2, <2>1, <1>1, <1>2, <1>4 DEF InOrder, RoomKept
      <3>. QED BY <3>1, <3>2
    <2>. QED BY <2>1 DEF RoomKept
  <1>. QED BY <1>5, <1>7 DEF InOrder

\* A message that leaves had room kept for it, and those that passed after it
\* had counted it; those that passed before it are before it in the order.
LEMMA Leaves ==
    ASSUME TypeOK, LeaseInv, NEW order, InOrder(order), NEW w \in Workers,
           Settles(w), age'[wk[w].m] = 0
    PROVE  InOrder(order)' /\ CapHolds'
  <1>1. /\ wk' = [wk EXCEPT ![w] = IdleWorker]
        /\ wk[w].pc = "dispatch" /\ wk[w].m \in Messages
        /\ \A m \in Messages \ {wk[w].m} : age'[m] = age[m]
    BY DEF Settles, TypeOK, WorkerType
  <1>2. Asked' = Asked \ {w} /\ w \in Asked /\ Asked \subseteq Workers
    BY <1>1 DEF Asked, IdleWorker, TypeOK
  <1>3. \A v \in Asked' : wk'[v] = wk[v] /\ v # w /\ v \in Asked
    BY <1>1, <1>2
  <1>4. /\ Ordered(order)' /\ Counted(order)'
        /\ \A v \in Asked' : Before(order, v)' \subseteq Before(order, v)
    <2>1. \A v \in Workers : v \in Asked' =>
              v \in Asked /\ wk'[v].m = wk[v].m /\ wk'[v].read = wk[v].read
      BY <1>3
    <2>. QED BY <2>1, OrderKept DEF InOrder
  <1>5. Recent' = Recent \union {wk[w].m}
    BY <1>1, GateAssumption DEF Recent
  <1>. DEFINE Bound(v) == Recent \union Before(order, v) \union {wk[v].m}
  <1>6. ASSUME Cap # 0, NEW v \in Asked, wk[v].pc # "count", NEW T \in SUBSET Bound(v)
        PROVE  Cardinality(T) <= Cap
    <2>1. Bound(v) \in SUBSET Messages
      BY <1>2 DEF Recent, Before, TypeOK, WorkerType
    <2>2. Cardinality(Bound(v)) <= Cap
      BY <1>6 DEF InOrder, RoomKept
    <2>. HIDE DEF Bound
    <2>3. T \in SUBSET Messages
      BY <2>1
    <2>4. /\ Cardinality(T) <= Cardinality(Bound(v))
          /\ Cardinality(T) \in Nat /\ Cardinality(Bound(v)) \in Nat
      BY <2>1, <2>3, MessagesCounted
    <2>. QED BY <2>2, <2>4, GateAssumption
  <1>7. CapHolds'
    <2>1. Recent' \in SUBSET Bound(w)
      BY <1>5
    <2>. HIDE DEF Bound
    <2>2. Cap # 0 => Cardinality(Recent') <= Cap
      BY <1>1, <1>2, <1>6, <2>1
    <2>. QED BY <2>2 DEF CapHolds, Recent
  <1>8. ASSUME Cap # 0, NEW v \in Asked', wk'[v].pc # "count"
        PROVE  Cardinality(Recent' \union Before(order, v)' \union {wk'[v].m}) <= Cap
    <2>. DEFINE T == Recent' \union Before(order, v)' \union {wk'[v].m}
    <2>0. v \in Asked /\ wk[v].pc # "count" /\ wk'[v].m = wk[v].m /\ wk[v].m \in Messages
      BY <1>2, <1>3, <1>8 DEF TypeOK, WorkerType
    <2>1. CASE <<w, v>> \in order
      <3>1. wk[w].m \in Before(order, v)
        BY <1>1, <1>2, <2>1 DEF Before
      <3>2. T \in SUBSET Bound(v)
        BY <1>4, <1>5, <1>8, <2>0, <3>1
      <3>. HIDE DEF Bound
      <3>. QED BY <1>6, <1>8, <2>0, <3>2
    <2>2. CASE <<v, w>> \in order
      <3>1. Before(order, v) \subseteq Before(order, w)
        BY <1>2, <2>0, <2>2 DEF Before, InOrder, Ordered
      <3>2. wk[v].m \in Before(order, w)
        BY <2>0, <2>2 DEF Before
      <3>3. T \in SUBSET Bound(w)
        BY <1>4, <1>5, <1>8, <2>0, <3>1, <3>2
      <3>. HIDE DEF Bound
      <3>. QED BY <1>1, <1>2, <1>6, <1>8, <3>3
    <2>. QED BY <2>0, <2>1, <2>2, <1>2, <1>3, <1>8 DEF InOrder, Ordered
  <1>9. RoomKept(order)'
    BY <1>8 DEF RoomKept
  <1>. QED BY <1>4, <1>7, <1>9 DEF InOrder

\* The delay lets one worker pass, which was alone and whose message is the last
\* to leave until it settles.
LEMMA AllRestKept ==
    ASSUME TypeOK, LeaseInv, AllRest, NEW order, InOrder(order), [Next]_vars
    PROVE  AllRest'
  <1>. SUFFICES ASSUME Delay # 0, NEW w \in Workers, wk'[w].pc = "dispatch"
                PROVE  /\ wk'[w].read.inflight = 0
                       /\ \A m \in Messages \ {wk'[w].m} : age'[m] >= Delay
    BY DEF AllRest
  <1>1. \A m \in Messages : age[m] \in Nat
    BY AgedType DEF TypeOK
  <1>2. ASSUME wk'[w] = wk[w], \A m \in Messages : age'[m] \in Nat /\ age'[m] >= age[m]
        PROVE  /\ wk'[w].read.inflight = 0
               /\ \A m \in Messages \ {wk'[w].m} : age'[m] >= Delay
    BY <1>1, <1>2, GateAssumption DEF AllRest
  <1>3. ASSUME NEW v \in Workers, wk' = [wk EXCEPT ![v] = IdleWorker], age' = age
        PROVE  wk'[w] = wk[w] /\ \A m \in Messages : age'[m] \in Nat /\ age'[m] >= age[m]
    BY <1>1, <1>3 DEF TypeOK, IdleWorker
  <1>4. CASE \/ \E b \in Batches : BatchOpen(b) \/ BatchStep(b)
             \/ \E m \in Messages : FollowUpDue(m) \/ Bounce(m)
    <2>1. wk' = wk /\ age' = age
      BY <1>4, CreatedOnly DEF Bounce
    <2>. QED BY <2>1, <1>1, <1>2
  <1>5. ASSUME NEW v \in Workers, \/ \E m \in Messages : Claim(v, m)
                                  \/ CheckRead(v)
                                  \/ Passed(v, "rest")
        PROVE  wk'[w] = wk[w] /\ age' = age
    <2>1. wk'[v].pc # "dispatch" /\ age' = age
      <3>1. CASE \E m \in Messages : Claim(v, m)
        BY <3>1 DEF Claim, TypeOK, IdleWorker
      <3>2. CASE CheckRead(v)
        <4>1. wk'[v].pc = "count"
          BY <3>2 DEF CheckRead, TypeOK, WorkerType
        <4>. QED BY <3>2, <4>1 DEF CheckRead
      <3>3. CASE Passed(v, "rest")
        BY <3>3 DEF Passed, TypeOK, WorkerType
      <3>. QED BY <1>5, <3>1, <3>2, <3>3
    <2>2. v # w => wk'[w] = wk[w]
      BY <1>5 DEF Claim, CheckRead, Passed, TypeOK
    <2>. QED BY <2>1, <2>2
  <1>6. ASSUME NEW v \in Workers, Refused(v) \/ Crash(v)
        PROVE  wk'[w] = wk[w] /\ \A m \in Messages : age'[m] \in Nat /\ age'[m] >= age[m]
    BY <1>6, <1>3 DEF Refused, Crash
  <1>7. ASSUME NEW v \in Workers, CheckDelay(v), ~TooSoon(v), v = w
        PROVE  /\ wk'[w].read.inflight = 0
               /\ \A m \in Messages \ {wk'[w].m} : age'[m] >= Delay
    <2>1. /\ wk[w].read.inflight = 0 /\ Success \subseteq wk[w].read.rested
      BY <1>7 DEF TooSoon, LastSentRests
    <2>2. wk'[w].m = wk[w].m /\ wk'[w].read = wk[w].read /\ age' = age
      BY <1>7 DEF CheckDelay, Passed, TypeOK, WorkerType
    <2>3. \A m \in Messages : msg[m] = "sent" => age[m] >= Delay
      BY <2>1 DEF Success, LeaseInv, CutOffs
    <2>4. \A m \in Messages : msg[m] # "sent" => age[m] >= Delay
      BY AgedType, GateAssumption DEF LeaseInv, AgeOfSent
    <2>. QED BY <2>1, <2>2, <2>3, <2>4
  <1>8. ASSUME NEW v \in Workers, CheckDelay(v), v # w \/ TooSoon(v)
        PROVE  wk'[w] = wk[w] /\ \A m \in Messages : age'[m] \in Nat /\ age'[m] >= age[m]
    <2>1. CASE TooSoon(v)
      BY <2>1, <1>6, <1>8 DEF CheckDelay
    <2>2. CASE ~TooSoon(v)
      BY <2>2, <1>1, <1>8 DEF CheckDelay, Passed, TypeOK
    <2>. QED BY <2>1, <2>2
  <1>9. ASSUME NEW v \in Workers, Settles(v)
        PROVE  /\ wk'[w].read.inflight = 0
               /\ \A m \in Messages \ {wk'[w].m} : age'[m] >= Delay
    <2>1. v # w /\ wk'[w] = wk[w] /\ wk[v].pc = "dispatch"
      BY <1>9 DEF Settles, TypeOK, IdleWorker
    <2>2. wk[v].read.inflight = 0 /\ wk[w].read.inflight = 0
      BY <2>1 DEF AllRest
    <2>3. v \in Asked /\ w \in Asked
      BY <2>1 DEF Asked
    <2>. QED BY <2>1, <2>2, <2>3, OneAlone
  <1>10. CASE Tick
    <2>1. wk' = wk
      BY <1>10 DEF Tick
    <2>2. \A m \in Messages : age'[m] \in Nat /\ age'[m] >= age[m]
      BY <1>1, <1>10, AgesGrow, AgedType
    <2>. QED BY <1>2, <2>1, <2>2
  <1>11. CASE UNCHANGED vars
    <2>1. wk' = wk /\ age' = age
      BY <1>11 DEF vars
    <2>. QED BY <1>1, <1>2, <2>1
  <1>12. ASSUME NEW v \in Workers, CheckStep(v) \/ Retries(v) \/ Crash(v) \/ \E m \in Messages : Claim(v, m)
         PROVE  /\ wk'[w].read.inflight = 0
                /\ \A m \in Messages \ {wk'[w].m} : age'[m] >= Delay
    <2>1. CASE CheckDelay(v) /\ ~TooSoon(v) /\ v = w
      BY <2>1, <1>7
    <2>2. CASE CheckDelay(v) /\ (v # w \/ TooSoon(v))
      BY <2>2, <1>2, <1>8
    <2>3. CASE Refused(v) \/ Crash(v)
      BY <2>3, <1>2, <1>6
    <2>4. CASE (\E m \in Messages : Claim(v, m)) \/ CheckRead(v) \/ Passed(v, "rest")
      BY <2>4, <1>1, <1>2, <1>5
    <2>. QED BY <1>12, <2>1, <2>2, <2>3, <2>4 DEF CheckStep, CheckCap, Retries
  <1>. QED BY <1>4, <1>9, <1>10, <1>11, <1>12 DEF Next

\* Every step keeps an order of asking, and the cap.
LEMMA OrderRemains ==
    ASSUME TypeOK, GateInv, [Next]_vars, ~MayReclaim, ~MayBounce
    PROVE  CapHolds' /\ \E order \in SUBSET (Workers \X Workers) : InOrder(order)'
  <1>. PICK order \in SUBSET (Workers \X Workers) : InOrder(order)
    BY DEF GateInv
  <1>0. LeaseInv /\ CapHolds
    BY DEF GateInv
  <1>. SUFFICES \/ InOrder(order)' /\ CapHolds'
                \/ /\ CapHolds'
                   /\ \E after \in SUBSET (Workers \X Workers) : InOrder(after)'
    OBVIOUS
  <1>1. ASSUME age' = age PROVE CapHolds' /\ Recent' \subseteq Recent
    BY <1>0, <1>1 DEF CapHolds, Recent
  <1>2. ASSUME wk' = wk, Recent' \subseteq Recent PROVE InOrder(order)'
    BY <1>2, RoomStays DEF Asked
  <1>3. ASSUME NEW w \in Workers, wk' = [wk EXCEPT ![w] = IdleWorker], age' = age
        PROVE  InOrder(order)' /\ CapHolds'
    <2>1. \A v \in Workers : v \in Asked' => v \in Asked /\ wk'[v] = wk[v]
      BY <1>3 DEF Asked, IdleWorker, TypeOK
    <2>. QED BY <2>1, <1>1, <1>3, RoomStays
  <1>4. CASE \/ \E b \in Batches : BatchOpen(b) \/ BatchStep(b)
             \/ \E m \in Messages : FollowUpDue(m) \/ Bounce(m)
    <2>1. wk' = wk /\ age' = age
      BY <1>4, CreatedOnly DEF Bounce
    <2>. QED BY <2>1, <1>1, <1>2
  <1>5. ASSUME NEW w \in Workers, NEW m \in Messages, Claim(w, m)
        PROVE  InOrder(order)' /\ CapHolds'
    <2>1. \A v \in Workers : v \in Asked' => v \in Asked /\ wk'[v] = wk[v]
      BY <1>5 DEF Claim, Asked, IdleWorker, TypeOK
    <2>2. age' = age
      BY <1>5 DEF Claim
    <2>. QED BY <2>1, <2>2, <1>1, RoomStays
  <1>6. ASSUME NEW w \in Workers, CheckRead(w)
        PROVE  CapHolds' /\ \E after \in SUBSET (Workers \X Workers) : InOrder(after)'
    <2>1. age' = age
      BY <1>6 DEF CheckRead
    <2>. QED BY <2>1, <1>0, <1>1, <1>6, OrderGrows
  <1>7. ASSUME NEW w \in Workers, Refused(w) \/ Crash(w) PROVE InOrder(order)' /\ CapHolds'
    BY <1>3, <1>7 DEF Refused, Crash
  <1>8. ASSUME NEW w \in Workers, CheckCap(w) PROVE InOrder(order)' /\ CapHolds'
    <2>1. CASE OverCap(w)
      BY <2>1, <1>7, <1>8 DEF CheckCap
    <2>2. CASE ~OverCap(w)
      <3>1. Passed(w, "rest") /\ wk[w].pc = "count" /\ age' = age
        BY <2>2, <1>8 DEF CheckCap, Passed
      <3>. QED BY <2>2, <3>1, <1>0, <1>1, PassesCap
    <2>. QED BY <2>1, <2>2
  <1>9. ASSUME NEW w \in Workers, CheckDelay(w) PROVE InOrder(order)' /\ CapHolds'
    <2>1. CASE TooSoon(w)
      BY <2>1, <1>7, <1>9 DEF CheckDelay
    <2>2. CASE ~TooSoon(w)
      <3>1. wk[w].pc = "rest" /\ Passed(w, "dispatch") /\ age' = age
        BY <2>2, <1>9 DEF CheckDelay, Passed
      <3>2. \A v \in Workers : v \in Asked' =>
              /\ v \in Asked /\ wk'[v].m = wk[v].m /\ wk'[v].read = wk[v].read
              /\ wk'[v].pc # "count" => wk[v].pc # "count"
        BY <3>1 DEF Passed, Asked, TypeOK, WorkerType
      <3>. QED BY <3>1, <3>2, <1>1, RoomStays
    <2>. QED BY <2>1, <2>2
  <1>10. ASSUME NEW w \in Workers, Settles(w) PROVE InOrder(order)' /\ CapHolds'
    <2>1. CASE age' = age
      BY <2>1, <1>3, <1>10 DEF Settles
    <2>2. CASE age' # age
      <3>1. age'[wk[w].m] = 0
        BY <2>2, <1>10 DEF Settles, TypeOK, WorkerType
      <3>. QED BY <3>1, <1>0, <1>10, Leaves
    <2>. QED BY <2>1, <2>2
  <1>11. CASE Tick
    <2>1. Recent' \subseteq Recent
      <3>1. \A m \in Messages : age[m] \in Nat /\ age'[m] \in Nat /\ age'[m] >= age[m]
        BY <1>11, AgesGrow, AgedType DEF TypeOK
      <3>. QED BY <3>1, GateAssumption DEF Recent
    <2>2. Recent \in SUBSET Messages /\ Recent' \in SUBSET Messages
      BY DEF Recent
    <2>3. /\ Cardinality(Recent') <= Cardinality(Recent)
          /\ Cardinality(Recent') \in Nat /\ Cardinality(Recent) \in Nat
      BY <2>1, <2>2, MessagesCounted
    <2>4. Cap # 0 => Cardinality(Recent) <= Cap
      BY <1>0 DEF CapHolds, Recent
    <2>5. Cap # 0 => Cardinality(Recent') <= Cap
      BY <2>3, <2>4, GateAssumption
    <2>6. CapHolds'
      BY <2>5 DEF CapHolds, Recent
    <2>7. wk' = wk
      BY <1>11 DEF Tick
    <2>. QED BY <2>1, <2>6, <2>7, <1>2
  <1>12. CASE UNCHANGED vars
    <2>1. wk' = wk /\ age' = age
      BY <1>12 DEF vars
    <2>. QED BY <2>1, <1>1, <1>2
  <1>. QED
    BY <1>4, <1>5, <1>6, <1>7, <1>8, <1>9, <1>10, <1>11, <1>12 DEF Next, CheckStep, Retries

LEMMA GateKept ==
    ASSUME ~MayReclaim, ~MayBounce
    PROVE  Spec => [](TypeOK /\ GateInv)
  <1>1. Init => GateInv
    <2>. SUFFICES ASSUME Init PROVE GateInv
      OBVIOUS
    <2>1. \A w \in Workers : /\ wk[w].pc = "idle"
                             /\ wk[w].read.expired = {} /\ wk[w].read.rested = {}
      BY DEF Init, IdleWorker, NoReading
    <2>2. \A m \in Messages : age[m] = Aged /\ ~(age[m] <= Period)
      BY AgedType, GateAssumption DEF Init
    <2>3. LeaseInv /\ AllRest
      BY <2>1, <2>2 DEF LeaseInv, ClaimHolds, AgeOfSent, CutOffs, AllRest
    <2>4. Recent = {} /\ Asked = {}
      BY <2>1, <2>2 DEF Recent, Asked
    <2>5. CapHolds
      BY <2>4, FS_EmptySet, GateAssumption DEF CapHolds, Recent
    <2>6. InOrder({})
      BY <2>4 DEF InOrder, Ordered, Counted, RoomKept
    <2>. QED BY <2>3, <2>5, <2>6 DEF GateInv
  <1>2. TypeOK /\ GateInv /\ [Next]_vars => GateInv'
    <2>. SUFFICES ASSUME TypeOK, GateInv, [Next]_vars PROVE GateInv'
      OBVIOUS
    <2>1. LeaseInv' /\ AllRest'
      BY LeaseKept, AllRestKept DEF GateInv
    <2>. QED BY <2>1, OrderRemains DEF GateInv
  <1>. QED BY <1>1, <1>2, TypeCorrect, PTL DEF Spec

\* However many workers overlap with batches and follow-ups, no period sees more
\* messages leave than the cap allows: as long as a claim is exclusive and what
\* was sent stays counted.
THEOREM CapHoldsAlways == ~MayReclaim /\ ~MayBounce => (Spec => []CapHolds)
  <1>. SUFFICES ASSUME ~MayReclaim, ~MayBounce PROVE Spec => []CapHolds
    OBVIOUS
  <1>1. GateInv => CapHolds
    BY DEF GateInv
  <1>. QED BY <1>1, GateKept, PTL

\* Under the same conditions two messages never leave closer than the delay.
THEOREM SpacedAlways == ~MayReclaim /\ ~MayBounce => (Spec => Spaced)
  <1>. SUFFICES ASSUME ~MayReclaim, ~MayBounce PROVE Spec => Spaced
    OBVIOUS
  <1>1. TypeOK /\ GateInv /\ [Next]_vars =>
          [\A m \in Messages : msg'[m] = "sent" /\ msg[m] # "sent" =>
              \A n \in Messages \ {m} : age[n] >= Delay]_vars
    <2>. SUFFICES ASSUME TypeOK, GateInv, Next, NEW m \in Messages,
                         msg'[m] = "sent", msg[m] # "sent",
                         NEW n \in Messages \ {m}
                  PROVE  age[n] >= Delay
      OBVIOUS
    <2>1. PICK w \in Workers : Settles(w) /\ m = wk[w].m
      <3>1. ASSUME NEW w \in Workers, Settles(w) PROVE m = wk[w].m
        BY <3>1 DEF Settles, TypeOK
      <3>2. ASSUME NEW w \in Workers, Refused(w) PROVE FALSE
        BY <3>2 DEF Refused, TypeOK
      <3>3. ASSUME NEW b \in Batches, BatchOpen(b) \/ BatchStep(b) PROVE FALSE
        BY <3>3 DEF BatchOpen, BatchStep, BatchCount, BatchRest, BatchFill
      <3>4. ASSUME NEW k \in Messages, FollowUpDue(k) \/ Bounce(k) PROVE FALSE
        BY <3>4 DEF FollowUpDue, Bounce, TypeOK
      <3>5. ASSUME NEW w \in Workers, Crash(w) \/ \E k \in Messages : Claim(w, k) PROVE FALSE
        BY <3>5 DEF Crash, Claim, TypeOK
      <3>6. ASSUME NEW w \in Workers, CheckStep(w) PROVE FALSE
        BY <3>2, <3>6 DEF CheckStep, CheckRead, CheckCap, CheckDelay, Passed
      <3>7. ~Tick
        BY DEF Tick
      <3>. QED BY <3>1, <3>2, <3>3, <3>4, <3>5, <3>6, <3>7 DEF Next, Retries
    <2>2. Delay # 0 => age[n] >= Delay
      BY <2>1 DEF Settles, GateInv, AllRest
    <2>3. age[n] \in Nat
      BY AgedType DEF TypeOK
    <2>. QED BY <2>2, <2>3, GateAssumption
  <1>. QED BY <1>1, GateKept, PTL DEF Spec, Spaced

-----------------------------------------------------------------------------
(* One batch at a time *)

\* What takes room under the cap: it waits, is being sent, or left recently.
Taken == InFlight \union {m \in Success : age[m] <= Period}

\* A batch that counts has seen all that is in flight, and does not count what
\* is old; one that fills leaves room for all that is taken.
BatchSees ==
    \A b \in Batches :
        /\ \A m \in bt[b].read.expired : msg[m] \in {"sent", "failed"} /\ age[m] > Period
        /\ bt[b].pc = "count" => Cardinality(InFlight) <= bt[b].read.inflight
        /\ bt[b].pc \in {"rest", "fill"} /\ Cap # 0 => Cardinality(Taken) + bt[b].room <= Cap

\* The inductive invariant of QueueFits.
QueueInv == ClaimHolds /\ BatchSees /\ (Cap # 0 => Cardinality(Taken) <= Cap)

\* A step that does not create messages takes no more room, and what has
\* aged out does not come back.
LEMMA TakenShrinks ==
    ASSUME TypeOK, ClaimHolds, [Next]_vars, FollowUps = {}, \A b \in Batches : ~BatchFill(b)
    PROVE  /\ InFlight' \subseteq InFlight /\ Taken' \subseteq Taken
           /\ \A m \in Messages : msg[m] \in {"sent", "failed"} /\ age[m] > Period =>
                msg'[m] \in {"sent", "failed"} /\ age'[m] > Period
  <1>1. \A w \in Workers : wk[w].m \in Messages /\ (wk[w].pc # "idle" => msg[wk[w].m] = "sending")
    BY DEF ClaimHolds, TypeOK, WorkerType
  <1>2. ASSUME msg' = msg, age' = age
        PROVE  /\ InFlight' \subseteq InFlight /\ Taken' \subseteq Taken
               /\ \A m \in Messages : msg[m] \in {"sent", "failed"} /\ age[m] > Period =>
                    msg'[m] \in {"sent", "failed"} /\ age'[m] > Period
    BY <1>2 DEF InFlight, Taken, Success
  <1>3. ASSUME NEW k \in Messages,
               \A m \in Messages \ {k} : msg'[m] = msg[m] /\ age'[m] = age[m],
               \/ msg[k] \in {"queued", "sending"}
               \/ msg[k] = "sent" /\ msg'[k] = "failed" /\ age'[k] = age[k],
               msg'[k] \in {"queued", "sending", "sent", "failed"}
        PROVE  /\ InFlight' \subseteq InFlight /\ Taken' \subseteq Taken
               /\ \A m \in Messages : msg[m] \in {"sent", "failed"} /\ age[m] > Period =>
                    msg'[m] \in {"sent", "failed"} /\ age'[m] > Period
    BY <1>3 DEF InFlight, Taken, Success
  <1>4. CASE \E b \in Batches : BatchOpen(b) \/ BatchStep(b)
    BY <1>2, <1>4 DEF BatchOpen, BatchStep, BatchCount, BatchRest
  <1>5. ASSUME NEW m \in Messages, Bounce(m) \/ \E w \in Workers : Claim(w, m)
        PROVE  /\ InFlight' \subseteq InFlight /\ Taken' \subseteq Taken
               /\ \A n \in Messages : msg[n] \in {"sent", "failed"} /\ age[n] > Period =>
                    msg'[n] \in {"sent", "failed"} /\ age'[n] > Period
    BY <1>3, <1>5 DEF Bounce, Claim, TypeOK
  <1>6. ASSUME NEW w \in Workers, wk[w].pc # "idle", Refused(w) \/ Settles(w)
        PROVE  /\ InFlight' \subseteq InFlight /\ Taken' \subseteq Taken
               /\ \A m \in Messages : msg[m] \in {"sent", "failed"} /\ age[m] > Period =>
                    msg'[m] \in {"sent", "failed"} /\ age'[m] > Period
    BY <1>1, <1>3, <1>6 DEF Refused, Settles, TypeOK
  <1>7. ASSUME NEW w \in Workers, CheckStep(w) \/ Settles(w) \/ Retries(w) \/ Crash(w)
        PROVE  /\ InFlight' \subseteq InFlight /\ Taken' \subseteq Taken
               /\ \A m \in Messages : msg[m] \in {"sent", "failed"} /\ age[m] > Period =>
                    msg'[m] \in {"sent", "failed"} /\ age'[m] > Period
    <2>1. CASE wk[w].pc # "idle" /\ (Refused(w) \/ Settles(w))
      BY <1>6, <2>1
    <2>2. CASE UNCHANGED <<msg, age>>
      BY <1>2, <2>2
    <2>. QED BY <1>7, <2>1, <2>2
             DEF CheckStep, CheckRead, CheckCap, CheckDelay, Passed, Retries, Settles, Crash
  <1>8. CASE Tick
    <2>1. \A m \in Messages : age[m] \in Nat /\ age'[m] \in Nat /\ age'[m] >= age[m]
      BY <1>8, AgesGrow, AgedType DEF TypeOK
    <2>2. msg' = msg
      BY <1>8 DEF Tick
    <2>. QED BY <2>1, <2>2, GateAssumption DEF InFlight, Taken, Success
  <1>9. CASE UNCHANGED vars
    BY <1>2, <1>9 DEF vars
  <1>10. \A m \in Messages : ~FollowUpDue(m)
    BY DEF FollowUpDue
  <1>. QED BY <1>4, <1>5, <1>7, <1>8, <1>9, <1>10 DEF Next

\* Claims are exclusive, whether or not failures are reported later.
LEMMA ClaimKept ==
    ASSUME TypeOK, ClaimHolds, [Next]_vars, ~MayReclaim
    PROVE  ClaimHolds'
  <1>1. ASSUME \A w \in Workers : wk'[w].m = wk[w].m /\ (wk'[w].pc # "idle" => wk[w].pc # "idle"),
               \A m \in Messages : msg[m] = "sending" => msg'[m] = "sending"
        PROVE  ClaimHolds'
    BY <1>1 DEF ClaimHolds, TypeOK, WorkerType
  <1>2. ASSUME NEW w \in Workers, wk[w].pc # "idle", wk' = [wk EXCEPT ![w] = IdleWorker],
               \A m \in Messages \ {wk[w].m} : msg'[m] = msg[m]
        PROVE  ClaimHolds'
    <2>1. wk'[w].pc = "idle" /\ \A v \in Workers \ {w} : wk'[v] = wk[v]
      BY <1>2 DEF IdleWorker, TypeOK
    <2>. QED BY <1>2, <2>1 DEF ClaimHolds, TypeOK, WorkerType
  <1>3. CASE \/ \E b \in Batches : BatchOpen(b) \/ BatchStep(b)
             \/ \E m \in Messages : FollowUpDue(m)
    BY <1>1, <1>3, CreatedOnly
  <1>4. ASSUME NEW m \in Messages, Bounce(m) PROVE ClaimHolds'
    BY <1>1, <1>4 DEF Bounce, TypeOK
  <1>5. ASSUME NEW w \in Workers, NEW m \in Messages, Claim(w, m) PROVE ClaimHolds'
    <2>1. /\ wk'[w].m = m /\ msg' = [msg EXCEPT ![m] = "sending"]
          /\ \A v \in Workers : wk[v].pc # "idle" => wk[v].m # m
          /\ \A v \in Workers \ {w} : wk'[v] = wk[v]
      BY <1>5 DEF Claim, TypeOK, IdleWorker
    <2>. QED BY <2>1 DEF ClaimHolds, TypeOK, WorkerType
  <1>6. ASSUME NEW w \in Workers,
               CheckRead(w) \/ (wk[w].pc # "idle" /\ \E pc \in {"rest", "dispatch"} : Passed(w, pc))
        PROVE  ClaimHolds'
    <2>1. /\ wk[w].pc # "idle" /\ wk'[w].m = wk[w].m /\ msg' = msg
          /\ \A v \in Workers \ {w} : wk'[v] = wk[v]
      BY <1>6 DEF CheckRead, Passed, TypeOK, WorkerType
    <2>. QED BY <1>1, <2>1
  <1>7. ASSUME NEW w \in Workers, CheckStep(w) \/ Settles(w) \/ Retries(w) \/ Crash(w)
        PROVE  ClaimHolds'
    <2>1. CASE wk[w].pc # "idle" /\ (Refused(w) \/ Settles(w) \/ Crash(w))
      BY <1>2, <2>1 DEF Refused, Settles, Crash, TypeOK
    <2>2. CASE CheckRead(w) \/ (wk[w].pc # "idle" /\ (Passed(w, "rest") \/ Passed(w, "dispatch")))
      BY <1>6, <2>2
    <2>. QED BY <1>7, <2>1, <2>2 DEF CheckStep, CheckCap, CheckDelay, Retries, Settles, Crash
  <1>8. CASE Tick \/ UNCHANGED vars
    BY <1>1, <1>8 DEF Tick, vars
  <1>. QED BY <1>3, <1>4, <1>5, <1>7, <1>8 DEF Next

\* What a batch does with what it has read.
LEMMA BatchesSee ==
    ASSUME TypeOK, QueueInv, [Next]_vars, FollowUps = {},
           \A a, b \in Batches : a = b,
           NEW b \in Batches, BatchOpen(b) \/ BatchCount(b) \/ BatchRest(b)
    PROVE  BatchSees'
  <1>. DEFINE Read(c) == \A m \in c.expired : msg[m] \in {"sent", "failed"} /\ age[m] > Period
  <1>. USE GateAssumption
  <1>1. /\ InFlight \in SUBSET Messages /\ Taken \in SUBSET Messages
        /\ bt[b] \in BatchType /\ bt[b].room \in Nat /\ bt[b].read.inflight \in Nat
    BY DEF InFlight, Taken, Success, TypeOK, BatchType, Reading
  <1>2. /\ Cardinality(InFlight) \in Nat /\ Cardinality(Taken) \in Nat
    BY <1>1, MessagesCounted
  <1>3. UNCHANGED <<msg, age>>
    BY DEF BatchOpen, BatchCount, BatchRest
  <1>4. InFlight' = InFlight /\ Taken' = Taken
    BY <1>3 DEF InFlight, Taken, Success
  <1>5. Read(bt[b].read)
    BY DEF QueueInv, BatchSees
  <1>. SUFFICES /\ Read(bt'[b].read)
                /\ bt'[b].pc = "count" => Cardinality(InFlight) <= bt'[b].read.inflight
                /\ bt'[b].pc \in {"rest", "fill"} /\ Cap # 0 =>
                     Cardinality(Taken) + bt'[b].room <= Cap
    BY <1>3, <1>4 DEF BatchSees
  <1>6. CASE BatchOpen(b)
    <2>1. bt'[b].read = ReadInFlight(Messages) /\ bt'[b].pc = "count"
      BY <1>6 DEF BatchOpen, TypeOK
    <2>2. InFlight \intersect Messages = InFlight
      BY <1>1
    <2>. QED BY <2>1, <2>2, <1>2 DEF ReadInFlight, Success
  <1>7. CASE BatchCount(b)
    <2>. DEFINE used == SentCount(bt[b].read) + bt[b].read.inflight
                room == IF Cap = 0 THEN bt[b].room
                        ELSE IF used >= Cap THEN 0 ELSE Cap - used
    <2>1. bt'[b].read = bt[b].read /\ bt'[b].pc = "rest" /\ bt'[b].room = room
      BY <1>7, <1>1 DEF BatchCount, TypeOK, BatchType
    <2>2. Cardinality(InFlight) <= bt[b].read.inflight
      BY <1>7 DEF BatchCount, QueueInv, BatchSees
    <2>. DEFINE recent == {m \in Success : age[m] <= Period}
    <2>3. recent \in SUBSET (Success \ bt[b].read.expired)
      <3>1. \A m \in Messages : age[m] \in Nat
        BY AgedType DEF TypeOK
      <3>. QED BY <3>1, <1>5 DEF Success
    <2>4. /\ Cardinality(recent) <= SentCount(bt[b].read)
          /\ Cardinality(recent) \in Nat
      <3>1. Success \ bt[b].read.expired \in SUBSET Messages /\ recent \in SUBSET Messages
        BY DEF Success
      <3>. QED BY <2>3, <3>1, MessagesCounted DEF SentCount
    <2>5. Cardinality(Taken) <= Cardinality(InFlight) + Cardinality(recent)
      <3>1. IsFiniteSet(InFlight) /\ IsFiniteSet(recent)
        BY <1>1, MessagesCounted, recent \in SUBSET Messages DEF Success
      <3>2. Cardinality(InFlight \intersect recent) \in Nat
        BY <1>1, MessagesCounted, InFlight \intersect recent \in SUBSET Messages
      <3>3. Cardinality(Taken)
              = Cardinality(InFlight) + Cardinality(recent) - Cardinality(InFlight \intersect recent)
        BY <3>1, FS_Union DEF Taken
      <3>. HIDE DEF recent
      <3>. QED BY <3>2, <3>3, <1>2, <2>4
    <2>. HIDE DEF recent
    <2>6. used \in Nat /\ Cardinality(Taken) <= used
      BY <1>1, <1>2, <2>2, <2>4, <2>5, SentCountType
    <2>. HIDE DEF used
    <2>7. Cap # 0 => Cardinality(Taken) + room <= Cap
      BY <1>2, <2>6 DEF QueueInv
    <2>. HIDE DEF room
    <2>. QED BY <1>5, <2>1, <2>7
  <1>8. CASE BatchRest(b)
    <2>. DEFINE slot == IF bt[b].read.inflight = 0 /\ LastSentRests(bt[b].read)
                        THEN 1 ELSE 0
                room == IF Delay = 0 THEN bt[b].room ELSE Min({bt[b].room, slot})
    <2>1. bt'[b].read = bt[b].read /\ bt'[b].pc = "fill" /\ bt'[b].room = room
      BY <1>8, <1>1 DEF BatchRest, TypeOK, BatchType
    <2>2. room \in Nat /\ room <= bt[b].room
      BY <1>1, PairMin
    <2>3. Cap # 0 => Cardinality(Taken) + bt[b].room <= Cap
      BY <1>8 DEF BatchRest, QueueInv, BatchSees
    <2>. HIDE DEF slot, room
    <2>4. Cap # 0 => Cardinality(Taken) + room <= Cap
      BY <1>1, <1>2, <2>2, <2>3
    <2>. QED BY <1>5, <2>1, <2>4
  <1>. QED BY <1>6, <1>7, <1>8

\* A batch that fills takes the room that it has left.
LEMMA BatchFits ==
    ASSUME TypeOK, QueueInv, \A a, b \in Batches : a = b, NEW b \in Batches, BatchFill(b)
    PROVE  BatchSees' /\ (Cap # 0 => Cardinality(Taken') <= Cap)
  <1>1. bt'[b] = IdleBatch
    BY DEF BatchFill, TypeOK
  <1>2. BatchSees'
    BY <1>1 DEF BatchSees, IdleBatch, NoReading
  <1>3. PICK picked \in SUBSET Pending :
          /\ Cardinality(picked) = Min({bt[b].room, Cardinality(Pending)})
          /\ msg' = [m \in Messages |-> IF m \in picked THEN "queued" ELSE msg[m]]
    BY DEF BatchFill
  <1>4. /\ picked \in SUBSET Messages /\ Taken \in SUBSET Messages
        /\ Pending \in SUBSET Messages /\ age' = age
        /\ Taken \intersect picked = {}
    BY <1>3 DEF Pending, Taken, InFlight, Success, BatchFill
  <1>5. Taken' = Taken \union picked
    BY <1>3, <1>4 DEF Taken, InFlight, Success
  <1>6. Cardinality(picked) <= bt[b].room /\ bt[b].room \in Nat
    <2>1. bt[b].room \in Nat /\ Cardinality(Pending) \in Nat
      BY <1>4, MessagesCounted DEF TypeOK, BatchType
    <2>. QED BY <2>1, <1>3, PairMin
  <1>7. Cardinality(Taken') = Cardinality(Taken) + Cardinality(picked)
    <2>1. IsFiniteSet(Taken) /\ IsFiniteSet(picked)
      BY <1>4, MessagesCounted
    <2>2. /\ Cardinality(Taken \intersect picked) = 0
          /\ Cardinality(Taken) \in Nat /\ Cardinality(picked) \in Nat
      BY <1>4, MessagesCounted, FS_EmptySet
    <2>3. Cardinality(Taken \union picked)
            = Cardinality(Taken) + Cardinality(picked) - Cardinality(Taken \intersect picked)
      BY <2>1, FS_Union
    <2>. QED BY <2>2, <2>3, <1>5
  <1>8. Cap # 0 => Cardinality(Taken) + bt[b].room <= Cap
    BY DEF BatchFill, QueueInv, BatchSees
  <1>9. Cardinality(Taken) \in Nat /\ Cardinality(picked) \in Nat
    BY <1>4, MessagesCounted
  <1>. QED BY <1>2, <1>6, <1>7, <1>8, <1>9, GateAssumption

\* With one batch at a time and no follow-ups to create messages behind its
\* back, the queue holds no more than the cap will let through, also when
\* messages that were sent are reported as failed.
THEOREM QueueFitsAlways ==
    ASSUME \A a, b \in Batches : a = b, FollowUps = {}, ~MayReclaim
    PROVE  Spec => []QueueFits
  <1>1. Init => QueueInv
    <2>. SUFFICES ASSUME Init PROVE QueueInv
      OBVIOUS
    <2>1. ClaimHolds /\ BatchSees
      BY DEF Init, ClaimHolds, BatchSees, IdleBatch, IdleWorker, NoReading
    <2>2. Taken = {}
      BY DEF Init, Taken, InFlight, Success
    <2>. QED BY <2>1, <2>2, FS_EmptySet, GateAssumption DEF QueueInv
  <1>2. TypeOK /\ QueueInv /\ [Next]_vars => QueueInv'
    <2>. SUFFICES ASSUME TypeOK, QueueInv, [Next]_vars PROVE QueueInv'
      OBVIOUS
    <2>1. ClaimHolds'
      BY ClaimKept DEF QueueInv
    <2>2. CASE \E b \in Batches : BatchFill(b)
      BY <2>1, <2>2, BatchFits DEF QueueInv
    <2>3. CASE ~ \E b \in Batches : BatchFill(b)
      <3>1. /\ InFlight' \subseteq InFlight /\ Taken' \subseteq Taken
            /\ \A m \in Messages : msg[m] \in {"sent", "failed"} /\ age[m] > Period =>
                 msg'[m] \in {"sent", "failed"} /\ age'[m] > Period
        BY <2>3, TakenShrinks DEF QueueInv
      <3>2. InFlight \in SUBSET Messages /\ Taken \in SUBSET Messages
        BY DEF InFlight, Taken, Success
      <3>3. /\ Cardinality(InFlight') <= Cardinality(InFlight)
            /\ Cardinality(Taken') <= Cardinality(Taken)
            /\ Cardinality(InFlight') \in Nat /\ Cardinality(InFlight) \in Nat
            /\ Cardinality(Taken') \in Nat /\ Cardinality(Taken) \in Nat
        BY <3>1, <3>2, MessagesCounted
      <3>4. Cap # 0 => Cardinality(Taken') <= Cap
        BY <3>3, GateAssumption DEF QueueInv
      <3>5. CASE \E b \in Batches : BatchOpen(b) \/ BatchStep(b)
        BY <2>1, <2>3, <3>4, <3>5, BatchesSee DEF QueueInv, BatchStep
      <3>6. CASE bt' = bt
        <4>1. \A b \in Batches : /\ bt[b].read.expired \subseteq Messages
                                 /\ bt[b].read.inflight \in Nat /\ bt[b].room \in Nat
          BY DEF TypeOK, BatchType, Reading
        <4>2. BatchSees'
          BY <3>1, <3>3, <3>6, <4>1, GateAssumption DEF QueueInv, BatchSees
        <4>. QED BY <2>1, <3>4, <4>2 DEF QueueInv
      <3>7. bt' = bt \/ \E b \in Batches : BatchOpen(b) \/ BatchStep(b)
        BY DEF Next, vars, FollowUpDue, Bounce, Claim, CheckStep, CheckRead, CheckCap,
               CheckDelay, Passed, Refused, Settles, Retries, Crash, Tick
      <3>. QED BY <3>5, <3>6, <3>7
    <2>. QED BY <2>2, <2>3
  <1>3. QueueInv => QueueFits
    <2>. SUFFICES ASSUME QueueInv PROVE QueueFits
      OBVIOUS
    <2>. DEFINE recent == {m \in Success : age[m] <= Period}
    <2>1. InFlight \in SUBSET Messages /\ recent \in SUBSET Messages /\ InFlight \intersect recent = {}
      BY DEF InFlight, Success
    <2>2. /\ IsFiniteSet(InFlight) /\ IsFiniteSet(recent)
          /\ Cardinality(InFlight) \in Nat /\ Cardinality(recent) \in Nat
          /\ Cardinality(InFlight \intersect recent) = 0
      BY <2>1, MessagesCounted, FS_EmptySet
    <2>3. Cardinality(Taken) = Cardinality(InFlight) + Cardinality(recent)
      <3>1. Taken = InFlight \union recent
        BY DEF Taken
      <3>. HIDE DEF recent
      <3>2. Cardinality(InFlight \union recent)
              = Cardinality(InFlight) + Cardinality(recent) - Cardinality(InFlight \intersect recent)
        BY <2>2, FS_Union
      <3>. QED BY <2>2, <3>1, <3>2
    <2>. QED BY <2>3 DEF QueueFits, QueueInv
  <1>. QED BY <1>1, <1>2, <1>3, TypeCorrect, PTL DEF Spec
=============================================================================
