--------------------------- MODULE MessageSendProofs ---------------------------
(***************************************************************************)
(* Proofs about MessageSend, for any number of messages, attempts and      *)
(* receipts.                                                               *)
(***************************************************************************)
EXTENDS MessageSend, FiniteSetTheorems, TLAPS

-----------------------------------------------------------------------------
(* Types *)

LEMMA IdleType ==
    ASSUME Messages # {}
    PROVE  Idle \in WorkerType /\ NoPoll \in PollType
  <1>1. (CHOOSE m \in Messages : TRUE) \in Messages
    OBVIOUS
  <1>. QED BY <1>1, SendAssumption DEF Idle, WorkerType, NoPoll, PollType

LEMMA LoadType ==
    ASSUME TypeOK, Messages # {}, NEW w \in Workers, NEW m \in Messages,
           NEW task \in BOOLEAN, Load(w, m, task)
    PROVE  wk' \in [Workers -> WorkerType]
  <1>1. [Idle EXCEPT !.pc = "claim", !.m = m, !.task = task, !.tries = msg[m].tries] \in WorkerType
    BY IdleType DEF WorkerType, TypeOK, MsgType
  <1>. QED BY <1>1 DEF Load, TypeOK

LEMMA FinishedType ==
    ASSUME TypeOK, Messages # {}, NEW w \in Workers, Finished(w)
    PROVE  wk' \in [Workers -> WorkerType]
  BY IdleType DEF Finished, TypeOK

LEMMA PublishedType ==
    ASSUME TypeOK, NEW m \in Messages, Published(m)
    PROVE  queue' \in [Messages -> 0..MaxTasks]
  BY SendAssumption DEF Published, TypeOK

LEMMA ContactFailsType ==
    ASSUME TypeOK, NEW w \in Workers, ContactFails(w)
    PROVE  cc' \in [Messages -> {"queued", "sent", "delivered", "failed", "cancelled"}]
  BY DEF ContactFails, TypeOK, WorkerType

LEMMA DeferType ==
    ASSUME TypeOK, Messages # {}, NEW w \in Workers, Defer(w)
    PROVE  TypeOK'
  <1>1. wk[w].m \in Messages
    BY DEF TypeOK, WorkerType
  <1>2. msg' \in [Messages -> MsgType]
    BY <1>1 DEF Defer, TypeOK, MsgType, Open
  <1>3. queue' \in [Messages -> 0..MaxTasks]
    BY <1>1, PublishedType DEF Defer, TypeOK
  <1>. QED BY <1>2, <1>3, FinishedType DEF Defer, TypeOK

LEMMA LoadStepType ==
    ASSUME TypeOK, Messages # {}, NEW w \in Workers, NEW m \in Messages,
           TakeTask(w, m) \/ SweepDue(w, m) \/ SweepStuck(w, m)
    PROVE  TypeOK'
  <1>1. CASE TakeTask(w, m)
    <2>1. queue' \in [Messages -> 0..MaxTasks]
      BY <1>1, SendAssumption DEF TakeTask, TypeOK
    <2>. QED BY <1>1, <2>1, LoadType DEF TakeTask, TypeOK
  <1>2. CASE SweepDue(w, m)
    BY <1>2, LoadType DEF SweepDue, TypeOK
  <1>3. CASE SweepStuck(w, m)
    BY <1>3, LoadType DEF SweepStuck, TypeOK
  <1>. QED BY <1>1, <1>2, <1>3

LEMMA SendStepType ==
    ASSUME TypeOK, Messages # {}, NEW w \in Workers, SendStep(w)
    PROVE  TypeOK'
  <1>0. /\ wk[w] \in WorkerType /\ wk[w].m \in Messages /\ wk[w].sent \in Nat
        /\ wk[w].pid \in 0..MaxAccepted /\ wk[w].tries \in 0..MaxAttempts
        /\ Attempt(w) \in 0..MaxAttempts
    BY SendAssumption DEF TypeOK, WorkerType, Attempt
  <1>1. CASE Claim(w)
    <2>1. msg' \in [Messages -> MsgType]
      BY <1>0, <1>1 DEF Claim, TypeOK, MsgType, Open
    <2>2. [wk[w] EXCEPT !.pc = "hold"] \in WorkerType
      BY <1>0 DEF WorkerType
    <2>3. wk' \in [Workers -> WorkerType]
      BY <1>1, <2>2, FinishedType DEF Claim, TypeOK
    <2>. QED BY <1>1, <2>1, <2>3 DEF Claim, TypeOK
  <1>2. CASE Held(w)
    <2>1. msg' \in [Messages -> MsgType]
      BY <1>0, <1>2 DEF Held, TypeOK, MsgType, Open, Final
    <2>. QED BY <1>2, <2>1, FinishedType DEF Held, TypeOK
  <1>3. CASE GateRefuses(w) \/ Deferred(w)
    BY <1>3, DeferType DEF GateRefuses, Deferred
  <1>4. CASE GateAllows(w)
    <2>1. [wk[w] EXCEPT !.pc = "dispatch", !.sent = camp.sent] \in WorkerType
      BY <1>0 DEF WorkerType, TypeOK, CampType
    <2>. QED BY <1>4, <2>1 DEF GateAllows, TypeOK
  <1>5. CASE Blocked(w)
    <2>1. msg' \in [Messages -> MsgType]
      BY <1>0, <1>5 DEF Blocked, TypeOK, MsgType, Final
    <2>. QED BY <1>5, <2>1, FinishedType, ContactFailsType DEF Blocked, Together, TypeOK
  <1>6. CASE Dispatch(w)
    <2>1. /\ [wk[w] EXCEPT !.pc = "record"] \in WorkerType
          /\ \A n \in 0..MaxAccepted : [wk[w] EXCEPT !.pc = "record", !.pid = n] \in WorkerType
      BY <1>0 DEF WorkerType
    <2>2. accepted[wk[w].m] < MaxAccepted => accepted[wk[w].m] + 1 \in 0..MaxAccepted
      BY <1>0, SendAssumption DEF TypeOK
    <2>3. wk' \in [Workers -> WorkerType]
      BY <1>6, <2>1, <2>2 DEF Dispatch, TypeOK
    <2>4. accepted' \in [Messages -> 0..MaxAccepted]
      BY <1>0, <1>6, <2>2 DEF Dispatch, TypeOK
    <2>5. faults' \in 0..MaxFaults
      BY <1>6, SendAssumption DEF Dispatch, TypeOK
    <2>. QED BY <1>6, <2>3, <2>4, <2>5 DEF Dispatch, TypeOK
  <1>7. CASE Accepted(w)
    <2>1. msg' \in [Messages -> MsgType]
      BY <1>0, <1>7 DEF Accepted, TypeOK, MsgType, Final
    <2>2. camp' \in CampType
      BY <1>0, <1>7 DEF Accepted, TypeOK, CampType
    <2>3. cc' \in [Messages -> {"queued", "sent", "delivered", "failed", "cancelled"}]
      BY <1>0, <1>7 DEF Accepted, TypeOK
    <2>. QED BY <1>7, <2>1, <2>2, <2>3, FinishedType DEF Accepted, Together, TypeOK
  <1>8. CASE Retries(w)
    <2>1. msg' \in [Messages -> MsgType]
      BY <1>0, <1>8 DEF Retries, TypeOK, MsgType, Open
    <2>2. queue' \in [Messages -> 0..MaxTasks]
      BY <1>0, <1>8, PublishedType DEF Retries, TypeOK
    <2>. QED BY <1>8, <2>1, <2>2, FinishedType DEF Retries, TypeOK
  <1>9. CASE GivesUp(w)
    <2>1. msg' \in [Messages -> MsgType]
      BY <1>0, <1>9 DEF GivesUp, TypeOK, MsgType, Final
    <2>. QED BY <1>9, <2>1, FinishedType, ContactFailsType DEF GivesUp, Together, TypeOK
  <1>. QED
    BY <1>1, <1>2, <1>3, <1>4, <1>5, <1>6, <1>7, <1>8, <1>9 DEF SendStep

LEMMA ReceiptType ==
    ASSUME TypeOK, NEW m \in Messages,
           \/ Reported(m) \/ PollAsk(m) \/ PollWrite(m) \/ RetryDue(m) \/ GrowsOld(m)
    PROVE  TypeOK'
  <1>1. ASSUME NEW status \in {"sent", "delivered", "failed", "cancelled"}, Receipt(m, status)
        PROVE  TypeOK'
    <2>1. msg' \in [Messages -> MsgType]
      BY <1>1 DEF Receipt, TypeOK, MsgType, Final
    <2>2. camp' \in CampType
      BY <1>1 DEF Receipt, TypeOK, CampType
    <2>3. cc' \in [Messages -> {"queued", "sent", "delivered", "failed", "cancelled"}]
      BY <1>1 DEF Receipt, TypeOK
    <2>4. receipts' \in [Messages -> 0..MaxReceipts]
      BY <1>1, SendAssumption DEF Receipt, TypeOK
    <2>. QED BY <1>1, <2>1, <2>2, <2>3, <2>4 DEF Receipt, Together, TypeOK
  <1>6. ASSUME NEW type \in {"delivered", "opened", "bounce"}, Event(m, type)
        PROVE  TypeOK'
    <2>1. msg' \in [Messages -> MsgType]
      BY <1>6 DEF Event, TypeOK, MsgType, Final
    <2>2. receipts' \in [Messages -> 0..MaxReceipts]
      BY <1>6, SendAssumption DEF Event, TypeOK
    <2>. QED BY <1>6, <2>1, <2>2 DEF Event, TypeOK
  <1>2. CASE PollAsk(m)
    <2>1. poll' \in [Messages -> PollType]
      BY <1>2 DEF PollAsk, TypeOK, PollType, MsgType, Open, Final
    <2>. QED BY <1>2, <2>1 DEF PollAsk, TypeOK
  <1>3. CASE PollWrite(m)
    <2>1. msg' \in [Messages -> MsgType]
      BY <1>3 DEF PollWrite, TypeOK, MsgType, PollType, Final
    <2>2. NoPoll \in PollType
      BY DEF NoPoll, PollType
    <2>. QED BY <1>3, <2>1, <2>2 DEF PollWrite, TypeOK
  <1>4. CASE RetryDue(m)
    <2>1. msg' \in [Messages -> MsgType]
      BY <1>4 DEF RetryDue, TypeOK, MsgType
    <2>. QED BY <1>4, <2>1 DEF RetryDue, TypeOK
  <1>5. CASE GrowsOld(m)
    BY <1>5 DEF GrowsOld, TypeOK
  <1>. QED BY <1>1, <1>2, <1>3, <1>4, <1>5, <1>6 DEF Reported

LEMMA OperatorType ==
    ASSUME TypeOK, Pause \/ Resume \/ Stop
    PROVE  TypeOK'
  <1>1. camp' \in CampType
    BY DEF Pause, Resume, Stop, TypeOK, CampType
  <1>2. queue' \in [Messages -> 0..MaxTasks]
    BY SendAssumption DEF Pause, Resume, Stop, TypeOK
  <1>3. msg' \in [Messages -> MsgType]
    <2>1. \A m \in Messages : [msg[m] EXCEPT !.status = "cancelled"] \in MsgType
      BY DEF TypeOK, MsgType, Final
    <2>2. CASE Stop
      BY <2>1, <2>2 DEF Stop, TypeOK
    <2>. QED BY <2>2 DEF Pause, Resume, TypeOK
  <1>4. cc' \in [Messages -> {"queued", "sent", "delivered", "failed", "cancelled"}]
    BY DEF Pause, Resume, Stop, TypeOK
  <1>. QED BY <1>1, <1>2, <1>3, <1>4 DEF Pause, Resume, Stop, TypeOK

\* Every reachable state of the messages, their contacts, the campaign, the
\* workers and the broker has its type.
THEOREM TypeCorrect ==
    ASSUME Messages # {}
    PROVE  Spec => []TypeOK
  <1>1. Init => TypeOK
    <2>1. [status |-> "queued", wait |-> FALSE, tries |-> 0, pid |-> 0] \in MsgType
      BY SendAssumption DEF MsgType, Open
    <2>. QED BY <2>1, IdleType, SendAssumption DEF Init, TypeOK, CampType
  <1>2. TypeOK /\ [Next]_vars => TypeOK'
    <2>. SUFFICES ASSUME TypeOK, [Next]_vars PROVE TypeOK'
      OBVIOUS
    <2>1. CASE UNCHANGED vars
      BY <2>1 DEF vars, TypeOK
    <2>2. ASSUME NEW w \in Workers, Crash(w) PROVE TypeOK'
      <3>1. queue' \in [Messages -> 0..MaxTasks]
        BY <2>2, PublishedType DEF Crash, TypeOK, WorkerType
      <3>2. faults' \in 0..MaxFaults
        BY <2>2, SendAssumption DEF Crash, TypeOK
      <3>. QED BY <2>2, <3>1, <3>2, FinishedType DEF Crash, TypeOK
    <2>. QED
      BY <2>1, <2>2, LoadStepType, SendStepType, ReceiptType, OperatorType DEF Next
  <1>. QED BY <1>1, <1>2, PTL DEF Spec

-----------------------------------------------------------------------------
(* One worker, and a provider whose answers arrive *)

Alone == (\A v, w \in Workers : v = w) /\ MaxFaults = 0

\* A message that has an id is no longer open, the poll only asks about such a
\* message, and what the provider took has its id or is about to get it.
TakenOnce ==
    \A m \in Messages :
        /\ msg[m].pid # 0 => msg[m].status \notin Open
        /\ poll[m] # NoPoll => msg[m].pid # 0
        /\ accepted[m] <= 1
        /\ accepted[m] # 0 => \/ msg[m].pid # 0
                             \/ \E w \in Workers : /\ wk[w].m = m
                                                   /\ wk[w].pc = "record" /\ wk[w].pid # 0

\* A worker that has claimed a message finds it as it left it, until the
\* provider has taken it: then an event may come before the worker's record.
ClaimHolds ==
    \A w \in Workers :
        wk[w].pc \in {"hold", "dispatch", "record"} =>
            /\ msg[wk[w].m].pid = 0
            /\ msg[wk[w].m].status \in {"sending", "delivered", "failed"}
            /\ wk[w].pc # "record" \/ wk[w].pid = 0 =>
                 accepted[wk[w].m] = 0 /\ msg[wk[w].m].status = "sending"

OnceInv == TypeOK /\ TakenOnce /\ ClaimHolds

\* Loading a message changes no message.
LEMMA OnceLoad ==
    ASSUME Messages # {}, Alone, OnceInv, NEW w \in Workers, NEW m \in Messages,
           TakeTask(w, m) \/ SweepDue(w, m) \/ SweepStuck(w, m)
    PROVE  TakenOnce' /\ ClaimHolds'
  <1>1. UNCHANGED <<msg, accepted, poll>> /\ wk[w].pc = "idle"
    BY DEF TakeTask, SweepDue, SweepStuck
  <1>2. wk' = wk \/ wk'[w].pc = "claim"
    <2>1. \A task \in BOOLEAN : Load(w, m, task) => wk' = wk \/ wk'[w].pc = "claim"
      BY DEF Load, OnceInv, TypeOK, Idle
    <2>. QED BY <2>1 DEF TakeTask, SweepDue, SweepStuck
  <1>3. \A v \in Workers : v = w
    BY DEF Alone
  <1>. QED BY <1>1, <1>2, <1>3 DEF OnceInv, TakenOnce, ClaimHolds

LEMMA OnceSend ==
    ASSUME Messages # {}, Alone, OnceInv, NEW w \in Workers, SendStep(w)
    PROVE  TakenOnce' /\ ClaimHolds'
  <1>. DEFINE m == wk[w].m
  <1>0. /\ \A v \in Workers : v = w
        /\ m \in Messages /\ wk[w].pid \in Nat /\ wk[w] \in WorkerType
        /\ \A n \in Messages : accepted[n] \in Nat /\ msg[n].pid \in Nat
        /\ Idle.pc = "idle"
        /\ wk \in [Workers -> WorkerType] /\ msg \in [Messages -> MsgType]
        /\ accepted \in [Messages -> 0..MaxAccepted]
    BY SendAssumption DEF Alone, OnceInv, TypeOK, WorkerType, MsgType, Idle
  <1>. USE DEF OnceInv, TakenOnce, ClaimHolds
  <1>1. CASE Claim(w)
    <2>1. UNCHANGED <<accepted, poll>> /\ wk[w].pc = "claim"
      BY <1>1 DEF Claim
    <2>2. CASE msg[m].status \in Claimable
      <3>1. /\ msg'[m].status = "sending" /\ msg'[m].pid = msg[m].pid
            /\ \A n \in Messages \ {m} : msg'[n] = msg[n]
            /\ wk'[w].pc = "hold" /\ wk'[w].m = m
        BY <1>0, <1>1, <2>2 DEF Claim, MsgType, WorkerType
      <3>2. msg[m].pid = 0 /\ accepted[m] = 0
        BY <1>0, <2>1, <2>2 DEF Claimable, Open
      <3>. QED BY <1>0, <2>1, <3>1, <3>2
    <2>3. CASE msg[m].status \notin Claimable
      <3>1. msg' = msg /\ wk'[w].pc = "idle"
        BY <1>0, <1>1, <2>3 DEF Claim, Finished
      <3>. QED BY <1>0, <2>1, <3>1
    <2>. QED BY <2>2, <2>3
  <1>2. CASE Held(w) \/ GateRefuses(w) \/ Deferred(w) \/ Blocked(w) \/ Retries(w) \/ GivesUp(w)
    <2>1. /\ UNCHANGED <<accepted, poll>> /\ wk'[w].pc = "idle"
          /\ wk[w].pc \in {"hold", "dispatch", "record"}
          /\ wk[w].pc # "record" \/ wk[w].pid = 0
      BY <1>0, <1>2 DEF Held, GateRefuses, Deferred, Defer, Blocked, Retries, GivesUp, Finished
    <2>2. /\ \A n \in Messages \ {m} : msg'[n] = msg[n]
          /\ msg'[m].pid = msg[m].pid
      BY <1>0, <1>2 DEF Held, GateRefuses, Deferred, Defer, Blocked, Retries, GivesUp, MsgType
    <2>3. msg[m].pid = 0 /\ accepted[m] = 0
      BY <1>0, <2>1 DEF Open
    <2>. QED BY <1>0, <2>1, <2>2, <2>3
  <1>3. CASE GateAllows(w)
    <2>1. wk'[w].pc = "dispatch" /\ wk'[w].m = m /\ wk[w].pc = "hold"
      BY <1>0, <1>3 DEF GateAllows, WorkerType
    <2>. QED BY <1>0, <1>3, <2>1 DEF GateAllows
  <1>4. CASE Dispatch(w)
    <2>1. /\ UNCHANGED <<msg, poll>> /\ wk[w].pc = "dispatch"
          /\ wk'[w].pc = "record" /\ wk'[w].m = m
      BY <1>0, <1>4 DEF Dispatch, WorkerType
    <2>2. accepted[m] = 0 /\ msg[m].status = "sending" /\ msg[m].pid = 0
      BY <1>0, <2>1 DEF Open
    <2>3. \/ /\ accepted' = [accepted EXCEPT ![m] = 1] /\ wk'[w].pid = 1
          \/ accepted' = accepted
      BY <1>0, <1>4, <2>2, SendAssumption DEF Dispatch, WorkerType, Alone, TypeOK
    <2>. QED BY <1>0, <2>1, <2>2, <2>3
  <1>5. CASE Accepted(w)
    <2>1. /\ UNCHANGED <<accepted, poll>> /\ wk'[w].pc = "idle"
          /\ msg'[m].pid # 0 /\ msg'[m].status = "sent"
          /\ \A n \in Messages \ {m} : msg'[n] = msg[n]
      BY <1>0, <1>5 DEF Accepted, Finished, MsgType
    <2>. QED BY <1>0, <2>1 DEF Open
  <1>. QED BY <1>1, <1>2, <1>3, <1>4, <1>5 DEF SendStep

\* What receipts, polls, the clock and the operator leave alone
SendsStay ==
    \A m \in Messages :
        /\ msg'[m].pid = msg[m].pid
        /\ msg[m].status \notin Open => msg'[m].status \notin Open
        /\ msg[m].pid = 0 /\ accepted[m] = 0 /\ msg[m].status = "sending"
             => msg'[m].status = "sending"
        /\ msg[m].pid = 0 /\ msg[m].status \in {"sending", "delivered", "failed"}
             => msg'[m].status \in {"sending", "delivered", "failed"}
        /\ poll'[m] # NoPoll => msg[m].pid # 0

LEMMA OnceOther ==
    ASSUME OnceInv,
           \/ \E m \in Messages :
                \/ Reported(m) \/ PollAsk(m) \/ PollWrite(m) \/ RetryDue(m) \/ GrowsOld(m)
           \/ Pause \/ Resume \/ Stop
    PROVE  TakenOnce' /\ ClaimHolds' /\ SendsStay
  <1>1. UNCHANGED <<wk, accepted>>
    BY DEF Reported, Receipt, Event, PollAsk, PollWrite, RetryDue, GrowsOld, Pause, Resume, Stop
  <1>2. SendsStay
    <2>. USE DEF OnceInv, TypeOK, MsgType, TakenOnce, SendsStay
    <2>1. ASSUME NEW m \in Messages, NEW status \in {"sent", "delivered", "failed", "cancelled"},
                 Receipt(m, status)
          PROVE  SendsStay
      BY <2>1 DEF Receipt, Open
    <2>5. ASSUME NEW m \in Messages, NEW type \in {"delivered", "opened", "bounce"},
                 Event(m, type)
          PROVE  SendsStay
      BY <2>5, SendAssumption DEF Event, Open
    <2>2. ASSUME NEW m \in Messages, PollAsk(m) \/ RetryDue(m) \/ GrowsOld(m)
          PROVE  SendsStay
      BY <2>2 DEF PollAsk, RetryDue, GrowsOld
    <2>3. ASSUME NEW m \in Messages, PollWrite(m) PROVE SendsStay
      BY <2>3 DEF PollWrite, PollType, Open, Parked
    <2>4. CASE Pause \/ Resume \/ Stop
      BY <2>4 DEF Pause, Resume, Stop, Open
    <2>. QED BY <2>1, <2>2, <2>3, <2>4, <2>5 DEF Reported
  <1>3. \A w \in Workers : wk[w].m \in Messages
    BY DEF OnceInv, TypeOK, WorkerType
  <1>. QED BY <1>1, <1>2, <1>3 DEF OnceInv, TakenOnce, ClaimHolds, Open, SendsStay

\* No step takes a message out of a final status.
FinalStep == \A m \in Messages : msg[m].status \notin Open => msg'[m].status \notin Open

LEMMA FinalSend ==
    ASSUME OnceInv, NEW w \in Workers, SendStep(w)
    PROVE  FinalStep
  <1>0. wk[w].m \in Messages /\ msg \in [Messages -> MsgType]
    BY DEF OnceInv, TypeOK, WorkerType
  <1>1. \A m \in Messages \ {wk[w].m} : msg'[m] = msg[m]
    BY <1>0 DEF SendStep, Claim, Held, GateRefuses, GateAllows, Blocked, Dispatch, Accepted,
                Retries, GivesUp, Deferred, Defer
  <1>2. CASE Claim(w)
    <2>1. msg'[wk[w].m].status \in {"sending", msg[wk[w].m].status}
      BY <1>0, <1>2 DEF Claim, MsgType
    <2>2. msg[wk[w].m].status \notin Claimable => msg' = msg
      BY <1>2 DEF Claim
    <2>. QED BY <1>0, <1>1, <2>1, <2>2 DEF FinalStep, Claimable, Open
  <1>3. CASE Accepted(w)
    <2>1. msg'[wk[w].m].status = "sent"
      BY <1>0, <1>3 DEF Accepted, MsgType
    <2>. QED BY <1>0, <1>1, <2>1 DEF FinalStep, Open
  <1>4. CASE ~Claim(w) /\ ~Accepted(w)
    <2>1. /\ wk[w].pc \in {"hold", "dispatch", "record"}
          /\ wk[w].pc # "record" \/ wk[w].pid = 0
      BY <1>4 DEF SendStep, Held, GateRefuses, GateAllows, Blocked, Dispatch,
                  Retries, GivesUp, Deferred
    <2>2. msg[wk[w].m].status = "sending"
      BY <2>1 DEF OnceInv, ClaimHolds
    <2>. QED BY <1>0, <1>1, <2>2 DEF FinalStep, Open
  <1>. QED BY <1>2, <1>3, <1>4

LEMMA OnceKept ==
    ASSUME Messages # {}, Alone, OnceInv, [Next]_vars, TypeOK'
    PROVE  OnceInv' /\ FinalStep
  <1>1. CASE UNCHANGED vars
    BY <1>1 DEF vars, OnceInv, TypeOK, TakenOnce, ClaimHolds, FinalStep
  <1>2. ASSUME NEW w \in Workers, NEW m \in Messages,
               TakeTask(w, m) \/ SweepDue(w, m) \/ SweepStuck(w, m)
        PROVE  OnceInv' /\ FinalStep
    <2>1. msg' = msg
      BY <1>2 DEF TakeTask, SweepDue, SweepStuck
    <2>. QED BY <1>2, <2>1, OnceLoad DEF OnceInv, FinalStep
  <1>3. ASSUME NEW w \in Workers, SendStep(w) PROVE OnceInv' /\ FinalStep
    BY <1>3, OnceSend, FinalSend DEF OnceInv
  <1>4. ASSUME NEW w \in Workers, Crash(w) PROVE OnceInv' /\ FinalStep
    BY <1>4 DEF Crash, Alone, OnceInv, TypeOK
  <1>5. CASE \/ \E m \in Messages :
                  \/ Reported(m) \/ PollAsk(m) \/ PollWrite(m) \/ RetryDue(m) \/ GrowsOld(m)
             \/ Pause \/ Resume \/ Stop
    BY <1>5, OnceOther DEF OnceInv, SendsStay, FinalStep
  <1>. QED BY <1>1, <1>2, <1>3, <1>4, <1>5 DEF Next

LEMMA OnceInit ==
    ASSUME Init, TypeOK
    PROVE  OnceInv
  BY DEF Init, Idle, OnceInv, TakenOnce, ClaimHolds

LEMMA OnceInvariant ==
    ASSUME Messages # {}, Alone
    PROVE  Spec => [](TypeOK /\ OnceInv)
  <1>1. Init /\ TypeOK => OnceInv
    BY OnceInit
  <1>2. OnceInv /\ [Next]_vars /\ TypeOK' => OnceInv'
    BY OnceKept
  <1>. QED BY <1>1, <1>2, TypeCorrect, PTL DEF Spec

\* With one worker, whose provider answers, no message is accepted twice: not
\* by tasks and sweeps of the same message, retries, deferrals, late receipts,
\* slow polls, a pause or a stop.
THEOREM AcceptedOnceHolds ==
    ASSUME Messages # {}, Alone
    PROVE  Spec => []AcceptedOnce
  <1>1. OnceInv => AcceptedOnce
    BY DEF OnceInv, TakenOnce, AcceptedOnce
  <1>. QED BY <1>1, OnceInvariant, PTL

\* What a stop has cancelled was not accepted, wherever the worker was.
THEOREM CancelledNotSentHolds ==
    ASSUME Messages # {}, Alone
    PROVE  Spec => []CancelledNotSent
  <1>1. OnceInv => CancelledNotSent
    BY DEF OnceInv, TypeOK, TakenOnce, ClaimHolds, CancelledNotSent
  <1>. QED BY <1>1, OnceInvariant, PTL

\* No task, sweep, retry, receipt or poll opens a final message again.
THEOREM FinalStaysHolds ==
    ASSUME Messages # {}, Alone
    PROVE  Spec => FinalStays
  <1>1. TypeOK /\ OnceInv /\ [Next]_vars /\ TypeOK'
          => [\A m \in Messages : msg[m].status \notin Open => msg'[m].status \notin Open]_vars
    BY OnceKept DEF FinalStep
  <1>. QED BY <1>1, OnceInvariant, PTL DEF Spec, FinalStays

-----------------------------------------------------------------------------
(* Any number of workers, deaths and lost answers *)

LEMMA ApartKept ==
    ASSUME TypeOK, OnlyApart, [Next]_vars
    PROVE  OnlyApart'
  <1>. USE DEF TypeOK, MsgType, OnlyApart, LeftBehind
  <1>1. CASE UNCHANGED vars
    BY <1>1 DEF vars
  <1>2. ASSUME NEW w \in Workers, NEW m \in Messages,
               TakeTask(w, m) \/ SweepDue(w, m) \/ SweepStuck(w, m)
        PROVE  OnlyApart'
    BY <1>2 DEF TakeTask, SweepDue, SweepStuck
  <1>3. ASSUME NEW w \in Workers, SendStep(w) \/ Crash(w)
        PROVE  OnlyApart'
    <2>0. wk[w].m \in Messages
      BY DEF WorkerType
    <2>1. CASE Claim(w) \/ Held(w) \/ GateRefuses(w) \/ Deferred(w) \/ Retries(w)
      BY <2>0, <2>1 DEF Claim, Held, GateRefuses, Deferred, Defer, Retries
    <2>2. CASE GateAllows(w) \/ Dispatch(w) \/ Crash(w)
      BY <2>2 DEF GateAllows, Dispatch, Crash
    <2>3. CASE Accepted(w)
      BY <2>0, <2>3 DEF Accepted, Together
    <2>4. CASE Blocked(w) \/ GivesUp(w)
      BY <2>0, <2>4 DEF Blocked, GivesUp, ContactFails, Together
    <2>. QED BY <1>3, <2>1, <2>2, <2>3, <2>4 DEF SendStep
  <1>4. ASSUME NEW m \in Messages, NEW status \in {"sent", "delivered", "failed", "cancelled"},
               Receipt(m, status)
        PROVE  OnlyApart'
    BY <1>4 DEF Receipt, Together
  <1>5. ASSUME NEW m \in Messages, NEW type \in {"delivered", "opened", "bounce"},
               Event(m, type)
        PROVE  OnlyApart'
    BY <1>5 DEF Event
  <1>6. ASSUME NEW m \in Messages, PollAsk(m) \/ PollWrite(m) \/ RetryDue(m) \/ GrowsOld(m)
        PROVE  OnlyApart'
    BY <1>6 DEF PollAsk, PollWrite, RetryDue, GrowsOld
  <1>7. CASE Pause \/ Resume
    BY <1>7 DEF Pause, Resume
  <1>8. CASE Stop
    BY <1>8 DEF Stop
  <1>. QED BY <1>1, <1>2, <1>3, <1>4, <1>5, <1>6, <1>7, <1>8 DEF Next, Reported

\* Only the status poll and Brevo's events leave a contact under way whose
\* message is over, for any number of workers that overlap, die or lose the
\* provider's answer, any receipts and any stop.
THEOREM OnlyApartHolds ==
    ASSUME Messages # {}
    PROVE  Spec => []OnlyApart
  <1>1. Init => OnlyApart
    BY DEF Init, OnlyApart, LeftBehind
  <1>2. TypeOK /\ OnlyApart /\ [Next]_vars => OnlyApart'
    BY ApartKept
  <1>. QED BY <1>1, <1>2, TypeCorrect, PTL DEF Spec

-----------------------------------------------------------------------------
(* One worker keeps the promise of OutboundMessage *)

\* Only what the provider took has an id.
IdIsTaken ==
    /\ \A m \in Messages : msg[m].pid # 0 => accepted[m] > 0
    /\ \A w \in Workers : wk[w].pid # 0 => accepted[wk[w].m] > 0

LEMMA IdIsTakenKept ==
    ASSUME Messages # {}, TypeOK, TypeOK', IdIsTaken, [Next]_vars
    PROVE  IdIsTaken'
  <1>0. /\ Idle.pid = 0 /\ Idle \in WorkerType
        /\ msg \in [Messages -> MsgType] /\ wk \in [Workers -> WorkerType]
        /\ \A w \in Workers : wk[w].m \in Messages
        /\ accepted \in [Messages -> Nat]
    BY IdleType, SendAssumption DEF TypeOK, WorkerType, Idle
  <1>. USE DEF IdIsTaken
  <1>1. ASSUME UNCHANGED accepted,
               \A n \in Messages : msg'[n].pid \in {0, msg[n].pid},
               \A v \in Workers : \/ wk'[v].pid = 0
                                  \/ wk'[v].pid = wk[v].pid /\ wk'[v].m = wk[v].m
        PROVE  IdIsTaken'
    BY <1>1
  <1>2. ASSUME NEW w \in Workers, NEW m \in Messages,
               TakeTask(w, m) \/ SweepDue(w, m) \/ SweepStuck(w, m)
        PROVE  IdIsTaken'
    <2>1. UNCHANGED <<msg, accepted>>
      BY <1>2 DEF TakeTask, SweepDue, SweepStuck
    <2>2. \E task \in BOOLEAN : Load(w, m, task)
      BY <1>2 DEF TakeTask, SweepDue, SweepStuck
    <2>3. \A task \in BOOLEAN :
            [Idle EXCEPT !.pc = "claim", !.m = m, !.task = task, !.tries = msg[m].tries].pid = 0
      BY <1>0 DEF WorkerType
    <2>4. \A v \in Workers : wk'[v] = wk[v] \/ wk'[v].pid = 0
      BY <1>0, <2>2, <2>3 DEF Load
    <2>. QED BY <1>1, <2>1, <2>4
  <1>3. ASSUME NEW w \in Workers, SendStep(w) \/ Crash(w) PROVE IdIsTaken'
    <2>. DEFINE m == wk[w].m
    <2>0. m \in Messages /\ accepted[m] \in Nat /\ wk[w] \in WorkerType
      BY <1>0
    <2>1. CASE Held(w) \/ GateRefuses(w) \/ Blocked(w) \/ Retries(w) \/ GivesUp(w)
               \/ Deferred(w) \/ Crash(w)
      <3>1. UNCHANGED accepted /\ \A n \in Messages : msg'[n].pid = msg[n].pid
        <4>1. CASE Retries(w) \/ GivesUp(w)
          BY <1>0, <4>1 DEF MsgType, Retries, GivesUp
        <4>2. CASE GateRefuses(w) \/ Deferred(w)
          BY <1>0, <4>2 DEF MsgType, GateRefuses, Deferred, Defer
        <4>3. CASE Held(w) \/ Blocked(w) \/ Crash(w)
          BY <1>0, <4>3 DEF MsgType, Held, Blocked, Crash
        <4>. QED BY <2>1, <4>1, <4>2, <4>3
      <3>2. wk' = [wk EXCEPT ![w] = Idle]
        BY <2>1 DEF Held, GateRefuses, Blocked, Retries, GivesUp, Deferred, Defer, Crash, Finished
      <3>. QED BY <1>0, <1>1, <3>1, <3>2
    <2>2. CASE Claim(w) \/ GateAllows(w)
      <3>1. UNCHANGED accepted /\ \A n \in Messages : msg'[n].pid = msg[n].pid
        BY <1>0, <2>2 DEF MsgType, Claim, GateAllows
      <3>2. /\ \A v \in Workers \ {w} : wk'[v] = wk[v]
            /\ \/ wk'[w].pid = 0
               \/ wk'[w].pid = wk[w].pid /\ wk'[w].m = wk[w].m
        BY <1>0, <2>0, <2>2 DEF WorkerType, Claim, GateAllows, Finished
      <3>. QED BY <1>1, <3>1, <3>2
    <2>3. CASE Accepted(w)
      <3>1. UNCHANGED accepted /\ accepted[m] > 0
        BY <2>3 DEF Accepted
      <3>2. \A n \in Messages \ {m} : msg'[n] = msg[n]
        BY <1>0, <2>0, <2>3 DEF Accepted
      <3>3. wk' = [wk EXCEPT ![w] = Idle]
        BY <2>3 DEF Accepted, Finished
      <3>. QED BY <1>0, <3>1, <3>2, <3>3
    <2>4. CASE Dispatch(w)
      <3>1. \/ UNCHANGED accepted /\ wk' = [wk EXCEPT ![w].pc = "record"]
            \/ /\ accepted' = [accepted EXCEPT ![m] = @ + 1]
               /\ \/ wk' = [wk EXCEPT ![w].pc = "record"]
                  \/ wk' = [wk EXCEPT ![w].pc = "record", ![w].pid = accepted[m] + 1]
        BY <2>0, <2>4 DEF Dispatch
      <3>2. /\ \A n \in Messages : accepted'[n] >= accepted[n] /\ accepted'[n] \in Nat
            /\ accepted' = accepted \/ accepted'[m] > 0
        BY <1>0, <2>0, <3>1
      <3>3. /\ \A v \in Workers \ {w} : wk'[v] = wk[v]
            /\ wk'[w].m = m
            /\ wk'[w].pid = wk[w].pid \/ accepted'[m] > 0
        BY <1>0, <2>0, <3>1, <3>2 DEF WorkerType
      <3>4. UNCHANGED msg
        BY <2>4 DEF Dispatch
      <3>. QED BY <1>0, <3>2, <3>3, <3>4
    <2>. QED BY <1>3, <2>1, <2>2, <2>3, <2>4 DEF SendStep
  <1>4. ASSUME NEW m \in Messages,
               \/ Reported(m) \/ PollAsk(m) \/ PollWrite(m) \/ RetryDue(m) \/ GrowsOld(m)
        PROVE  IdIsTaken'
    <2>1. /\ UNCHANGED <<accepted, wk>>
          /\ \A n \in Messages : msg'[n].pid = msg[n].pid
      BY <1>0, <1>4 DEF MsgType, Reported, Receipt, Event, PollAsk, PollWrite, RetryDue, GrowsOld
    <2>. QED BY <1>1, <2>1
  <1>5. CASE Pause \/ Resume \/ Stop \/ UNCHANGED vars
    <2>1. /\ UNCHANGED <<accepted, wk>>
          /\ \A n \in Messages : msg'[n].pid = msg[n].pid
      BY <1>0, <1>5 DEF MsgType, Pause, Resume, Stop, vars
    <2>. QED BY <1>1, <2>1
  <1>. QED BY <1>2, <1>3, <1>4, <1>5 DEF Next
PromiseInv == OnceInv /\ IdIsTaken

\* What the abstract message is told from
LEMMA StageIs ==
    ASSUME PromiseInv, NEW m \in Messages
    PROVE  /\ Stage(m) = "taken" <=> accepted[m] > 0
           /\ Cleared(m) => Stage(m) = "cleared"
           /\ Stage(m) = "cleared" <=> Cleared(m) /\ accepted[m] = 0
           /\ Stage(m) = "ended" <=> /\ accepted[m] = 0 /\ ~Cleared(m)
                                     /\ msg[m].status \in {"failed", "cancelled"}
           /\ Stage(m) \in {"waiting", "cleared", "taken", "ended"}
  <1>1. accepted[m] \in Nat
    BY SendAssumption DEF PromiseInv, OnceInv, TypeOK
  <1>2. Cleared(m) => accepted[m] = 0
    BY DEF PromiseInv, OnceInv, ClaimHolds, Cleared
  <1>. QED BY <1>1, <1>2 DEF Stage

\* One message moves, and the campaign and the other messages stay.
LEMMA StageMoves ==
    ASSUME NEW m \in Messages, NEW from, NEW to, camp'.status = camp.status,
           \A n \in Messages \ {m} : Stage(n)' = Stage(n),
           Stage(m) \in from, Stage(m)' = to
    PROVE  Outbound!Moves(m, from, to)
  BY DEF Outbound!Moves

\* The step is a step of the abstract specification, or none.
Promised == [Outbound!Next]_<<[m \in Messages |-> Stage(m)], camp.status>>

LEMMA StageStays ==
    ASSUME camp'.status = camp.status, \A n \in Messages : Stage(n)' = Stage(n)
    PROVE  Promised
  BY DEF Promised

\* A worker's step moves its own message only.
LEMMA OthersStay ==
    ASSUME Alone, PromiseInv, PromiseInv', NEW w \in Workers, SendStep(w),
           NEW n \in Messages \ {wk[w].m}
    PROVE  Stage(n)' = Stage(n)
  <1>0. /\ wk[w] \in WorkerType /\ wk \in [Workers -> WorkerType]
        /\ msg \in [Messages -> MsgType] /\ wk[w].m \in Messages
        /\ accepted \in [Messages -> 0..MaxAccepted] /\ Idle.pc = "idle"
    BY DEF PromiseInv, OnceInv, TypeOK, WorkerType, Idle
  <1>1. msg'[n] = msg[n] /\ accepted'[n] = accepted[n]
    BY <1>0 DEF SendStep, Claim, Held, GateRefuses, GateAllows, Blocked, Dispatch, Accepted,
                Retries, GivesUp, Deferred, Defer
  <1>2. wk'[w].pc = "idle" \/ wk'[w].m = wk[w].m
    BY <1>0 DEF SendStep, Claim, Held, GateRefuses, GateAllows, Blocked, Dispatch, Accepted,
                Retries, GivesUp, Deferred, Defer, Finished, WorkerType
  <1>3. ~Cleared(n) /\ ~Cleared(n)'
    BY <1>2 DEF Cleared, Alone
  <1>. QED BY <1>1, <1>3 DEF Stage

LEMMA SendStepPromised ==
    ASSUME Messages # {}, Alone, PromiseInv, PromiseInv', NEW w \in Workers, SendStep(w)
    PROVE  Promised
  <1>0. /\ wk[w] \in WorkerType /\ wk \in [Workers -> WorkerType]
        /\ msg \in [Messages -> MsgType] /\ wk[w].m \in Messages
        /\ accepted \in [Messages -> Nat] /\ accepted' \in [Messages -> Nat]
        /\ Idle.pc = "idle" /\ \A v \in Workers : v = w
    BY SendAssumption DEF PromiseInv, OnceInv, TypeOK, WorkerType, Idle, Alone
  <1>m. PICK m \in Messages : m = wk[w].m
    BY <1>0
  <1>1. \A n \in Messages \ {m} : Stage(n)' = Stage(n)
    BY <1>m, OthersStay
  <1>2. ASSUME NEW from, NEW to, Stage(m) \in from, Stage(m)' = to, camp'.status = camp.status
        PROVE  Outbound!Moves(m, from, to)
    BY <1>1, <1>2, StageMoves
  <1>3. /\ wk[w].pc = "hold" \/ Cleared(m) => msg[m].status = "sending"
        /\ Cleared(m) <=> wk[w].pc = "dispatch" \/ (wk[w].pc = "record" /\ wk[w].pid = 0)
        /\ wk[w].pc = "hold" \/ Cleared(m) => accepted[m] = 0
        /\ wk'[w].pc \in {"idle", "hold"} => ~Cleared(m)'
    BY <1>0, <1>m DEF PromiseInv, OnceInv, ClaimHolds, Cleared
  <1>4. CASE Claim(w) \/ Held(w) \/ GateRefuses(w)
    <2>1. /\ camp' = camp /\ accepted' = accepted /\ ~Cleared(m)
          /\ wk'[w].pc \in {"idle", "hold"}
          /\ Claim(w) \/ wk[w].pc = "hold"
      BY <1>0, <1>3, <1>4 DEF Claim, Held, GateRefuses, Defer, Finished, WorkerType
    <2>2. CASE Stage(m)' = Stage(m)
      BY <1>1, <2>1, <2>2, StageStays
    <2>3. CASE Stage(m)' # Stage(m)
      <3>1. accepted[m] = 0 /\ msg'[m] # msg[m]
        BY <1>0, <1>3, <2>1, <2>3 DEF Stage
      <3>2. msg[m].status \notin {"failed", "cancelled"}
        BY <1>0, <1>m, <1>3, <1>4, <3>1 DEF Claim, Claimable, Held, GateRefuses
      <3>3. Stage(m) = "waiting" /\ Stage(m)' \in {"waiting", "ended"}
        BY <1>3, <2>1, <3>1, <3>2 DEF Stage
      <3>4. Outbound!End(m)
        BY <1>2, <2>1, <2>3, <3>3 DEF Outbound!End
      <3>. QED BY <3>4 DEF Promised, Outbound!Next
    <2>. QED BY <2>2, <2>3
  <1>5. CASE GateAllows(w)
    <2>1. /\ camp' = camp /\ camp.status = "running" /\ accepted' = accepted
          /\ wk'[w].pc = "dispatch" /\ wk'[w].m = m
          /\ wk[w].pc = "hold"
      BY <1>0, <1>m, <1>5 DEF GateAllows, WorkerType
    <2>2. Stage(m) = "waiting" /\ Stage(m)' = "cleared"
      BY <1>3, <2>1 DEF Stage, Cleared
    <2>3. Outbound!Clear(m)
      BY <1>2, <2>1, <2>2 DEF Outbound!Clear
    <2>. QED BY <2>3 DEF Promised, Outbound!Next
  <1>6. CASE Blocked(w) \/ GivesUp(w) \/ Retries(w) \/ Deferred(w)
    <2>1. /\ camp' = camp /\ accepted' = accepted /\ wk'[w].pc = "idle" /\ Cleared(m)
      BY <1>0, <1>3, <1>6 DEF Blocked, GivesUp, Retries, Deferred, Defer, Finished
    <2>2. Stage(m) = "cleared" /\ Stage(m)' \in {"waiting", "ended"}
      BY <1>3, <2>1 DEF Stage
    <2>3. Outbound!Release(m) \/ Outbound!End(m)
      BY <1>2, <2>1, <2>2 DEF Outbound!Release, Outbound!End
    <2>. QED BY <2>3 DEF Promised, Outbound!Next
  <1>7. CASE Dispatch(w)
    <2>1. camp' = camp /\ Cleared(m) /\ accepted[m] = 0
      BY <1>3, <1>7 DEF Dispatch
    <2>2. CASE accepted' = accepted
      <3>1. wk'[w].pc = "record" /\ wk'[w].pid = wk[w].pid /\ wk'[w].m = m
        BY <1>0, <1>m, <1>7, <2>1, <2>2 DEF Dispatch, WorkerType
      <3>2. wk[w].pid = 0
        BY <1>m, <2>1 DEF PromiseInv, IdIsTaken
      <3>3. Stage(m)' = Stage(m)
        BY <2>1, <2>2, <3>1, <3>2 DEF Stage, Cleared
      <3>. QED BY <1>1, <2>1, <3>3, StageStays
    <2>3. CASE accepted' # accepted
      <3>1. accepted'[m] > 0
        BY <1>0, <1>m, <1>7, <2>1, <2>3 DEF Dispatch
      <3>2. Stage(m) = "cleared" /\ Stage(m)' = "taken"
        BY <2>1, <3>1 DEF Stage
      <3>3. Outbound!Take(m)
        BY <1>2, <2>1, <3>2 DEF Outbound!Take
      <3>. QED BY <3>3 DEF Promised, Outbound!Next
    <2>. QED BY <2>2, <2>3
  <1>8. CASE Accepted(w)
    <2>1. camp'.status = camp.status /\ accepted' = accepted /\ accepted[m] > 0
      BY <1>0, <1>m, <1>8 DEF Accepted, PromiseInv, IdIsTaken, OnceInv, TypeOK, CampType
    <2>2. Stage(m)' = Stage(m)
      BY <2>1 DEF Stage
    <2>. QED BY <1>1, <2>1, <2>2, StageStays
  <1>. QED BY <1>4, <1>5, <1>6, <1>7, <1>8 DEF SendStep

LEMMA LoadPromised ==
    ASSUME Messages # {}, Alone, PromiseInv, NEW w \in Workers, NEW m \in Messages,
           TakeTask(w, m) \/ SweepDue(w, m) \/ SweepStuck(w, m)
    PROVE  Promised
  <1>1. UNCHANGED <<msg, accepted, camp>> /\ wk[w].pc = "idle"
    BY DEF TakeTask, SweepDue, SweepStuck
  <1>2. wk' = wk \/ wk'[w].pc = "claim"
    <2>1. \A task \in BOOLEAN : Load(w, m, task) => wk' = wk \/ wk'[w].pc = "claim"
      BY DEF Load, PromiseInv, OnceInv, TypeOK, Idle
    <2>. QED BY <2>1 DEF TakeTask, SweepDue, SweepStuck
  <1>3. \A n \in Messages : ~Cleared(n) /\ ~Cleared(n)'
    BY <1>1, <1>2 DEF Cleared, Alone
  <1>4. \A n \in Messages : Stage(n)' = Stage(n)
    BY <1>1, <1>3 DEF Stage
  <1>. QED BY <1>1, <1>4, StageStays

\* Receipts, events and polls are about messages that the provider has.
LEMMA ReceiptPromised ==
    ASSUME PromiseInv, NEW m \in Messages,
           \/ Reported(m) \/ PollAsk(m) \/ PollWrite(m) \/ RetryDue(m) \/ GrowsOld(m)
    PROVE  Promised
  <1>0. msg \in [Messages -> MsgType] /\ accepted \in [Messages -> Nat]
    BY SendAssumption DEF PromiseInv, OnceInv, TypeOK
  <1>1. UNCHANGED <<wk, accepted>> /\ camp'.status = camp.status
    <2>1. \A status : Receipt(m, status) => UNCHANGED <<wk, accepted>> /\ camp'.status = camp.status
      BY DEF Receipt, PromiseInv, OnceInv, TypeOK, CampType
    <2>2. \A type : Event(m, type) => UNCHANGED <<wk, accepted>> /\ camp'.status = camp.status
      BY DEF Event
    <2>. QED BY <2>1, <2>2 DEF Reported, PollAsk, PollWrite, RetryDue, GrowsOld
  <1>2. \A n \in Messages : msg'[n].status = msg[n].status \/ accepted[n] > 0
    <2>1. ASSUME NEW status, Receipt(m, status)
          PROVE  \A n \in Messages : msg'[n] = msg[n] \/ accepted[n] > 0
      BY <1>0, <2>1 DEF Receipt, PromiseInv, IdIsTaken
    <2>4. ASSUME NEW type, Event(m, type)
          PROVE  \A n \in Messages : msg'[n] = msg[n] \/ accepted[n] > 0
      BY <1>0, <2>4 DEF Event
    <2>2. CASE PollWrite(m)
      BY <1>0, <2>2 DEF PollWrite, PromiseInv, OnceInv, TakenOnce, IdIsTaken
    <2>3. CASE PollAsk(m) \/ RetryDue(m) \/ GrowsOld(m)
      BY <1>0, <2>3 DEF PollAsk, RetryDue, GrowsOld, MsgType
    <2>. QED BY <2>1, <2>2, <2>3, <2>4 DEF Reported
  <1>3. \A n \in Messages : Cleared(n)' <=> Cleared(n)
    BY <1>1 DEF Cleared
  <1>4. \A n \in Messages : Stage(n)' = Stage(n)
    BY <1>0, <1>1, <1>2, <1>3 DEF Stage
  <1>. QED BY <1>1, <1>4, StageStays

\* A stop leaves what a worker has claimed.
LEMMA OperatorPromised ==
    ASSUME PromiseInv, Pause \/ Resume \/ Stop
    PROVE  Promised
  <1>0. /\ msg \in [Messages -> MsgType] /\ accepted \in [Messages -> Nat] /\ camp \in CampType
        /\ UNCHANGED <<wk, accepted>>
    BY SendAssumption DEF PromiseInv, OnceInv, TypeOK, Pause, Resume, Stop
  <1>1. \A n \in Messages : Cleared(n)' <=> Cleared(n)
    BY <1>0 DEF Cleared
  <1>2. CASE Pause \/ Resume
    <2>1. \A n \in Messages : Stage(n)' = Stage(n)
      BY <1>0, <1>1, <1>2 DEF Stage, Pause, Resume
    <2>2. UNCHANGED [m \in Messages |-> Stage(m)]
      BY <2>1
    <2>3. Outbound!Pause \/ Outbound!Resume
      BY <1>0, <1>2, <2>2 DEF Outbound!Pause, Outbound!Resume, Pause, Resume, CampType
    <2>. QED BY <2>3 DEF Promised, Outbound!Next
  <1>3. CASE Stop
    <2>. DEFINE S == {n \in Messages : Stage(n) = "waiting" /\ Stage(n)' = "ended"}
    <2>1. ASSUME NEW n \in Messages PROVE Stage(n)' = IF n \in S THEN "ended" ELSE Stage(n)
      <3>1. \/ msg'[n] = msg[n]
            \/ msg[n].status \in {"queued", "retrying"} /\ msg'[n].status = "cancelled"
        BY <1>0, <1>3 DEF Stop, MsgType
      <3>2. CASE msg'[n] = msg[n]
        <4>1. Stage(n)' = Stage(n)
          BY <1>0, <1>1, <3>2 DEF Stage
        <4>. QED BY <4>1
      <3>3. CASE msg[n].status \in {"queued", "retrying"} /\ msg'[n].status = "cancelled"
        <4>1. \/ Stage(n)' = Stage(n)
              \/ Stage(n) = "waiting" /\ Stage(n)' = "ended"
          BY <1>0, <1>1, <3>3 DEF Stage
        <4>. QED BY <4>1
      <3>. QED BY <3>1, <3>2, <3>3
    <2>2. S \in SUBSET {n \in Messages : Stage(n) = "waiting"}
      OBVIOUS
    <2>3. camp.status \in {"running", "paused"} /\ camp'.status = "stopped"
      BY <1>0, <1>3 DEF Stop, CampType
    <2>. HIDE DEF S
    <2>4. Outbound!Stop
      BY <2>1, <2>2, <2>3 DEF Outbound!Stop
    <2>. QED BY <2>4 DEF Promised, Outbound!Next
  <1>. QED BY <1>2, <1>3

LEMMA StepPromised ==
    ASSUME Messages # {}, Alone, PromiseInv, PromiseInv', [Next]_vars
    PROVE  Promised
  <1>1. CASE UNCHANGED vars
    <2>1. \A n \in Messages : Stage(n)' = Stage(n)
      BY <1>1 DEF vars, Stage, Cleared
    <2>. QED BY <1>1, <2>1, StageStays DEF vars
  <1>2. \A w \in Workers : ~Crash(w)
    BY SendAssumption DEF Crash, Alone, PromiseInv, OnceInv, TypeOK
  <1>. QED
    BY <1>1, <1>2, LoadPromised, SendStepPromised, ReceiptPromised, OperatorPromised DEF Next

\* One worker's claims, sweeps, retries, deferrals, late receipts and slow polls
\* amount to OutboundMessage: nothing is cleared unless the campaign runs, taken
\* twice, or taken after it ended.
THEOREM KeepsPromiseHolds ==
    ASSUME Messages # {}, Alone
    PROVE  Spec => KeepsPromise
  <1>1. Init => Outbound!Init
    <2>. SUFFICES ASSUME Init PROVE Outbound!Init
      OBVIOUS
    <2>1. \A m \in Messages : ~Cleared(m) /\ accepted[m] = 0 /\ msg[m].status = "queued"
      BY DEF Init, Cleared, Idle
    <2>2. \A m \in Messages : Stage(m) = "waiting"
      BY <2>1 DEF Stage
    <2>. QED BY <2>2 DEF Init, Outbound!Init
  <1>2. Init => IdIsTaken
    BY DEF Init, IdIsTaken, Idle
  <1>3. TypeOK /\ TypeOK' /\ IdIsTaken /\ [Next]_vars => IdIsTaken'
    BY IdIsTakenKept
  <1>4. Spec => []PromiseInv
    BY <1>2, <1>3, OnceInvariant, PTL DEF Spec, PromiseInv
  <1>5. PromiseInv /\ PromiseInv' /\ [Next]_vars
          => [Outbound!Next]_<<[m \in Messages |-> Stage(m)], camp.status>>
    BY StepPromised DEF Promised
  <1>. QED BY <1>1, <1>4, <1>5, PTL DEF Spec, KeepsPromise, Outbound!Spec

-----------------------------------------------------------------------------
(* The campaign's counter *)

\* What the counter counts, and what a worker has loaded of it.
Ids == {m \in Messages : msg[m].pid # 0}

Loaded(w) == wk[w].pc \in {"dispatch", "record"}

LoadedInv == /\ SentIsCounted
             /\ \A w \in Workers : Loaded(w) => wk[w].sent = camp.sent

\* A step that gives no id and leaves the counter, with the only worker's.
LEMMA CountFrame ==
    ASSUME LoadedInv, camp'.sent = camp.sent,
           \A m \in Messages : msg'[m].pid = msg[m].pid,
           \A w \in Workers : Loaded(w)' => wk'[w].sent = camp.sent
    PROVE  LoadedInv'
  <1>1. Ids' = Ids
    BY DEF Ids
  <1>. QED BY <1>1 DEF LoadedInv, SentIsCounted, Ids

LEMMA LoadedKept ==
    ASSUME Messages # {}, Alone, OnceInv, LoadedInv, [Next]_vars
    PROVE  LoadedInv'
  <1>0. /\ wk \in [Workers -> WorkerType] /\ msg \in [Messages -> MsgType]
        /\ camp \in CampType /\ Idle.pc = "idle"
        /\ \A w \in Workers : wk[w].m \in Messages
        /\ \A v, w \in Workers : v = w
        /\ \A w \in Workers : Loaded(w) => wk[w].sent = camp.sent
    BY DEF OnceInv, TypeOK, WorkerType, Idle, Alone, LoadedInv
  <1>1. CASE UNCHANGED vars
    BY <1>0, <1>1, CountFrame DEF vars, Loaded
  <1>2. ASSUME NEW w \in Workers, NEW m \in Messages,
               TakeTask(w, m) \/ SweepDue(w, m) \/ SweepStuck(w, m)
        PROVE  LoadedInv'
    <2>1. UNCHANGED <<msg, camp>>
      BY <1>2 DEF TakeTask, SweepDue, SweepStuck
    <2>2. wk' = wk \/ wk'[w].pc = "claim"
      <3>1. \A task \in BOOLEAN : Load(w, m, task) => wk' = wk \/ wk'[w].pc = "claim"
        BY DEF Load, OnceInv, TypeOK, Idle
      <3>. QED BY <1>2, <3>1 DEF TakeTask, SweepDue, SweepStuck
    <2>. QED BY <1>0, <2>1, <2>2, CountFrame DEF Loaded
  <1>3. ASSUME NEW w \in Workers, SendStep(w) \/ Crash(w)
        PROVE  LoadedInv'
    <2>. DEFINE m == wk[w].m
    <2>0. m \in Messages
      BY <1>0
    <2>1. CASE Held(w) \/ GateRefuses(w) \/ Deferred(w) \/ Blocked(w) \/ Retries(w)
               \/ GivesUp(w) \/ Crash(w)
      <3>1. camp' = camp /\ wk'[w].pc = "idle"
        BY <1>0, <2>1 DEF Held, GateRefuses, Deferred, Defer, Blocked, Retries, GivesUp,
           Crash, Finished
      <3>2. \A n \in Messages : msg'[n].pid = msg[n].pid
        BY <1>0, <2>0, <2>1 DEF Held, GateRefuses, Deferred, Defer, Blocked, Retries, GivesUp,
           Crash, MsgType
      <3>. QED BY <1>0, <3>1, <3>2, CountFrame DEF Loaded
    <2>2. CASE Claim(w)
      <3>1. camp' = camp /\ wk'[w].pc \in {"idle", "hold"}
        BY <1>0, <2>2 DEF Claim, Finished, WorkerType
      <3>2. \A n \in Messages : msg'[n].pid = msg[n].pid
        BY <1>0, <2>0, <2>2 DEF Claim, MsgType
      <3>. QED BY <1>0, <3>1, <3>2, CountFrame DEF Loaded
    <2>3. CASE GateAllows(w)
      <3>1. camp' = camp /\ msg' = msg /\ wk'[w].sent = camp.sent
        BY <1>0, <2>3 DEF GateAllows, WorkerType
      <3>. QED BY <1>0, <3>1, CountFrame
    <2>4. CASE Dispatch(w)
      <3>1. camp' = camp /\ msg' = msg /\ wk'[w].sent = wk[w].sent /\ Loaded(w)
        BY <1>0, <2>4 DEF Dispatch, WorkerType, Loaded
      <3>. QED BY <1>0, <3>1, CountFrame
    <2>5. CASE Accepted(w)
      <3>1. wk[w].pc = "record" /\ wk[w].pid # 0 /\ wk'[w].pc = "idle"
        BY <1>0, <2>5 DEF Accepted, Finished
      <3>2. msg[m].pid = 0 /\ m \notin Ids
        BY <2>0, <3>1 DEF OnceInv, ClaimHolds, TakenOnce, Open, Ids
      <3>3. camp'.sent = camp.sent + 1
        BY <1>0, <2>5, <3>1 DEF Accepted, CampType, Loaded
      <3>4. Ids' = Ids \union {m}
        BY <1>0, <2>0, <2>5, <3>1 DEF Accepted, Ids, MsgType
      <3>5. IsFiniteSet(Ids)
        BY FS_Subset, SendAssumption DEF Ids
      <3>6. Cardinality(Ids') = Cardinality(Ids) + 1
        BY <3>2, <3>4, <3>5, FS_AddElement
      <3>. QED BY <1>0, <3>1, <3>3, <3>6 DEF LoadedInv, SentIsCounted, Ids, Loaded
    <2>. QED BY <1>3, <2>1, <2>2, <2>3, <2>4, <2>5 DEF SendStep
  <1>4. CASE \/ \E m \in Messages :
                  \/ Reported(m) \/ PollAsk(m) \/ PollWrite(m) \/ RetryDue(m) \/ GrowsOld(m)
             \/ Pause \/ Resume \/ Stop
    <2>1. \A m \in Messages : msg'[m].pid = msg[m].pid
      BY <1>4, OnceOther DEF SendsStay
    <2>2. wk' = wk /\ camp'.sent = camp.sent
      BY <1>0, <1>4 DEF Reported, Receipt, Event, PollAsk, PollWrite, RetryDue, GrowsOld, Pause, Resume, Stop,
         CampType
    <2>. QED BY <1>0, <2>1, <2>2, CountFrame DEF Loaded
  <1>. QED BY <1>1, <1>2, <1>3, <1>4 DEF Next

\* With one worker, messages_sent is the number of messages that have the
\* provider's id: nothing that comes between the load of the counter and its
\* write changes it.
THEOREM SentIsCountedHolds ==
    ASSUME Messages # {}, Alone
    PROVE  Spec => []SentIsCounted
  <1>1. Init => LoadedInv
    <2>. SUFFICES ASSUME Init PROVE LoadedInv
      OBVIOUS
    <2>1. Ids = {}
      BY DEF Init, Ids
    <2>2. Cardinality(Ids) = 0
      BY <2>1, FS_EmptySet
    <2>. QED BY <2>2 DEF Init, LoadedInv, SentIsCounted, Ids, Loaded, Idle
  <1>2. OnceInv /\ LoadedInv /\ [Next]_vars => LoadedInv'
    BY LoadedKept
  <1>3. LoadedInv => SentIsCounted
    BY DEF LoadedInv
  <1>. QED BY <1>1, <1>2, <1>3, OnceInvariant, PTL DEF Spec

\* A worker that has the answer of the provider writes at most what was taken.
HonestInv ==
    /\ CountIsHonest
    /\ \A w \in Workers : Loaded(w) =>
         /\ wk[w].sent <= Cardinality(Acceptances)
         /\ wk[w].pc = "record" /\ wk[w].pid # 0
              => wk[w].sent + 1 <= Cardinality(Acceptances)

IdleBlank == \A w \in Workers : wk[w].pc # "record" => wk[w].pid = 0

LEMMA AcceptancesFinite == IsFiniteSet(Acceptances) /\ Cardinality(Acceptances) \in Nat
  <1>1. IsFiniteSet(1..MaxAccepted)
    BY FS_Interval, SendAssumption
  <1>2. IsFiniteSet(Messages \X (1..MaxAccepted))
    BY <1>1, FS_Product, SendAssumption
  <1>. QED BY <1>2, FS_Subset, FS_CardinalityType DEF Acceptances

\* A step of one worker that is not an acceptance.
LEMMA HonestFrame ==
    ASSUME TypeOK, HonestInv, accepted' = accepted, NEW w \in Workers,
           \A v \in Workers \ {w} : wk'[v] = wk[v],
           Loaded(w)' => /\ wk'[w].sent <= Cardinality(Acceptances)
                         /\ wk'[w].pid # 0 => Loaded(w) /\ wk'[w] = wk[w],
           camp'.sent <= Cardinality(Acceptances)
    PROVE  HonestInv'
  <1>1. Acceptances' = Acceptances
    BY DEF Acceptances
  <1>2. CountIsHonest'
    BY <1>1 DEF CountIsHonest
  <1>3. ASSUME NEW v \in Workers, Loaded(v)'
        PROVE  /\ wk'[v].sent <= Cardinality(Acceptances')
               /\ wk'[v].pc = "record" /\ wk'[v].pid # 0
                    => wk'[v].sent + 1 <= Cardinality(Acceptances')
    BY <1>1, <1>3 DEF HonestInv, Loaded
  <1>. QED BY <1>2, <1>3 DEF HonestInv

LEMMA HonestKept ==
    ASSUME Messages # {}, TypeOK, IdleBlank, HonestInv, [Next]_vars
    PROVE  HonestInv'
  <1>0. /\ wk \in [Workers -> WorkerType] /\ camp \in CampType
        /\ Idle.pc = "idle" /\ Idle.pid = 0 /\ Idle.sent = 0
        /\ accepted \in [Messages -> 0..MaxAccepted]
        /\ \A w \in Workers : wk[w].m \in Messages
        /\ camp.sent <= Cardinality(Acceptances)
        /\ \A w \in Workers : Loaded(w) => wk[w].sent <= Cardinality(Acceptances)
    BY DEF TypeOK, WorkerType, Idle, HonestInv, CountIsHonest
  <1>1. CASE UNCHANGED <<wk, accepted>> /\ camp'.sent = camp.sent
    BY <1>1 DEF HonestInv, CountIsHonest, Acceptances, Loaded
  <1>2. ASSUME NEW w \in Workers, NEW m \in Messages,
               TakeTask(w, m) \/ SweepDue(w, m) \/ SweepStuck(w, m)
        PROVE  HonestInv'
    <2>1. UNCHANGED <<accepted, camp>>
      BY <1>2 DEF TakeTask, SweepDue, SweepStuck
    <2>2. CASE wk' = wk
      BY <1>1, <2>1, <2>2
    <2>3. CASE wk'[w].pc = "claim" /\ \A v \in Workers \ {w} : wk'[v] = wk[v]
      BY <1>0, <2>1, <2>3, HonestFrame DEF Loaded
    <2>4. \A task \in BOOLEAN : Load(w, m, task) =>
            wk' = wk \/ (wk'[w].pc = "claim" /\ \A v \in Workers \ {w} : wk'[v] = wk[v])
      BY <1>0 DEF Load, Idle
    <2>. QED BY <1>2, <2>2, <2>3, <2>4 DEF TakeTask, SweepDue, SweepStuck
  <1>3. ASSUME NEW w \in Workers, SendStep(w) \/ Crash(w)
        PROVE  HonestInv'
    <2>. DEFINE m == wk[w].m
    <2>0. m \in Messages
      BY <1>0
    <2>1. CASE Held(w) \/ GateRefuses(w) \/ Deferred(w) \/ Blocked(w) \/ Retries(w)
               \/ GivesUp(w) \/ Crash(w)
      <3>1. camp' = camp /\ accepted' = accepted /\ wk' = [wk EXCEPT ![w] = Idle]
        BY <2>1 DEF Held, GateRefuses, Deferred, Defer, Blocked, Retries, GivesUp,
           Crash, Finished
      <3>. QED BY <1>0, <3>1, HonestFrame DEF Loaded
    <2>2. CASE Claim(w)
      <3>1. /\ camp' = camp /\ accepted' = accepted /\ wk'[w].pc \in {"idle", "hold"}
            /\ \A v \in Workers \ {w} : wk'[v] = wk[v]
        BY <1>0, <2>2 DEF Claim, Finished, WorkerType
      <3>. QED BY <1>0, <3>1, HonestFrame DEF Loaded
    <2>3. CASE GateAllows(w)
      <3>1. /\ camp' = camp /\ accepted' = accepted /\ wk'[w].sent = camp.sent
            /\ wk'[w].pid = 0
            /\ \A v \in Workers \ {w} : wk'[v] = wk[v]
        BY <1>0, <2>3 DEF GateAllows, WorkerType, IdleBlank
      <3>. QED BY <1>0, <3>1, HonestFrame
    <2>4. CASE Dispatch(w) /\ accepted' = accepted
      <3>1. camp' = camp /\ wk' = [wk EXCEPT ![w].pc = "record"] /\ Loaded(w)
            /\ wk[w].pid = 0
        BY <1>0, <2>0, <2>4 DEF Dispatch, Loaded, IdleBlank
      <3>2. /\ wk'[w].sent = wk[w].sent /\ wk'[w].pid = 0
            /\ \A v \in Workers \ {w} : wk'[v] = wk[v]
        BY <1>0, <3>1 DEF WorkerType
      <3>. QED BY <1>0, <2>4, <3>1, <3>2, HonestFrame
    <2>5. CASE Dispatch(w) /\ accepted' # accepted
      <3>1. /\ camp' = camp /\ accepted' = [accepted EXCEPT ![m] = @ + 1] /\ Loaded(w)
            /\ accepted[m] < MaxAccepted
        BY <2>5 DEF Dispatch, Loaded
      <3>2. /\ wk'[w].sent = wk[w].sent
            /\ \A v \in Workers \ {w} : wk'[v] = wk[v]
        BY <1>0, <2>5 DEF Dispatch, WorkerType
      <3>. DEFINE a == <<m, accepted[m] + 1>>
      <3>3. a \notin Acceptances
        BY <1>0, <2>0 DEF Acceptances
      <3>4. Acceptances' = Acceptances \union {a}
        <4>1. \A n \in Messages : accepted'[n] = IF n = m THEN accepted[m] + 1 ELSE accepted[n]
          BY <1>0, <2>0, <3>1
        <4>2. \A n \in Messages, k \in 1..MaxAccepted :
                k <= accepted'[n] <=> k <= accepted[n] \/ <<n, k>> = a
          BY <1>0, <2>0, <3>1, <4>1, SendAssumption
        <4>3. a \in Messages \X (1..MaxAccepted)
          BY <1>0, <2>0, <3>1, SendAssumption
        <4>. QED BY <4>2, <4>3 DEF Acceptances
      <3>5. Cardinality(Acceptances') = Cardinality(Acceptances) + 1
        BY <3>3, <3>4, AcceptancesFinite, FS_AddElement
      <3>6. \A v \in Workers : wk[v].sent \in Nat
        BY <1>0 DEF WorkerType
      <3>7. CountIsHonest'
        BY <1>0, <3>1, <3>5, AcceptancesFinite DEF CountIsHonest, CampType
      <3>8. ASSUME NEW v \in Workers, Loaded(v)'
            PROVE  /\ wk'[v].sent <= Cardinality(Acceptances')
                   /\ wk'[v].sent + 1 <= Cardinality(Acceptances')
        <4>1. Loaded(v) /\ wk'[v].sent = wk[v].sent
          BY <3>1, <3>2, <3>8 DEF Loaded
        <4>. QED BY <1>0, <3>5, <3>6, <4>1, AcceptancesFinite
      <3>. QED BY <3>7, <3>8 DEF HonestInv
    <2>6. CASE Accepted(w)
      <3>1. /\ wk[w].pc = "record" /\ wk[w].pid # 0 /\ wk' = [wk EXCEPT ![w] = Idle]
            /\ accepted' = accepted
        BY <2>6 DEF Accepted, Finished
      <3>2. camp'.sent = wk[w].sent + 1
        BY <1>0, <2>6 DEF Accepted, CampType
      <3>3. camp'.sent <= Cardinality(Acceptances)
        BY <3>1, <3>2 DEF HonestInv, Loaded
      <3>. QED BY <1>0, <3>1, <3>3, HonestFrame DEF Loaded
    <2>. QED BY <1>3, <2>1, <2>2, <2>3, <2>4, <2>5, <2>6 DEF SendStep
  <1>4. CASE \/ \E m \in Messages :
                  \/ Reported(m) \/ PollAsk(m) \/ PollWrite(m) \/ RetryDue(m) \/ GrowsOld(m)
             \/ Pause \/ Resume \/ Stop
    <2>1. UNCHANGED <<wk, accepted>> /\ camp'.sent = camp.sent
      BY <1>0, <1>4 DEF Reported, Receipt, Event, PollAsk, PollWrite, RetryDue, GrowsOld, Pause, Resume, Stop,
         CampType
    <2>. QED BY <1>1, <2>1
  <1>5. CASE UNCHANGED vars
    BY <1>1, <1>5 DEF vars
  <1>. QED BY <1>2, <1>3, <1>4, <1>5 DEF Next

\* Before the provider's answer a worker has no id.
LEMMA IdleBlankKept ==
    ASSUME Messages # {}, TypeOK, IdleBlank, [Next]_vars
    PROVE  IdleBlank'
  <1>0. wk \in [Workers -> WorkerType] /\ Idle.pc = "idle" /\ Idle.pid = 0
    BY DEF TypeOK, Idle
  <1>1. CASE wk' = wk
    BY <1>1 DEF IdleBlank
  <1>2. ASSUME NEW w \in Workers, NEW m \in Messages,
               TakeTask(w, m) \/ SweepDue(w, m) \/ SweepStuck(w, m)
        PROVE  IdleBlank'
    <2>1. \A task \in BOOLEAN : Load(w, m, task) => IdleBlank'
      BY <1>0 DEF Load, Idle, IdleBlank
    <2>. QED BY <1>2, <2>1 DEF TakeTask, SweepDue, SweepStuck
  <1>3. ASSUME NEW w \in Workers, SendStep(w) \/ Crash(w)
        PROVE  IdleBlank'
    <2>1. CASE wk' = [wk EXCEPT ![w] = Idle]
      BY <1>0, <2>1 DEF IdleBlank
    <2>2. CASE Claim(w) \/ GateAllows(w) \/ Dispatch(w)
      <3>1. \A v \in Workers \ {w} : wk'[v] = wk[v]
        BY <1>0, <2>2 DEF Claim, GateAllows, Dispatch, Finished
      <3>2. wk'[w].pc = "record" \/ wk'[w].pid = 0
        BY <1>0, <2>2 DEF Claim, GateAllows, Dispatch, Finished, IdleBlank, WorkerType
      <3>. QED BY <1>0, <3>1, <3>2 DEF IdleBlank
    <2>. QED BY <1>3, <2>1, <2>2 DEF SendStep, Held, GateRefuses, Deferred, Defer, Blocked,
                Accepted, Retries, GivesUp, Crash, Finished
  <1>4. CASE \/ \E m \in Messages :
                  \/ Reported(m) \/ PollAsk(m) \/ PollWrite(m) \/ RetryDue(m) \/ GrowsOld(m)
             \/ Pause \/ Resume \/ Stop \/ UNCHANGED vars
    BY <1>1, <1>4 DEF Reported, Receipt, Event, PollAsk, PollWrite, RetryDue, GrowsOld, Pause, Resume, Stop, vars
  <1>. QED BY <1>2, <1>3, <1>4 DEF Next

\* A campaign never reports more sent messages than the provider accepted, for
\* any number of workers that overwrite each other's counter, die, or never
\* hear the provider's answer.
THEOREM CountIsHonestHolds ==
    ASSUME Messages # {}
    PROVE  Spec => []CountIsHonest
  <1>1. Init => IdleBlank /\ HonestInv
    <2>. SUFFICES ASSUME Init PROVE IdleBlank /\ HonestInv
      OBVIOUS
    <2>1. 0 <= Cardinality(Acceptances)
      BY AcceptancesFinite
    <2>. QED BY <2>1 DEF Init, IdleBlank, HonestInv, CountIsHonest, Loaded, Idle
  <1>2. TypeOK /\ IdleBlank /\ HonestInv /\ [Next]_vars => IdleBlank' /\ HonestInv'
    BY HonestKept, IdleBlankKept
  <1>3. HonestInv => CountIsHonest
    BY DEF HonestInv
  <1>. QED BY <1>1, <1>2, <1>3, TypeCorrect, PTL DEF Spec

=============================================================================
