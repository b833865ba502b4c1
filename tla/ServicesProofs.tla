--------------------------- MODULE ServicesProofs ---------------------------
(***************************************************************************)
(* Proofs about the services that the composition of MCServices puts side  *)
(* by side: each part's invariant holds of the whole, as a step of the     *)
(* whole is a step of one part and a stutter of the others.                *)
(***************************************************************************)
EXTENDS TimesProofs, RedeliveryProofs

-----------------------------------------------------------------------------
(* The inbox *)

\* A behaviour of the whole is one of each part.
LEMMA PartsStart ==
    Init => BInit /\ TInit /\ LInit /\ Agent!AInit
  BY DEF Init

LEMMA MailStep == [Next]_vars => [BNext]_bvars
  BY DEF Next, vars, In, bvars
LEMMA TextStep == [Next]_vars => [TNext]_tvars
  BY DEF Next, vars, In, tvars
LEMMA ThreadStep == [Next]_vars => [LNext]_lvars
  BY DEF Next, vars, In, ovars, hvars

\* The inbox of mails and of texts, and the runs a thread is filed under: for
\* any mails, texts, readers, handlers, sessions, runs, deaths and refusals.
THEOREM InboxHoldsAlways == Spec => []InboxHolds
  <1>1. Spec => BSpec /\ TSpec /\ LSpec
    BY PartsStart, MailStep, TextStep, ThreadStep, PTL DEF Spec, BSpec, TSpec, LSpec
  <1>. QED
    BY <1>1, MailAnsweredOnceHolds, RepliesOnceHolds, TouchesHoldAlways, PTL DEF InboxHolds

-----------------------------------------------------------------------------
(* The agent's cards *)

\* The card that a turn adds is a fresh one.
LEMMA NextIsFresh == ASSUME Agent!Fresh # {} PROVE Agent!NextCard \in Agent!Fresh
  <1>1. Agent!Fresh \subseteq Nat
    BY CardsAssumption DEF Agent!Fresh
  <1>2. \E c \in Agent!Fresh : \A d \in Agent!Fresh : c <= d
    BY <1>1, Least
  <1>. QED BY <1>2 DEF Agent!NextCard

\* A turn that has a card to save has a call left, and a request that is under
\* way has a card.
CardRefs ==
    /\ \A t \in Turns : aturn[t].pc = "shown" => aturn[t].calls > 0
    /\ \A t \in Turns : aturn[t].card # 0 => aturn[t].pc = "shown"
    /\ \A q \in Requests : areq[q].pc = "idle" <=> areq[q].card = 0

\* What a turn is about to save has not been committed, and is its own; only
\* what was committed is asked about.
CardsApart ==
    /\ \A t \in Turns : aturn[t].card # 0 => acard[aturn[t].card] = "none"
    /\ \A t, u \in Turns : aturn[t].card # 0 /\ aturn[t].card = aturn[u].card => t = u
    /\ \A q \in Requests : areq[q].card # 0 => acard[areq[q].card] # "none"
    /\ \A c \in Cards : acard[c] = "none" => aran[c] = 0

\* As long as nothing overlaps, one turn runs and one request is about a card.
ApartInv ==
    ~aover =>
      /\ \A t, u \in Turns : aturn[t].pc \notin {"new", "end"} /\ aturn[u].pc \notin {"new", "end"} => t = u
      /\ \A p, q \in Requests : areq[p].card # 0 /\ areq[p].card = areq[q].card => p = q

\* The committed status of the card that a request is about.
Known(q) ==
    CASE areq[q].pc \in {"approve", "running", "cancel"} -> {"pending"}
      [] areq[q].pc = "ran" -> {"pending", "running"}
      [] areq[q].pc = "undo" -> {"done"}
      [] OTHER -> Agent!CardStatus
KnownInv == ~aover => \A q \in Requests : areq[q].card # 0 => acard[areq[q].card] \in Known(q)

\* A card's tool has not run before it is approved, and a card is undone once.
RanInv ==
    ~aover /\ adrop = 0 =>
      /\ \A c \in Cards : aran[c] <= 1
      /\ \A c \in Cards : aran[c] = 1 =>
            \/ acard[c] \in {"done", "failed", "undone"}
            \/ \E q \in Requests : areq[q].card = c /\ areq[q].pc = "ran"
UndoneInv ==
    ~aover => \A c \in Cards : aundone[c] <= 1 /\ (aundone[c] = 1 => acard[c] = "undone")

\* One card waits, or is about to be saved.
OneInv ==
    ~aover => /\ \A c, d \in Agent!Waiting : c = d
              /\ \A t \in Turns : aturn[t].card # 0 => Agent!Waiting = {}

CardsInv == Agent!ATypeOK /\ CardRefs /\ CardsApart /\ ApartInv /\ KnownInv /\ RanInv /\ UndoneInv /\ OneInv

LEMMA CardsInit == Agent!AInit => CardsInv
  <1>. SUFFICES ASSUME Agent!AInit PROVE CardsInv
    OBVIOUS
  <1>1. Agent!NewTurn \in Agent!TurnType /\ Agent!NoRequest \in Agent!RequestType
    BY CardsAssumption DEF Agent!NewTurn, Agent!NoRequest, Agent!TurnType, Agent!RequestType
  <1>2. aturn \in [Turns -> Agent!TurnType] /\ areq \in [Requests -> Agent!RequestType]
    BY <1>1 DEF Agent!AInit
  <1>3. acard \in [Cards -> Agent!CardStatus] /\ aran \in [Cards -> 0..2] /\ aundone \in [Cards -> 0..2]
    BY DEF Agent!AInit, Agent!CardStatus
  <1>4. ashown \subseteq Cards /\ adrop \in 0..MaxDropped
    BY CardsAssumption DEF Agent!AInit
  <1>5. aover \in BOOLEAN
    BY Zenon DEF Agent!AInit
  <1>6. /\ \A t \in Turns : aturn[t] = Agent!NewTurn
        /\ \A q \in Requests : areq[q] = Agent!NoRequest
        /\ \A c \in Cards : acard[c] = "none" /\ aran[c] = 0 /\ aundone[c] = 0
    BY DEF Agent!AInit
  <1>7. CardRefs /\ CardsApart /\ ApartInv /\ KnownInv /\ RanInv /\ UndoneInv
    BY <1>6 DEF CardRefs, CardsApart, ApartInv, KnownInv, RanInv, UndoneInv, Agent!NewTurn,
       Agent!NoRequest
  <1>8. OneInv
    BY <1>6 DEF OneInv, Agent!Waiting, Agent!NewTurn
  <1>. QED BY <1>2, <1>3, <1>4, <1>5, <1>7, <1>8 DEF CardsInv, Agent!ATypeOK

\* The steps of a turn that leave the cards alone.
LEMMA StreamKeeps ==
    ASSUME CardsInv, NEW t \in Turns, NEW turn \in Agent!TurnType,
           Agent!Stream(t, turn), turn.card = aturn[t].card,
           turn.card # 0 => turn.pc = "shown", turn.pc # "shown",
           aover' \in BOOLEAN, aover => aover',
           \/ aturn[t].pc \notin {"new", "end"}
           \/ turn.pc = "end"
           \/ ~aover' => \A u \in Turns : aturn[u].pc \in {"new", "end"}
    PROVE  CardsInv'
  <1>. USE DEF CardsInv, Agent!ATypeOK
  <1>1. \A u \in Turns : aturn'[u] = IF u = t THEN turn ELSE aturn[u]
    BY DEF Agent!Stream
  <1>2. aturn' \in [Turns -> Agent!TurnType]
    BY DEF Agent!Stream
  <1>3. UNCHANGED <<acard, areq, aran, aundone, ashown, adrop>>
    BY DEF Agent!Stream
  <1>4. \A u \in Turns : aturn'[u].card # 0 => aturn'[u].card = aturn[u].card /\ u # t
    BY <1>1
  <1>5. CardRefs' /\ CardsApart'
    BY <1>1, <1>3, <1>4 DEF CardRefs, CardsApart
  <1>6. ApartInv'
    BY <1>1, <1>3 DEF ApartInv
  <1>7. KnownInv' /\ RanInv' /\ UndoneInv'
    BY <1>3 DEF KnownInv, Known, RanInv, UndoneInv
  <1>8. OneInv'
    BY <1>3, <1>4 DEF OneInv, Agent!Waiting
  <1>. QED BY <1>2, <1>3, <1>5, <1>6, <1>7, <1>8

LEMMA TurnKeeps ==
    ASSUME CardsInv, NEW t \in Turns,
           Agent!BeginTurn(t) \/ Agent!TurnStep(t) \/ Agent!DropTurn(t)
    PROVE  CardsInv'
  <1>. USE DEF CardsInv, Agent!ATypeOK
  <1>t. aturn[t] \in Agent!TurnType
    OBVIOUS
  <1>c. aturn[t].pc # "shown" => aturn[t].card = 0
    BY DEF CardRefs
  <1>1. CASE Agent!BeginTurn(t)
    <2>1. PICK pc \in {"ask", "end"} : Agent!Stream(t, [aturn[t] EXCEPT !.pc = pc])
      BY <1>1 DEF Agent!BeginTurn
    <2>2. [aturn[t] EXCEPT !.pc = pc] \in Agent!TurnType
      BY <1>t DEF Agent!TurnType
    <2>3. aturn[t].pc = "new" /\ aover' \in BOOLEAN /\ (aover => aover')
      BY <1>1 DEF Agent!BeginTurn
    <2>4. ~aover' => \A u \in Turns : aturn[u].pc \in {"new", "end"}
      BY <1>1 DEF Agent!BeginTurn
    <2>5. LET turn == [aturn[t] EXCEPT !.pc = pc]
          IN turn.card = aturn[t].card /\ turn.card = 0 /\ turn.pc # "shown"
      BY <1>t, <1>c, <2>3 DEF Agent!TurnType
    <2>. QED BY <2>1, <2>2, <2>3, <2>4, <2>5, StreamKeeps
  <1>2. ASSUME NEW turn \in Agent!TurnType, Agent!Stream(t, turn), turn.card = 0, aturn[t].card = 0,
               turn.pc # "shown", aturn[t].pc \notin {"new", "end"}, UNCHANGED aover
        PROVE  CardsInv'
    BY <1>2, StreamKeeps
  <1>3. CASE Agent!Ask(t)
    <2>1. Agent!Ended(t) \in Agent!TurnType /\ Agent!Ended(t).card = 0 /\ Agent!Ended(t).pc = "end"
      BY <1>t, <1>c, <1>3 DEF Agent!Ended, Agent!TurnType, Agent!Ask
    <2>2. ASSUME NEW n \in 1..MaxCalls, aturn[t].steps < MaxSteps
          PROVE  LET turn == [aturn[t] EXCEPT !.pc = "calls", !.calls = n, !.steps = @ + 1]
                 IN  turn \in Agent!TurnType /\ turn.card = 0 /\ turn.pc = "calls"
      <3>1. n \in 0..MaxCalls /\ aturn[t].steps + 1 \in 0..MaxSteps /\ aturn[t].pc = "ask"
        <4>1. aturn[t].steps \in 0..MaxSteps /\ aturn[t].pc = "ask"
          BY <1>t, <1>3 DEF Agent!TurnType, Agent!Ask
        <4>. QED BY <4>1, <2>2, CardsAssumption
      <3>. QED BY <1>t, <1>c, <3>1 DEF Agent!TurnType
    <2>. QED BY <1>2, <1>3, <1>c, <2>1, <2>2 DEF Agent!Ask
  <1>4. CASE Agent!CallSafe(t)
    <2>1. LET turn == [aturn[t] EXCEPT !.calls = @ - 1]
          IN  turn \in Agent!TurnType /\ turn.card = 0 /\ turn.pc = "calls"
      BY <1>t, <1>c, <1>4, CardsAssumption DEF Agent!TurnType, Agent!CallSafe
    <2>. QED BY <1>2, <1>4, <1>c, <2>1 DEF Agent!CallSafe
  <1>5. CASE Agent!AfterCalls(t)
    <2>1. ASSUME NEW pc \in {"end", "ask"}
          PROVE  LET turn == [aturn[t] EXCEPT !.pc = pc]
                 IN  turn \in Agent!TurnType /\ turn.card = 0 /\ turn.pc = pc
      BY <1>t, <1>c, <1>5 DEF Agent!TurnType, Agent!AfterCalls
    <2>2. (IF aturn[t].waits \/ aturn[t].steps >= MaxSteps THEN "end" ELSE "ask") \in {"end", "ask"}
      OBVIOUS
    <2>. QED BY <1>2, <1>5, <1>c, <2>1, <2>2 DEF Agent!AfterCalls
  <1>6. CASE Agent!QueueCard(t)
    <2>1. aturn[t].pc = "calls" /\ aturn[t].calls > 0 /\ aturn[t].card = 0
          /\ UNCHANGED <<acard, areq, aran, aundone, adrop, aover>>
      BY <1>6, <1>c DEF Agent!QueueCard
    <2>2. PICK card : /\ aturn' = [aturn EXCEPT ![t] = [@ EXCEPT !.pc = "shown", !.waits = TRUE, !.card = card]]
                      /\ card # 0 => Agent!Waiting = {} /\ card \in Agent!Fresh
                      /\ ashown' \subseteq Cards
      <3>1. CASE Agent!Waiting # {}
        <4>1. [aturn[t] EXCEPT !.pc = "shown", !.waits = TRUE]
                = [aturn[t] EXCEPT !.pc = "shown", !.waits = TRUE, !.card = 0]
          BY <1>t, <2>1 DEF Agent!TurnType
        <4>2. aturn' = [aturn EXCEPT ![t] = [aturn[t] EXCEPT !.pc = "shown", !.waits = TRUE]]
              /\ ashown' = ashown \union Agent!Waiting
          BY <1>6, <3>1 DEF Agent!QueueCard
        <4>. QED BY <4>1, <4>2 DEF Agent!Waiting
      <3>2. CASE Agent!Waiting = {}
        <4>1. Agent!NextCard \in Agent!Fresh
          BY <1>6, <3>2, NextIsFresh DEF Agent!QueueCard
        <4>. QED BY <1>6, <3>2, <4>1 DEF Agent!QueueCard, Agent!Fresh
      <3>. QED BY <3>1, <3>2
    <2>3. card \in Cards \union {0} /\ (card # 0 => acard[card] = "none" /\ \A u \in Turns : aturn[u].card # card)
      BY <2>2 DEF Agent!Fresh
    <2>4. \A u \in Turns : aturn'[u] = IF u = t THEN [aturn[t] EXCEPT !.pc = "shown", !.waits = TRUE, !.card = card]
                                       ELSE aturn[u]
      BY <2>2
    <2>5. aturn' \in [Turns -> Agent!TurnType]
      BY <1>t, <2>2, <2>3 DEF Agent!TurnType
    <2>6. aturn'[t].pc = "shown" /\ aturn'[t].calls > 0 /\ aturn'[t].card = card
      BY <1>t, <2>1, <2>4 DEF Agent!TurnType
    <2>7. CardRefs' /\ CardsApart'
      BY <2>1, <2>3, <2>4, <2>6 DEF CardRefs, CardsApart
    <2>8. ApartInv'
      BY <2>1, <2>4 DEF ApartInv
    <2>9. KnownInv' /\ RanInv' /\ UndoneInv'
      BY <2>1 DEF KnownInv, Known, RanInv, UndoneInv
    <2>10. OneInv'
      BY <2>1, <2>2, <2>4, <2>6 DEF OneInv, Agent!Waiting
    <2>. QED BY <2>1, <2>2, <2>5, <2>7, <2>8, <2>9, <2>10
  <1>7. CASE Agent!SaveCard(t)
    <2>. DEFINE card == aturn[t].card
    <2>1. /\ aturn[t].pc = "shown" /\ aturn[t].calls > 0
          /\ acard' = [c \in Cards |-> IF c = card THEN "pending" ELSE acard[c]]
          /\ UNCHANGED <<areq, aran, aundone, ashown, adrop, aover>>
      BY <1>7 DEF Agent!SaveCard, CardRefs
    <2>2. \A u \in Turns : aturn'[u] = IF u = t THEN [aturn[t] EXCEPT !.pc = "calls", !.calls = aturn[t].calls - 1, !.card = 0]
                                       ELSE aturn[u]
      <3>1. aturn' = [aturn EXCEPT ![t] = [aturn[t] EXCEPT !.pc = "calls", !.calls = aturn[t].calls - 1, !.card = 0]]
        BY <1>7 DEF Agent!SaveCard
      <3>. QED BY <3>1
    <2>3. [aturn[t] EXCEPT !.pc = "calls", !.calls = aturn[t].calls - 1, !.card = 0] \in Agent!TurnType
      <3>1. aturn[t].calls - 1 \in 0..MaxCalls
        BY <1>t, <2>1, CardsAssumption DEF Agent!TurnType
      <3>. QED BY <1>t, <3>1, CardsAssumption DEF Agent!TurnType
    <2>4. aturn' \in [Turns -> Agent!TurnType] /\ acard' \in [Cards -> Agent!CardStatus]
      <3>1. aturn' \in [Turns -> Agent!TurnType]
        BY <1>7, <2>3 DEF Agent!SaveCard
      <3>2. acard' \in [Cards -> Agent!CardStatus]
        BY <2>1 DEF Agent!CardStatus
      <3>. QED BY <3>1, <3>2
    <2>5. aturn'[t].pc = "calls" /\ aturn'[t].card = 0
      BY <1>t, <2>2 DEF Agent!TurnType
    <2>6. \A c \in Cards : c # card => acard'[c] = acard[c]
      BY <2>1
    <2>7. card \in Cards => acard[card] = "none" /\ acard'[card] = "pending"
      BY <2>1, CardsAssumption DEF CardsApart
    <2>8. CardRefs'
      BY <2>1, <2>2, <2>5 DEF CardRefs
    <2>9. \A q \in Requests : areq[q].card # 0 => areq[q].card \in Cards /\ areq[q].card # card
      BY <2>7 DEF CardsApart, Agent!RequestType
    <2>10. CardsApart'
      <3>1. ASSUME NEW u \in Turns, aturn'[u].card # 0 PROVE aturn'[u] = aturn[u] /\ acard'[aturn[u].card] = "none"
        <4>1. u # t /\ aturn'[u] = aturn[u]
          BY <3>1, <2>2, <2>5
        <4>2. aturn[u].card \in Cards /\ aturn[u].card # card
          BY <3>1, <4>1, <2>1 DEF CardsApart, Agent!TurnType
        <4>. QED BY <4>1, <4>2, <2>6, <3>1 DEF CardsApart
      <3>2. \A u, v \in Turns : aturn'[u].card # 0 /\ aturn'[u].card = aturn'[v].card => u = v
        BY <3>1 DEF CardsApart
      <3>3. \A q \in Requests : areq'[q].card # 0 => acard'[areq'[q].card] # "none"
        BY <2>1, <2>6, <2>9 DEF CardsApart
      <3>4. \A c \in Cards : acard'[c] = "none" => aran'[c] = 0
        BY <2>1, <2>6, <2>7 DEF CardsApart
      <3>. QED BY <3>1, <3>2, <3>3, <3>4 DEF CardsApart
    <2>11. ApartInv'
      BY <2>1, <2>2, <2>5 DEF ApartInv
    <2>12. KnownInv'
      BY <2>1, <2>6, <2>9 DEF KnownInv, Known
    <2>13. RanInv'
      BY <2>1, <2>6, <2>7 DEF RanInv, CardsApart
    <2>14. UndoneInv'
      BY <2>1, <2>6, <2>7 DEF UndoneInv
    <2>15. OneInv'
      <3>. SUFFICES ASSUME ~aover PROVE OneInv'
        BY <2>1 DEF OneInv
      <3>1. \A u \in Turns : aturn'[u].card = 0
        BY <2>1, <2>2, <2>5 DEF ApartInv, CardRefs
      <3>2. CASE card = 0
        <4>1. Agent!Waiting' = Agent!Waiting
          BY <2>6, <3>2, CardsAssumption DEF Agent!Waiting
        <4>. QED BY <3>1, <4>1 DEF OneInv
      <3>3. CASE card # 0
        <4>1. Agent!Waiting = {}
          BY <3>3 DEF OneInv
        <4>2. Agent!Waiting' \subseteq {card}
          BY <4>1, <2>6 DEF Agent!Waiting
        <4>. QED BY <3>1, <4>2 DEF OneInv
      <3>. QED BY <3>2, <3>3
    <2>. QED BY <2>1, <2>4, <2>8, <2>10, <2>11, <2>12, <2>13, <2>14, <2>15
  <1>8. CASE Agent!DropTurn(t)
    <2>1. /\ adrop' = adrop + 1 /\ adrop < MaxDropped
          /\ UNCHANGED <<acard, areq, aran, aundone, ashown, aover>>
          /\ \A u \in Turns : aturn'[u] = IF u = t THEN [aturn[t] EXCEPT !.pc = "end", !.card = 0] ELSE aturn[u]
      BY <1>8 DEF Agent!DropTurn
    <2>2. [aturn[t] EXCEPT !.pc = "end", !.card = 0] \in Agent!TurnType
      BY <1>t DEF Agent!TurnType
    <2>3. aturn' \in [Turns -> Agent!TurnType] /\ adrop' \in 0..MaxDropped /\ adrop' # 0
      BY <1>8, <2>1, <2>2, CardsAssumption DEF Agent!DropTurn
    <2>4. aturn'[t].pc = "end" /\ aturn'[t].card = 0
      BY <1>t, <2>1 DEF Agent!TurnType
    <2>5. CardRefs' /\ CardsApart'
      BY <2>1, <2>4 DEF CardRefs, CardsApart
    <2>6. ApartInv' /\ KnownInv' /\ RanInv' /\ UndoneInv'
      BY <2>1, <2>3, <2>4 DEF ApartInv, KnownInv, Known, RanInv, UndoneInv
    <2>7. OneInv'
      BY <2>1, <2>4 DEF OneInv, Agent!Waiting
    <2>. QED BY <2>1, <2>3, <2>5, <2>6, <2>7
  <1>. QED BY <1>1, <1>3, <1>4, <1>5, <1>6, <1>7, <1>8 DEF Agent!TurnStep

\* A request that comes to its end, or goes on, about a card.
LEMMA RequestKeeps ==
    ASSUME CardsInv, NEW q \in Requests,
           \/ Agent!RequestStep(q) \/ Agent!DropRequest(q)
           \/ \E c \in Cards : Agent!Approve(q, c) \/ Agent!Cancel(q, c) \/ Agent!Undo(q, c)
    PROVE  CardsInv'
  <1>. USE DEF CardsInv, Agent!ATypeOK
  <1>. DEFINE card == areq[q].card
  <1>q. areq[q] \in Agent!RequestType
    OBVIOUS
  <1>n. Agent!NoRequest \in Agent!RequestType /\ Agent!NoRequest.card = 0 /\ Agent!NoRequest.pc = "idle"
    BY DEF Agent!NoRequest, Agent!RequestType
  <1>c. areq[q].pc # "idle" => card \in Cards /\ card # 0 /\ acard[card] # "none"
    BY <1>q DEF CardRefs, CardsApart, Agent!RequestType
  <1>0. ASSUME UNCHANGED <<aturn, aover>>, acard' \in [Cards -> Agent!CardStatus],
               aran' \in [Cards -> 0..2], aundone' \in [Cards -> 0..2], ashown' = ashown,
               adrop' \in 0..MaxDropped, areq' \in [Requests -> Agent!RequestType],
               areq[q].pc # "idle",
               \A p \in Requests : p # q => areq'[p] = areq[p],
               areq'[q].card \in {0, card}, areq'[q].card = 0 <=> areq'[q].pc = "idle",
               \A c \in Cards : c # card => acard'[c] = acard[c],
               acard'[card] \notin {"none"},
               acard'[card] = "pending" => acard[card] = "pending",
               \A c \in Cards : c # card => aran'[c] = aran[c],
               areq'[q].card # 0 /\ ~aover => acard'[card] \in Known(q)'
        PROVE  CardRefs' /\ CardsApart' /\ ApartInv' /\ KnownInv' /\ OneInv'
    <2>1. CardRefs'
      BY <1>0 DEF CardRefs
    <2>2. \A c \in Cards : acard'[c] = "none" => c # card /\ acard[c] = "none"
      BY <1>0
    <2>3. \A p \in Requests : areq'[p].card # 0 => areq'[p].card \in Cards /\ areq'[p].card = areq[p].card
                                                   /\ acard[areq[p].card] # "none"
      <3>. SUFFICES ASSUME NEW p \in Requests, areq'[p].card # 0
                    PROVE  areq'[p].card = areq[p].card
        BY DEF CardsApart, Agent!RequestType
      <3>. QED BY <1>0
    <2>4. \A t \in Turns : aturn[t].card # 0 => aturn[t].card \in Cards /\ acard'[aturn[t].card] = "none"
      <3>. SUFFICES ASSUME NEW t \in Turns, aturn[t].card # 0
                    PROVE  aturn[t].card \in Cards /\ aturn[t].card # card
        BY <1>0 DEF CardsApart
      <3>. QED BY <1>0, <1>c DEF CardsApart, Agent!TurnType
    <2>5. \A c \in Cards : aran'[c] = aran[c] \/ c = card
      BY <1>0
    <2>6. CardsApart'
      <3>1. \A p \in Requests : areq'[p].card # 0 => acard'[areq'[p].card] # "none"
        BY <1>0, <2>2, <2>3
      <3>2. \A c \in Cards : acard'[c] = "none" => aran'[c] = 0
        BY <2>2, <2>5 DEF CardsApart
      <3>. QED BY <1>0, <2>4, <3>1, <3>2 DEF CardsApart
    <2>7. ApartInv'
      BY <1>0, <2>3 DEF ApartInv
    <2>8. KnownInv'
      <3>. SUFFICES ASSUME ~aover, NEW p \in Requests, areq'[p].card # 0
                    PROVE  acard'[areq'[p].card] \in Known(p)'
        BY <1>0 DEF KnownInv
      <3>1. CASE p = q
        BY <1>0, <3>1
      <3>2. CASE p # q
        <4>1. areq'[p] = areq[p] /\ areq[p].card \in Cards /\ areq[p].card # card
          BY <1>0, <1>c, <2>3, <3>2 DEF ApartInv, CardRefs
        <4>2. acard[areq[p].card] \in Known(p) /\ acard'[areq[p].card] = acard[areq[p].card]
          BY <1>0, <4>1, <1>c DEF KnownInv, CardRefs
        <4>. QED BY <4>1, <4>2 DEF Known
      <3>. QED BY <3>1, <3>2
    <2>9. OneInv'
      <3>1. Agent!Waiting' \subseteq Agent!Waiting
        BY <1>0 DEF Agent!Waiting
      <3>. QED BY <1>0, <3>1 DEF OneInv
    <2>. QED BY <2>1, <2>6, <2>7, <2>8, <2>9
  <1>s. ASSUME NEW p \in Requests, p # q, areq[p].card = card, areq[q].pc # "idle" PROVE aover
    BY <1>s, <1>c DEF ApartInv
  <1>1. ASSUME NEW c \in Cards, NEW pc \in {"approve", "cancel", "undo"}, Agent!Reads(q, c, pc),
               acard[c] = IF pc = "undo" THEN "done" ELSE "pending"
        PROVE  CardsInv'
    <2>1. UNCHANGED <<acard, aturn, aran, aundone, ashown, adrop>>
      BY <1>1 DEF Agent!Reads
    <2>2. \A p \in Requests : areq'[p] = IF p = q THEN [pc |-> pc, card |-> c, holds |-> FALSE] ELSE areq[p]
      BY <1>1 DEF Agent!Reads
    <2>3. areq' \in [Requests -> Agent!RequestType]
      BY <1>1 DEF Agent!Reads, Agent!RequestType
    <2>4. aover' \in BOOLEAN /\ (~aover' => ~aover /\ \A p \in Requests : areq[p].card # c)
      BY <1>1 DEF Agent!Reads
    <2>5. areq'[q].pc = pc /\ areq'[q].card = c /\ c # 0
      BY <2>2, CardsAssumption
    <2>6. CardRefs'
      BY <2>1, <2>2, <2>5 DEF CardRefs
    <2>7. CardsApart'
      BY <1>1, <2>1, <2>2, <2>5 DEF CardsApart
    <2>8. ApartInv'
      BY <2>1, <2>2, <2>4, <2>5 DEF ApartInv
    <2>9. KnownInv'
      BY <1>1, <2>1, <2>2, <2>4, <2>5 DEF KnownInv, Known
    <2>10. RanInv' /\ UndoneInv'
      <3>1. UndoneInv'
        BY <2>1, <2>4 DEF UndoneInv
      <3>2. areq[q].pc = "idle"
        BY <1>1 DEF Agent!Reads
      <3>3. \A d \in Cards : (\E p \in Requests : areq[p].card = d /\ areq[p].pc = "ran")
                             => \E p \in Requests : areq'[p].card = d /\ areq'[p].pc = "ran"
        BY <2>2, <3>2
      <3>. QED BY <2>1, <2>4, <3>1, <3>3 DEF RanInv
    <2>11. OneInv'
      BY <2>1, <2>4 DEF OneInv, Agent!Waiting
    <2>. QED BY <2>1, <2>3, <2>4, <2>6, <2>7, <2>8, <2>9, <2>10, <2>11
  <1>2. ASSUME NEW c \in Cards, Agent!Approve(q, c) \/ Agent!Cancel(q, c) \/ Agent!Undo(q, c) PROVE CardsInv'
    BY <1>1, <1>2 DEF Agent!Approve, Agent!Cancel, Agent!Undo
  <1>3. CASE Agent!Execute(q)
    <2>1. /\ areq[q].pc = "approve"
          /\ areq' = [areq EXCEPT ![q].pc = "running", ![q].holds = TRUE]
          /\ UNCHANGED <<acard, aturn, aran, aundone, ashown, adrop, aover>>
      BY <1>3 DEF Agent!Execute
    <2>2. areq' \in [Requests -> Agent!RequestType] /\ areq'[q].card = card /\ areq'[q].pc = "running"
      BY <1>q, <2>1 DEF Agent!RequestType
    <2>3. \A p \in Requests : p # q => areq'[p] = areq[p]
      BY <2>1
    <2>4. ~aover => acard[card] \in Known(q)'
      BY <1>c, <2>1, <2>2 DEF KnownInv, Known
    <2>5. CardRefs' /\ CardsApart' /\ ApartInv' /\ KnownInv' /\ OneInv'
      BY <1>0, <1>c, <2>1, <2>2, <2>3, <2>4
    <2>6. RanInv' /\ UndoneInv'
      BY <2>1, <2>2, <2>3 DEF RanInv, UndoneInv
    <2>. QED BY <2>1, <2>2, <2>5, <2>6
  <1>4. CASE Agent!RunTool(q)
    <2>1. /\ areq[q].pc = "running"
          /\ aran' = [aran EXCEPT ![card] = Agent!Up(@)]
          /\ UNCHANGED <<aturn, aundone, ashown, adrop, aover>>
      BY <1>4 DEF Agent!RunTool
    <2>2. PICK commits \in BOOLEAN :
            /\ acard' = IF commits THEN [acard EXCEPT ![card] = "running"] ELSE acard
            /\ areq' = [areq EXCEPT ![q].pc = "ran", ![q].holds = ~commits]
      BY <1>4 DEF Agent!RunTool
    <2>3. areq' \in [Requests -> Agent!RequestType] /\ areq'[q].card = card /\ areq'[q].pc = "ran"
      BY <1>q, <2>2 DEF Agent!RequestType
    <2>4. \A p \in Requests : p # q => areq'[p] = areq[p]
      BY <2>2
    <2>5. card \in Cards /\ card # 0 /\ acard[card] # "none"
      BY <1>c, <2>1
    <2>6. /\ acard' \in [Cards -> Agent!CardStatus] /\ acard'[card] \in {acard[card], "running"}
          /\ \A c \in Cards : c # card => acard'[c] = acard[c]
      BY <2>2, <2>5 DEF Agent!CardStatus
    <2>7. /\ aran' \in [Cards -> 0..2] /\ aran'[card] = Agent!Up(aran[card])
          /\ \A c \in Cards : c # card => aran'[c] = aran[c]
      BY <2>1, <2>5 DEF Agent!Up
    <2>8. ~aover => acard[card] = "pending" /\ acard'[card] \in Known(q)'
      BY <2>1, <2>3, <2>5, <2>6 DEF KnownInv, Known
    <2>9. CardRefs' /\ CardsApart' /\ ApartInv' /\ KnownInv' /\ OneInv'
      BY <1>0, <2>1, <2>3, <2>4, <2>5, <2>6, <2>7, <2>8
    <2>10. RanInv'
      <3>. SUFFICES ASSUME ~aover, adrop = 0 PROVE RanInv'
        BY <2>1 DEF RanInv
      <3>1. aran[card] = 0
        BY <1>s, <2>1, <2>5, <2>8 DEF RanInv
      <3>2. aran'[card] = 1
        BY <2>7, <3>1 DEF Agent!Up
      <3>3. \A c \in Cards : c # card => aran'[c] = aran[c] /\ acard'[c] = acard[c]
        BY <2>6, <2>7
      <3>. QED BY <2>3, <2>4, <3>2, <3>3 DEF RanInv
    <2>11. UndoneInv'
      BY <2>1, <2>5, <2>6, <2>8 DEF UndoneInv
    <2>. QED BY <2>1, <2>3, <2>6, <2>7, <2>9, <2>10, <2>11
  <1>5. ASSUME NEW st \in {"done", "failed", "cancelled", "undone"}, areq[q].pc # "idle",
               acard' = [acard EXCEPT ![card] = st], areq' = [areq EXCEPT ![q] = Agent!NoRequest],
               UNCHANGED <<aturn, aran, ashown, adrop, aover>>, aundone' \in [Cards -> 0..2],
               RanInv', UndoneInv'
        PROVE  CardsInv'
    <2>1. areq' \in [Requests -> Agent!RequestType] /\ areq'[q].card = 0 /\ areq'[q].pc = "idle"
      BY <1>n, <1>5
    <2>2. \A p \in Requests : p # q => areq'[p] = areq[p]
      BY <1>5
    <2>3. /\ acard' \in [Cards -> Agent!CardStatus] /\ acard'[card] = st
          /\ \A c \in Cards : c # card => acard'[c] = acard[c]
      BY <1>c, <1>5 DEF Agent!CardStatus
    <2>4. CardRefs' /\ CardsApart' /\ ApartInv' /\ KnownInv' /\ OneInv'
      BY <1>0, <1>5, <2>1, <2>2, <2>3
    <2>. QED BY <1>5, <2>1, <2>3, <2>4
  <1>6. ASSUME areq[q].pc # "idle", areq' = [areq EXCEPT ![q] = Agent!NoRequest],
               UNCHANGED <<aran, adrop, aover>>,
               \A c \in Cards : c # card => acard'[c] = acard[c],
               acard'[card] \in (IF areq[q].pc = "cancel" THEN {"cancelled"} ELSE {"done", "failed", "undone"})
        PROVE  RanInv'
    <2>. SUFFICES ASSUME ~aover, adrop = 0, NEW c \in Cards
                  PROVE  /\ aran'[c] <= 1
                         /\ aran'[c] = 1 => \/ acard'[c] \in {"done", "failed", "undone"}
                                            \/ \E p \in Requests : areq'[p].card = c /\ areq'[p].pc = "ran"
      BY <1>6 DEF RanInv
    <2>1. CASE c # card
      BY <1>6, <2>1, <1>n DEF RanInv
    <2>2. CASE c = card
      <3>1. areq[q].pc = "cancel" => aran[card] # 1
        BY <1>s, <1>c, <2>2 DEF RanInv, KnownInv, Known
      <3>. QED BY <1>6, <2>2, <3>1 DEF RanInv
    <2>. QED BY <2>1, <2>2
  <1>7. CASE Agent!ExecuteEnds(q) \/ Agent!CancelEnds(q)
    <2>1. areq[q].pc \in {"ran", "cancel"} /\ areq' = [areq EXCEPT ![q] = Agent!NoRequest]
          /\ UNCHANGED <<aturn, aran, aundone, ashown, adrop, aover>>
      BY <1>7 DEF Agent!ExecuteEnds, Agent!CancelEnds
    <2>2. PICK st \in {"done", "failed", "cancelled"} :
            acard' = [acard EXCEPT ![card] = st] /\ (st = "cancelled" <=> areq[q].pc = "cancel")
      BY <1>7 DEF Agent!ExecuteEnds, Agent!CancelEnds
    <2>3. acard'[card] = st /\ \A c \in Cards : c # card => acard'[c] = acard[c]
      BY <1>c, <2>1, <2>2
    <2>4. RanInv'
      BY <1>6, <2>1, <2>2, <2>3
    <2>5. ~aover => acard[card] # "undone"
      BY <1>c, <2>1 DEF KnownInv, Known
    <2>6. UndoneInv'
      BY <1>c, <2>1, <2>3, <2>5 DEF UndoneInv
    <2>. QED BY <1>5, <2>1, <2>2, <2>4, <2>6
  <1>8. CASE Agent!UndoEnds(q)
    <2>1. areq[q].pc = "undo" /\ areq' = [areq EXCEPT ![q] = Agent!NoRequest]
          /\ acard' = [acard EXCEPT ![card] = "undone"] /\ aundone' = [aundone EXCEPT ![card] = Agent!Up(@)]
          /\ UNCHANGED <<aturn, aran, ashown, adrop, aover>>
      BY <1>8 DEF Agent!UndoEnds
    <2>2. acard'[card] = "undone" /\ \A c \in Cards : c # card => acard'[c] = acard[c]
      BY <1>c, <2>1
    <2>3. /\ aundone' \in [Cards -> 0..2] /\ aundone'[card] = Agent!Up(aundone[card])
          /\ \A c \in Cards : c # card => aundone'[c] = aundone[c]
      BY <1>c, <2>1 DEF Agent!Up
    <2>4. RanInv'
      BY <1>6, <2>1, <2>2
    <2>5. ~aover => acard[card] = "done"
      BY <1>c, <2>1 DEF KnownInv, Known
    <2>6. UndoneInv'
      <3>. SUFFICES ASSUME ~aover PROVE UndoneInv'
        BY <2>1 DEF UndoneInv
      <3>1. aundone[card] = 0
        BY <1>c, <2>1, <2>5 DEF UndoneInv
      <3>2. aundone'[card] = 1
        BY <2>3, <3>1 DEF Agent!Up
      <3>. QED BY <2>2, <2>3, <3>2 DEF UndoneInv
    <2>. QED BY <1>5, <2>1, <2>3, <2>4, <2>6
  <1>9. CASE Agent!DropRequest(q)
    <2>1. /\ areq[q].pc # "idle" /\ adrop' = adrop + 1 /\ adrop < MaxDropped
          /\ areq' = [areq EXCEPT ![q] = Agent!NoRequest]
          /\ UNCHANGED <<acard, aturn, aran, aundone, ashown, aover>>
      BY <1>9 DEF Agent!DropRequest
    <2>2. adrop' \in 0..MaxDropped /\ adrop' # 0
      BY <2>1, CardsAssumption
    <2>3. areq' \in [Requests -> Agent!RequestType] /\ areq'[q].card = 0 /\ areq'[q].pc = "idle"
      BY <1>n, <2>1
    <2>4. \A p \in Requests : p # q => areq'[p] = areq[p]
      BY <2>1
    <2>5. CardRefs' /\ CardsApart' /\ ApartInv' /\ KnownInv' /\ OneInv'
      BY <1>0, <1>c, <2>1, <2>2, <2>3, <2>4
    <2>6. RanInv' /\ UndoneInv'
      BY <2>1, <2>2 DEF RanInv, UndoneInv
    <2>. QED BY <2>1, <2>2, <2>3, <2>5, <2>6
  <1>. QED
    BY <1>2, <1>3, <1>4, <1>7, <1>8, <1>9 DEF Agent!RequestStep

LEMMA CardsKept == CardsInv /\ [Agent!ANext]_avars => CardsInv'
  <1>. SUFFICES ASSUME CardsInv, [Agent!ANext]_avars PROVE CardsInv'
    OBVIOUS
  <1>1. CASE UNCHANGED avars
    BY <1>1
    DEF avars, CardsInv, Agent!ATypeOK, CardRefs, CardsApart, ApartInv, KnownInv, Known, RanInv,
        UndoneInv, OneInv, Agent!Waiting
  <1>2. CASE Agent!ANext
    BY <1>2, TurnKeeps, RequestKeeps DEF Agent!ANext
  <1>. QED BY <1>1, <1>2

LEMMA AgentCounts == \A S : Agent!Cardinality(S) = Cardinality(S)
  BY DEF Agent!Cardinality, Cardinality

LEMMA CardsFollow == CardsInv => Agent!CardsHold
  <1>. SUFFICES ASSUME CardsInv PROVE Agent!CardsHold
    OBVIOUS
  <1>1. Agent!RunsOnce
    <2>. SUFFICES ASSUME ~aover, adrop = 0, NEW c \in Cards
                  PROVE  aran[c] <= (IF acard[c] = "cancelled" THEN 0 ELSE 1)
      BY DEF Agent!RunsOnce
    <2>1. aran[c] \in 0..2 /\ aran[c] <= 1
      BY DEF CardsInv, Agent!ATypeOK, RanInv
    <2>2. acard[c] = "cancelled" => aran[c] # 1
      BY CardsAssumption DEF CardsInv, RanInv, KnownInv, Known
    <2>. QED BY <2>1, <2>2
  <1>2. Agent!UndoneOnce
    BY DEF CardsInv, UndoneInv, Agent!UndoneOnce
  <1>3. Agent!OneCardWaits
    <2>. SUFFICES ASSUME ~aover
                  PROVE  Cardinality(Agent!Waiting \union ({aturn[t].card : t \in Turns} \ {0})) <= 1
      BY AgentCounts DEF Agent!OneCardWaits
    <2>. DEFINE S == Agent!Waiting \union ({aturn[t].card : t \in Turns} \ {0})
    <2>1. \A c, d \in S : c = d
      BY DEF CardsInv, OneInv, ApartInv, CardRefs
    <2>. HIDE DEF S
    <2>2. S = {} => Cardinality(S) <= 1
      BY FS_EmptySet
    <2>3. ASSUME S # {} PROVE Cardinality(S) <= 1
      <3>1. PICK c : S = {c}
        BY <2>1, <2>3
      <3>. QED BY <3>1, FS_Singleton
    <2>. QED BY <2>2, <2>3 DEF S
  <1>. QED BY <1>1, <1>2, <1>3 DEF Agent!CardsHold, CardsInv

LEMMA AgentStep == [Next]_vars => [Agent!ANext]_avars
  BY DEF Next, vars, In, avars

\* The agent's cards: each is executed once and undone once, and one waits at
\* a time, for any turns, cards, requests, answers of the model and cuts.
THEOREM CardsHoldAlways == Spec => []CardsHold
  <1>1. Init => Agent!AInit
    BY DEF Init
  <1>2. CardsInv => CardsHold
    BY CardsFollow DEF CardsHold
  <1>. QED BY <1>1, <1>2, AgentStep, CardsInit, CardsKept, PTL DEF Spec

-----------------------------------------------------------------------------
(* The import of contacts *)

Row == [phone : Numbers \union {0}, email : Addresses \union {0}]
Person == [phone : Numbers \union {0, 1}, email : Addresses \union {0, 1}, alias : SUBSET Addresses]
TallyShape == [imported : Nat, merged : Nat, duplicates : Nat, invalid : Nat]
WorkShape == [on : BOOLEAN, row : 0..Rows, last : 0..Rows,
              seen : SUBSET ({"p", "e"} \X (Numbers \union Addresses \union {0})),
              crm : Seq(Person), added : SUBSET Nat, start : Nat, total : Nat,
              tally : TallyShape, ended : BOOLEAN]

ImportShape ==
    /\ xfile \in [rows : [1..Rows -> Row], skip : BOOLEAN]
    /\ xjob \in [status : {"queued", "running", "completed", "failed"}, processed : Nat,
                 tally : TallyShape]
    /\ xcrm \in Seq(Person) /\ xlist \subseteq DOMAIN xcrm /\ xcount \in Nat
    /\ xwork \in WorkShape /\ xedits \in Nat /\ xraced \in BOOLEAN

\* The list with what the job has added and not committed
Joined == xlist \union xwork.added

\* How the session stands to the job.
BatchInv ==
    /\ xwork.on => /\ xjob.status = "running" /\ Joined \subseteq DOMAIN xwork.crm
                   /\ DOMAIN xcrm \subseteq DOMAIN xwork.crm
    /\ ~xwork.on => ~xwork.ended
    /\ xwork.ended =>
          xwork.row = Rows /\ xwork.last = Rows /\ xwork.added = {} /\ xwork.crm = xcrm

Total(t) == t.imported + t.merged + t.duplicates + t.invalid
Unique(crm) ==
    \A c, d \in DOMAIN crm : c # d /\ crm[c].phone # 0 => crm[c].phone # crm[d].phone

TallyInv ==
    /\ Total(xjob.tally) = xjob.processed /\ Unique(xcrm)
    /\ xwork.on => Total(xwork.tally) = xwork.row /\ Unique(xwork.crm)

\* The count at the end is that at the start and what was added.
CachedInv ==
    ~xraced =>
      /\ xjob.status \in {"queued", "completed"} \/ xwork.ended => xcount = Cardinality(xlist)
      /\ xwork.on /\ ~xwork.ended =>
            /\ xwork.start + xwork.total = Cardinality(Joined)
            /\ xwork.total = 0 => xwork.added = {} /\ xcount = xwork.start

HasMail(crm, c, a) == a # 0 /\ (crm[c].email = a \/ a \in crm[c].alias)
HasPhone(crm, c, n) == n # 0 /\ crm[c].phone = n
Filled(i) == xfile.rows[i].phone # 0 \/ xfile.rows[i].email # 0

\* Row j had number n and went by its address to somebody with another number.
Astray(crm, c, j, n) ==
    /\ n # 0 /\ xfile.rows[j].phone = n
    /\ crm[c].phone \notin {0, n} /\ HasMail(crm, c, xfile.rows[j].email)

\* What becomes of row i among the people in S, after the rows before k.
Met(crm, S, i, k) ==
    LET r == xfile.rows[i] IN
    \E c \in S : \/ HasPhone(crm, c, r.phone) \/ HasMail(crm, c, r.email)
                 \/ xfile.skip /\ \E j \in 1..(k - 1) : Astray(crm, c, j, r.phone)

\* What a known key of row i stands for, after k rows.
KeyMet(crm, S, i, k) ==
    LET r == xfile.rows[i] IN
    \E c \in S : \/ HasPhone(crm, c, r.phone)
                 \/ r.phone = 0 /\ HasMail(crm, c, r.email)
                 \/ \E j \in 1..k : Astray(crm, c, j, r.phone)

ListedInv ==
    xedits = 0 =>
      /\ xwork.on =>
           /\ \A i \in 1..xwork.row : Filled(i) => Met(xwork.crm, Joined, i, i)
           /\ xfile.skip =>
                \A i \in 1..Rows : Filled(i) /\ Import!Key(xfile.rows[i]) \in xwork.seen =>
                    KeyMet(xwork.crm, Joined, i, xwork.row)
      /\ xjob.status = "completed" => \A i \in 1..Rows : Filled(i) => Met(xcrm, xlist, i, i)

\* What nobody loses: a number, an address, a further address.
Grows(old, new) ==
    /\ DOMAIN old \subseteq DOMAIN new
    /\ \A c \in DOMAIN old :
         /\ old[c].phone # 0 => new[c].phone = old[c].phone
         /\ old[c].email # 0 => new[c].email = old[c].email
         /\ old[c].alias \subseteq new[c].alias

LEMMA ImportCounts == \A S : Import!Cardinality(S) = Cardinality(S)
  BY DEF Import!Cardinality, Cardinality

LEMMA MetGrows ==
    ASSUME NEW old, NEW new, Grows(old, new), NEW S, S \subseteq DOMAIN old, NEW T, S \subseteq T,
           NEW i, NEW j \in Nat, NEW k \in Nat, j <= k
    PROVE  /\ Met(old, S, i, j) => Met(new, T, i, k)
           /\ KeyMet(old, S, i, j) => KeyMet(new, T, i, k)
  <1>1. \A c \in S : /\ c \in DOMAIN old /\ c \in T
                     /\ \A a : HasMail(old, c, a) => HasMail(new, c, a)
                     /\ \A n : HasPhone(old, c, n) => HasPhone(new, c, n)
                     /\ \A m, n : Astray(old, c, m, n) => Astray(new, c, m, n)
    BY DEF Grows, HasMail, HasPhone, Astray
  <1>2. 1..(j - 1) \subseteq 1..(k - 1) /\ 1..j \subseteq 1..k
    OBVIOUS
  <1>3. Met(old, S, i, j) => Met(new, T, i, k)
    BY <1>1, <1>2 DEF Met
  <1>4. KeyMet(old, S, i, j) => KeyMet(new, T, i, k)
    BY <1>1, <1>2 DEF KeyMet
  <1>. QED BY <1>3, <1>4

LEMMA FirstIs ==
    ASSUME NEW S, S \subseteq Nat \ {0}
    PROVE  /\ Import!First(S) = 0 <=> S = {}
           /\ S # {} => Import!First(S) \in S
  <1>1. S # {} => \E c \in S : \A d \in S : c <= d
    BY Least
  <1>. QED BY <1>1 DEF Import!First

\* Who is found has the number, or nobody has and it has the address.
LEMMA FoundHas ==
    ASSUME NEW crm \in Seq(Person), NEW r \in Row
    PROVE  LET c == Import!Existing(crm, r) IN
           /\ c = 0 => \A d \in DOMAIN crm : ~HasPhone(crm, d, r.phone)
           /\ c # 0 => /\ c \in DOMAIN crm
                       /\ \/ HasPhone(crm, c, r.phone)
                          \/ /\ \A d \in DOMAIN crm : ~HasPhone(crm, d, r.phone)
                             /\ HasMail(crm, c, r.email)
  <1>. DEFINE P == {c \in DOMAIN crm : r.phone # 0 /\ crm[c].phone = r.phone}
              E == {c \in DOMAIN crm : r.email # 0 /\ crm[c].email = r.email}
              A == {c \in DOMAIN crm : r.email # 0 /\ r.email \in crm[c].alias}
  <1>1. DOMAIN crm \subseteq Nat \ {0}
    OBVIOUS
  <1>2. P \subseteq Nat \ {0} /\ E \subseteq Nat \ {0} /\ A \subseteq Nat \ {0}
    BY <1>1
  <1>3. /\ Import!First(P) = 0 <=> P = {}
        /\ P # {} => Import!First(P) \in P
        /\ Import!First(E) = 0 <=> E = {}
        /\ E # {} => Import!First(E) \in E
        /\ Import!First(A) = 0 <=> A = {}
        /\ A # {} => Import!First(A) \in A
    BY <1>2, FirstIs
  <1>4. Import!Existing(crm, r) = IF Import!First(P) # 0 THEN Import!First(P) ELSE IF Import!First(E) # 0 THEN Import!First(E) ELSE Import!First(A)
    BY DEF Import!Existing
  <1>. QED BY <1>3, <1>4 DEF HasPhone, HasMail

\* A merge loses nothing, gives a number to nobody else's, and leaves the row
\* with the one it was merged into, but for a number.
LEMMA MergeKeeps ==
    ASSUME NEW crm \in Seq(Person), Unique(crm), NEW r \in Row, Import!Existing(crm, r) # 0
    PROVE  LET c == Import!Existing(crm, r)
               new == Import!MergedInto(crm, c, r)
           IN /\ c \in DOMAIN crm /\ new \in Seq(Person) /\ DOMAIN new = DOMAIN crm
              /\ Unique(new) /\ Grows(crm, new)
              /\ \/ HasPhone(new, c, r.phone)
                 \/ HasMail(new, c, r.email) /\ (r.phone # 0 => new[c].phone \notin {0, r.phone})
  <1>. DEFINE c == Import!Existing(crm, r)
              new == Import!MergedInto(crm, c, r)
              known == \E d \in DOMAIN crm : r.email \in crm[d].alias
              email == IF crm[c].email = 0 THEN r.email ELSE crm[c].email
              alias == IF r.email \in {0, email} \/ known THEN crm[c].alias ELSE crm[c].alias \union {r.email}
              p == [phone |-> IF crm[c].phone = 0 THEN r.phone ELSE crm[c].phone,
                    email |-> email, alias |-> alias]
  <1>1. c \in DOMAIN crm /\ (\/ HasPhone(crm, c, r.phone)
                             \/ /\ \A d \in DOMAIN crm : ~HasPhone(crm, d, r.phone)
                                /\ HasMail(crm, c, r.email))
    BY FoundHas
  <1>2. crm[c] \in Person
    BY <1>1
  <1>3. new = [crm EXCEPT ![c] = p]
    BY DEF Import!MergedInto
  <1>4. p \in Person
    BY <1>2 DEF Person, Row
  <1>5. new \in Seq(Person) /\ DOMAIN new = DOMAIN crm /\ new[c] = p
        /\ \A d \in DOMAIN crm : d # c => new[d] = crm[d]
    BY <1>1, <1>3, <1>4
  <1>6. p.phone = (IF crm[c].phone = 0 THEN r.phone ELSE crm[c].phone) /\ p.email = email /\ p.alias = alias
    OBVIOUS
  <1>7. Unique(new)
    <2>. SUFFICES ASSUME NEW d \in DOMAIN crm, NEW e \in DOMAIN crm, d # e, new[d].phone # 0
                  PROVE  new[d].phone # new[e].phone
      BY <1>5 DEF Unique
    <2>1. crm[d].phone # 0 => crm[d].phone # crm[e].phone
      BY DEF Unique
    <2>2. crm[e].phone # 0 => crm[d].phone # crm[e].phone
      BY DEF Unique
    <2>3. \/ HasPhone(crm, c, r.phone) \/ (r.phone # 0 => crm[d].phone # r.phone /\ crm[e].phone # r.phone)
      BY <1>1 DEF HasPhone
    <2>. QED BY <1>5, <1>6, <2>1, <2>2, <2>3 DEF HasPhone
  <1>8. Grows(crm, new)
    BY <1>5, <1>6, <1>2 DEF Grows
  <1>9. HasPhone(crm, c, r.phone) => HasPhone(new, c, r.phone)
    BY <1>5, <1>6 DEF HasPhone
  <1>10. ASSUME \A d \in DOMAIN crm : ~HasPhone(crm, d, r.phone), HasMail(crm, c, r.email)
         PROVE  \/ HasPhone(new, c, r.phone)
                \/ HasMail(new, c, r.email) /\ (r.phone # 0 => new[c].phone \notin {0, r.phone})
    <2>1. HasMail(new, c, r.email)
      BY <1>1, <1>8, <1>10 DEF HasMail, Grows
    <2>2. r.phone # 0 => crm[c].phone # r.phone
      BY <1>1, <1>10 DEF HasPhone
    <2>. QED BY <2>1, <2>2, <1>5, <1>6 DEF HasPhone
  <1>. QED BY <1>1, <1>5, <1>7, <1>8, <1>9, <1>10

\* A contact that is new has the number of its row, which nobody had.
LEMMA CreateKeeps ==
    ASSUME NEW crm \in Seq(Person), Unique(crm), NEW r \in Row,
           \A d \in DOMAIN crm : ~HasPhone(crm, d, r.phone)
    PROVE  LET new == Append(crm, Import!Created(r))
               c == Len(crm) + 1
           IN /\ new \in Seq(Person) /\ DOMAIN new = DOMAIN crm \union {c} /\ c \in Nat \ DOMAIN crm
              /\ Unique(new) /\ Grows(crm, new)
              /\ r.phone # 0 => HasPhone(new, c, r.phone)
              /\ r.email # 0 => HasMail(new, c, r.email)
  <1>. DEFINE new == Append(crm, Import!Created(r))
              c == Len(crm) + 1
  <1>1. Import!Created(r) \in Person
    BY DEF Import!Created, Person, Row
  <1>2. /\ new \in Seq(Person) /\ DOMAIN new = DOMAIN crm \union {c} /\ c \in Nat \ DOMAIN crm
        /\ new[c] = Import!Created(r) /\ \A d \in DOMAIN crm : new[d] = crm[d]
    BY <1>1
  <1>3. new[c].phone = r.phone /\ new[c].email = r.email
    BY <1>2 DEF Import!Created
  <1>4. Unique(new)
    BY <1>2, <1>3 DEF Unique, HasPhone
  <1>5. Grows(crm, new)
    BY <1>2 DEF Grows
  <1>. QED BY <1>2, <1>3, <1>4, <1>5 DEF HasPhone, HasMail

-----------------------------------------------------------------------------
\* The row whose turn it is, and whom it is about.
NextRow == xfile.rows[xwork.row + 1]
Whom == Import!Existing(xwork.crm, NextRow)

Passed(field) ==
    /\ xwork'.crm = xwork.crm /\ xwork'.added = xwork.added /\ xwork'.total = xwork.total
    /\ xwork'.seen = xwork.seen /\ xwork'.tally = Import!Counted(field)
Joined1 == xwork.added \union (Import!Joins(Whom) \ xlist)

\* The four ways of a row.
RowBlank == ~Filled(xwork.row + 1) /\ Passed("invalid")
RowRepeated == xfile.skip /\ Import!Key(NextRow) \in xwork.seen /\ Passed("duplicates")
RowMerged ==
    /\ xfile.skip /\ Whom # 0
    /\ xwork'.crm = Import!MergedInto(xwork.crm, Whom, NextRow)
    /\ xwork'.added = Joined1
    /\ xwork'.total = xwork.total + Cardinality(Import!Joins(Whom) \ (xlist \union xwork.added))
    /\ xwork'.seen = xwork.seen \union {Import!Key(NextRow)}
    /\ \E field \in {"merged", "duplicates"} : xwork'.tally = Import!Counted(field)
RowCreated ==
    /\ Filled(xwork.row + 1)
    /\ xfile.skip => Whom = 0
    /\ xwork'.crm = Append(xwork.crm, Import!Created(NextRow))
    /\ xwork'.added = xwork.added \union {Len(xwork.crm) + 1}
    /\ xwork'.total = xwork.total + 1
    /\ xwork'.seen = xwork.seen \union {Import!Key(NextRow)}
    /\ xwork'.tally = Import!Counted("imported")

LEMMA RowWays ==
    ASSUME ImportShape, Import!TakeRow
    PROVE  /\ xwork.row + 1 \in 1..Rows /\ NextRow \in Row /\ xwork'.row = xwork.row + 1
           /\ xwork'.on = xwork.on /\ xwork'.last = xwork.last /\ xwork'.start = xwork.start
           /\ xwork'.ended = xwork.ended /\ DOMAIN xwork' = DOMAIN xwork
           /\ xwork' = [on |-> xwork'.on, row |-> xwork'.row, last |-> xwork'.last, seen |-> xwork'.seen,
                        crm |-> xwork'.crm, added |-> xwork'.added, start |-> xwork'.start,
                        total |-> xwork'.total, tally |-> xwork'.tally, ended |-> xwork'.ended]
           /\ RowBlank \/ RowRepeated \/ RowMerged \/ RowCreated
  <1>. USE ImportsAssumption
  <1>1. xwork.row \in Nat /\ xwork.row # Rows /\ xwork.row \in 0..Rows /\ xwork \in WorkShape
    BY DEF ImportShape, WorkShape, Import!TakeRow, Import!AtEnd
  <1>2. xwork.row + 1 \in 1..Rows
    BY <1>1
  <1>3. NextRow \in Row
    BY <1>2 DEF NextRow, ImportShape
  <1>. DEFINE t == Import!Took(xwork, NextRow)
  <1>4. xwork' = [t EXCEPT !.row = @ + 1]
    BY DEF Import!TakeRow, NextRow
  <1>5. CASE t = [xwork EXCEPT !.tally = Import!Counted("invalid")] /\ ~Filled(xwork.row + 1)
    BY <1>1, <1>2, <1>3, <1>4, <1>5 DEF WorkShape, RowBlank, Passed
  <1>6. CASE t = [xwork EXCEPT !.tally = Import!Counted("duplicates")] /\ xfile.skip /\ Import!Key(NextRow) \in xwork.seen
    BY <1>1, <1>2, <1>3, <1>4, <1>6 DEF WorkShape, RowRepeated, Passed
  <1>7. CASE /\ xfile.skip /\ Whom # 0
             /\ t = [xwork EXCEPT !.seen = xwork.seen \union {Import!Key(NextRow)}, !.crm = Import!MergedInto(@, Whom, NextRow),
                        !.tally = Import!Counted(IF Import!Changes(xwork.crm, Whom, NextRow) THEN "merged" ELSE "duplicates"),
                        !.added = @ \union (Import!Joins(Whom) \ xlist),
                        !.total = @ + Import!Cardinality(Import!Joins(Whom) \ (xlist \union xwork.added))]
    <2>1. xwork'.tally = Import!Counted(IF Import!Changes(xwork.crm, Whom, NextRow) THEN "merged" ELSE "duplicates")
      BY <1>1, <1>4, <1>7 DEF WorkShape
    <2>2. \E field \in {"merged", "duplicates"} : xwork'.tally = Import!Counted(field)
      BY <2>1
    <2>. HIDE DEF t
    <2>3. xwork'.seen = xwork.seen \union {Import!Key(NextRow)} /\ xwork'.crm = Import!MergedInto(xwork.crm, Whom, NextRow)
          /\ xwork'.added = Joined1
          /\ xwork'.total = xwork.total + Cardinality(Import!Joins(Whom) \ (xlist \union xwork.added))
      BY <1>1, <1>4, <1>7, ImportCounts DEF WorkShape, Joined1
    <2>4. RowMerged
      BY <2>2, <2>3, <1>7 DEF RowMerged
    <2>. QED BY <1>1, <1>2, <1>3, <1>4, <1>7, <2>4 DEF WorkShape
  <1>8. CASE /\ t = [xwork EXCEPT !.seen = xwork.seen \union {Import!Key(NextRow)}, !.crm = Append(@, Import!Created(NextRow)),
                        !.tally = Import!Counted("imported"),
                        !.added = @ \union {Len(xwork.crm) + 1}, !.total = @ + 1]
             /\ Filled(xwork.row + 1) /\ (xfile.skip => Whom = 0)
    <2>. HIDE DEF t
    <2>1. RowCreated
      BY <1>1, <1>4, <1>8 DEF WorkShape, RowCreated
    <2>. QED BY <1>1, <1>2, <1>3, <1>4, <1>8, <2>1 DEF WorkShape
  <1>9. \/ t = [xwork EXCEPT !.tally = Import!Counted("invalid")] /\ ~Filled(xwork.row + 1)
        \/ t = [xwork EXCEPT !.tally = Import!Counted("duplicates")] /\ xfile.skip /\ Import!Key(NextRow) \in xwork.seen
        \/ /\ xfile.skip /\ Whom # 0
             /\ t = [xwork EXCEPT !.seen = xwork.seen \union {Import!Key(NextRow)}, !.crm = Import!MergedInto(@, Whom, NextRow),
                        !.tally = Import!Counted(IF Import!Changes(xwork.crm, Whom, NextRow) THEN "merged" ELSE "duplicates"),
                        !.added = @ \union (Import!Joins(Whom) \ xlist),
                        !.total = @ + Import!Cardinality(Import!Joins(Whom) \ (xlist \union xwork.added))]
        \/ /\ t = [xwork EXCEPT !.seen = xwork.seen \union {Import!Key(NextRow)}, !.crm = Append(@, Import!Created(NextRow)),
                        !.tally = Import!Counted("imported"),
                        !.added = @ \union {Len(xwork.crm) + 1}, !.total = @ + 1]
             /\ Filled(xwork.row + 1) /\ (xfile.skip => Whom = 0)
    <2>1. xfile.skip \in BOOLEAN
      BY DEF ImportShape
    <2>. QED BY <1>2, <2>1 DEF Import!Took, Filled, Whom, NextRow
  <1>. HIDE DEF t
  <1>. QED BY <1>5, <1>6, <1>7, <1>8, <1>9

\* A row leaves people as they were, merged or one more, and its own with it.
LEMMA RowTaken ==
    ASSUME ImportShape, BatchInv, TallyInv, Import!TakeRow
    PROVE  /\ xwork' \in WorkShape /\ Unique(xwork'.crm) /\ Grows(xwork.crm, xwork'.crm)
           /\ xwork'.on /\ Joined \subseteq Joined' /\ Joined' \subseteq DOMAIN xwork'.crm
           /\ Total(xwork'.tally) = Total(xwork.tally) + 1
           /\ \/ RowBlank
              \/ RowRepeated
              \/ /\ xwork'.seen = xwork.seen \union {Import!Key(NextRow)}
                 /\ \E c \in Joined' :
                      \/ HasPhone(xwork'.crm, c, NextRow.phone)
                      \/ HasMail(xwork'.crm, c, NextRow.email)
                           /\ (NextRow.phone # 0 => xfile.skip /\ xwork'.crm[c].phone \notin {0, NextRow.phone})
  <1>. USE ImportsAssumption
  <1>1. /\ xwork.row + 1 \in 1..Rows /\ NextRow \in Row /\ xwork'.row = xwork.row + 1
        /\ xwork'.on = xwork.on /\ xwork'.last = xwork.last /\ xwork'.start = xwork.start
        /\ xwork'.ended = xwork.ended
        /\ xwork' = [on |-> xwork'.on, row |-> xwork'.row, last |-> xwork'.last, seen |-> xwork'.seen,
                     crm |-> xwork'.crm, added |-> xwork'.added, start |-> xwork'.start,
                     total |-> xwork'.total, tally |-> xwork'.tally, ended |-> xwork'.ended]
        /\ RowBlank \/ RowRepeated \/ RowMerged \/ RowCreated
    BY RowWays
  <1>2. /\ xwork \in WorkShape /\ xwork.on /\ xlist' = xlist /\ xlist \subseteq DOMAIN xcrm
        /\ xwork.crm \in Seq(Person) /\ Unique(xwork.crm) /\ Joined \subseteq DOMAIN xwork.crm
        /\ xwork.added \in SUBSET Nat /\ xwork.total \in Nat /\ xwork.tally \in TallyShape
        /\ xwork.seen \in SUBSET ({"p", "e"} \X (Numbers \union Addresses \union {0}))
    BY DEF ImportShape, WorkShape, BatchInv, TallyInv, Import!TakeRow
  <1>3. \A field \in {"imported", "merged", "duplicates", "invalid"} :
           Import!Counted(field) \in TallyShape /\ Total(Import!Counted(field)) = Total(xwork.tally) + 1
    <2>1. /\ Import!Counted("imported") \in TallyShape /\ Import!Counted("merged") \in TallyShape
          /\ Import!Counted("duplicates") \in TallyShape /\ Import!Counted("invalid") \in TallyShape
      <3>1. xwork.tally = [imported |-> xwork.tally.imported, merged |-> xwork.tally.merged,
                duplicates |-> xwork.tally.duplicates, invalid |-> xwork.tally.invalid]
            /\ xwork.tally.imported \in Nat /\ xwork.tally.merged \in Nat
            /\ xwork.tally.duplicates \in Nat /\ xwork.tally.invalid \in Nat
        BY <1>2 DEF TallyShape
      <3>2. Import!Counted("imported") \in TallyShape
        BY <1>2, <3>1 DEF Import!Counted, TallyShape
      <3>3. Import!Counted("merged") \in TallyShape
        BY <1>2, <3>1 DEF Import!Counted, TallyShape
      <3>4. Import!Counted("duplicates") \in TallyShape
        BY <1>2, <3>1 DEF Import!Counted, TallyShape
      <3>5. Import!Counted("invalid") \in TallyShape
        BY <1>2, <3>1 DEF Import!Counted, TallyShape
      <3>. QED BY <3>2, <3>3, <3>4, <3>5
    <2>2. /\ Total(Import!Counted("imported")) = Total(xwork.tally) + 1
          /\ Total(Import!Counted("merged")) = Total(xwork.tally) + 1
          /\ Total(Import!Counted("duplicates")) = Total(xwork.tally) + 1
          /\ Total(Import!Counted("invalid")) = Total(xwork.tally) + 1
      BY <1>2 DEF Import!Counted, TallyShape, Total
    <2>. QED BY <2>1, <2>2
  <1>4. Import!Key(NextRow) \in {"p", "e"} \X (Numbers \union Addresses \union {0})
    BY <1>1 DEF Import!Key, Row
  <1>5. Grows(xwork.crm, xwork.crm)
    BY DEF Grows
  <1>9. ASSUME /\ xwork'.crm \in Seq(Person) /\ xwork'.added \in SUBSET Nat /\ xwork'.total \in Nat
               /\ xwork'.seen \in SUBSET ({"p", "e"} \X (Numbers \union Addresses \union {0}))
               /\ xwork'.tally \in TallyShape
        PROVE  xwork' \in WorkShape
    <2>1. xwork'.on \in BOOLEAN /\ xwork'.row \in 0..Rows /\ xwork'.last \in 0..Rows
          /\ xwork'.start \in Nat /\ xwork'.ended \in BOOLEAN
      BY <1>1, <1>2 DEF WorkShape
    <2>. QED BY <2>1, <1>1, <1>9 DEF WorkShape
  <1>6. CASE RowBlank \/ RowRepeated
    <2>1. /\ xwork'.crm = xwork.crm /\ xwork'.added = xwork.added /\ xwork'.total = xwork.total
          /\ xwork'.seen = xwork.seen /\ \E f \in {"invalid", "duplicates"} : xwork'.tally = Import!Counted(f)
      BY <1>6 DEF RowBlank, RowRepeated, Passed
    <2>2. xwork' \in WorkShape
      BY <2>1, <1>2, <1>3, <1>9
    <2>3. Joined' = Joined
      BY <2>1, <1>2 DEF Joined
    <2>4. Total(xwork'.tally) = Total(xwork.tally) + 1
      BY <2>1, <1>3
    <2>. QED BY <2>1, <2>2, <2>3, <2>4, <1>1, <1>2, <1>5, <1>6
  <1>7. CASE RowMerged
    <2>. DEFINE c == Whom
    <2>1. /\ xwork'.crm = Import!MergedInto(xwork.crm, c, NextRow) /\ xwork'.added = Joined1
          /\ xwork'.total = xwork.total + Cardinality(Import!Joins(c) \ (xlist \union xwork.added))
          /\ xwork'.seen = xwork.seen \union {Import!Key(NextRow)}
          /\ \E f \in {"merged", "duplicates"} : xwork'.tally = Import!Counted(f)
      BY <1>7 DEF RowMerged
    <2>2. /\ c \in DOMAIN xwork.crm /\ xwork'.crm \in Seq(Person)
          /\ DOMAIN xwork'.crm = DOMAIN xwork.crm /\ Unique(xwork'.crm) /\ Grows(xwork.crm, xwork'.crm)
          /\ \/ HasPhone(xwork'.crm, c, NextRow.phone)
             \/ HasMail(xwork'.crm, c, NextRow.email)
                 /\ (NextRow.phone # 0 => xwork'.crm[c].phone \notin {0, NextRow.phone})
      BY <1>1, <1>2, <1>7, <2>1, MergeKeeps DEF RowMerged, Whom
    <2>3. c \in Nat
      BY <2>2, <1>2
    <2>4. Import!Joins(c) \ xlist \subseteq {c} /\ Import!Joins(c) \ (xlist \union xwork.added) \subseteq {c} /\ c \in Import!Joins(c)
      BY DEF Import!Joins
    <2>5. Cardinality(Import!Joins(c) \ (xlist \union xwork.added)) \in Nat
      BY <2>4, FS_Singleton, FS_Subset, FS_CardinalityType
    <2>6. xwork' \in WorkShape
      <3>1. xwork'.added \in SUBSET Nat
        BY <2>1, <2>3, <2>4, <1>2 DEF Joined1
      <3>2. xwork'.total \in Nat
        BY <2>1, <2>5, <1>2
      <3>3. xwork'.seen \in SUBSET ({"p", "e"} \X (Numbers \union Addresses \union {0}))
        BY <2>1, <1>2, <1>4
      <3>4. xwork'.tally \in TallyShape
        BY <2>1, <1>3
      <3>. QED BY <2>2, <3>1, <3>2, <3>3, <3>4, <1>9
    <2>7. Joined' = Joined \union {c}
      BY <2>1, <2>4, <1>2 DEF Joined, Joined1
    <2>8. Total(xwork'.tally) = Total(xwork.tally) + 1
      BY <2>1, <1>3
    <2>9. xfile.skip /\ xwork'.on /\ c \in Joined' /\ Joined \subseteq Joined'
          /\ Joined' \subseteq DOMAIN xwork'.crm
      BY <2>2, <2>7, <1>1, <1>2, <1>7 DEF RowMerged
    <2>10. \E d \in Joined' :
              \/ HasPhone(xwork'.crm, d, NextRow.phone)
              \/ HasMail(xwork'.crm, d, NextRow.email)
                   /\ (NextRow.phone # 0 => xfile.skip /\ xwork'.crm[d].phone \notin {0, NextRow.phone})
      BY <2>2, <2>9
    <2>. QED BY <2>1, <2>2, <2>6, <2>8, <2>9, <2>10
  <1>8. CASE RowCreated
    <2>. DEFINE c == Len(xwork.crm) + 1
    <2>1. /\ xwork'.crm = Append(xwork.crm, Import!Created(NextRow)) /\ xwork'.added = xwork.added \union {c}
          /\ xwork'.total = xwork.total + 1 /\ xwork'.seen = xwork.seen \union {Import!Key(NextRow)}
          /\ xwork'.tally = Import!Counted("imported")
      BY <1>8 DEF RowCreated
    <2>2. \A d \in DOMAIN xwork.crm : ~HasPhone(xwork.crm, d, NextRow.phone)
      <3>1. CASE xfile.skip
        BY <3>1, <1>8, <1>1, <1>2, FoundHas DEF RowCreated, Whom
      <3>2. CASE ~xfile.skip
        BY <3>2 DEF Import!TakeRow, Import!Collides, NextRow, HasPhone
      <3>. QED BY <3>1, <3>2
    <2>3. /\ xwork'.crm \in Seq(Person) /\ DOMAIN xwork'.crm = DOMAIN xwork.crm \union {c}
          /\ c \in Nat \ DOMAIN xwork.crm /\ Unique(xwork'.crm) /\ Grows(xwork.crm, xwork'.crm)
          /\ NextRow.phone # 0 => HasPhone(xwork'.crm, c, NextRow.phone)
          /\ NextRow.email # 0 => HasMail(xwork'.crm, c, NextRow.email)
      BY <1>1, <1>2, <2>1, <2>2, CreateKeeps
    <2>4. xwork' \in WorkShape
      BY <2>1, <2>3, <1>2, <1>3, <1>4, <1>9
    <2>5. Joined' = Joined \union {c}
      BY <2>1, <1>2 DEF Joined
    <2>6. NextRow.phone # 0 \/ NextRow.email # 0
      BY <1>8 DEF RowCreated, Filled, NextRow
    <2>7. Total(xwork'.tally) = Total(xwork.tally) + 1
      BY <2>1, <1>3
    <2>8. /\ xwork' \in WorkShape /\ Unique(xwork'.crm) /\ Grows(xwork.crm, xwork'.crm)
          /\ xwork'.on /\ Joined \subseteq Joined' /\ Joined' \subseteq DOMAIN xwork'.crm
          /\ Total(xwork'.tally) = Total(xwork.tally) + 1
      BY <2>3, <2>4, <2>5, <2>7, <1>1, <1>2
    <2>9. \E d \in Joined' :
              \/ HasPhone(xwork'.crm, d, NextRow.phone)
              \/ HasMail(xwork'.crm, d, NextRow.email)
                   /\ (NextRow.phone # 0 => xfile.skip /\ xwork'.crm[d].phone \notin {0, NextRow.phone})
      BY <2>3, <2>5, <2>6
    <2>. QED BY <2>1, <2>8, <2>9
  <1>. QED BY <1>1, <1>6, <1>7, <1>8

LEMMA ImportShapeKept ==
    ASSUME ImportShape, BatchInv, TallyInv, [Import!XNext]_xvars
    PROVE  ImportShape'
  <1>. USE ImportsAssumption
  <1>1. Import!NoWork \in WorkShape
    <2>1. <<>> \in Seq(Person)
      OBVIOUS
    <2>. QED BY <2>1 DEF Import!NoWork, WorkShape, Import!Tally, TallyShape
  <1>2. CASE Import!Start
    BY <1>1, <1>2 DEF Import!Start, ImportShape, WorkShape, Import!NoWork, Import!Tally
  <1>3. CASE Import!TakeRow
    BY <1>3, RowTaken DEF Import!TakeRow, ImportShape
  <1>13. xwork \in WorkShape /\ xwork.row \in 0..Rows /\ xwork.row \in Nat /\ xwork.tally \in TallyShape
         /\ xwork.crm \in Seq(Person) /\ xwork.start \in Nat /\ xwork.total \in Nat
    BY DEF ImportShape, WorkShape
  <1>4. ASSUME Import!Writes, xwork.on
        PROVE  /\ xjob' \in [status : {"queued", "running", "completed", "failed"}, processed : Nat,
                             tally : TallyShape]
               /\ xcrm' \in Seq(Person) /\ xlist' \subseteq DOMAIN xcrm'
    <2>1. xjob' = [xjob EXCEPT !.processed = xwork.row, !.tally = xwork.tally]
          /\ xcrm' = xwork.crm /\ xlist' = Joined
      BY <1>4 DEF Import!Writes, Joined
    <2>2. xjob \in [status : {"queued", "running", "completed", "failed"}, processed : Nat,
                    tally : TallyShape]
      BY DEF ImportShape
    <2>3. xlist' \subseteq DOMAIN xcrm'
      BY <2>1, <1>4 DEF BatchInv
    <2>. QED BY <2>1, <2>2, <2>3, <1>13
  <1>5. CASE Import!Publish
    BY <1>4, <1>5 DEF Import!Publish, ImportShape, WorkShape
  <1>6. CASE Import!PublishLast
    <2>1. xcount' \in Nat
      BY <1>6, <1>13 DEF Import!PublishLast, ImportShape
    <2>. QED BY <2>1, <1>4, <1>6 DEF Import!PublishLast, ImportShape, WorkShape
  <1>7. CASE Import!Complete
    BY <1>1, <1>7 DEF Import!Complete, ImportShape
  <1>8. CASE Import!Fails \/ Import!Dies
    BY <1>1, <1>8 DEF Import!Fails, Import!Dies, ImportShape
  <1>9. \A S : S \subseteq DOMAIN xcrm => Cardinality(S) \in Nat
    <2>1. DOMAIN xcrm = 1..Len(xcrm) /\ Len(xcrm) \in Nat
      BY DEF ImportShape
    <2>2. IsFiniteSet(DOMAIN xcrm)
      BY <2>1, FS_Interval
    <2>. QED BY <2>2, FS_Subset, FS_CardinalityType
  <1>10. CASE Import!LookAtLists
    BY <1>9, <1>10, ImportCounts DEF Import!LookAtLists, ImportShape
  <1>11. ASSUME NEW c \in DOMAIN xcrm, Import!AddMember(c) \/ Import!RemoveMember(c) PROVE ImportShape'
    <2>1. PICK S \in {xlist \union {c}, xlist \ {c}} : Import!EditList(S)
      BY <1>11 DEF Import!AddMember, Import!RemoveMember
    <2>2. S \subseteq DOMAIN xcrm
      BY DEF ImportShape
    <2>. QED BY <2>1, <2>2, <1>9, ImportCounts DEF Import!EditList, ImportShape
  <1>12. CASE UNCHANGED xvars
    BY <1>12 DEF xvars, ImportShape
  <1>. QED BY <1>2, <1>3, <1>5, <1>6, <1>7, <1>8, <1>10, <1>11, <1>12 DEF Import!XNext,
     Import!JobStep

LEMMA BatchKept ==
    ASSUME ImportShape, BatchInv, TallyInv, [Import!XNext]_xvars
    PROVE  BatchInv'
  <1>. USE ImportsAssumption
  <1>1. CASE Import!Start
    BY <1>1 DEF Import!Start, BatchInv, Joined, Import!NoWork, ImportShape
  <1>2. CASE Import!TakeRow
    <2>1. ~xwork.ended
      BY <1>2 DEF Import!TakeRow, BatchInv, Import!AtEnd
    <2>2. ~xwork'.ended
      BY <2>1, <1>2, RowWays
    <2>. QED BY <2>2, <1>2, RowTaken DEF Import!TakeRow, BatchInv, Grows
  <1>3. ASSUME Import!Writes, xwork.on, xwork'.crm = xwork.crm, xwork'.added = {}
        PROVE  Joined' = Joined /\ xjob'.status = xjob.status /\ xcrm' = xwork.crm
    BY <1>3 DEF Import!Writes, Joined, ImportShape
  <1>4. xwork \in WorkShape /\ xwork.row \in 0..Rows /\ xwork.last \in 0..Rows
    BY DEF ImportShape, WorkShape
  <1>5. CASE Import!Publish
    <2>1. xwork.row # xwork.last
      BY <1>4, <1>5 DEF Import!Publish, Import!Behind
    <2>2. ~xwork.ended
      BY <2>1, <1>5 DEF BatchInv
    <2>. QED BY <2>2, <1>3, <1>4, <1>5 DEF Import!Publish, BatchInv, WorkShape
  <1>6. CASE Import!PublishLast
    BY <1>3, <1>4, <1>6 DEF Import!PublishLast, BatchInv, WorkShape, Import!AtEnd
  <1>7. CASE Import!Complete \/ Import!Fails \/ Import!Dies
    BY <1>7 DEF Import!Complete, Import!Fails, Import!Dies, BatchInv, Import!NoWork
  <1>8. CASE Import!LookAtLists \/ UNCHANGED xvars
    BY <1>8 DEF Import!LookAtLists, xvars, BatchInv, Joined
  <1>9. ASSUME NEW c \in DOMAIN xcrm, Import!AddMember(c) \/ Import!RemoveMember(c) PROVE BatchInv'
    <2>1. PICK S \in {xlist \union {c}, xlist \ {c}} : Import!EditList(S)
      BY <1>9 DEF Import!AddMember, Import!RemoveMember
    <2>. QED BY <2>1, <1>9 DEF Import!EditList, BatchInv, Joined
  <1>. QED BY <1>1, <1>2, <1>5, <1>6, <1>7, <1>8, <1>9 DEF Import!XNext, Import!JobStep

LEMMA TallyKept ==
    ASSUME ImportShape, BatchInv, TallyInv, [Import!XNext]_xvars
    PROVE  TallyInv'
  <1>. USE ImportsAssumption
  <1>1. CASE Import!Start
    BY <1>1 DEF Import!Start, TallyInv, Import!NoWork, Import!Tally, Total, ImportShape
  <1>2. CASE Import!TakeRow
    <2>1. /\ xwork.on /\ Total(xwork'.tally) = Total(xwork.tally) + 1 /\ Unique(xwork'.crm)
          /\ xwork'.row = xwork.row + 1
      BY <1>2, RowTaken, RowWays DEF Import!TakeRow
    <2>2. xjob' = xjob /\ xcrm' = xcrm
      BY <1>2 DEF Import!TakeRow
    <2>. QED BY <2>1, <2>2 DEF TallyInv, Total
  <1>4. CASE Import!Publish \/ Import!PublishLast
    BY <1>4 DEF Import!Publish, Import!PublishLast, Import!Writes, TallyInv, Total, ImportShape,
       WorkShape
  <1>5. CASE Import!Complete \/ Import!Fails \/ Import!Dies
    BY <1>5 DEF Import!Complete, Import!Fails, Import!Dies, TallyInv, Import!NoWork, Total,
       ImportShape
  <1>6. CASE Import!LookAtLists \/ UNCHANGED xvars
    BY <1>6 DEF Import!LookAtLists, xvars, TallyInv, Total
  <1>7. ASSUME NEW c \in DOMAIN xcrm, Import!AddMember(c) \/ Import!RemoveMember(c) PROVE TallyInv'
    BY <1>7 DEF Import!AddMember, Import!RemoveMember, Import!EditList, TallyInv, Total
  <1>. QED BY <1>1, <1>2, <1>4, <1>5, <1>6, <1>7 DEF Import!XNext, Import!JobStep

LEMMA CountKept ==
    ASSUME ImportShape, BatchInv, TallyInv, CachedInv, [Import!XNext]_xvars
    PROVE  CachedInv'
  <1>. USE ImportsAssumption
  <1>1. \A S : S \subseteq DOMAIN xcrm \/ S \subseteq DOMAIN xwork.crm => IsFiniteSet(S) /\ Cardinality(S) \in Nat
    <2>1. /\ DOMAIN xcrm = 1..Len(xcrm) /\ Len(xcrm) \in Nat
          /\ DOMAIN xwork.crm = 1..Len(xwork.crm) /\ Len(xwork.crm) \in Nat
      BY DEF ImportShape, WorkShape
    <2>2. IsFiniteSet(1..Len(xcrm)) /\ IsFiniteSet(1..Len(xwork.crm))
      BY <2>1, FS_Interval
    <2>. QED BY <2>1, <2>2, FS_Subset, FS_CardinalityType
  <1>2. /\ xwork \in WorkShape /\ xwork.start \in Nat /\ xwork.total \in Nat /\ xwork.row \in 0..Rows
        /\ xwork.last \in 0..Rows
        /\ xcount \in Nat /\ xraced \in BOOLEAN /\ xlist \subseteq DOMAIN xcrm
    BY DEF ImportShape, WorkShape
  <1>3. CASE Import!Start
    BY <1>3, <1>2 DEF Import!Start, CachedInv, BatchInv, Import!NoWork, Joined, ImportShape
  <1>4. CASE Import!TakeRow
    <2>1. /\ xlist' = xlist /\ xcount' = xcount /\ xraced' = xraced /\ xjob' = xjob /\ xwork.on
          /\ xjob.status = "running" /\ ~xwork.ended
      BY <1>4 DEF Import!TakeRow, BatchInv, Import!AtEnd
    <2>2. xwork'.on /\ ~xwork'.ended /\ xwork'.start = xwork.start
      BY <2>1, <1>4, RowWays DEF Import!TakeRow
    <2>. SUFFICES ASSUME ~xraced
                  PROVE  /\ xwork.start + xwork'.total = Cardinality(Joined')
                         /\ xwork'.total = 0 => xwork'.added = {} /\ xcount = xwork.start
      BY <2>1, <2>2 DEF CachedInv
    <2>3. /\ xwork.start + xwork.total = Cardinality(Joined) /\ IsFiniteSet(Joined)
          /\ xwork.total = 0 => xwork.added = {} /\ xcount = xwork.start
      BY <2>1, <1>1 DEF CachedInv, BatchInv
    <2>4. CASE RowBlank \/ RowRepeated
      BY <2>1, <2>3, <2>4 DEF RowBlank, RowRepeated, Passed, Joined
    <2>5. CASE RowMerged
      <3>1. /\ xwork'.added = xwork.added \union ({Whom} \ xlist)
            /\ xwork'.total = xwork.total + Cardinality({Whom} \ Joined)
        BY <2>5 DEF RowMerged, Joined1, Import!Joins, Joined
      <3>2. CASE Whom \in Joined
        <4>1. {Whom} \ Joined = {} /\ Joined' = Joined /\ (xwork.added = {} => xwork'.added = {})
          BY <3>1, <3>2, <2>1 DEF Joined
        <4>2. Cardinality({Whom} \ Joined) = 0
          BY <4>1, FS_EmptySet
        <4>3. xwork'.total = xwork.total
          BY <4>2, <3>1, <1>2
        <4>. QED BY <4>1, <4>3, <2>3
      <3>3. CASE Whom \notin Joined
        <4>1. {Whom} \ Joined = {Whom} /\ Joined' = Joined \union {Whom}
          BY <3>1, <3>3, <2>1 DEF Joined
        <4>2. Cardinality({Whom}) = 1
          BY FS_Singleton
        <4>3. Cardinality(Joined') = Cardinality(Joined) + 1
          BY <4>1, <3>3, <2>3, FS_AddElement
        <4>4. xwork'.total = xwork.total + 1
          BY <4>1, <4>2, <3>1
        <4>5. Cardinality(Joined) \in Nat
          BY <2>3, FS_CardinalityType
        <4>. QED BY <4>3, <4>4, <4>5, <2>3, <1>2
      <3>. QED BY <3>2, <3>3
    <2>6. CASE RowCreated
      <3>. DEFINE c == Len(xwork.crm) + 1
      <3>1. xwork'.added = xwork.added \union {c} /\ xwork'.total = xwork.total + 1
        BY <2>6 DEF RowCreated
      <3>2. c \notin Joined
        BY <2>1 DEF BatchInv, ImportShape, WorkShape
      <3>3. Joined' = Joined \union {c}
        BY <3>1, <2>1 DEF Joined
      <3>4. Cardinality(Joined') = Cardinality(Joined) + 1
        BY <3>2, <3>3, <2>3, FS_AddElement
      <3>. QED BY <3>1, <3>4, <2>3, <1>2
    <2>. QED BY <2>4, <2>5, <2>6, <1>4, RowWays
  <1>5. ASSUME Import!Writes PROVE xlist' = Joined /\ xjob'.status = xjob.status
    BY <1>5 DEF Import!Writes, Joined, ImportShape
  <1>6. CASE Import!Publish
    <2>1. xwork.row # xwork.last
      BY <1>2, <1>6 DEF Import!Publish, Import!Behind
    <2>2. ~xwork.ended /\ xjob.status = "running"
      BY <2>1, <1>6 DEF BatchInv, Import!Publish
    <2>3. /\ xwork'.on = xwork.on /\ xwork'.ended = xwork.ended /\ xwork'.start = xwork.start
          /\ xwork'.total = xwork.total /\ xwork'.added = {} /\ xcount' = xcount /\ xraced' = xraced
      BY <1>6, <1>2 DEF Import!Publish, WorkShape
    <2>4. Joined' = Joined
      BY <2>3, <1>5, <1>6 DEF Import!Publish, Joined
    <2>. QED BY <2>2, <2>3, <2>4, <1>5, <1>6 DEF CachedInv, Import!Publish
  <1>7. CASE Import!PublishLast
    <2>1. /\ xwork'.ended /\ xraced' = xraced /\ xlist' = Joined /\ xwork.on /\ ~xwork.ended
          /\ xcount' = IF xwork.total > 0 THEN xwork.start + xwork.total ELSE xcount
      BY <1>7, <1>5, <1>2 DEF Import!PublishLast, WorkShape
    <2>. QED BY <2>1, <1>2 DEF CachedInv
  <1>8. CASE Import!Complete
    BY <1>8 DEF Import!Complete, CachedInv, Import!NoWork, ImportShape
  <1>9. CASE Import!Fails
    BY <1>9 DEF Import!Fails, CachedInv, Import!NoWork, ImportShape
  <1>10. CASE Import!Dies
    BY <1>10 DEF Import!Dies, CachedInv, Import!NoWork, BatchInv
  <1>11. CASE Import!LookAtLists
    <2>1. xwork.total = 0 /\ xwork.added = {} => Joined = xlist /\ xwork.start + xwork.total = xwork.start
      BY <1>2 DEF Joined
    <2>2. xwork' = xwork /\ Joined' = Joined /\ xraced' = xraced /\ xlist' = xlist /\ xjob' = xjob
          /\ xcount' = Cardinality(xlist) /\ xcount # Cardinality(xlist)
      BY <1>11, ImportCounts DEF Import!LookAtLists, Joined
    <2>. QED BY <2>1, <2>2 DEF CachedInv
  <1>12. CASE UNCHANGED xvars
    BY <1>12 DEF xvars, CachedInv, Joined
  <1>13. ASSUME NEW c \in DOMAIN xcrm, Import!AddMember(c) \/ Import!RemoveMember(c) PROVE CachedInv'
    <2>1. PICK S \in {xlist \union {c}, xlist \ {c}} : Import!EditList(S)
      BY <1>13 DEF Import!AddMember, Import!RemoveMember
    <2>. QED BY <2>1, <1>2, ImportCounts DEF Import!EditList, CachedInv, BatchInv
  <1>. QED BY <1>3, <1>4, <1>6, <1>7, <1>8, <1>9, <1>10, <1>11, <1>12, <1>13 DEF Import!XNext,
     Import!JobStep

LEMMA ListedKept ==
    ASSUME ImportShape, BatchInv, TallyInv, ListedInv, [Import!XNext]_xvars
    PROVE  ListedInv'
  <1>. USE ImportsAssumption
  <1>1. /\ xwork \in WorkShape /\ xwork.row \in 0..Rows /\ xwork.row \in Nat /\ xwork.last \in 0..Rows
    BY DEF ImportShape, WorkShape
  <1>2. CASE Import!Start
    BY <1>2 DEF Import!Start, ListedInv, Import!NoWork, ImportShape
  <1>3. CASE Import!TakeRow
    <2>. DEFINE k == xwork.row + 1
    <2>1. /\ xfile' = xfile /\ xlist' = xlist /\ xcrm' = xcrm /\ xjob' = xjob /\ xedits' = xedits
          /\ xwork.on /\ xjob.status = "running"
      BY <1>3 DEF Import!TakeRow, BatchInv
    <2>2. k \in 1..Rows /\ NextRow \in Row /\ xwork'.row = k /\ NextRow = xfile.rows[k]
      BY <1>3, RowWays DEF NextRow
    <2>3. Grows(xwork.crm, xwork'.crm) /\ Joined \subseteq Joined' /\ Joined \subseteq DOMAIN xwork.crm
      BY <1>3, <2>1, RowTaken DEF BatchInv
    <2>. SUFFICES ASSUME xedits = 0
                  PROVE  /\ \A i \in 1..k : Filled(i) => Met(xwork'.crm, Joined', i, i)
                         /\ xfile.skip =>
                              \A i \in 1..Rows : Filled(i) /\ Import!Key(xfile.rows[i]) \in xwork'.seen =>
                                KeyMet(xwork'.crm, Joined', i, k)
      BY <2>1, <2>2 DEF ListedInv, Filled, Met, KeyMet, Astray
    <2>4. \A i \in 1..Rows : /\ Met(xwork.crm, Joined, i, i) => Met(xwork'.crm, Joined', i, i)
                             /\ KeyMet(xwork.crm, Joined, i, k - 1) => KeyMet(xwork'.crm, Joined', i, k)
      <3>. TAKE i \in 1..Rows
      <3>1. i \in Nat /\ i <= i /\ k - 1 \in Nat /\ k \in Nat /\ k - 1 <= k
        BY <1>1
      <3>2. Met(xwork.crm, Joined, i, i) => Met(xwork'.crm, Joined', i, i)
        BY <3>1, <2>3, MetGrows
      <3>3. KeyMet(xwork.crm, Joined, i, k - 1) => KeyMet(xwork'.crm, Joined', i, k)
        <4>. DEFINE j == k - 1
        <4>. HIDE DEF j, k
        <4>1. j \in Nat /\ k \in Nat /\ j <= k
          BY <3>1 DEF j
        <4>2. KeyMet(xwork.crm, Joined, i, j) => KeyMet(xwork'.crm, Joined', i, k)
          BY <4>1, <2>3, MetGrows
        <4>. QED BY <4>2 DEF j
      <3>. QED BY <3>2, <3>3
    <2>5. \A i \in 1..(k - 1) : Filled(i) => Met(xwork'.crm, Joined', i, i)
      <3>1. \A i \in 1..(k - 1) : i \in 1..Rows /\ i \in 1..xwork.row
        BY <1>1, <2>2
      <3>. QED BY <2>1, <2>4, <3>1 DEF ListedInv
    <2>6. xfile.skip => \A i \in 1..Rows : Filled(i) /\ Import!Key(xfile.rows[i]) \in xwork.seen =>
              KeyMet(xwork.crm, Joined, i, k - 1)
      BY <1>1, <2>1 DEF ListedInv
    <2>7. ASSUME Filled(k) => Met(xwork'.crm, Joined', k, k)
          PROVE  \A i \in 1..k : Filled(i) => Met(xwork'.crm, Joined', i, i)
      <3>1. \A i \in 1..k : i = k \/ i \in 1..(k - 1)
        BY <1>1
      <3>. QED BY <2>5, <2>7, <3>1
    <2>8. CASE RowBlank
      <3>1. ~Filled(k) /\ xwork'.seen = xwork.seen
        BY <2>8 DEF RowBlank, Passed
      <3>. QED BY <3>1, <2>4, <2>6, <2>7
    <2>9. CASE RowRepeated
      <3>1. xfile.skip /\ Import!Key(xfile.rows[k]) \in xwork.seen /\ xwork'.seen = xwork.seen
            /\ xwork'.crm = xwork.crm
        BY <2>9, <2>2 DEF RowRepeated, Passed
      <3>2. Filled(k) => KeyMet(xwork.crm, Joined, k, k - 1)
        BY <3>1, <2>2, <2>6
      <3>3. KeyMet(xwork.crm, Joined, k, k - 1) => Met(xwork.crm, Joined, k, k)
        BY <3>1 DEF KeyMet, Met
      <3>4. Filled(k) => Met(xwork'.crm, Joined', k, k)
        BY <3>2, <3>3, <2>2, <2>4
      <3>. QED BY <3>1, <3>4, <2>4, <2>6, <2>7
    <2>10. CASE /\ xwork'.seen = xwork.seen \union {Import!Key(NextRow)}
                /\ \E c \in Joined' :
                      \/ HasPhone(xwork'.crm, c, NextRow.phone)
                      \/ HasMail(xwork'.crm, c, NextRow.email)
                           /\ (NextRow.phone # 0 => xfile.skip /\ xwork'.crm[c].phone \notin {0, NextRow.phone})
      <3>1. PICK c \in Joined' :
                      \/ HasPhone(xwork'.crm, c, NextRow.phone)
                      \/ HasMail(xwork'.crm, c, NextRow.email)
                           /\ (NextRow.phone # 0 => xfile.skip /\ xwork'.crm[c].phone \notin {0, NextRow.phone})
        BY <2>10
      <3>2. Met(xwork'.crm, Joined', k, k)
        BY <3>1, <2>2 DEF Met
      <3>3. \A i \in 1..Rows : Filled(i) /\ Import!Key(xfile.rows[i]) = Import!Key(NextRow) => KeyMet(xwork'.crm, Joined', i, k)
        <4>. SUFFICES ASSUME NEW i \in 1..Rows, Filled(i), Import!Key(xfile.rows[i]) = Import!Key(NextRow)
                      PROVE  KeyMet(xwork'.crm, Joined', i, k)
          OBVIOUS
        <4>1. \/ NextRow.phone # 0 /\ xfile.rows[i].phone = NextRow.phone
              \/ NextRow.phone = 0 /\ xfile.rows[i].phone = 0 /\ xfile.rows[i].email = NextRow.email
          BY DEF Import!Key
        <4>2. k \in 1..k
          BY <2>2
        <4>3. CASE HasPhone(xwork'.crm, c, NextRow.phone)
          BY <4>1, <4>3 DEF KeyMet, HasPhone
        <4>4. CASE HasMail(xwork'.crm, c, NextRow.email) /\ NextRow.phone = 0
          BY <4>1, <4>4 DEF KeyMet
        <4>5. CASE HasMail(xwork'.crm, c, NextRow.email) /\ NextRow.phone # 0 /\ ~HasPhone(xwork'.crm, c, NextRow.phone)
          <5>1. Astray(xwork'.crm, c, k, xfile.rows[i].phone)
            BY <4>1, <4>5, <3>1, <2>2 DEF Astray
          <5>. QED BY <5>1, <4>2 DEF KeyMet
        <4>. QED BY <4>3, <4>4, <4>5, <3>1
      <3>. QED BY <3>2, <3>3, <2>10, <2>4, <2>6, <2>7
    <2>. QED BY <2>8, <2>9, <2>10, <1>3, RowTaken
  <1>4. ASSUME Import!Writes PROVE xlist' = Joined /\ xjob'.status = xjob.status /\ xcrm' = xwork.crm
    BY <1>4 DEF Import!Writes, Joined, ImportShape
  <1>5. CASE Import!Publish \/ Import!PublishLast
    <2>1. /\ xwork.on /\ xjob.status = "running" /\ xjob'.status = "running" /\ xlist' = Joined
          /\ xfile' = xfile /\ xedits' = xedits
      BY <1>4, <1>5 DEF Import!Publish, Import!PublishLast, BatchInv
    <2>2. /\ xwork'.on = xwork.on /\ xwork'.row = xwork.row /\ xwork'.seen = xwork.seen
          /\ xwork'.crm = xwork.crm /\ xwork'.added = {}
      BY <1>1, <1>5 DEF Import!Publish, Import!PublishLast, WorkShape
    <2>3. Joined' = Joined
      BY <2>1, <2>2 DEF Joined
    <2>. QED BY <2>1, <2>2, <2>3 DEF ListedInv, Filled, Met, KeyMet, Astray
  <1>6. CASE Import!Complete
    <2>1. /\ xwork.on /\ xwork.row = Rows /\ Joined = xlist /\ xwork.crm = xcrm
          /\ xfile' = xfile /\ xcrm' = xcrm /\ xlist' = xlist /\ xedits' = xedits /\ ~xwork'.on
      BY <1>6 DEF Import!Complete, BatchInv, Joined, Import!NoWork
    <2>. QED BY <2>1 DEF ListedInv, Filled, Met, Astray
  <1>7. CASE Import!Fails \/ Import!Dies
    <2>1. ~xwork'.on /\ xjob'.status # "completed"
      BY <1>7 DEF Import!Fails, Import!Dies, Import!NoWork, BatchInv, ImportShape
    <2>. QED BY <2>1 DEF ListedInv
  <1>8. CASE Import!LookAtLists \/ UNCHANGED xvars
    <2>1. /\ xwork' = xwork /\ xfile' = xfile /\ xlist' = xlist /\ xcrm' = xcrm /\ xjob' = xjob
          /\ xedits' = xedits
      BY <1>8 DEF Import!LookAtLists, xvars
    <2>. QED BY <2>1 DEF ListedInv, Filled, Met, KeyMet, Astray, Joined
  <1>9. ASSUME NEW c \in DOMAIN xcrm, Import!AddMember(c) \/ Import!RemoveMember(c) PROVE ListedInv'
    <2>1. xedits' # 0
      BY <1>9 DEF Import!AddMember, Import!RemoveMember, Import!EditList, ImportShape
    <2>. QED BY <2>1 DEF ListedInv
  <1>. QED BY <1>2, <1>3, <1>5, <1>6, <1>7, <1>8, <1>9 DEF Import!XNext, Import!JobStep

ImportInv == ImportShape /\ BatchInv /\ TallyInv /\ CachedInv /\ ListedInv

LEMMA ImportInit ==
    ASSUME Import!XInit
    PROVE  ImportInv
  <1>1. /\ xjob = [status |-> "queued", processed |-> 0, tally |-> Import!Tally] /\ xlist = {} /\ xcount = 0
        /\ xwork = Import!NoWork /\ xedits = 0 /\ xraced = FALSE
    BY DEF Import!XInit
  <1>2. xfile \in [rows : [1..Rows -> Row], skip : BOOLEAN]
    BY DEF Import!XInit, Row
  <1>3. xcrm \in Seq(Person) /\ Unique(xcrm)
    <2>1. CASE xcrm = <<>>
      BY <2>1 DEF Unique
    <2>2. CASE xcrm = << [phone |-> 1, email |-> 1, alias |-> {}] >>
      <3>1. [phone |-> 1, email |-> 1, alias |-> {}] \in Person
        BY DEF Person
      <3>. QED BY <2>2, <3>1 DEF Unique
    <2>3. CASE xcrm = << [phone |-> 1, email |-> 0, alias |-> {}],
                         [phone |-> 0, email |-> 1, alias |-> {}] >>
      <3>1. [phone |-> 1, email |-> 0, alias |-> {}] \in Person /\ [phone |-> 0, email |-> 1, alias |-> {}] \in Person
        BY DEF Person
      <3>2. xcrm \in Seq(Person) /\ DOMAIN xcrm = {1, 2} /\ xcrm[1].phone = 1 /\ xcrm[2].phone = 0
        BY <2>3, <3>1
      <3>. QED BY <3>2 DEF Unique
    <2>. QED BY <2>1, <2>2, <2>3 DEF Import!XInit
  <1>4. ImportShape
    <2>1. Import!NoWork \in WorkShape
      <3>1. <<>> \in Seq(Person)
        OBVIOUS
      <3>. QED BY <3>1, ImportsAssumption DEF Import!NoWork, WorkShape, Import!Tally, TallyShape
    <2>. QED BY <1>1, <1>2, <1>3, <2>1 DEF ImportShape, Import!Tally, TallyShape
  <1>5. BatchInv /\ ListedInv
    BY <1>1 DEF BatchInv, ListedInv, Import!NoWork
  <1>6. TallyInv
    BY <1>1, <1>3 DEF TallyInv, Import!NoWork, Import!Tally, Total
  <1>7. CachedInv
    BY <1>1, FS_EmptySet DEF CachedInv, Import!NoWork
  <1>. QED BY <1>4, <1>5, <1>6, <1>7 DEF ImportInv

LEMMA ImportKept ==
    ASSUME ImportInv, [Import!XNext]_xvars
    PROVE  ImportInv'
  BY ImportShapeKept, BatchKept, TallyKept, CountKept, ListedKept DEF ImportInv

LEMMA ImportsFollow ==
    ASSUME ImportInv
    PROVE  Import!ImportsHold
  <1>1. Import!EveryoneListed
    <2>. SUFFICES ASSUME xjob.status = "completed", xedits = 0, NEW i \in 1..Rows, Filled(i)
                  PROVE  Import!Listed(xfile.rows[i]) \/ Import!NumberLost(i)
      BY DEF Import!EveryoneListed, Filled
    <2>1. Met(xcrm, xlist, i, i)
      BY DEF ImportInv, ListedInv
    <2>. QED BY <2>1 DEF Met, Import!Listed, Import!NumberLost, Import!HasEmail, HasMail, HasPhone,
       Astray
  <1>2. Import!CountHolds
    BY ImportCounts DEF ImportInv, CachedInv, Import!CountHolds, ImportShape
  <1>3. Import!TallyHolds
    BY DEF ImportInv, TallyInv, Import!TallyHolds, Unique, Total
  <1>. QED BY <1>1, <1>2, <1>3 DEF Import!ImportsHold

LEMMA ImportStep == [Next]_vars => [Import!XNext]_xvars
  BY DEF Next, vars, In, hvars, xvars

\* The import of a file: each row's person is on the list in the end, the
\* cached count is that of the members, the tally that of the rows, and no two
\* contacts have a number, for any file, any contacts a row may meet and any
\* batches.
THEOREM ImportsHoldAlways == Spec => []ImportsHold
  <1>1. Init => Import!XInit
    BY DEF Init
  <1>2. ImportInv => ImportsHold
    BY ImportsFollow DEF ImportsHold
  <1>3. Init => ImportInv
    BY <1>1, ImportInit
  <1>. QED BY <1>2, <1>3, ImportStep, ImportKept, PTL DEF Spec

-----------------------------------------------------------------------------
(* The events of letters *)

NoId == <<>>
EventIds == {"hook", "poll"} \X Letters \X EventKinds
LetterStatus == {"sending", "sent", "delivered", "failed"}
SessionType ==
    [open : BOOLEAN, todo : SUBSET Letters, asked : SUBSET Letters,
     told : SUBSET (Letters \X EventKinds), view : [Letters -> LetterStatus \union {"unread"}],
     wrote : SUBSET Letters, base : Nat, more : Nat, suppresses : BOOLEAN,
     ids : SUBSET EventIds, bad : BOOLEAN]

\* It works on letters that it has read.
Looked(e) ==
    /\ \A l \in e.todo \union e.wrote : e.view[l] # "unread"
    /\ \A l \in Letters, k \in EventKinds : <<l, k>> \in e.told => e.view[l] # "unread"

EventsTyped ==
    /\ eletter \in [Letters -> LetterStatus] /\ eknown \subseteq Letters
    /\ ehappened \subseteq Letters \X EventKinds
    /\ erows.once \subseteq EventIds /\ ecount \in Nat /\ esup \in BOOLEAN
    /\ esess \in [Mail!Sessions -> SessionType] /\ ebad \in BOOLEAN /\ eraced \in BOOLEAN
    /\ \A s \in Mail!Sessions : (esess[s].open \/ esess[s] = Mail!Idle) /\ Looked(esess[s])

\* Who works on a bounce or an unsubscription has the address suppressed, or
\* suppresses it when it commits.
Sure(e) == esup \/ e.suppresses
BadId(id) == Mail!Bad(id[3])
SureOf(e) ==
    e.bad \/ (\E l \in Letters : e.view[l] = "failed") \/ (\E id \in e.ids : BadId(id)) => Sure(e)
BounceInv ==
    /\ ebad \/ (\E l \in Letters : eletter[l] = "failed") \/ (\E id \in erows.once : BadId(id)) => esup
    /\ \A s \in Mail!Sessions : SureOf(esess[s])

\* One session at a time, of letters whose ids are committed, sees what is
\* there, and what it has counted are letters that it makes delivered.
NoReturns == \A l \in Letters : ~({<<l, "delivered">>, <<l, "bounce">>} \subseteq ehappened)
InRow == ~eraced /\ NoReturns
ByThen(e, l) == IF l \in e.wrote THEN e.view[l] ELSE eletter[l]
Arrived(e) == {l \in Letters : ByThen(e, l) = "delivered"}
Sees(e) ==
    /\ \A l \in Letters : e.view[l] # "unread" =>
         /\ l \in eknown
         /\ l \notin e.wrote => e.view[l] = eletter[l]
         /\ e.view[l] = "delivered" => <<l, "delivered">> \in ehappened
         /\ eletter[l] = "delivered" => e.view[l] = "delivered"
    /\ e.told \subseteq ehappened
    /\ e.more > 0 => e.base = ecount
    /\ ecount + e.more <= Cardinality(Arrived(e))
CountInOrder ==
    /\ \A l \in Letters : <<l, "opened">> \in ehappened => <<l, "delivered">> \in ehappened
    /\ InRow =>
         /\ \A s, t \in Mail!Sessions : esess[s].open /\ esess[t].open => s = t
         /\ \A l \in Letters : eletter[l] = "delivered" => l \in eknown /\ <<l, "delivered">> \in ehappened
         /\ ecount <= Cardinality({l \in Letters : eletter[l] = "delivered"})
         /\ \A s \in Mail!Sessions : Sees(esess[s])

EventsInv == EventsTyped /\ BounceInv /\ CountInOrder

LEMMA MailLibrary ==
    \A S : Mail!Cardinality(S) = Cardinality(S) /\ Mail!Max(S) = Max(S) /\ Mail!Min(S) = Min(S)
  BY DEF Mail!Cardinality, Cardinality, Mail!Max, Max, Mail!Min, Min

LEMMA LettersFinite ==
    /\ IsFiniteSet(Letters) /\ Letters \subseteq Nat
    /\ \A S \in SUBSET Letters : IsFiniteSet(S) /\ Cardinality(S) \in Nat
    /\ \A S, T \in SUBSET Letters : S \subseteq T => Cardinality(S) <= Cardinality(T)
    /\ \A S \in SUBSET Letters : \A l \in Letters \ S :
         Cardinality(S \union {l}) = Cardinality(S) + 1
  <1>1. IsFiniteSet(Letters) /\ Letters \subseteq Nat
    <2>1. PICK n \in Nat : Letters = 1..n
      BY EventsAssumption
    <2>. QED BY <2>1, FS_Interval
  <1>2. \A S \in SUBSET Letters : IsFiniteSet(S) /\ Cardinality(S) \in Nat
    BY <1>1, FS_Subset, FS_CardinalityType
  <1>3. \A S, T \in SUBSET Letters : S \subseteq T => Cardinality(S) <= Cardinality(T)
    BY <1>2, FS_Subset
  <1>4. \A S \in SUBSET Letters : \A l \in Letters \ S : Cardinality(S \union {l}) = Cardinality(S) + 1
    BY <1>2, FS_AddElement
  <1>. QED BY <1>1, <1>2, <1>3, <1>4

LEMMA IdleSession ==
    /\ Mail!Idle \in SessionType /\ ~Mail!Idle.open /\ ~Mail!Idle.bad /\ ~Mail!Idle.suppresses
    /\ Mail!Idle.ids = {} /\ Mail!Idle.todo = {} /\ Mail!Idle.told = {} /\ Mail!Idle.wrote = {} /\ Mail!Idle.more = 0
    /\ \A l \in Letters : Mail!Idle.view[l] = "unread"
  BY DEF Mail!Idle, SessionType, Mail!Unread

\* The status that an event gives to a letter, and whether it counts it.
StatusOf(k, status) ==
    CASE k = "delivered" -> "delivered"
      [] k = "opened" /\ status \in {"sent", "sending"} -> "delivered"
      [] k = "bounce" -> "failed"
      [] OTHER -> status
Bumps(k, status) == k = "delivered" /\ status # "delivered"

\* What an event leaves of a session, field by field.
LEMMA AppliedIs ==
    ASSUME NEW e \in SessionType, NEW l \in Letters, NEW k \in EventKinds,
           NEW id \in EventIds \union {NoId}, EventsTyped, e.view[l] # "unread",
           id \notin erows.once \union e.ids
    PROVE  /\ Mail!Applied(e, l, k, id) \in SessionType
           /\ StatusOf(k, e.view[l]) \in LetterStatus
           /\ e.open => Mail!Applied(e, l, k, id).open
           /\ Mail!Applied(e, l, k, id).bad => e.bad
           /\ Mail!Applied(e, l, k, id).todo = e.todo /\ Mail!Applied(e, l, k, id).told = e.told
           /\ Mail!Applied(e, l, k, id).view[l] = StatusOf(k, e.view[l])
           /\ \A m \in Letters \ {l} : Mail!Applied(e, l, k, id).view[m] = e.view[m]
           /\ StatusOf(k, e.view[l]) = e.view[l] => Mail!Applied(e, l, k, id).wrote = e.wrote
           /\ StatusOf(k, e.view[l]) # e.view[l] => Mail!Applied(e, l, k, id).wrote = e.wrote \union {l}
           /\ Bumps(k, e.view[l]) => Mail!Applied(e, l, k, id).more = e.more + 1
           /\ ~Bumps(k, e.view[l]) => Mail!Applied(e, l, k, id).more = e.more
           /\ Bumps(k, e.view[l]) /\ e.more = 0 => Mail!Applied(e, l, k, id).base = ecount
           /\ ~(Bumps(k, e.view[l]) /\ e.more = 0) => Mail!Applied(e, l, k, id).base = e.base
           /\ e.suppresses \/ (Mail!Bad(k) /\ ~esup) => Mail!Applied(e, l, k, id).suppresses
           /\ id = NoId => Mail!Applied(e, l, k, id).ids = e.ids
           /\ id # NoId => Mail!Applied(e, l, k, id).ids = e.ids \union {id}
  <1>. DEFINE new == StatusOf(k, e.view[l])
              bump == Bumps(k, e.view[l])
              wrote == IF new = e.view[l] THEN e.wrote ELSE e.wrote \union {l}
              base == IF bump /\ e.more = 0 THEN ecount ELSE e.base
              more == IF bump THEN e.more + 1 ELSE e.more
              supp == e.suppresses \/ (Mail!Bad(k) /\ ~esup)
              ids == IF id = NoId THEN e.ids ELSE e.ids \union {id}
  <1>1. new \in LetterStatus
    BY DEF SessionType, LetterStatus, StatusOf
  <1>2. wrote \in SUBSET Letters /\ base \in Nat /\ more \in Nat /\ supp \in BOOLEAN
        /\ ids \in SUBSET EventIds
    BY DEF SessionType, EventsTyped
  <1>3. Mail!Applied(e, l, k, id) =
          [e EXCEPT !.view = [e.view EXCEPT ![l] = new], !.wrote = wrote, !.base = base,
                    !.more = more, !.suppresses = supp, !.ids = ids]
    BY DEF Mail!Applied, Mail!Counts, SessionType, StatusOf, Bumps, Mail!Bad, NoId
  <1>4. [e.view EXCEPT ![l] = new] \in [Letters -> LetterStatus \union {"unread"}]
    BY <1>1 DEF SessionType
  <1>. HIDE DEF new, bump, wrote, base, more, supp, ids
  <1>5. /\ Mail!Applied(e, l, k, id) \in SessionType
        /\ Mail!Applied(e, l, k, id).open = e.open /\ Mail!Applied(e, l, k, id).todo = e.todo
        /\ Mail!Applied(e, l, k, id).told = e.told
        /\ Mail!Applied(e, l, k, id).bad = e.bad
        /\ Mail!Applied(e, l, k, id).view = [e.view EXCEPT ![l] = new]
        /\ Mail!Applied(e, l, k, id).wrote = wrote /\ Mail!Applied(e, l, k, id).base = base
        /\ Mail!Applied(e, l, k, id).more = more /\ Mail!Applied(e, l, k, id).suppresses = supp
        /\ Mail!Applied(e, l, k, id).ids = ids
    BY <1>2, <1>3, <1>4 DEF SessionType
  <1>6. /\ Mail!Applied(e, l, k, id).view[l] = new
        /\ \A m \in Letters \ {l} : Mail!Applied(e, l, k, id).view[m] = e.view[m]
    BY <1>5 DEF SessionType
  <1>. QED BY <1>1, <1>5, <1>6 DEF new, bump, wrote, base, more, supp, ids

LEMMA AppliedSure ==
    ASSUME NEW e \in SessionType, NEW l \in Letters, NEW k \in EventKinds,
           NEW id \in EventIds \union {NoId}, EventsTyped, BounceInv, e.view[l] # "unread",
           id # NoId => id[3] = k, Looked(e),
           e.bad => Sure(e) \/ Mail!Bad(k),
           (\E m \in Letters : e.view[m] = "failed") \/ (\E i \in e.ids : BadId(i)) => Sure(e)
    PROVE  /\ Mail!Applied(e, l, k, id) \in SessionType /\ SureOf(Mail!Applied(e, l, k, id))
           /\ Looked(Mail!Applied(e, l, k, id))
  <1>1. CASE id \in erows.once \union e.ids
    <2>1. Mail!Applied(e, l, k, id) = e
      BY <1>1 DEF Mail!Applied
    <2>2. NoId \notin EventIds
      BY DEF EventIds, NoId
    <2>3. id # NoId
      BY <1>1, <2>2 DEF EventsTyped, SessionType
    <2>4. Mail!Bad(k) => Sure(e)
      BY <1>1, <2>3 DEF BounceInv, BadId, Sure
    <2>. QED BY <2>1, <2>4 DEF SureOf
  <1>2. CASE id \notin erows.once \union e.ids
    <2>. DEFINE r == Mail!Applied(e, l, k, id)
    <2>0. /\ r.todo = e.todo /\ r.told = e.told
          /\ r.view[l] = StatusOf(k, e.view[l]) /\ \A m \in Letters \ {l} : r.view[m] = e.view[m]
          /\ StatusOf(k, e.view[l]) \in LetterStatus
          /\ r.wrote = e.wrote \/ r.wrote = e.wrote \union {l}
      BY <1>2, AppliedIs
    <2>1. /\ r \in SessionType /\ (r.bad => e.bad)
          /\ e.suppresses \/ (Mail!Bad(k) /\ ~esup) => r.suppresses
          /\ id = NoId => r.ids = e.ids
          /\ id # NoId => r.ids = e.ids \union {id}
      BY <1>2, AppliedIs
    <2>2. \A m \in Letters : r.view[m] = "failed" =>
            (m = l /\ Mail!Bad(k)) \/ e.view[m] = "failed"
      <3>1. r.view[l] = StatusOf(k, e.view[l]) /\ \A m \in Letters \ {l} : r.view[m] = e.view[m]
        BY <1>2, AppliedIs
      <3>2. StatusOf(k, e.view[l]) = "failed" => Mail!Bad(k) \/ e.view[l] = "failed"
        BY DEF StatusOf, Mail!Bad
      <3>. QED BY <3>1, <3>2
    <2>. HIDE DEF r
    <2>3. Mail!Bad(k) => Sure(r)
      BY <2>1 DEF Sure
    <2>4. Sure(e) => Sure(r)
      BY <2>1 DEF Sure
    <2>5. \A m \in Letters : r.view[m] = "failed" => Sure(r)
      BY <2>2, <2>3, <2>4
    <2>6. \A i \in r.ids : BadId(i) => Sure(r)
      BY <2>1, <2>3, <2>4 DEF BadId
    <2>7. SureOf(r)
      BY <2>1, <2>3, <2>4, <2>5, <2>6 DEF SureOf
    <2>8. e.todo \subseteq Letters /\ e.wrote \subseteq Letters /\ StatusOf(k, e.view[l]) # "unread"
      BY <2>0 DEF SessionType, LetterStatus
    <2>9. \A m \in Letters : e.view[m] # "unread" => r.view[m] # "unread"
      BY <2>0, <2>8
    <2>10. Looked(r)
      BY <2>0, <2>8, <2>9 DEF Looked
    <2>. QED BY <2>1, <2>7, <2>10 DEF r
  <1>. QED BY <1>1, <1>2

\* What an event makes of a session that is alone: a letter counted is one
\* more letter delivered.
LEMMA AppliedSees ==
    ASSUME NEW e \in SessionType, NEW l \in Letters, NEW k \in EventKinds,
           NEW id \in EventIds \union {NoId}, EventsTyped, CountInOrder, InRow,
           e.view[l] # "unread", <<l, k>> \in ehappened, Sees(e)
    PROVE  Sees(Mail!Applied(e, l, k, id))
  <1>1. CASE id \in erows.once \union e.ids
    BY <1>1 DEF Mail!Applied
  <1>2. CASE id \notin erows.once \union e.ids
    <2>. DEFINE r == Mail!Applied(e, l, k, id)
                new == StatusOf(k, e.view[l])
                bump == Bumps(k, e.view[l])
    <2>1. /\ r \in SessionType /\ r.todo = e.todo /\ r.told = e.told
          /\ r.view[l] = new /\ \A m \in Letters \ {l} : r.view[m] = e.view[m]
          /\ new \in LetterStatus
          /\ new = e.view[l] => r.wrote = e.wrote
          /\ new # e.view[l] => r.wrote = e.wrote \union {l}
          /\ bump => r.more = e.more + 1
          /\ ~bump => r.more = e.more
          /\ bump /\ e.more = 0 => r.base = ecount
          /\ ~(bump /\ e.more = 0) => r.base = e.base
      BY <1>2, AppliedIs
    <2>2. new = "delivered" => <<l, "delivered">> \in ehappened
      BY DEF CountInOrder, Sees, StatusOf
    <2>3. e.view[l] = "delivered" => new = "delivered"
      BY DEF InRow, NoReturns, Sees, StatusOf
    <2>4. bump => new = "delivered"
      BY DEF Bumps, StatusOf
    <2>. HIDE DEF r, new, bump
    <2>6. new # "unread" /\ e.wrote \subseteq Letters /\ e.todo \subseteq Letters
      BY <2>1 DEF LetterStatus, SessionType
    <2>7. \A m \in Letters : ByThen(r, m) = IF m = l THEN new ELSE ByThen(e, m)
      <3>1. ByThen(r, l) = new
        <4>1. CASE l \in r.wrote
          BY <4>1, <2>1 DEF ByThen
        <4>2. CASE l \notin r.wrote
          BY <4>2, <2>1 DEF ByThen, Sees
        <4>. QED BY <4>1, <4>2
      <3>2. \A m \in Letters \ {l} : ByThen(r, m) = ByThen(e, m)
        BY <2>1 DEF ByThen
      <3>. QED BY <3>1, <3>2
    <2>8. ByThen(e, l) = e.view[l]
      BY DEF ByThen, Sees
    <2>9. ecount + r.more <= Cardinality(Arrived(r))
      <3>1. Arrived(e) \subseteq Arrived(r) /\ Arrived(r) \subseteq Letters
        BY <2>3, <2>7, <2>8 DEF Arrived
      <3>2. Cardinality(Arrived(e)) \in Nat /\ Cardinality(Arrived(r)) \in Nat
            /\ Cardinality(Arrived(e)) <= Cardinality(Arrived(r))
        BY <3>1, LettersFinite DEF Arrived
      <3>3. bump => Cardinality(Arrived(r)) = Cardinality(Arrived(e)) + 1
        <4>. SUFFICES ASSUME bump PROVE Cardinality(Arrived(r)) = Cardinality(Arrived(e)) + 1
          OBVIOUS
        <4>1. l \notin Arrived(e) /\ Arrived(e) \subseteq Letters
          BY <2>8 DEF Arrived, bump, Bumps
        <4>2. Arrived(r) = Arrived(e) \union {l}
          BY <2>4, <2>7 DEF Arrived
        <4>. QED BY <4>1, <4>2, LettersFinite
      <3>4. ecount + e.more <= Cardinality(Arrived(e)) /\ ecount \in Nat /\ e.more \in Nat
        BY DEF Sees, EventsTyped, SessionType
      <3>. QED BY <2>1, <3>2, <3>3, <3>4
    <2>10. r.more > 0 => r.base = ecount
      BY <2>1 DEF Sees, SessionType
    <2>11. \A m \in Letters : r.view[m] # "unread" =>
             /\ m \in eknown
             /\ m \notin r.wrote => r.view[m] = eletter[m]
             /\ r.view[m] = "delivered" => <<m, "delivered">> \in ehappened
             /\ eletter[m] = "delivered" => r.view[m] = "delivered"
      <3>. SUFFICES ASSUME NEW m \in Letters, r.view[m] # "unread"
                    PROVE  /\ m \in eknown
                           /\ m \notin r.wrote => r.view[m] = eletter[m]
                           /\ r.view[m] = "delivered" => <<m, "delivered">> \in ehappened
                           /\ eletter[m] = "delivered" => r.view[m] = "delivered"
        OBVIOUS
      <3>1. CASE m = l
        BY <3>1, <2>1, <2>2, <2>3, <2>1 DEF Sees
      <3>2. CASE m # l
        BY <3>2, <2>1 DEF Sees
      <3>. QED BY <3>1, <3>2
    <2>12. r.told \subseteq ehappened
      BY <2>1 DEF Sees
    <2>13. Sees(r)
      BY <2>9, <2>10, <2>11, <2>12 DEF Sees
    <2>. QED BY <2>13 DEF r
  <1>. QED BY <1>1, <1>2

\* A session that opens or goes on, and nothing else.
LEMMA SessionGoesOn ==
    ASSUME EventsInv, NEW s \in Mail!Sessions, NEW new \in SessionType,
           esess' = [esess EXCEPT ![s] = new], new.open \/ new = Mail!Idle,
           UNCHANGED <<eletter, eknown, ehappened, erows, ecount, esup, ebad>>,
           eraced' \in BOOLEAN, eraced => eraced',
           SureOf(new), Looked(new),
           InRow /\ ~eraced' => Sees(new) /\ (new.open => \A t \in Mail!Sessions \ {s} : ~esess[t].open)
    PROVE  EventsInv'
  <1>1. esess'[s] = new /\ \A t \in Mail!Sessions \ {s} : esess'[t] = esess[t]
    BY DEF EventsInv, EventsTyped
  <1>2. EventsTyped'
    BY <1>1 DEF EventsInv, EventsTyped
  <1>3. BounceInv'
    <2>1. \A t \in Mail!Sessions : SureOf(esess'[t])
      BY <1>1 DEF EventsInv, BounceInv
    <2>2. \A t \in Mail!Sessions : SureOf(esess[t])'
      BY <2>1 DEF SureOf, Sure
    <2>. QED BY <2>2 DEF EventsInv, BounceInv
  <1>4. CountInOrder'
    <2>. SUFFICES ASSUME InRow'
                  PROVE  (/\ \A t, u \in Mail!Sessions : esess[t].open /\ esess[u].open => t = u
                          /\ \A t \in Mail!Sessions : Sees(esess[t]))'
      BY DEF EventsInv, CountInOrder, InRow, NoReturns
    <2>1. InRow /\ ~eraced'
      BY DEF InRow, NoReturns
    <2>2. \A t, u \in Mail!Sessions : esess'[t].open /\ esess'[u].open => t = u
      BY <1>1, <2>1, IdleSession DEF EventsInv, CountInOrder
    <2>3. \A t \in Mail!Sessions : Sees(esess'[t])
      BY <1>1, <2>1 DEF EventsInv, CountInOrder
    <2>4. \A t \in Mail!Sessions : Sees(esess[t])'
      <3>. SUFFICES ASSUME NEW t \in Mail!Sessions PROVE Sees(esess[t])'
        OBVIOUS
      <3>1. Arrived(esess[t])' = Arrived(esess'[t])
        BY DEF Arrived, ByThen
      <3>. QED BY <2>3, <3>1 DEF Sees
    <2>. QED BY <2>2, <2>4
  <1>. QED BY <1>2, <1>3, <1>4 DEF EventsInv

\* A session that has looked at letters and done nothing.
LEMMA SeenSees ==
    ASSUME EventsInv, NEW rows \in SUBSET Letters, NEW e \in SessionType,
           e.view = Mail!Seen(rows), e.wrote = {}, e.told = {}, e.todo \subseteq rows, e.more = 0
    PROVE  /\ Looked(e)
           /\ (\E l \in Letters : e.view[l] = "failed") => esup
           /\ \A l \in rows : e.view[l] = eletter[l] /\ e.view[l] # "unread"
           /\ InRow /\ rows \subseteq eknown => Sees(e)
  <1>1. /\ \A l \in Letters : e.view[l] = IF l \in rows THEN eletter[l] ELSE "unread"
        /\ \A l \in Letters : eletter[l] # "unread"
    BY DEF Mail!Seen, EventsInv, EventsTyped, LetterStatus
  <1>2. Looked(e)
    BY <1>1 DEF Looked
  <1>3. (\E l \in Letters : e.view[l] = "failed") => esup
    BY <1>1 DEF EventsInv, BounceInv
  <1>4. InRow /\ rows \subseteq eknown => Sees(e)
    <2>. SUFFICES ASSUME InRow, rows \subseteq eknown PROVE Sees(e)
      OBVIOUS
    <2>1. Arrived(e) = {l \in Letters : eletter[l] = "delivered"}
      BY DEF Arrived, ByThen
    <2>2. ecount + e.more <= Cardinality(Arrived(e))
      BY <2>1 DEF EventsInv, EventsTyped, CountInOrder
    <2>3. \A l \in Letters : eletter[l] = "delivered" => <<l, "delivered">> \in ehappened
      BY DEF EventsInv, CountInOrder
    <2>4. e.told \subseteq ehappened /\ ~(e.more > 0)
      OBVIOUS
    <2>5. \A l \in Letters : e.view[l] # "unread" =>
         /\ l \in eknown
         /\ l \notin e.wrote => e.view[l] = eletter[l]
         /\ e.view[l] = "delivered" => <<l, "delivered">> \in ehappened
         /\ eletter[l] = "delivered" => e.view[l] = "delivered"
      BY <1>1, <2>3
    <2>. QED BY <2>2, <2>4, <2>5 DEF Sees
  <1>. QED BY <1>1, <1>2, <1>3, <1>4

LEMMA IdleKept ==
    ASSUME EventsInv
    PROVE  SureOf(Mail!Idle) /\ Looked(Mail!Idle) /\ (InRow => Sees(Mail!Idle))
  <1>1. Mail!Idle.view = Mail!Seen({})
    BY DEF Mail!Idle, Mail!Seen, Mail!Unread
  <1>2. SureOf(Mail!Idle)
    BY IdleSession DEF SureOf
  <1>. QED BY <1>1, <1>2, IdleSession, SeenSees

LEMMA FoundIs ==
    ASSUME EventsTyped, NEW l \in Letters
    PROVE  Mail!Found(l) \in Letters /\ (l \in eknown => Mail!Found(l) = l)
  <1>1. PICK n \in Nat : Letters = 1..n
    BY EventsAssumption
  <1>2. n \in Letters /\ \A m \in Letters : n >= m
    BY <1>1
  <1>3. Max(Letters) \in Letters
    BY <1>2 DEF Max
  <1>. QED BY <1>3, MailLibrary DEF Mail!Found

LEMMA HookKept ==
    ASSUME EventsInv, NEW h \in Hooks, NEW l \in Letters, NEW k \in EventKinds,
           Mail!Hook(h, l, k)
    PROVE  EventsInv'
  <1>. DEFINE f == Mail!Found(l)
              id == Mail!HookId(l, k)
              base == [Mail!Idle EXCEPT !.open = TRUE, !.view = Mail!Seen({f}), !.bad = Mail!Bad(k)]
              new == Mail!Applied(base, f, k, id)
  <1>1. f \in Letters /\ (l \in eknown => f = l) /\ EventsTyped
    BY FoundIs DEF EventsInv
  <1>2. id \in EventIds \union {NoId} /\ (id # NoId => id[3] = k)
    BY DEF Mail!HookId, EventIds, NoId
  <1>3. CASE Mail!Raises(id)
    <2>1. UNCHANGED <<eletter, eknown, ehappened, erows, ecount, esup, esess, ebad, eraced>>
      BY <1>3 DEF Mail!Hook
    <2>. QED BY <2>1 DEF EventsInv, EventsTyped, BounceInv, SureOf, Sure, CountInOrder, InRow,
       NoReturns,
                    Sees, Arrived, ByThen, Looked
  <1>4. CASE ~Mail!Raises(id)
    <2>1. /\ esess' = [esess EXCEPT ![h] = new] /\ <<l, k>> \in ehappened
          /\ eraced' = (eraced \/ Mail!Overlaps(h) \/ l \notin eknown)
          /\ UNCHANGED <<eletter, eknown, ehappened, erows, ecount, esup, ebad>>
      BY <1>4 DEF Mail!Hook
    <2>2. Mail!Seen({f}) \in [Letters -> LetterStatus \union {"unread"}]
      BY <1>1 DEF Mail!Seen, EventsTyped
    <2>3. /\ base \in SessionType /\ base.open /\ (base.bad => Mail!Bad(k)) /\ base.view = Mail!Seen({f})
          /\ base.wrote = {} /\ base.told = {} /\ base.todo = {} /\ base.more = 0 /\ base.ids = {}
      <3>1. Mail!Bad(k) \in BOOLEAN
        BY DEF Mail!Bad
      <3>2. base \in SessionType
        BY <2>2, <3>1, IdleSession DEF SessionType
      <3>3. base.open /\ (base.bad => Mail!Bad(k))
        BY <3>1, IdleSession DEF SessionType
      <3>4. /\ base.view = Mail!Seen({f}) /\ base.wrote = {} /\ base.told = {} /\ base.todo = {}
            /\ base.more = 0 /\ base.ids = {}
        BY IdleSession DEF SessionType
      <3>. QED BY <3>2, <3>3, <3>4
    <2>. HIDE DEF base, id
    <2>4. Looked(base) /\ base.view[f] # "unread" /\ ((\E m \in Letters : base.view[m] = "failed") => esup)
          /\ (InRow /\ f \in eknown => Sees(base))
      <3>1. {f} \in SUBSET Letters /\ base.todo \subseteq {f} /\ f \in {f}
            /\ (f \in eknown => {f} \subseteq eknown)
        BY <1>1, <2>3
      <3>2. /\ Looked(base) /\ ((\E m \in Letters : base.view[m] = "failed") => esup)
            /\ \A m \in {f} : base.view[m] # "unread"
            /\ (InRow /\ {f} \subseteq eknown => Sees(base))
        BY <2>3, <3>1, SeenSees
      <3>. QED BY <3>1, <3>2
    <2>5. new \in SessionType /\ SureOf(new) /\ Looked(new)
      BY <1>1, <1>2, <2>3, <2>4, AppliedSure DEF EventsInv, Sure
    <2>6. InRow /\ l \in eknown => Sees(new)
      BY <1>1, <1>2, <2>1, <2>3, <2>4, AppliedSees DEF EventsInv
    <2>7. new.open
      <3>1. CASE id \in erows.once \union base.ids
        BY <2>3, <3>1 DEF Mail!Applied
      <3>2. CASE id \notin erows.once \union base.ids
        BY <1>1, <1>2, <2>3, <2>4, <3>2, AppliedIs
      <3>. QED BY <3>1, <3>2
    <2>8. ~eraced' => l \in eknown /\ \A t \in Mail!Sessions \ {h} : ~esess[t].open
      BY <2>1 DEF Mail!Overlaps
    <2>9. eraced' \in BOOLEAN /\ (eraced => eraced') /\ h \in Mail!Sessions
      BY <2>1 DEF Mail!Sessions
    <2>. HIDE DEF new
    <2>. QED BY <2>1, <2>5, <2>6, <2>7, <2>8, <2>9, SessionGoesOn
  <1>. QED BY <1>3, <1>4

LEMMA PassKept ==
    ASSUME EventsInv, NEW p \in Polls, Mail!Pass(p)
    PROVE  EventsInv'
  <1>. DEFINE rows == {l \in Mail!Unasked : Cardinality({m \in Mail!Unasked : m < l}) < AskLimit}
              new == [Mail!Idle EXCEPT !.open = TRUE, !.todo = rows, !.view = Mail!Seen(rows)]
  <1>1. /\ esess' = [esess EXCEPT ![p] = new] /\ eraced' = (eraced \/ Mail!Overlaps(p)) /\ p \in Mail!Sessions
        /\ UNCHANGED <<eletter, eknown, ehappened, erows, ecount, esup, ebad>>
    BY MailLibrary DEF Mail!Pass, Mail!Sessions
  <1>2. rows \subseteq Letters /\ rows \subseteq eknown
    BY DEF Mail!Unasked, Mail!Waiting, EventsInv, EventsTyped
  <1>. HIDE DEF rows
  <1>3. Mail!Seen(rows) \in [Letters -> LetterStatus \union {"unread"}]
    BY DEF Mail!Seen, EventsInv, EventsTyped
  <1>4. /\ new \in SessionType /\ new.todo = rows /\ new.view = Mail!Seen(rows)
        /\ new.wrote = {} /\ new.told = {} /\ new.more = 0 /\ new.ids = {}
    BY <1>2, <1>3, IdleSession DEF SessionType
  <1>5. new.open /\ ~new.bad
    BY IdleSession DEF SessionType
  <1>. HIDE DEF new
  <1>6. Looked(new) /\ ((\E m \in Letters : new.view[m] = "failed") => esup) /\ (InRow => Sees(new))
    BY <1>2, <1>4, SeenSees
  <1>7. SureOf(new)
    BY <1>4, <1>5, <1>6 DEF SureOf, Sure
  <1>8. ~eraced' => \A t \in Mail!Sessions \ {p} : ~esess[t].open
    BY <1>1 DEF Mail!Overlaps
  <1>9. eraced' \in BOOLEAN /\ (eraced => eraced')
    BY <1>1
  <1>. QED BY <1>1, <1>4, <1>5, <1>6, <1>7, <1>8, <1>9, SessionGoesOn

\* A session that has less to do, or knows what it was told.
LEMMA LessToDo ==
    ASSUME EventsInv, NEW p \in Mail!Sessions, NEW new \in SessionType,
           esess' = [esess EXCEPT ![p] = new], esess[p].open, new.open,
           UNCHANGED <<eletter, eknown, ehappened, erows, ecount, esup, ebad, eraced>>,
           new.todo \subseteq esess[p].todo, new.view = esess[p].view,
           new.wrote = esess[p].wrote, new.base = esess[p].base, new.more = esess[p].more,
           new.ids = esess[p].ids, new.bad => esess[p].bad, esess[p].suppresses => new.suppresses,
           new.told \subseteq ehappened,
           \A l \in Letters, k \in EventKinds : <<l, k>> \in new.told => new.view[l] # "unread"
    PROVE  EventsInv'
  <1>1. SureOf(new)
    BY DEF EventsInv, BounceInv, SureOf, Sure
  <1>2. Looked(new)
    BY DEF EventsInv, EventsTyped, Looked
  <1>3. InRow => Sees(new)
    <2>1. Arrived(new) = Arrived(esess[p])
      BY DEF Arrived, ByThen
    <2>. QED BY <2>1 DEF EventsInv, CountInOrder, Sees
  <1>4. InRow => \A t \in Mail!Sessions \ {p} : ~esess[t].open
    BY DEF EventsInv, CountInOrder
  <1>5. eraced' \in BOOLEAN /\ (eraced => eraced')
    BY DEF EventsInv, EventsTyped
  <1>. QED BY <1>1, <1>2, <1>3, <1>4, <1>5, SessionGoesOn

LEMMA AskKept ==
    ASSUME EventsInv, NEW p \in Polls, Mail!Ask(p) \/ Mail!AskFails(p)
    PROVE  EventsInv'
  <1>. DEFINE e == esess[p]
              row == Mail!Row(p)
              stamped == Mail!Stamped(p)
              told == ehappened \intersect ({row} \X EventKinds)
  <1>1. p \in Mail!Sessions /\ e \in SessionType /\ e.todo # {} /\ e.told = {} /\ Looked(e)
        /\ UNCHANGED <<eletter, eknown, ehappened, erows, ecount, esup, ebad, eraced>>
    BY DEF Mail!Ask, Mail!AskFails, Mail!Asks, Mail!Sessions, EventsInv, EventsTyped
  <1>2. row \in e.todo /\ row \in Letters /\ e.view[row] # "unread"
    <2>1. e.todo \subseteq Letters /\ Letters \subseteq Nat
      BY <1>1, LettersFinite DEF SessionType
    <2>2. \E x \in e.todo : \A y \in e.todo : x <= y
      BY <1>1, <2>1, Least
    <2>3. row \in e.todo
      BY <2>2, MailLibrary DEF Mail!Row, Min
    <2>. QED BY <1>1, <2>1, <2>3 DEF Looked
  <1>3. e.open
    BY <1>1, IdleSession DEF EventsInv, EventsTyped
  <1>. HIDE DEF row
  <1>4. stamped = [e EXCEPT !.todo = e.todo \ {row}, !.asked = e.asked \union {row}]
    BY <1>1 DEF Mail!Stamped, SessionType, row
  <1>5. /\ stamped \in SessionType /\ stamped.todo \subseteq e.todo /\ stamped.view = e.view
        /\ stamped.wrote = e.wrote /\ stamped.base = e.base /\ stamped.more = e.more
        /\ stamped.ids = e.ids /\ stamped.told = {}
    <2>1. e.todo \ {row} \in SUBSET Letters /\ e.asked \union {row} \in SUBSET Letters
      BY <1>1, <1>2 DEF SessionType
    <2>. HIDE DEF stamped
    <2>2. stamped \in SessionType
      BY <1>1, <1>4, <2>1 DEF SessionType
    <2>3. /\ stamped.todo \subseteq e.todo /\ stamped.view = e.view
          /\ stamped.wrote = e.wrote /\ stamped.base = e.base /\ stamped.more = e.more
          /\ stamped.ids = e.ids /\ stamped.told = e.told
      BY <1>1, <1>4 DEF SessionType
    <2>. QED BY <1>1, <2>2, <2>3
  <1>6. stamped.open /\ (stamped.bad => e.bad) /\ (e.suppresses => stamped.suppresses)
    BY <1>1, <1>3, <1>4 DEF SessionType
  <1>. HIDE DEF stamped
  <1>7. CASE Mail!AskFails(p)
    <2>1. esess' = [esess EXCEPT ![p] = stamped]
      BY <1>7 DEF Mail!AskFails, stamped
    <2>. QED BY <2>1, <1>1, <1>3, <1>5, <1>6, LessToDo
  <1>8. CASE Mail!Ask(p)
    <2>. DEFINE new == [stamped EXCEPT !.told = told]
    <2>1. esess' = [esess EXCEPT ![p] = new]
      BY <1>8 DEF Mail!Ask, stamped, row
    <2>2. told \subseteq ehappened /\ told \subseteq Letters \X EventKinds
          /\ \A l \in Letters, k \in EventKinds : <<l, k>> \in told => l = row
      BY DEF EventsInv, EventsTyped
    <2>. HIDE DEF told
    <2>3. /\ new \in SessionType /\ new.todo \subseteq e.todo /\ new.view = e.view
          /\ new.wrote = e.wrote /\ new.base = e.base /\ new.more = e.more
          /\ new.ids = e.ids /\ new.told = told
      BY <1>5, <2>2 DEF SessionType
    <2>4. new.open /\ (new.bad => e.bad) /\ (e.suppresses => new.suppresses)
      BY <1>5, <1>6 DEF SessionType
    <2>. HIDE DEF new
    <2>5. \A l \in Letters, k \in EventKinds : <<l, k>> \in new.told => new.view[l] # "unread"
      BY <1>2, <2>2, <2>3
    <2>. QED BY <1>1, <1>3, <2>1, <2>2, <2>3, <2>4, <2>5, LessToDo
  <1>. QED BY <1>7, <1>8

LEMMA ApplyKept ==
    ASSUME EventsInv, NEW p \in Polls, NEW l \in Letters, NEW k \in EventKinds,
           Mail!Apply(p, l, k)
    PROVE  EventsInv'
  <1>. DEFINE e == esess[p]
              id == Mail!PollId(l, k)
              base == [e EXCEPT !.told = e.told \ {<<l, k>>}]
              new == Mail!Applied(base, l, k, id)
  <1>1. p \in Mail!Sessions /\ e \in SessionType /\ <<l, k>> \in e.told /\ Looked(e) /\ EventsTyped
        /\ UNCHANGED <<eletter, eknown, ehappened, erows, ecount, esup, ebad, eraced>>
    BY DEF Mail!Apply, Mail!Sessions, EventsInv, EventsTyped
  <1>2. e.open /\ e.view[l] # "unread"
    BY <1>1, IdleSession DEF EventsInv, EventsTyped, Looked
  <1>3. id \in EventIds \union {NoId} /\ (id # NoId => id[3] = k)
    BY DEF Mail!PollId, EventIds
  <1>4. CASE Mail!Raises(id)
    <2>1. esess' = [esess EXCEPT ![p] = Mail!Idle]
      BY <1>4 DEF Mail!Apply
    <2>2. eraced' \in BOOLEAN /\ (eraced => eraced')
      BY <1>1 DEF EventsTyped
    <2>. QED BY <1>1, <2>1, <2>2, IdleKept, IdleSession, SessionGoesOn
  <1>5. CASE ~Mail!Raises(id)
    <2>1. esess' = [esess EXCEPT ![p] = new]
      BY <1>5, <1>1 DEF Mail!Apply, SessionType
    <2>2. /\ base \in SessionType /\ base.todo = e.todo /\ base.view = e.view
          /\ base.wrote = e.wrote /\ base.base = e.base /\ base.more = e.more
          /\ base.ids = e.ids /\ base.told \subseteq e.told
      BY <1>1 DEF SessionType
    <2>3. base.open /\ (base.bad => e.bad) /\ (e.suppresses => base.suppresses)
      BY <1>1, <1>2 DEF SessionType
    <2>. HIDE DEF base, id
    <2>4. Looked(base)
      BY <1>1, <2>2 DEF Looked
    <2>5. SureOf(e)
      BY <1>1 DEF EventsInv, BounceInv
    <2>6. Sure(e) => Sure(base)
      BY <2>3 DEF Sure
    <2>7. /\ base.bad => Sure(base)
          /\ (\E m \in Letters : base.view[m] = "failed") \/ (\E i \in base.ids : BadId(i)) => Sure(base)
      BY <2>2, <2>3, <2>5, <2>6 DEF SureOf
    <2>8. new \in SessionType /\ SureOf(new) /\ Looked(new)
      BY <1>1, <1>2, <1>3, <2>2, <2>4, <2>7, AppliedSure DEF EventsInv
    <2>9. InRow => Sees(base) /\ <<l, k>> \in ehappened
      <3>1. Arrived(base) = Arrived(e)
        BY <2>2 DEF Arrived, ByThen
      <3>. QED BY <1>1, <2>2, <3>1 DEF EventsInv, CountInOrder, Sees
    <2>10. InRow => Sees(new)
      BY <1>1, <1>2, <1>3, <2>2, <2>9, AppliedSees DEF EventsInv
    <2>11. new.open
      <3>1. CASE id \in erows.once \union base.ids
        BY <2>3, <3>1 DEF Mail!Applied
      <3>2. CASE id \notin erows.once \union base.ids
        BY <1>1, <1>2, <1>3, <2>2, <2>3, <3>2, AppliedIs
      <3>. QED BY <3>1, <3>2
    <2>12. InRow => \A t \in Mail!Sessions \ {p} : ~esess[t].open
      BY <1>1, <1>2 DEF EventsInv, CountInOrder
    <2>13. eraced' \in BOOLEAN /\ (eraced => eraced')
      BY <1>1 DEF EventsTyped
    <2>. HIDE DEF new
    <2>. QED BY <1>1, <2>1, <2>8, <2>10, <2>11, <2>12, <2>13, SessionGoesOn
  <1>. QED BY <1>4, <1>5

LEMMA CommitEvents ==
    ASSUME EventsInv, NEW s \in Mail!Sessions, Mail!Commit(s)
    PROVE  EventsInv'
  <1>. DEFINE e == esess[s]
  <1>1. /\ e \in SessionType /\ e.open /\ Looked(e) /\ SureOf(e) /\ EventsTyped
        /\ esess' = [esess EXCEPT ![s] = Mail!Idle] /\ ebad' = (ebad \/ e.bad)
        /\ UNCHANGED <<eknown, ehappened, eraced>>
    BY DEF Mail!Commit, EventsInv, EventsTyped, BounceInv
  <1>2. esess'[s] = Mail!Idle /\ \A t \in Mail!Sessions \ {s} : esess'[t] = esess[t]
    BY <1>1 DEF EventsTyped
  <1>3. InRow' => InRow /\ \A t \in Mail!Sessions : esess'[t] = Mail!Idle
    <2>1. InRow' => InRow
      BY <1>1 DEF InRow, NoReturns
    <2>2. InRow => \A t \in Mail!Sessions \ {s} : ~esess[t].open
      BY <1>1 DEF EventsInv, CountInOrder
    <2>. QED BY <1>1, <1>2, <2>1, <2>2 DEF EventsTyped
  <1>4. CASE Mail!Refused(s)
    <2>1. UNCHANGED <<eletter, erows, ecount, esup>> /\ esup
      BY <1>4 DEF Mail!Commit, Mail!Refused
    <2>2. EventsTyped'
      BY <1>1, <1>2, <2>1, IdleSession, IdleKept DEF EventsTyped, Looked, SessionType
    <2>3. BounceInv'
      BY <2>1 DEF BounceInv, SureOf, Sure
    <2>4. CountInOrder'
      <3>1. InRow => Sees(Mail!Idle)
        BY IdleKept
      <3>2. InRow => Sees(Mail!Idle)'
        <4>1. Arrived(Mail!Idle)' = Arrived(Mail!Idle)
          BY <2>1 DEF Arrived, ByThen
        <4>. QED BY <1>1, <2>1, <3>1, <4>1 DEF Sees
      <3>3. InRow' => \A t \in Mail!Sessions : Sees(esess[t])'
        BY <1>3, <3>2
      <3>4. InRow' => \A t, u \in Mail!Sessions : ~(esess'[t].open /\ esess'[u].open)
        BY <1>3, IdleSession
      <3>. QED BY <1>1, <1>3, <2>1, <3>3, <3>4 DEF EventsInv, CountInOrder
    <2>. QED BY <2>2, <2>3, <2>4 DEF EventsInv
  <1>5. CASE ~Mail!Refused(s)
    <2>1. /\ eletter' = [l \in Letters |-> IF l \in e.wrote THEN e.view[l] ELSE eletter[l]]
          /\ erows'.once = erows.once \union e.ids
          /\ ecount' = IF e.more > 0 THEN e.base + e.more ELSE ecount
          /\ esup' = (esup \/ e.suppresses)
      BY <1>5 DEF Mail!Commit
    <2>2. EventsTyped'
      <3>1. eletter' \in [Letters -> LetterStatus]
        BY <1>1, <2>1 DEF EventsTyped, SessionType, Looked
      <3>2. erows'.once \subseteq EventIds /\ ecount' \in Nat /\ esup' \in BOOLEAN /\ ebad' \in BOOLEAN
        BY <1>1, <2>1 DEF EventsTyped, SessionType
      <3>3. esess' \in [Mail!Sessions -> SessionType]
        BY <1>1, IdleSession DEF EventsTyped
      <3>4. \A t \in Mail!Sessions : (esess'[t].open \/ esess'[t] = Mail!Idle) /\ Looked(esess'[t])
        BY <1>1, <1>2, IdleKept DEF EventsTyped
      <3>. QED BY <1>1, <3>1, <3>2, <3>3, <3>4 DEF EventsTyped, Looked
    <2>3. BounceInv'
      <3>1. Sure(e) => esup'
        BY <2>1 DEF Sure
      <3>2. esup => esup'
        BY <2>1
      <3>3. \A l \in Letters : eletter'[l] = "failed" => esup'
        BY <1>1, <2>1, <3>1, <3>2 DEF EventsInv, BounceInv, SureOf
      <3>4. \A id \in erows'.once : BadId(id) => esup'
        BY <1>1, <2>1, <3>1, <3>2 DEF EventsInv, BounceInv, SureOf
      <3>5. ebad' => esup'
        BY <1>1, <3>1, <3>2 DEF EventsInv, BounceInv, SureOf
      <3>6. \A t \in Mail!Sessions : SureOf(esess[t])'
        <4>1. \A t \in Mail!Sessions : SureOf(esess'[t])
          BY <1>2, IdleKept DEF EventsInv, BounceInv
        <4>. QED BY <4>1, <3>2 DEF SureOf, Sure
      <3>. QED BY <3>3, <3>4, <3>5, <3>6 DEF BounceInv, BadId
    <2>4. CountInOrder'
      <3>. SUFFICES ASSUME InRow'
                    PROVE  /\ \A l \in Letters : eletter'[l] = "delivered" =>
                                l \in eknown /\ <<l, "delivered">> \in ehappened
                           /\ ecount' <= Cardinality({l \in Letters : eletter'[l] = "delivered"})
                           /\ \A t, u \in Mail!Sessions : esess'[t].open /\ esess'[u].open => t = u
                           /\ \A t \in Mail!Sessions : Sees(esess[t])'
        BY <1>1 DEF EventsInv, CountInOrder
      <3>1. InRow /\ Sees(e) /\ \A t \in Mail!Sessions : esess'[t] = Mail!Idle
        BY <1>3 DEF EventsInv, CountInOrder
      <3>2. \A l \in Letters : eletter'[l] = ByThen(e, l)
        BY <2>1 DEF ByThen
      <3>3. \A l \in Letters : eletter'[l] = "delivered" => l \in eknown /\ <<l, "delivered">> \in ehappened
        BY <1>1, <3>1, <3>2 DEF ByThen, Sees, EventsInv, CountInOrder, Looked
      <3>4. {l \in Letters : eletter'[l] = "delivered"} = Arrived(e)
        BY <3>2 DEF Arrived
      <3>5. ecount' = ecount + e.more
        BY <1>1, <2>1, <3>1 DEF Sees, SessionType, EventsTyped
      <3>6. ecount' <= Cardinality({l \in Letters : eletter'[l] = "delivered"})
        BY <3>1, <3>4, <3>5 DEF Sees
      <3>7. Arrived(Mail!Idle)' = {l \in Letters : eletter'[l] = "delivered"}
        BY IdleSession DEF Arrived, ByThen
      <3>8. Sees(Mail!Idle)'
        <4>1. ecount' + Mail!Idle.more <= Cardinality(Arrived(Mail!Idle)') /\ ~(Mail!Idle.more > 0)
          BY <3>6, <3>7, <2>2, IdleSession DEF EventsTyped
        <4>. QED BY <4>1, IdleSession DEF Sees
      <3>. QED BY <3>1, <3>3, <3>6, <3>8, IdleSession
    <2>. QED BY <2>2, <2>3, <2>4 DEF EventsInv
  <1>. QED BY <1>4, <1>5

LEMMA WorkerKept ==
    ASSUME EventsInv, NEW l \in Letters, Mail!WorkerCommits(l)
    PROVE  EventsInv'
  <1>1. /\ l \notin eknown /\ eletter' = [eletter EXCEPT ![l] = "sent"]
        /\ eknown' = eknown \union {l} /\ EventsTyped
        /\ UNCHANGED <<ehappened, ehook, erows, ecount, esup, esess, ebad, eraced>>
    BY DEF Mail!WorkerCommits, EventsInv
  <1>2. eletter'[l] = "sent" /\ \A m \in Letters \ {l} : eletter'[m] = eletter[m]
    BY <1>1 DEF EventsTyped
  <1>3. EventsTyped'
    BY <1>1 DEF EventsTyped, LetterStatus, Looked
  <1>4. BounceInv'
    BY <1>1, <1>2 DEF EventsInv, BounceInv, SureOf, Sure
  <1>5. CountInOrder'
    <2>. SUFFICES ASSUME InRow'
                  PROVE  /\ \A m \in Letters : eletter'[m] = "delivered" =>
                              m \in eknown' /\ <<m, "delivered">> \in ehappened
                         /\ ecount' <= Cardinality({m \in Letters : eletter'[m] = "delivered"})
                         /\ \A t, u \in Mail!Sessions : esess'[t].open /\ esess'[u].open => t = u
                         /\ \A t \in Mail!Sessions : Sees(esess[t])'
      BY <1>1 DEF EventsInv, CountInOrder
    <2>1. InRow
      BY <1>1 DEF InRow, NoReturns
    <2>2. \A m \in Letters : (eletter'[m] = "delivered") = (eletter[m] = "delivered")
      BY <1>1, <1>2, <2>1 DEF EventsInv, CountInOrder
    <2>3. {m \in Letters : eletter'[m] = "delivered"} = {m \in Letters : eletter[m] = "delivered"}
      BY <2>2
    <2>4. ASSUME NEW t \in Mail!Sessions
          PROVE  Sees(esess[t])'
      <3>1. Sees(esess[t]) /\ Looked(esess[t])
        BY <2>1, <1>1 DEF EventsInv, CountInOrder, EventsTyped
      <3>2. esess[t].view[l] = "unread" /\ l \notin esess[t].wrote
        BY <1>1, <3>1 DEF Sees, Looked
      <3>3. \A m \in Letters : (ByThen(esess[t], m)' = "delivered") = (ByThen(esess[t], m) = "delivered")
        BY <1>1, <2>2 DEF ByThen
      <3>4. Arrived(esess[t])' = Arrived(esess[t])
        BY <3>3, <1>1 DEF Arrived
      <3>5. \A m \in Letters : esess[t].view[m] # "unread" => m # l /\ eletter'[m] = eletter[m]
        BY <1>2, <3>2
      <3>. QED BY <1>1, <3>1, <3>4, <3>5 DEF Sees
    <2>. QED BY <1>1, <2>1, <2>2, <2>3, <2>4 DEF EventsInv, CountInOrder
  <1>. QED BY <1>3, <1>4, <1>5 DEF EventsInv

LEMMA HappensKept ==
    ASSUME EventsInv, NEW l \in Letters, NEW k \in EventKinds, Mail!Happens(l, k)
    PROVE  EventsInv'
  <1>1. /\ ehappened' = ehappened \union {<<l, k>>} /\ (k = "opened" => <<l, "delivered">> \in ehappened)
        /\ UNCHANGED <<eletter, eknown, erows, ecount, esup, esess, ebad, eraced>>
    BY DEF Mail!Happens
  <1>2. EventsTyped'
    BY <1>1 DEF EventsInv, EventsTyped, Looked
  <1>3. BounceInv'
    BY <1>1 DEF EventsInv, BounceInv, SureOf, Sure
  <1>4. \A m \in Letters : <<m, "opened">> \in ehappened' => <<m, "delivered">> \in ehappened'
    BY <1>1 DEF EventsInv, CountInOrder
  <1>5. InRow' => InRow
    BY <1>1 DEF InRow, NoReturns
  <1>6. ASSUME InRow, NEW t \in Mail!Sessions
        PROVE  Sees(esess[t])'
    <2>1. Arrived(esess[t])' = Arrived(esess[t])
      BY <1>1 DEF Arrived, ByThen
    <2>2. Sees(esess[t])
      BY <1>6 DEF EventsInv, CountInOrder
    <2>. QED BY <1>1, <2>1, <2>2 DEF Sees
  <1>7. CountInOrder'
    BY <1>1, <1>4, <1>5, <1>6 DEF EventsInv, CountInOrder
  <1>. QED BY <1>2, <1>3, <1>7 DEF EventsInv

LEMMA EventsNext ==
    ASSUME EventsInv, [Mail!ENext]_evars
    PROVE  EventsInv'
  <1>1. CASE Mail!Recheck \/ UNCHANGED evars
    <2>1. UNCHANGED <<eletter, eknown, ehappened, erows, ecount, esup, esess, ebad, eraced>>
      BY <1>1 DEF Mail!Recheck, evars
    <2>2. EventsTyped' /\ BounceInv'
      BY <2>1 DEF EventsInv, EventsTyped, Looked, BounceInv, SureOf, Sure
    <2>3. \A t \in Mail!Sessions : Sees(esess[t]) => Sees(esess[t])'
      <3>1. \A t \in Mail!Sessions : Arrived(esess[t])' = Arrived(esess[t])
        BY <2>1 DEF Arrived, ByThen
      <3>. QED BY <2>1, <3>1 DEF Sees
    <2>4. CountInOrder'
      BY <2>1, <2>3 DEF EventsInv, CountInOrder, InRow, NoReturns
    <2>. QED BY <2>2, <2>4 DEF EventsInv
  <1>2. ASSUME NEW s \in Mail!Sessions, Mail!Dies(s)
        PROVE  EventsInv'
    <2>1. esess' = [esess EXCEPT ![s] = Mail!Idle]
          /\ UNCHANGED <<eletter, eknown, ehappened, erows, ecount, esup, ebad, eraced>>
      BY <1>2 DEF Mail!Dies
    <2>2. eraced' \in BOOLEAN /\ (eraced => eraced')
      BY <2>1 DEF EventsInv, EventsTyped
    <2>. QED BY <2>1, <2>2, IdleKept, IdleSession, SessionGoesOn
  <1>. QED BY <1>1, <1>2, HookKept, PassKept, AskKept, ApplyKept, CommitEvents, WorkerKept, HappensKept
           DEF Mail!ENext, Mail!Applies

LEMMA EventsInit ==
    ASSUME Mail!EInit
    PROVE  EventsInv
  <1>1. \A s \in Mail!Sessions : esess[s] = Mail!Idle
    BY DEF Mail!EInit
  <1>2. \A l \in Letters : eletter[l] \in {"sent", "sending"}
    BY DEF Mail!EInit
  <1>3. EventsTyped
    <2>1. \A s \in Mail!Sessions : Looked(esess[s])
      BY <1>1, IdleSession DEF Looked
    <2>2. esess \in [Mail!Sessions -> SessionType]
      BY IdleSession DEF Mail!EInit
    <2>3. eletter \in [Letters -> LetterStatus]
      BY DEF Mail!EInit, LetterStatus
    <2>4. eknown \subseteq Letters /\ erows.once \subseteq EventIds /\ ehappened \subseteq Letters \X EventKinds
          /\ ecount \in Nat
      BY DEF Mail!EInit
    <2>5. esup \in BOOLEAN /\ ebad \in BOOLEAN /\ eraced \in BOOLEAN
      BY DEF Mail!EInit
    <2>. QED BY <1>1, <2>1, <2>2, <2>3, <2>4, <2>5 DEF EventsTyped
  <1>4. BounceInv
    <2>1. ~ebad /\ erows.once = {}
      BY DEF Mail!EInit
    <2>2. \A s \in Mail!Sessions : SureOf(esess[s])
      BY <1>1, IdleSession DEF SureOf
    <2>. QED BY <1>2, <2>1, <2>2 DEF BounceInv
  <1>5. CountInOrder
    <2>1. ecount = 0 /\ ehappened = {}
      BY DEF Mail!EInit
    <2>2. \A S \in SUBSET Letters : 0 <= Cardinality(S)
      BY LettersFinite
    <2>3. Sees(Mail!Idle)
      <3>1. ecount + Mail!Idle.more <= Cardinality(Arrived(Mail!Idle)) /\ ~(Mail!Idle.more > 0)
        BY <2>1, <2>2, IdleSession DEF Arrived
      <3>. QED BY <3>1, IdleSession DEF Sees
    <2>4. ecount <= Cardinality({l \in Letters : eletter[l] = "delivered"})
      BY <2>1, <2>2
    <2>. QED BY <1>1, <1>2, <2>1, <2>3, <2>4, IdleSession DEF CountInOrder
  <1>. QED BY <1>3, <1>4, <1>5 DEF EventsInv

LEMMA EventsFollow ==
    ASSUME EventsInv
    PROVE  Mail!EventsHold
  <1>1. Mail!BouncedIsSuppressed
    BY DEF EventsInv, BounceInv, Mail!BouncedIsSuppressed
  <1>2. Mail!DeliveredOnce
    <2>. SUFFICES ASSUME InRow
                  PROVE  ecount <= Cardinality({l \in Letters : <<l, "delivered">> \in ehappened})
      BY MailLibrary DEF Mail!DeliveredOnce, InRow, NoReturns
    <2>. DEFINE here == {l \in Letters : eletter[l] = "delivered"}
                told == {l \in Letters : <<l, "delivered">> \in ehappened}
    <2>1. here \subseteq told /\ ecount <= Cardinality(here) /\ ecount \in Nat
      BY DEF EventsInv, CountInOrder, EventsTyped
    <2>2. here \in SUBSET Letters /\ told \in SUBSET Letters
      OBVIOUS
    <2>. HIDE DEF here, told
    <2>3. Cardinality(here) <= Cardinality(told) /\ Cardinality(here) \in Nat /\ Cardinality(told) \in Nat
      BY <2>1, <2>2, LettersFinite
    <2>4. ecount <= Cardinality(told)
      BY <2>1, <2>3
    <2>. QED BY <2>4 DEF told
  <1>. QED BY <1>1, <1>2 DEF Mail!EventsHold

LEMMA EventsStep == [Next]_vars => [Mail!ENext]_evars
  BY DEF Next, vars, In, hvars, evars

-----------------------------------------------------------------------------
(* The watch over bounces *)

WatchTyped ==
    /\ nalerts \in Seq(Nat) /\ nsub \in 0..Watch!Gone
    /\ nw \in [Watch!Checks -> Watch!CheckType]
    /\ \A c \in Watch!Checks : (Watch!NAt(c, "idle") => nw[c] = Watch!IdleCheck)
    /\ \A c \in Watch!Checks : Watch!NAt(c, "end") \/ (~nw[c].alert /\ ~nw[c].wrote)

\* A check that tells has seen no alert; if it is alone there is none.
Telling == {c \in Watch!Checks : Watch!NAt(c, "tell") \/ nw[c].alert}
WatchInv ==
    /\ WatchTyped
    /\ nalerts # <<>> => Len(nalerts) + Cardinality(Telling) <= Cardinality(Watch!Checks)
    /\ ~nover =>
         /\ \A c, d \in Watch!Checks : Watch!NAt(c, "idle") \/ Watch!NAt(d, "idle") \/ c = d
         /\ Len(nalerts) <= 1
         /\ Telling # {} => nalerts = <<>>
    /\ nlost => nover \/ nleft
    /\ \A c \in Watch!Checks : Watch!WriteLost(c) => nover \/ nleft

LEMMA WatchLibrary == \A S : Watch!Cardinality(S) = Cardinality(S)
  BY DEF Watch!Cardinality, Cardinality

LEMMA ChecksFinite == IsFiniteSet(Watch!Checks) /\ MaxFails \in Nat
  BY WatchAssumption DEF Watch!Checks

LEMMA IdleChecked ==
    /\ Watch!IdleCheck \in Watch!CheckType
    /\ Watch!IdleCheck.pc = "idle" /\ ~Watch!IdleCheck.alert /\ ~Watch!IdleCheck.wrote
  BY ChecksFinite DEF Watch!IdleCheck, Watch!CheckType, Watch!Gone

LEMMA TellingCounts ==
    /\ \A S \in SUBSET Watch!Checks : IsFiniteSet(S) /\ Cardinality(S) \in Nat
                                /\ Cardinality(S) <= Cardinality(Watch!Checks)
    /\ \A S, T \in SUBSET Watch!Checks : S \subseteq T => Cardinality(S) <= Cardinality(T)
    /\ \A S \in SUBSET Watch!Checks : \A c \in S : Cardinality(S \ {c}) = Cardinality(S) - 1
  <1>1. \A S \in SUBSET Watch!Checks : IsFiniteSet(S) /\ Cardinality(S) \in Nat
                                 /\ Cardinality(S) <= Cardinality(Watch!Checks)
    BY FS_Subset, FS_CardinalityType, ChecksFinite
  <1>2. \A S, T \in SUBSET Watch!Checks : S \subseteq T => Cardinality(S) <= Cardinality(T)
    BY <1>1, FS_Subset
  <1>3. \A S \in SUBSET Watch!Checks : \A c \in S : Cardinality(S \ {c}) = Cardinality(S) - 1
    BY <1>1, FS_RemoveElement
  <1>. QED BY <1>1, <1>2, <1>3

LEMMA WatchInit ==
    ASSUME Watch!NInit
    PROVE  WatchInv
  <1>1. \A c \in Watch!Checks : nw[c] = Watch!IdleCheck
    BY DEF Watch!NInit
  <1>2. WatchTyped
    BY IdleChecked, ChecksFinite DEF Watch!NInit, WatchTyped, Watch!Gone
  <1>3. Telling = {}
    BY <1>1, IdleChecked DEF Telling, Watch!NAt
  <1>4. \A c \in Watch!Checks : Watch!NAt(c, "idle") /\ ~Watch!WriteLost(c)
    BY <1>1, IdleChecked DEF Watch!NAt, Watch!WriteLost
  <1>. QED BY <1>2, <1>3, <1>4 DEF WatchInv, Watch!NInit

\* A check that moves on without an alert, before it tells.
LEMMA MovesOn ==
    ASSUME WatchInv, NEW c \in Watch!Checks, NEW new \in Watch!CheckType,
           nw' = [nw EXCEPT ![c] = new], UNCHANGED <<nalerts, nsub, nlost, nleft>>,
           new.pc = "idle" => new = Watch!IdleCheck,
           ~new.wrote, ~new.alert,
           new.pc = "tell" => nalerts = <<>>,
           nover => nover',
           ~nover' => (new.pc = "idle" \/ \A d \in Watch!Checks \ {c} : Watch!NAt(d, "idle"))
    PROVE  WatchInv'
  <1>1. nw'[c] = new /\ \A d \in Watch!Checks \ {c} : nw'[d] = nw[d]
    BY DEF WatchInv, WatchTyped
  <1>2. WatchTyped'
    BY <1>1 DEF WatchInv, WatchTyped, Watch!NAt
  <1>3. Telling' \subseteq Watch!Checks /\ Telling \subseteq Watch!Checks
        /\ (nalerts # <<>> => Telling' \subseteq Telling)
        /\ (new.pc # "tell" => Telling' \subseteq Telling)
    BY <1>1 DEF Telling, Watch!NAt
  <1>4. nalerts' # <<>> => Len(nalerts') + Cardinality(Telling') <= Cardinality(Watch!Checks)
    <2>1. nalerts # <<>> => Cardinality(Telling') <= Cardinality(Telling)
      BY <1>3, TellingCounts
    <2>2. Len(nalerts) \in Nat /\ Cardinality(Telling) \in Nat /\ Cardinality(Telling') \in Nat
          /\ Cardinality(Watch!Checks) \in Nat
      BY <1>3, TellingCounts, FS_CardinalityType, ChecksFinite DEF WatchInv, WatchTyped
    <2>. QED BY <2>1, <2>2 DEF WatchInv
  <1>5. ~nover' => /\ \A d, e \in Watch!Checks : Watch!NAt(d, "idle")' \/ Watch!NAt(e, "idle")' \/ d = e
                   /\ Len(nalerts') <= 1
                   /\ Telling' # {} => nalerts' = <<>>
    BY <1>1, <1>3 DEF WatchInv, Watch!NAt
  <1>6. \A d \in Watch!Checks : Watch!WriteLost(d)' => nover' \/ nleft'
    BY <1>1 DEF WatchInv, Watch!WriteLost
  <1>. QED BY <1>2, <1>4, <1>5, <1>6 DEF WatchInv

LEMMA TellKept ==
    ASSUME WatchInv, NEW c \in Watch!Checks, Watch!Tell(c)
    PROVE  WatchInv'
  <1>1. PICK push \in IF nsub = Watch!Gone THEN {"none"} ELSE {"ok", "fail", "gone"} :
          nw' = [nw EXCEPT ![c] =
                     [@ EXCEPT !.pc = "end", !.alert = TRUE, !.wrote = push # "none",
                               !.sub = CASE push = "fail" -> nsub + 1
                                         [] push = "gone" -> Watch!Gone
                                         [] OTHER -> 0]]
    BY DEF Watch!Tell
  <1>2. Watch!NAt(c, "tell") /\ nw[c] \in Watch!CheckType
        /\ UNCHANGED <<ncamp, nalerts, nsub, nundone, nlost, nover, nleft>>
    BY DEF Watch!Tell, WatchInv, WatchTyped
  <1>. DEFINE sub == CASE push = "fail" -> nsub + 1 [] push = "gone" -> Watch!Gone [] OTHER -> 0
              new == [nw[c] EXCEPT !.pc = "end", !.alert = TRUE, !.wrote = push # "none", !.sub = sub]
  <1>3. sub \in 0..Watch!Gone
    BY <1>1, ChecksFinite DEF WatchInv, WatchTyped, Watch!Gone
  <1>4. nw'[c] = new /\ \A d \in Watch!Checks \ {c} : nw'[d] = nw[d]
    BY <1>1 DEF WatchInv, WatchTyped
  <1>. HIDE DEF sub
  <1>5. new \in Watch!CheckType /\ new.pc = "end" /\ (new.wrote => push # "none")
    BY <1>2, <1>3 DEF Watch!CheckType
  <1>6. WatchTyped'
    <2>1. nw' = [nw EXCEPT ![c] = new]
      BY <1>1 DEF sub
    <2>. HIDE DEF new
    <2>. QED BY <2>1, <1>2, <1>4, <1>5 DEF WatchInv, WatchTyped, Watch!NAt
  <1>. HIDE DEF new
  <1>7. c \in Telling /\ Telling' \subseteq Telling /\ Telling \subseteq Watch!Checks
    BY <1>2, <1>4 DEF Telling, Watch!NAt
  <1>8. nalerts' # <<>> => Len(nalerts') + Cardinality(Telling') <= Cardinality(Watch!Checks)
    <2>1. Cardinality(Telling') <= Cardinality(Telling)
      BY <1>7, TellingCounts
    <2>2. Len(nalerts) \in Nat /\ Cardinality(Telling) \in Nat /\ Cardinality(Telling') \in Nat
          /\ Cardinality(Watch!Checks) \in Nat
      BY <1>7, TellingCounts, FS_CardinalityType, ChecksFinite DEF WatchInv, WatchTyped
    <2>. QED BY <1>2, <2>1, <2>2 DEF WatchInv
  <1>9. ~nover' => /\ \A d, e \in Watch!Checks : Watch!NAt(d, "idle")' \/ Watch!NAt(e, "idle")' \/ d = e
                   /\ Len(nalerts') <= 1
                   /\ Telling' # {} => nalerts' = <<>>
    BY <1>2, <1>4, <1>5, <1>7 DEF WatchInv, Watch!NAt
  <1>10. \A d \in Watch!Checks : Watch!WriteLost(d)' => nover' \/ nleft'
    <2>1. Watch!WriteLost(c)' => FALSE
      BY <1>1, <1>2, <1>4, <1>5 DEF Watch!WriteLost
    <2>2. \A d \in Watch!Checks \ {c} : Watch!WriteLost(d)' => nover' \/ nleft'
      BY <1>2, <1>4 DEF WatchInv, Watch!WriteLost
    <2>. QED BY <2>1, <2>2
  <1>. QED BY <1>2, <1>6, <1>8, <1>9, <1>10 DEF WatchInv

\* The check ends, with its alert or without.
LEMMA EndKept ==
    ASSUME WatchInv, NEW c \in Watch!Checks, Watch!EndCheck(c)
    PROVE  WatchInv'
  <1>1. /\ Watch!NAt(c, "end") /\ nw[c] \in Watch!CheckType
        /\ nalerts' = IF nw[c].alert THEN Append(nalerts, 0) ELSE nalerts
        /\ nsub' = IF nw[c].wrote THEN nw[c].sub ELSE nsub
        /\ nw' = [nw EXCEPT ![c] = Watch!IdleCheck]
        /\ UNCHANGED <<nundone, nlost, nover, nleft>>
    BY DEF Watch!EndCheck, WatchInv, WatchTyped
  <1>2. nw'[c] = Watch!IdleCheck /\ \A d \in Watch!Checks \ {c} : nw'[d] = nw[d]
    BY <1>1 DEF WatchInv, WatchTyped
  <1>3. nalerts \in Seq(Nat) /\ nalerts' \in Seq(Nat) /\ Len(nalerts) \in Nat
        /\ Len(nalerts') = IF nw[c].alert THEN Len(nalerts) + 1 ELSE Len(nalerts)
    BY <1>1 DEF WatchInv, WatchTyped
  <1>4. WatchTyped'
    <2>1. nsub' \in 0..Watch!Gone
      BY <1>1 DEF WatchInv, WatchTyped, Watch!CheckType
    <2>2. nw' \in [Watch!Checks -> Watch!CheckType]
      BY <1>1, IdleChecked DEF WatchInv, WatchTyped
    <2>3. \A d \in Watch!Checks : /\ (Watch!NAt(d, "idle")' => nw'[d] = Watch!IdleCheck)
                           /\ (Watch!NAt(d, "end")' \/ (~nw'[d].alert /\ ~nw'[d].wrote))
      BY <1>2, IdleChecked DEF WatchInv, WatchTyped, Watch!NAt
    <2>. QED BY <1>3, <2>1, <2>2, <2>3 DEF WatchTyped, Watch!NAt
  <1>5. Telling' = Telling \ {c} /\ Telling \subseteq Watch!Checks /\ (nw[c].alert => c \in Telling)
    BY <1>2, IdleChecked DEF Telling, Watch!NAt
  <1>6. /\ Cardinality(Telling') <= Cardinality(Telling)
        /\ nw[c].alert => Cardinality(Telling') = Cardinality(Telling) - 1
        /\ Cardinality(Telling) \in Nat /\ Cardinality(Telling') \in Nat /\ Cardinality(Watch!Checks) \in Nat
        /\ Cardinality(Telling) <= Cardinality(Watch!Checks)
    <2>1. Telling' \in SUBSET Watch!Checks /\ Telling \in SUBSET Watch!Checks /\ Watch!Checks \in SUBSET Watch!Checks
      BY <1>5
    <2>. QED BY <1>5, <2>1, TellingCounts
  <1>7. nalerts' # <<>> => Len(nalerts') + Cardinality(Telling') <= Cardinality(Watch!Checks)
    <2>1. CASE nalerts # <<>>
      <3>1. Len(nalerts) + Cardinality(Telling) <= Cardinality(Watch!Checks)
        BY <2>1 DEF WatchInv
      <3>. QED BY <3>1, <1>3, <1>6
    <2>2. CASE nalerts = <<>> /\ nw[c].alert
      BY <2>2, <1>3, <1>6
    <2>3. CASE nalerts = <<>> /\ ~nw[c].alert
      BY <2>3, <1>1
    <2>. QED BY <2>1, <2>2, <2>3
  <1>8. ASSUME ~nover'
        PROVE  /\ \A d, e \in Watch!Checks : Watch!NAt(d, "idle")' \/ Watch!NAt(e, "idle")' \/ d = e
               /\ Len(nalerts') <= 1
               /\ Telling' # {} => nalerts' = <<>>
    <2>0. ~nover /\ ~Watch!NAt(c, "idle")
      BY <1>1, <1>8 DEF Watch!NAt
    <2>1. \A d \in Watch!Checks : Watch!NAt(d, "idle")'
      BY <2>0, <1>2, IdleChecked DEF WatchInv, Watch!NAt
    <2>2. Telling' = {}
      BY <2>1, <1>4, IdleChecked DEF Telling, WatchTyped, Watch!NAt
    <2>3. nw[c].alert => Len(nalerts) = 0
      BY <2>0, <1>5 DEF WatchInv
    <2>. QED BY <2>0, <2>1, <2>2, <2>3, <1>3 DEF WatchInv
  <1>9. \A d \in Watch!Checks : Watch!WriteLost(d)' => nover' \/ nleft'
    <2>. SUFFICES ASSUME NEW d \in Watch!Checks, Watch!WriteLost(d)', ~nover PROVE nleft
      BY <1>1
    <2>1. d # c /\ nw[d].wrote
      BY <1>2, IdleChecked DEF Watch!WriteLost
    <2>2. Watch!NAt(d, "idle")
      BY <1>1, <2>1 DEF WatchInv, Watch!NAt
    <2>. QED BY <2>1, <2>2, IdleChecked DEF WatchInv, WatchTyped
  <1>. QED BY <1>1, <1>4, <1>7, <1>8, <1>9 DEF WatchInv

LEMMA HourKept ==
    ASSUME WatchInv, Watch!HourPasses
    PROVE  WatchInv'
  <1>. DEFINE n == Len(nalerts)
              aged == [i \in DOMAIN nalerts |-> nalerts[i] + 1]
  <1>1. nalerts \in Seq(Nat) /\ n \in Nat /\ DOMAIN nalerts = 1..n /\ \A i \in 1..n : nalerts[i] \in Nat
    BY DEF WatchInv, WatchTyped
  <1>2. Watch!Stale \in 0..n
    <2>1. {i \in DOMAIN nalerts : nalerts[i] + 1 >= Cooldown} \subseteq 1..n
      BY <1>1
    <2>2. IsFiniteSet(1..n) /\ Cardinality(1..n) = n
      BY <1>1, FS_Interval
    <2>3. Watch!Stale \in Nat /\ Watch!Stale <= n
      BY <2>1, <2>2, FS_Subset, FS_CardinalityType, WatchLibrary DEF Watch!Stale
    <2>. QED BY <2>3, <1>1
  <1>3. aged \in Seq(Nat) /\ Len(aged) = n
    <2>1. aged \in [1..n -> Nat]
      BY <1>1
    <2>2. aged \in Seq(Nat)
      BY <2>1, <1>1, IsASeq
    <2>. QED BY <2>1, <2>2, <1>1
  <1>. HIDE DEF aged, n
  <1>4. nalerts' \in Seq(Nat) /\ Len(nalerts') <= n /\ Len(nalerts') \in Nat
        /\ UNCHANGED <<nsub, nw, nlost, nover, nleft>>
    <2>1. nalerts' = SubSeq(aged, Watch!Stale + 1, n)
      BY DEF Watch!HourPasses, aged, n
    <2>2. Watch!Stale + 1 \in Nat /\ Watch!Stale + 1 >= 1 /\ n \in Nat
      BY <1>1, <1>2
    <2>3. SubSeq(aged, Watch!Stale + 1, n) \in Seq(Nat)
      BY <1>3, <2>2
    <2>4. Len(SubSeq(aged, Watch!Stale + 1, n)) = IF Watch!Stale + 1 <= n THEN n - Watch!Stale ELSE 0
      BY <1>2, <1>3, <2>2
    <2>. QED BY <1>1, <1>2, <2>1, <2>2, <2>3, <2>4 DEF Watch!HourPasses
  <1>5. Telling' = Telling
    BY <1>4 DEF Telling, Watch!NAt
  <1>6. WatchTyped'
    BY <1>4 DEF WatchInv, WatchTyped, Watch!NAt
  <1>7. nalerts # <<>> /\ (nalerts = <<>> => nalerts' = <<>>)
    BY DEF Watch!HourPasses
  <1>8. Cardinality(Telling) \in Nat /\ Cardinality(Watch!Checks) \in Nat
    BY TellingCounts, FS_CardinalityType, ChecksFinite DEF Telling
  <1>9. Len(nalerts') + Cardinality(Telling') <= Cardinality(Watch!Checks)
    BY <1>1, <1>4, <1>5, <1>7, <1>8 DEF WatchInv, n
  <1>10. ~nover' => /\ \A d, e \in Watch!Checks : Watch!NAt(d, "idle")' \/ Watch!NAt(e, "idle")' \/ d = e
                    /\ Len(nalerts') <= 1
                    /\ Telling' # {} => nalerts' = <<>>
    BY <1>1, <1>4, <1>5, <1>7 DEF WatchInv, Watch!NAt, n
  <1>11. \A d \in Watch!Checks : Watch!WriteLost(d)' => nover' \/ nleft'
    BY <1>4 DEF WatchInv, Watch!WriteLost
  <1>. QED BY <1>4, <1>6, <1>9, <1>10, <1>11 DEF WatchInv

\* A check gives up: it is rolled back, or it has lost its transaction.
LEMMA DropKept ==
    ASSUME WatchInv, NEW c \in Watch!Checks, nw' = [nw EXCEPT ![c] = Watch!IdleCheck],
           UNCHANGED <<nalerts, nsub, nover, nleft>>, nlost' => nlost \/ Watch!WriteLost(c)
    PROVE  WatchInv'
  <1>1. nw'[c] = Watch!IdleCheck /\ \A d \in Watch!Checks \ {c} : nw'[d] = nw[d]
    BY DEF WatchInv, WatchTyped
  <1>2. WatchTyped'
    BY <1>1, IdleChecked DEF WatchInv, WatchTyped, Watch!NAt
  <1>3. Telling' \subseteq Telling /\ Telling \subseteq Watch!Checks
    BY <1>1, IdleChecked DEF Telling, Watch!NAt
  <1>4. Cardinality(Telling') <= Cardinality(Telling) /\ Cardinality(Telling') \in Nat
        /\ Cardinality(Telling) \in Nat /\ Cardinality(Watch!Checks) \in Nat /\ Len(nalerts) \in Nat
    <2>1. Telling' \in SUBSET Watch!Checks /\ Telling \in SUBSET Watch!Checks /\ Watch!Checks \in SUBSET Watch!Checks
      BY <1>3
    <2>. QED BY <1>3, <2>1, TellingCounts DEF WatchInv, WatchTyped
  <1>5. nalerts' # <<>> => Len(nalerts') + Cardinality(Telling') <= Cardinality(Watch!Checks)
    BY <1>4 DEF WatchInv
  <1>6. ~nover' => /\ \A d, e \in Watch!Checks : Watch!NAt(d, "idle")' \/ Watch!NAt(e, "idle")' \/ d = e
                   /\ Len(nalerts') <= 1
                   /\ Telling' # {} => nalerts' = <<>>
    BY <1>1, <1>3, IdleChecked DEF WatchInv, Watch!NAt
  <1>7. \A d \in Watch!Checks : Watch!WriteLost(d)' => nover' \/ nleft'
    BY <1>1, IdleChecked DEF WatchInv, Watch!WriteLost
  <1>8. nlost' => nover' \/ nleft'
    BY DEF WatchInv
  <1>. QED BY <1>2, <1>5, <1>6, <1>7, <1>8 DEF WatchInv

\* The subscription changes: it is renewed, or ended.
LEMMA SubscriptionKept ==
    ASSUME WatchInv, UNCHANGED <<nalerts, nw, nlost, nover>>, nsub' \in 0..Watch!Gone,
           nleft => nleft', nsub' = Watch!Gone /\ nsub # Watch!Gone /\ ~nleft' => \A c \in Watch!Checks : Watch!NAt(c, "idle")
    PROVE  WatchInv'
  <1>1. WatchTyped'
    BY DEF WatchInv, WatchTyped, Watch!NAt
  <1>2. Telling' = Telling
    BY DEF Telling, Watch!NAt
  <1>3. \A d \in Watch!Checks : Watch!WriteLost(d)' => nover' \/ nleft'
    <2>. SUFFICES ASSUME NEW d \in Watch!Checks, Watch!WriteLost(d)' PROVE nover \/ nleft'
      OBVIOUS
    <2>1. CASE Watch!NAt(d, "idle")
      BY <2>1, IdleChecked DEF WatchInv, WatchTyped, Watch!WriteLost
    <2>2. CASE nsub = Watch!Gone
      BY <2>2 DEF WatchInv, Watch!WriteLost
    <2>3. CASE nsub # Watch!Gone /\ ~Watch!NAt(d, "idle")
      BY <2>3 DEF Watch!WriteLost
    <2>. QED BY <2>1, <2>2, <2>3
  <1>4. ~nover' => /\ \A d, e \in Watch!Checks : Watch!NAt(d, "idle")' \/ Watch!NAt(e, "idle")' \/ d = e
                   /\ Len(nalerts') <= 1
                   /\ Telling' # {} => nalerts' = <<>>
    BY <1>2 DEF WatchInv, Watch!NAt
  <1>. QED BY <1>1, <1>2, <1>3, <1>4 DEF WatchInv

LEMMA WatchNext ==
    ASSUME WatchInv, [Watch!NNext]_nvars
    PROVE  WatchInv'
  <1>1. ASSUME NEW c \in Watch!Checks, Watch!StartCheck(c)
        PROVE  WatchInv'
    <2>1. \E new : /\ nw' = [nw EXCEPT ![c] = new]
                   /\ new \in Watch!CheckType /\ new.pc = "judge" /\ ~new.wrote /\ ~new.alert
      <3>1. CASE nw' = [nw EXCEPT ![c] = [Watch!IdleCheck EXCEPT !.pc = "judge"]]
        <4>1. [Watch!IdleCheck EXCEPT !.pc = "judge"] \in Watch!CheckType
          BY IdleChecked DEF Watch!CheckType, Watch!IdleCheck
        <4>2. /\ [Watch!IdleCheck EXCEPT !.pc = "judge"].pc = "judge"
              /\ ~[Watch!IdleCheck EXCEPT !.pc = "judge"].wrote /\ ~[Watch!IdleCheck EXCEPT !.pc = "judge"].alert
          BY DEF Watch!IdleCheck
        <4>. QED BY <3>1, <4>1, <4>2
      <3>2. ASSUME NEW kind \in {"bounce", "spam"},
                   nw' = [nw EXCEPT ![c] = [Watch!IdleCheck EXCEPT !.pc = "judge", !.kind = kind]]
            PROVE  \E new : /\ nw' = [nw EXCEPT ![c] = new]
                            /\ new \in Watch!CheckType /\ new.pc = "judge" /\ ~new.wrote /\ ~new.alert
        <4>. DEFINE new == [Watch!IdleCheck EXCEPT !.pc = "judge", !.kind = kind]
        <4>1. new \in Watch!CheckType /\ new.pc = "judge" /\ ~new.wrote /\ ~new.alert
          BY IdleChecked DEF Watch!CheckType, Watch!IdleCheck
        <4>2. nw' = [nw EXCEPT ![c] = new]
          BY <3>2
        <4>. HIDE DEF new
        <4>. QED BY <4>1, <4>2
      <3>. QED BY <1>1, <3>1, <3>2 DEF Watch!StartCheck
    <2>2. PICK new : /\ nw' = [nw EXCEPT ![c] = new]
                     /\ new \in Watch!CheckType /\ new.pc = "judge" /\ ~new.wrote /\ ~new.alert
      BY <2>1
    <2>3. nover' = (nover \/ \E d \in Watch!Checks : ~Watch!NAt(d, "idle")) /\ UNCHANGED <<nalerts, nsub, nlost, nleft>>
      BY <1>1 DEF Watch!StartCheck
    <2>. QED BY <2>2, <2>3, MovesOn
  <1>2. ASSUME NEW c \in Watch!Checks, NEW pc \in {"look", "end", "tell"}, Watch!NTo(c, pc),
               Watch!NAt(c, "judge") \/ Watch!NAt(c, "look"), pc = "tell" => nalerts = <<>>,
               UNCHANGED <<ncamp, nalerts, nsub, nundone, nlost, nover, nleft>>
        PROVE  WatchInv'
    <2>. DEFINE new == [nw[c] EXCEPT !.pc = pc]
    <2>1. nw' = [nw EXCEPT ![c] = new]
      BY <1>2 DEF Watch!NTo, WatchInv, WatchTyped
    <2>2. ~nw[c].alert /\ ~nw[c].wrote /\ nw[c] \in Watch!CheckType
      BY <1>2 DEF WatchInv, WatchTyped, Watch!NAt
    <2>3. new \in Watch!CheckType /\ new.pc = pc /\ ~new.alert /\ ~new.wrote
      BY <1>2, <2>2 DEF Watch!CheckType
    <2>4. ~nover => \A d \in Watch!Checks \ {c} : Watch!NAt(d, "idle")
      BY <1>2 DEF WatchInv, Watch!NAt
    <2>. HIDE DEF new
    <2>. QED BY <1>2, <2>1, <2>3, <2>4, MovesOn
  <1>3. ASSUME NEW c \in Watch!Checks, Watch!Judge(c)
        PROVE  WatchInv'
    BY <1>2, <1>3 DEF Watch!Judge
  <1>4. ASSUME NEW c \in Watch!Checks, Watch!LookBack(c)
        PROVE  WatchInv'
    BY <1>2, <1>4 DEF Watch!LookBack, Watch!AlertedRecently
  <1>5. ASSUME NEW c \in Watch!Checks, Watch!LoseCheck(c)
        PROVE  WatchInv'
    BY <1>5, DropKept DEF Watch!LoseCheck
  <1>6. ASSUME NEW c \in Watch!Checks, Watch!UndoCheck(c)
        PROVE  WatchInv'
    BY <1>6, DropKept DEF Watch!UndoCheck
  <1>7. ASSUME Watch!Subscribe
        PROVE  WatchInv'
    <2>1. nsub' \in 0..Watch!Gone /\ UNCHANGED <<nalerts, nw, nlost, nover, nleft>>
          /\ (nsub' = Watch!Gone => Watch!Gone = 0)
      BY <1>7, ChecksFinite DEF Watch!Subscribe, Watch!Gone
    <2>2. Watch!Gone = 0 => nsub = Watch!Gone
      BY DEF WatchInv, WatchTyped
    <2>. QED BY <2>1, <2>2, SubscriptionKept
  <1>8. ASSUME Watch!Unsubscribe
        PROVE  WatchInv'
    <2>1. UNCHANGED <<nalerts, nw, nlost, nover>> /\ (nleft => nleft')
      BY <1>8 DEF Watch!Unsubscribe
    <2>3. nsub' \in 0..Watch!Gone
      BY <1>8, ChecksFinite DEF Watch!Unsubscribe, Watch!Gone
    <2>2. ~nleft' => \A c \in Watch!Checks : Watch!NAt(c, "idle")
      BY <1>8 DEF Watch!Unsubscribe
    <2>. QED BY <2>1, <2>2, <2>3, SubscriptionKept
  <1>9. ASSUME UNCHANGED <<nalerts, nsub, nw, nlost, nover, nleft>>
        PROVE  WatchInv'
    BY <1>9 DEF WatchInv, WatchTyped, Telling, Watch!NAt, Watch!WriteLost
  <1>10. Watch!MailOut \/ Watch!SwitchCampaign \/ UNCHANGED nvars => WatchInv'
    BY <1>9 DEF Watch!MailOut, Watch!SwitchCampaign, nvars
  <1>. QED
    BY <1>1, <1>3, <1>4, <1>5, <1>6, <1>7, <1>8, <1>10, TellKept, EndKept, HourKept DEF Watch!NNext,
       Watch!CheckStep

LEMMA WatchFollow ==
    ASSUME WatchInv
    PROVE  Watch!AlertsHold
  <1>1. Len(nalerts) <= Cardinality(Watch!Checks)
    <2>1. Len(nalerts) \in Nat /\ Cardinality(Telling) \in Nat /\ Cardinality(Watch!Checks) \in Nat
      BY TellingCounts, FS_CardinalityType, ChecksFinite DEF Telling, WatchInv, WatchTyped
    <2>. QED BY <2>1 DEF WatchInv
  <1>. QED BY <1>1, WatchLibrary DEF WatchInv, Watch!AlertsHold, Watch!AlertsSpaced, Watch!ReportsKept

LEMMA WatchStep == [Next]_vars => [Watch!NNext]_nvars
  BY DEF Next, vars, In, ovars, nvars

\* What Brevo tells of the letters, and the watch over its bounces: a bounced
\* address is suppressed before its webhook is answered, nothing is counted as
\* delivered that was not while the sessions come one after another, and an
\* alert is not repeated in its cooldown, for any letters, events, webhooks,
\* passes, checks, limits, silences and rollbacks.
THEOREM EventsHoldAlways == Spec => []EventsHold
  <1>1. Init => Mail!EInit /\ Watch!NInit
    BY DEF Init
  <1>2. Init => EventsInv /\ WatchInv
    BY <1>1, EventsInit, WatchInit
  <1>3. EventsInv /\ [Next]_vars => EventsInv'
    BY EventsStep, EventsNext
  <1>4. WatchInv /\ [Next]_vars => WatchInv'
    BY WatchStep, WatchNext
  <1>5. EventsInv /\ WatchInv => EventsHold
    BY EventsFollow, WatchFollow DEF EventsHold
  <1>. QED BY <1>2, <1>3, <1>4, <1>5, PTL DEF Spec

-----------------------------------------------------------------------------
(* The payments of an invoice *)

LEMMA InvoiceLibrary == \A S : Invoice!Cardinality(S) = Cardinality(S)
  BY DEF Invoice!Cardinality, Cardinality

LEMMA MaxTotalIs ==
    /\ Invoice!MaxTotal \in Nat /\ Invoice!AnyRef \in Refs /\ Invoice!AnyTotal \in Totals
    /\ \A t \in Totals : t \in Invoice!Amount
  <1>1. Invoice!MaxTotal \in Totals /\ \A u \in Totals : u <= Invoice!MaxTotal
    BY InvoiceAssumption DEF Invoice!MaxTotal
  <1>2. Invoice!AnyRef \in Refs /\ Invoice!AnyTotal \in Totals
    BY InvoiceAssumption DEF Invoice!AnyRef, Invoice!AnyTotal
  <1>. QED BY <1>1, <1>2, InvoiceAssumption DEF Invoice!Amount

\* The sum is a number, and grows with the payments.
PaymentRows == [Refs -> Invoice!RowType]
LEMMA SumIs ==
    ASSUME NEW rows
    PROVE  Invoice!Sum(rows) \in 0..(Invoice!MaxTotal * Cardinality(Refs)) /\ Invoice!Sum(rows) \in Nat
  <1>. DEFINE all == Refs \X (1..Invoice!MaxTotal)
  <1>1. Invoice!MaxTotal \in Nat /\ IsFiniteSet(1..Invoice!MaxTotal) /\ Cardinality(1..Invoice!MaxTotal) = Invoice!MaxTotal
    BY MaxTotalIs, FS_Interval
  <1>2. IsFiniteSet(all) /\ Cardinality(all) = Cardinality(Refs) * Invoice!MaxTotal
    BY <1>1, FS_Product, InvoiceAssumption
  <1>3. Invoice!Units(rows) \subseteq all
    BY DEF Invoice!Units
  <1>. HIDE DEF all
  <1>4. Cardinality(Invoice!Units(rows)) <= Cardinality(all) /\ IsFiniteSet(Invoice!Units(rows))
    BY <1>2, <1>3, FS_Subset
  <1>5. Cardinality(Invoice!Units(rows)) \in Nat /\ Cardinality(Refs) \in Nat
    BY <1>4, FS_CardinalityType, InvoiceAssumption
  <1>6. Cardinality(Refs) * Invoice!MaxTotal = Invoice!MaxTotal * Cardinality(Refs) /\ Invoice!MaxTotal * Cardinality(Refs) \in Nat
    BY <1>1, <1>5
  <1>. QED BY <1>2, <1>4, <1>5, <1>6, InvoiceLibrary DEF Invoice!Sum

SumsTo(rows, more) ==
    \A r \in Refs : rows[r].st = "success" => more[r].st = "success" /\ more[r].amt = rows[r].amt
LEMMA SumKeeps ==
    ASSUME NEW rows, NEW more
    PROVE  /\ SumsTo(rows, more) => Invoice!Sum(rows) <= Invoice!Sum(more)
           /\ SumsTo(rows, more) /\ SumsTo(more, rows) => Invoice!Sum(rows) = Invoice!Sum(more)
  <1>1. SumsTo(rows, more) => Invoice!Units(rows) \subseteq Invoice!Units(more)
    BY DEF SumsTo, Invoice!Units
  <1>2. SumsTo(more, rows) => Invoice!Units(more) \subseteq Invoice!Units(rows)
    BY DEF SumsTo, Invoice!Units
  <1>3. IsFiniteSet(Invoice!Units(more))
    <2>0. IsFiniteSet(1..Invoice!MaxTotal)
      BY MaxTotalIs, FS_Interval
    <2>1. IsFiniteSet(Refs \X (1..Invoice!MaxTotal))
      BY <2>0, FS_Product, InvoiceAssumption
    <2>. QED BY <2>1, FS_Subset DEF Invoice!Units
  <1>4. SumsTo(rows, more) => Invoice!Sum(rows) <= Invoice!Sum(more)
    BY <1>1, <1>3, FS_Subset, InvoiceLibrary DEF Invoice!Sum
  <1>5. SumsTo(rows, more) /\ SumsTo(more, rows) => Invoice!Sum(rows) = Invoice!Sum(more)
    BY <1>1, <1>2, InvoiceLibrary DEF Invoice!Sum
  <1>. QED BY <1>4, <1>5

LEMMA RecalculatedIs ==
    ASSUME NEW inv \in Invoice!InvoiceType, NEW sum \in 0..(Invoice!MaxTotal * Cardinality(Refs))
    PROVE  LET new == Invoice!Recalculated(inv, sum) IN
           /\ new \in Invoice!InvoiceType /\ new.paid = sum /\ new.total = inv.total
           /\ new.status = "paid" => sum >= new.total
           /\ sum >= new.total => new.status = "paid"
  BY InvoiceLibrary DEF Invoice!Recalculated, Invoice!InvoiceType

LEMMA StatusIs ==
    ASSUME NEW inv
    PROVE  /\ Invoice!Status(inv) = "paid" => inv.paid >= inv.total /\ inv.status \notin {"draft", "void"}
           /\ inv.paid >= inv.total /\ inv.status \notin {"draft", "void"} => Invoice!Status(inv) = "paid"
  BY DEF Invoice!Status

\* Who works on a payment: a new one is its own, one that Paystack has charged
\* is on record, and what has succeeded stays so.
UnderWay(k) == ireq[k].pc # "idle"
KeepsPayment(k, q) ==
    /\ k \in {"checkout", "manual"} => irow[q.ref].st = "none" /\ q.ref \notin itaken
    /\ k \in {"webhook", "verify"} => q.ref \in itaken
    /\ q.pc = "loaded" /\ k \in {"checkout", "manual"} => q.rows[q.ref].st = "none"
    /\ q.pc = "loaded" /\ k \in {"webhook", "verify"} =>
         /\ q.rows[q.ref].st # "none" /\ q.amt = irow[q.ref].amt
         /\ q.rows[q.ref].st = "success" => irow[q.ref].st = "success"
    /\ q.pc = "applied" /\ k = "checkout" => q.row.st = "pending"
    /\ q.pc = "applied" /\ k = "manual" => q.row.st = "success"
    /\ q.pc = "applied" /\ k \in {"webhook", "verify"} => q.row.st = "success" /\ q.row.amt = irow[q.ref].amt
PaymentsInv ==
    /\ \A r \in itaken : irow[r].st # "none"
    /\ \A k \in Invoice!Kinds : UnderWay(k) => KeepsPayment(k, ireq[k])
    /\ \A j, k \in Invoice!Kinds : UnderWay(j) /\ UnderWay(k) /\ j # k /\ ireq[j].ref = ireq[k].ref =>
         {j, k} \subseteq {"webhook", "verify"}

\* What a request has summed up is there when it commits.
AheadOf(q) == [irow EXCEPT ![q.ref] = q.row]
PaidInv ==
    /\ iinv.paid <= Invoice!Sum(irow)
    /\ \A k \in Invoice!Kinds : ireq[k].pc = "applied" =>
         ireq[k].new.paid = ireq[k].old.paid \/ ireq[k].new.paid <= Invoice!Sum(AheadOf(ireq[k]))

\* One request at a time has loaded what is there, and sums up all of it.
InTime(q) ==
    /\ q.old = iinv
    /\ q.pc = "applied" =>
         /\ q.new.total = q.old.total /\ q.new.paid = Invoice!Sum(AheadOf(q))
         /\ q.new.status = "paid" => q.new.paid >= q.new.total
         /\ q.paidNow => Invoice!Status(q.old) # "paid" /\ Invoice!Status(q.new) = "paid"
         /\ Invoice!Status(q.old) = "paid" => Invoice!Status(q.new) = "paid"
StoodFor ==
    /\ inote <= 1 /\ iinv.paid = Invoice!Sum(irow)
    /\ iinv.status = "paid" => iinv.paid >= iinv.total
    /\ inote = 1 => Invoice!Status(iinv) = "paid"
AloneInv ==
    ~iover => /\ StoodFor
              /\ \A j, k \in Invoice!Kinds : UnderWay(j) /\ UnderWay(k) => j = k
              /\ \A k \in Invoice!Kinds : UnderWay(k) => InTime(ireq[k])

InvoiceInv == Invoice!ITypeOK /\ PaymentsInv /\ PaidInv /\ AloneInv

LEMMA IdleTypes == Invoice!Idle \in Invoice!RequestType /\ Invoice!Idle.pc = "idle" /\ Invoice!NoRow \in Invoice!RowType /\ Invoice!NoRow.st = "none"
           /\ Invoice!Idle.rows \in PaymentRows /\ \A t \in Totals : Invoice!Draft(t) \in Invoice!InvoiceType
  <1>1. Invoice!MaxTotal * Cardinality(Refs) \in Nat
    BY SumIs, MaxTotalIs, FS_CardinalityType, InvoiceAssumption
  <1>2. Invoice!NoRow \in Invoice!RowType /\ Invoice!NoRow.st = "none"
    BY MaxTotalIs DEF Invoice!NoRow, Invoice!RowType, Invoice!Amount
  <1>3. \A t \in Totals : Invoice!Draft(t) \in Invoice!InvoiceType
    BY <1>1, InvoiceLibrary DEF Invoice!Draft, Invoice!InvoiceType
  <1>4. 0 \in Invoice!Amount /\ [r \in Refs |-> Invoice!NoRow] \in [Refs -> Invoice!RowType]
    BY <1>2, MaxTotalIs DEF Invoice!Amount
  <1>. QED BY <1>2, <1>3, <1>4, MaxTotalIs DEF Invoice!Idle, Invoice!RequestType, PaymentRows

LEMMA InvoiceInit ==
    ASSUME Invoice!IInit
    PROVE  InvoiceInv
  <1>1. Invoice!ITypeOK
    <2>1. iinv \in Invoice!InvoiceType /\ irow \in [Refs -> Invoice!RowType] /\ ireq \in [Invoice!Kinds -> Invoice!RequestType]
      BY IdleTypes DEF Invoice!IInit
    <2>2. itaken \subseteq Refs /\ inote \in 0..2
      BY DEF Invoice!IInit
    <2>3. iover \in BOOLEAN
      BY DEF Invoice!IInit
    <2>. QED BY <2>1, <2>2, <2>3 DEF Invoice!ITypeOK
  <1>2. \A k \in Invoice!Kinds : ireq[k].pc = "idle"
    BY IdleTypes DEF Invoice!IInit
  <1>3. Invoice!Sum(irow) = 0
    <2>1. Invoice!Units(irow) = {}
      BY IdleTypes DEF Invoice!IInit, Invoice!Units
    <2>. QED BY <2>1, FS_EmptySet, InvoiceLibrary DEF Invoice!Sum
  <1>4. iinv.paid = 0 /\ iinv.status = "draft" /\ inote = 0 /\ itaken = {}
    BY DEF Invoice!IInit, Invoice!Draft
  <1>. QED BY <1>1, <1>2, <1>3, <1>4 DEF InvoiceInv, PaymentsInv, PaidInv, AloneInv, StoodFor, UnderWay

-----------------------------------------------------------------------------
(* The steps *)

\* A request begins.
LEMMA RequestKept ==
    ASSUME InvoiceInv, NEW k \in Invoice!Kinds, NEW r \in Refs, NEW amt \in Invoice!Amount,
           Invoice!Load(k, r, amt),
           k \in {"checkout", "manual"} => r \in Invoice!Fresh /\ r \notin itaken,
           k \in {"webhook", "verify"} => r \in itaken /\ amt = irow[r].amt
    PROVE  InvoiceInv'
  <1>. DEFINE new == [Invoice!Idle EXCEPT !.pc = "loaded", !.ref = r, !.amt = amt, !.old = iinv, !.rows = irow]
  <1>1. /\ ireq[k].pc = "idle" /\ ireq' = [ireq EXCEPT ![k] = new] /\ iover' = (iover \/ Invoice!Busy)
        /\ UNCHANGED <<iinv, irow, itaken, inote>>
    BY DEF Invoice!Load
  <1>2. Invoice!ITypeOK
    BY DEF InvoiceInv
  <1>3. new \in Invoice!RequestType /\ new.pc = "loaded" /\ new.ref = r /\ new.amt = amt /\ new.old = iinv /\ new.rows = irow
    BY <1>2, IdleTypes DEF Invoice!RequestType, Invoice!ITypeOK
  <1>. HIDE DEF new
  <1>4. ireq'[k] = new /\ \A j \in Invoice!Kinds \ {k} : ireq'[j] = ireq[j]
    BY <1>1, <1>2 DEF Invoice!ITypeOK
  <1>5. Invoice!ITypeOK'
    BY <1>1, <1>2, <1>3 DEF Invoice!ITypeOK
  <1>6. KeepsPayment(k, new)
    BY <1>3, <1>2 DEF KeepsPayment, Invoice!Fresh, InvoiceInv, PaymentsInv, Invoice!ITypeOK
  <1>7. PaymentsInv'
    <2>1. \A j \in Invoice!Kinds : UnderWay(j)' => KeepsPayment(j, ireq[j])' 
      BY <1>1, <1>4, <1>6 DEF InvoiceInv, PaymentsInv, UnderWay, KeepsPayment
    <2>2. ASSUME NEW j \in Invoice!Kinds, NEW i \in Invoice!Kinds, UnderWay(i)', UnderWay(j)', j # i, ireq'[j].ref = ireq'[i].ref
          PROVE  {j, i} \subseteq {"webhook", "verify"}
      <3>1. CASE j # k /\ i # k
        BY <1>4, <2>2, <3>1 DEF InvoiceInv, PaymentsInv, UnderWay
      <3>2. ASSUME NEW h \in Invoice!Kinds, h # k, UnderWay(h), ireq[h].ref = r
            PROVE  {h, k} \subseteq {"webhook", "verify"}
        <4>1. k \in {"webhook", "verify"} /\ r \in itaken
          BY <3>2 DEF Invoice!Fresh, UnderWay, Invoice!Kinds
        <4>2. h \in {"webhook", "verify"}
          BY <3>2, <4>1 DEF InvoiceInv, PaymentsInv, KeepsPayment, Invoice!Kinds
        <4>. QED BY <4>1, <4>2
      <3>3. CASE j = k
        BY <1>3, <1>4, <2>2, <3>3, <3>2 DEF UnderWay
      <3>4. CASE i = k
        BY <1>3, <1>4, <2>2, <3>4, <3>2 DEF UnderWay
      <3>. QED BY <3>1, <3>3, <3>4
    <2>. QED BY <1>1, <2>1, <2>2 DEF InvoiceInv, PaymentsInv
  <1>8. PaidInv'
    BY <1>1, <1>3, <1>4 DEF InvoiceInv, PaidInv, AheadOf
  <1>9. AloneInv'
    <2>. SUFFICES ASSUME ~iover'
                  PROVE  /\ StoodFor'
                         /\ \A i, j \in Invoice!Kinds : UnderWay(i)' /\ UnderWay(j)' => i = j
                         /\ \A j \in Invoice!Kinds : UnderWay(j)' => InTime(ireq[j])'
      BY DEF AloneInv
    <2>1. ~iover /\ \A j \in Invoice!Kinds : ireq[j].pc = "idle"
      BY <1>1 DEF Invoice!Busy, Invoice!Open
    <2>2. StoodFor'
      BY <1>1, <2>1 DEF InvoiceInv, AloneInv, StoodFor
    <2>3. \A j \in Invoice!Kinds : UnderWay(j)' => j = k
      BY <1>4, <2>1 DEF UnderWay
    <2>4. InTime(ireq[k])'
      BY <1>1, <1>3, <1>4 DEF InTime
    <2>. QED BY <2>2, <2>3, <2>4
  <1>. QED BY <1>5, <1>7, <1>8, <1>9 DEF InvoiceInv

\* A request goes from one step to the next, of the same payment.
LEMMA GoesOnKept ==
    ASSUME InvoiceInv, NEW k \in Invoice!Kinds, NEW new \in Invoice!RequestType, UnderWay(k),
           ireq' = [ireq EXCEPT ![k] = new], UNCHANGED <<iinv, irow, itaken, inote, iover>>,
           new.pc = "idle" \/ new.ref = ireq[k].ref,
           new.pc # "idle" => KeepsPayment(k, new),
           new.pc = "applied" => new.new.paid = new.old.paid \/ new.new.paid <= Invoice!Sum(AheadOf(new)),
           ~iover /\ new.pc # "idle" => InTime(new)
    PROVE  InvoiceInv'
  <1>1. Invoice!ITypeOK
    BY DEF InvoiceInv
  <1>2. ireq'[k] = new /\ \A j \in Invoice!Kinds \ {k} : ireq'[j] = ireq[j]
    BY <1>1 DEF Invoice!ITypeOK
  <1>3. Invoice!ITypeOK'
    BY <1>1 DEF Invoice!ITypeOK
  <1>4. PaymentsInv'
    <2>1. \A j \in Invoice!Kinds : UnderWay(j)' => KeepsPayment(j, ireq[j])' 
      BY <1>2 DEF InvoiceInv, PaymentsInv, UnderWay, KeepsPayment
    <2>2. \A i, j \in Invoice!Kinds : UnderWay(i)' /\ UnderWay(j)' /\ i # j /\ ireq'[i].ref = ireq'[j].ref =>
            {i, j} \subseteq {"webhook", "verify"}
      BY <1>2 DEF InvoiceInv, PaymentsInv, UnderWay
    <2>. QED BY <2>1, <2>2 DEF InvoiceInv, PaymentsInv
  <1>5. PaidInv'
    BY <1>2 DEF InvoiceInv, PaidInv, AheadOf
  <1>6. AloneInv'
    <2>1. ~iover' => \A j \in Invoice!Kinds : UnderWay(j)' => InTime(ireq[j])'
      BY <1>2 DEF InvoiceInv, AloneInv, InTime, UnderWay, AheadOf
    <2>2. ~iover' => StoodFor' /\ \A i, j \in Invoice!Kinds : UnderWay(i)' /\ UnderWay(j)' => i = j
      BY <1>2 DEF InvoiceInv, AloneInv, StoodFor, UnderWay
    <2>. QED BY <2>1, <2>2 DEF AloneInv
  <1>. QED BY <1>3, <1>4, <1>5, <1>6 DEF InvoiceInv

LEMMA RollBackKept ==
    ASSUME InvoiceInv, NEW k \in Invoice!Kinds, Invoice!RollBack(k)
    PROVE  InvoiceInv'
  BY IdleTypes, GoesOnKept DEF Invoice!RollBack, UnderWay

\* The rows, as a request that has summed up leaves them
LEMMA AheadOfIs ==
    ASSUME Invoice!ITypeOK, NEW q, q.ref \in Refs, q.row \in Invoice!RowType
    PROVE  AheadOf(q) \in PaymentRows /\ AheadOf(q)[q.ref] = q.row /\ \A r \in Refs \ {q.ref} : AheadOf(q)[r] = irow[r]
  BY DEF Invoice!ITypeOK, AheadOf, PaymentRows

LEMMA RecordKept ==
    ASSUME InvoiceInv, NEW k \in Invoice!Kinds, Invoice!RecordPayment(k)
    PROVE  InvoiceInv'
  <1>. DEFINE req == ireq[k]
              row == [st |-> IF k = "checkout" THEN "pending" ELSE "success", amt |-> req.amt]
              sent == IF k = "webhook" /\ req.old.status = "draft"
                      THEN [req.old EXCEPT !.status = "sent"] ELSE req.old
              sum == Invoice!Summed(req, row)
              new == Invoice!Recalculated(req.old, sum)
              Wrote(n, w, p) == [req EXCEPT !.pc = "applied", !.amt = 0, !.rows = Invoice!Idle.rows,
                                            !.new = n, !.row = w, !.paidNow = p]
  <1>1. req.pc = "loaded" /\ UNCHANGED <<iinv, irow, itaken, inote, iover>>
    BY DEF Invoice!RecordPayment
  <1>2. Invoice!ITypeOK /\ req \in Invoice!RequestType /\ KeepsPayment(k, req) /\ UnderWay(k) /\ req.ref \in Refs
        /\ irow[req.ref] \in Invoice!RowType
    BY <1>1 DEF InvoiceInv, Invoice!ITypeOK, Invoice!RequestType, PaymentsInv, UnderWay
  <1>3. ASSUME NEW n \in Invoice!InvoiceType, NEW w \in Invoice!RowType, NEW p \in BOOLEAN, Invoice!Write(k, n, w, p)
        PROVE  /\ ireq' = [ireq EXCEPT ![k] = Wrote(n, w, p)] /\ Wrote(n, w, p) \in Invoice!RequestType
    <2>1. ireq' = [ireq EXCEPT ![k] = Wrote(n, w, p)]
      BY <1>2, <1>3 DEF Invoice!Write, Invoice!ITypeOK
    <2>2. 0 \in Invoice!Amount /\ Invoice!Idle.rows \in [Refs -> Invoice!RowType]
      BY MaxTotalIs, IdleTypes DEF Invoice!Amount, PaymentRows
    <2>3. Wrote(n, w, p) \in Invoice!RequestType
      BY <1>2, <1>3, <2>2 DEF Invoice!RequestType
    <2>. QED BY <2>1, <2>3
  <1>4. ASSUME NEW n, NEW w, NEW p
        PROVE  LET q == Wrote(n, w, p) IN
               /\ q.pc = "applied" /\ q.ref = req.ref /\ q.old = req.old
               /\ q.new = n /\ q.row = w /\ q.paidNow = p
    BY <1>2 DEF Invoice!RequestType
  <1>5. row \in Invoice!RowType /\ row.amt = req.amt /\ (row.st = IF k = "checkout" THEN "pending" ELSE "success")
    BY <1>2 DEF Invoice!RequestType, Invoice!RowType
  <1>6. sum \in 0..(Invoice!MaxTotal * Cardinality(Refs)) /\ sum \in Nat
    BY SumIs DEF Invoice!Summed
  <1>7. req.old \in Invoice!InvoiceType /\ sent \in Invoice!InvoiceType /\ sent.paid = req.old.paid
        /\ sent.total = req.old.total /\ (sent.status = "paid" => req.old.status = "paid")
        /\ (Invoice!Status(req.old) = "paid" => sent = req.old)
    BY <1>2, StatusIs, InvoiceLibrary DEF Invoice!RequestType, Invoice!InvoiceType
  <1>8. new \in Invoice!InvoiceType /\ new.paid = sum /\ new.total = req.old.total
        /\ (new.status = "paid" => sum >= new.total) /\ (sum >= new.total => new.status = "paid")
    BY <1>6, <1>7, RecalculatedIs
  <1>9. ~iover => req.old = iinv /\ StoodFor
    BY <1>2 DEF InvoiceInv, AloneInv, InTime
  <1>. HIDE DEF row, sent, sum, new
  <1>10. ASSUME NEW n \in Invoice!InvoiceType, NEW w \in Invoice!RowType, NEW p \in BOOLEAN, Invoice!Write(k, n, w, p),
                k \in {"checkout"} => w.st = "pending", k = "manual" => w.st = "success",
                k \in {"webhook", "verify"} => w.st = "success" /\ w.amt = irow[req.ref].amt,
                n.total = req.old.total,
                n.paid = req.old.paid \/ n.paid = Invoice!Sum([irow EXCEPT ![req.ref] = w]),
                ~iover => /\ n.paid = Invoice!Sum([irow EXCEPT ![req.ref] = w])
                          /\ n.status = "paid" => n.paid >= n.total
                          /\ p => Invoice!Status(req.old) # "paid" /\ Invoice!Status(n) = "paid"
                          /\ Invoice!Status(req.old) = "paid" => Invoice!Status(n) = "paid"
         PROVE  InvoiceInv'
    <2>. DEFINE q == Wrote(n, w, p)
    <2>1. ireq' = [ireq EXCEPT ![k] = q] /\ q \in Invoice!RequestType
      BY <1>3, <1>10
    <2>2. q.pc = "applied" /\ q.ref = req.ref /\ q.old = req.old /\ q.new = n /\ q.row = w /\ q.paidNow = p
      BY <1>4
    <2>. HIDE DEF q
    <2>3. KeepsPayment(k, q)
      BY <1>2, <1>10, <2>2 DEF KeepsPayment
    <2>4. AheadOf(q) = [irow EXCEPT ![req.ref] = w]
      BY <2>2 DEF AheadOf
    <2>5. q.new.paid = q.old.paid \/ q.new.paid <= Invoice!Sum(AheadOf(q))
      BY <1>10, <2>2, <2>4, SumIs
    <2>6. ~iover => InTime(q)
      BY <1>9, <1>10, <2>2, <2>4 DEF InTime
    <2>. QED BY <1>1, <1>2, <2>1, <2>2, <2>3, <2>5, <2>6, GoesOnKept
  <1>11. k \in {"checkout", "manual"} => Invoice!Found(req) = irow[req.ref] /\ irow[req.ref].st = "none"
    BY <1>1, <1>2 DEF KeepsPayment, Invoice!Found
  <1>12. k \in {"webhook", "verify"} => /\ Invoice!Found(req).st = "success" => irow[req.ref].st = "success"
                                        /\ Invoice!Found(req).st # "none" /\ req.amt = irow[req.ref].amt
    BY <1>1, <1>2 DEF KeepsPayment, Invoice!Found
  <1>13. [irow EXCEPT ![req.ref] = irow[req.ref]] = irow
    BY <1>2 DEF Invoice!ITypeOK
  <1>14. CASE k = "checkout"
    <2>1. Invoice!Write(k, req.old, row, FALSE)
      BY <1>11, <1>14 DEF Invoice!RecordPayment, row
    <2>2. row.st = "pending"
      BY <1>5, <1>14
    <2>3. Invoice!Sum([irow EXCEPT ![req.ref] = row]) = Invoice!Sum(irow)
      <3>1. [irow EXCEPT ![req.ref] = row] = AheadOf([req EXCEPT !.row = row])
        BY <1>2 DEF AheadOf, Invoice!RequestType
      <3>2. SumsTo(irow, [irow EXCEPT ![req.ref] = row]) /\ SumsTo([irow EXCEPT ![req.ref] = row], irow)
        BY <1>2, <1>11, <1>14, <2>2 DEF SumsTo, Invoice!ITypeOK
      <3>. QED BY <3>2, SumKeeps
    <2>. QED BY <1>5, <1>7, <1>9, <1>10, <1>14, <2>1, <2>2, <2>3 DEF StoodFor
  <1>15. CASE k # "checkout" /\ Invoice!Found(req).st = "success"
    <2>1. Invoice!Write(k, sent, irow[req.ref], FALSE)
      BY <1>15 DEF Invoice!RecordPayment, sent
    <2>2. k \in {"webhook", "verify"} /\ irow[req.ref].st = "success"
      BY <1>11, <1>12, <1>15 DEF Invoice!Kinds
    <2>. QED BY <1>2, <1>7, <1>9, <1>10, <1>13, <2>1, <2>2 DEF StoodFor
  <1>16. CASE k # "checkout" /\ Invoice!Found(req).st # "success"
    <2>1. Invoice!Write(k, new, row, Invoice!PaidNow(req.old, new))
      BY <1>16 DEF Invoice!RecordPayment, row, new, sum
    <2>2. sum = Invoice!Sum([irow EXCEPT ![req.ref] = row])
      BY DEF sum, Invoice!Summed
    <2>3. row.st = "success" /\ (k \in {"webhook", "verify"} => row.amt = irow[req.ref].amt)
      BY <1>5, <1>12, <1>16
    <2>4. Invoice!Sum(irow) <= sum
      <3>1. k = "manual" => irow[req.ref].st = "none"
        BY <1>11
      <3>2. SumsTo(irow, [irow EXCEPT ![req.ref] = row])
        BY <1>2, <1>16, <2>3, <3>1 DEF SumsTo, Invoice!ITypeOK, Invoice!Kinds
      <3>. QED BY <2>2, <3>2, SumKeeps
    <2>5. ~iover /\ Invoice!Status(req.old) = "paid" => Invoice!Status(new) = "paid"
      <3>. SUFFICES ASSUME ~iover, Invoice!Status(req.old) = "paid" PROVE Invoice!Status(new) = "paid"
        OBVIOUS
      <3>1. req.old.paid >= req.old.total /\ req.old.paid = Invoice!Sum(irow)
        BY <1>9, StatusIs DEF StoodFor
      <3>2. sum >= new.total
        <4>1. Invoice!Sum(irow) \in Nat /\ req.old.total \in Nat
          BY <1>7, SumIs, InvoiceAssumption, InvoiceLibrary DEF Invoice!InvoiceType
        <4>. QED BY <1>6, <1>8, <2>4, <3>1, <4>1
      <3>3. new.status = "paid" /\ new.paid >= new.total
        BY <1>8, <3>2
      <3>. QED BY <3>3, StatusIs
    <2>6. Invoice!PaidNow(req.old, new) \in BOOLEAN
          /\ (Invoice!PaidNow(req.old, new) => Invoice!Status(req.old) # "paid" /\ Invoice!Status(new) = "paid")
      BY DEF Invoice!PaidNow
    <2>. QED BY <1>5, <1>8, <1>10, <1>16, <2>1, <2>2, <2>3, <2>5, <2>6
  <1>. QED BY <1>14, <1>15, <1>16

LEMMA PaymentKept ==
    ASSUME InvoiceInv, NEW k \in Invoice!Kinds, Invoice!Commit(k)
    PROVE  InvoiceInv'
  <1>. DEFINE req == ireq[k]
  <1>1. /\ req.pc = "applied" /\ ireq' = [ireq EXCEPT ![k] = Invoice!Idle] /\ irow' = AheadOf(req)
        /\ inote' = (IF req.paidNow /\ inote < 2 THEN inote + 1 ELSE inote)
        /\ iinv' = [f \in DOMAIN iinv |-> IF req.new[f] # req.old[f] THEN req.new[f] ELSE iinv[f]]
        /\ UNCHANGED <<itaken, iover>>
    BY DEF Invoice!Commit, AheadOf
  <1>2. Invoice!ITypeOK /\ req \in Invoice!RequestType /\ KeepsPayment(k, req) /\ UnderWay(k)
    BY <1>1 DEF InvoiceInv, Invoice!ITypeOK, PaymentsInv, UnderWay
  <1>3. req.new \in Invoice!InvoiceType /\ req.old \in Invoice!InvoiceType /\ req.row \in Invoice!RowType /\ req.ref \in Refs
        /\ req.paidNow \in BOOLEAN
    BY <1>2 DEF Invoice!RequestType
  <1>4. ireq'[k] = Invoice!Idle /\ \A j \in Invoice!Kinds \ {k} : ireq'[j] = ireq[j]
    BY <1>1, <1>2 DEF Invoice!ITypeOK
  <1>5. /\ iinv' \in Invoice!InvoiceType
        /\ iinv'.paid = IF req.new.paid # req.old.paid THEN req.new.paid ELSE iinv.paid
        /\ iinv'.total = IF req.new.total # req.old.total THEN req.new.total ELSE iinv.total
        /\ iinv'.status = IF req.new.status # req.old.status THEN req.new.status ELSE iinv.status
    BY <1>1, <1>2, <1>3, InvoiceLibrary DEF Invoice!ITypeOK, Invoice!InvoiceType
  <1>6. irow' \in PaymentRows /\ irow'[req.ref] = req.row /\ \A r \in Refs \ {req.ref} : irow'[r] = irow[r]
    BY <1>1, <1>2, <1>3, AheadOfIs
  <1>7. Invoice!ITypeOK'
    <2>1. ireq' \in [Invoice!Kinds -> Invoice!RequestType]
      BY <1>1, <1>2, IdleTypes DEF Invoice!ITypeOK
    <2>2. inote' \in 0..2
      BY <1>1, <1>2 DEF Invoice!ITypeOK
    <2>. QED BY <1>1, <1>2, <1>5, <1>6, <2>1, <2>2 DEF Invoice!ITypeOK, PaymentRows
  <1>8. SumsTo(irow, irow')
    BY <1>1, <1>2, <1>6 DEF SumsTo, KeepsPayment, Invoice!Kinds
  <1>9. PaymentsInv'
    <2>1. \A r \in itaken : irow'[r].st # "none"
      <3>1. req.ref \in itaken => req.row.st = "success"
        BY <1>1, <1>2 DEF KeepsPayment, Invoice!Kinds
      <3>. QED BY <1>2, <1>6, <3>1 DEF InvoiceInv, PaymentsInv, Invoice!ITypeOK
    <2>2. ASSUME NEW j \in Invoice!Kinds, UnderWay(j)'
          PROVE  KeepsPayment(j, ireq[j])'
      <3>1. j # k /\ ireq'[j] = ireq[j] /\ UnderWay(j) /\ KeepsPayment(j, ireq[j]) /\ ireq[j].ref \in Refs
        BY <1>2, <1>4, <2>2, IdleTypes DEF UnderWay, InvoiceInv, PaymentsInv, Invoice!ITypeOK,
           Invoice!RequestType
      <3>2. CASE ireq[j].ref # req.ref
        <4>1. irow'[ireq[j].ref] = irow[ireq[j].ref]
          BY <1>6, <3>1, <3>2
        <4>. QED BY <1>1, <3>1, <4>1 DEF KeepsPayment
      <3>3. CASE ireq[j].ref = req.ref
        <4>1. {j, k} \subseteq {"webhook", "verify"}
          BY <1>2, <3>1, <3>3 DEF InvoiceInv, PaymentsInv
        <4>2. irow'[req.ref].st = "success" /\ irow'[req.ref].amt = irow[req.ref].amt
          BY <1>1, <1>2, <1>6, <4>1 DEF KeepsPayment
        <4>. QED BY <1>1, <3>1, <3>3, <4>1, <4>2 DEF KeepsPayment
      <3>. QED BY <3>2, <3>3
    <2>3. \A i, j \in Invoice!Kinds : UnderWay(i)' /\ UnderWay(j)' /\ i # j /\ ireq'[i].ref = ireq'[j].ref =>
            {i, j} \subseteq {"webhook", "verify"}
      BY <1>2, <1>4, IdleTypes DEF InvoiceInv, PaymentsInv, UnderWay
    <2>. QED BY <1>1, <2>1, <2>2, <2>3 DEF PaymentsInv
  <1>10. Invoice!Sum(irow) <= Invoice!Sum(irow') /\ Invoice!Sum(irow) \in Nat /\ Invoice!Sum(irow') \in Nat
    BY <1>8, SumKeeps, SumIs
  <1>11. PaidInv'
    <2>1. iinv'.paid <= Invoice!Sum(irow')
      <3>1. CASE req.new.paid # req.old.paid
        BY <1>1, <1>5, <3>1 DEF InvoiceInv, PaidInv
      <3>2. CASE req.new.paid = req.old.paid
        <4>1. iinv'.paid = iinv.paid /\ iinv.paid <= Invoice!Sum(irow) /\ iinv.paid \in Nat
          BY <1>2, <1>5, <3>2, InvoiceLibrary DEF InvoiceInv, PaidInv, Invoice!ITypeOK, Invoice!InvoiceType
        <4>. QED BY <1>10, <4>1
      <3>. QED BY <3>1, <3>2
    <2>2. ASSUME NEW j \in Invoice!Kinds, ireq'[j].pc = "applied"
          PROVE  ireq'[j].new.paid = ireq'[j].old.paid \/ ireq'[j].new.paid <= Invoice!Sum(AheadOf(ireq[j])')
      <3>1. ireq'[j] = ireq[j] /\ ireq[j] \in Invoice!RequestType
        BY <1>2, <1>4, <2>2, IdleTypes DEF Invoice!ITypeOK
      <3>. DEFINE q == ireq[j]
      <3>2. q.ref \in Refs /\ q.row \in Invoice!RowType /\ q.new.paid \in Nat
        BY <3>1, InvoiceLibrary DEF Invoice!RequestType, Invoice!InvoiceType
      <3>3. AheadOf(q)' = [irow' EXCEPT ![q.ref] = q.row]
        BY <3>1 DEF AheadOf
      <3>4. SumsTo(AheadOf(q), AheadOf(q)')
        BY <1>2, <1>6, <1>8, <3>2, <3>3 DEF SumsTo, AheadOf, Invoice!ITypeOK, PaymentRows
      <3>5. Invoice!Sum(AheadOf(q)) <= Invoice!Sum(AheadOf(q)') /\ Invoice!Sum(AheadOf(q)) \in Nat /\ Invoice!Sum(AheadOf(q)') \in Nat
        BY <3>4, SumKeeps, SumIs
      <3>6. q.new.paid = q.old.paid \/ q.new.paid <= Invoice!Sum(AheadOf(q))
        BY <2>2, <3>1 DEF InvoiceInv, PaidInv
      <3>. HIDE DEF q
      <3>7. q.new.paid = q.old.paid \/ q.new.paid <= Invoice!Sum(AheadOf(q)')
        BY <3>2, <3>5, <3>6
      <3>. QED BY <3>1, <3>7 DEF q
    <2>. QED BY <2>1, <2>2 DEF PaidInv
  <1>12. AloneInv'
    <2>. SUFFICES ASSUME ~iover
                  PROVE  StoodFor' /\ \A j \in Invoice!Kinds : ~UnderWay(j)'
      BY <1>1 DEF AloneInv
    <2>1. \A j \in Invoice!Kinds : ~UnderWay(j)'
      BY <1>2, <1>4, IdleTypes DEF InvoiceInv, AloneInv, UnderWay
    <2>2. StoodFor /\ InTime(req)
      BY <1>2 DEF InvoiceInv, AloneInv
    <2>3. iinv'.paid = req.new.paid /\ iinv'.total = req.new.total /\ iinv'.status = req.new.status
      BY <1>5, <2>2 DEF InTime
    <2>4. Invoice!Status(req.new) = "paid" => Invoice!Status(iinv') = "paid"
      BY <2>3, StatusIs
    <2>5. iinv'.paid = Invoice!Sum(irow') /\ (iinv'.status = "paid" => iinv'.paid >= iinv'.total)
      BY <1>1, <2>2, <2>3 DEF InTime
    <2>6. req.paidNow => inote = 0
      BY <1>1, <1>2, <2>2 DEF InTime, StoodFor, Invoice!ITypeOK
    <2>7. inote' <= 1 /\ (inote' = 1 => Invoice!Status(req.new) = "paid")
      BY <1>1, <1>2, <2>2, <2>6 DEF InTime, StoodFor, Invoice!ITypeOK
    <2>. QED BY <2>1, <2>4, <2>5, <2>7 DEF StoodFor
  <1>. QED BY <1>7, <1>9, <1>11, <1>12 DEF InvoiceInv

LEMMA PaysKept ==
    ASSUME InvoiceInv, NEW r \in Refs, Invoice!CustomerPays(r)
    PROVE  InvoiceInv'
  <1>1. irow[r].st \in {"pending", "failed"} /\ itaken' = itaken \union {r}
        /\ UNCHANGED <<iinv, irow, ireq, inote, iover>>
    BY DEF Invoice!CustomerPays
  <1>2. Invoice!ITypeOK'
    BY <1>1 DEF InvoiceInv, Invoice!ITypeOK
  <1>3. PaymentsInv'
    BY <1>1 DEF InvoiceInv, PaymentsInv, KeepsPayment, UnderWay
  <1>4. PaidInv' /\ AloneInv'
    BY <1>1 DEF InvoiceInv, PaidInv, AloneInv, StoodFor, InTime, AheadOf, UnderWay
  <1>. QED BY <1>2, <1>3, <1>4 DEF InvoiceInv

LEMMA FailedKept ==
    ASSUME InvoiceInv, ~LateFailure, NEW r \in Refs, Invoice!ChargeFailed(r)
    PROVE  InvoiceInv'
  <1>1. /\ r \notin itaken /\ irow[r].st = "pending" /\ irow' = [irow EXCEPT ![r].st = "failed"]
        /\ iover' = (iover \/ Invoice!Busy) /\ UNCHANGED <<iinv, itaken, ireq, inote>>
    BY DEF Invoice!ChargeFailed
  <1>2. Invoice!ITypeOK
    BY DEF InvoiceInv
  <1>3. irow'[r].st = "failed" /\ irow' \in PaymentRows /\ \A u \in Refs \ {r} : irow'[u] = irow[u]
    BY <1>1, <1>2 DEF Invoice!ITypeOK, PaymentRows, Invoice!RowType
  <1>4. Invoice!ITypeOK'
    BY <1>1, <1>2, <1>3 DEF Invoice!ITypeOK, PaymentRows
  <1>5. \A k \in Invoice!Kinds : UnderWay(k) => ireq[k].ref # r
    BY <1>1 DEF InvoiceInv, PaymentsInv, KeepsPayment, Invoice!Kinds
  <1>6. PaymentsInv'
    <2>1. ASSUME NEW k \in Invoice!Kinds, UnderWay(k)
          PROVE  KeepsPayment(k, ireq[k])'
      <3>1. irow'[ireq[k].ref] = irow[ireq[k].ref]
        BY <1>2, <1>3, <1>5, <2>1 DEF Invoice!ITypeOK, Invoice!RequestType
      <3>2. KeepsPayment(k, ireq[k])
        BY <2>1 DEF InvoiceInv, PaymentsInv
      <3>. QED BY <1>1, <3>1, <3>2 DEF KeepsPayment
    <2>2. \A u \in itaken : irow'[u].st # "none"
      BY <1>1, <1>2, <1>3 DEF InvoiceInv, PaymentsInv, Invoice!ITypeOK
    <2>. QED BY <1>1, <2>1, <2>2 DEF InvoiceInv, PaymentsInv, UnderWay
  <1>7. Invoice!Sum(irow') = Invoice!Sum(irow)
    <2>1. SumsTo(irow, irow') /\ SumsTo(irow', irow)
      BY <1>1, <1>3 DEF SumsTo
    <2>. QED BY <2>1, SumKeeps
  <1>8. PaidInv'
    <2>1. ASSUME NEW k \in Invoice!Kinds, ireq[k].pc = "applied"
          PROVE  Invoice!Sum(AheadOf(ireq[k])') = Invoice!Sum(AheadOf(ireq[k]))
      <3>1. AheadOf(ireq[k])' = [irow' EXCEPT ![ireq[k].ref] = ireq[k].row]
        BY <1>1 DEF AheadOf
      <3>2. SumsTo(AheadOf(ireq[k]), AheadOf(ireq[k])') /\ SumsTo(AheadOf(ireq[k])', AheadOf(ireq[k]))
        BY <1>1, <1>2, <1>3, <3>1 DEF SumsTo, AheadOf, Invoice!ITypeOK, PaymentRows
      <3>. QED BY <3>2, SumKeeps
    <2>. QED BY <1>1, <1>7, <2>1 DEF InvoiceInv, PaidInv
  <1>9. AloneInv'
    <2>1. ~iover' => ~iover /\ \A k \in Invoice!Kinds : ~UnderWay(k)
      BY <1>1 DEF Invoice!Busy, Invoice!Open, UnderWay
    <2>. QED BY <1>1, <1>7, <2>1 DEF InvoiceInv, AloneInv, StoodFor, UnderWay
  <1>. QED BY <1>4, <1>6, <1>8, <1>9 DEF InvoiceInv

\* A short request that changes the invoice
LEMMA InvoiceShortKept ==
    ASSUME InvoiceInv, NEW inv \in Invoice!InvoiceType, Invoice!Short(inv), inote' \in 0..2,
           inv.paid <= Invoice!Sum(irow),
           ~iover => /\ inv.paid = Invoice!Sum(irow) /\ inote' <= 1
                     /\ inv.status = "paid" => inv.paid >= inv.total
                     /\ inote' = 1 => Invoice!Status(inv) = "paid"
    PROVE  InvoiceInv'
  <1>1. iinv' = inv /\ iover' = (iover \/ Invoice!Busy) /\ UNCHANGED <<irow, itaken, ireq>>
    BY DEF Invoice!Short
  <1>2. Invoice!ITypeOK'
    BY <1>1 DEF InvoiceInv, Invoice!ITypeOK
  <1>3. PaymentsInv' /\ PaidInv'
    BY <1>1 DEF InvoiceInv, PaymentsInv, PaidInv, KeepsPayment, UnderWay, AheadOf
  <1>4. AloneInv'
    <2>1. ~iover' => ~iover /\ \A k \in Invoice!Kinds : ~UnderWay(k)
      BY <1>1 DEF Invoice!Busy, Invoice!Open, UnderWay
    <2>. QED BY <1>1, <2>1 DEF AloneInv, StoodFor, UnderWay
  <1>. QED BY <1>2, <1>3, <1>4 DEF InvoiceInv

LEMMA InvoiceStatusKept ==
    ASSUME InvoiceInv, Invoice!Send \/ Invoice!View \/ Invoice!Void
    PROVE  InvoiceInv'
  <1>. PICK st \in {"sent", "viewed", "void"} : Invoice!Short([iinv EXCEPT !.status = st])
       /\ UNCHANGED inote /\ (st # "void" => iinv.status \in {"draft", "viewed", "sent"})
       /\ (st = "void" => Invoice!Status(iinv) # "paid")
    BY DEF Invoice!Send, Invoice!View, Invoice!Void
  <1>. DEFINE inv == [iinv EXCEPT !.status = st]
  <1>1. inv \in Invoice!InvoiceType /\ inv.paid = iinv.paid /\ inv.total = iinv.total /\ inv.status = st
    BY InvoiceLibrary DEF InvoiceInv, Invoice!ITypeOK, Invoice!InvoiceType
  <1>2. Invoice!Short(inv) /\ inote' \in 0..2 /\ inote' = inote
    BY DEF InvoiceInv, Invoice!ITypeOK
  <1>. HIDE DEF inv
  <1>3. Invoice!Status(iinv) = "paid" => Invoice!Status(inv) = "paid"
    BY <1>1, StatusIs
  <1>. QED BY <1>1, <1>2, <1>3, InvoiceShortKept DEF InvoiceInv, PaidInv, AloneInv, StoodFor

LEMMA InvoiceEditKept ==
    ASSUME InvoiceInv, Invoice!Edit
    PROVE  InvoiceInv'
  <1>. DEFINE Edits(old) == /\ Invoice!Short(Invoice!Recalculated(old, Invoice!Sum(irow)))
                            /\ inote' \in 0..2
                            /\ inote' # 0 => inote' = inote /\ old.total = iinv.total
  <1>1. \E old \in Invoice!InvoiceType : Edits(old)
    <2>1. ASSUME NEW t \in Totals, Invoice!Short(Invoice!Recalculated([iinv EXCEPT !.total = t], Invoice!Sum(irow))), inote' = 0
          PROVE  \E old \in Invoice!InvoiceType : Edits(old)
      <3>1. [iinv EXCEPT !.total = t] \in Invoice!InvoiceType
        BY InvoiceLibrary DEF InvoiceInv, Invoice!ITypeOK, Invoice!InvoiceType
      <3>. QED BY <2>1, <3>1
    <2>2. ASSUME NEW st \in {"draft", "sent", "paid"}, UNCHANGED inote,
                 Invoice!Short(Invoice!Recalculated([iinv EXCEPT !.status = st], Invoice!Sum(irow)))
          PROVE  \E old \in Invoice!InvoiceType : Edits(old)
      <3>1. [iinv EXCEPT !.status = st] \in Invoice!InvoiceType /\ [iinv EXCEPT !.status = st].total = iinv.total
        BY InvoiceLibrary DEF InvoiceInv, Invoice!ITypeOK, Invoice!InvoiceType
      <3>2. inote' \in 0..2
        BY <2>2 DEF InvoiceInv, Invoice!ITypeOK
      <3>. QED BY <2>2, <3>1, <3>2
    <2>. QED BY <2>1, <2>2 DEF Invoice!Edit
  <1>2. PICK old \in Invoice!InvoiceType : Edits(old)
    BY <1>1
  <1>. DEFINE inv == Invoice!Recalculated(old, Invoice!Sum(irow))
  <1>3. Invoice!Sum(irow) \in 0..(Invoice!MaxTotal * Cardinality(Refs)) /\ Invoice!Sum(irow) \in Nat
    BY SumIs
  <1>4. /\ inv \in Invoice!InvoiceType /\ inv.paid = Invoice!Sum(irow) /\ inv.total = old.total
        /\ inv.status = "paid" => Invoice!Sum(irow) >= inv.total
        /\ Invoice!Sum(irow) >= inv.total => inv.status = "paid"
    BY <1>3, RecalculatedIs
  <1>5. Invoice!Short(inv)
    BY <1>2
  <1>. HIDE DEF inv
  <1>6. ~iover /\ inote' # 0 => inote' <= 1 /\ Invoice!Status(inv) = "paid"
    <2>. SUFFICES ASSUME ~iover, inote' # 0 PROVE inote' <= 1 /\ Invoice!Status(inv) = "paid"
      OBVIOUS
    <2>1. inote' = inote /\ old.total = iinv.total /\ StoodFor /\ inote = 1
      BY <1>2 DEF InvoiceInv, AloneInv, StoodFor, Invoice!ITypeOK
    <2>2. iinv.paid >= iinv.total /\ iinv.paid = Invoice!Sum(irow)
      BY <2>1, StatusIs DEF StoodFor
    <2>3. inv.paid >= inv.total /\ inv.status = "paid"
      BY <1>4, <2>1, <2>2
    <2>. QED BY <2>1, <2>3, StatusIs
  <1>. QED BY <1>2, <1>3, <1>4, <1>5, <1>6, InvoiceShortKept

LEMMA InvoiceNext ==
    ASSUME ~LateFailure, InvoiceInv, [Invoice!INext]_ivars
    PROVE  InvoiceInv'
  <1>1. ASSUME NEW r \in Refs, Invoice!Checkout(r)
        PROVE  InvoiceInv'
    <2>0. r \in Invoice!Fresh /\ Invoice!Load("checkout", r, Invoice!Balance(iinv))
      BY <1>1 DEF Invoice!Checkout
    <2>1. Invoice!Balance(iinv) \in Invoice!Amount /\ r \in Invoice!Fresh /\ Invoice!Load("checkout", r, Invoice!Balance(iinv))
      <3>1. iinv.total \in Nat /\ iinv.total <= Invoice!MaxTotal /\ Invoice!MaxTotal \in Nat
        BY MaxTotalIs, InvoiceLibrary DEF InvoiceInv, Invoice!ITypeOK, Invoice!InvoiceType, Invoice!Amount
      <3>2. iinv.paid \in Nat
        BY InvoiceLibrary DEF InvoiceInv, Invoice!ITypeOK, Invoice!InvoiceType
      <3>3. Invoice!Balance(iinv) \in Invoice!Amount
        <4>1. iinv.paid < iinv.total => iinv.total - iinv.paid \in 0..Invoice!MaxTotal
          BY <3>1, <3>2
        <4>. QED BY <3>1, <3>2, <4>1 DEF Invoice!Balance, Invoice!Amount
      <3>. QED BY <2>0, <3>3
    <2>2. r \notin itaken
      BY <2>1 DEF Invoice!Fresh, InvoiceInv, PaymentsInv
    <2>. QED BY <2>1, <2>2, RequestKept DEF Invoice!Kinds
  <1>2. ASSUME NEW r \in Refs, NEW amt \in Invoice!Amount, Invoice!Manual(r, amt)
        PROVE  InvoiceInv'
    <2>1. r \in Invoice!Fresh /\ Invoice!Load("manual", r, amt)
      BY <1>2 DEF Invoice!Manual
    <2>2. r \notin itaken
      BY <2>1 DEF Invoice!Fresh, InvoiceInv, PaymentsInv
    <2>. QED BY <2>1, <2>2, RequestKept DEF Invoice!Kinds
  <1>3. ASSUME NEW r \in Refs, NEW k \in {"webhook", "verify"}, Invoice!Confirmed(k, r)
        PROVE  InvoiceInv'
    <2>1. r \in itaken /\ Invoice!Load(k, r, irow[r].amt) /\ irow[r].amt \in Invoice!Amount /\ k \in Invoice!Kinds
      BY <1>3 DEF Invoice!Confirmed, InvoiceInv, Invoice!ITypeOK, Invoice!RowType, Invoice!Kinds
    <2>. QED BY <2>1, RequestKept
  <1>4. ASSUME UNCHANGED ivars
        PROVE  InvoiceInv'
    BY <1>4 DEF ivars, InvoiceInv, Invoice!ITypeOK, PaymentsInv, PaidInv, AloneInv, StoodFor, InTime,
       KeepsPayment, UnderWay, AheadOf
  <1>. QED
    BY <1>1, <1>2, <1>3, <1>4, PaysKept, FailedKept, RecordKept, PaymentKept, RollBackKept, InvoiceStatusKept, InvoiceEditKept
    DEF Invoice!INext

LEMMA InvoiceFollow ==
    ASSUME InvoiceInv
    PROVE  Invoice!InvoiceHolds
  BY DEF InvoiceInv, Invoice!InvoiceHolds, Invoice!MoneyCounted, Invoice!PaidIsPaid,
     Invoice!PaidOnce, PaidInv, AloneInv, StoodFor

LEMMA InvoiceStep == [Next]_vars => [Invoice!INext]_ivars
  BY DEF Next, vars, In, ivars

\* The payments of an invoice: it shows no more than has been paid, and all of
\* it and one notification while no two requests overlap, for any references
\* and totals, if a charge that has succeeded is not told to have failed.
THEOREM InvoiceHoldsAlways ==
    ASSUME ~LateFailure
    PROVE  Spec => []InvoiceHolds
  <1>1. Init => Invoice!IInit
    BY DEF Init
  <1>2. Init => InvoiceInv
    BY <1>1, InvoiceInit
  <1>3. InvoiceInv /\ [Next]_vars => InvoiceInv'
    BY InvoiceStep, InvoiceNext
  <1>4. InvoiceInv => InvoiceHolds
    BY InvoiceFollow DEF InvoiceHolds
  <1>. QED BY <1>2, <1>3, <1>4, PTL DEF Spec

-----------------------------------------------------------------------------
(* Who sends a message *)

LEMMA SenderLibrary ==
    \A S : Sender!Cardinality(S) = Cardinality(S) /\ Sender!SetToSeq(S) = SetToSeq(S)
  BY DEF Sender!Cardinality, Cardinality, Sender!SetToSeq, SetToSeq, Sender!IsInjective, IsInjective

LEMMA SendersFinite == IsFiniteSet(Phones) /\ IsFiniteSet(Sender!Senders) /\ Sender!Nobody \notin Sender!Senders
  BY SendersAssumption DEF Sender!Senders, Sender!Nobody

\* The orders of senders are sequences, and who is put into one is in it.
IsOrder(s) == \E S : s \in Seq(S)
Lists(s, x) == \E i \in 1..Len(s) : s[i] = x

LEMMA OrderIs ==
    ASSUME NEW S, NEW s \in Seq(S)
    PROVE  IsOrder(s) /\ Len(s) \in Nat /\ DOMAIN s = 1..Len(s)
  BY DEF IsOrder

LEMMA JoinedOrder ==
    ASSUME NEW s, NEW t, IsOrder(s), IsOrder(t)
    PROVE  /\ IsOrder(s \o t)
           /\ \A x : Lists(s, x) \/ Lists(t, x) => Lists(s \o t, x)
  <1>1. PICK S : s \in Seq(S)
    BY DEF IsOrder
  <1>2. PICK T : t \in Seq(T)
    BY DEF IsOrder
  <1>3. s \in Seq(S \union T) /\ t \in Seq(S \union T)
    BY <1>1, <1>2
  <1>4. s \o t \in Seq(S \union T) /\ Len(s \o t) = Len(s) + Len(t) /\ Len(s) \in Nat /\ Len(t) \in Nat
        /\ \A i \in 1..(Len(s) + Len(t)) : (s \o t)[i] = IF i <= Len(s) THEN s[i] ELSE t[i - Len(s)]
    BY <1>3
  <1>5. ASSUME NEW x, Lists(s, x)
        PROVE  Lists(s \o t, x)
    <2>1. PICK i \in 1..Len(s) : s[i] = x
      BY <1>5 DEF Lists
    <2>2. i \in 1..Len(s \o t) /\ (s \o t)[i] = x
      BY <1>4, <2>1
    <2>. QED BY <2>2 DEF Lists
  <1>6. ASSUME NEW x, Lists(t, x)
        PROVE  Lists(s \o t, x)
    <2>1. PICK i \in 1..Len(t) : t[i] = x
      BY <1>6 DEF Lists
    <2>2. i + Len(s) \in 1..Len(s \o t) /\ (s \o t)[i + Len(s)] = x
      BY <1>4, <2>1
    <2>. QED BY <2>2 DEF Lists
  <1>. QED BY <1>4, <1>5, <1>6 DEF IsOrder

LEMMA ListIs ==
    ASSUME NEW S, IsFiniteSet(S)
    PROVE  SetToSeq(S) \in Seq(S) /\ \A x \in S : Lists(SetToSeq(S), x)
  <1>. DEFINE n == Cardinality(S)
              f == SetToSeq(S)
  <1>1. n \in Nat /\ IsFiniteSet(1..n) /\ Cardinality(1..n) = n
    BY FS_CardinalityType, FS_Interval
  <1>2. \E g \in [1..n -> S] : IsInjective(g)
    <2>1. PICK g : g \in Bijection(1..n, S)
      BY FS_CardinalityType DEF ExistsBijection
    <2>. QED BY <2>1 DEF Bijection, Injection
  <1>3. f \in [1..n -> S] /\ IsInjective(f)
    BY <1>2 DEF SetToSeq
  <1>4. f \in Injection(1..n, S)
    BY <1>3 DEF Injection
  <1>5. f \in Surjection(1..n, S)
    BY <1>1, <1>4, FS_Surjection, FS_Injection
  <1>. HIDE DEF f
  <1>6. f \in Seq(S) /\ Len(f) = n
    BY <1>1, <1>3
  <1>. QED BY <1>5, <1>6 DEF Surjection, Lists, f

LEMMA MadeIs ==
    ASSUME NEW n \in Nat, NEW f, f = [i \in 1..n |-> f[i]]
    PROVE  IsOrder(f) /\ Len(f) \in Nat
  <1>1. f \in Seq({f[i] : i \in 1..n})
    OBVIOUS
  <1>. QED BY <1>1, OrderIs

LEMMA EnabledIs ==
    ASSUME NEW S
    PROVE  IsOrder(Sender!Enabled(S)) /\ Len(Sender!Enabled(S)) \in Nat
  <1>. DEFINE on == {p \in Phones : dphone[p] \in S}
              f == Sender!Enabled(S)
              Who(i) == CHOOSE p \in on : Cardinality({q \in on : q <= p}) = i
  <1>1. Cardinality(on) \in Nat
    <2>1. IsFiniteSet(on)
      BY FS_Subset, SendersFinite
    <2>. QED BY <2>1, FS_CardinalityType
  <1>2. f = [i \in 1..Cardinality(on) |-> Who(i)]
    BY SenderLibrary DEF Sender!Enabled
  <1>. HIDE DEF on, f, Who
  <1>3. f = [i \in 1..Cardinality(on) |-> f[i]]
    BY <1>2
  <1>4. IsOrder(f) /\ Len(f) \in Nat
    BY <1>1, <1>3, MadeIs
  <1>. QED BY <1>4 DEF f

\* What may be sent, and over whom
MessageInv ==
    \/ /\ dmsg.channel = "sms" /\ ~dmsg.pooled /\ dset.mode \in Sender!Modes /\ dset.turn \in Nat
    \/ /\ dmsg \in Sender!Mail
       /\ ~dset.primary /\ dset.usable \subseteq Sender!Senders

LEMMA OneIs ==
    ASSUME NEW x
    PROVE  IsOrder(<<x>>) /\ Lists(<<x>>, x) /\ Len(<<x>>) = 1 /\ <<x>>[1] = x
  <1>. DEFINE s == <<x>>
  <1>1. s \in Seq({x}) /\ Len(s) = 1 /\ s[1] = x
    OBVIOUS
  <1>. HIDE DEF s
  <1>2. Lists(s, x)
    BY <1>1 DEF Lists
  <1>. QED BY <1>1, <1>2, OrderIs DEF s

LEMMA NoneIs == IsOrder(<< >>) /\ Len(<< >>) = 0
  <1>1. << >> \in Seq({}) /\ Len(<< >>) = 0
    OBVIOUS
  <1>. QED BY <1>1 DEF IsOrder

LEMMA PrimaryFirstIs == IsOrder(Sender!PrimaryFirst) /\ (dset.primary => Lists(Sender!PrimaryFirst, Sender!Primary))
  BY OneIs, NoneIs DEF Sender!PrimaryFirst

\* A sequence that starts elsewhere has the same members.
LEMMA TurnedIs ==
    ASSUME NEW s, IsOrder(s), NEW k \in 0..Len(s)
    PROVE  LET t == SubSeq(s, k + 1, Len(s)) \o SubSeq(s, 1, k) IN
           IsOrder(t) /\ \A x : Lists(s, x) => Lists(t, x)
  <1>1. PICK S : s \in Seq(S)
    BY DEF IsOrder
  <1>. DEFINE u == SubSeq(s, k + 1, Len(s))
              v == SubSeq(s, 1, k)
  <1>2. Len(s) \in Nat /\ k \in Nat
    BY <1>1
  <1>3. /\ u \in Seq(S) /\ Len(u) = Len(s) - k
        /\ \A i \in 1..(Len(s) - k) : u[i] = s[k + i]
    BY <1>1, <1>2
  <1>4. v \in Seq(S) /\ Len(v) = k /\ \A i \in 1..k : v[i] = s[i]
    BY <1>1, <1>2
  <1>. HIDE DEF u, v
  <1>5. ASSUME NEW x, Lists(s, x)
        PROVE  Lists(u, x) \/ Lists(v, x)
    <2>1. PICK i \in 1..Len(s) : s[i] = x
      BY <1>5 DEF Lists
    <2>2. CASE i <= k
      BY <1>2, <1>4, <2>1, <2>2 DEF Lists
    <2>3. CASE i > k
      <3>1. i - k \in 1..(Len(s) - k) /\ u[i - k] = s[i]
        BY <1>2, <1>3, <2>3
      <3>. QED BY <1>3, <2>1, <3>1 DEF Lists
    <2>. QED BY <1>2, <2>2, <2>3
  <1>6. IsOrder(u) /\ IsOrder(v)
    BY <1>3, <1>4, OrderIs
  <1>. QED BY <1>5, <1>6, JoinedOrder DEF u, v

LEMMA TextOrderIs ==
    ASSUME MessageInv, dmsg.channel = "sms"
    PROVE  IsOrder(Sender!TextOrder) /\ (dset.primary => Lists(Sender!TextOrder, Sender!Primary))
  <1>. DEFINE all == Sender!Enabled({"on", "default"})
              ring == Sender!PrimaryFirst \o all
  <1>1. IsOrder(ring) /\ (dset.primary => Lists(ring, Sender!Primary))
    BY EnabledIs, PrimaryFirstIs, JoinedOrder
  <1>2. dset.mode \in Sender!Modes /\ dset.turn \in Nat
    BY DEF MessageInv, Sender!Mail
  <1>3. CASE dmsg.explicit
    <2>. DEFINE own == IF dphone[dmsg.pin] \in {"on", "default"} THEN <<dmsg.pin>> ELSE <<>>
    <2>1. IsOrder(own)
      BY OneIs, NoneIs
    <2>2. Sender!TextOrder = own \o Sender!PrimaryFirst
      BY <1>3 DEF Sender!TextOrder
    <2>. HIDE DEF own
    <2>. QED BY <2>1, <2>2, PrimaryFirstIs, JoinedOrder
  <1>4. CASE ~dmsg.explicit /\ all = << >>
    <2>1. Sender!TextOrder = <<Sender!Primary>>
      BY <1>4 DEF Sender!TextOrder
    <2>. QED BY <2>1, OneIs
  <1>5. CASE ~dmsg.explicit /\ all # << >> /\ dset.mode \in {"render_first", "failover"}
    <2>1. Sender!TextOrder = ring
      BY <1>5 DEF Sender!TextOrder
    <2>. QED BY <2>1, <1>1
  <1>6. CASE ~dmsg.explicit /\ all # << >> /\ dset.mode = "default_phone"
    <2>1. Sender!TextOrder = Sender!Enabled({"default"}) \o Sender!PrimaryFirst \o Sender!Enabled({"on"})
      BY <1>6 DEF Sender!TextOrder
    <2>2. IsOrder(Sender!Enabled({"default"}) \o Sender!PrimaryFirst)
          /\ (dset.primary => Lists(Sender!Enabled({"default"}) \o Sender!PrimaryFirst, Sender!Primary))
      BY EnabledIs, PrimaryFirstIs, JoinedOrder
    <2>. QED BY <2>1, <2>2, EnabledIs, JoinedOrder
  <1>7. CASE ~dmsg.explicit /\ all # << >> /\ dset.mode = "round_robin"
    <2>. DEFINE k == dset.turn % Len(ring)
    <2>1. Sender!TextOrder = SubSeq(ring, k + 1, Len(ring)) \o SubSeq(ring, 1, k)
      BY <1>7 DEF Sender!TextOrder
    <2>2. Len(ring) \in Nat \ {0}
      <3>1. PICK S, T : Sender!PrimaryFirst \in Seq(S) /\ all \in Seq(T)
        BY EnabledIs, PrimaryFirstIs DEF IsOrder
      <3>2. Sender!PrimaryFirst \in Seq(S \union T) /\ all \in Seq(S \union T)
        BY <3>1
      <3>. HIDE DEF all
      <3>3. Len(all) # 0 /\ Len(all) \in Nat /\ Len(Sender!PrimaryFirst) \in Nat /\ Len(ring) = Len(Sender!PrimaryFirst) + Len(all)
        BY <1>7, <3>2
      <3>. QED BY <3>3
    <2>. HIDE DEF ring
    <2>3. k \in 0..Len(ring)
      BY <1>2, <2>2
    <2>. HIDE DEF k
    <2>. QED BY <1>1, <2>1, <2>3, TurnedIs
  <1>. QED BY <1>2, <1>3, <1>4, <1>5, <1>6, <1>7 DEF Sender!Modes

\* A message that has one sender
Pinned ==
    \/ dmsg.channel = "email" /\ dmsg.pooled /\ dmsg.thread
    \/ dmsg.channel = "email" /\ dmsg.explicit /\ ~dmsg.pooled /\ dmsg.pin \in dset.usable
Rotates == dmsg.channel = "email" /\ dmsg.pooled /\ ~dmsg.thread

LEMMA MailOrderIs ==
    ASSUME MessageInv, dmsg.channel = "email"
    PROVE  /\ IsOrder(Sender!MailOrder)
           /\ Pinned => Sender!MailOrder = <<dmsg.pin>>
           /\ Rotates => \A s \in dmsg.pool \union {dmsg.pin} : Lists(Sender!MailOrder, s)
  <1>1. dmsg \in Sender!Mail
    BY DEF MessageInv
  <1>2. dmsg.pool \subseteq Sender!Senders /\ dmsg.pin \in Sender!Senders /\ (dmsg.reply => ~dmsg.pooled)
        /\ (~dmsg.pooled => ~dmsg.thread) /\ {dmsg.reply, dmsg.pooled, dmsg.thread, dmsg.explicit} \subseteq BOOLEAN
    BY <1>1 DEF Sender!Mail
  <1>. DEFINE own == IF dmsg.reply /\ dmsg.explicit /\ dmsg.pin \in Boxes THEN <<>> ELSE <<dmsg.pin>>
              rest == SetToSeq(dmsg.pool \ {dmsg.pin})
  <1>3. IsOrder(own) /\ (~dmsg.reply => own = <<dmsg.pin>>)
    BY OneIs, NoneIs
  <1>4. IsOrder(rest) /\ \A s \in dmsg.pool \ {dmsg.pin} : Lists(rest, s)
    <2>1. IsFiniteSet(dmsg.pool \ {dmsg.pin})
      BY <1>2, FS_Subset, SendersFinite
    <2>. QED BY <2>1, ListIs, OrderIs
  <1>5. own \o << >> = own
    BY <1>3 DEF IsOrder
  <1>. HIDE DEF own, rest
  <1>6. Sender!MailOrder = IF dmsg.reply /\ Sender!ReplyBox # Sender!Nobody THEN <<Sender!ReplyBox>>
                    ELSE IF dmsg.pooled /\ ~dmsg.thread THEN own \o rest ELSE own
    BY <1>5, SenderLibrary DEF Sender!MailOrder, own, rest
  <1>7. IsOrder(Sender!MailOrder)
    BY <1>3, <1>4, <1>6, JoinedOrder, OneIs
  <1>8. ASSUME Pinned
        PROVE  Sender!MailOrder = <<dmsg.pin>>
    <2>1. ~dmsg.reply => Sender!MailOrder = own /\ own = <<dmsg.pin>>
      BY <1>2, <1>3, <1>6, <1>8 DEF Pinned
    <2>2. ASSUME dmsg.reply
          PROVE  Sender!MailOrder = <<dmsg.pin>>
      <3>1. dmsg.explicit /\ dmsg.pin \in dset.usable /\ ~dmsg.pooled
        BY <1>2, <1>8, <2>2 DEF Pinned
      <3>2. CASE dmsg.pin \in Boxes
        <4>1. Sender!ReplyBox = dmsg.pin /\ Sender!ReplyBox # Sender!Nobody
          BY <1>2, <3>1, <3>2, SendersFinite DEF Sender!ReplyBox
        <4>. QED BY <1>6, <2>2, <4>1
      <3>3. CASE dmsg.pin \in Accounts /\ dmsg.pin \notin Boxes
        <4>1. Sender!ReplyBox = Sender!Nobody /\ own = <<dmsg.pin>>
          BY <3>1, <3>3 DEF Sender!ReplyBox, own
        <4>. QED BY <1>6, <3>1, <4>1
      <3>. QED BY <1>2, <3>2, <3>3 DEF Sender!Senders
    <2>. QED BY <2>1, <2>2
  <1>9. ASSUME Rotates, NEW s \in dmsg.pool \union {dmsg.pin}
        PROVE  Lists(Sender!MailOrder, s)
    <2>1. Sender!MailOrder = own \o rest /\ own = <<dmsg.pin>>
      BY <1>2, <1>3, <1>6, <1>9 DEF Rotates
    <2>2. Lists(own, s) \/ Lists(rest, s)
      BY <1>4, <1>9, <2>1, OneIs
    <2>. QED BY <1>3, <1>4, <2>1, <2>2, JoinedOrder
  <1>. QED BY <1>7, <1>8, <1>9

LEMMA EachSimIs ==
    ASSUME NEW order, IsOrder(order)
    PROVE  LET plan == Sender!EachSim(order) IN
           /\ IsOrder(plan)
           /\ \A i \in 1..Len(plan) : \E j \in 1..Len(order) : plan[i][1] = order[j]
           /\ \A j \in 1..Len(order) : \E i \in 1..Len(plan) : plan[i][1] = order[j]
  <1>. DEFINE n == Len(order)
              each == [i \in 1..(2 * n) |-> <<order[(i + 1) \div 2], IF i % 2 = 1 THEN 1 ELSE 2>>]
              one == [i \in 1..n |-> <<order[i], 1>>]
  <1>1. n \in Nat
    BY DEF IsOrder
  <1>2. each \in Seq({each[i] : i \in 1..(2 * n)}) /\ Len(each) = 2 * n
    BY <1>1
  <1>3. one \in Seq({one[i] : i \in 1..n}) /\ Len(one) = n
    BY <1>1
  <1>4. \A i \in 1..(2 * n) : each[i][1] = order[(i + 1) \div 2] /\ (i + 1) \div 2 \in 1..n
    BY <1>1
  <1>5. \A j \in 1..n : 2 * j \in 1..(2 * n) /\ (2 * j + 1) \div 2 = j
    BY <1>1
  <1>6. \A i \in 1..n : one[i][1] = order[i]
    OBVIOUS
  <1>7. Sender!EachSim(order) = IF dset.other THEN each ELSE one
    BY DEF Sender!EachSim
  <1>. HIDE DEF each, one, n
  <1>8. CASE dset.other
    <2>1. \A j \in 1..n : 2 * j \in 1..(2 * n) /\ each[2 * j][1] = order[j]
      BY <1>4, <1>5
    <2>. QED BY <1>2, <1>4, <1>7, <1>8, <2>1, OrderIs DEF n
  <1>9. CASE ~dset.other
    BY <1>3, <1>6, <1>7, <1>9, OrderIs DEF n
  <1>. QED BY <1>8, <1>9

-----------------------------------------------------------------------------
(* The steps *)

Firsts(plan) == {plan[i][1] : i \in 1..Len(plan)}
TriedBy == {t[1] : t \in dtried}

\* Who is to have tried when the message has failed.
ToBeTried ==
    (IF dset.primary THEN {Sender!Primary} ELSE {})
    \union (IF Rotates THEN (dmsg.pool \union {dmsg.pin}) \intersect dset.usable ELSE {})

\* Providers that may have the message, other than by an answer that was lost
\* to a phone or a mailbox.
Keepers == {t \in dtaken : t \in dlost => t[1] \in Accounts}

TryingInv ==
    /\ IsOrder(dplan)
    /\ dphase \in {"new", "trying", "taken", "sent", "failed", "raised"}
    /\ dphase = "new" => dtried = {} /\ dtaken = {} /\ dlost = {}
    /\ dphase # "trying" => dplan = << >>
HandedInv ==
    /\ \E t : Keepers \subseteq {t}
    /\ dplan # << >> => Keepers = {}
RecordedInv ==
    /\ dphase \in {"new", "trying", "failed"} => dtaken \subseteq dlost
    /\ Sender!TakenIsRecorded
StaysInv == Pinned => TriedBy \union Firsts(dplan) \subseteq {dmsg.pin}
LeftInv ==
    dphase \in {"trying", "failed"} /\ (\A t \in dtried : t[1] \in Accounts => t[3]) =>
      ToBeTried \subseteq TriedBy \union Firsts(dplan)
SenderInv == MessageInv /\ TryingInv /\ HandedInv /\ RecordedInv /\ StaysInv /\ LeftInv

LEMMA SenderInit ==
    ASSUME Sender!DInit
    PROVE  SenderInv
  <1>1. MessageInv
    <2>1. ASSUME dmsg \in {Sender!Text(p) : p \in Phones \union {Sender!Primary}},
                 dset.mode \in Sender!Modes, dset.turn \in 0..Cardinality(Phones)
          PROVE  MessageInv
      BY <2>1 DEF MessageInv, Sender!Text
    <2>2. ASSUME dmsg \in Sender!Mail, dset.primary = FALSE, dset.usable \subseteq Sender!Senders
          PROVE  MessageInv
      BY <2>2 DEF MessageInv
    <2>. QED BY <2>1, <2>2, SenderLibrary DEF Sender!DInit
  <1>2. /\ dplan = << >> /\ dphase = "new" /\ dtried = {} /\ dtaken = {} /\ dlost = {}
    BY SenderLibrary DEF Sender!DInit
  <1>3. Firsts(dplan) = {}
    BY <1>2, NoneIs DEF Firsts
  <1>. QED
    BY <1>1, <1>2, <1>3, NoneIs
    DEF SenderInv, TryingInv, HandedInv, RecordedInv, Sender!TakenIsRecorded, StaysInv, LeftInv,
       Keepers, TriedBy

\* What is planned for a message
LEMMA PlanIs ==
    ASSUME MessageInv
    PROVE  /\ IsOrder(Sender!Plan)
           /\ Pinned => Firsts(Sender!Plan) \subseteq {dmsg.pin}
           /\ ToBeTried \subseteq Firsts(Sender!Plan)
  <1>. DEFINE order == IF dmsg.channel = "sms" THEN Sender!TextOrder ELSE Sender!MailOrder
  <1>1. Sender!Plan = Sender!EachSim(order)
    BY DEF Sender!Plan
  <1>2. dmsg.channel \in {"sms", "email"} /\ (dmsg.channel = "email" => ~dset.primary)
    BY DEF MessageInv, Sender!Mail
  <1>3. IsOrder(order)
    BY <1>2, TextOrderIs, MailOrderIs
  <1>4. Pinned => order = <<dmsg.pin>>
    BY MailOrderIs DEF Pinned
  <1>5. \A x \in ToBeTried : Lists(order, x)
    BY <1>2, TextOrderIs, MailOrderIs DEF ToBeTried, Rotates
  <1>. HIDE DEF order
  <1>6. IsOrder(Sender!Plan) /\ Firsts(Sender!Plan) = {order[j] : j \in 1..Len(order)}
    <2>1. IsOrder(Sender!Plan) /\ (\A i \in 1..Len(Sender!Plan) : \E j \in 1..Len(order) : Sender!Plan[i][1] = order[j])
          /\ (\A j \in 1..Len(order) : \E i \in 1..Len(Sender!Plan) : Sender!Plan[i][1] = order[j])
      BY <1>1, <1>3, EachSimIs
    <2>2. Firsts(Sender!Plan) \subseteq {order[j] : j \in 1..Len(order)}
      BY <2>1 DEF Firsts
    <2>3. \A j \in 1..Len(order) : order[j] \in Firsts(Sender!Plan)
      BY <2>1 DEF Firsts
    <2>. QED BY <2>1, <2>2, <2>3
  <1>7. Pinned => Firsts(Sender!Plan) \subseteq {dmsg.pin}
    <2>. SUFFICES ASSUME Pinned, NEW j \in 1..Len(order) PROVE order[j] = dmsg.pin
      BY <1>6
    <2>1. order = <<dmsg.pin>> /\ Len(order) = 1 /\ order[1] = dmsg.pin
      BY <1>4, OneIs
    <2>. QED BY <2>1
  <1>8. ToBeTried \subseteq Firsts(Sender!Plan)
    BY <1>5, <1>6 DEF Lists
  <1>. QED BY <1>6, <1>7, <1>8

LEMMA RestIs ==
    ASSUME IsOrder(dplan), dplan # << >>
    PROVE  IsOrder(Tail(dplan)) /\ Firsts(dplan) = {Sender!First[1]} \union Firsts(Tail(dplan))
  <1>1. PICK S : dplan \in Seq(S)
    BY DEF IsOrder
  <1>2. /\ Len(dplan) \in Nat \ {0} /\ Sender!First = dplan[1]
        /\ Tail(dplan) \in Seq(S) /\ Len(Tail(dplan)) = Len(dplan) - 1
        /\ \A i \in 1..(Len(dplan) - 1) : Tail(dplan)[i] = dplan[i + 1]
    BY <1>1 DEF Sender!First
  <1>3. \A i \in 1..Len(dplan) : i = 1 \/ (i - 1 \in 1..(Len(dplan) - 1) /\ (i - 1) + 1 = i)
    BY <1>2
  <1>4. \A i \in 1..(Len(dplan) - 1) : i + 1 \in 1..Len(dplan)
    BY <1>2
  <1>5. 1 \in 1..Len(dplan)
    BY <1>2
  <1>. DEFINE rest == Tail(dplan)
  <1>6. rest \in Seq(S) /\ Len(rest) = Len(dplan) - 1 /\ \A i \in 1..Len(rest) : rest[i] = dplan[i + 1]
    BY <1>2
  <1>. HIDE DEF rest
  <1>7. Firsts(rest) \subseteq Firsts(dplan)
    BY <1>4, <1>6 DEF Firsts
  <1>8. Sender!First[1] \in Firsts(dplan)
    BY <1>2, <1>5 DEF Firsts
  <1>9. \A i \in 1..Len(dplan) : dplan[i][1] \in {Sender!First[1]} \union Firsts(rest)
    <2>1. ASSUME NEW i \in 1..Len(dplan), i # 1
          PROVE  i - 1 \in 1..Len(rest) /\ rest[i - 1] = dplan[i]
      BY <1>2, <1>3, <1>6, <2>1
    <2>. QED BY <1>2, <2>1 DEF Firsts
  <1>10. Firsts(dplan) = {Sender!First[1]} \union Firsts(rest)
    BY <1>7, <1>8, <1>9 DEF Firsts
  <1>. QED BY <1>6, <1>10 DEF rest, IsOrder

LEMMA TriedIs ==
    ASSUME NEW refused
    PROVE  Sender!Tried(refused)[1] = Sender!First[1] /\ Sender!Tried(refused)[3] = refused
  BY DEF Sender!Tried

LEMMA DispatchBegun ==
    ASSUME SenderInv, Sender!Begins
    PROVE  SenderInv'
  <1>1. /\ dphase = "new" /\ dphase' = "trying" /\ dplan' = Sender!Plan
        /\ UNCHANGED <<dmsg, dset, dphone, dedits, dtried, dtaken, dlost>>
    BY DEF Sender!Begins
  <1>2. dtried = {} /\ dtaken = {} /\ dlost = {}
    BY <1>1 DEF SenderInv, TryingInv
  <1>3. MessageInv'
    BY <1>1 DEF SenderInv, MessageInv
  <1>4. IsOrder(Sender!Plan) /\ (Pinned => Firsts(Sender!Plan) \subseteq {dmsg.pin}) /\ ToBeTried \subseteq Firsts(Sender!Plan)
    BY PlanIs DEF SenderInv
  <1>5. TryingInv'
    BY <1>1, <1>4 DEF TryingInv, IsOrder
  <1>6. HandedInv' /\ RecordedInv'
    BY <1>1, <1>2 DEF HandedInv, RecordedInv, Sender!TakenIsRecorded, Keepers
  <1>7. StaysInv'
    BY <1>1, <1>2, <1>4 DEF StaysInv, Pinned, TriedBy, Firsts
  <1>8. LeftInv'
    BY <1>1, <1>2, <1>4 DEF LeftInv, ToBeTried, Rotates, TriedBy, Firsts
  <1>. QED BY <1>3, <1>5, <1>6, <1>7, <1>8 DEF SenderInv

\* A try that leaves the rest of the plan, or nothing.
LEMMA TriedNext ==
    ASSUME SenderInv, Sender!Trying, NEW tried, tried = {} \/ (\E r : tried = {Sender!Tried(r)}),
           dtried' = dtried \union tried, dplan' = Tail(dplan) \/ dplan' = << >>,
           UNCHANGED <<dmsg, dset>>
    PROVE  MessageInv' /\ IsOrder(dplan') /\ StaysInv'
  <1>1. IsOrder(dplan) /\ dplan # << >>
    BY DEF SenderInv, TryingInv, Sender!Trying
  <1>2. IsOrder(dplan') /\ Firsts(dplan') \subseteq Firsts(dplan) /\ Sender!First[1] \in Firsts(dplan)
    <2>1. Firsts(<< >>) = {}
      BY NoneIs DEF Firsts
    <2>2. CASE dplan' = Tail(dplan)
      BY <1>1, <2>2, RestIs
    <2>3. CASE dplan' = << >>
      BY <1>1, <2>1, <2>3, RestIs, NoneIs
    <2>. QED BY <2>2, <2>3
  <1>3. \A t \in dtried' : t \in dtried \/ t[1] = Sender!First[1]
    BY TriedIs
  <1>4. MessageInv'
    BY DEF SenderInv, MessageInv
  <1>5. StaysInv'
    BY <1>2, <1>3 DEF SenderInv, StaysInv, Pinned, TriedBy, Firsts
  <1>. QED BY <1>2, <1>4, <1>5

LEMMA SkipKept ==
    ASSUME SenderInv, Sender!Skip
    PROVE  SenderInv'
  <1>1. Sender!Trying /\ ~Sender!Works /\ dplan' = Tail(dplan)
        /\ UNCHANGED <<dmsg, dset, dphone, dedits, dtried, dtaken, dlost, dphase>>
    BY DEF Sender!Skip
  <1>2. MessageInv' /\ IsOrder(dplan') /\ StaysInv'
    <2>1. UNCHANGED <<dmsg, dset>> /\ dtried' = dtried \union {}
      BY <1>1
    <2>. QED BY <1>1, <2>1, TriedNext
  <1>3. TryingInv'
    BY <1>1, <1>2 DEF SenderInv, TryingInv, Sender!Trying, IsOrder
  <1>4. HandedInv' /\ RecordedInv'
    BY <1>1 DEF SenderInv, HandedInv, RecordedInv, Sender!TakenIsRecorded, Keepers, Sender!Trying
  <1>5. LeftInv'
    <2>1. dmsg.channel # "sms" /\ Sender!First[1] \notin dset.usable
      BY <1>1 DEF Sender!Works
    <2>2. ~dset.primary
      BY <2>1 DEF SenderInv, MessageInv
    <2>3. Sender!First[1] \notin ToBeTried
      BY <2>1, <2>2 DEF ToBeTried
    <2>4. Firsts(dplan) = {Sender!First[1]} \union Firsts(Tail(dplan))
      BY <1>1, RestIs DEF SenderInv, TryingInv, Sender!Trying
    <2>5. ToBeTried' = ToBeTried /\ TriedBy' = TriedBy /\ Firsts(dplan)' = Firsts(Tail(dplan))
      BY <1>1 DEF ToBeTried, Rotates, TriedBy, Firsts
    <2>6. (\A t \in dtried : t[1] \in Accounts => t[3]) => ToBeTried \subseteq TriedBy \union Firsts(dplan)
      BY <1>1 DEF SenderInv, LeftInv, Sender!Trying
    <2>. QED BY <1>1, <2>3, <2>4, <2>5, <2>6 DEF LeftInv
  <1>. QED BY <1>2, <1>3, <1>4, <1>5 DEF SenderInv

LEMMA AcceptKept ==
    ASSUME SenderInv, Sender!Accepts
    PROVE  SenderInv'
  <1>1. /\ Sender!Trying /\ dtried' = dtried \union {Sender!Tried(TRUE)} /\ dtaken' = dtaken \union {Sender!First}
        /\ dplan' = << >> /\ dphase' = "taken" /\ UNCHANGED <<dmsg, dset, dphone, dedits, dlost>>
    BY DEF Sender!Accepts
  <1>2. MessageInv' /\ IsOrder(dplan') /\ StaysInv'
    BY <1>1, TriedNext
  <1>3. TryingInv'
    BY <1>1, <1>2 DEF TryingInv, IsOrder
  <1>4. HandedInv'
    <2>1. Keepers = {}
      BY <1>1 DEF SenderInv, HandedInv, Sender!Trying
    <2>2. Keepers' \subseteq {Sender!First}
      BY <1>1, <2>1 DEF Keepers
    <2>. QED BY <1>1, <2>2 DEF HandedInv
  <1>5. RecordedInv' /\ LeftInv'
    BY <1>1 DEF RecordedInv, Sender!TakenIsRecorded, LeftInv
  <1>. QED BY <1>2, <1>3, <1>4, <1>5 DEF SenderInv

LEMMA FailKept ==
    ASSUME SenderInv, Sender!Refuses \/ Sender!AnswerLost
    PROVE  SenderInv'
  <1>. PICK refused \in BOOLEAN : Sender!Trying /\ Sender!Fails(refused)
       /\ \/ UNCHANGED <<dtaken, dlost>>
          \/ ~refused /\ dtaken' = dtaken \union {Sender!First} /\ dlost' = dlost \union {Sender!First}
    <2>1. ASSUME Sender!Refuses
          PROVE  Sender!Trying /\ (\E refused \in BOOLEAN : Sender!Fails(refused)) /\ UNCHANGED <<dtaken, dlost>>
      BY <2>1 DEF Sender!Refuses
    <2>2. ASSUME Sender!AnswerLost
          PROVE  Sender!Trying /\ Sender!Fails(FALSE) /\ dtaken' = dtaken \union {Sender!First} /\ dlost' = dlost \union {Sender!First}
      BY <2>2 DEF Sender!AnswerLost
    <2>. QED BY <2>1, <2>2
  <1>1. /\ Sender!Trying /\ dtried' = dtried \union {Sender!Tried(refused)}
        /\ dplan' = (IF Sender!GoesOn(refused) THEN Tail(dplan) ELSE << >>)
        /\ UNCHANGED <<dmsg, dset, dphone, dedits, dphase>>
    BY DEF Sender!Fails
  <1>2. MessageInv' /\ IsOrder(dplan') /\ StaysInv'
    BY <1>1, TriedNext
  <1>3. TryingInv'
    BY <1>1, <1>2 DEF TryingInv, IsOrder, Sender!Trying
  <1>4. HandedInv'
    <2>1. Keepers = {}
      BY <1>1 DEF SenderInv, HandedInv, Sender!Trying
    <2>2. Keepers' \subseteq {Sender!First}
      BY <2>1 DEF Keepers
    <2>3. Sender!GoesOn(refused) => Keepers' = {}
      BY <2>1 DEF Keepers, Sender!GoesOn
    <2>. QED BY <1>1, <2>2, <2>3 DEF HandedInv
  <1>5. RecordedInv'
    BY <1>1 DEF SenderInv, RecordedInv, Sender!TakenIsRecorded, Sender!Trying
  <1>6. LeftInv'
    <2>1. SUFFICES ASSUME \A t \in dtried' : t[1] \in Accounts => t[3]
                   PROVE  ToBeTried' \subseteq TriedBy' \union Firsts(dplan)'
      BY DEF LeftInv
    <2>2. Sender!First[1] \in Accounts => refused
      BY <1>1, <2>1, TriedIs
    <2>3. dplan' = Tail(dplan)
      BY <1>1, <2>2 DEF Sender!GoesOn
    <2>4. ToBeTried \subseteq TriedBy \union Firsts(dplan)
      BY <1>1, <2>1 DEF SenderInv, LeftInv, Sender!Trying
    <2>5. Firsts(dplan) = {Sender!First[1]} \union Firsts(Tail(dplan))
      BY <1>1, RestIs DEF SenderInv, TryingInv, Sender!Trying
    <2>6. TriedBy' = TriedBy \union {Sender!First[1]}
      BY <1>1, TriedIs DEF TriedBy
    <2>7. ToBeTried' = ToBeTried
      BY <1>1 DEF ToBeTried, Rotates
    <2>8. Firsts(dplan)' = Firsts(Tail(dplan))
      BY <2>3 DEF Firsts
    <2>. QED BY <2>4, <2>5, <2>6, <2>7, <2>8
  <1>. QED BY <1>2, <1>3, <1>4, <1>5, <1>6 DEF SenderInv

LEMMA DispatchKept ==
    ASSUME SenderInv, Sender!Commit
    PROVE  SenderInv'
  <1>. DEFINE gone == {t \in dtried : t[1] \in Phones /\ dphone[t[1]] = "gone"}
              answer == IF dphase = "taken" THEN "sent" ELSE "failed"
  <1>1. /\ dphase \in {"trying", "taken"} /\ dplan = << >>
        /\ dphase' = answer \/ (dphase' = "raised" /\ gone # {})
        /\ UNCHANGED <<dmsg, dset, dphone, dedits, dplan, dtried, dtaken, dlost>>
    BY DEF Sender!Commit
  <1>2. MessageInv' /\ TryingInv'
    BY <1>1 DEF SenderInv, MessageInv, TryingInv, IsOrder
  <1>3. HandedInv' /\ StaysInv'
    BY <1>1 DEF SenderInv, HandedInv, Keepers, StaysInv, Pinned, TriedBy, Firsts
  <1>4. RecordedInv'
    BY <1>1 DEF SenderInv, RecordedInv, Sender!TakenIsRecorded
  <1>5. LeftInv'
    BY <1>1 DEF SenderInv, LeftInv, ToBeTried, Rotates, TriedBy, Firsts
  <1>. QED BY <1>2, <1>3, <1>4, <1>5 DEF SenderInv

LEMMA PhoneKept ==
    ASSUME SenderInv, NEW p \in Phones, NEW as, Sender!EditPhone(p, as)
    PROVE  SenderInv'
  <1>1. /\ dphone[p] # "gone"
        /\ \A q \in Phones : dphone[q] = "gone" => dphone'[q] = "gone"
        /\ UNCHANGED <<dmsg, dset, dplan, dtried, dtaken, dlost, dphase>>
    BY DEF Sender!EditPhone
  <1>2. MessageInv' /\ TryingInv'
    BY <1>1 DEF SenderInv, MessageInv, TryingInv, IsOrder
  <1>3. HandedInv' /\ StaysInv'
    BY <1>1 DEF SenderInv, HandedInv, Keepers, StaysInv, Pinned, TriedBy, Firsts
  <1>4. RecordedInv'
    BY <1>1 DEF SenderInv, RecordedInv, Sender!TakenIsRecorded
  <1>5. LeftInv'
    BY <1>1 DEF SenderInv, LeftInv, ToBeTried, Rotates, TriedBy, Firsts
  <1>. QED BY <1>2, <1>3, <1>4, <1>5 DEF SenderInv

LEMMA SenderNext ==
    ASSUME SenderInv, [Sender!DNext]_dvars
    PROVE  SenderInv'
  <1>1. ASSUME UNCHANGED dvars
        PROVE  SenderInv'
    <2>1. MessageInv' /\ TryingInv'
      BY <1>1 DEF dvars, SenderInv, MessageInv, TryingInv, IsOrder
    <2>2. HandedInv' /\ RecordedInv' /\ StaysInv'
      BY <1>1 DEF dvars, SenderInv, HandedInv, Keepers, RecordedInv, Sender!TakenIsRecorded, StaysInv,
         Pinned, TriedBy, Firsts
    <2>3. LeftInv'
      BY <1>1 DEF dvars, SenderInv, LeftInv, ToBeTried, Rotates, TriedBy, Firsts
    <2>. QED BY <2>1, <2>2, <2>3 DEF SenderInv
  <1>. QED
    BY <1>1, DispatchBegun, SkipKept, AcceptKept, FailKept, DispatchKept, PhoneKept DEF Sender!DNext,
       Sender!DispatchStep

LEMMA SenderFollow ==
    ASSUME SenderInv
    PROVE  Sender!SenderHolds
  <1>1. Sender!HandedOverOnce
    <2>1. PICK t : Keepers \subseteq {t}
      BY DEF SenderInv, HandedInv
    <2>2. Keepers = {} \/ Keepers = {t}
      BY <2>1
    <2>3. Cardinality(Keepers) \in {0, 1}
      BY <2>2, FS_EmptySet, FS_Singleton
    <2>. QED BY <2>3, SenderLibrary DEF Sender!HandedOverOnce, Keepers
  <1>2. Sender!SenderStays
    <2>1. dmsg.pooled => dmsg.channel = "email"
      BY DEF SenderInv, MessageInv, Sender!Mail
    <2>. QED BY <2>1 DEF SenderInv, StaysInv, Sender!SenderStays, Pinned, TriedBy
  <1>3. Sender!NobodyLeft
    <2>. SUFFICES ASSUME dphase = "failed", \A t \in dtried : t[1] \in Accounts => t[3]
                  PROVE  /\ dset.primary => Sender!Primary \in TriedBy
                         /\ dmsg.pooled /\ ~dmsg.thread =>
                              (dmsg.pool \union {dmsg.pin}) \intersect dset.usable \subseteq TriedBy
      BY DEF Sender!NobodyLeft, TriedBy
    <2>1. Firsts(dplan) = {}
      BY NoneIs DEF SenderInv, TryingInv, Firsts
    <2>2. ToBeTried \subseteq TriedBy
      BY <2>1 DEF SenderInv, LeftInv
    <2>3. dmsg.pooled => dmsg.channel = "email"
      BY DEF SenderInv, MessageInv, Sender!Mail
    <2>. QED BY <2>2, <2>3 DEF ToBeTried, Rotates
  <1>4. Sender!TakenIsRecorded
    BY DEF SenderInv, RecordedInv
  <1>. QED BY <1>1, <1>2, <1>3, <1>4 DEF Sender!SenderHolds

LEMMA SenderStep == [Next]_vars => [Sender!DNext]_dvars
  BY DEF Next, vars, In, hvars, dvars

\* Who sends a message: nobody else after a provider that may have it, the one
\* sender that a message is to leave from, everybody who may before it fails,
\* and what was taken is recorded, for any phones, accounts, mailboxes,
\* settings, pools, lost answers and edits of phones.
THEOREM SenderHoldsAlways == Spec => []SenderHolds
  <1>1. Init => Sender!DInit
    BY DEF Init
  <1>2. Init => SenderInv
    BY <1>1, SenderInit
  <1>3. SenderInv /\ [Next]_vars => SenderInv'
    BY SenderStep, SenderNext
  <1>4. SenderInv => SenderHolds
    BY SenderFollow DEF SenderHolds
  <1>. QED BY <1>2, <1>3, <1>4, PTL DEF Spec

=============================================================================
