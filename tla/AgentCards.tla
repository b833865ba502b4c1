------------------------------ MODULE AgentCards ------------------------------
(***************************************************************************)
(* The agent's turns and its confirmation cards, for one dangerous tool    *)
(* with the same arguments each time.  A turn asks the provider, runs the  *)
(* safe tools it calls for and queues a card for the dangerous one; the    *)
(* operator approves or cancels the card, and undoes what it did.          *)
(***************************************************************************)
EXTENDS Naturals, FiniteSets

CONSTANTS
    Turns,       \* turns of a session
    Cards,       \* ids of cards, 1..n
    Requests,    \* the operator's requests
    MaxSteps,    \* provider answers in a turn
    MaxCalls,    \* tool calls in an answer
    MaxDropped   \* bound on requests and streams that are cut

VARIABLES
    acard,   \* the committed cards
    aturn,   \* the turns
    areq,    \* approve, cancel and undo
    aran,    \* how often the tool ran for a card; 2 is twice or more
    aundone, \* how often it was undone; 2 is twice or more
    ashown,  \* cards that were streamed to the operator
    adrop,   \* cuts so far
    aover    \* two turns, or two requests for a card, have overlapped

avars == <<acard, aturn, areq, aran, aundone, ashown, adrop, aover>>

CardStatus == {"none", "pending", "running", "done", "failed", "cancelled", "undone"}
TurnType == [pc : {"new", "ask", "calls", "shown", "end"},
             steps : 0..MaxSteps, calls : 0..MaxCalls,
             waits : BOOLEAN,           \* has queued a card
             card : Cards \union {0}]   \* inserted, not committed
RequestType == [pc : {"idle", "approve", "running", "ran", "cancel", "undo"},
                card : Cards \union {0},
                holds : BOOLEAN]        \* has the lock of the row
NewTurn == [pc |-> "new", steps |-> 0, calls |-> 0, waits |-> FALSE, card |-> 0]
NoRequest == [pc |-> "idle", card |-> 0, holds |-> FALSE]

AInit ==
    /\ acard = [c \in Cards |-> "none"]
    /\ aturn = [t \in Turns |-> NewTurn]
    /\ areq = [q \in Requests |-> NoRequest]
    /\ aran = [c \in Cards |-> 0] /\ aundone = [c \in Cards |-> 0]
    /\ ashown = {} /\ adrop = 0 /\ aover = FALSE

Up(n) == IF n = 2 THEN 2 ELSE n + 1

-----------------------------------------------------------------------------
(* A turn *)

Stream(t, turn) ==
    /\ aturn' = [aturn EXCEPT ![t] = turn]
    /\ UNCHANGED <<acard, areq, aran, aundone, ashown, adrop>>
Ended(t) == [aturn[t] EXCEPT !.pc = "end"]

\* The operator's words are saved; a count is answered without the provider,
\* and without a key or a model there is no answer.
BeginTurn(t) ==
    /\ aturn[t].pc = "new"
    /\ \E pc \in {"ask", "end"} : Stream(t, [aturn[t] EXCEPT !.pc = pc])
    /\ aover' = (aover \/ \E u \in Turns : aturn[u].pc \notin {"new", "end"})

\* The provider fails, answers in words, or calls for tools.
Ask(t) ==
    /\ aturn[t].pc = "ask"
    /\ \/ Stream(t, Ended(t))
       \/ \E n \in 1..MaxCalls :
            /\ aturn[t].steps < MaxSteps
            /\ Stream(t, [aturn[t] EXCEPT !.pc = "calls", !.calls = n, !.steps = @ + 1])
    /\ UNCHANGED aover

\* A safe tool has run, failed and been rolled back, or is unknown.
CallSafe(t) ==
    /\ aturn[t].pc = "calls" /\ aturn[t].calls > 0
    /\ Stream(t, [aturn[t] EXCEPT !.calls = @ - 1])
    /\ UNCHANGED aover

Waiting == {c \in Cards : acard[c] = "pending"}
Fresh == {c \in Cards : acard[c] = "none" /\ \A u \in Turns : aturn[u].card # c}
NextCard == CHOOSE c \in Fresh : \A d \in Fresh : c <= d

\* queue_action takes the card that waits, or adds one; it is streamed before
\* the message that commits it.
QueueCard(t) ==
    /\ aturn[t].pc = "calls" /\ aturn[t].calls > 0
    /\ \/ /\ Waiting # {}
          /\ aturn' = [aturn EXCEPT ![t] = [@ EXCEPT !.pc = "shown", !.waits = TRUE]]
          /\ ashown' = ashown \union Waiting
       \/ /\ Waiting = {} /\ Fresh # {}
          /\ aturn' = [aturn EXCEPT ![t] = [@ EXCEPT !.pc = "shown", !.waits = TRUE,
                                                     !.card = NextCard]]
          /\ ashown' = ashown \union {NextCard}
    /\ UNCHANGED <<acard, areq, aran, aundone, adrop, aover>>

SaveCard(t) ==
    /\ aturn[t].pc = "shown"
    /\ acard' = [c \in Cards |-> IF c = aturn[t].card THEN "pending" ELSE acard[c]]
    /\ aturn' = [aturn EXCEPT ![t] = [aturn[t] EXCEPT !.pc = "calls", !.calls = @ - 1,
                                                !.card = 0]]
    /\ UNCHANGED <<areq, aran, aundone, ashown, adrop, aover>>

\* With a card the turn waits for the operator, not for the model.
AfterCalls(t) ==
    /\ aturn[t].pc = "calls" /\ aturn[t].calls = 0
    /\ Stream(t, [aturn[t] EXCEPT !.pc = IF aturn[t].waits \/ aturn[t].steps >= MaxSteps
                                         THEN "end" ELSE "ask"])
    /\ UNCHANGED aover

\* The client is gone: what is not committed is rolled back.
DropTurn(t) ==
    /\ aturn[t].pc \notin {"new", "end"} /\ adrop < MaxDropped
    /\ adrop' = adrop + 1
    /\ aturn' = [aturn EXCEPT ![t] = [@ EXCEPT !.pc = "end", !.card = 0]]
    /\ UNCHANGED <<acard, areq, aran, aundone, ashown, aover>>

-----------------------------------------------------------------------------
(* The operator's requests *)

Free(c) == \A q \in Requests : areq[q].card = c => ~areq[q].holds
Reads(q, c, pc) ==
    /\ areq[q].pc = "idle"
    /\ areq' = [areq EXCEPT ![q] = [pc |-> pc, card |-> c, holds |-> FALSE]]
    /\ aover' = (aover \/ \E p \in Requests : areq[p].card = c)
    /\ UNCHANGED <<acard, aturn, aran, aundone, ashown, adrop>>

Approve(q, c) == acard[c] = "pending" /\ Reads(q, c, "approve")
Cancel(q, c) == acard[c] = "pending" /\ Reads(q, c, "cancel")
Undo(q, c) == acard[c] = "done" /\ Reads(q, c, "undo")

\* execute_action: "running" is flushed, which waits for the row's lock.
\* The status is not looked at again.
Execute(q) ==
    /\ areq[q].pc = "approve" /\ Free(areq[q].card)
    /\ areq' = [areq EXCEPT ![q].pc = "running", ![q].holds = TRUE]
    /\ UNCHANGED <<acard, aturn, aran, aundone, ashown, adrop, aover>>

\* The tool may commit, and the row's "running" with it.
RunTool(q) ==
    LET c == areq[q].card
    IN /\ areq[q].pc = "running"
       /\ aran' = [aran EXCEPT ![c] = Up(@)]
       /\ \E commits \in BOOLEAN :
            /\ acard' = IF commits THEN [acard EXCEPT ![c] = "running"] ELSE acard
            /\ areq' = [areq EXCEPT ![q].pc = "ran", ![q].holds = ~commits]
       /\ UNCHANGED <<aturn, aundone, ashown, adrop, aover>>

ExecuteEnds(q) ==
    LET c == areq[q].card
    IN /\ areq[q].pc = "ran" /\ (areq[q].holds \/ Free(c))
       /\ \E st \in {"done", "failed"} : acard' = [acard EXCEPT ![c] = st]
       /\ areq' = [areq EXCEPT ![q] = NoRequest]
       /\ UNCHANGED <<aturn, aran, aundone, ashown, adrop, aover>>

\* Mutant: the tool runs all the same.
CancelLost(q) ==
    /\ areq[q].pc = "cancel" /\ Free(areq[q].card)
    /\ acard' = [acard EXCEPT ![areq[q].card] = "cancelled"]
    /\ aran' = [aran EXCEPT ![areq[q].card] = Up(@)]
    /\ areq' = [areq EXCEPT ![q] = NoRequest]
    /\ UNCHANGED <<aturn, aundone, ashown, adrop, aover>>

CancelEnds(q) ==
    /\ areq[q].pc = "cancel" /\ Free(areq[q].card)
    /\ acard' = [acard EXCEPT ![areq[q].card] = "cancelled"]
    /\ areq' = [areq EXCEPT ![q] = NoRequest]
    /\ UNCHANGED <<aturn, aran, aundone, ashown, adrop, aover>>

\* The contacts are back, and undone_at is set ("undone").
UndoEnds(q) ==
    LET c == areq[q].card
    IN /\ areq[q].pc = "undo" /\ Free(c)
       /\ aundone' = [aundone EXCEPT ![c] = Up(@)]
       /\ acard' = [acard EXCEPT ![c] = "undone"]
       /\ areq' = [areq EXCEPT ![q] = NoRequest]
       /\ UNCHANGED <<aturn, aran, ashown, adrop, aover>>

DropRequest(q) ==
    /\ areq[q].pc # "idle" /\ adrop < MaxDropped
    /\ adrop' = adrop + 1
    /\ areq' = [areq EXCEPT ![q] = NoRequest]
    /\ UNCHANGED <<acard, aturn, aran, aundone, ashown, aover>>

TurnStep(t) == \/ Ask(t) \/ CallSafe(t) \/ QueueCard(t) \/ SaveCard(t) \/ AfterCalls(t)
RequestStep(q) == Execute(q) \/ RunTool(q) \/ ExecuteEnds(q) \/ CancelEnds(q) \/ UndoEnds(q)

ANext ==
    \/ \E t \in Turns : BeginTurn(t) \/ TurnStep(t) \/ DropTurn(t)
    \/ \E q \in Requests :
         \/ RequestStep(q) \/ DropRequest(q)
         \/ \E c \in Cards : Approve(q, c) \/ Cancel(q, c) \/ Undo(q, c)

ASpec == AInit /\ [][ANext]_avars

-----------------------------------------------------------------------------
(* Properties *)

ATypeOK ==
    /\ acard \in [Cards -> CardStatus]
    /\ aturn \in [Turns -> TurnType]
    /\ areq \in [Requests -> RequestType]
    /\ aran \in [Cards -> 0..2] /\ aundone \in [Cards -> 0..2]
    /\ ashown \subseteq Cards /\ adrop \in 0..MaxDropped /\ aover \in BOOLEAN

\* A card stands for one execution: the tool runs once for it at most, and not
\* at all when it was cancelled, if no request overlaps another or is cut.
RunsOnce ==
    ~aover /\ adrop = 0 =>
        \A c \in Cards : aran[c] <= (IF acard[c] = "cancelled" THEN 0 ELSE 1)

\* "can be undone, and only once": requests that do not overlap bring the
\* contacts back once, cut or not.
UndoneOnce == ~aover => \A c \in Cards : aundone[c] <= 1

\* "so a model that repeats itself cannot fill the operator's screen with
\* duplicates": one card waits at a time, if one turn runs at a time.
OneCardWaits ==
    ~aover => Cardinality(Waiting \union ({aturn[t].card : t \in Turns} \ {0})) <= 1

\* A turn ends, however often the provider calls for tools.
Owes(t) == aturn[t].pc = "ask"
Pays(t) == aturn[t].pc = "end"
TurnEnds == \A t \in Turns : Owes(t) ~> Pays(t)

\* A card waits alone, is executed once and undone once.
CardsHold == ATypeOK /\ RunsOnce /\ UndoneOnce /\ OneCardWaits
=============================================================================
