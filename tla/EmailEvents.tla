------------------------------ MODULE EmailEvents ------------------------------
(***************************************************************************)
(* What Brevo tells of the letters it took: each event comes by webhook,   *)
(* perhaps twice or never, and a periodic pass asks for the events of      *)
(* letters that still count as sent.  A webhook and a pass each work on    *)
(* what they read when they looked, and commit at the end.  The letters of *)
(* the model belong to one campaign and go to one address.                 *)
(***************************************************************************)
EXTENDS Naturals, FiniteSets, SequencesExt

CONSTANTS
    Letters,    \* letters Brevo has taken, numbered as their rows are
    EventKinds, \* kinds of events
    Eventful,   \* bound: only to these letters something happens, the others just wait
    WithIds,    \* the webhooks carry an event id
    Hooks,      \* webhook requests at a time
    Polls,      \* passes at a time: one if beat and the poller do not overlap
    AskLimit,   \* letters of a pass
    MaxEvents,  \* bound on the events that happen
    MaxSilent   \* bound on deaths and on questions left without an answer

VARIABLES
    eletter,    \* the messages' status
    eknown,     \* letters whose worker has committed the provider's id
    ehappened,  \* events that have happened, as <<letter, kind>>
    ehook,      \* how often the webhook of an event has come: twice, once or never
    erows,      \* ids in email_events, and those there twice
    ecount,     \* messages_delivered of the campaign
    esup,       \* the address is suppressed
    easked,     \* letters whose status_polled_at is recent
    esess,      \* the sessions of webhooks and passes
    esilent,    \* deaths and failed questions so far
    ebad,       \* a webhook of a bounce or an unsubscription was answered
    eraced      \* two sessions overlapped, or an event came before its letter's id

evars == <<eletter, eknown, ehappened, ehook, erows, ecount, esup, easked, esess,
           esilent, ebad, eraced>>

Sessions == Hooks \union Polls
Unread == [l \in Letters |-> "unread"]
Idle == [open |-> FALSE, todo |-> {}, asked |-> {}, told |-> {}, view |-> Unread, wrote |-> {},
         base |-> 0, more |-> 0, suppresses |-> FALSE, ids |-> {}, bad |-> FALSE]

EInit ==
    /\ eknown = Letters \ Eventful
    /\ eletter = [l \in Letters |-> IF l \in eknown THEN "sent" ELSE "sending"]
    /\ ehappened = {} /\ ehook = [x \in Letters \X EventKinds |-> 0]
    /\ erows = [once |-> {}, twice |-> {}]
    /\ ecount = 0 /\ esup = FALSE /\ easked = {}
    /\ esess = [s \in Sessions |-> Idle]
    /\ esilent = 0 /\ ebad = FALSE /\ eraced = FALSE

\* An open proves delivery; a soft bounce may be followed by one.
Happens(l, k) ==
    /\ <<l, k>> \notin ehappened /\ Cardinality(ehappened) < MaxEvents
    /\ l \in Eventful
    /\ k = "opened" => <<l, "delivered">> \in ehappened
    /\ ehappened' = ehappened \union {<<l, k>>}
    /\ UNCHANGED <<eletter, eknown, ehook, erows, ecount, esup, easked, esess, esilent, ebad, eraced>>

\* The sending worker commits what it set, whatever an event wrote meanwhile.
WorkerCommits(l) ==
    /\ l \notin eknown
    /\ eletter' = [eletter EXCEPT ![l] = "sent"]
    /\ eknown' = eknown \union {l}
    /\ UNCHANGED <<ehappened, ehook, erows, ecount, esup, easked, esess, esilent, ebad, eraced>>

-----------------------------------------------------------------------------
(* apply_event, on what a session has read and written *)

\* By the provider's id, else the latest letter to the address.
Found(l) == IF l \in eknown THEN l ELSE Max(Letters)

\* Mutant: every delivered event is counted.
CountsEach(status) == TRUE

\* Only the first delivery is counted.
Counts(status) == status # "delivered"

\* A second row of one id makes every later lookup of it raise.
Raises(id) == id \in erows.twice

Applied(s, l, k, id) ==
    LET status == s.view[l]
        new == CASE k = "delivered" -> "delivered"
                 [] k = "opened" /\ status \in {"sent", "sending"} -> "delivered"
                 [] k = "bounce" -> "failed"
                 [] OTHER -> status
        bump == k = "delivered" /\ Counts(status)
    IN IF id \in erows.once \union s.ids THEN s
       ELSE [s EXCEPT !.view[l] = new,
                      !.wrote = IF new = status THEN @ ELSE @ \union {l},
                      !.base = IF bump /\ s.more = 0 THEN ecount ELSE @,
                      !.more = IF bump THEN @ + 1 ELSE @,
                      !.suppresses = @ \/ (k \in {"bounce", "unsubscribed"} /\ ~esup),
                      !.ids = IF id = <<>> THEN @ ELSE @ \union {id}]

Seen(rows) == [l \in Letters |-> IF l \in rows THEN eletter[l] ELSE "unread"]
Overlaps(s) == \E t \in Sessions \ {s} : esess[t].open

-----------------------------------------------------------------------------
(* A webhook: brevo_webhook answers 200 whatever comes of the event *)

HookId(l, k) == IF WithIds THEN <<"hook", l, k>> ELSE <<>>
Bad(k) == k \in {"bounce", "unsubscribed"}

Hook(h, l, k) ==
    /\ ~esess[h].open /\ <<l, k>> \in ehappened /\ ehook[l, k] < 2
    /\ ehook' = [ehook EXCEPT ![<<l, k>>] = @ + 1]
    /\ IF Raises(HookId(l, k)) THEN UNCHANGED <<esess, eraced>>
       ELSE /\ esess' = [esess EXCEPT ![h] =
                 Applied([Idle EXCEPT !.open = TRUE, !.view = Seen({Found(l)}), !.bad = Bad(k)],
                         Found(l), k, HookId(l, k))]
            /\ eraced' = (eraced \/ Overlaps(h) \/ l \notin eknown)
    /\ UNCHANGED <<eletter, eknown, ehappened, erows, ecount, esup, easked, esilent, ebad>>

-----------------------------------------------------------------------------
(* A pass: poll_unconfirmed_deliveries *)

Waiting == {l \in eknown : eletter[l] = "sent"}
Unasked == Waiting \ easked

\* The letters with the lowest ids.
Pass(p) ==
    /\ ~esess[p].open /\ Unasked # {}
    /\ LET rows == {l \in Unasked : Cardinality({m \in Unasked : m < l}) < AskLimit}
       IN esess' = [esess EXCEPT ![p] = [Idle EXCEPT !.open = TRUE, !.todo = rows, !.view = Seen(rows)]]
    /\ eraced' = (eraced \/ Overlaps(p))
    /\ UNCHANGED <<eletter, eknown, ehappened, ehook, erows, ecount, esup, easked, esilent, ebad>>

PollId(l, k) == <<"poll", l, k>>
Row(p) == Min(esess[p].todo)
Asks(p) == esess[p].todo # {} /\ esess[p].told = {}
Stamped(p) == [esess[p] EXCEPT !.todo = @ \ {Row(p)}, !.asked = @ \union {Row(p)}]

Ask(p) ==
    /\ Asks(p)
    /\ esess' = [esess EXCEPT ![p] =
                   [Stamped(p) EXCEPT !.told = ehappened \intersect ({Row(p)} \X EventKinds)]]
    /\ UNCHANGED <<eletter, eknown, ehappened, ehook, erows, ecount, esup, easked, esilent, ebad, eraced>>

\* Brevo tells a letter's events in an order of its own; one that raises
\* takes all of the pass with it.
Apply(p, l, k) ==
    /\ <<l, k>> \in esess[p].told
    /\ esess' = [esess EXCEPT ![p] =
                   IF Raises(PollId(l, k)) THEN Idle
                   ELSE Applied([esess[p] EXCEPT !.told = @ \ {<<l, k>>}], l, k, PollId(l, k))]
    /\ UNCHANGED <<eletter, eknown, ehappened, ehook, erows, ecount, esup, easked, esilent, ebad, eraced>>

AskFails(p) ==
    /\ Asks(p) /\ esilent < MaxSilent
    /\ esess' = [esess EXCEPT ![p] = Stamped(p)]
    /\ esilent' = esilent + 1
    /\ UNCHANGED <<eletter, eknown, ehappened, ehook, erows, ecount, esup, easked, ebad, eraced>>

\* Half an hour passes.  That no letter's comes round again before each that
\* waits has been asked for is an assumption: 15 or 25 letters in a pass.
Recheck ==
    /\ easked # {} /\ Waiting \subseteq easked
    /\ easked' = {}
    /\ UNCHANGED <<eletter, eknown, ehappened, ehook, erows, ecount, esup, esess, esilent, ebad, eraced>>

-----------------------------------------------------------------------------
(* The end of a session *)

Refused(s) == esess[s].suppresses /\ esup

\* The unique address refuses a second suppression and with it the event.
Commit(s) ==
    /\ esess[s].open /\ esess[s].todo = {} /\ esess[s].told = {}
    /\ esess' = [esess EXCEPT ![s] = Idle]
    /\ ebad' = (ebad \/ esess[s].bad)
    /\ IF Refused(s) THEN UNCHANGED <<eletter, erows, ecount, esup, easked>>
       ELSE /\ eletter' = [l \in Letters |-> IF l \in esess[s].wrote THEN esess[s].view[l] ELSE eletter[l]]
            /\ erows' = [once |-> erows.once \union esess[s].ids,
                         twice |-> erows.twice \union (erows.once \intersect esess[s].ids)]
            /\ ecount' = IF esess[s].more > 0 THEN esess[s].base + esess[s].more ELSE ecount
            /\ esup' = (esup \/ esess[s].suppresses)
            /\ easked' = easked \union esess[s].asked
    /\ UNCHANGED <<eknown, ehappened, ehook, esilent, eraced>>

\* A webhook's process that dies is a webhook that was lost.
Dies(s) ==
    /\ s \in Polls /\ esess[s].open /\ esilent < MaxSilent
    /\ esess' = [esess EXCEPT ![s] = Idle]
    /\ esilent' = esilent + 1
    /\ UNCHANGED <<eletter, eknown, ehappened, ehook, erows, ecount, esup, easked, ebad, eraced>>

Applies(p) == \E l \in Letters, k \in EventKinds : Apply(p, l, k)
PassStep(p) == Pass(p) \/ Ask(p) \/ Applies(p) \/ Commit(p)
ENext ==
    \/ Recheck
    \/ \E l \in Letters : WorkerCommits(l)
    \/ \E l \in Letters, k \in EventKinds : Happens(l, k) \/ \E h \in Hooks : Hook(h, l, k)
    \/ \E p \in Polls : Pass(p) \/ Ask(p) \/ AskFails(p) \/ Applies(p)
    \/ \E s \in Sessions : Commit(s) \/ Dies(s)

-----------------------------------------------------------------------------
(* Properties *)

\* Every bounce and unsubscription whose webhook was answered has the address
\* suppressed, a refused commit and a stale status notwithstanding.
BouncedIsSuppressed == (ebad \/ \E l \in Letters : eletter[l] = "failed") => esup

\* The campaign counts a delivered letter once, however often it is told,
\* unless sessions overlap, an event overtakes the worker, or the letter came
\* back as well: its status, not the event, is what tells of a second time.
DeliveredOnce ==
    ~eraced /\ (\A l \in Letters : ~({<<l, "delivered">>, <<l, "bounce">>} \subseteq ehappened)) =>
      ecount <= Cardinality({l \in Letters : <<l, "delivered">> \in ehappened})

EventsHold == BouncedIsSuppressed /\ DeliveredOnce

\* A letter that was delivered or came back does not count as sent for ever,
\* if all its webhooks are lost.
Owes(l) == l \in eknown /\ {<<l, "delivered">>, <<l, "bounce">>} \intersect ehappened # {}
Pays(l) == eletter[l] # "sent"
LetterSettles == \A l \in Letters : Owes(l) ~> Pays(l)
=============================================================================
