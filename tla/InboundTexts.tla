----------------------------- MODULE InboundTexts -----------------------------
(***************************************************************************)
(* Text messages of one contact that the gateway delivers by webhook until *)
(* it is answered.  A handler records the event, stores the message and    *)
(* what follows from it, may answer automatically, which commits, and      *)
(* commits at its end; the device is never told of a failure.              *)
(***************************************************************************)
EXTENDS Naturals, FiniteSets

CONSTANTS
    Texts,       \* what the contact writes
    OptOuts,     \* those of them that are an opt-out keyword
    Handlers,    \* webhook requests under way
    MaxRefused,  \* bound on statements that the database refuses
    MaxKilled    \* bound on requests that die

ASSUME TextsAssumption ==
    IsFiniteSet(Texts) /\ MaxRefused \in Nat /\ MaxKilled \in Nat

VARIABLES
    tevent,   \* deliveries on record in webhook_events
    tacked,   \* texts the device has been answered for
    tstored,  \* texts in the inbox
    tunread,  \* the thread's unread_count
    tnew,     \* texts stored since the operator has looked
    tout,     \* the contact has opted out
    tcounted, \* the campaign contact's last_reply_at is set
    treplies, \* the campaign's replies
    tanswers, \* automatic replies
    th,       \* the handlers
    trefused, tkilled,   \* so far
    tover     \* a handler has overlapped another one, or a look

tvars == <<tevent, tacked, tstored, tunread, tnew, tout, tcounted, treplies, tanswers,
           th, trefused, tkilled, tover>>

Count == 0..Cardinality(Texts)
NoText == "none"
HandlerType == [pc : {"idle", "event", "store", "answer", "end", "broken"},
                text : Texts \union {NoText},
                saved : BOOLEAN,          \* committed by the automatic reply
                unread : Count, out : BOOLEAN, counted : BOOLEAN, replies : Count]  \* as loaded
IdleHandler == [pc |-> "idle", text |-> NoText, saved |-> FALSE, unread |-> 0, out |-> FALSE,
                counted |-> FALSE, replies |-> 0]

TInit ==
    /\ tevent = {} /\ tacked = {} /\ tstored = {}
    /\ tunread = 0 /\ tnew = 0 /\ treplies = 0 /\ tanswers = 0
    /\ tout = FALSE /\ tcounted = FALSE
    /\ th = [h \in Handlers |-> IdleHandler]
    /\ trefused = 0 /\ tkilled = 0 /\ tover = FALSE

At(h, pc) == th[h].pc = pc
Goto(h, pc) == th' = [th EXCEPT ![h].pc = pc]
Inbox == <<tstored, tunread, tnew, tout, tcounted, treplies>>
Bounds == <<trefused, tkilled>>

\* The device delivers what has not been answered, once or several times; what
\* is on record is a duplicate.
Deliver(h, x) ==
    /\ At(h, "idle") /\ x \notin tacked
    /\ tover' = (tover \/ \E g \in Handlers : ~At(g, "idle"))
    /\ \/ x \in tevent /\ tacked' = tacked \union {x} /\ UNCHANGED th
       \/ /\ x \notin tevent /\ UNCHANGED tacked
          /\ th' = [th EXCEPT ![h] = [IdleHandler EXCEPT !.pc = "event", !.text = x]]
    /\ UNCHANGED <<tevent, tanswers>> /\ UNCHANGED Inbox /\ UNCHANGED Bounds

\* The insert of the same event by another request is waited for.
Holds(g, x) == th[g].text = x /\ th[g].pc \in {"store", "answer", "end"} /\ ~th[g].saved

\* Mutant: the record of the event is committed.
EventRecorded(h) ==
    /\ At(h, "event")
    /\ th[h].text \notin tevent
    /\ tevent' = tevent \union {th[h].text}
    /\ Goto(h, "store")
    /\ UNCHANGED <<tacked, tanswers, tover>> /\ UNCHANGED Inbox /\ UNCHANGED Bounds

\* 500 if the insert is refused
Event(h) ==
    /\ At(h, "event")
    /\ \A g \in Handlers \ {h} : ~Holds(g, th[h].text)
    /\ IF th[h].text \in tevent THEN th' = [th EXCEPT ![h] = IdleHandler] ELSE Goto(h, "store")
    /\ UNCHANGED <<tevent, tacked, tanswers, tover>> /\ UNCHANGED Inbox /\ UNCHANGED Bounds

\* process_inbound_message reads the contact, the thread and the campaign.
StoreText(h) ==
    /\ At(h, "store")
    /\ th' = [th EXCEPT ![h] = [@ EXCEPT !.pc = "answer", !.unread = tunread,
                                         !.out = tout \/ th[h].text \in OptOuts,
                                         !.counted = tcounted, !.replies = treplies]]
    /\ UNCHANGED <<tevent, tacked, tanswers, tover>> /\ UNCHANGED Inbox /\ UNCHANGED Bounds

\* Mutant: each text counts as a reply.
AppliedEach(h) ==
    /\ tstored' = tstored \union {th[h].text}
    /\ tunread' = th[h].unread + 1
    /\ tnew' = tnew + 1
    /\ tout' = (tout \/ th[h].text \in OptOuts)
    /\ tcounted' = TRUE
    /\ treplies' = th[h].replies + 1

\* What a commit writes: counters as they were loaded, and one more
Applied(h) ==
    /\ tstored' = tstored \union {th[h].text}
    /\ tunread' = th[h].unread + 1
    /\ tnew' = tnew + 1
    /\ tout' = (tout \/ th[h].text \in OptOuts)
    /\ tcounted' = TRUE
    /\ treplies' = IF th[h].counted THEN treplies ELSE th[h].replies + 1

\* Mutant: the opt-out is not looked at.
MayAnswerOut(h) == tanswers = 0

\* A STOP is not argued with; the contact was not answered in the cooldown.
MayAnswer(h) == ~th[h].out /\ tanswers = 0

\* The automatic reply is committed, and all that was done with it.
Answer(h) ==
    /\ At(h, "answer") /\ MayAnswer(h)
    /\ Applied(h)
    /\ tevent' = tevent \union {th[h].text}
    /\ tanswers' = tanswers + 1
    /\ th' = [th EXCEPT ![h].pc = "end", ![h].saved = TRUE]
    /\ UNCHANGED <<tacked, tover>> /\ UNCHANGED Bounds

NoAnswer(h) ==
    /\ At(h, "answer")
    /\ Goto(h, "end")
    /\ UNCHANGED <<tevent, tacked, tanswers, tover>> /\ UNCHANGED Inbox /\ UNCHANGED Bounds

Acked(h) ==
    /\ tevent' = tevent \union {th[h].text}
    /\ tacked' = tacked \union {th[h].text}
    /\ th' = [th EXCEPT ![h] = IdleHandler]
    /\ UNCHANGED <<tanswers, tover>> /\ UNCHANGED Bounds

Ends(h) ==
    /\ At(h, "end")
    /\ IF th[h].saved THEN UNCHANGED Inbox ELSE Applied(h)
    /\ Acked(h)

\* A statement is refused, in the storing or in the reply and the automations
\* whose exceptions are swallowed: what is not committed is rolled back, and
\* the event is recorded with its error.
Refused(h) ==
    /\ th[h].pc \in {"store", "answer", "end"} /\ trefused < MaxRefused
    /\ trefused' = trefused + 1
    /\ Goto(h, "broken")
    /\ UNCHANGED <<tevent, tacked, tanswers, tkilled, tover>> /\ UNCHANGED Inbox

BrokenEnds(h) == At(h, "broken") /\ UNCHANGED Inbox /\ Acked(h)

Kill(h) ==
    /\ ~At(h, "idle") /\ tkilled < MaxKilled
    /\ tkilled' = tkilled + 1
    /\ th' = [th EXCEPT ![h] = IdleHandler]
    /\ UNCHANGED <<tevent, tacked, tanswers, trefused, tover>> /\ UNCHANGED Inbox

\* The operator opens the thread.
Look ==
    /\ tunread > 0
    /\ tunread' = 0 /\ tnew' = 0
    /\ tover' = (tover \/ \E h \in Handlers : ~At(h, "idle"))
    /\ UNCHANGED <<tevent, tacked, tstored, tout, tcounted, treplies, tanswers, th>>
    /\ UNCHANGED Bounds

HandlerStep(h) == Event(h) \/ StoreText(h) \/ Answer(h) \/ NoAnswer(h) \/ Ends(h) \/ BrokenEnds(h)

TNext ==
    \/ \E h \in Handlers : \/ HandlerStep(h) \/ Refused(h) \/ Kill(h)
                           \/ \E x \in Texts : Deliver(h, x)
    \/ Look

TSpec == TInit /\ [][TNext]_tvars

-----------------------------------------------------------------------------
(* Properties *)

TTypeOK ==
    /\ tevent \subseteq Texts /\ tacked \subseteq Texts /\ tstored \subseteq Texts
    /\ tunread \in Count /\ tnew \in Count /\ treplies \in Count /\ tanswers \in Count
    /\ tout \in BOOLEAN /\ tcounted \in BOOLEAN
    /\ th \in [Handlers -> HandlerType]
    /\ trefused \in 0..MaxRefused /\ tkilled \in 0..MaxKilled /\ tover \in BOOLEAN

\* "Losing the message is not [survivable]": a text for which the device was
\* answered, and which it will not deliver again, is in the inbox, over
\* deaths and repeated and overlapping deliveries, if the database has
\* refused nothing.
AckedIsStored == trefused = 0 => tacked \subseteq tstored

\* "A chatty contact is still a single responder", if requests do not overlap.
RepliesOnce == ~tover => treplies = (IF tstored = {} THEN 0 ELSE 1)

\* "Answering STOP with marketing copy is exactly what compliance rules
\* forbid": no automatic reply after the opt-out, if requests do not overlap.
StopUnanswered == [][~tover /\ tout => tanswers' = tanswers]_tvars

\* The count of unread texts is the number that came since the operator looked.
UnreadCounts == ~tover => tunread = tnew

\* The device is answered in the end.
TPays(x) == x \in tacked
TextIsAcked == \A x \in Texts : TRUE ~> TPays(x)
=============================================================================
