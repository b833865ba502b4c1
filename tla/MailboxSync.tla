----------------------------- MODULE MailboxSync -----------------------------
(***************************************************************************)
(* Reading the replies out of a connected mailbox.  A pass notes the       *)
(* watermark, lists what is newer than its cursor, stores the replies,     *)
(* unique by the provider's id, and commits them with the cursor.          *)
(***************************************************************************)
EXTENDS Naturals, FiniteSets

CONSTANTS
    Mails,      \* mails in the order they arrive, 1..n
    Replies,    \* those that classify_inbound takes for replies of one contact
    Readers,    \* the inline poller, beat and the operator's sync button
    MaxErrors,  \* bound on incomplete fetches
    MaxAborted  \* bound on passes that die or raise

ASSUME MailAssumption ==
    /\ Cardinality(Mails) \in Nat /\ Mails = 1..Cardinality(Mails) /\ Replies \subseteq Mails
    /\ MaxErrors \in Nat /\ MaxAborted \in Nat

VARIABLES
    bhere,    \* the last mail that has arrived
    bcursor,  \* the committed cursor
    bstored,  \* mails whose Message row is committed
    banswers, \* automatic replies
    bpass,    \* the passes
    berrors,  \* incomplete fetches so far
    blost,    \* passes lost so far
    bover     \* two passes have overlapped

bvars == <<bhere, bcursor, bstored, banswers, bpass, berrors, blost, bover>>

MailCount == 0..Cardinality(Mails)
PassType == [pc : {"idle", "list", "store", "waits"}, old : MailCount, next : MailCount,
             todo : SUBSET Mails,
             new : SUBSET Mails,      \* inserted, not committed
             answers : BOOLEAN]       \* an automatic reply is queued
IdlePass == [pc |-> "idle", old |-> 0, next |-> 0, todo |-> {}, new |-> {}, answers |-> FALSE]

BInit ==
    /\ bhere = 0 /\ bcursor = 0 /\ bstored = {} /\ banswers = 0
    /\ bpass = [p \in Readers |-> IdlePass]
    /\ berrors = 0 /\ blost = 0 /\ bover = FALSE

PassAt(p, pc) == bpass[p].pc = pc
Put(p, pass) == bpass' = [bpass EXCEPT ![p] = pass]
InboxKept == UNCHANGED <<bhere, bcursor, bstored, banswers>>

\* The mailbox is due, or the button was pressed; the watermark is taken
\* before the list.
Watermark(p) ==
    /\ PassAt(p, "idle")
    /\ Put(p, [IdlePass EXCEPT !.pc = "list", !.old = bcursor, !.next = bhere])
    /\ bover' = (bover \/ \E q \in Readers : ~PassAt(q, "idle"))
    /\ InboxKept /\ UNCHANGED <<berrors, blost>>

Newer(cursor) == {m \in Mails : cursor < m /\ m <= bhere}

ListNewer(p) ==
    /\ PassAt(p, "list")
    /\ Put(p, [bpass[p] EXCEPT !.pc = "store", !.todo = Newer(bpass[p].old)])
    /\ InboxKept /\ UNCHANGED <<berrors, blost, bover>>

\* Mutant: what could not be fetched is passed over.
ListPartAdvances(p) ==
    /\ PassAt(p, "list") /\ berrors < MaxErrors
    /\ \E S \in SUBSET Newer(bpass[p].old) : Put(p, [bpass[p] EXCEPT !.pc = "store", !.todo = S])
    /\ berrors' = berrors + 1
    /\ InboxKept /\ UNCHANGED <<blost, bover>>

\* A page or a body failed: the cursor stays.
ListPart(p) ==
    /\ PassAt(p, "list") /\ berrors < MaxErrors
    /\ \E S \in SUBSET Newer(bpass[p].old) :
         Put(p, [bpass[p] EXCEPT !.pc = "store", !.todo = S, !.next = bpass[p].old])
    /\ berrors' = berrors + 1
    /\ InboxKept /\ UNCHANGED <<blost, bover>>

Turn(p, m) == /\ PassAt(p, "store") /\ m \in bpass[p].todo
              /\ \A o \in bpass[p].todo : m <= o
Elsewhere(p, m) == \E q \in Readers \ {p} : m \in bpass[q].new

\* Not a reply, or on record.
PassOver(p, m) ==
    /\ Turn(p, m) /\ (m \notin Replies \/ m \in bstored)
    /\ Put(p, [bpass[p] EXCEPT !.todo = @ \ {m}])
    /\ InboxKept /\ UNCHANGED <<berrors, blost, bover>>

\* The contact was answered in the cooldown of the rule.
Answered(p) == banswers > 0 \/ bpass[p].answers

\* process_inbound_email for a reply, out of office or not
StoreReply(p, m, answer) ==
    /\ Turn(p, m) /\ m \in Replies \ bstored /\ ~Elsewhere(p, m)
    /\ Put(p, [bpass[p] EXCEPT !.todo = @ \ {m}, !.new = @ \union {m},
                               !.answers = @ \/ (answer /\ ~Answered(p))])
    /\ InboxKept /\ UNCHANGED <<berrors, blost, bover>>

\* The insert waits for that of another pass, and is refused if it commits.
Wait(p, m) ==
    /\ Turn(p, m) /\ m \in Replies \ bstored /\ Elsewhere(p, m)
    /\ Put(p, [bpass[p] EXCEPT !.pc = "waits"])
    /\ InboxKept /\ UNCHANGED <<berrors, blost, bover>>

WaitEnds(p) ==
    /\ PassAt(p, "waits")
    /\ LET m == CHOOSE o \in bpass[p].todo : \A q \in bpass[p].todo : o <= q
       IN \/ m \in bstored /\ Put(p, IdlePass)
          \/ m \notin bstored /\ ~Elsewhere(p, m) /\ Put(p, [bpass[p] EXCEPT !.pc = "store"])
    /\ InboxKept /\ UNCHANGED <<berrors, blost, bover>>

CommitPass(p) ==
    /\ PassAt(p, "store") /\ bpass[p].todo = {}
    /\ bstored' = bstored \union bpass[p].new
    /\ bcursor' = IF bpass[p].next = bpass[p].old THEN bcursor ELSE bpass[p].next
    /\ banswers' = IF bpass[p].answers /\ banswers < 2 THEN banswers + 1 ELSE banswers
    /\ Put(p, IdlePass)
    /\ UNCHANGED <<bhere, berrors, blost, bover>>

LosePass(p) ==
    /\ ~PassAt(p, "idle") /\ blost < MaxAborted
    /\ blost' = blost + 1
    /\ Put(p, IdlePass)
    /\ InboxKept /\ UNCHANGED <<berrors, bover>>

MailArrives ==
    /\ bhere + 1 \in Mails
    /\ bhere' = bhere + 1
    /\ UNCHANGED <<bcursor, bstored, banswers, bpass, berrors, blost, bover>>

StoreStep(p) == \E m \in Mails : PassOver(p, m) \/ Wait(p, m)
                                 \/ \E answer \in BOOLEAN : StoreReply(p, m, answer)
PassStep(p) == Watermark(p) \/ ListNewer(p) \/ StoreStep(p) \/ WaitEnds(p) \/ CommitPass(p)

BNext ==
    \/ \E p \in Readers : PassStep(p) \/ ListPart(p) \/ LosePass(p)
    \/ MailArrives

BSpec == BInit /\ [][BNext]_bvars

-----------------------------------------------------------------------------
(* Properties *)

BTypeOK ==
    /\ bhere \in MailCount /\ bcursor \in MailCount
    /\ bstored \subseteq Replies /\ banswers \in 0..2
    /\ bpass \in [Readers -> PassType]
    /\ berrors \in 0..MaxErrors /\ blost \in 0..MaxAborted /\ bover \in BOOLEAN

\* "Do not advance history or since when any page/body failed": no reply lies
\* behind the cursor that is not in the inbox, however passes overlap, fail
\* and arrive with cursors of their own.
NoneMissed == \A m \in Replies : m <= bcursor => m \in bstored

\* A contact who writes often gets one automatic reply in the cooldown, if
\* passes do not overlap.
MailAnsweredOnce == ~bover => banswers <= 1

\* A reply that has arrived is in the inbox in the end.
BOwes(m) == m <= bhere
BPays(m) == m \in bstored
ReplyIsStored == \A m \in Replies : BOwes(m) ~> BPays(m)
=============================================================================
