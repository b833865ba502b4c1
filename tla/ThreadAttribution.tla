-------------------------- MODULE ThreadAttribution --------------------------
(***************************************************************************)
(* Which campaign a thread of the inbox is from.  Sends of both campaign   *)
(* systems stamp the contact's thread, or make it; the inbox and replies   *)
(* mend a thread that is older than the stamps.  Everybody reads the row   *)
(* without a lock and writes the columns that it has changed.  A message   *)
(* that the broker refuses after its commit is deleted; its stamp stays.   *)
(***************************************************************************)
EXTENDS Naturals, FiniteSets, Sequences

CONSTANTS
    Classic, AdsRuns,  \* campaigns of the two systems
    Writers,           \* batches, slices and requests under way
    MaxTexts           \* bound on outgoing messages of campaigns in the thread

VARIABLES
    lrow,    \* the thread's columns, or Missing
    lmails,  \* the messages of campaigns in it: by which one, and whether deleted since
    lw,      \* the sessions
    lreply,  \* the last reply: the campaign in its row, and the one whose count it raised
    lold,    \* ghost: an older thread was stamped before it was mended
    lover    \* ghost: two sessions have overlapped

lvars == <<lrow, lmails, lw, lreply, lold, lover>>

Sources == Classic \union AdsRuns
Hand == "hand"
NoOne == "none"

ASSUME SourcesAssumption ==
    Classic \intersect AdsRuns = {} /\ {Hand, NoOne, "missing"} \intersect Sources = {}

Columns == {"first_campaign", "first_ads", "last_campaign", "last_ads"}
Blank == [k \in Columns |-> NoOne]
Missing == [k \in Columns |-> "missing"]
SessionIdle == [pc |-> "idle", from |-> Hand, row |-> Missing, counted |-> NoOne, new |-> Blank, at |-> 0]
NoReply == [to |-> NoOne, counted |-> NoOne]

Sent(m, c) == IF c = Hand THEN m ELSE Append(m, [by |-> c, gone |-> FALSE])

\* Who has written, and of whom a message was deleted
Writing(m) == {m[i].by : i \in DOMAIN m}
Withdrawn(m) == {m[i].by : i \in {j \in DOMAIN m : m[j].gone}}

\* The messages that are there, and the campaign of the first and the last of some
There(m) == {i \in DOMAIN m : ~m[i].gone}
FirstBy(m, I) == IF I = {} THEN NoOne ELSE m[CHOOSE i \in I : \A j \in I : i <= j].by
LastBy(m, I) == IF I = {} THEN NoOne ELSE m[CHOOSE i \in I : \A j \in I : j <= i].by
Oldest(m) == FirstBy(m, There(m))
Newest(m) == LastBy(m, There(m))
LastClassic(m) == LastBy(m, {i \in There(m) : m[i].by \in Classic})

\* A thread may be there from before: with messages, but not stamped.
LInit ==
    /\ \/ lrow = Missing /\ lmails = <<>>
       \/ lrow = Blank /\ \E c \in Sources \union {Hand} : lmails = Sent(<<>>, c)
    /\ lw = [s \in Writers |-> SessionIdle]
    /\ lreply = NoReply /\ lold = FALSE /\ lover = FALSE

LAt(s, pc) == lw[s].pc = pc
\* A session is open from its first query to its commit.
Open(s) == ~LAt(s, "idle") /\ ~LAt(s, "flush")
Starts == lover' = (lover \/ \E s \in Writers : Open(s))

-----------------------------------------------------------------------------
(* stamp_conversation, backfill_conversation *)

FirstOf(row) == {row["first_campaign"], row["first_ads"]} \ {NoOne}
LastOf(row) == {row["last_campaign"], row["last_ads"]} \ {NoOne}

\* Mutant: the newest campaign takes the first touch too.
StampedAnew(row, c) ==
    IF c \in Classic
    THEN [Blank EXCEPT !["first_campaign"] = c, !["last_campaign"] = c]
    ELSE [Blank EXCEPT !["first_ads"] = c, !["last_ads"] = c]

\* The first touch is written once, the last one always; one of a pair is set.
Stamped(row, c) ==
    [k \in Columns |->
        CASE k = "first_campaign" -> IF FirstOf(row) = {} /\ c \in Classic THEN c ELSE row[k]
          [] k = "first_ads" -> IF FirstOf(row) = {} /\ c \in AdsRuns THEN c ELSE row[k]
          [] k = "last_campaign" -> IF c \in Classic THEN c ELSE NoOne
          [] k = "last_ads" -> IF c \in AdsRuns THEN c ELSE NoOne]

\* What is missing is taken from the oldest and the newest message that has one.
Mended(row) ==
    [k \in Columns |->
        CASE k = "first_campaign" /\ FirstOf(row) = {} /\ Oldest(lmails) \in Classic -> Oldest(lmails)
          [] k = "first_ads" /\ FirstOf(row) = {} /\ Oldest(lmails) \in AdsRuns -> Oldest(lmails)
          [] k = "last_campaign" /\ LastOf(row) = {} /\ Newest(lmails) \in Classic -> Newest(lmails)
          [] k = "last_ads" /\ LastOf(row) = {} /\ Newest(lmails) \in AdsRuns -> Newest(lmails)
          [] OTHER -> row[k]]

-----------------------------------------------------------------------------
(* A session *)

\* A send finds the contact's thread, or makes one; a campaign stamps it.
Sends(s, c) ==
    /\ LAt(s, "idle") /\ Len(lmails) < MaxTexts
    /\ LET row == IF lrow = Missing THEN Blank ELSE lrow IN
       lw' = [lw EXCEPT ![s] = [pc |-> "send", from |-> c, row |-> lrow, counted |-> NoOne, at |-> 0,
                                new |-> IF c = Hand THEN row ELSE Stamped(row, c)]]
    /\ Starts
    /\ UNCHANGED <<lrow, lmails, lreply, lold>>

\* The inbox lists or opens the thread.
Opens(s) ==
    /\ LAt(s, "idle") /\ lrow # Missing
    /\ lw' = [lw EXCEPT ![s] = [pc |-> "mend", from |-> Hand, row |-> lrow, counted |-> NoOne, at |-> 0,
                                new |-> Mended(lrow)]]
    /\ Starts
    /\ UNCHANGED <<lrow, lmails, lreply, lold>>

\* process_inbound_message: the count is that of the last classic campaign that
\* wrote, the row's campaign the thread's last touch.
Replied(s) ==
    /\ LAt(s, "idle") /\ lrow # Missing
    /\ lw' = [lw EXCEPT ![s] = [pc |-> "reply", from |-> Hand, row |-> lrow, at |-> 0,
                                counted |-> LastClassic(lmails), new |-> Mended(lrow)]]
    /\ Starts
    /\ UNCHANGED <<lrow, lmails, lreply, lold>>

\* Of the thread the changed columns are written; a thread that another one
\* has made meanwhile refuses this one's, and its message with it.
ColumnsWritten(s) ==
    [k \in Columns |-> IF lw[s].row # Missing /\ lw[s].new[k] = lw[s].row[k] THEN lrow[k] ELSE lw[s].new[k]]
ThreadRefused(s) == lw[s].row = Missing /\ lrow # Missing

Credited(row) == IF row["last_campaign"] # NoOne THEN row["last_campaign"] ELSE row["last_ads"]

\* A campaign of the classic system asks the broker once it has committed.
Closes(s) ==
    /\ Open(s) /\ ~ThreadRefused(s)
    /\ lrow' = ColumnsWritten(s)
    /\ lmails' = IF LAt(s, "send") THEN Sent(lmails, lw[s].from) ELSE lmails
    /\ lreply' = IF LAt(s, "reply")
                 THEN [to |-> Credited(lw[s].new), counted |-> lw[s].counted] ELSE lreply
    /\ lold' = (lold \/ (LAt(s, "send") /\ lw[s].from # Hand /\ FirstOf(lrow) = {}
                         /\ Writing(lmails) # {}))
    /\ lw' = [lw EXCEPT ![s] = IF LAt(s, "send") /\ lw[s].from \in Classic
                               THEN [SessionIdle EXCEPT !.pc = "flush", !.at = Len(lmails) + 1]
                               ELSE SessionIdle]
    /\ UNCHANGED lover

\* A send is refused, rolled back for another reason, or dies; or what it has
\* committed is published, or a later sweep publishes it.
Drops(s) ==
    /\ LAt(s, "send") \/ LAt(s, "flush")
    /\ lw' = [lw EXCEPT ![s] = SessionIdle]
    /\ UNCHANGED <<lrow, lmails, lreply, lold, lover>>

\* The broker refuses: the message is deleted, the thread is left as it is.
Withdraws(s) ==
    /\ LAt(s, "flush")
    /\ lmails' = [lmails EXCEPT ![lw[s].at] = [by |-> @.by, gone |-> TRUE]]
    /\ lw' = [lw EXCEPT ![s] = SessionIdle]
    /\ UNCHANGED <<lrow, lreply, lold, lover>>

LNext ==
    \E s \in Writers :
        \/ \E c \in Sources \union {Hand} : Sends(s, c)
        \/ Opens(s) \/ Replied(s) \/ Closes(s) \/ Drops(s) \/ Withdraws(s)

-----------------------------------------------------------------------------
(* Properties *)

\* What a thread shows of a campaign is earned in every interleaving: it is
\* one that has written in the thread, and with a last touch there is a first.
\* Its message is there unless the broker refused it: the rollback deletes the
\* message and leaves the stamp, so that a campaign stopped after that is shown
\* without having written.  That who has written is shown does not hold either:
\* two sends may each empty the column the other wrote.
TouchEarned ==
    lrow # Missing =>
        /\ \A c \in FirstOf(lrow) \union LastOf(lrow) :
              (\E i \in There(lmails) : lmails[i].by = c) \/ c \in Withdrawn(lmails)
        /\ LastOf(lrow) # {} => FirstOf(lrow) # {}

\* "Exactly one of the two is set", the first campaign that wrote and the
\* newest one, deleted messages among them, as long as sessions follow one
\* another and an older thread is mended before a campaign writes in it.
TouchExact ==
    ~lover /\ lrow # Missing /\ FirstOf(lrow) # {} =>
        /\ LastOf(lrow) = {lmails[Len(lmails)].by}
        /\ ~lold => FirstOf(lrow) = {lmails[1].by}
        /\ lold => \E c \in Sources : FirstOf(lrow) = {c}

\* A reply that is filed under a classic campaign is counted for the same one,
\* unless a message of that one has been deleted.
RepliesAgree ==
    ~lover /\ lreply.to \in Classic \ Withdrawn(lmails) => lreply.counted = lreply.to

TouchesHold == TouchEarned /\ TouchExact /\ RepliesAgree

\* "the first time a legacy thread is listed or opened, it is repaired"
LOwes == lrow # Missing /\ There(lmails) # {}
LPays == FirstOf(lrow) # {}
=============================================================================
