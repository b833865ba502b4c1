------------------------- MODULE ScheduledMessages -------------------------
(***************************************************************************)
(* Scheduled messages: a pass selects the due rows, sends each and commits *)
(* once at its end; it claims nothing.  An email's Message row has the     *)
(* unique key scheduled-<id>, an SMS's has a random one.                   *)
(***************************************************************************)
EXTENDS Naturals, FiniteSets

CONSTANTS
    Items,       \* scheduled messages, numbered by schedule_at
    Emails,      \* those of them that are emails
    Pollers,     \* the inline poller and beat's task
    PassLimit,   \* rows of one pass
    RetryEmails, \* is retry pressed for an email
    MaxDied      \* bound on the passes that die

VARIABLES
    sitem,   \* status of a row
    skey,    \* emails whose Message row is committed
    spoll,   \* the passes
    sgone,   \* how often the provider has taken a message; 2 is twice or more
    sdied,   \* passes that died so far
    sreq,    \* a cancel or a retry that has read its row
    stwo,    \* a pass has overlapped another one, or a cancel or a retry
    slost    \* a pass has broken after it had sent an email

svars == <<sitem, skey, spoll, sgone, sdied, sreq, stwo, slost>>

ItemStatus == {"pending", "sent", "failed", "cancelled"}
PollerType == [pc : {"idle", "open", "broken"},
               todo : SUBSET Items,
               set : [Items -> {"none", "sent", "failed"}],  \* not committed
               key : SUBSET Emails]                          \* inserted
IdlePoller == [pc |-> "idle", todo |-> {}, set |-> [i \in Items |-> "none"], key |-> {}]

RequestType == [set : {"none", "cancelled", "pending"}, item : Items]
NoRequest == [set |-> "none", item |-> CHOOSE i \in Items : TRUE]

SInit ==
    /\ sitem = [i \in Items |-> "pending"]
    /\ skey = {}
    /\ spoll = [p \in Pollers |-> IdlePoller]
    /\ sgone = [i \in Items |-> 0]
    /\ sdied = 0 /\ sreq = NoRequest /\ stwo = FALSE /\ slost = FALSE

Earliest(S) == CHOOSE i \in S : \A j \in S : i <= j
Due == {i \in Items : sitem[i] = "pending"}

Open(p) ==
    /\ spoll[p].pc = "idle"
    /\ \E S \in SUBSET Due :
         /\ S # {}
         /\ Cardinality(S) = PassLimit \/ S = Due
         /\ Cardinality(S) <= PassLimit
         /\ \A i \in S, j \in Due \ S : i < j
         /\ spoll' = [spoll EXCEPT ![p].pc = "open", ![p].todo = S]
    /\ stwo' = (stwo \/ sreq # NoRequest \/ \E q \in Pollers : spoll[q].pc # "idle")
    /\ UNCHANGED <<sitem, skey, sgone, sdied, sreq, slost>>

Turn(p, i) ==
    /\ spoll[p].pc = "open"
    /\ spoll[p].todo # {} /\ i = Earliest(spoll[p].todo)

Settled(p, i, st) == [spoll[p] EXCEPT !.todo = @ \ {i}, !.set[i] = st]

\* An opt-out, a suppression or no sender: nothing is sent.
Refuse(p, i) ==
    /\ Turn(p, i)
    /\ spoll' = [spoll EXCEPT ![p] = Settled(p, i, "failed")]
    /\ UNCHANGED <<sitem, skey, sgone, sdied, sreq, stwo, slost>>

\* Mutant: an email gets a random key as well.
InsertsAny(p, i) == Turn(p, i)

\* The insert of an email waits for another one of the same key.
Inserts(p, i) ==
    /\ Turn(p, i)
    /\ i \in Emails => i \notin skey /\ \A q \in Pollers \ {p} : i \notin spoll[q].key

SendItem(p, i, st) ==
    /\ Inserts(p, i)
    /\ spoll' = [spoll EXCEPT ![p] = [Settled(p, i, st) EXCEPT !.key = @ \union ({i} \intersect Emails)]]
    /\ sgone' = IF st = "sent" THEN [sgone EXCEPT ![i] = IF @ = 2 THEN 2 ELSE @ + 1] ELSE sgone
    /\ UNCHANGED <<sitem, skey, sdied, sreq, stwo, slost>>

\* The unique key refuses the insert.  The handler notes the row as failed and
\* goes on, but the session's transaction is gone: every later row fails in
\* its first query, and so does the commit, with the keys of what was sent.
KeyRefused(p, i) ==
    /\ Turn(p, i) /\ i \in skey
    /\ spoll' = [spoll EXCEPT ![p].pc = "broken"]
    /\ slost' = (slost \/ \E j \in Emails : spoll[p].set[j] = "sent")
    /\ UNCHANGED <<sitem, skey, sgone, sdied, sreq, stwo>>

CommitPass(p) ==
    /\ spoll[p].pc = "open" /\ spoll[p].todo = {}
    /\ sitem' = [i \in Items |-> IF spoll[p].set[i] # "none" THEN spoll[p].set[i] ELSE sitem[i]]
    /\ skey' = skey \union spoll[p].key
    /\ spoll' = [spoll EXCEPT ![p] = IdlePoller]
    /\ UNCHANGED <<sgone, sdied, sreq, stwo, slost>>

BrokenEnds(p) ==
    /\ spoll[p].pc = "broken"
    /\ spoll' = [spoll EXCEPT ![p] = IdlePoller]
    /\ UNCHANGED <<sitem, skey, sgone, sdied, sreq, stwo, slost>>

Die(p) ==
    /\ spoll[p].pc # "idle" /\ sdied < MaxDied
    /\ sdied' = sdied + 1
    /\ spoll' = [spoll EXCEPT ![p] = IdlePoller]
    /\ UNCHANGED <<sitem, skey, sgone, sreq, stwo, slost>>

\* cancel_scheduled and retry_scheduled read the row, and write it when no pass
\* has a status for it that is not committed.
Reads(i, st) ==
    /\ sreq = NoRequest
    /\ sreq' = [set |-> st, item |-> i]
    /\ stwo' = (stwo \/ \E p \in Pollers : spoll[p].pc # "idle")
    /\ UNCHANGED <<sitem, skey, spoll, sgone, sdied, slost>>

CancelItem(i) == sitem[i] = "pending" /\ Reads(i, "cancelled")

RetryItem(i) ==
    /\ sitem[i] \in {"failed", "cancelled"}
    /\ i \in Emails => RetryEmails
    /\ Reads(i, "pending")

RequestEnds ==
    /\ sreq # NoRequest
    /\ \A p \in Pollers : spoll[p].pc = "broken" \/ spoll[p].set[sreq.item] = "none"
    /\ sitem' = [sitem EXCEPT ![sreq.item] = sreq.set]
    /\ sreq' = NoRequest
    /\ UNCHANGED <<skey, spoll, sgone, sdied, stwo, slost>>

PassStep(p) ==
    \/ \E i \in Items : \/ Refuse(p, i) \/ KeyRefused(p, i)
                        \/ \E st \in {"sent", "failed"} : SendItem(p, i, st)
    \/ CommitPass(p) \/ BrokenEnds(p)

SNext ==
    \/ \E p \in Pollers : Open(p) \/ PassStep(p) \/ Die(p)
    \/ \E i \in Items : CancelItem(i) \/ RetryItem(i)
    \/ RequestEnds

SSpec == SInit /\ [][SNext]_svars

-----------------------------------------------------------------------------
(* Properties *)

STypeOK ==
    /\ sitem \in [Items -> ItemStatus] /\ skey \subseteq Emails
    /\ spoll \in [Pollers -> PollerType]
    /\ sgone \in [Items -> 0..2]
    /\ sdied \in 0..MaxDied /\ sreq \in RequestType /\ stwo \in BOOLEAN
    /\ slost \in BOOLEAN

\* The key scheduled-<id> is inserted before the email is sent: passes that
\* overlap do not send it twice, as long as none of them dies, or breaks with
\* the key of an email that it has sent.
EmailOnce == sdied = 0 /\ ~slost => \A i \in Emails : sgone[i] <= 1

\* A scheduled SMS goes out once if passes overlap neither with one another nor
\* with a cancel or a retry, and none dies.
SmsOnce == sdied = 0 /\ ~stwo => \A i \in Items \ Emails : sgone[i] <= 1

\* Every row comes to an end, however often passes break or die.
Owes(i) == sitem[i] = "pending"
ItemSettles == \A i \in Items : Owes(i) ~> ~Owes(i)

\* What was scheduled goes out once, an email by its key and an SMS by its row.
ItemsOnce == STypeOK /\ EmailOnce /\ SmsOnce
=============================================================================
