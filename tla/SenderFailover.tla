---------------------------- MODULE SenderFailover ----------------------------
(***************************************************************************)
(* Who sends one message.  A text goes over the connected phones and the   *)
(* primary one of the environment, an email over the senders of its        *)
(* campaign; when one fails another is tried.  The candidates are read at  *)
(* the start, each try is a call to a provider, and phones are edited and  *)
(* deleted meanwhile.                                                      *)
(***************************************************************************)
EXTENDS Naturals, Sequences, FiniteSets, SequencesExt

CONSTANTS
    Phones,    \* connected phones, numbered in the order of their priority
    Accounts,  \* Brevo senders
    Boxes,     \* Gmail mailboxes
    MaxEdited  \* bound on edits of phones

VARIABLES
    dmsg,    \* the message: channel, chosen sender, pool
    dset,    \* settings: routing mode, SIM failover, senders that work
    dphone,  \* the phones' rows
    dedits,  \* edits so far
    dplan,   \* candidates that are left, each with a SIM
    dtried,  \* tries so far: by whom, on which SIM, and if a clear answer came
    dtaken,  \* tries whose provider took the message
    dlost,   \* those whose answer was lost
    dphase   \* "new", "trying", then the answer and what was committed

dvars == <<dmsg, dset, dphone, dedits, dplan, dtried, dtaken, dlost, dphase>>

Primary == 0
Senders == Accounts \union Boxes
Nobody == "nobody"
Modes == {"render_first", "failover", "default_phone", "round_robin"}

Text(pin) == [channel |-> "sms", pin |-> pin, explicit |-> pin # Primary,
              pooled |-> FALSE, thread |-> FALSE, reply |-> FALSE, pool |-> {}]
\* pin is the sender chosen, or the default one if explicit is FALSE; the
\* pool is that of the campaign, here all senders or none.  A reply belongs to
\* no campaign, and a message of a thread that does keeps its sender.
Mail == {m \in [channel : {"email"}, pin : Senders, explicit : BOOLEAN, pooled : BOOLEAN,
                thread : BOOLEAN, reply : BOOLEAN, pool : {{}, Senders}] :
           /\ m.reply => ~m.pooled
           /\ ~m.pooled => ~m.thread /\ m.pool = {}}

DInit ==
    /\ \/ /\ dmsg \in {Text(p) : p \in Phones \union {Primary}}
          /\ dset \in [mode : Modes, primary : BOOLEAN, other : BOOLEAN, turn : 0..Cardinality(Phones),
                       usable : {{}}, box : {Nobody}]
          /\ dset.mode # "round_robin" => dset.turn = 0
          /\ dset.other => dset.mode = "default_phone"  \* a bound: the SIMs in one mode
       \/ /\ dmsg \in Mail
          /\ dset \in [mode : {"failover"}, primary : {FALSE}, other : {FALSE}, turn : {0},
                       usable : SUBSET Senders, box : Boxes \union {Nobody}]
          /\ ~dmsg.reply => dset.box = Nobody
    /\ dphone = [p \in Phones |-> "on"]
    /\ dedits = 0 /\ dplan = <<>> /\ dphase = "new"
    /\ dtried = {} /\ dtaken = {} /\ dlost = {}

-----------------------------------------------------------------------------
(* The candidates *)

\* The phones that are in one of these states, by priority.
Enabled(S) ==
    LET on == {p \in Phones : dphone[p] \in S}
    IN [i \in 1..Cardinality(on) |-> CHOOSE p \in on : Cardinality({q \in on : q <= p}) = i]
PrimaryFirst == IF dset.primary THEN <<Primary>> ELSE <<>>

\* dispatch_sms_multi_phone.  With no phone of its own the primary is tried
\* whether it is configured or not.
TextOrder ==
    LET all == Enabled({"on", "default"})
        ring == PrimaryFirst \o all
        start == dset.turn % Len(ring)
    IN CASE dmsg.explicit ->
              (IF dphone[dmsg.pin] \in {"on", "default"} THEN <<dmsg.pin>> ELSE <<>>) \o PrimaryFirst
         [] ~dmsg.explicit /\ all = <<>> -> <<Primary>>
         [] ~dmsg.explicit /\ all # <<>> /\ dset.mode \in {"render_first", "failover"} -> ring
         [] ~dmsg.explicit /\ all # <<>> /\ dset.mode = "default_phone" ->
              Enabled({"default"}) \o PrimaryFirst \o Enabled({"on"})
         [] ~dmsg.explicit /\ all # <<>> /\ dset.mode = "round_robin" ->
              SubSeq(ring, start + 1, Len(ring)) \o SubSeq(ring, 1, start)

\* _deliver_via_gmail_reply: a reply leaves from the mailbox that was chosen,
\* or, if that is switched off, by which its thread came in; with a Brevo
\* sender chosen, or a thread no mailbox knows, deliver goes on.
ReplyBox ==
    IF dmsg.explicit /\ dmsg.pin \in Boxes \intersect dset.usable THEN dmsg.pin
    ELSE IF dmsg.explicit /\ dmsg.pin \in Accounts THEN Nobody ELSE dset.box

\* deliver.
MailOrder ==
    LET chosenBox == dmsg.explicit /\ dmsg.pin \in Boxes
        own == IF dmsg.reply /\ chosenBox THEN <<>> ELSE <<dmsg.pin>>
        rotates == dmsg.pooled /\ ~dmsg.thread
    IN IF dmsg.reply /\ ReplyBox # Nobody THEN <<ReplyBox>>
       ELSE own \o (IF rotates THEN SetToSeq(dmsg.pool \ {dmsg.pin}) ELSE <<>>)

\* Each phone has the SIM that is set, and the other one.
EachSim(order) ==
    IF dset.other
    THEN [i \in 1..(2 * Len(order)) |-> <<order[(i + 1) \div 2], IF i % 2 = 1 THEN 1 ELSE 2>>]
    ELSE [i \in 1..Len(order) |-> <<order[i], 1>>]

Plan == EachSim(IF dmsg.channel = "sms" THEN TextOrder ELSE MailOrder)

-----------------------------------------------------------------------------
(* The tries *)

Begins ==
    /\ dphase = "new"
    /\ dplan' = Plan
    /\ dphase' = "trying"
    /\ UNCHANGED <<dmsg, dset, dphone, dedits, dtried, dtaken, dlost>>

First == Head(dplan)
Tried(refused) == <<First[1], First[2], refused>>
Works == dmsg.channel = "sms" \/ First[1] \in dset.usable
Trying == dphase = "trying" /\ dplan # <<>>

Skip ==
    /\ Trying /\ ~Works
    /\ dplan' = Tail(dplan)
    /\ UNCHANGED <<dmsg, dset, dphone, dedits, dtried, dtaken, dlost, dphase>>

Accepts ==
    /\ Trying /\ Works
    /\ First[1] = Primary => dset.primary
    /\ dtried' = dtried \union {Tried(TRUE)}
    /\ dtaken' = dtaken \union {First}
    /\ dplan' = <<>>
    /\ dphase' = "taken"
    /\ UNCHANGED <<dmsg, dset, dphone, dedits, dlost>>

\* Mutant: every failure lets another sender try.
GoesOnAlways(refused) == TRUE

\* _try_next of _send_via_account: a refusal by the provider lets another
\* sender try; any other failure may hide that the message was taken.
GoesOn(refused) == First[1] \in Accounts => refused

Fails(refused) ==
    /\ dtried' = dtried \union {Tried(refused)}
    /\ dplan' = IF GoesOn(refused) THEN Tail(dplan) ELSE <<>>
    /\ UNCHANGED <<dmsg, dset, dphone, dedits, dphase>>

Refuses ==
    /\ Trying /\ Works
    /\ \E refused \in BOOLEAN : (refused => First[1] \in Accounts) /\ Fails(refused)
    /\ UNCHANGED <<dtaken, dlost>>

AnswerLost ==
    /\ Trying /\ Works
    /\ First[1] = Primary => dset.primary
    /\ Fails(FALSE)
    /\ dtaken' = dtaken \union {First}
    /\ dlost' = dlost \union {First}

\* The caller commits; what was tried is in the phone's row, and if that row
\* is gone the commit raises and the message keeps no trace of the answer,
\* except if a failure left the row as it was.
Commit ==
    /\ dphase \in {"trying", "taken"} /\ dplan = <<>>
    /\ LET gone == {t \in dtried : t[1] \in Phones /\ dphone[t[1]] = "gone"}
           answer == IF dphase = "taken" THEN "sent" ELSE "failed"
       IN \/ dphase' = answer /\ \A t \in gone : ~t[3]
          \/ dphase' = "raised" /\ gone # {}
    /\ UNCHANGED <<dmsg, dset, dphone, dedits, dplan, dtried, dtaken, dlost>>

\* update_sender_phone and delete_sender_phone; the default is one phone.
EditPhone(p, as) ==
    /\ dmsg.channel = "sms" /\ dedits < MaxEdited
    /\ dphone[p] \notin {"gone", as}
    /\ dphone' = [q \in Phones |-> IF q = p THEN as
                                   ELSE IF as = "default" /\ dphone[q] = "default" THEN "on"
                                   ELSE dphone[q]]
    /\ dedits' = dedits + 1
    /\ UNCHANGED <<dmsg, dset, dplan, dtried, dtaken, dlost, dphase>>

DispatchStep == Begins \/ Skip \/ Accepts \/ Refuses \/ AnswerLost \/ Commit
DNext == DispatchStep \/ \E p \in Phones, as \in {"on", "off", "default", "gone"} : EditPhone(p, as)

-----------------------------------------------------------------------------
(* Properties *)

\* A second provider gets the message only after one that refused it, or a
\* phone or mailbox whose answer was lost: never after Brevo may have it.
HandedOverOnce == Cardinality({t \in dtaken : t \in dlost => t[1] \in Accounts}) <= 1

\* A message of a thread, and one with a sender of its own and no campaign,
\* leaves from that sender or not at all.
SenderStays ==
    /\ dmsg.pooled /\ dmsg.thread => \A t \in dtried : t[1] = dmsg.pin
    /\ dmsg.channel = "email" /\ dmsg.explicit /\ ~dmsg.pooled /\ dmsg.pin \in dset.usable =>
         \A t \in dtried : t[1] = dmsg.pin

\* A message fails only when everybody who may send it has failed, or Brevo
\* has left it open; no edit of phones keeps the primary from trying.
NobodyLeft ==
    dphase = "failed" /\ (\A t \in dtried : t[1] \in Accounts => t[3]) =>
      LET tried == {t[1] : t \in dtried}
          pool == dmsg.pool \union {dmsg.pin}
      IN /\ dset.primary => Primary \in tried
         /\ dmsg.pooled /\ ~dmsg.thread => pool \intersect dset.usable \subseteq tried

\* What a provider is known to have taken is recorded, unless a phone that
\* was tried has been deleted meanwhile.
TakenIsRecorded ==
    dphase \in {"failed", "raised"} /\ dtaken \ dlost # {} =>
      \E t \in dtried : t[1] \in Phones /\ dphone[t[1]] = "gone"

SenderHolds == HandedOverOnce /\ SenderStays /\ NobodyLeft /\ TakenIsRecorded
=============================================================================
