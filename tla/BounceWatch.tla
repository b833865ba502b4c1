------------------------------ MODULE BounceWatch ------------------------------
(***************************************************************************)
(* The watchdog of an email campaign's bounces.  It is asked after every   *)
(* bounce, in the transaction that records it, and by a periodic sweep; it *)
(* stores an alert and pushes it to the subscribed browser, and is silent  *)
(* for a cooldown after an alert.                                          *)
(***************************************************************************)
EXTENDS Naturals, Sequences, FiniteSets, SequencesExt

CONSTANTS
    Reports,      \* webhook requests with a bounce or a complaint
    Sweeps,       \* runs of the periodic sweep
    MaxSent,      \* bound on messages of the campaign
    MinSample,    \* bounce_alert_min_sample
    BounceLimit,  \* bounce_alert_bounce_pct
    SpamLimit,    \* bounce_alert_complaint_pct
    Cooldown,     \* bounce_alert_cooldown_hours
    MaxFails,     \* failed pushes in a row that end a subscription
    MaxUndone     \* bound on transactions that are rolled back for some other reason

VARIABLES
    ncamp,    \* the campaign: its status and what became of its messages
    nalerts,  \* ages of the alerts in the cooldown, the oldest first
    nsub,     \* the browser's subscription: its failures in a row, or Gone
    nw,       \* the checks
    nundone,  \* transactions rolled back so far
    nlost,    \* ghost: a check has lost its transaction to a deleted subscription
    nover,    \* ghost: two checks have overlapped
    nleft     \* ghost: the browser has unsubscribed during a check

nvars == <<ncamp, nalerts, nsub, nw, nundone, nlost, nover, nleft>>

Checks == Reports \union Sweeps
Gone == MaxFails
CheckType == [pc : {"idle", "judge", "look", "tell", "end"},
              kind : {"none", "bounce", "spam"},   \* what it reports
              alert : BOOLEAN,                     \* it has inserted an alert
              sub : 0..Gone, wrote : BOOLEAN]      \* the subscription as it leaves it
IdleCheck == [pc |-> "idle", kind |-> "none", alert |-> FALSE, sub |-> 0, wrote |-> FALSE]
NoMail == [sent |-> 0, rejected |-> 0, bounced |-> 0, spam |-> 0]

NInit ==
    /\ ncamp = [running |-> TRUE, mails |-> NoMail]
    /\ nalerts = <<>>
    /\ nsub \in {0, Gone}
    /\ nw = [c \in Checks |-> IdleCheck]
    /\ nundone = 0 /\ nlost = FALSE /\ nover = FALSE /\ nleft = FALSE

NAt(c, pc) == nw[c].pc = pc
NTo(c, pc) == nw' = [nw EXCEPT ![c].pc = pc]

-----------------------------------------------------------------------------
(* campaign_health, verdict *)

Reported(m, kind) ==
    CASE kind = "none" -> m
      [] kind = "bounce" -> [m EXCEPT !.bounced = @ + 1]
      [] kind = "spam" -> [m EXCEPT !.bounced = @ + 1, !.spam = @ + 1]

\* More than the limit, of enough messages; percentages are not rounded here.
OverLimit(m) ==
    LET attempts == m.sent + m.rejected IN
    \/ attempts >= MinSample /\ (m.bounced + m.rejected) * 100 > BounceLimit * attempts
    \/ m.sent >= MinSample /\ m.spam * 100 > SpamLimit * m.sent

\* Mutant: any alert of the campaign, or none in the cooldown.
AlertedNever(c) == nw[c].alert

\* _alerted_recently, of what is committed
AlertedRecently(c) == nw[c].alert \/ nalerts # <<>>

-----------------------------------------------------------------------------
(* A check *)

\* The webhook records the bounce of a message that was sent; the sweep begins.
StartCheck(c) ==
    /\ NAt(c, "idle")
    /\ \/ c \in Sweeps /\ nw' = [nw EXCEPT ![c] = [IdleCheck EXCEPT !.pc = "judge"]]
       \/ \E kind \in {"bounce", "spam"} :
            /\ c \in Reports
            /\ ncamp.mails.bounced + Cardinality({r \in Reports : ~NAt(r, "idle")}) < ncamp.mails.sent
            /\ nw' = [nw EXCEPT ![c] = [IdleCheck EXCEPT !.pc = "judge", !.kind = kind]]
    /\ nover' = (nover \/ \E d \in Checks : ~NAt(d, "idle"))
    /\ UNCHANGED <<ncamp, nalerts, nsub, nundone, nlost, nleft>>

\* check_and_alert: only a campaign that is sending is judged, by what is
\* committed and the bounce of this transaction.
Judge(c) ==
    /\ NAt(c, "judge")
    /\ NTo(c, IF ncamp.running /\ OverLimit(Reported(ncamp.mails, nw[c].kind)) THEN "look" ELSE "end")
    /\ UNCHANGED <<ncamp, nalerts, nsub, nundone, nlost, nover, nleft>>

LookBack(c) ==
    /\ NAt(c, "look")
    /\ NTo(c, IF AlertedRecently(c) THEN "end" ELSE "tell")
    /\ UNCHANGED <<ncamp, nalerts, nsub, nundone, nlost, nover, nleft>>

\* notify inserts the alert and pushes it.  The failures in a row are counted
\* from the row as loaded; a dead endpoint ends the subscription at once.
Tell(c) ==
    /\ NAt(c, "tell")
    /\ \E push \in IF nsub = Gone THEN {"none"} ELSE {"ok", "fail", "gone"} :
         /\ nw' = [nw EXCEPT ![c] =
                     [@ EXCEPT !.pc = "end", !.alert = TRUE, !.wrote = push # "none",
                               !.sub = CASE push = "fail" -> nsub + 1
                                         [] push = "gone" -> Gone
                                         [] OTHER -> 0]]
    /\ UNCHANGED <<ncamp, nalerts, nsub, nundone, nlost, nover, nleft>>

\* The subscription that it wrote has been deleted meanwhile: the statement
\* that updates it finds no row, and the whole transaction is lost.
WriteLost(c) == nw[c].wrote /\ nw[c].sub # Gone /\ nsub = Gone

EndCheck(c) ==
    /\ NAt(c, "end") /\ ~WriteLost(c)
    /\ ncamp' = [ncamp EXCEPT !.mails = Reported(@, nw[c].kind)]
    /\ nalerts' = IF nw[c].alert THEN Append(nalerts, 0) ELSE nalerts
    /\ nsub' = IF nw[c].wrote THEN nw[c].sub ELSE nsub
    /\ nw' = [nw EXCEPT ![c] = IdleCheck]
    /\ UNCHANGED <<nundone, nlost, nover, nleft>>

\* A webhook's check swallows its error, but its transaction is lost with it,
\* the bounce too; it answers 500, and the event is delivered again.
LoseCheck(c) ==
    /\ NAt(c, "end") /\ WriteLost(c)
    /\ nw' = [nw EXCEPT ![c] = IdleCheck]
    /\ nlost' = TRUE
    /\ UNCHANGED <<ncamp, nalerts, nsub, nundone, nover, nleft>>

\* A check is rolled back, or dies; what it pushed has been pushed.
UndoCheck(c) ==
    /\ ~NAt(c, "idle") /\ nundone < MaxUndone
    /\ nundone' = nundone + 1
    /\ nw' = [nw EXCEPT ![c] = IdleCheck]
    /\ UNCHANGED <<ncamp, nalerts, nsub, nlost, nover, nleft>>

CheckStep(c) == Judge(c) \/ LookBack(c) \/ Tell(c) \/ EndCheck(c) \/ LoseCheck(c)

-----------------------------------------------------------------------------
(* The others *)

\* The provider takes a message, or refuses it.
MailOut ==
    /\ ncamp.mails.sent + ncamp.mails.rejected < MaxSent
    /\ \E field \in {"sent", "rejected"} :
         ncamp' = [ncamp EXCEPT !.mails = [@ EXCEPT ![field] = @ + 1]]
    /\ UNCHANGED <<nalerts, nsub, nw, nundone, nlost, nover, nleft>>

\* The campaign is paused, resumed or completed.
SwitchCampaign ==
    /\ ncamp' = [ncamp EXCEPT !.running = ~@]
    /\ UNCHANGED <<nalerts, nsub, nw, nundone, nlost, nover, nleft>>

\* subscribe: again, or a new row with another key
Subscribe ==
    /\ nsub = Gone => \A c \in Checks : ~nw[c].wrote
    /\ nsub' = 0
    /\ UNCHANGED <<ncamp, nalerts, nw, nundone, nlost, nover, nleft>>

\* Bounded to once during a check
Unsubscribe ==
    /\ nsub # Gone
    /\ nleft => \A c \in Checks : NAt(c, "idle")
    /\ nsub' = Gone
    /\ nleft' = (nleft \/ \E c \in Checks : ~NAt(c, "idle"))
    /\ UNCHANGED <<ncamp, nalerts, nw, nundone, nlost, nover>>

\* An hour: alerts grow older, and the oldest leave the cooldown.
Stale == Cardinality({i \in DOMAIN nalerts : nalerts[i] + 1 >= Cooldown})
HourPasses ==
    /\ nalerts' = SubSeq([i \in DOMAIN nalerts |-> nalerts[i] + 1], Stale + 1, Len(nalerts))
    /\ nalerts # <<>>
    /\ UNCHANGED <<ncamp, nsub, nw, nundone, nlost, nover, nleft>>

NNext ==
    \/ \E c \in Checks : StartCheck(c) \/ CheckStep(c) \/ UndoCheck(c)
    \/ MailOut \/ SwitchCampaign \/ Subscribe \/ Unsubscribe \/ HourPasses

-----------------------------------------------------------------------------
(* Properties *)

\* "one alert per campaign per bounce_alert_cooldown_hours, however many
\* bounces land in between": of checks that overlap each may send one, as none
\* sees the alert of another before it is committed; none is sent after them.
AlertsSpaced ==
    /\ Len(nalerts) <= Cardinality(Checks)
    /\ ~nover => Len(nalerts) <= 1

\* "a watchdog fault must not lose a webhook": it does if the subscription it
\* pushes to is deleted at the same time, by the user or by another check.
ReportsKept == nlost => nover \/ nleft

AlertsHold == AlertsSpaced /\ ReportsKept

\* A campaign that is over the limit and goes on sending has an alert.
NOwes == ncamp.running /\ OverLimit(ncamp.mails) /\ nalerts = <<>>
NPays == ~ncamp.running \/ nalerts # <<>>
=============================================================================
