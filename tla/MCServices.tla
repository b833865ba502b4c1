----------------------------- MODULE MCServices -----------------------------
(***************************************************************************)
(* The services around the campaigns, for TLC.  They share nothing with    *)
(* one another, so each behaviour is one of a single part, chosen at the   *)
(* start: the graph is the sum of the parts' graphs, not the product.  An  *)
(* invoice has two parts: two requests at a time, or requests that follow  *)
(* one another, and edits and a void between them.                         *)
(***************************************************************************)
EXTENDS VerificationJobs, ExecutionGuard, MailboxSync, InboundTexts, SendingWindow, ThreadAttribution,
        SequencesExt

CONSTANTS
    People, K, Sweepers, RuleLimit, MaxLost,
    Leads, Steps, Acting, ByHand, Passes, TaskLimit, MaxDeaths,
    Items, Emails, Pollers, PassLimit, RetryEmails, MaxDied,
    Turns, Cards, Requests, MaxSteps, MaxCalls, MaxDropped,
    Refs, Totals, LateFailure, MaxOpen,
    W, Guests, Same, MaxMoved, MaxFailed,
    Phones, Accounts, Boxes, MaxEdited,
    Letters, EventKinds, Eventful, WithIds, Hooks, Polls, AskLimit, MaxEvents, MaxSilent,
    Numbers, Addresses, Rows, Batch, MaxEdits,
    Reports, Sweeps, MaxSent, MinSample, BounceLimit, SpamLimit, Cooldown, MaxFails, MaxUndone,
    Timed, Countable, Unknown, Stuck, Delays, Interval, IdleInterval, ActiveWindow, MaxPass, KeepsAsked

VARIABLES
    part,
    rcamp, rmsg, rdue, rout, rclosed, rlog, rsw, rgone, rlost,
    ftask, fdue, fheld, fout, flive, fpass, fmsg, fdied,
    sitem, skey, spoll, sgone, sdied, sreq, stwo, slost,
    acard, aturn, areq, aran, aundone, ashown, adrop, aover,
    iinv, irow, itaken, ireq, inote, iover,
    mstate, mtime, mmoved, mdone, mpass, mform, mgone, mtold, mfailed, mraced,
    dmsg, dset, dphone, dedits, dplan, dtried, dtaken, dlost, dphase,
    eletter, eknown, ehappened, ehook, erows, ecount, esup, easked, esess, esilent, ebad, eraced,
    ncamp, nalerts, nsub, nw, nundone, nlost, nover, nleft,
    xfile, xjob, xcrm, xlist, xcount, xwork, xedits, xraced,
    ploop, pwake, psince, plast, pjob, pdb, pseen, pwait, pasked

\* The operator's cards are numbered from one.
ASSUME CardsAssumption ==
    Cards \subseteq Nat \ {0} /\ MaxSteps \in Nat /\ MaxCalls \in Nat /\ MaxDropped \in Nat

\* A file has some rows, and a commit some of them.
ASSUME ImportsAssumption == Rows \in Nat /\ Batch \in Nat \ {0}

\* Scheduled messages are found in the order of their numbers.
ASSUME ItemsAssumption == Items \subseteq Nat /\ Items # {} /\ Emails \subseteq Items /\ MaxDied \in Nat

\* Letters are numbered as their rows are.
ASSUME EventsAssumption ==
    /\ Cardinality(Letters) \in Nat /\ Letters = 1..Cardinality(Letters)
    /\ Eventful \subseteq Letters

ASSUME WatchAssumption == IsFiniteSet(Reports \union Sweeps) /\ MaxFails \in Nat

\* No sender is nobody.
ASSUME SendersAssumption ==
    /\ IsFiniteSet(Phones) /\ IsFiniteSet(Accounts \union Boxes)
    /\ "nobody" \notin Accounts \union Boxes

\* An invoice is of some amount, one of which is the greatest.
ASSUME InvoiceAssumption ==
    /\ IsFiniteSet(Refs) /\ Refs # {}
    /\ Totals \subseteq Nat \ {0} /\ \E t \in Totals : \A u \in Totals : u <= t

ASSUME RulesAssumption == K \in Nat \ {0} /\ RuleLimit \in Nat /\ MaxLost \in Nat

\* A task that an operator writes has no step of the chain.
ASSUME StepsAssumption ==
    /\ Steps \in Nat /\ MaxDeaths \in Nat
    /\ IsFiniteSet(ByHand) /\ ByHand \intersect ((1..Steps) \X Leads) = {}

ASSUME MeetingAssumption == W \in Nat /\ MaxMoved \in Nat /\ MaxFailed \in Nat

\* A pass is shorter than the time in which somebody counts as about.
ASSUME PacingAssumption ==
    /\ {Interval, IdleInterval, ActiveWindow, MaxPass} \subseteq Nat
    /\ Interval <= IdleInterval /\ MaxPass < ActiveWindow
    /\ Delays \subseteq 0..(IdleInterval + 1)

Reminders == INSTANCE FollowUpRules
Ads == INSTANCE AdsFollowUps
Scheduled == INSTANCE ScheduledMessages
Agent == INSTANCE AgentCards
Invoice == INSTANCE InvoicePayments
Meeting == INSTANCE MeetingReminders
Sender == INSTANCE SenderFailover
Mail == INSTANCE EmailEvents
Import == INSTANCE ContactImports
Watch == INSTANCE BounceWatch
Pacing == INSTANCE PollPacing

rvars == <<rcamp, rmsg, rdue, rout, rclosed, rlog, rsw, rgone, rlost>>
fvars == <<ftask, fdue, fheld, fout, flive, fpass, fmsg, fdied>>
svars == <<sitem, skey, spoll, sgone, sdied, sreq, stwo, slost>>
avars == <<acard, aturn, areq, aran, aundone, ashown, adrop, aover>>
ivars == <<iinv, irow, itaken, ireq, inote, iover>>
mvars == <<mstate, mtime, mmoved, mdone, mpass, mform, mgone, mtold, mfailed, mraced>>
dvars == <<dmsg, dset, dphone, dedits, dplan, dtried, dtaken, dlost, dphase>>
evars == <<eletter, eknown, ehappened, ehook, erows, ecount, esup, easked, esess, esilent, ebad, eraced>>
xvars == <<xfile, xjob, xcrm, xlist, xcount, xwork, xedits, xraced>>
pvars == <<ploop, pwake, psince, plast, pjob, pdb, pseen, pwait, pasked>>
nvars == <<ncamp, nalerts, nsub, nw, nundone, nlost, nover, nleft>>
hvars == <<dvars, evars, xvars, pvars>>
ovars == <<wvars, lvars, nvars>>
vars == <<part, vvars, rvars, fvars, svars, gvars, avars, ivars, mvars, bvars, tvars, hvars, ovars>>

Parts == {"verification", "rules", "ads", "scheduled", "guard", "agent", "invoice", "edits",
          "meeting", "mailbox", "texts", "sender", "events", "imports", "pacing",
          "window", "bounces", "threads"}

Init ==
    /\ part \in Parts
    /\ VInit /\ Reminders!RInit /\ Ads!FInit /\ Scheduled!SInit
    /\ Agent!AInit /\ Meeting!MInit /\ BInit /\ TInit /\ Mail!EInit /\ Pacing!PInit
    /\ GInit /\ (part # "guard" => gkind = CHOOSE k \in Operations : TRUE)
    /\ Invoice!IInit
    /\ part # "edits" => iinv.total = CHOOSE t \in Totals : \A u \in Totals : u <= t
    /\ Watch!NInit /\ (part # "bounces" => nsub = 0)
    /\ LInit /\ (part # "threads" => lrow = Missing)
    /\ WInit
    /\ part # "window" => wset = [start |-> Unset, end |-> Unset, weekends |-> TRUE]
    /\ Import!XInit
    /\ part # "imports" => xfile.skip /\ xcrm = <<>> /\ \A i \in 1..Rows : xfile.rows[i] = [phone |-> 0, email |-> 0]
    /\ Sender!DInit
    /\ part # "sender" => dmsg = Sender!Text(0) /\ dset.mode = "failover" /\ ~dset.primary /\ ~dset.other

\* A step of one part; its own variables are Mine.
In(p) == part = p /\ UNCHANGED part
Mine ==
    CASE part = "verification" -> vvars
      [] part = "rules" -> rvars
      [] part = "ads" -> fvars
      [] part = "scheduled" -> svars
      [] part = "agent" -> avars
      [] part \in {"invoice", "edits"} -> ivars
      [] part = "meeting" -> mvars
      [] part = "mailbox" -> bvars
      [] part = "texts" -> tvars
      [] part = "events" -> evars
      [] part = "pacing" -> pvars
      [] part = "window" -> wvars
      [] part = "bounces" -> nvars
      [] part = "threads" -> lvars
      [] OTHER -> <<gvars, dvars, xvars>>

Next ==
    \/ /\ In("verification") /\ VNext
       /\ UNCHANGED <<rvars, fvars, svars, gvars, avars, ivars, mvars, bvars, tvars, hvars, ovars>>
    \/ /\ In("rules") /\ Reminders!RNext
       /\ UNCHANGED <<vvars, fvars, svars, gvars, avars, ivars, mvars, bvars, tvars, hvars, ovars>>
    \/ /\ In("ads") /\ Ads!FNext
       /\ UNCHANGED <<vvars, rvars, svars, gvars, avars, ivars, mvars, bvars, tvars, hvars, ovars>>
    \/ /\ In("scheduled") /\ Scheduled!SNext
       /\ UNCHANGED <<vvars, rvars, fvars, gvars, avars, ivars, mvars, bvars, tvars, hvars, ovars>>
    \/ /\ In("guard") /\ GNext
       /\ UNCHANGED <<vvars, rvars, fvars, svars, avars, ivars, mvars, bvars, tvars, hvars, ovars>>
    \/ /\ In("agent") /\ Agent!ANext
       /\ UNCHANGED <<vvars, rvars, fvars, svars, gvars, ivars, mvars, bvars, tvars, hvars, ovars>>
    \/ /\ In("invoice") /\ Invoice!INext
       /\ Invoice!Send \/ ~(Invoice!Edit \/ Invoice!Void)
       /\ UNCHANGED <<vvars, rvars, fvars, svars, gvars, avars, mvars, bvars, tvars, hvars, ovars>>
    \/ /\ In("edits") /\ Invoice!INext
       /\ ~iover'
       /\ UNCHANGED <<vvars, rvars, fvars, svars, gvars, avars, mvars, bvars, tvars, hvars, ovars>>
    \/ /\ In("meeting") /\ Meeting!MNext
       /\ UNCHANGED <<vvars, rvars, fvars, svars, gvars, avars, ivars, bvars, tvars, hvars, ovars>>
    \/ /\ In("mailbox") /\ BNext
       /\ UNCHANGED <<vvars, rvars, fvars, svars, gvars, avars, ivars, mvars, tvars, hvars, ovars>>
    \/ /\ In("texts") /\ TNext
       /\ UNCHANGED <<vvars, rvars, fvars, svars, gvars, avars, ivars, mvars, bvars, dvars, evars, xvars, pvars, ovars>>
    \/ /\ In("sender") /\ Sender!DNext
       /\ UNCHANGED <<vvars, rvars, fvars, svars, gvars, avars, ivars, mvars, bvars, tvars, evars, xvars, pvars, ovars>>
    \/ /\ In("events") /\ Mail!ENext
       /\ UNCHANGED <<vvars, rvars, fvars, svars, gvars, avars, ivars, mvars, bvars, tvars, dvars, xvars, pvars, ovars>>
    \/ /\ In("imports") /\ Import!XNext
       /\ UNCHANGED <<vvars, rvars, fvars, svars, gvars, avars, ivars, mvars, bvars, tvars, dvars, evars, pvars, ovars>>
    \/ /\ In("pacing") /\ Pacing!PNext
       /\ UNCHANGED <<vvars, rvars, fvars, svars, gvars, avars, ivars, mvars, bvars, tvars, dvars, evars, xvars, ovars>>
    \/ /\ In("window") /\ WNext
       /\ UNCHANGED <<vvars, rvars, fvars, svars, gvars, avars, ivars, mvars, bvars, tvars, hvars, lvars, nvars>>
    \/ /\ In("bounces") /\ Watch!NNext
       /\ UNCHANGED <<vvars, rvars, fvars, svars, gvars, avars, ivars, mvars, bvars, tvars, hvars, wvars, lvars>>
    \/ /\ In("threads") /\ LNext
       /\ UNCHANGED <<vvars, rvars, fvars, svars, gvars, avars, ivars, mvars, bvars, tvars, hvars, wvars, nvars>>

\* Tasks that were begun go on; the periodic passes are begun again.  What
\* may be kept from happening for a time only (a sweep by another one, a task
\* by a pause) has strong fairness.  As a behaviour is one of a single part,
\* what is assumed of the k-th actor, or the k-th task, of each part is one
\* disjunction; Line puts the actors and tasks in an order.
Line ==
    [runners |-> SetToSeq(Runners), sweepers |-> SetToSeq(Sweepers), passes |-> SetToSeq(Passes),
     pollers |-> SetToSeq(Pollers), turns |-> SetToSeq(Turns), readers |-> SetToSeq(Readers),
     handlers |-> SetToSeq(Handlers), polls |-> SetToSeq(Polls), texts |-> SetToSeq(Texts),
     hooks |-> SetToSeq(Hooks), people |-> SetToSeq(People), tasks |-> SetToSeq(Ads!Chain \X Leads),
     reminders |-> SetToSeq(Sweepers \X People), steps |-> SetToSeq(Passes \X (Ads!Chain \X Leads)),
     items |-> SetToSeq(Items), windows |-> SetToSeq(Meeting!Window), replies |-> SetToSeq(Replies),
     letters |-> SetToSeq(Letters),
     checks |-> SetToSeq(Watch!Checks), writers |-> SetToSeq(Writers)]
Nth(f, k) == IF k \in DOMAIN Line[f] THEN {Line[f][k]} ELSE {}
Widest(F) == Max({1} \union {Len(Line[f]) : f \in F})

GoesOn(k) ==
    \/ In("verification") /\ \E r \in Nth("runners", k) : RunStep(r)
    \/ In("rules") /\ \E s \in Nth("sweepers", k) : Reminders!SweepStep(s)
    \/ In("ads") /\ \E p \in Nth("passes", k) : Ads!PassStep(p)
    \/ In("scheduled") /\ \E p \in Nth("pollers", k) : Scheduled!PassStep(p)
    \/ In("agent") /\ \E t \in Nth("turns", k) : Agent!TurnStep(t)
    \/ In("meeting") /\ k = 1 /\ Meeting!PassStep
    \/ In("mailbox") /\ \E b \in Nth("readers", k) : PassStep(b)
    \/ In("texts") /\ \E h \in Nth("handlers", k) : HandlerStep(h)
    \/ In("events") /\ \E p \in Nth("polls", k) : Mail!PassStep(p)
    \/ In("pacing") /\ k = 1 /\ Pacing!LoopStep
    \/ In("window") /\ k = 1 /\ (Tick \/ AsksGate)
    \/ In("bounces") /\ \E c \in Nth("checks", k) : Watch!CheckStep(c)
    \/ In("threads") /\ \E s \in Nth("writers", k) : Closes(s) \/ Drops(s) \/ Withdraws(s)

IsBegun(k) ==
    \/ In("verification") /\ k = 1 /\ \E r \in Runners : Begin(r)
    \/ In("scheduled") /\ k = 1 /\ \E p \in Pollers : Scheduled!Open(p)
    \/ In("texts") /\ \E x \in Nth("texts", k), h \in Handlers : Deliver(h, x)
    \/ In("events") /\ \E h \in Nth("hooks", k) : Mail!Commit(h)
    \/ In("bounces") /\ k = 1 /\ \E c \in Sweeps : Watch!StartCheck(c)
    \/ In("pacing") /\ k = 1 /\ Pacing!Clock

ComesBack(k) ==
    \/ In("rules") /\ \E s \in Nth("sweepers", k) : Reminders!SweepBegins(s)
    \/ In("ads") /\ \E p \in Nth("passes", k) : Ads!Sweep(p)
    \/ In("events") /\ \E p \in Nth("polls", k) : Mail!Ask(p)
    \/ In("threads") /\ k = 1 /\ \E s \in Writers : Opens(s)

Reaches(k) ==
    \/ In("rules") /\ \E q \in Nth("reminders", k) : Reminders!Handles(q[1], q[2])
    \/ In("ads") /\ \E q \in Nth("steps", k) : Ads!Handle(q[1], q[2])

Fairness ==
    /\ \A k \in 1..Widest({"runners", "sweepers", "passes", "pollers", "turns", "readers",
                           "handlers", "polls", "checks", "writers"}) : WF_Mine(GoesOn(k))
    /\ \A k \in 1..Widest({"texts", "hooks"}) : WF_Mine(IsBegun(k))
    /\ \A k \in 1..Widest({"sweepers", "passes", "polls"}) : SF_Mine(ComesBack(k))
    /\ \A k \in 1..Widest({"reminders", "steps"}) : SF_Mine(Reaches(k))
    /\ WF_Mine(In("events") /\ Mail!Recheck)

Spec == Init /\ [][Next]_vars /\ Fairness

-----------------------------------------------------------------------------
(* Properties of more than one part; the others are stated in their modules *)

\* A contact of a chain gets each of its reminders or steps once, in order.
ChainsHold == Reminders!RemindersHold /\ Ads!StepsHold

\* The inbox of mails and of texts: one automatic reply in the cooldown, one
\* reply counted, and as many texts unread as came since the operator looked.
InboxHolds == BTypeOK /\ MailAnsweredOnce /\ TTypeOK /\ RepliesOnce /\ UnreadCounts
              /\ TouchesHold

\* A scheduled message goes out once, a meeting's reminder once for each of
\* its times, and the poller comes in time for what is asked of it.
TimesKept == Scheduled!ItemsOnce /\ Meeting!RemindersOnce /\ Pacing!PassesInTime /\ WindowUsed

CardsHold == Agent!CardsHold
InvoiceHolds == Invoice!InvoiceHolds
SenderHolds == Sender!SenderHolds
EventsHold == Mail!EventsHold /\ Watch!AlertsHold
ImportsHold == Import!ImportsHold

\* The liveness properties of the parts, said at once: the leads-to of a part
\* is about the k-th of its tasks, items, turns, windows, replies or texts.
Most == Widest({"people", "tasks", "items", "turns", "windows", "replies", "letters", "texts"})

Owed(k) ==
    \/ part = "verification" /\ VOwes
    \/ part = "rules" /\ \E c \in Nth("people", k) : Reminders!Owes(c)
    \/ part = "ads" /\ \E t \in Nth("tasks", k) : Ads!Owes(t)
    \/ part = "scheduled" /\ \E i \in Nth("items", k) : Scheduled!Owes(i)
    \/ part = "agent" /\ \E t \in Nth("turns", k) : Agent!Owes(t)
    \/ part = "meeting" /\ \E w \in Nth("windows", k) : Meeting!Owes(w)
    \/ part = "mailbox" /\ \E m \in Nth("replies", k) : BOwes(m)
    \/ part = "events" /\ \E l \in Nth("letters", k) : Mail!Owes(l)
    \/ part = "texts" /\ \E x \in Nth("texts", k) : ~TPays(x)
    \/ part = "pacing" /\ Pacing!POwes
    \/ part = "window" /\ WOwes
    \/ part = "bounces" /\ Watch!NOwes
    \/ part = "threads" /\ LOwes

Paid(k) ==
    \/ part = "verification" /\ ~VOwes
    \/ part = "rules" /\ \E c \in Nth("people", k) : Reminders!Pays(c)
    \/ part = "ads" /\ \E t \in Nth("tasks", k) : Ads!Pays(t)
    \/ part = "scheduled" /\ \E i \in Nth("items", k) : ~Scheduled!Owes(i)
    \/ part = "agent" /\ \E t \in Nth("turns", k) : Agent!Pays(t)
    \/ part = "meeting" /\ \E w \in Nth("windows", k) : Meeting!Pays(w)
    \/ part = "mailbox" /\ \E m \in Nth("replies", k) : BPays(m)
    \/ part = "events" /\ \E l \in Nth("letters", k) : Mail!Pays(l)
    \/ part = "texts" /\ \E x \in Nth("texts", k) : TPays(x)
    \/ part = "pacing" /\ Pacing!PPays
    \/ part = "window" /\ WPays
    \/ part = "bounces" /\ Watch!NPays
    \/ part = "threads" /\ LPays

\* What a service has taken on it brings to an end, and a verification job
\* only when it has gone over all of its snapshot.
WorkEnds == ProgressKept /\ \A k \in 1..Most : Owed(k) ~> Paid(k)
=============================================================================
