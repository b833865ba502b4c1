--------------------------- MODULE MeetingReminders ---------------------------
(***************************************************************************)
(* The reminders of one meeting.  A pass of the poller loads the meeting   *)
(* and the reminders it has had, sends those whose windows are open, and   *)
(* commits at its end; an operator's form may move the meeting meanwhile.  *)
(* Time is the number of windows that are open.                            *)
(***************************************************************************)
EXTENDS Naturals, FiniteSets

CONSTANTS
    W,          \* windows are 1..W, the longest first
    Guests,     \* attendees
    Same,       \* may a form be saved with the start it had
    MaxMoved,   \* bound on saved forms
    MaxFailed   \* bound on reminders that raise, and passes that die

VARIABLES
    mstate,   \* "active" is scheduled and confirmed, "closed" any other status
    mtime,    \* windows open for the start it has; W + 1 when it has started
    mmoved,   \* forms saved so far
    mdone,    \* reminders_sent_json
    mpass,    \* the pass
    mform,    \* the form: what it has loaded
    mgone,    \* reminders of the present start
    mtold,    \* windows whose reminder was gone through for that start
    mfailed,  \* failures so far
    mraced    \* a form and a pass have overlapped

mvars == <<mstate, mtime, mmoved, mdone, mpass, mform, mgone, mtold, mfailed, mraced>>

Window == 1..W
PassType == [pc : {"idle", "open"}, moved : 0..MaxMoved, old : SUBSET Window,
             todo : SUBSET Window, left : SUBSET Guests, new : SUBSET Window]
IdlePass == [pc |-> "idle", moved |-> 0, old |-> {}, todo |-> {}, left |-> Guests, new |-> {}]
NoForm == [pc |-> "idle", done |-> {}]

MInit ==
    /\ mstate = "active" /\ mtime = 0 /\ mmoved = 0
    /\ mdone = {} /\ mtold = {}
    /\ mpass = IdlePass /\ mform = NoForm
    /\ mgone = [w \in Window |-> [g \in Guests |-> 0]]
    /\ mfailed = 0 /\ mraced = FALSE

Todo == {w \in Window \ mdone : w <= mtime}

SelectMeeting ==
    /\ mpass.pc = "idle"
    /\ mstate = "active" /\ mtime <= W /\ Todo # {}
    /\ mpass' = [IdlePass EXCEPT !.pc = "open", !.moved = mmoved, !.old = mdone, !.todo = Todo]
    /\ mraced' = (mraced \/ mform.pc # "idle")
    /\ UNCHANGED <<mstate, mtime, mmoved, mdone, mform, mgone, mtold, mfailed>>

Turn(w) == mpass.pc = "open" /\ w \in mpass.todo /\ \A v \in mpass.todo : w <= v

\* send_reminder, for an attendee; one who cannot be written to is skipped.
RemindGuest(w, g) ==
    /\ Turn(w) /\ g \in mpass.left
    /\ mpass' = [mpass EXCEPT !.left = @ \ {g}]
    /\ \/ UNCHANGED mgone
       \/ mgone' = IF mpass.moved = mmoved THEN [mgone EXCEPT ![w][g] = @ + 1] ELSE mgone
    /\ UNCHANGED <<mstate, mtime, mmoved, mdone, mform, mtold, mfailed, mraced>>

ReminderEnds(w) ==
    /\ Turn(w) /\ mpass.left = {}
    /\ mpass' = [mpass EXCEPT !.todo = @ \ {w}, !.new = @ \union {w}, !.left = Guests]
    /\ mtold' = IF mpass.moved = mmoved THEN mtold \union {w} ELSE mtold
    /\ UNCHANGED <<mstate, mtime, mmoved, mdone, mform, mgone, mfailed, mraced>>

\* An exception: the pass goes on with the next reminder.
ReminderRaises(w) ==
    /\ Turn(w) /\ mfailed < MaxFailed
    /\ mpass' = [mpass EXCEPT !.todo = @ \ {w}, !.left = Guests]
    /\ mfailed' = mfailed + 1
    /\ UNCHANGED <<mstate, mtime, mmoved, mdone, mform, mgone, mtold, mraced>>

\* The list is written as a whole, from what was loaded.
CommitPass ==
    /\ mpass.pc = "open" /\ mpass.todo = {}
    /\ mdone' = IF mpass.new = {} THEN mdone ELSE mpass.old \union mpass.new
    /\ mpass' = IdlePass
    /\ UNCHANGED <<mstate, mtime, mmoved, mform, mgone, mtold, mfailed, mraced>>

\* The process dies, or the commit fails: a meeting of the pass was deleted.
LosePass ==
    /\ mpass.pc = "open" /\ mfailed < MaxFailed
    /\ mpass' = IdlePass
    /\ mfailed' = mfailed + 1
    /\ UNCHANGED <<mstate, mtime, mmoved, mdone, mform, mgone, mtold, mraced>>

-----------------------------------------------------------------------------
(* The operator and the clock *)

LoadForm ==
    /\ mform.pc = "idle" /\ mmoved < MaxMoved
    /\ mform' = [pc |-> "open", done |-> mdone]
    /\ mraced' = (mraced \/ mpass.pc # "idle")
    /\ UNCHANGED <<mstate, mtime, mmoved, mdone, mpass, mgone, mtold, mfailed>>

Moved(t) ==
    /\ mmoved' = mmoved + 1
    /\ mtime' = t
    /\ mgone' = IF t = mtime THEN mgone ELSE [w \in Window |-> [g \in Guests |-> 0]]
    /\ mtold' = IF t = mtime THEN mtold ELSE {}
    /\ mform' = NoForm
    /\ UNCHANGED <<mstate, mpass, mfailed, mraced>>

\* update_meeting with a start: the list is emptied, which is written if it
\* was not empty when it was loaded.
SaveForm(t) ==
    /\ mform.pc = "open"
    /\ t \in 0..W /\ (Same \/ t # mtime)
    /\ Moved(t)
    /\ mdone' = IF mform.done = {} THEN mdone ELSE {}

\* confirm, complete, cancel, no-show, or a form without a start
SetStatus(st) ==
    /\ mstate' = st
    /\ UNCHANGED <<mtime, mmoved, mdone, mpass, mform, mgone, mtold, mfailed, mraced>>

Tick ==
    /\ mtime <= W
    /\ mtime' = mtime + 1
    /\ UNCHANGED <<mstate, mmoved, mdone, mpass, mform, mgone, mtold, mfailed, mraced>>

PassStep ==
    \/ SelectMeeting \/ CommitPass
    \/ \E w \in Window : ReminderEnds(w) \/ \E g \in Guests : RemindGuest(w, g)

MNext ==
    \/ PassStep \/ LosePass
    \/ \E w \in Window : ReminderRaises(w)
    \/ LoadForm \/ \E t \in 0..W : SaveForm(t)
    \/ \E st \in {"active", "closed"} : SetStatus(st)
    \/ Tick

MSpec == MInit /\ [][MNext]_mvars

-----------------------------------------------------------------------------
(* Properties *)

MTypeOK ==
    /\ mstate \in {"active", "closed"}
    /\ mtime \in 0..(W + 1) /\ mmoved \in 0..MaxMoved
    /\ mdone \subseteq Window /\ mtold \subseteq Window
    /\ mpass \in PassType
    /\ mform \in [pc : {"idle", "open"}, done : SUBSET Window]
    /\ mgone \in [Window -> [Guests -> Nat]]
    /\ mfailed \in 0..MaxFailed /\ mraced \in BOOLEAN

\* "Each (meeting, N) pair fires exactly once": nobody is reminded twice in a
\* window of one start, as long as nothing fails and forms are not saved
\* during a pass.
RemindedOnce ==
    mfailed = 0 /\ ~mraced => \A w \in Window, g \in Guests : mgone[w][g] <= 1

\* "A rescheduled meeting gets its reminders back": what is recorded as sent
\* was sent for the start the meeting has, unless a form was saved during a
\* pass.
RecordIsOfStart == ~mraced => mdone \subseteq mtold

\* The reminder of an open window goes out before the meeting starts, if that
\* is not at once, failures and restarts notwithstanding.
Owes(w) == mstate = "active" /\ mtime \in w..W /\ w \notin mdone
Pays(w) == w \in mdone \/ mtime \notin w..W \/ mstate = "closed"
WindowIsServed == \A w \in Window : Owes(w) ~> Pays(w)

\* A window reminds once, and its record is about the start the meeting has.
RemindersOnce == MTypeOK /\ RemindedOnce /\ RecordIsOfStart
=============================================================================
