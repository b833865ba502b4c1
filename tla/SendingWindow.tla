----------------------------- MODULE SendingWindow -----------------------------
(***************************************************************************)
(* The hours in which a campaign sends, and a message of it that the gate  *)
(* defers to the next window.  Time is the local time of a week, in ticks; *)
(* days 5 and 6 are the weekend.  Changes of the clock (daylight saving)   *)
(* are left out.                                                           *)
(***************************************************************************)
EXTENDS Naturals

CONSTANTS
    Hours,      \* hours of a day
    HourTicks,  \* ticks of an hour
    WaitUnit,   \* ticks of a second: a wait is a whole number of them
    MinWait     \* the shortest wait, 5 seconds

ASSUME TimesAssumption ==
    /\ {Hours, HourTicks, WaitUnit, MinWait} \subseteq Nat \ {0}
    /\ WaitUnit <= MinWait /\ MinWait <= HourTicks

VARIABLES
    wnow,     \* the time of the week
    wset,     \* the campaign's settings
    wmsg,     \* the message
    wmissed   \* ghost: ticks within a window that it has been made to wait

wvars == <<wnow, wset, wmsg, wmissed>>

DayTicks == Hours * HourTicks
Week == 7 * DayTicks
Unset == Hours  \* no hour is set
SettingType == [start : 0..Hours, end : 0..Hours, weekends : BOOLEAN]
NoMessage == [at |-> "none", left |-> 0, edited |-> FALSE]

WInit ==
    /\ wnow = 0
    /\ wset \in SettingType
    /\ wmsg = NoMessage /\ wmissed = 0

-----------------------------------------------------------------------------
(* The gate *)

HasWindow(s) == s.start # Unset /\ s.end # Unset /\ s.start # s.end
Overnight(s) == HasWindow(s) /\ s.start > s.end
DayAllowed(s, t) == s.weekends \/ (t \div DayTicks) % 7 < 5

\* The hour with its minutes, against whole hours; an overnight window is the
\* end of a day and the beginning of the same one.
Inside(s, t) ==
    LET time == t % DayTicks
        from == s.start * HourTicks
        to == s.end * HourTicks IN
    IF from < to THEN from <= time /\ time < to ELSE time >= from \/ time < to

\* _window_state
WindowOpen(s, t) == DayAllowed(s, t) /\ (HasWindow(s) => Inside(s, t))

\* Mutant: the days are taken from tomorrow on.
NextWindowTomorrow(s, t) ==
    LET hour == IF HasWindow(s) THEN s.start * HourTicks ELSE 0
        later == {u \in {(t \div DayTicks + d) * DayTicks + hour : d \in 1..8} :
                    DayAllowed(s, u) /\ u > t} IN
    CHOOSE u \in later : \A o \in later : u <= o

\* _next_window: the first start from today on, on a day that is allowed
NextWindow(s, t) ==
    LET hour == IF HasWindow(s) THEN s.start * HourTicks ELSE 0
        later == {u \in {(t \div DayTicks + d) * DayTicks + hour : d \in 0..8} :
                    DayAllowed(s, u) /\ u > t} IN
    CHOOSE u \in later : \A o \in later : u <= o

\* The wait until then, cut to whole seconds and not below the shortest
WaitUntil(u, t) ==
    LET cut == ((u - t) \div WaitUnit) * WaitUnit IN
    IF cut < MinWait THEN MinWait ELSE cut

-----------------------------------------------------------------------------
(* Steps *)

\* The batch makes a message, at any time.
Made ==
    /\ wmsg.at \in {"none", "sent"}
    /\ wmsg' = [NoMessage EXCEPT !.at = "due"]
    /\ wmissed' = 0
    /\ UNCHANGED <<wnow, wset>>

\* A worker takes the message and asks the gate: it sends, or defers.
AsksGate ==
    /\ wmsg.at = "due"
    /\ wmsg' = IF WindowOpen(wset, wnow)
               THEN [wmsg EXCEPT !.at = "sent", !.left = 0]
               ELSE [wmsg EXCEPT !.at = "waits",
                                 !.left = WaitUntil(NextWindow(wset, wnow), wnow)]
    /\ UNCHANGED <<wnow, wset, wmissed>>

\* The settings are edited once while a message waits; its time stays.
EditWindow ==
    /\ wmsg.at = "waits" /\ ~wmsg.edited
    /\ wset' \in SettingType
    /\ wmsg' = [wmsg EXCEPT !.edited = TRUE]
    /\ wmissed' = 0
    /\ UNCHANGED wnow

\* Time passes.  What is due is asked about before that.
Tick ==
    /\ wmsg.at # "due"
    /\ wnow' = (wnow + 1) % Week
    /\ wmsg' = CASE wmsg.at # "waits" -> wmsg
                 [] wmsg.at = "waits" /\ wmsg.left > 1 -> [wmsg EXCEPT !.left = @ - 1]
                 [] OTHER -> [wmsg EXCEPT !.at = "due", !.left = 0]
    /\ wmissed' = IF wmsg.at = "waits" /\ ~wmsg.edited /\ WindowOpen(wset, wnow)
                  THEN wmissed + 1 ELSE wmissed
    /\ UNCHANGED wset

WNext == Made \/ AsksGate \/ EditWindow \/ Tick

-----------------------------------------------------------------------------
(* Properties *)

\* A message that is deferred is asked about again when the next window opens,
\* or less than the shortest wait after it: no window goes by meanwhile.  The
\* exception is an overnight window of a campaign that rests at weekends, of
\* which the hours on Monday morning are passed over.  (_next_window, check)
WindowUsed ==
    wmissed < MinWait + (IF Overnight(wset) /\ ~wset.weekends THEN wset.end * HourTicks ELSE 0)

\* A message that waits is sent, whatever the hours are edited to.
WOwes == wmsg.at = "waits"
WPays == wmsg.at = "sent"
=============================================================================
