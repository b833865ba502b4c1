----------------------------- MODULE MCAdsJobs -----------------------------
(* AdsJobs for TLC. *)
EXTENDS AdsJobs, TLC

CONSTANTS a1, a2, s1, s2, w1, w2

\* Slices that follow one another, with a total limit or a drip of one; and
\* two sessions and two workers side by side; and bulk resumes.
Total == [total |-> 1, drip |-> 0, contacts |-> {a1, a2},
          sessions |-> {s1}, workers |-> {w1}, faults |-> TRUE,
          ops |-> {"launch", "pause", "resume", "retry", "optout"}]
Drip == [total |-> 0, drip |-> 1, contacts |-> {a1, a2},
         sessions |-> {s1}, workers |-> {w1}, faults |-> FALSE,
         ops |-> {"launch", "complete", "archive", "dispatch", "add"}]
Beside == [total |-> 0, drip |-> 0, contacts |-> {a1},
           sessions |-> {s1, s2}, workers |-> {w1, w2}, faults |-> FALSE,
           ops |-> {"launch", "dispatch"}]
Held == [total |-> 0, drip |-> 0, contacts |-> {a1},
         sessions |-> {s1}, workers |-> {w1}, faults |-> TRUE,
         ops |-> {"launch", "pause", "bulkresume"}]
Scenes == {Total, Drip, Beside, Held}
=============================================================================
