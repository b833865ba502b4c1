-------------------------- MODULE OutboundMessage --------------------------
(***************************************************************************)
(* What the send pipeline promises about a campaign's messages, without    *)
(* workers, tasks, sweeps or retries.  A message waits; while the campaign *)
(* runs it may be cleared for sending; the provider takes it once or it    *)
(* ends.  What is taken or ended stays so.  A pause or a stop clears no    *)
(* more messages, and a stop ends some of those that wait.                 *)
(***************************************************************************)
CONSTANTS Messages

VARIABLES
    stage,   \* how far each message is
    run      \* the campaign's status

Stages == {"waiting", "cleared", "taken", "ended"}

Init == stage = [m \in Messages |-> "waiting"] /\ run = "running"

Moves(m, from, to) ==
    /\ stage[m] \in from
    /\ stage' = [stage EXCEPT ![m] = to]
    /\ UNCHANGED run

Clear(m)   == run = "running" /\ Moves(m, {"waiting"}, "cleared")
Release(m) == Moves(m, {"cleared"}, "waiting")
Take(m)    == Moves(m, {"cleared"}, "taken")
End(m)     == Moves(m, {"waiting", "cleared"}, "ended")

Pause  == run = "running" /\ run' = "paused" /\ UNCHANGED stage
Resume == run = "paused" /\ run' = "running" /\ UNCHANGED stage

Stop ==
    /\ run \in {"running", "paused"} /\ run' = "stopped"
    /\ \E S \in SUBSET {m \in Messages : stage[m] = "waiting"} :
         stage' = [m \in Messages |-> IF m \in S THEN "ended" ELSE stage[m]]

Next ==
    \/ \E m \in Messages : Clear(m) \/ Release(m) \/ Take(m) \/ End(m)
    \/ Pause \/ Resume \/ Stop

Spec == Init /\ [][Next]_<<stage, run>>
=============================================================================
