--------------------------- MODULE MCSequenceRun ---------------------------
(* SequenceRun for TLC. *)
EXTENDS SequenceRun, TLC

CONSTANTS w1, w2

Step(type)         == [type |-> type, yes |-> 0, no |-> 0]
Condition(yes, no) == [type |-> "condition", yes |-> yes, no |-> no]

TwoMessages == <<Step("send"), Step("wait"), Step("send")>>
WaitFirst   == <<Step("wait"), Step("send"), Step("wait"), Step("send")>>
\* A message, a wait, a second message if the condition says so, a third.
WaitAndBranch ==
    <<Step("send"), Step("wait"), Condition(4, 5), Step("send"), Step("send")>>

Symmetry == Permutations(Workers)
=============================================================================
