---------------------------- MODULE MCSuperSteps -----------------------------
(***************************************************************************)
(* Small graphs for SuperSteps.                                            *)
(***************************************************************************)
EXTENDS SuperSteps, TLC

CONSTANTS state, extra  \* channels

On(n, goto, branch, sends, update) ==
    [node |-> n, goto |-> goto, branch |-> branch, sends |-> sends, update |-> update]
Plain(n) == On(n, NoGoto, <<>>, <<>>, TRUE)

\* A cyclic graph with every routing feature: START enters 2, or 2 and the
\* deferred 4; 2 routes to 1 and 3, may Send to 1 as well, or go to the deferred
\* 4 and 1 explicitly; 1 and 2 join at 3; 3 routes back to 1 or 2, and 4 to 1.
\* Node 1 is triggered by the extra channel; START never enters it.
CycleNodes == 1 .. 4
CycleStart == {<<2>>, <<2, 4>>}
CycleEdges == [n \in CycleNodes |->
    CASE n = 2 -> <<1, 3>> [] n = 1 -> <<4>> [] OTHER -> <<>>]
CycleJoins == << [sources |-> {1, 2}, target |-> 3] >>
CycleDeferred == {4}
CycleOutcomes ==
    (1 :> {Plain(1), On(1, NoGoto, <<>>, <<>>, FALSE)}) @@
    (2 :> {Plain(2), On(2, NoGoto, <<>>, <<1>>, FALSE), On(2, <<4, END, 1>>, <<>>, <<>>, TRUE)}) @@
    (3 :> {On(3, NoGoto, <<1>>, <<>>, TRUE), On(3, NoGoto, <<2>>, <<>>, TRUE)}) @@
    (4 :> {On(4, NoGoto, <<1>>, <<>>, TRUE)})
CycleChannels == {state, extra}
CycleReads == [n \in CycleNodes |-> IF n = 1 THEN {state, extra} ELSE {state}]
CycleTriggers == [n \in CycleNodes |-> IF n = 1 THEN {extra} ELSE {}]
=============================================================================
