----------------------------- MODULE MCGameTopUp -----------------------------
(* The instance of GameTopUp for TLC, with three scenarios. *)
EXTENDS GameTopUp, TLC

\* Calls end in time, and the worker goes on.
Usual == [prompt |-> TRUE, steady |-> TRUE, final |-> FALSE]

\* Every process may stop anywhere.
Crashes == [prompt |-> TRUE, steady |-> FALSE, final |-> FALSE]

\* Claims go stale under calls that still run, and their answers come late.
LateAnswers == [prompt |-> FALSE, steady |-> FALSE, final |-> TRUE]

AllScenarios == {Usual, Crashes, LateAnswers}
==============================================================================
