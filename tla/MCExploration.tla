----------------------------- MODULE MCExploration ------------------------------
(* Two threads that may meet more key points than under the default run. *)
EXTENDS Exploration, TLC

MCOutcomes == {<<1, 1>>, <<1, 2>>, <<2, 1>>}
MCDefault == <<1, 1>>
=============================================================================
