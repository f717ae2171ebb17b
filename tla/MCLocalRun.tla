------------------------------ MODULE MCLocalRun ------------------------------
(* Two prompts: the first makes two tool calls, the second one. *)
EXTENDS LocalRun

MCRuns  == 1..2
MCCalls == 1..3
MCOwner == <<1, 1, 2>>
=============================================================================
