----------------------------- MODULE MCWorkBoard -----------------------------
(* Instances of WorkBoard for TLC: every runner works for the agent a1. *)
EXTENDS WorkBoard, TLC

CONSTANTS a1

MCAgentOf == [r \in Runners |-> a1]

\* Requests are interchangeable, and so are the runners of one agent.
Interchangeable == Permutations(Requests) \cup Permutations(Runners)
=============================================================================
