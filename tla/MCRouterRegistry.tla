-------------------------- MODULE MCRouterRegistry ---------------------------
(* RouterRegistry, RouterStrings and RequestText together for TLC: calls are  *)
(* made, or the texts of one of the other two grow.                           *)
EXTENDS RouterRegistry, RouterStrings, RequestText, TLC

CONSTANTS Get, Post, x, y, d1, d2

Symmetry == Permutations(Methods) \cup Permutations(Builders) \cup Permutations(Patterns)

NoPaths == pathVars = <<<< >>, << >>, << >>>>
NoText == textVars = <<<< >>, << >>>>

MCInit == Init /\ InitPaths /\ InitText

MCNext ==
    \/ NoPaths /\ NoText /\ Next /\ UNCHANGED <<pathVars, textVars>>
    \/ Init /\ NoText /\ Extend /\ UNCHANGED <<vars, textVars>>
    \/ Init /\ NoPaths /\ lines = << >> /\ GrowTarget /\ UNCHANGED <<vars, pathVars>>
    \/ Init /\ NoPaths /\ target = << >> /\ GrowLines /\ UNCHANGED <<vars, pathVars>>

MCSpec == MCInit /\ [][MCNext]_<<vars, pathVars, textVars>>
=============================================================================
