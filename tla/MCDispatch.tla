------------------------------ MODULE MCDispatch ----------------------------
(* Instances of Dispatch for TLC. *)
EXTENDS Dispatch

CONSTANTS root, sub, leaf

\* An application, a handler composed into it and one more level, reachable
\* directly and through the other.
Three == {<<root, sub>>, <<root, leaf>>, <<sub, leaf>>}

\* Two entries in the application, one in each of the others.
TwoAndOnes == [h \in Handlers |-> IF h = root THEN 2 ELSE 1]
=============================================================================
