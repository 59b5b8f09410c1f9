--------------------------- MODULE MCBeastExecutor --------------------------
(* Instances of BeastExecutor for TLC. *)
EXTENDS BeastExecutor

Request(version, connection, parses) ==
    [version |-> version, connection |-> connection, parses |-> parses]

\* Keeps the connection although its version would close it; cannot be parsed.
TwoRequests == {Request(10, "keep-alive", TRUE), Request(11, "none", FALSE)}
=============================================================================
