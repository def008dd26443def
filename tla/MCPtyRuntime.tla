---------------------------- MODULE MCPtyRuntime ----------------------------
(* Constants for model checking PtyRuntime on small sessions.              *)
EXTENDS PtyRuntime

SecondChunk == {2}
NoQueries   == {}
AllFaults   == FaultKinds
NoFaults    == {}
=============================================================================
