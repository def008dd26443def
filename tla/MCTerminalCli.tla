--------------------------- MODULE MCTerminalCli ---------------------------
(* The parts of terminal-cli together, with the constants of each.         *)
EXTENDS MCRunRecording, MCFixtureReplay, MCPerformanceReport, MCDogfoodRecording,
        MCHostEvidence, MCReleaseEvidence, TerminalCli
=============================================================================
