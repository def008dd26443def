------------------------ MODULE MCPerformanceReport ------------------------
(* Constants for the TLC runs of PerformanceReport.                        *)
EXTENDS PerformanceReport, MCPublicReplay

Threshold(metric, hardGate, unstable, nanos, bytes) ==
    [metric |-> metric, hardGate |-> hardGate, unstable |-> unstable,
     nanos |-> nanos, bytes |-> bytes]

SomeOperations == {101, 102}
SomeTimes == {1, 3}
TwoScenarios == {4, 9}

AcceptedThresholds == <<Threshold(101, FALSE, FALSE, {2}, {}), Threshold(102, FALSE, TRUE, {}, {}),
              Threshold(4, TRUE, FALSE, {}, {4}), Threshold(9, TRUE, FALSE, {}, {4})>>
HandWrittenThresholds ==
    {AcceptedThresholds, <<>>, [AcceptedThresholds EXCEPT ![1].hardGate = TRUE],
     [AcceptedThresholds EXCEPT ![2].unstable = FALSE, ![2].nanos = {2}],
     [AcceptedThresholds EXCEPT ![4].bytes = {1}, ![4].hardGate = FALSE],
     <<Threshold(101, FALSE, FALSE, {0}, {})>> \o AcceptedThresholds}
=============================================================================
