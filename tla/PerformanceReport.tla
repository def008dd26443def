------------------------- MODULE PerformanceReport -------------------------
(* The performance evidence of M4: m4-benchmark and m4-memory-profile each *)
(* write what they measured, m4-performance-report reads both and the      *)
(* thresholds and writes a report as JSON and as Markdown.  The commands   *)
(* are run by hand, in any order, as the code goes from commit to commit;  *)
(* only the files carry anything from one to the next.                     *)
(* A terminal of the memory profile is counted in rows, as in PublicReplay.*)
EXTENDS PublicReplay

CONSTANTS
    Operations,       \* the benchmarks: M4BenchmarkOperation
    Times,            \* the nanoseconds an iteration may take
    Scenarios,        \* the logical lines of the memory profile's scenarios
    TimeoutEvery,     \* lines between two looks at the clock (2048)
    ProfileRows,      \* M4_ROWS
    ProfileBudget,    \* the scrollback the profile asks for
    ThresholdFiles,   \* what the maintainer may have written
    MaxCommands       \* a bound: commands in a behaviour

(* A threshold states a maximum or does not.                               *)
ThresholdsTyped(list) ==
    /\ list \in Seq(Range(list))
    /\ \A threshold \in Range(list) :
         /\ threshold.unstable \in BOOLEAN /\ threshold.hardGate \in BOOLEAN
         /\ \A field \in {"nanos", "bytes"} :
              threshold[field] \subseteq Nat
                /\ \A max, other \in threshold[field] : max = other

ASSUME PerformanceAssumption ==
    /\ MaxCommands \in Nat
    /\ \A list \in ThresholdFiles : ThresholdsTyped(list)
    /\ Times \subseteq Nat /\ Scenarios \subseteq Nat
    /\ TimeoutEvery \in Nat \ {0} /\ ProfileRows \in Nat \ {0} /\ ProfileBudget \in Nat

VARIABLES
    commit,        \* what is checked out: 1, 2
    thresholds,    \* m4-performance-thresholds.json: a sequence
    benchmark,     \* m4-benchmark-summary.json
    profile,       \* m4-memory-profile.json
    report,        \* m4-performance-report.json
    markdown,      \* docs/m4-benchmarks-and-memory.md
    exitCode,      \* of the last command: none, 0, 1
    commands       \* commands run

performanceVars ==
    <<commit, thresholds, benchmark, profile, report, markdown, exitCode, commands>>

NothingWritten == [kind |-> "nothing"]
BrokenFile == [kind |-> "broken"]

Gaps == {"blocked", "partial"}
PerformanceStatuses == {"pass", "fail", "baseline_created", "unstable_excluded"} \cup Gaps

(* Mutation: a metric within its threshold hides a gap of another.         *)
RollupPassFirst(statuses) ==
    CASE statuses = {} \/ "fail" \in statuses -> "fail"
      [] "fail" \notin statuses /\ "pass" \in statuses -> "pass"
      [] "pass" \notin statuses /\ statuses \cap Gaps # {} -> "partial"
      [] OTHER -> "baseline_created"

(* m4_rollup_status: nothing is a failure.                                 *)
RollupStatus(statuses) ==
    CASE statuses = {} \/ "fail" \in statuses -> "fail"
      [] "fail" \notin statuses /\ statuses \cap Gaps # {} -> "partial"
      [] statuses \cap ({"fail"} \cup Gaps) = {} /\ "baseline_created" \in statuses ->
           "baseline_created"
      [] statuses \subseteq {"pass", "unstable_excluded"} /\ "pass" \in statuses -> "pass"
      [] statuses = {"unstable_excluded"} -> "unstable_excluded"

StatusesOf(results) == {results[id].status : id \in DOMAIN results}

-----------------------------------------------------------------------------
(* Measuring.                                                              *)

(* timed_measurement: one bad iteration fails the measurement.             *)
Measurement(ok, nanos) ==
    [nanos |-> nanos, status |-> IF ok THEN "baseline_created" ELSE "fail"]

(* run_memory_scenario: the clock is looked at every TimeoutEvery lines.   *)
StopsAt(lines) == {lines} \cup {n \in 1..lines : n % TimeoutEvery = 0}

Scenario(lines, processed, blocked) ==
    LET terminal == Feed(Rows(ProfileRows, ProfileBudget), processed) IN
    [processed |-> processed, bytes |-> terminal.history,
     status |-> CASE blocked -> "blocked"
                  [] ~blocked /\ terminal.history > ProfileBudget -> "fail"
                  [] OTHER -> "pass"]

ScenarioRuns(lines) ==
    {Scenario(lines, lines, FALSE)}
      \cup {Scenario(lines, n, TRUE) : n \in {k \in StopsAt(lines) : k % TimeoutEvery = 0}}

BenchmarkRuns ==
    {<<>>} \cup [Operations -> {Measurement(ok, nanos) : ok \in BOOLEAN, nanos \in Times}]

ProfileRuns ==
    {runs \in [Scenarios -> UNION {ScenarioRuns(lines) : lines \in Scenarios}] :
        \A lines \in Scenarios : runs[lines] \in ScenarioRuns(lines)}

Evidence(kind, results) ==
    [kind |-> kind, commit |-> commit, results |-> results,
     status |-> RollupStatus(StatusesOf(results))]

-----------------------------------------------------------------------------
(* Evaluating.                                                             *)

(* threshold_for: the place of the first that names the metric, or 0.      *)
ThresholdFor(list, metric) == SelectInSeq(list, LAMBDA t : t.metric = metric)

Carried == {"fail"} \cup Gaps

(* evaluate_nanos and evaluate_bytes, once a threshold has a maximum.      *)
Compare(observed, max, hardGate) ==
    CASE observed <= max -> "pass"
      [] observed > max  -> IF hardGate THEN "fail" ELSE "partial"

EvaluateNanos(list, metric, result) ==
    LET found == ThresholdFor(list, metric) IN
    CASE result.status \in Carried -> result.status
      [] result.status \notin Carried /\ found = 0 -> "baseline_created"
      [] OTHER ->
           IF list[found].unstable THEN "unstable_excluded"
           ELSE IF list[found].nanos = {} THEN "baseline_created"
           ELSE Compare(result.nanos, CHOOSE max \in list[found].nanos : TRUE, list[found].hardGate)

(* The flag unstable is not looked at here.                                *)
EvaluateBytes(list, metric, result) ==
    LET found == ThresholdFor(list, metric) IN
    CASE result.status \in Carried -> result.status
      [] result.status \notin Carried /\ (found = 0 \/ list[found].bytes = {}) ->
           "baseline_created"
      [] OTHER ->
           Compare(result.bytes, CHOOSE max \in list[found].bytes : TRUE, list[found].hardGate)

(* source_status_evaluation: evidence of nothing, or failed, says so.      *)
SourceStatus(evidence_) ==
    IF evidence_.results = <<>> \/ evidence_.status = "fail" THEN {evidence_.status} ELSE {}

Evaluations(list, bench, memory) ==
    {EvaluateNanos(list, id, bench.results[id]) : id \in DOMAIN bench.results}
      \cup SourceStatus(bench)
      \cup {EvaluateBytes(list, id, memory.results[id]) : id \in DOMAIN memory.results}
      \cup SourceStatus(memory)

(* What a report was made from is a ghost: it names only the files.        *)
ReportOn(list, bench, memory) ==
    [kind |-> "report", status |-> RollupStatus(Evaluations(list, bench, memory)),
     thresholds |-> list, benchmark |-> bench, profile |-> memory]

-----------------------------------------------------------------------------
(* The commands.                                                           *)

PerformanceInit ==
    /\ commit = 1 /\ thresholds \in ThresholdFiles
    /\ benchmark = NothingWritten /\ profile = NothingWritten /\ report = NothingWritten /\ markdown = NothingWritten
    /\ exitCode = "none" /\ commands = 0

RunCommand == commands < MaxCommands /\ commands' = commands + 1

CodeOf(status) == IF status = "fail" THEN "1" ELSE "0"

(* A file that could not be written is as it was, or broken.               *)
NotWritten(before) == {before, BrokenFile}

Benchmark ==
    /\ RunCommand
    /\ \E results \in BenchmarkRuns :
         LET evidence_ == Evidence("benchmark", results) IN
         \/ benchmark' = evidence_ /\ exitCode' = CodeOf(evidence_.status)
         \/ benchmark' \in NotWritten(benchmark) /\ exitCode' = "1"
    /\ UNCHANGED <<commit, thresholds, profile, report, markdown>>

MemoryProfile ==
    /\ RunCommand
    /\ \E results \in ProfileRuns :
         LET evidence_ == Evidence("profile", results) IN
         \/ profile' = evidence_ /\ exitCode' = CodeOf(evidence_.status)
         \/ profile' \in NotWritten(profile) /\ exitCode' = "1"
    /\ UNCHANGED <<commit, thresholds, benchmark, report, markdown>>

BothReadable == benchmark.kind = "benchmark" /\ profile.kind = "profile"

(* The JSON is written before the Markdown, and either may fail.           *)
PerformanceReportCommand ==
    /\ RunCommand
    /\ LET made == ReportOn(thresholds, benchmark, profile) IN
       \/ /\ ~BothReadable /\ exitCode' = "1" /\ UNCHANGED <<report, markdown>>
       \/ /\ BothReadable
          /\ \/ report' = made /\ markdown' = made /\ exitCode' = CodeOf(made.status)
             \/ report' = made /\ markdown' \in NotWritten(markdown) /\ exitCode' = "1"
             \/ report' \in NotWritten(report) /\ exitCode' = "1" /\ UNCHANGED markdown
    /\ UNCHANGED <<commit, thresholds, benchmark, profile>>

(* Someone checks out other code or edits the thresholds.                  *)
WorkGoesOn ==
    /\ commit = 1 /\ commit' = 2
    /\ thresholds' \in ThresholdFiles
    /\ UNCHANGED <<benchmark, profile, report, markdown, exitCode, commands>>

PerformanceNext ==
    Benchmark \/ MemoryProfile \/ PerformanceReportCommand \/ WorkGoesOn

PerformanceSpec == PerformanceInit /\ [][PerformanceNext]_performanceVars

-----------------------------------------------------------------------------
(* Properties.                                                             *)

PerformanceTypeOK ==
    /\ commit \in 1..2 /\ thresholds \in ThresholdFiles
    /\ benchmark.kind \in {"nothing", "broken", "benchmark"}
    /\ profile.kind \in {"nothing", "broken", "profile"}
    /\ \A file \in {report, markdown} : file.kind \in {"nothing", "broken", "report"}
    /\ \A file \in {benchmark, profile, report} :
         file.kind \notin {"nothing", "broken"} => file.status \in PerformanceStatuses
    /\ exitCode \in {"none", "0", "1"} /\ commands \in 0..MaxCommands

(* What the first threshold for a metric states, excludes and allows.      *)
MaximaFor(list, metric, field) ==
    IF ThresholdFor(list, metric) = 0 THEN {} ELSE list[ThresholdFor(list, metric)][field]

Excludes(list, metric) ==
    ThresholdFor(list, metric) # 0 /\ list[ThresholdFor(list, metric)].unstable

Allows(list, metric, observed, field) ==
    /\ ThresholdFor(list, metric) # 0
    /\ \A max \in MaximaFor(list, metric, field) : observed <= max

(* A report that claims a pass rests on evidence in which every operation  *)
(* and every scenario ran to its end without failing, each under a         *)
(* threshold it does not exceed unless that excludes it, and at least one  *)
(* of them has a maximum.                                                  *)
PassIsMeasured ==
    report.kind = "report" /\ report.status = "pass" =>
        LET list == report.thresholds
            nanos == report.benchmark.results
            bytes == report.profile.results
        IN  /\ DOMAIN nanos = Operations /\ DOMAIN bytes = Scenarios
            /\ \A id \in Operations :
                 /\ nanos[id].status = "baseline_created"
                 /\ Allows(list, id, nanos[id].nanos, "nanos") \/ Excludes(list, id)
            /\ \A id \in Scenarios :
                 /\ bytes[id].processed = id /\ bytes[id].status = "pass"
                 /\ Allows(list, id, bytes[id].bytes, "bytes")
            /\ \/ \E id \in Operations : MaximaFor(list, id, "nanos") # {}
               \/ \E id \in Scenarios : MaximaFor(list, id, "bytes") # {}
=============================================================================
