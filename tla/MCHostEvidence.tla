--------------------------- MODULE MCHostEvidence ---------------------------
(* Constants for the TLC runs of HostEvidence.                             *)
EXTENDS HostEvidence, FiniteSetsExt, SequencesExt

Clean ==
    [form |-> TRUE, run |-> "r1", authority |-> "hera_authoritative",
     fallbacks |-> 0, reason |-> FALSE, elapsed |-> None,
     accepted |-> 2, applied |-> 2, incomplete |-> FALSE, seconds |-> 2,
     dropped |-> 0, batches |-> 2, checkpoints |-> 1, equal |-> 1, p0 |-> 0,
     unsupported |-> 0, pending |-> 0, samples |-> 2, p95 |-> 1,
     baseline |-> 1, peak |-> 1, delta |-> 0]
Shadow    == [Clean EXCEPT !.authority = "alacritty", !.checkpoints = 0, !.equal = 0]
Brief     == [Clean EXCEPT !.seconds = 1, !.samples = 1, !.p95 = None]
Dropping  == [Clean EXCEPT !.dropped = 4, !.incomplete = TRUE, !.applied = 1]
FellBack  == [Shadow EXCEPT !.fallbacks = 1, !.reason = TRUE, !.elapsed = 1]
Slow      == [Clean EXCEPT !.p95 = 3]
Unsound   == [Clean EXCEPT !.p0 = 1]
Stray     == [Clean EXCEPT !.run = "r2"]
HostMetrics == {Clean, Shadow, Brief, Dropping, FellBack, Slow, Unsound, Stray}

ArtifactEntry(path, m) == [form |-> TRUE, path |-> path, digest |-> m, run |-> m.run, rev |-> 1]
ManifestOf(entries) == [form |-> TRUE, run |-> "r1", rev |-> 1, artifacts |-> entries]
TwoPanes(m, n) == ManifestOf(<<ArtifactEntry("p1", m), ArtifactEntry("p2", n)>>)
HostManifests ==
    {TwoPanes(Clean, m) : m \in HostMetrics}
      \cup {TwoPanes(Dropping, Dropping), ManifestOf(<<ArtifactEntry("p1", Clean)>>),
            ManifestOf(<<ArtifactEntry("p1", Clean), ArtifactEntry("link", Clean)>>)}
HostFiles  == {"f1", "f2"}
HostPaths  == {"p1", "p2", "link"}
HostTarget == [p \in HostPaths |-> IF p = "p2" THEN "f2" ELSE "f1"]

RanCommand(status) == [status |-> status, code |-> IF status = "pass" THEN 0 ELSE 1,
                timed |-> TRUE, reason |-> FALSE]
BlockedCommand == [status |-> "blocked", code |-> None, timed |-> FALSE, reason |-> TRUE]
PlatformRow(status, commands, visual) ==
    [form |-> TRUE, status |-> status, visual |-> visual, commands |-> commands, reason |-> status # "pass"]
PassRow  == PlatformRow("pass", {RanCommand("pass")}, "pass")
PlatformRows ==
    {PassRow, PlatformRow("blocked", {RanCommand("pass"), BlockedCommand}, "blocked"), PlatformRow("failed", {RanCommand("failed")}, "pass"),
     PlatformRow("pass", {RanCommand("pass"), BlockedCommand}, "pass")}

GoodCanary ==
    [form |-> TRUE, status |-> "pass", completed |-> TRUE, seconds |-> 2, panes |-> 2,
     p0 |-> 0, unsupported |-> 0, fallbacks |-> 0, dropped |-> 0, incidents |-> 0,
     samples |-> 3, p95 |-> 1, peak |-> 1, control |-> 1, ratio |-> 100, reason |-> FALSE]
Canaries ==
    {GoodCanary,
     [GoodCanary EXCEPT !.samples = 4],
     [GoodCanary EXCEPT !.status = "failed", !.reason = TRUE, !.samples = 4, !.dropped = 7,
                        !.control = None, !.ratio = None],
     [GoodCanary EXCEPT !.status = "blocked", !.reason = TRUE, !.samples = 4, !.incidents = 1],
     [GoodCanary EXCEPT !.dropped = 4]}

ExitEvidence(default, canary, row, decision, blockers) ==
    [form |-> TRUE, rev |-> 1, default |-> default, canary |-> canary,
     platforms |-> [p \in Platforms |-> IF p = "linux" THEN row ELSE PassRow],
     decision |-> decision, blockers |-> blockers]
HostExits ==
    {ExitEvidence("pass", canary, PassRow, decision, FALSE) :
        canary \in Canaries, decision \in Decisions}
      \cup {ExitEvidence("pass", GoodCanary, PassRow, decision, TRUE) : decision \in Decisions}
      \cup {ExitEvidence("failed", GoodCanary, PassRow, decision, FALSE) : decision \in Decisions}
      \cup {ExitEvidence("pass", GoodCanary, row, "broader_hera_canary", FALSE) : row \in PlatformRows}
HostDisks ==
    {[f \in HostFiles |-> IF f = "f1" THEN Clean ELSE m] : m \in HostMetrics \cup {NoFile}}
      \cup {[f \in HostFiles |-> Dropping]}
=============================================================================
