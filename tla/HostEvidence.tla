---------------------------- MODULE HostEvidence ----------------------------
(* validate-m6-host-evidence and validate-m6-exit-evidence: the documents  *)
(* that decide whether Hera may be tried on more hosts, and the command    *)
(* that reads them (m6_exit.rs, m6_host_evidence.rs).  One step per        *)
(* artifact: the artifacts are files that the host may still be writing,   *)
(* and the command reads each of them twice.                               *)
(* Names, timestamps, private paths and the like are one boolean `form`;   *)
(* a digest identifies contents, so the digest of a document is itself.    *)
EXTENDS Integers, Sequences, FiniteSets

CONSTANTS
    ExitDocuments,  \* exit evidence files the command may be given
    Manifests,      \* host evidence manifests they may name
    Metrics,        \* host metrics, one file per pane
    Disks,          \* what the files may hold to begin with
    Files,          \* the files of the repository
    Paths,          \* repository paths
    Target,         \* [Paths -> Files], links resolved
    MaxCount,       \* u64::MAX, where counters saturate
    MaxPanes,       \* u32::MAX
    MaxArtifacts,   \* M6_MAX_HOST_EVIDENCE_ARTIFACTS
    MinSeconds,     \* 3600
    MinSamples,     \* 100
    MaxSamples,     \* 4096
    MaxLatency,     \* 2.0 ms
    MaxMemory,      \* 120 percent
    MaxElapsed,     \* 100 ms
    MaxRewrites     \* bound: files the host rewrites during a command

None == -1
NoFile == [form |-> "missing"]

Statuses  == {"pass", "failed", "blocked"}
Decisions == {"broader_hera_canary", "targeted_host_hardening",
              "replacement_experiment_blocked"}
Platforms == {"windows", "linux", "macos"}

ASSUME HostAssumption ==
    /\ Target \in [Paths -> Files] /\ NoFile \notin Metrics
    /\ Disks \subseteq [Files -> Metrics \cup {NoFile}]
    /\ MaxCount \in Nat \ {0} /\ MaxPanes \in Nat \ {0} /\ MaxArtifacts \in Nat
    /\ MinSeconds \in Nat \ {0} /\ MinSamples \in Nat \ {0} /\ MaxSamples \in Nat
    /\ MaxLatency \in Nat /\ MaxMemory \in Nat /\ MaxElapsed \in Nat
    /\ MaxRewrites \in Nat

VARIABLES
    command,   \* which command runs, or "none"
    stage,     \* where it is
    evidence,  \* the exit evidence it read
    manifest,  \* the manifest it read
    disk,      \* what each file holds
    touched,   \* files the host rewrote since the command began
    at,        \* index of the next artifact
    rollup,    \* M6HostEvidenceRollup
    counted    \* the documents the roll-up was computed from

hostVars == <<command, stage, evidence, manifest, disk, touched, at, rollup, counted>>

Opt(S) == S \cup {None}

Add(a, b) == IF a + b > MaxCount THEN MaxCount ELSE a + b
Larger(a, b) == IF a < b THEN b ELSE a

Metric ==
    [form : BOOLEAN, run : STRING, authority : {"alacritty", "hera_authoritative"},
     fallbacks : Nat, reason : BOOLEAN, elapsed : Opt(Nat),
     accepted : Nat, applied : Nat, incomplete : BOOLEAN, seconds : Nat,
     dropped : Nat, batches : Nat, checkpoints : Nat, equal : Nat, p0 : Nat,
     unsupported : Nat, pending : Nat, samples : Nat, p95 : Opt(Nat),
     baseline : Opt(Nat), peak : Opt(Nat), delta : Opt(Nat)]

ASSUME HostDocumentsAssumption ==
    /\ Metrics \subseteq Metric
    /\ \A man \in Manifests :
         man.artifacts \in
             Seq([form : BOOLEAN, path : Paths, digest : Metrics, run : STRING, rev : Nat])

-----------------------------------------------------------------------------
(* One pane's metrics.                                                     *)

FallbackValid(m) ==
    /\ m.fallbacks <= 1
    /\ m.fallbacks = 0 => ~m.reason /\ m.elapsed = None
    /\ m.fallbacks = 1 => /\ m.reason /\ m.authority = "alacritty"
                          /\ m.elapsed # None /\ m.elapsed <= MaxElapsed

RuntimeValid(m) ==
    /\ m.applied <= m.accepted
    /\ m.incomplete <=> m.applied < m.accepted

ComparisonValid(m) ==
    /\ m.checkpoints = Add(Add(m.equal, m.p0), m.unsupported)
    /\ m.authority = "hera_authoritative" => m.checkpoints > 0 /\ m.pending = 0

LatencyValid(m) ==
    /\ m.samples <= m.batches /\ m.samples <= MaxSamples
    /\ m.p95 = None <=> m.samples < MinSamples

MemoryValid(m) ==
    \/ m.baseline = None /\ m.peak = None /\ m.delta = None
    \/ /\ m.baseline # None /\ m.peak # None
       /\ m.peak >= m.baseline /\ m.delta = m.peak - m.baseline

MetricsValid(m) ==
    /\ m.form /\ FallbackValid(m) /\ RuntimeValid(m) /\ ComparisonValid(m)
    /\ LatencyValid(m) /\ MemoryValid(m)

-----------------------------------------------------------------------------
(* The manifest, and its roll-up over the panes.                           *)

ManifestValid(man) ==
    /\ man.form
    /\ man.artifacts # <<>> /\ Len(man.artifacts) <= MaxArtifacts
    /\ \A i \in DOMAIN man.artifacts : man.artifacts[i].form
    /\ \A i, j \in DOMAIN man.artifacts :
         man.artifacts[i].path = man.artifacts[j].path => i = j

FileOf(i) == Target[manifest.artifacts[i].path]

(* Mutation: the revision and the run are checked, the digest is not.      *)
ArtifactUndigested(i) ==
    LET artifact == manifest.artifacts[i]
        m        == disk[FileOf(i)]
    IN  /\ m # NoFile
        /\ \A j \in 1..i - 1 : FileOf(j) # FileOf(i)
        /\ MetricsValid(m)
        /\ m.run = manifest.run /\ m.run = artifact.run
        /\ artifact.rev = manifest.rev

ArtifactValid(i) ==
    LET artifact == manifest.artifacts[i]
        m        == disk[FileOf(i)]
    IN  /\ m # NoFile
        /\ \A j \in 1..i - 1 : FileOf(j) # FileOf(i)
        /\ m = artifact.digest
        /\ MetricsValid(m)
        /\ m.run = manifest.run /\ m.run = artifact.run
        /\ artifact.rev = manifest.rev

NoRollup ==
    [panes |-> 0, seconds |-> 0, p0 |-> 0, unsupported |-> 0, fallbacks |-> 0,
     dropped |-> 0, samples |-> 0, p95 |-> None, peak |-> None]

(* Mutation: counters wrap around instead of saturating.                   *)
AddWrapping(r, m) ==
    LET wrap(a, b) == (a + b) % (MaxCount + 1) IN
    [panes       |-> IF r.panes = MaxPanes THEN MaxPanes ELSE r.panes + 1,
     seconds     |-> Larger(r.seconds, m.seconds),
     p0          |-> wrap(r.p0, m.p0),
     unsupported |-> wrap(r.unsupported, m.unsupported),
     fallbacks   |-> wrap(r.fallbacks, m.fallbacks),
     dropped     |-> wrap(r.dropped, m.dropped),
     samples     |-> wrap(r.samples, m.samples),
     p95         |-> Larger(r.p95, m.p95),
     peak        |-> Larger(r.peak, m.peak)]

AddMetrics(r, m) ==
    [panes       |-> IF r.panes = MaxPanes THEN MaxPanes ELSE r.panes + 1,
     seconds     |-> Larger(r.seconds, m.seconds),
     p0          |-> Add(r.p0, m.p0),
     unsupported |-> Add(r.unsupported, m.unsupported),
     fallbacks   |-> Add(r.fallbacks, m.fallbacks),
     dropped     |-> Add(r.dropped, m.dropped),
     samples     |-> Add(r.samples, m.samples),
     p95         |-> Larger(r.p95, m.p95),
     peak        |-> Larger(r.peak, m.peak)]

-----------------------------------------------------------------------------
(* The exit evidence: canary, platform rows, decision.                     *)

CanaryMemoryValid(c) ==
    \/ /\ c.peak # None /\ c.peak > 0 /\ c.control # None /\ c.control > 0
       /\ c.ratio # None /\ c.ratio * c.control = c.peak * 100
    \/ c.peak # None /\ c.peak > 0 /\ c.control = None /\ c.ratio = None

PassingMeasurements(c) ==
    /\ c.completed /\ c.seconds >= MinSeconds /\ c.panes >= 2
    /\ c.p0 = 0 /\ c.unsupported = 0 /\ c.fallbacks = 0 /\ c.dropped = 0
    /\ c.incidents = 0
    /\ c.samples >= MinSamples
    /\ c.p95 # None /\ c.p95 <= MaxLatency
    /\ c.ratio # None /\ c.ratio <= MaxMemory

CanaryValid(c) ==
    /\ c.form /\ CanaryMemoryValid(c)
    /\ c.status = "pass" => PassingMeasurements(c) /\ ~c.reason
    /\ c.status # "pass" => c.reason

CommandValid(x) ==
    /\ x.status = "pass" => x.code = 0 /\ x.timed
    /\ x.status = "failed" => x.code # None /\ x.code # 0 /\ x.timed
    /\ x.status = "blocked" => x.code = None /\ ~x.timed /\ x.reason

RowValid(row) ==
    LET failed  == \E x \in row.commands : x.status = "failed"
        blocked == \E x \in row.commands : x.status = "blocked"
    IN  /\ row.form /\ \A x \in row.commands : CommandValid(x)
        /\ row.status = "pass" => ~failed /\ ~blocked /\ row.visual = "pass"
        /\ row.status = "failed" => failed \/ row.visual = "failed"
        /\ row.status = "blocked" =>
             ~failed /\ (blocked \/ row.visual = "blocked")
        /\ row.status # "pass" => row.reason

AllPlatformsPass(e) == \A p \in Platforms : e.platforms[p].status = "pass"
WindowsPass(e) == e.canary.status = "pass"

DecisionValid(e) ==
    /\ e.decision = "broader_hera_canary" =>
         /\ e.default = "pass" /\ WindowsPass(e)
         /\ AllPlatformsPass(e) /\ ~e.blockers
    /\ e.decision = "targeted_host_hardening" => WindowsPass(e)
    /\ e.decision = "replacement_experiment_blocked" =>
         ~(WindowsPass(e) /\ e.default = "pass")

PartsValid(e) ==
    /\ e.form /\ CanaryValid(e.canary)
    /\ \A p \in Platforms : RowValid(e.platforms[p])

ExitValid(e) == PartsValid(e) /\ DecisionValid(e)

HostRollupMatches(c, r) ==
    /\ c.panes = r.panes /\ c.seconds = r.seconds
    /\ c.p0 = r.p0 /\ c.unsupported = r.unsupported
    /\ c.fallbacks = r.fallbacks /\ c.dropped = r.dropped
    /\ c.samples = r.samples
    /\ c.completed <=> r.seconds >= MinSeconds
    /\ c.p95 = r.p95 /\ c.peak = r.peak

-----------------------------------------------------------------------------
(* The commands.                                                           *)

HostInit ==
    /\ command = "none" /\ stage = "idle"
    /\ evidence \in ExitDocuments /\ manifest \in Manifests
    /\ disk \in Disks
    /\ touched = {} /\ at = 1 /\ rollup = NoRollup /\ counted = <<>>

Documents == <<evidence, manifest>>
Proceed(next) == stage' = next
Accept(next, guard) == Proceed(IF guard THEN next ELSE "rejected")

ValidateHostEvidence ==
    /\ command = "none"
    /\ command' = "validate-m6-host-evidence"
    /\ Accept("check", ManifestValid(manifest))
    /\ UNCHANGED <<Documents, disk, touched, at, rollup, counted>>

ValidateExitEvidence ==
    /\ command = "none"
    /\ command' = "validate-m6-exit-evidence"
    /\ Accept("check", /\ ExitValid(evidence) /\ ManifestValid(manifest)
                       /\ evidence.rev = manifest.rev)
    /\ UNCHANGED <<Documents, disk, touched, at, rollup, counted>>

CheckArtifact ==
    /\ stage = "check" /\ at <= Len(manifest.artifacts)
    /\ Accept("check", ArtifactValid(at))
    /\ at' = at + 1
    /\ UNCHANGED <<command, Documents, disk, touched, rollup, counted>>

ArtifactsChecked ==
    /\ stage = "check" /\ at > Len(manifest.artifacts)
    /\ Proceed(IF command = "validate-m6-host-evidence" THEN "accepted" ELSE "roll")
    /\ at' = 1
    /\ UNCHANGED <<command, Documents, disk, touched, rollup, counted>>

(* load_rollup reads the file again.                                       *)
RollUpArtifact ==
    /\ stage = "roll" /\ at <= Len(manifest.artifacts)
    /\ LET m == disk[FileOf(at)] IN
         IF m = NoFile
         THEN Proceed("rejected") /\ UNCHANGED <<at, rollup, counted>>
         ELSE /\ rollup' = AddMetrics(rollup, m)
              /\ counted' = Append(counted, m)
              /\ at' = at + 1
              /\ UNCHANGED stage
    /\ UNCHANGED <<command, Documents, disk, touched>>

(* validate_host_rollup, then the baseline and the report are read: they   *)
(* must exist and hold nothing private.                                    *)
CompareRollup ==
    /\ stage = "roll" /\ at > Len(manifest.artifacts)
    /\ \E public \in BOOLEAN :
         Accept("accepted", HostRollupMatches(evidence.canary, rollup) /\ public)
    /\ UNCHANGED <<command, Documents, disk, touched, at, rollup, counted>>

(* The host writes, or removes, the metrics of one of its panes.           *)
HostWrites ==
    /\ stage \in {"check", "roll"} /\ Cardinality(touched) < MaxRewrites
    /\ \E f \in Files, m \in Metrics \cup {NoFile} :
         disk' = [disk EXCEPT ![f] = m] /\ touched' = touched \cup {f}
    /\ UNCHANGED <<command, stage, Documents, at, rollup, counted>>

HostNext ==
    \/ ValidateHostEvidence \/ ValidateExitEvidence
    \/ CheckArtifact \/ ArtifactsChecked \/ RollUpArtifact \/ CompareRollup
    \/ HostWrites

HostSpec == HostInit /\ [][HostNext]_hostVars

-----------------------------------------------------------------------------
(* Properties.                                                             *)

Accepted == stage = "accepted" /\ command = "validate-m6-exit-evidence"

HostTypeOK ==
    /\ command \in {"none", "validate-m6-host-evidence", "validate-m6-exit-evidence"}
    /\ stage \in {"idle", "check", "roll", "accepted", "rejected"}
    /\ evidence \in ExitDocuments /\ manifest \in Manifests
    /\ disk \in [Files -> Metrics \cup {NoFile}] /\ touched \subseteq Files
    /\ at \in 1..Len(manifest.artifacts) + 1
    /\ counted \in Seq(Metrics)
    /\ rollup.panes \in 0..MaxPanes /\ rollup.seconds \in Nat
    /\ \A field \in {"p0", "unsupported", "fallbacks", "dropped", "samples"} :
         rollup[field] \in 0..MaxCount
    /\ rollup.p95 \in Opt(Nat) /\ rollup.peak \in Opt(Nat)

(* A canary accepted as passing was observed as such: every artifact of    *)
(* the manifest was counted, not one pane dropped output, fell back or     *)
(* mismatched or was too slow, one ran for the hour and there were two.    *)
(* The declared counters cannot hide a pane, not even by overflow.         *)
PassIsObserved ==
    Accepted /\ evidence.canary.status = "pass" =>
        /\ Len(counted) = Len(manifest.artifacts) /\ Len(counted) >= 2
        /\ \A i \in DOMAIN counted :
             /\ counted[i].dropped = 0 /\ counted[i].fallbacks = 0
             /\ counted[i].p0 = 0 /\ counted[i].unsupported = 0
             /\ counted[i].p95 <= MaxLatency
        /\ \E i \in DOMAIN counted : counted[i].seconds >= MinSeconds

(* What was counted for an artifact is the document its digest names, from *)
(* the manifest's run and valid, unless the host rewrote that very file    *)
(* while the command ran: the check and the roll-up read it one after the  *)
(* other.                                                                  *)
BoundToDigests ==
    \A i \in DOMAIN counted :
        FileOf(i) \notin touched =>
            /\ counted[i] = manifest.artifacts[i].digest
            /\ counted[i].run = manifest.run
            /\ MetricsValid(counted[i])
=============================================================================
