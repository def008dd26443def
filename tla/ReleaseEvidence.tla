-------------------------- MODULE ReleaseEvidence --------------------------
(* The commands that generate the M5 release evidence (terminal-cli,       *)
(* main.rs) and the validators of the documents (m5_platform.rs,           *)
(* m5_release.rs, m5_security.rs, m5_baseline.rs).  A generator runs other *)
(* programs, builds a document from what they did, validates it and writes *)
(* it; it may be killed at any moment, and a write is not atomic.          *)
(* One of the programs is `cargo test`, whose tests read the documents.    *)
(* Wording, times, paths and package metadata are one boolean `form`.      *)
EXTENDS Integers, Sequences, FiniteSets

CONSTANTS
    PlatformPrograms,  \* commands a platform has to run, in order
    PublishOrder,      \* the public crates, in order
    DependsOn,         \* [crates -> the public crates each depends on]
    SecurityTools,     \* the security tools, in order
    ReleasePlans,      \* release plans a maintainer may write by hand
    MaxGenerations     \* bound: commands and edits in a behaviour

RuntimePlatforms == {"windows", "linux", "macos"}
Generators == {"platform", "readiness", "audit", "security", "baseline"}
Artifacts ==
    {"platform-runtime-evidence", "m5-package-readiness", "m5-release-plan",
     "m5-api-audit", "m5-security-baseline", "m5-baseline", "platform-evidence"}
BaselineSources == {"m4_report", "m4_package_readiness", "m4_oss_security_baseline"}

ASSUME ReleaseAssumption ==
    /\ PlatformPrograms \in Seq(STRING) /\ PlatformPrograms # <<>>
    /\ PublishOrder \in Seq(STRING) /\ PublishOrder # <<>>
    /\ SecurityTools \in Seq(STRING) /\ SecurityTools # <<>>
    /\ \A i, j \in DOMAIN PublishOrder : PublishOrder[i] = PublishOrder[j] => i = j
    /\ \A i \in DOMAIN PublishOrder :
         DependsOn[PublishOrder[i]] \subseteq {PublishOrder[j] : j \in 1..i - 1}
    /\ \A plan \in ReleasePlans : plan.kind = "plan"
    /\ MaxGenerations \in Nat

VARIABLES
    docs,        \* what each artifact file holds
    behind,      \* what the programs did for the document in the file
    generator,   \* the generator that runs, or "none"
    on,          \* the operating system it runs on
    formed,      \* nothing but outcomes can make its document invalid
    moment,      \* where it is
    outcomes,    \* what its programs did so far
    pending,     \* the document it is about to write
    verdict,     \* how the last command ended
    generations  \* commands and edits so far

releaseVars == <<docs, behind, generator, on, formed, moment, outcomes, pending,
                 verdict, generations>>

NoDocument == [kind |-> "missing"]
Torn       == [kind |-> "torn"]

Programs(g) ==
    IF g = "platform" THEN PlatformPrograms
    ELSE IF g = "readiness" THEN PublishOrder
    ELSE IF g = "security" THEN SecurityTools
    ELSE IF g = "audit" THEN <<"cargo semver-checks">> ELSE <<>>

-----------------------------------------------------------------------------
(* One program: what it did, and the row that records it.                  *)

Success(o) == o \in {"success", "unarchived"}

(* Mutation: whoever could be started has passed.                          *)
ResultIfStarted(o) ==
    IF o # "unavailable"
    THEN [status |-> "pass", code |-> 0, reason |-> FALSE]
    ELSE [status |-> "blocked", code |-> -1, reason |-> TRUE]

Result(o) ==
    IF Success(o) THEN [status |-> "pass", code |-> 0, reason |-> FALSE]
    ELSE IF o = "failure" THEN [status |-> "failed", code |-> 1, reason |-> FALSE]
    ELSE [status |-> "blocked", code |-> -1, reason |-> TRUE]

ResultValid(r) ==
    /\ r.status = "pass" => r.code = 0
    /\ r.status = "failed" => r.code \notin {-1, 0}
    /\ r.status = "blocked" => r.code = -1 /\ r.reason

Results(did) == [i \in DOMAIN did |-> Result(did[i])]
Having(results, status) == {i \in DOMAIN results : results[i].status = status}

(* Mutation: a missing program hides a failed one.                         *)
RollupBlockedFirst(results) ==
    IF Having(results, "blocked") # {} THEN "blocked"
    ELSE IF Having(results, "failed") # {} THEN "failed" ELSE "pass"

Rollup(results) ==
    IF Having(results, "failed") # {} THEN "failed"
    ELSE IF Having(results, "blocked") # {} THEN "blocked" ELSE "pass"

-----------------------------------------------------------------------------
(* Platform runtime evidence.                                              *)

BlockedRow ==
    [status |-> "blocked", reason |-> TRUE,
     results |-> [i \in DOMAIN PlatformPrograms |-> Result("unavailable")]]

MeasuredRow(results) ==
    [status |-> Rollup(results), reason |-> Rollup(results) = "blocked",
     results |-> results]

(* Mutation: the measured row stands for every platform.                   *)
PlatformDocumentForAll(form, host, did) ==
    [kind |-> "platform", form |-> form,
     rows |-> [p \in RuntimePlatforms |->
                 IF host # "none" THEN MeasuredRow(Results(did)) ELSE BlockedRow]]

PlatformDocument(form, host, did) ==
    [kind |-> "platform", form |-> form,
     rows |-> [p \in RuntimePlatforms |->
                 IF p = host THEN MeasuredRow(Results(did)) ELSE BlockedRow]]

RuntimeRowValid(row) ==
    LET failed  == Having(row.results, "failed") # {}
        blocked == Having(row.results, "blocked") # {}
    IN  /\ DOMAIN row.results = DOMAIN PlatformPrograms
        /\ \A i \in DOMAIN row.results : ResultValid(row.results[i])
        /\ row.status = "blocked" => row.reason /\ ~failed /\ blocked
        /\ row.status = "failed" => failed
        /\ row.status = "pass" => ~failed /\ ~blocked

PlatformValid(doc) ==
    doc.form /\ \A p \in RuntimePlatforms : RuntimeRowValid(doc.rows[p])

-----------------------------------------------------------------------------
(* Release plan and package readiness.                                     *)

CrateNames == {PublishOrder[i] : i \in DOMAIN PublishOrder}

PlanDocument ==
    [kind |-> "plan", form |-> TRUE, order |-> PublishOrder,
     public |-> CrateNames, depends |-> DependsOn]

(* A BTreeMap from name to index: the last occurrence counts.              *)
LastIndex(plan, name) ==
    CHOOSE i \in DOMAIN plan.order :
        /\ plan.order[i] = name
        /\ \A j \in DOMAIN plan.order : plan.order[j] = name => j <= i

Listed(plan) == {plan.order[i] : i \in DOMAIN plan.order}

PlanValid(plan) ==
    /\ plan.form /\ plan.order # <<>>
    /\ plan.public \subseteq Listed(plan) /\ Listed(plan) \subseteq plan.public
    /\ \A name \in Listed(plan) : \A d \in plan.depends[name] :
         d \in Listed(plan) /\ LastIndex(plan, d) <= LastIndex(plan, name)

CrateStatus(result) == IF result.status = "pass" THEN "pass" ELSE "blocked"

PackageCrate(did) ==
    [status |-> CrateStatus(Result(did)), dry_run |-> Result(did),
     archive |-> did # "unarchived"]

ReadinessDocument(form, did) ==
    [kind |-> "readiness", form |-> form,
     crates |-> [i \in DOMAIN did |-> PackageCrate(did[i])],
     status |-> IF \A i \in DOMAIN did : PackageCrate(did[i]).status = "pass"
                THEN "pass" ELSE "blocked"]

ReadinessValid(doc) ==
    /\ doc.form /\ doc.crates # <<>>
    /\ \A i \in DOMAIN doc.crates :
         LET krate == doc.crates[i] IN
         /\ ResultValid(krate.dry_run)
         /\ krate.dry_run.status = "pass" => krate.archive
         /\ krate.status = "pass" => krate.dry_run.status = "pass"
         /\ doc.status = "pass" => krate.status = "pass"

-----------------------------------------------------------------------------
(* API audit and security baseline.                                        *)

AuditDocument(form, did) ==
    [kind |-> "audit", form |-> form, semver |-> Result(did[1]),
     status |-> IF Result(did[1]).status = "failed" THEN "blocked" ELSE "pass"]

AuditValid(doc) ==
    /\ doc.form /\ ResultValid(doc.semver)
    /\ doc.status = "pass" => doc.semver.status # "failed"

SecurityTool(did) ==
    LET result == Result(did) IN
    [result |-> result, blocking |-> result.status = "failed",
     findings |-> IF result.status = "failed" THEN 1 ELSE 0]

SecuritySummary(tools) ==
    [passed  |-> Cardinality({i \in DOMAIN tools : tools[i].result.status = "pass"}),
     blocked |-> Cardinality({i \in DOMAIN tools : tools[i].result.status = "blocked"}),
     failed  |-> Cardinality({i \in DOMAIN tools : tools[i].result.status = "failed"}),
     release |-> Cardinality({i \in DOMAIN tools : tools[i].findings > 0})]

SecurityDocument(form, did) ==
    LET tools   == [i \in DOMAIN did |-> SecurityTool(did[i])]
        summary == SecuritySummary(tools)
    IN  [kind |-> "security", form |-> form, tools |-> tools, summary |-> summary,
         status |-> IF summary.failed > 0 \/ summary.release > 0 THEN "failed"
                    ELSE IF summary.blocked > 0 THEN "blocked" ELSE "pass"]

SecurityToolValid(tool) ==
    /\ ResultValid(tool.result)
    /\ tool.blocking => tool.findings > 0
    /\ tool.result.status = "pass" => ~tool.blocking

SecurityValid(doc) ==
    LET has(status) == \E i \in DOMAIN doc.tools : doc.tools[i].result.status = status
        blocker     == \E i \in DOMAIN doc.tools : doc.tools[i].blocking
    IN  /\ doc.form /\ DOMAIN doc.tools = DOMAIN SecurityTools
        /\ \A i \in DOMAIN doc.tools : SecurityToolValid(doc.tools[i])
        /\ doc.summary = SecuritySummary(doc.tools)
        /\ doc.status = "pass" => ~has("failed") /\ ~has("blocked") /\ ~blocker
        /\ doc.status = "failed" => has("failed") \/ blocker
        /\ doc.status = "blocked" => ~has("failed") /\ ~blocker /\ has("blocked")

-----------------------------------------------------------------------------
(* Baseline: the blockers of M4, and the evidence that they are treated.   *)

(* The blockers over files that some generator writes; the other four      *)
(* follow the same rule.                                                   *)
Blockers ==
    [linux_macos_measurement |->
         [source |-> "m4_report", path |-> "platform-evidence"],
     package_metadata |->
         [source |-> "m4_package_readiness", path |-> "m5-package-readiness"],
     publish_order |->
         [source |-> "m4_package_readiness", path |-> "m5-release-plan"],
     openssf_scorecard |->
         [source |-> "m4_oss_security_baseline", path |-> "m5-security-baseline"]]

Disposition(available, evidence) ==
    IF ~available THEN "blocked_dependency"
    ELSE IF evidence = {} THEN "carried_forward" ELSE "current_evidence"

BaselineBlocker(b, sources, existing) ==
    LET evidence == {Blockers[b].path} \cap existing
    IN  [evidence |-> evidence,
         disposition |-> Disposition(sources[Blockers[b].source] = "available", evidence)]

BaselineDocument(form, sources, existing) ==
    [kind |-> "baseline", form |-> form, sources |-> sources,
     blockers |-> [b \in DOMAIN Blockers |-> BaselineBlocker(b, sources, existing)]]

BaselineValid(doc) ==
    /\ doc.form
    /\ \A b \in DOMAIN doc.blockers :
         doc.blockers[b].disposition = "current_evidence"
           => doc.blockers[b].evidence # {}

Valid(doc) ==
    \/ doc.kind = "platform" /\ PlatformValid(doc)
    \/ doc.kind = "plan" /\ PlanValid(doc)
    \/ doc.kind = "readiness" /\ ReadinessValid(doc)
    \/ doc.kind = "audit" /\ AuditValid(doc)
    \/ doc.kind = "security" /\ SecurityValid(doc)
    \/ doc.kind = "baseline" /\ BaselineValid(doc)

Readable(f) == docs[f] \notin {NoDocument, Torn}

(* The tests that load the checked-in documents, with what they expect of  *)
(* them.                                                                   *)
WorkspaceTestsPass ==
    /\ \A f \in Artifacts \ {"platform-evidence"} : Valid(docs[f])
    /\ docs["m5-package-readiness"].status = "blocked"
    /\ docs["m5-release-plan"].order[1] = PublishOrder[1]
    /\ docs["m5-api-audit"].status = "pass"
    /\ docs["m5-api-audit"].semver.status = "blocked"

-----------------------------------------------------------------------------
(* The generators.                                                         *)

ArtifactOf(g) ==
    CASE g = "platform"  -> "platform-runtime-evidence"
      [] g = "readiness" -> "m5-package-readiness"
      [] g = "audit"     -> "m5-api-audit"
      [] g = "security"  -> "m5-security-baseline"
      [] g = "baseline"  -> "m5-baseline"

DocumentOf(g) ==
    CASE g = "platform"  -> PlatformDocument(formed, on, outcomes)
      [] g = "readiness" -> ReadinessDocument(formed, outcomes)
      [] g = "audit"     -> AuditDocument(formed, outcomes)
      [] g = "security"  -> SecurityDocument(formed, outcomes)

(* The evidence in the repository: Windows was measured, the crates with   *)
(* dependencies do not package yet, most tools are not installed.          *)
CheckedInOutcomes ==
    [platform  |-> [i \in DOMAIN PlatformPrograms |-> "success"],
     readiness |-> [i \in DOMAIN PublishOrder |->
                      IF DependsOn[PublishOrder[i]] = {} THEN "success" ELSE "failure"],
     security  |-> [i \in DOMAIN SecurityTools |->
                      IF SecurityTools[i] = "cargo-deny" THEN "failure" ELSE "unavailable"]]

CheckedIn ==
    LET written == Artifacts \ {"platform-evidence"} IN
    [f \in Artifacts |->
       CASE f = "platform-runtime-evidence" ->
              PlatformDocument(TRUE, "windows", CheckedInOutcomes.platform)
         [] f = "m5-package-readiness" -> ReadinessDocument(TRUE, CheckedInOutcomes.readiness)
         [] f = "m5-release-plan" -> PlanDocument
         [] f = "m5-api-audit" -> AuditDocument(TRUE, <<"unavailable">>)
         [] f = "m5-security-baseline" -> SecurityDocument(TRUE, CheckedInOutcomes.security)
         [] f = "m5-baseline" ->
              BaselineDocument(TRUE, [s \in BaselineSources |-> "available"], written)
         [] f = "platform-evidence" -> NoDocument]

ReleaseInit ==
    /\ docs = CheckedIn
    /\ behind = [g \in Generators |->
                   IF g \in DOMAIN CheckedInOutcomes THEN CheckedInOutcomes[g]
                   ELSE IF g = "audit" THEN <<"unavailable">> ELSE <<>>]
    /\ generator = "none" /\ on = "none" /\ formed = TRUE /\ moment = "idle"
    /\ outcomes = <<>> /\ pending = NoDocument /\ verdict = "none" /\ generations = 0

Begin(g, next, doc) ==
    /\ generator = "none" /\ generations < MaxGenerations
    /\ generations' = generations + 1
    /\ generator' = g /\ moment' = next /\ pending' = doc
    /\ outcomes' = <<>> /\ verdict' = "none"
    /\ UNCHANGED <<docs, behind>>

End(how) ==
    /\ generator' = "none" /\ moment' = "idle" /\ verdict' = how
    /\ on' = "none" /\ formed' = TRUE /\ outcomes' = <<>> /\ pending' = NoDocument
    /\ UNCHANGED generations

(* Mutation: the programs run before anything is written.                  *)
MeasurePlatformAtOnce(host) ==
    /\ Begin("platform", "programs", NoDocument)
    /\ on' = host /\ formed' = TRUE

(* A bootstrap document, all rows blocked, is written first.  One with     *)
(* paths outside the repository is refused: nothing happened.              *)
MeasurePlatform(host) ==
    /\ Begin("platform", "bootstrap", PlatformDocument(TRUE, "none", <<>>))
    /\ on' = host /\ formed' = TRUE

GenerateReadiness ==
    /\ Begin("readiness", "plan", PlanDocument)
    /\ on' = "none" /\ formed' \in BOOLEAN

GenerateAudit ==
    /\ Begin("audit", "programs", NoDocument)
    /\ on' = "none" /\ formed' \in BOOLEAN

GenerateSecurity ==
    /\ Begin("security", "programs", NoDocument)
    /\ on' = "none" /\ formed' = TRUE

(* The baseline is written before anybody validates it.                    *)
GenerateBaseline ==
    \E sources \in [BaselineSources -> {"available", "missing", "malformed"}] :
        /\ formed' \in BOOLEAN /\ on' = "none"
        /\ Begin("baseline", "write",
                 BaselineDocument(formed', sources,
                                  {f \in Artifacts : docs[f] # NoDocument}))

FirstFile == IF moment = "bootstrap" THEN "platform-runtime-evidence" ELSE "m5-release-plan"

(* On any other system the bootstrap is written again, with another note.  *)
WriteFirst ==
    /\ moment \in {"bootstrap", "plan"}
    /\ \/ /\ docs' = [docs EXCEPT ![FirstFile] = pending]
          /\ behind' = [behind EXCEPT !.platform = IF moment = "plan" THEN @ ELSE <<>>]
          /\ IF on = "other" THEN End("failure")
             ELSE /\ moment' = "programs" /\ pending' = NoDocument
                  /\ UNCHANGED <<generator, on, formed, outcomes, verdict, generations>>
       \/ /\ docs' = [docs EXCEPT ![FirstFile] = Torn]
          /\ End("failure") /\ UNCHANGED behind

Outcomes(program) ==
    {"success", "failure", "unavailable"}
      \cup (IF generator = "readiness" THEN {"unarchived"} ELSE {})

RunProgram ==
    /\ moment = "programs" /\ Len(outcomes) < Len(Programs(generator))
    /\ LET program == Programs(generator)[Len(outcomes) + 1] IN
       \E o \in Outcomes(program) :
          /\ program = "cargo test" /\ o = "success" => WorkspaceTestsPass
          /\ outcomes' = Append(outcomes, o)
    /\ UNCHANGED <<docs, behind, generator, on, formed, moment, pending, verdict, generations>>

(* A manifest without the fields a package needs ends the command.         *)
ManifestIncomplete ==
    /\ generator = "readiness" /\ moment = "programs"
    /\ Len(outcomes) < Len(PublishOrder)
    /\ End("failure") /\ UNCHANGED <<docs, behind>>

Build ==
    /\ moment = "programs" /\ Len(outcomes) = Len(Programs(generator))
    /\ IF Valid(DocumentOf(generator))
       THEN /\ moment' = "write" /\ pending' = DocumentOf(generator)
            /\ UNCHANGED <<generator, on, formed, outcomes, verdict, generations>>
       ELSE End("refused")
    /\ UNCHANGED <<docs, behind>>

Succeeds ==
    IF generator = "platform"
    THEN Having(Results(outcomes), "failed") \cup Having(Results(outcomes), "blocked") = {}
    ELSE Valid(pending)

Write ==
    /\ moment = "write"
    /\ \/ /\ docs' = [docs EXCEPT ![ArtifactOf(generator)] = pending]
          /\ behind' = [behind EXCEPT ![generator] = outcomes]
          /\ End(IF Succeeds THEN "success" ELSE "failure")
       \/ /\ docs' = [docs EXCEPT ![ArtifactOf(generator)] = Torn]
          /\ End("failure") /\ UNCHANGED behind

(* The process ends, perhaps in the middle of a write.                     *)
Kill ==
    /\ generator # "none"
    /\ End("killed")
    /\ \/ UNCHANGED docs
       \/ /\ moment = "write"
          /\ docs' = [docs EXCEPT ![ArtifactOf(generator)] = Torn]
       \/ /\ moment \in {"bootstrap", "plan"}
          /\ docs' = [docs EXCEPT ![FirstFile] = Torn]
    /\ UNCHANGED behind

(* A maintainer writes a release plan.                                     *)
EditPlan ==
    /\ generator = "none" /\ generations < MaxGenerations
    /\ generations' = generations + 1
    /\ \E plan \in ReleasePlans : docs' = [docs EXCEPT !["m5-release-plan"] = plan]
    /\ UNCHANGED <<behind, generator, on, formed, moment, outcomes, pending, verdict>>

ReleaseNext ==
    \/ \E host \in RuntimePlatforms \cup {"other"} : MeasurePlatform(host)
    \/ GenerateReadiness \/ GenerateAudit \/ GenerateSecurity \/ GenerateBaseline
    \/ WriteFirst \/ RunProgram \/ ManifestIncomplete \/ Build \/ Write
    \/ Kill \/ EditPlan

ReleaseSpec == ReleaseInit /\ [][ReleaseNext]_releaseVars

-----------------------------------------------------------------------------
(* Properties.                                                             *)

DocumentKinds ==
    {"missing", "torn", "platform", "plan", "readiness", "audit", "security", "baseline"}

ReleaseTypeOK ==
    /\ DOMAIN docs = Artifacts /\ docs["platform-evidence"] = NoDocument
    /\ \A f \in Artifacts : docs[f].kind \in DocumentKinds
    /\ generator \in Generators \cup {"none"}
    /\ on \in RuntimePlatforms \cup {"other", "none"} /\ formed \in BOOLEAN
    /\ moment \in {"idle", "bootstrap", "plan", "programs", "write"}
    /\ moment = "idle" <=> generator = "none"
    /\ Len(outcomes) <= Len(Programs(generator))
    /\ \A g \in Generators : Len(behind[g]) <= Len(Programs(g))
    /\ verdict \in {"none", "success", "failure", "refused", "killed"}
    /\ generations \in 0..MaxGenerations

(* While the platform's programs run, `cargo test` among them, the         *)
(* platform document is readable and valid, whatever an earlier command    *)
(* left behind: measuring does not fail its own tests.                     *)
TestsSeeEvidence ==
    generator = "platform" /\ moment = "programs"
        => Valid(docs["platform-runtime-evidence"])

(* A platform is never inferred from another one: a row that is written as *)
(* measured is the row of the system the programs ran on, with what they   *)
(* did in this very command.                                               *)
RowsMeasuredThere ==
    [][LET doc == docs'["platform-runtime-evidence"] IN
       docs["platform-runtime-evidence"] # doc /\ doc.kind = "platform" =>
         \A p \in RuntimePlatforms :
             doc.rows[p].status # "blocked" =>
                 p = on /\ doc.rows[p].results = Results(outcomes)]_releaseVars

Passes(doc) ==
    IF doc.kind = "platform" THEN \E p \in RuntimePlatforms : doc.rows[p].status = "pass"
    ELSE doc.status = "pass"

(* What a document says passed did pass: no program behind it failed, and  *)
(* but for the API audit, which may pass unmeasured, none was missing.     *)
NoFailureHidden ==
    \A g \in Generators \ {"baseline"} :
        Readable(ArtifactOf(g)) /\ Passes(docs[ArtifactOf(g)]) =>
            \A i \in DOMAIN behind[g] :
                /\ behind[g][i] # "failure"
                /\ g # "audit" => behind[g][i] # "unavailable"

(* The validators accept what the generators make of any outcome: what     *)
(* fails or is missing gets recorded.  A refusal is due to the form or to  *)
(* an archive that is not where it is expected.                            *)
OutcomesAreRecorded ==
    [][generator # "none" /\ verdict' = "refused" =>
         ~formed \/ \E i \in DOMAIN outcomes : outcomes[i] = "unarchived"]_releaseVars

(* Linux or macOS has been measured and has passed.                        *)
MeasuredOffWindows ==
    /\ Readable("platform-runtime-evidence")
    /\ \E p \in {"linux", "macos"} : docs["platform-runtime-evidence"].rows[p].status = "pass"

(* A gap that is resolved is recorded with its evidence in a new baseline, *)
(* as long as the M4 document it comes from is there: the platforms by a   *)
(* measurement that passed, the others by the document about them.         *)
CurrentEvidenceLinked ==
    generator = "baseline" /\ formed =>
        \A b \in DOMAIN Blockers :
            /\ IF b = "linux_macos_measurement" THEN MeasuredOffWindows
               ELSE docs[Blockers[b].path] # NoDocument
            /\ pending.sources[Blockers[b].source] = "available"
            => pending.blockers[b].disposition = "current_evidence"
=============================================================================
