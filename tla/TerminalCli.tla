---------------------------- MODULE TerminalCli ----------------------------
(* The program as a whole: the commands `run` in main.rs selects, a        *)
(* recorded session, a fixture pack, the public replays, and those that    *)
(* measure, decide and release, and the records of M3, which the library   *)
(* loads for a host.  The commands of a part share files and come one      *)
(* after the other; different parts share none, so a behaviour is about    *)
(* one of them.                                                            *)
EXTENDS RunRecording, FixtureReplay, PerformanceReport, DogfoodRecording,
        HostEvidence, ReleaseEvidence

VARIABLE part  \* which part of the program this behaviour is about

Parts == {"run", "fixtures", "replays", "performance", "dogfood", "host", "release"}

cliVars ==
    <<vars, fixtureVars, replayVars, performanceVars, dogfoodVars, hostVars, releaseVars, part>>

(* What the other parts are given does not matter.                         *)
Pinned ==
    /\ part # "run"         => request = CHOOSE r \in Requests : TRUE
    /\ part # "fixtures"    => pack = CHOOSE p \in Packs : TRUE
    /\ part # "replays"     => corpus = CHOOSE c \in Corpora : TRUE
    /\ part # "performance" => thresholds = CHOOSE f \in ThresholdFiles : TRUE
    /\ part # "dogfood"     => dogfood = CHOOSE d \in Recordings : TRUE
    /\ part # "host" =>
         /\ evidence = CHOOSE e \in ExitDocuments : TRUE
         /\ manifest = CHOOSE m \in Manifests : TRUE
         /\ disk = CHOOSE d \in Disks : TRUE

CliInit ==
    /\ part \in Parts
    /\ Pinned
    /\ Init /\ FixtureInit /\ ReplayInit /\ PerformanceInit /\ DogfoodInit
    /\ HostInit /\ ReleaseInit

RunStep ==
    /\ part = "run" /\ Next
    /\ UNCHANGED <<fixtureVars, replayVars, performanceVars, dogfoodVars,
                   hostVars, releaseVars, part>>

FixtureStep ==
    /\ part = "fixtures" /\ FixtureNext
    /\ UNCHANGED <<vars, replayVars, performanceVars, dogfoodVars,
                   hostVars, releaseVars, part>>

ReplayStep ==
    /\ part = "replays" /\ PublicNext
    /\ UNCHANGED <<vars, fixtureVars, performanceVars, dogfoodVars,
                   hostVars, releaseVars, part>>

PerformanceStep ==
    /\ part = "performance" /\ PerformanceNext
    /\ UNCHANGED <<vars, fixtureVars, replayVars, dogfoodVars,
                   hostVars, releaseVars, part>>

DogfoodStep ==
    /\ part = "dogfood" /\ DogfoodNext
    /\ UNCHANGED <<vars, fixtureVars, replayVars, performanceVars,
                   hostVars, releaseVars, part>>

HostStep ==
    /\ part = "host" /\ HostNext
    /\ UNCHANGED <<vars, fixtureVars, replayVars, performanceVars,
                   dogfoodVars, releaseVars, part>>

ReleaseStep ==
    /\ part = "release" /\ ReleaseNext
    /\ UNCHANGED <<vars, fixtureVars, replayVars, performanceVars,
                   dogfoodVars, hostVars, part>>

(* The command has come to its end, or the bound on commands is reached.   *)
Ended ==
    /\ \/ part = "fixtures"    /\ runner \in {"passed", "failed", "rejected"}
       \/ part = "replays"     /\ replayCommand = "none" /\ replayCommands = MaxReplayCommands
       \/ part = "performance" /\ commands = MaxCommands
       \/ part = "dogfood"     /\ dogfoodStage \notin {"load", "replay"}
       \/ part = "host"        /\ stage \in {"accepted", "rejected"}
       \/ part = "release"     /\ generator = "none" /\ generations = MaxGenerations
    /\ UNCHANGED cliVars

CliNext ==
    \/ RunStep \/ FixtureStep \/ ReplayStep \/ PerformanceStep \/ DogfoodStep
    \/ HostStep \/ ReleaseStep \/ Ended

CliSpec == CliInit /\ [][CliNext]_cliVars

-----------------------------------------------------------------------------
(* Every variable of the part that runs has its type; the others keep what *)
(* they began with.                                                        *)
CliTypeOK ==
    CASE part = "run"         -> TypeOK
      [] part = "fixtures"    -> FixtureTypeOK
      [] part = "replays"     -> ReplayTypeOK
      [] part = "performance" -> PerformanceTypeOK
      [] part = "dogfood"     -> DogfoodTypeOK
      [] part = "host"        -> HostTypeOK
      [] part = "release"     -> ReleaseTypeOK
=============================================================================
