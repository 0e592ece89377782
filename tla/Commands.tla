------------------------------ MODULE Commands ------------------------------
(***************************************************************************)
(* The installed commands (_cli.py) with the recording, the capture and    *)
(* the replay they run (_mcp_evidence_replay.py, _mcp_reports.py): run,    *)
(* report and replay processes that share a directory with each other and  *)
(* with other programs.  A destination is inspected long before it is      *)
(* published; publishing is what ExclusiveFiles promises of it, reported   *)
(* in a step of its own.  An evaluation is modelled by the evidence it     *)
(* may be captured as.                                                     *)
(***************************************************************************)
EXTENDS FiniteSets

CONSTANTS Process,   \* commands that run at the same time
          Path,      \* what artifacts and reports are called
          Stdout,    \* the report destination "-"
          Evidence,  \* canonical evaluative projections of artifacts
          Eligible,  \* those that a report accepts
          Earlier,   \* the identity of an artifact recorded before
          Foreign,   \* a file of another program
          None,
          Disturbed  \* whether operations fail and others use the directory

(* What the properties tell apart of an artifact: who captured it, its     *)
(* evidence, whether a report accepts it, whether the live compatibility   *)
(* descriptor equals its own, and the lineage: the artifact it replays     *)
(* (named by its SHA-256) and whether it reproduced that one.              *)
Artifact == [kind: {"artifact"}, of: Process \cup {Earlier}, evidence: Evidence,
             reportable: BOOLEAN, compatible: BOOLEAN,
             source: Process \cup {Earlier, None}, matched: BOOLEAN]
Report == [kind: {"report"}, by: Process, describes: Artifact]
File == Artifact \cup Report \cup {Foreign}

ASSUME CommandsAssumption ==
    /\ Eligible \subseteq Evidence
    /\ Disturbed \in BOOLEAN
    /\ Stdout \notin Path
    /\ Earlier \notin Process
    /\ None \notin Process \cup Path \cup {Stdout, Earlier} \cup File
    /\ Foreign \notin Artifact \cup Report

VARIABLES
    command,  \* the parsed command line of each process
    control,  \* the statement it stands at, or how it ended
    source,   \* the artifact a replay read
    child,    \* the artifact captured from the evaluation
    report,   \* the artifact that the report was built from
    stdout,   \* the report written to the standard output
    files, kept  \* of ExclusiveFiles

fileVars == <<files, kept>>
vars == <<command, control, source, child, report, stdout, fileVars>>

Command ==
    [kind: {"run"}, artifact: Path, output: Path \cup {Stdout}]
    \cup [kind: {"report"}, artifact: Path, output: Path \cup {Stdout}]
    \cup [kind: {"replay"}, source: Path, artifact: Path, output: Path \cup {Stdout}]

Directory == INSTANCE ExclusiveFiles

Failed == {"run_failed", "replay_failed", "report_failed", "output_failed"}
Ended == Failed \cup {"success", "interrupted", "killed"}
Statements == {"artifact_destination", "report_destination", "read_source",
               "evaluate", "write_artifact", "keep_artifact", "build_report",
               "emit", "keep_report"}

TypeOK ==
    /\ command \in [Process -> Command]
    /\ control \in [Process -> Statements \cup Ended]
    /\ source \in [Process -> Artifact \cup {None}]
    /\ child \in [Process -> Artifact \cup {None}]
    /\ report \in [Process -> Artifact \cup {None}]
    /\ stdout \in [Process -> Report \cup {None}]
    /\ files \in [Path -> File \cup {None}]
    /\ kept \subseteq Path

FirstStatement(c) ==
    IF c.kind = "report" THEN "report_destination" ELSE "artifact_destination"

(* An earlier artifact may be of another runner or machine: incompatible,  *)
(* and perhaps not reportable although its evidence would be.              *)
Recorded == {a \in Artifact : /\ a.of = Earlier /\ a.source = None /\ ~a.matched
                              /\ a.reportable => a.evidence \in Eligible
                              /\ a.compatible => (a.reportable <=> a.evidence \in Eligible)}

Init ==
    /\ command \in [Process -> Command]
    /\ control = [q \in Process |-> FirstStatement(command[q])]
    /\ source = [q \in Process |-> None]
    /\ child = [q \in Process |-> None]
    /\ report = [q \in Process |-> None]
    /\ stdout = [q \in Process |-> None]
    /\ kept = {}
    /\ \/ files = [p \in Path |-> None]
       \/ \E p \in Path, a \in Recorded :
              files = [o \in Path |-> IF o = p THEN a ELSE None]

-----------------------------------------------------------------------------
At(q, s) == control[q] = s
GoTo(q, s) == control' = [control EXCEPT ![q] = s]

ArtifactOf(q) == command[q].artifact
OutputOf(q) == command[q].output

(* The paths of a command that its report must not share.                  *)
Others(q) == {ArtifactOf(q)} \cup
             (IF command[q].kind = "replay" THEN {command[q].source} ELSE {})

(* The category that a failing evaluation is reported as.                  *)
EvaluationFailed(q) == IF command[q].kind = "run" THEN "run_failed" ELSE "replay_failed"

(* _preflight_destination of the artifact, after _require_distinct.  An    *)
(* artifact "-", which is refused even earlier, is a path like any other.  *)
CheckArtifactDestination(q) ==
    /\ At(q, "artifact_destination")
    /\ IF /\ command[q].kind = "replay" => command[q].source # ArtifactOf(q)
          /\ files[ArtifactOf(q)] = None
       THEN GoTo(q, "report_destination") ELSE GoTo(q, "output_failed")
    /\ UNCHANGED <<command, source, child, report, stdout, fileVars>>

(* _preflight_report_output                                                *)
CheckReportDestination(q) ==
    /\ At(q, "report_destination")
    /\ IF OutputOf(q) = Stdout \/ (OutputOf(q) \notin Others(q) /\ files[OutputOf(q)] = None)
       THEN GoTo(q, CASE command[q].kind = "run" -> "evaluate"
                      [] command[q].kind = "report" -> "build_report"
                      [] command[q].kind = "replay" -> "read_source")
       ELSE GoTo(q, "output_failed")
    /\ UNCHANGED <<command, source, child, report, stdout, fileVars>>

(* replay_mcp_evidence up to the evaluation: a source that is no artifact  *)
(* or differs from the live descriptor is refused before anything runs.    *)
ReadSource(q) ==
    LET read == files[command[q].source]
    IN  /\ At(q, "read_source")
        /\ IF read \in Artifact /\ read.compatible
           THEN source' = [source EXCEPT ![q] = read] /\ GoTo(q, "evaluate")
           ELSE GoTo(q, "replay_failed") /\ UNCHANGED source
        /\ UNCHANGED <<command, child, report, stdout, fileVars>>

(* Slip: the child is compared with its own preliminary capture.           *)
CapturedMatching(q, evidence) ==
    [kind |-> "artifact", of |-> q, evidence |-> evidence,
     reportable |-> evidence \in Eligible, compatible |-> TRUE,
     source |-> IF source[q] = None THEN None ELSE source[q].of,
     matched |-> source[q] # None]

(* The projections of the source and of its child are equal.               *)
Reproduces(q, evidence) == source[q] # None /\ source[q].evidence = evidence

(* capture_mcp_evidence: evidence that no report accepts is kept, but      *)
(* marked as not reportable.                                               *)
Captured(q, evidence) ==
    [kind |-> "artifact", of |-> q, evidence |-> evidence,
     reportable |-> evidence \in Eligible, compatible |-> TRUE,
     source |-> IF source[q] = None THEN None ELSE source[q].of,
     matched |-> Reproduces(q, evidence)]

(* evaluate_case; that it, or the capture, raises is Fails.                *)
Evaluate(q) ==
    /\ At(q, "evaluate")
    /\ GoTo(q, "write_artifact")
    /\ \E evidence \in Evidence : child' = [child EXCEPT ![q] = Captured(q, evidence)]
    /\ UNCHANGED <<command, source, report, stdout, fileVars>>

(* Slip: a destination that was taken meanwhile is accepted as it is.      *)
WriteArtifactIfAbsent(q) ==
    /\ At(q, "write_artifact")
    /\ GoTo(q, "keep_artifact")
    /\ IF files[ArtifactOf(q)] = None
       THEN Directory!Publish(ArtifactOf(q), child[q]) ELSE UNCHANGED fileVars
    /\ UNCHANGED <<command, source, child, report, stdout>>

WriteArtifact(q) ==
    /\ At(q, "write_artifact")
    /\ IF files[ArtifactOf(q)] = None
       THEN GoTo(q, "keep_artifact") /\ Directory!Publish(ArtifactOf(q), child[q])
       ELSE GoTo(q, EvaluationFailed(q)) /\ UNCHANGED fileVars
    /\ UNCHANGED <<command, source, child, report, stdout>>

KeepArtifact(q) ==
    /\ At(q, "keep_artifact")
    /\ GoTo(q, "build_report")
    /\ Directory!Keep(ArtifactOf(q))
    /\ UNCHANGED <<command, source, child, report, stdout>>

(* build_mcp_report reads the artifact again, from its path.               *)
BuildReport(q) ==
    LET read == files[ArtifactOf(q)]
    IN  /\ At(q, "build_report")
        /\ IF read \in Artifact /\ read.reportable
           THEN report' = [report EXCEPT ![q] = read] /\ GoTo(q, "emit")
           ELSE GoTo(q, "report_failed") /\ UNCHANGED report
        /\ UNCHANGED <<command, source, child, stdout, fileVars>>

Rendered(q) == [kind |-> "report", by |-> q, describes |-> report[q]]

(* Slip: the command returns when its report is published, not synced.     *)
EmitWithoutSync(q) ==
    /\ At(q, "emit") /\ GoTo(q, "success")
    /\ IF OutputOf(q) = Stdout
       THEN stdout' = [stdout EXCEPT ![q] = Rendered(q)] /\ UNCHANGED fileVars
       ELSE Directory!Publish(OutputOf(q), Rendered(q)) /\ UNCHANGED stdout
    /\ UNCHANGED <<command, source, child, report>>

(* _emit and _write_report                                                 *)
Emit(q) ==
    /\ At(q, "emit")
    /\ \/ /\ OutputOf(q) = Stdout
          /\ GoTo(q, "success")
          /\ stdout' = [stdout EXCEPT ![q] = Rendered(q)]
          /\ UNCHANGED fileVars
       \/ /\ OutputOf(q) # Stdout /\ files[OutputOf(q)] = None
          /\ GoTo(q, "keep_report")
          /\ Directory!Publish(OutputOf(q), Rendered(q))
          /\ UNCHANGED stdout
       \/ /\ OutputOf(q) # Stdout /\ files[OutputOf(q)] # None
          /\ GoTo(q, "output_failed")
          /\ UNCHANGED <<stdout, fileVars>>
    /\ UNCHANGED <<command, source, child, report>>

KeepReport(q) ==
    /\ At(q, "keep_report")
    /\ GoTo(q, "success")
    /\ Directory!Keep(OutputOf(q))
    /\ UNCHANGED <<command, source, child, report, stdout>>

(* An exception in a statement, with the category it is reported as; what  *)
(* was published stays.  A trial without evidence, for one, is refused by  *)
(* the capture.                                                            *)
Category(q) ==
    CASE control[q] \in {"artifact_destination", "report_destination"} -> "output_failed"
      [] control[q] \in {"read_source", "evaluate", "write_artifact", "keep_artifact"} ->
             EvaluationFailed(q)
      [] control[q] = "build_report" -> "report_failed"
      [] control[q] \in {"emit", "keep_report"} -> "output_failed"

Fails(q) ==
    /\ Disturbed /\ control[q] \in Statements
    /\ GoTo(q, Category(q))
    /\ UNCHANGED <<command, source, child, report, stdout, fileVars>>

Stopped(q) ==
    /\ Disturbed /\ control[q] \in Statements
    /\ GoTo(q, "interrupted") \/ GoTo(q, "killed")
    /\ UNCHANGED <<command, source, child, report, stdout, fileVars>>

-----------------------------------------------------------------------------
CreateForeign(p) ==
    /\ Disturbed
    /\ Directory!Publish(p, Foreign)
    /\ UNCHANGED <<command, control, source, child, report, stdout>>

(* A command that had not begun may be one that is entered afterwards.     *)
PowerFailure ==
    /\ Disturbed
    /\ \E lost \in SUBSET Path : Directory!PowerFailure(lost)
    /\ control' = [q \in Process |->
           IF control[q] \in Statements \ {FirstStatement(command[q])}
           THEN "killed" ELSE control[q]]
    /\ UNCHANGED <<command, source, child, report, stdout>>

Execute(q) ==
    \/ CheckArtifactDestination(q) \/ CheckReportDestination(q) \/ ReadSource(q)
    \/ Evaluate(q) \/ WriteArtifact(q) \/ KeepArtifact(q) \/ BuildReport(q)
    \/ Emit(q) \/ KeepReport(q)

Next == \/ \E q \in Process : Execute(q) \/ Fails(q) \/ Stopped(q)
        \/ \E p \in Path : CreateForeign(p)
        \/ PowerFailure

Spec == Init /\ [][Next]_vars

-----------------------------------------------------------------------------
Emitted(q) ==
    IF OutputOf(q) = Stdout THEN stdout[q] = Rendered(q)
    ELSE files[OutputOf(q)] = Rendered(q) /\ OutputOf(q) \in kept

(* Exit status 0 means that the requested operation completed              *)
(* (README.md:130): the artifact of a run or a replay is in place, is the  *)
(* one that this command captured and is there to stay, and so is the      *)
(* report, whatever other commands and programs did to the directory       *)
(* between the command's checks and its writes.                            *)
StatusIsTrue ==
    \A q \in Process : At(q, "success") =>
        /\ report[q] # None /\ Emitted(q)
        /\ command[q].kind # "report" =>
               files[ArtifactOf(q)] = child[q] /\ ArtifactOf(q) \in kept

(* A report describes the evidence that the command was about: a run's and *)
(* a replay's own artifact, although it is read back by its path, and an   *)
(* eligible one, whoever emitted it.                                       *)
ReportsDescribeEvidence ==
    /\ \A q \in Process : report[q] # None =>
           /\ report[q].evidence \in Eligible
           /\ command[q].kind # "report" => report[q] = child[q]
    /\ \A p \in Path : files[p] \in Report =>
           LET q == files[p].by
           IN  command[q].kind # "report" => files[p].describes = child[q]

(* Lineage is true and has no cycle: a verified replay names an artifact   *)
(* that was there before it, which rules out that artifacts replay each    *)
(* other in a circle, and says whether it reproduced that one.             *)
LineageIsTrue ==
    LET InPlace == {p \in Path : files[p] \in Artifact}
    IN  /\ \A p, o \in InPlace :
               files[p].source = files[o].of =>
                   (files[p].matched <=> files[p].evidence = files[o].evidence)
        /\ \A circle \in (SUBSET InPlace) \ {{}} :
               \E p \in circle : \A o \in circle : files[p].source # files[o].of

(* "`0` means the artifact/report operation completed even if an axis is   *)
(* `FAIL`, `INCONCLUSIVE`, `ERROR`, or `UNVERIFIED`" (README.md:130-132):  *)
(* with no operation failing, a command that captured its evidence does    *)
(* not fail because of what the evidence says.                             *)
AxesDoNotDecideStatus ==
    \A q \in Process : child[q] # None => ~At(q, "report_failed")
=============================================================================
