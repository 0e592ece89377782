--------------------------- MODULE CommandsProofs ---------------------------
(***************************************************************************)
(* Theorems about Commands, for any number of commands and paths, with or  *)
(* without failing operations, other programs and power failures.          *)
(***************************************************************************)
EXTENDS Commands, TLAPS

(* Artifacts that are in the directory or were read by a replay.           *)
Known == {a \in Artifact : (\E p \in Path : files[p] = a) \/ (\E q \in Process : source[q] = a)}

(* There is a child from its capture on, and it never changes.             *)
ChildInv ==
    \A q \in Process :
        /\ control[q] \in {"artifact_destination", "report_destination", "read_source",
                           "evaluate"} => child[q] = None
        /\ control[q] \in {"write_artifact", "keep_artifact"} => child[q] # None
        /\ child[q] # None => child[q] = Captured(q, child[q].evidence)

(* Only a replay reads a source.  From its publication on a command owns   *)
(* the path of its artifact, from the sync on for good.                    *)
PlaceInv ==
    \A q \in Process :
        /\ At(q, "read_source") => command[q].kind = "replay"
        /\ At(q, "keep_artifact") => files[ArtifactOf(q)] = child[q]
        /\ /\ command[q].kind # "report"
           /\ control[q] \in {"build_report", "emit", "keep_report", "success"}
           => /\ child[q] # None
              /\ files[ArtifactOf(q)] = child[q]
              /\ ArtifactOf(q) \in kept

(* A report is built once, of what the command is about, and a published   *)
(* report is the one its command built.                                    *)
ReportInv ==
    /\ \A q \in Process :
        /\ control[q] \in Statements \ {"emit", "keep_report"} => report[q] = None
        /\ control[q] \in {"emit", "keep_report", "success"} => report[q] # None
        /\ report[q] # None => /\ report[q].evidence \in Eligible
                               /\ command[q].kind # "report" => report[q] = child[q]
        /\ At(q, "keep_report") => OutputOf(q) # Stdout /\ files[OutputOf(q)] = Rendered(q)
        /\ At(q, "success") => Emitted(q)
    /\ \A p \in Path : files[p] \in Report =>
           report[files[p].by] # None /\ files[p].describes = report[files[p].by]

(* The identity of an artifact tells which one it is, and artifacts do not *)
(* replay each other in a circle.                                          *)
LineageInv ==
    /\ \A a \in Known : /\ a.of \in Process => a = child[a.of]
                        /\ a.of = Earlier => a \in Recorded
    /\ \A a, b \in Known : a.of = Earlier /\ b.of = Earlier => a = b
    /\ \A circle \in (SUBSET Process) \ {{}} :
           \E q \in circle : child[q] = None \/ child[q].source \notin circle

CommandsInv ==
    /\ TypeOK
    /\ ChildInv
    /\ PlaceInv
    /\ ReportInv
    /\ LineageInv

-----------------------------------------------------------------------------
LEMMA CommandShape ==
    ASSUME NEW c \in Command
    PROVE  /\ c.kind \in {"run", "report", "replay"}
           /\ c.artifact \in Path /\ c.output \in Path \cup {Stdout}
           /\ c.kind = "replay" => c.source \in Path
BY DEF Command

LEMMA ArtifactShape ==
    ASSUME NEW a \in Artifact
    PROVE  /\ a \notin Report /\ a # Foreign /\ a # None
           /\ a.of \in Process \cup {Earlier} /\ a.evidence \in Evidence
           /\ a.reportable \in BOOLEAN /\ a.matched \in BOOLEAN
BY CommandsAssumption DEF Artifact, Report, File

LEMMA ReportShape ==
    ASSUME NEW r \in Report
    PROVE  r \notin Artifact /\ r # Foreign /\ r # None /\ r.by \in Process /\ r.describes \in Artifact
BY CommandsAssumption DEF Artifact, Report, File

LEMMA CapturedShape ==
    ASSUME TypeOK, NEW q \in Process, NEW evidence \in Evidence
    PROVE  /\ Captured(q, evidence) \in Artifact
           /\ Captured(q, evidence).of = q
           /\ Captured(q, evidence).evidence = evidence
           /\ Captured(q, evidence).reportable <=> evidence \in Eligible
           /\ Captured(q, evidence).source = IF source[q] = None THEN None ELSE source[q].of
           /\ Captured(q, evidence).matched <=> Reproduces(q, evidence)
<1>1. source[q] # None => source[q].of \in Process \cup {Earlier}
  BY ArtifactShape DEF TypeOK
<1> DEFINE lineage == IF source[q] = None THEN None ELSE source[q].of
<1>2. lineage \in Process \cup {Earlier, None}
  BY <1>1
<1>3. (evidence \in Eligible) \in BOOLEAN /\ Reproduces(q, evidence) \in BOOLEAN
  BY DEF Reproduces
<1>4. Captured(q, evidence) \in Artifact
  <2> HIDE DEF lineage
  <2> SUFFICES [kind |-> "artifact", of |-> q, evidence |-> evidence,
                reportable |-> evidence \in Eligible, compatible |-> TRUE,
                source |-> lineage, matched |-> Reproduces(q, evidence)] \in Artifact
    BY DEF Captured, lineage
  <2> QED
    BY <1>2, <1>3 DEF Artifact
<1> QED
  BY <1>4 DEF Captured

LEMMA RenderedShape ==
    ASSUME NEW q \in Process, report[q] \in Artifact
    PROVE  Rendered(q) \in Report /\ Rendered(q) # None
BY ReportShape DEF Rendered, Report

LEMMA InvInit == Init => CommandsInv
<1> SUFFICES ASSUME Init PROVE CommandsInv
  OBVIOUS
<1> USE DEF Init
<1>1. \A q \in Process : control[q] \in {"artifact_destination", "report_destination"}
  BY DEF FirstStatement
<1>2. \A p \in Path : files[p] = None \/ files[p] \in Recorded
  OBVIOUS
<1>3. \A a, b \in Artifact : (\E p \in Path : files[p] = a) /\ (\E p \in Path : files[p] = b) => a = b
  BY ArtifactShape
<1>4. Recorded \subseteq Artifact
  BY DEF Recorded
<1>5. TypeOK
  BY <1>2, <1>4 DEF TypeOK, FirstStatement, Statements, File
<1>6. ChildInv /\ PlaceInv
  BY <1>1 DEF ChildInv, PlaceInv, At
<1>7. ReportInv
  BY <1>1, <1>2, <1>4, ReportShape DEF ReportInv, At
<1>8. Known \subseteq Recorded
  BY <1>2, ArtifactShape DEF Known
<1>9. LineageInv
  BY <1>3, <1>8, CommandsAssumption, ArtifactShape DEF LineageInv, Known, Recorded
<1> QED
  BY <1>5, <1>6, <1>7, <1>9 DEF CommandsInv

-----------------------------------------------------------------------------
(* A step that shows no new artifact and captures none.                    *)
LEMMA LineageFrame ==
    ASSUME LineageInv, child' = child, Known' \subseteq Known
    PROVE  LineageInv'
BY DEF LineageInv, Recorded

LEMMA SameKnown ==
    ASSUME UNCHANGED <<files, source>>
    PROVE  Known' = Known
BY DEF Known

(* A step of one command that changes nothing but where it stands.         *)
LEMMA ControlOnly ==
    ASSUME CommandsInv, NEW q \in Process, NEW s \in Statements \cup Ended,
           control' = [control EXCEPT ![q] = s],
           UNCHANGED <<command, source, child, report, stdout, fileVars>>,
           \/ s \in (Failed \cup {"interrupted", "killed"})
           \/ /\ control[q] \in {"artifact_destination", "report_destination"}
              /\ \/ s \in {"report_destination", "evaluate"}
                 \/ s = "read_source" /\ command[q].kind = "replay"
                 \/ s = "build_report" /\ command[q].kind = "report"
    PROVE  CommandsInv'
<1> USE DEF fileVars
<1>t. TypeOK
  BY DEF CommandsInv
<1>c. control'[q] = s /\ \A r \in Process \ {q} : control'[r] = control[r]
  BY <1>t DEF TypeOK
<1>1. TypeOK'
  BY <1>t DEF TypeOK
<1>2. ChildInv'
  <2> SUFFICES ASSUME NEW r \in Process
               PROVE  /\ control'[r] \in {"artifact_destination", "report_destination",
                                          "read_source", "evaluate"} => child[r] = None
                      /\ control'[r] \in {"write_artifact", "keep_artifact"} => child[r] # None
                      /\ child[r] # None => child[r] = Captured(r, child[r].evidence)
    BY DEF ChildInv, Captured, Reproduces
  <2> QED
    BY <1>c DEF CommandsInv, ChildInv, Failed
<1>3. PlaceInv'
  BY <1>c DEF CommandsInv, PlaceInv, At, Failed, ArtifactOf
<1>4. ReportInv'
  <2> SUFFICES ASSUME NEW r \in Process
               PROVE  /\ control'[r] \in Statements \ {"emit", "keep_report"} => report[r] = None
                      /\ control'[r] \in {"emit", "keep_report", "success"} => report[r] # None
                      /\ control'[r] = "keep_report" =>
                             OutputOf(r) # Stdout /\ files[OutputOf(r)] = Rendered(r)
                      /\ control'[r] = "success" => Emitted(r)
    BY DEF CommandsInv, ReportInv, At, OutputOf, Rendered, Emitted
  <2> QED
    BY <1>c DEF CommandsInv, ReportInv, At, Failed, Statements
<1>5. LineageInv'
  BY SameKnown, LineageFrame DEF CommandsInv
<1> QED
  BY <1>1, <1>2, <1>3, <1>4, <1>5 DEF CommandsInv

LEMMA ReadSourceStep ==
    ASSUME CommandsInv, NEW q \in Process, ReadSource(q)
    PROVE  CommandsInv'
<1> USE DEF At, GoTo, fileVars
<1>t. TypeOK
  BY DEF CommandsInv
<1> DEFINE read == files[command[q].source]
<1>1. CASE ~(read \in Artifact /\ read.compatible)
  <2>1. GoTo(q, "replay_failed") /\ UNCHANGED source
    BY <1>1 DEF ReadSource
  <2> QED
    BY <2>1, ControlOnly DEF ReadSource, Failed, Ended
<1>2. CASE read \in Artifact /\ read.compatible
  <2>1. /\ control[q] = "read_source"
        /\ control' = [control EXCEPT ![q] = "evaluate"]
        /\ source' = [source EXCEPT ![q] = read]
        /\ UNCHANGED <<command, child, report, stdout, fileVars>>
    BY <1>2 DEF ReadSource
  <2>c. control'[q] = "evaluate" /\ \A r \in Process \ {q} : control'[r] = control[r]
    BY <1>t, <2>1 DEF TypeOK
  <2>s. source'[q] = read /\ \A r \in Process \ {q} : source'[r] = source[r]
    BY <1>t, <2>1 DEF TypeOK
  <2>2. TypeOK'
    BY <1>t, <1>2, <2>1 DEF TypeOK, Statements
  <2>3. ChildInv'
    <3> SUFFICES ASSUME NEW r \in Process
                 PROVE  /\ control'[r] \in {"artifact_destination", "report_destination",
                                            "read_source", "evaluate"} => child[r] = None
                        /\ control'[r] \in {"write_artifact", "keep_artifact"} => child[r] # None
                        /\ child[r] # None => child[r] = Captured(r, child[r].evidence)'
      BY <2>1 DEF ChildInv, Captured, Reproduces
    <3>1. child[q] = None
      BY <2>1 DEF CommandsInv, ChildInv
    <3>2. CASE r = q
      BY <2>c, <3>1, <3>2
    <3>3. CASE r # q
      BY <2>1, <2>c, <2>s, <3>3 DEF CommandsInv, ChildInv, Captured, Reproduces
    <3> QED
      BY <3>2, <3>3
  <2>4. PlaceInv'
    BY <2>1, <2>c DEF CommandsInv, PlaceInv, ArtifactOf
  <2>5. ReportInv'
    BY <2>1, <2>c DEF CommandsInv, ReportInv, OutputOf, Rendered, Emitted, Statements
  <2>6. Known' \subseteq Known
    <3>1. command[q] \in Command
      BY <1>t DEF TypeOK
    <3>2. command[q].source \in Path
      BY <2>1, <3>1, CommandShape DEF CommandsInv, PlaceInv
    <3> QED
      BY <1>2, <2>1, <2>s, <3>2 DEF Known
  <2>7. LineageInv'
    BY <2>1, <2>6, LineageFrame DEF CommandsInv
  <2> QED
    BY <2>2, <2>3, <2>4, <2>5, <2>7 DEF CommandsInv
<1> QED
  BY <1>1, <1>2

LEMMA EvaluateStep ==
    ASSUME CommandsInv, NEW q \in Process, Evaluate(q)
    PROVE  CommandsInv'
<1> USE DEF At, GoTo, fileVars
<1>t. TypeOK
  BY DEF CommandsInv
<1>0. PICK evidence \in Evidence : child' = [child EXCEPT ![q] = Captured(q, evidence)]
  BY DEF Evaluate
<1>1. /\ control[q] = "evaluate"
      /\ control' = [control EXCEPT ![q] = "write_artifact"]
      /\ UNCHANGED <<command, source, report, stdout, fileVars>>
  BY DEF Evaluate
<1>c. control'[q] = "write_artifact" /\ \A r \in Process \ {q} : control'[r] = control[r]
  BY <1>t, <1>1 DEF TypeOK
<1>n. child'[q] = Captured(q, evidence) /\ \A r \in Process \ {q} : child'[r] = child[r]
  BY <1>t, <1>0 DEF TypeOK
<1>s. /\ Captured(q, evidence) \in Artifact
      /\ Captured(q, evidence).evidence = evidence
      /\ Captured(q, evidence).source = IF source[q] = None THEN None ELSE source[q].of
  BY <1>t, CapturedShape
<1>o. child[q] = None
  BY <1>1 DEF CommandsInv, ChildInv
<1>2. TypeOK'
  BY <1>t, <1>0, <1>1, <1>s DEF TypeOK, Statements
<1>3. ChildInv'
  <2> SUFFICES ASSUME NEW r \in Process
               PROVE  /\ control'[r] \in {"artifact_destination", "report_destination",
                                          "read_source", "evaluate"} => child'[r] = None
                      /\ control'[r] \in {"write_artifact", "keep_artifact"} => child'[r] # None
                      /\ child'[r] # None => child'[r] = Captured(r, child'[r].evidence)
    BY <1>1 DEF ChildInv, Captured, Reproduces
  <2>1. CASE r = q
    BY <1>c, <1>n, <1>s, <2>1, ArtifactShape
  <2>2. CASE r # q
    BY <1>c, <1>n, <2>2 DEF CommandsInv, ChildInv
  <2> QED
    BY <2>1, <2>2
<1>4. PlaceInv'
  BY <1>1, <1>c, <1>n DEF CommandsInv, PlaceInv, ArtifactOf
<1>5. ReportInv'
  <2>1. report[q] = None
    BY <1>1 DEF CommandsInv, ReportInv, Statements
  <2> QED
    BY <1>1, <1>c, <1>n, <2>1 DEF CommandsInv, ReportInv, OutputOf, Rendered, Emitted, Statements
<1>6. LineageInv'
  <2>1. Known' = Known
    BY <1>1, SameKnown
  <2>2. \A a \in Known : a.of # q
    BY <1>o, ArtifactShape DEF CommandsInv, LineageInv, Known
  <2>3. \A r \in Process : source[r] # None => source[r] \in Known
    BY <1>t DEF TypeOK, Known
  <2>4. \A r \in Process : child[r] # None =>
            child[r].source = IF source[r] = None THEN None ELSE source[r].of
    BY <1>t, CapturedShape, ArtifactShape DEF CommandsInv, ChildInv, TypeOK
  <2>5. \A r \in Process : child'[r] # None =>
            child'[r].source # q
    BY <1>n, <1>s, <2>2, <2>3, <2>4, CommandsAssumption
  <2>6. \A a \in Known : /\ a.of \in Process => a = child'[a.of]
                         /\ a.of = Earlier => a \in Recorded
    BY <1>n, <2>2 DEF CommandsInv, LineageInv
  <2>7. ASSUME NEW circle \in (SUBSET Process) \ {{}},
               \A r \in circle : child'[r] # None /\ child'[r].source \in circle
        PROVE  FALSE
    <3>1. circle \ {q} \in (SUBSET Process) \ {{}}
      BY <2>5, <2>7
    <3>2. \A r \in circle \ {q} : child[r] # None /\ child[r].source \in circle \ {q}
      BY <1>n, <2>5, <2>7
    <3> QED
      BY <3>1, <3>2 DEF CommandsInv, LineageInv
  <2> QED
    BY <2>1, <2>6, <2>7 DEF CommandsInv, LineageInv, Recorded
<1> QED
  BY <1>2, <1>3, <1>4, <1>5, <1>6 DEF CommandsInv

(* What publishing does to the directory.                                  *)
LEMMA PublishFrame ==
    ASSUME TypeOK, NEW p \in Path, NEW f \in File, Directory!Publish(p, f)
    PROVE  /\ files[p] = None /\ files'[p] = f /\ f # None
           /\ \A o \in Path : files'[o] = files[o] \/ (o = p /\ files'[o] = f)
           /\ \A o \in Path : files[o] # None => files'[o] = files[o]
           /\ files' \in [Path -> File \cup {None}]
           /\ kept' = kept
BY CommandsAssumption DEF Directory!Publish, TypeOK

LEMMA WriteArtifactStep ==
    ASSUME CommandsInv, NEW q \in Process, WriteArtifact(q)
    PROVE  CommandsInv'
<1> USE DEF At, GoTo
<1>t. TypeOK
  BY DEF CommandsInv
<1>k. command[q] \in Command /\ ArtifactOf(q) \in Path
  BY <1>t, CommandShape DEF TypeOK, ArtifactOf
<1>1. CASE files[ArtifactOf(q)] # None
  <2>1. control' = [control EXCEPT ![q] = EvaluationFailed(q)] /\ UNCHANGED fileVars
    BY <1>1 DEF WriteArtifact
  <2>2. EvaluationFailed(q) \in Failed
    BY DEF EvaluationFailed, Failed
  <2> QED
    BY <2>1, <2>2, ControlOnly DEF WriteArtifact, Ended
<1>2. CASE files[ArtifactOf(q)] = None
  <2>1. /\ control[q] = "write_artifact"
        /\ control' = [control EXCEPT ![q] = "keep_artifact"]
        /\ Directory!Publish(ArtifactOf(q), child[q])
        /\ UNCHANGED <<command, source, child, report, stdout>>
    BY <1>2 DEF WriteArtifact
  <2>n. child[q] \in Artifact
    BY <1>t, <2>1 DEF CommandsInv, ChildInv, TypeOK
  <2>c. control'[q] = "keep_artifact" /\ \A r \in Process \ {q} : control'[r] = control[r]
    BY <1>t, <2>1 DEF TypeOK
  <2>f. /\ files'[ArtifactOf(q)] = child[q]
        /\ \A o \in Path : files'[o] = files[o] \/ files'[o] = child[q]
        /\ \A o \in Path : files[o] # None => files'[o] = files[o]
        /\ files' \in [Path -> File \cup {None}]
        /\ kept' = kept
    BY <1>t, <1>k, <2>1, <2>n, PublishFrame DEF File
  <2>2. TypeOK'
    BY <1>t, <2>1, <2>f DEF TypeOK, Statements
  <2>3. ChildInv'
    BY <2>1, <2>c DEF CommandsInv, ChildInv, Captured, Reproduces
  <2>4. PlaceInv'
    <3> SUFFICES ASSUME NEW r \in Process
                 PROVE  /\ control'[r] = "read_source" => command[r].kind = "replay"
                        /\ control'[r] = "keep_artifact" => files'[ArtifactOf(r)] = child[r]
                        /\ /\ command[r].kind # "report"
                           /\ control'[r] \in {"build_report", "emit", "keep_report", "success"}
                           => /\ child[r] # None
                              /\ files'[ArtifactOf(r)] = child[r]
                              /\ ArtifactOf(r) \in kept
      BY <2>1, <2>f DEF PlaceInv, ArtifactOf
    <3>1. CASE r = q
      BY <2>c, <2>f, <3>1
    <3>2. CASE r # q
      <4>1. ArtifactOf(r) \in Path
        BY <1>t, CommandShape DEF TypeOK, ArtifactOf
      <4>2. control[r] = "keep_artifact" => child[r] # None
        BY DEF CommandsInv, ChildInv
      <4> QED
        BY <2>c, <2>f, <3>2, <4>1, <4>2 DEF CommandsInv, PlaceInv
    <3> QED
      BY <3>1, <3>2
  <2>5. ReportInv'
    <3>1. \A r \in Process : OutputOf(r) \in Path \cup {Stdout}
      BY <1>t, CommandShape DEF TypeOK, OutputOf
    <3>2. \A r \in Process : report[r] # None => Rendered(r) # None
      BY <1>t, RenderedShape DEF TypeOK
    <3>3. \A p \in Path : files'[p] \in Report => files'[p] = files[p]
      BY <2>n, <2>f, ArtifactShape
    <3> QED
      BY <2>1, <2>c, <2>f, <3>1, <3>2, <3>3 DEF CommandsInv, ReportInv, OutputOf, Rendered, Emitted, Statements
  <2>6. LineageInv'
    <3>1. Known' \subseteq Known \cup {child[q]}
      BY <2>1, <2>f DEF Known
    <3>2. child[q].of = q
      BY <1>t, <2>n, CapturedShape, ArtifactShape DEF CommandsInv, ChildInv
    <3>3. \A a \in Known' : a \in Known \/ (a = child[q] /\ a.of = q)
      BY <3>1, <3>2
    <3> QED
      BY <2>1, <3>3, CommandsAssumption DEF CommandsInv, LineageInv, Recorded
  <2> QED
    BY <2>2, <2>3, <2>4, <2>5, <2>6 DEF CommandsInv
<1> QED
  BY <1>1, <1>2

LEMMA KeepArtifactStep ==
    ASSUME CommandsInv, NEW q \in Process, KeepArtifact(q)
    PROVE  CommandsInv'
<1> USE DEF At
<1>t. TypeOK
  BY DEF CommandsInv
<1>k. ArtifactOf(q) \in Path
  BY <1>t, CommandShape DEF TypeOK, ArtifactOf
<1>1. /\ control[q] = "keep_artifact"
      /\ control' = [control EXCEPT ![q] = "build_report"]
      /\ kept' = kept \cup {ArtifactOf(q)}
      /\ UNCHANGED <<command, source, child, report, stdout, files>>
  BY DEF KeepArtifact, GoTo, Directory!Keep
<1>c. control'[q] = "build_report" /\ \A r \in Process \ {q} : control'[r] = control[r]
  BY <1>t, <1>1 DEF TypeOK
<1>2. TypeOK'
  BY <1>t, <1>k, <1>1 DEF TypeOK, Statements
<1>3. ChildInv'
  BY <1>1, <1>c DEF CommandsInv, ChildInv, Captured, Reproduces
<1>4. PlaceInv'
  <2>1. child[q] # None /\ files[ArtifactOf(q)] = child[q]
    BY <1>1 DEF CommandsInv, ChildInv, PlaceInv
  <2> QED
    BY <1>1, <1>c, <2>1 DEF CommandsInv, PlaceInv, ArtifactOf
<1>5. ReportInv'
  BY <1>1, <1>c DEF CommandsInv, ReportInv, OutputOf, Rendered, Emitted, Statements
<1>6. LineageInv'
  BY <1>1, SameKnown, LineageFrame DEF CommandsInv
<1> QED
  BY <1>2, <1>3, <1>4, <1>5, <1>6 DEF CommandsInv

LEMMA BuildReportStep ==
    ASSUME CommandsInv, NEW q \in Process, BuildReport(q)
    PROVE  CommandsInv'
<1> USE DEF At, GoTo, fileVars
<1>t. TypeOK
  BY DEF CommandsInv
<1>k. ArtifactOf(q) \in Path
  BY <1>t, CommandShape DEF TypeOK, ArtifactOf
<1> DEFINE read == files[ArtifactOf(q)]
<1>1. CASE ~(read \in Artifact /\ read.reportable)
  <2>1. GoTo(q, "report_failed") /\ UNCHANGED report
    BY <1>1 DEF BuildReport
  <2> QED
    BY <2>1, ControlOnly DEF BuildReport, Failed, Ended
<1>2. CASE read \in Artifact /\ read.reportable
  <2>1. /\ control[q] = "build_report"
        /\ control' = [control EXCEPT ![q] = "emit"]
        /\ report' = [report EXCEPT ![q] = read]
        /\ UNCHANGED <<command, source, child, stdout, fileVars>>
    BY <1>2 DEF BuildReport
  <2>c. control'[q] = "emit" /\ \A r \in Process \ {q} : control'[r] = control[r]
    BY <1>t, <2>1 DEF TypeOK
  <2>r. report'[q] = read /\ \A r \in Process \ {q} : report'[r] = report[r]
    BY <1>t, <2>1 DEF TypeOK
  <2>2. TypeOK'
    BY <1>t, <1>2, <2>1 DEF TypeOK, Statements
  <2>3. ChildInv'
    BY <2>1, <2>c DEF CommandsInv, ChildInv, Captured, Reproduces
  <2>4. PlaceInv'
    BY <2>1, <2>c DEF CommandsInv, PlaceInv, ArtifactOf
  <2>5. ReportInv'
    <3>1. read # None
      BY <1>2, ArtifactShape
    <3>2. read.evidence \in Eligible
      <4>1. read \in Known
        BY <1>k, <1>2 DEF Known
      <4>2. CASE read.of = Earlier
        BY <1>2, <4>1, <4>2 DEF CommandsInv, LineageInv, Recorded
      <4>3. CASE read.of \in Process
        <5>1. read = child[read.of] /\ child[read.of] # None
          BY <3>1, <4>1, <4>3 DEF CommandsInv, LineageInv
        <5>2. read = Captured(read.of, read.evidence) /\ read.evidence \in Evidence
          BY <1>2, <4>3, <5>1, ArtifactShape DEF CommandsInv, ChildInv
        <5> QED
          BY <1>t, <1>2, <4>3, <5>2, CapturedShape
      <4> QED
        BY <1>2, <4>2, <4>3, ArtifactShape
    <3>3. command[q].kind # "report" => read = child[q]
      BY <2>1 DEF CommandsInv, PlaceInv
    <3>4. report[q] = None
      BY <2>1 DEF CommandsInv, ReportInv, Statements
    <3>5. \A r \in Process : r # q => Rendered(r)' = Rendered(r)
      BY <2>r DEF Rendered
    <3>6. ASSUME NEW r \in Process
          PROVE  /\ control'[r] \in Statements \ {"emit", "keep_report"} => report'[r] = None
                 /\ control'[r] \in {"emit", "keep_report", "success"} => report'[r] # None
                 /\ report'[r] # None =>
                        /\ report'[r].evidence \in Eligible
                        /\ command[r].kind # "report" => report'[r] = child[r]
                 /\ control'[r] = "keep_report" =>
                        OutputOf(r) # Stdout /\ files[OutputOf(r)] = Rendered(r)'
                 /\ control'[r] = "success" => Emitted(r)'
      <4>1. CASE r = q
        BY <2>c, <2>r, <3>1, <3>2, <3>3, <4>1
      <4>2. CASE r # q
        BY <2>1, <2>c, <2>r, <3>5, <4>2 DEF CommandsInv, ReportInv, Emitted, OutputOf
      <4> QED
        BY <4>1, <4>2
    <3>7. ASSUME NEW p \in Path, files[p] \in Report
          PROVE  report'[files[p].by] # None /\ files[p].describes = report'[files[p].by]
      BY <2>r, <3>4, <3>7, ReportShape DEF CommandsInv, ReportInv
    <3> QED
      BY <2>1, <3>6, <3>7 DEF ReportInv, OutputOf
  <2>6. LineageInv'
    BY <2>1, SameKnown, LineageFrame DEF CommandsInv
  <2> QED
    BY <2>2, <2>3, <2>4, <2>5, <2>6 DEF CommandsInv
<1> QED
  BY <1>1, <1>2

LEMMA KeepReportStep ==
    ASSUME CommandsInv, NEW q \in Process, KeepReport(q)
    PROVE  CommandsInv'
<1> USE DEF At
<1>t. TypeOK
  BY DEF CommandsInv
<1>k. OutputOf(q) \in Path \cup {Stdout}
  BY <1>t, CommandShape DEF TypeOK, OutputOf
<1>1. /\ control[q] = "keep_report"
      /\ control' = [control EXCEPT ![q] = "success"]
      /\ kept' = kept \cup {OutputOf(q)}
      /\ UNCHANGED <<command, source, child, report, stdout, files>>
  BY DEF KeepReport, GoTo, Directory!Keep
<1>c. control'[q] = "success" /\ \A r \in Process \ {q} : control'[r] = control[r]
  BY <1>t, <1>1 DEF TypeOK
<1>r. OutputOf(q) # Stdout /\ files[OutputOf(q)] = Rendered(q) /\ report[q] # None
  BY <1>1 DEF CommandsInv, ReportInv
<1>2. TypeOK'
  BY <1>t, <1>k, <1>r, <1>1 DEF TypeOK, Ended
<1>3. ChildInv'
  BY <1>1, <1>c DEF CommandsInv, ChildInv, Captured, Reproduces
<1>4. PlaceInv'
  BY <1>1, <1>c DEF CommandsInv, PlaceInv, ArtifactOf
<1>5. ReportInv'
  BY <1>1, <1>c, <1>r DEF CommandsInv, ReportInv, OutputOf, Rendered, Emitted, Statements
<1>6. LineageInv'
  BY <1>1, SameKnown, LineageFrame DEF CommandsInv
<1> QED
  BY <1>2, <1>3, <1>4, <1>5, <1>6 DEF CommandsInv

LEMMA EmitStep ==
    ASSUME CommandsInv, NEW q \in Process, Emit(q)
    PROVE  CommandsInv'
<1> USE DEF At, GoTo
<1>t. TypeOK
  BY DEF CommandsInv
<1>k. \A r \in Process : OutputOf(r) \in Path \cup {Stdout} /\ ArtifactOf(r) \in Path
  BY <1>t, CommandShape DEF TypeOK, OutputOf, ArtifactOf
<1>0. control[q] = "emit" /\ UNCHANGED <<command, source, child, report>>
  BY DEF Emit
<1>p. report[q] # None /\ Rendered(q) \in Report
  <2>1. report[q] # None
    BY <1>0 DEF CommandsInv, ReportInv
  <2> QED
    BY <1>t, <2>1, RenderedShape DEF TypeOK
<1>v. \A r \in Process : report[r] # None => Rendered(r) # None
  BY <1>t, RenderedShape DEF TypeOK
<1>1. CASE OutputOf(q) = Stdout
  <2>1. /\ control' = [control EXCEPT ![q] = "success"]
        /\ stdout' = [stdout EXCEPT ![q] = Rendered(q)]
        /\ UNCHANGED fileVars
    BY <1>1 DEF Emit
  <2>c. control'[q] = "success" /\ \A r \in Process \ {q} : control'[r] = control[r]
    BY <1>t, <2>1 DEF TypeOK
  <2>s. stdout'[q] = Rendered(q) /\ \A r \in Process \ {q} : stdout'[r] = stdout[r]
    BY <1>t, <2>1 DEF TypeOK
  <2>2. TypeOK'
    BY <1>t, <1>0, <1>p, <2>1 DEF TypeOK, Ended, fileVars
  <2>3. ChildInv' /\ PlaceInv'
    BY <1>0, <2>1, <2>c DEF CommandsInv, ChildInv, PlaceInv, Captured, Reproduces, ArtifactOf, fileVars
  <2>4. ReportInv'
    BY <1>0, <1>1, <1>p, <2>1, <2>c, <2>s
       DEF CommandsInv, ReportInv, OutputOf, Rendered, Emitted, Statements, fileVars
  <2>5. LineageInv'
    BY <1>0, <2>1, SameKnown, LineageFrame DEF CommandsInv, fileVars
  <2> QED
    BY <2>2, <2>3, <2>4, <2>5 DEF CommandsInv
<1>2. CASE OutputOf(q) # Stdout /\ files[OutputOf(q)] # None
  <2>1. control' = [control EXCEPT ![q] = "output_failed"] /\ UNCHANGED <<stdout, fileVars>>
    BY <1>2 DEF Emit
  <2> QED
    BY <1>0, <2>1, ControlOnly DEF Failed, Ended
<1>3. CASE OutputOf(q) # Stdout /\ files[OutputOf(q)] = None
  <2>1. /\ control' = [control EXCEPT ![q] = "keep_report"]
        /\ Directory!Publish(OutputOf(q), Rendered(q))
        /\ UNCHANGED stdout
    BY <1>3 DEF Emit
  <2>c. control'[q] = "keep_report" /\ \A r \in Process \ {q} : control'[r] = control[r]
    BY <1>t, <2>1 DEF TypeOK
  <2>f. /\ files'[OutputOf(q)] = Rendered(q)
        /\ \A o \in Path : files'[o] = files[o] \/ files'[o] = Rendered(q)
        /\ \A o \in Path : files[o] # None => files'[o] = files[o]
        /\ files' \in [Path -> File \cup {None}]
        /\ kept' = kept
    BY <1>t, <1>k, <1>p, <1>3, <2>1, PublishFrame DEF File
  <2>2. TypeOK'
    BY <1>t, <1>0, <2>1, <2>f DEF TypeOK, Statements
  <2>3. ChildInv'
    BY <1>0, <2>c DEF CommandsInv, ChildInv, Captured, Reproduces
  <2>4. PlaceInv'
    <3>1. \A r \in Process : control[r] = "keep_artifact" => child[r] # None
      BY DEF CommandsInv, ChildInv
    <3> QED
      BY <1>0, <1>k, <2>c, <2>f, <3>1 DEF CommandsInv, PlaceInv, ArtifactOf
  <2>5. ReportInv'
    <3>1. ASSUME NEW r \in Process
          PROVE  /\ control'[r] \in Statements \ {"emit", "keep_report"} => report[r] = None
                 /\ control'[r] \in {"emit", "keep_report", "success"} => report[r] # None
                 /\ control'[r] = "keep_report" =>
                        OutputOf(r) # Stdout /\ files'[OutputOf(r)] = Rendered(r)
                 /\ control'[r] = "success" => Emitted(r)'
      <4>1. CASE r = q
        BY <1>3, <1>p, <2>c, <2>f, <4>1
      <4>2. CASE r # q
        BY <1>0, <1>k, <1>v, <2>1, <2>c, <2>f, <4>2
           DEF CommandsInv, ReportInv, Emitted, OutputOf, Rendered
      <4> QED
        BY <4>1, <4>2
    <3>2. ASSUME NEW p \in Path, files'[p] \in Report
          PROVE  report[files'[p].by] # None /\ files'[p].describes = report[files'[p].by]
      <4>1. CASE files'[p] = files[p]
        BY <3>2, <4>1 DEF CommandsInv, ReportInv
      <4>2. CASE files'[p] = Rendered(q)
        BY <1>p, <4>2 DEF Rendered
      <4> QED
        BY <2>f, <4>1, <4>2
    <3> QED
      BY <1>0, <3>1, <3>2 DEF CommandsInv, ReportInv, OutputOf, Rendered
  <2>6. Known' \subseteq Known
    BY <1>0, <1>p, <2>f, ReportShape DEF Known
  <2>7. LineageInv'
    BY <1>0, <2>6, LineageFrame DEF CommandsInv
  <2> QED
    BY <2>2, <2>3, <2>4, <2>5, <2>7 DEF CommandsInv
<1> QED
  BY <1>1, <1>2, <1>3

LEMMA CreateForeignStep ==
    ASSUME CommandsInv, NEW p \in Path, CreateForeign(p)
    PROVE  CommandsInv'
<1> USE DEF At
<1>t. TypeOK
  BY DEF CommandsInv
<1>k. \A r \in Process : OutputOf(r) \in Path \cup {Stdout} /\ ArtifactOf(r) \in Path
  BY <1>t, CommandShape DEF TypeOK, OutputOf, ArtifactOf
<1>1. Directory!Publish(p, Foreign) /\ UNCHANGED <<command, control, source, child, report, stdout>>
  BY DEF CreateForeign
<1>f. /\ \A o \in Path : files'[o] = files[o] \/ files'[o] = Foreign
      /\ \A o \in Path : files[o] # None => files'[o] = files[o]
      /\ files' \in [Path -> File \cup {None}]
      /\ kept' = kept
  BY <1>t, <1>1, PublishFrame DEF File
<1>2. TypeOK'
  BY <1>t, <1>1, <1>f DEF TypeOK
<1>3. ChildInv'
  BY <1>1 DEF CommandsInv, ChildInv, Captured, Reproduces
<1>4. PlaceInv'
  <2>1. \A r \in Process : control[r] = "keep_artifact" => child[r] # None
    BY DEF CommandsInv, ChildInv
  <2> QED
    BY <1>1, <1>k, <1>f, <2>1 DEF CommandsInv, PlaceInv, ArtifactOf
<1>5. ReportInv'
  <2>1. \A r \in Process : report[r] # None => Rendered(r) # None
    BY <1>t, RenderedShape DEF TypeOK
  <2>2. \A o \in Path : files'[o] \in Report => files'[o] = files[o]
    BY <1>f, ReportShape
  <2> QED
    BY <1>1, <1>k, <1>f, <2>1, <2>2 DEF CommandsInv, ReportInv, OutputOf, Rendered, Emitted
<1>6. LineageInv'
  <2>1. Known' \subseteq Known
    BY <1>1, <1>f, ArtifactShape DEF Known
  <2> QED
    BY <1>1, <2>1, LineageFrame DEF CommandsInv
<1> QED
  BY <1>2, <1>3, <1>4, <1>5, <1>6 DEF CommandsInv

LEMMA PowerFailureStep ==
    ASSUME CommandsInv, PowerFailure
    PROVE  CommandsInv'
<1> USE DEF At
<1>t. TypeOK
  BY DEF CommandsInv
<1>k. \A r \in Process : OutputOf(r) \in Path \cup {Stdout} /\ ArtifactOf(r) \in Path
  BY <1>t, CommandShape DEF TypeOK, OutputOf, ArtifactOf
<1>0. PICK lost \in SUBSET Path : Directory!PowerFailure(lost)
  BY DEF PowerFailure
<1>1. UNCHANGED <<command, source, child, report, stdout>>
  BY DEF PowerFailure
<1>f. /\ \A p \in Path : files'[p] = files[p] \/ files'[p] = None
      /\ \A p \in kept : files'[p] = files[p]
      /\ files' \in [Path -> File \cup {None}]
      /\ kept' = kept
  BY <1>0, <1>t DEF Directory!PowerFailure, TypeOK
<1>c. /\ control' \in [Process -> Statements \cup Ended]
      /\ \A r \in Process :
            \/ control'[r] = "killed"
            \/ control'[r] = control[r] /\ control[r] \in Ended
            \/ /\ control'[r] = control[r]
               /\ control[r] \in {"artifact_destination", "report_destination"}
  BY <1>t, CommandShape DEF PowerFailure, TypeOK, Statements, Ended, FirstStatement
<1>2. TypeOK'
  BY <1>t, <1>1, <1>f, <1>c DEF TypeOK
<1>3. ChildInv'
  BY <1>1, <1>c DEF CommandsInv, ChildInv, Captured, Reproduces, Ended, Failed
<1>4. PlaceInv'
  BY <1>1, <1>c, <1>f DEF CommandsInv, PlaceInv, ArtifactOf, Ended, Failed
<1>5. ReportInv'
  <2>1. \A p \in Path : files'[p] \in Report => files'[p] = files[p]
    BY <1>f, ReportShape
  <2> QED
    BY <1>1, <1>k, <1>c, <1>f, <2>1
       DEF CommandsInv, ReportInv, OutputOf, Rendered, Emitted, Statements, Ended, Failed
<1>6. LineageInv'
  <2>1. Known' \subseteq Known
    BY <1>1, <1>f, ArtifactShape DEF Known
  <2> QED
    BY <1>1, <2>1, LineageFrame DEF CommandsInv
<1> QED
  BY <1>2, <1>3, <1>4, <1>5, <1>6 DEF CommandsInv

-----------------------------------------------------------------------------
LEMMA InvNext == CommandsInv /\ [Next]_vars => CommandsInv'
<1> SUFFICES ASSUME CommandsInv, [Next]_vars
             PROVE  CommandsInv'
  OBVIOUS
<1> USE DEF At, GoTo
<1>t. TypeOK
  BY DEF CommandsInv
<1>1. ASSUME NEW q \in Process, CheckArtifactDestination(q)
      PROVE  CommandsInv'
  BY <1>1, ControlOnly DEF CheckArtifactDestination, Statements, Ended, Failed
<1>2. ASSUME NEW q \in Process, CheckReportDestination(q)
      PROVE  CommandsInv'
  <2>1. command[q].kind \in {"run", "report", "replay"}
    BY <1>t, CommandShape DEF TypeOK
  <2>2. PICK s \in {"output_failed", "evaluate", "build_report", "read_source"} :
            /\ control' = [control EXCEPT ![q] = s]
            /\ s = "build_report" => command[q].kind = "report"
            /\ s = "read_source" => command[q].kind = "replay"
    BY <1>2, <2>1 DEF CheckReportDestination
  <2> QED
    BY <1>2, <2>2, ControlOnly DEF CheckReportDestination, Statements, Ended, Failed
<1>3. ASSUME NEW q \in Process, Fails(q)
      PROVE  CommandsInv'
  <2>1. Category(q) \in Failed
    BY <1>3 DEF Fails, Category, EvaluationFailed, Statements, Failed
  <2> QED
    BY <1>3, <2>1, ControlOnly DEF Fails, Ended
<1>4. ASSUME NEW q \in Process, Stopped(q)
      PROVE  CommandsInv'
  BY <1>4, ControlOnly DEF Stopped, Ended
<1>5. CASE UNCHANGED vars
  <2>1. Known' = Known
    BY <1>5, SameKnown DEF vars, fileVars
  <2>2. LineageInv'
    BY <1>5, <2>1, LineageFrame DEF CommandsInv, vars
  <2>3. TypeOK' /\ ChildInv' /\ PlaceInv'
    BY <1>5 DEF vars, fileVars, CommandsInv, TypeOK, ChildInv, PlaceInv, Captured, Reproduces,
                ArtifactOf
  <2>4. ReportInv'
    BY <1>5 DEF vars, fileVars, CommandsInv, ReportInv, OutputOf, Rendered, Emitted
  <2> QED
    BY <2>2, <2>3, <2>4 DEF CommandsInv
<1> QED
  BY <1>1, <1>2, <1>3, <1>4, <1>5, ReadSourceStep, EvaluateStep, WriteArtifactStep,
     KeepArtifactStep, BuildReportStep, EmitStep, KeepReportStep, CreateForeignStep,
     PowerFailureStep
     DEF Next, Execute

LEMMA Invariance == Spec => []CommandsInv
BY InvInit, InvNext, PTL DEF Spec

-----------------------------------------------------------------------------
(* The commands keep the types the code gives what they hold and publish.  *)
THEOREM TypeCorrect == Spec => []TypeOK
<1>1. CommandsInv => TypeOK
  BY DEF CommandsInv
<1> QED
  BY <1>1, Invariance, PTL

(* An exit status of 0 is true (_cli.py): what the command was asked for   *)
(* is in its place and stays there, whatever commands and programs, how    *)
(* many ever, did to the directory between its checks and its writes.      *)
THEOREM StatusZeroIsTrue == Spec => []StatusIsTrue
<1>1. CommandsInv => StatusIsTrue
  BY DEF CommandsInv, PlaceInv, ReportInv, StatusIsTrue, At
<1> QED
  BY <1>1, Invariance, PTL

(* Although a command reads its artifact back by a path that others may    *)
(* have taken meanwhile, a report is about the evidence of the command     *)
(* that built it, and about evidence that is eligible.                     *)
THEOREM ReportsAreOwn == Spec => []ReportsDescribeEvidence
<1>1. ASSUME CommandsInv
      PROVE  ReportsDescribeEvidence
  <2>1. ASSUME NEW p \in Path, files[p] \in Report, command[files[p].by].kind # "report"
        PROVE  files[p].describes = child[files[p].by]
    BY <1>1, <2>1, ReportShape DEF CommandsInv, ReportInv
  <2> QED
    BY <1>1, <2>1 DEF CommandsInv, ReportInv, ReportsDescribeEvidence
<1> QED
  BY <1>1, Invariance, PTL

(* The lineage an artifact claims is true, for any number of replays of    *)
(* replays: it reproduces the artifact it names exactly if it says so, and *)
(* following the lineage never comes back to where it began.               *)
THEOREM LineageHolds == Spec => []LineageIsTrue
<1> DEFINE InPlace == {p \in Path : files[p] \in Artifact}
<1>a. InPlace \subseteq Path /\ \A p \in InPlace : files[p] \in Artifact
  OBVIOUS
<1>1. ASSUME CommandsInv, NEW p \in InPlace, NEW o \in InPlace, files[p].source = files[o].of
      PROVE  files[p].of \in Process /\ files[p] = child[files[p].of] /\ files[p] # None
  <2>1. files[p] \in Known
    BY DEF Known
  <2>2. files[o].of # None
    BY ArtifactShape, CommandsAssumption
  <2>3. files[p].of # Earlier
    BY <1>1, <2>1, <2>2 DEF CommandsInv, LineageInv, Recorded
  <2> QED
    BY <1>1, <2>1, <2>3, ArtifactShape DEF CommandsInv, LineageInv
<1>2. ASSUME CommandsInv, NEW p \in InPlace, NEW o \in InPlace, files[p].source = files[o].of
      PROVE  files[p].matched <=> files[p].evidence = files[o].evidence
  <2>t. TypeOK
    BY <1>2 DEF CommandsInv
  <2> DEFINE q == files[p].of
  <2>1. q \in Process /\ files[p] = child[q] /\ child[q] # None
    BY <1>1, <1>2
  <2>2. files[p] = Captured(q, files[p].evidence) /\ files[p].evidence \in Evidence
    BY <1>2, <2>1, ArtifactShape DEF CommandsInv, ChildInv
  <2>3. /\ files[p].source = IF source[q] = None THEN None ELSE source[q].of
        /\ files[p].matched <=> Reproduces(q, files[p].evidence)
    BY <2>t, <2>1, <2>2, CapturedShape
  <2>4. source[q] # None /\ source[q].of = files[o].of
    <3>1. files[o].of # None
      BY ArtifactShape, CommandsAssumption
    <3>2. files[o].of = IF source[q] = None THEN None ELSE source[q].of
      BY <1>2, <2>3
    <3> QED
      BY <3>1, <3>2
  <2>5. source[q] \in Known /\ files[o] \in Known
    BY <2>t, <2>1, <2>4 DEF TypeOK, Known
  <2>6. files[o] = source[q]
    BY <1>2, <2>4, <2>5, ArtifactShape DEF CommandsInv, LineageInv, Known
  <2> QED
    BY <2>3, <2>4, <2>6 DEF Reproduces
<1>3. ASSUME CommandsInv, NEW circle \in (SUBSET InPlace) \ {{}},
             \A p \in circle : \E o \in circle : files[p].source = files[o].of
      PROVE  FALSE
  <2> DEFINE authors == {files[p].of : p \in circle}
  <2>1. \A p \in circle : /\ files[p].of \in Process
                          /\ files[p] = child[files[p].of] /\ files[p] # None
    BY <1>1, <1>3
  <2>2. authors \in (SUBSET Process) \ {{}}
    BY <2>1
  <2>3. \A q \in authors : child[q] # None /\ child[q].source \in authors
    BY <1>3, <2>1
  <2> QED
    BY <1>3, <2>2, <2>3 DEF CommandsInv, LineageInv
<1>4. CommandsInv => LineageIsTrue
  BY <1>2, <1>3 DEF LineageIsTrue
<1> QED
  BY <1>4, Invariance, PTL
=============================================================================
