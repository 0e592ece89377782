------------------------- MODULE PublicationProofs -------------------------
(***************************************************************************)
(* Theorems about Publication, for any set of writers and destinations.    *)
(***************************************************************************)
EXTENDS Publication, TLAPS

Linked(w) == \E p \in Path : directory[p] = w \/ diskDirectory[p] = w

(* A file is whole before it is synced, and on the disk before it has a    *)
(* name; the disk's directory lags behind but never contradicts the one    *)
(* that processes see; and a writer past its link owns its destination.    *)
PublicationInv ==
    /\ TypeOK
    /\ \A w \in Writer :
        /\ step[w] \in {"inspect", "create", "created", "write", "sync_file", "link"} =>
               ~Linked(w)
        /\ step[w] \in {"sync_file", "link"} => content[w] = "whole"
        /\ step[w] = "link" \/ Linked(w) => content[w] = "whole" /\ diskContent[w] = "whole"
        /\ step[w] = "sync_directory" => directory[destination[w]] = w
        /\ step[w] = "published" \/ (step[w] = "unlink" /\ error[w] = "none") =>
               /\ directory[destination[w]] = w
               /\ diskDirectory[destination[w]] = w
    /\ \A p \in Path : diskDirectory[p] # None => diskDirectory[p] = directory[p]

LEMMA InvInit == Init => PublicationInv
BY PublicationAssumption DEF Init, PublicationInv, TypeOK, Linked, Running, Ended

(* A step of one writer that changes neither files nor names.              *)
LEMMA ControlOnly ==
    ASSUME PublicationInv, NEW w \in Writer,
           UNCHANGED <<destination, content, directory, diskVars>>,
           temporary' \subseteq Writer,
           NEW s \in Running \cup Ended, step' = [step EXCEPT ![w] = s],
           error' \in [Writer -> {"none", "failed", "interrupted"}],
           \A v \in Writer \ {w} : error'[v] = error[v],
           s \in {"create", "created", "write", "link"} => ~Linked(w),
           s # "sync_file" /\ s # "sync_directory",
           s = "link" => content[w] = "whole" /\ diskContent[w] = "whole",
           s = "published" \/ (s = "unlink" /\ error'[w] = "none") =>
               directory[destination[w]] = w /\ diskDirectory[destination[w]] = w
    PROVE  PublicationInv'
<1>1. TypeOK'
  BY DEF PublicationInv, TypeOK, diskVars
<1>2. \A v \in Writer : Linked(v)' <=> Linked(v)
  BY DEF Linked, diskVars
<1>3. /\ step'[w] = s
      /\ \A v \in Writer \ {w} : step'[v] = step[v]
  BY DEF PublicationInv, TypeOK
<1> QED
  BY <1>1, <1>2, <1>3 DEF PublicationInv, diskVars, Running, Ended

LEMMA InvNext == PublicationInv /\ [Next]_vars => PublicationInv'
<1> SUFFICES ASSUME PublicationInv, [Next]_vars
             PROVE  PublicationInv'
  OBVIOUS
<1> USE DEF At, GoTo
<1>t. TypeOK
  BY DEF PublicationInv
<1>1. ASSUME NEW w \in Writer, InspectParent(w)
      PROVE  PublicationInv'
  <2>1. PICK s \in {"create", "failed"} : step' = [step EXCEPT ![w] = s]
    BY <1>1 DEF InspectParent
  <2> QED
    BY <1>1, <1>t, <2>1, ControlOnly
       DEF InspectParent, PublicationInv, TypeOK, Running, Ended
<1>2. ASSUME NEW w \in Writer, CreateTemporary(w)
      PROVE  PublicationInv'
  <2>1. ~Linked(w)
    BY <1>2 DEF CreateTemporary, PublicationInv
  <2>2. TypeOK'
    BY <1>2, <1>t DEF CreateTemporary, TypeOK, Running, Ended, diskVars
  <2>3. \A v \in Writer : Linked(v)' <=> Linked(v)
    BY <1>2 DEF CreateTemporary, Linked, diskVars
  <2>4. /\ step'[w] = "created"
        /\ \A v \in Writer \ {w} : step'[v] = step[v] /\ content'[v] = content[v]
    BY <1>2, <1>t DEF CreateTemporary, TypeOK
  <2> QED
    BY <1>2, <2>1, <2>2, <2>3, <2>4 DEF CreateTemporary, PublicationInv, diskVars
<1>3. ASSUME NEW w \in Writer, RememberTemporary(w)
      PROVE  PublicationInv'
  BY <1>3, <1>t, ControlOnly
     DEF RememberTemporary, PublicationInv, TypeOK, Running, Ended
<1>4. ASSUME NEW w \in Writer, WriteAll(w)
      PROVE  PublicationInv'
  <2>1. TypeOK'
    BY <1>4, <1>t DEF WriteAll, TypeOK, Running, Ended, diskVars
  <2>2. \A v \in Writer : Linked(v)' <=> Linked(v)
    BY <1>4 DEF WriteAll, Linked, diskVars
  <2>3. /\ step'[w] = "sync_file" /\ content'[w] = "whole"
        /\ \A v \in Writer \ {w} : step'[v] = step[v] /\ content'[v] = content[v]
    BY <1>4, <1>t DEF WriteAll, TypeOK
  <2> QED
    BY <1>4, <2>1, <2>2, <2>3 DEF WriteAll, PublicationInv, diskVars
<1>5. ASSUME NEW w \in Writer, SyncFile(w)
      PROVE  PublicationInv'
  <2>1. TypeOK'
    BY <1>5, <1>t DEF SyncFile, TypeOK, Running, Ended
  <2>2. \A v \in Writer : Linked(v)' <=> Linked(v)
    BY <1>5 DEF SyncFile, Linked
  <2>3. /\ step'[w] = "link" /\ diskContent'[w] = content[w] /\ content[w] = "whole"
        /\ \A v \in Writer \ {w} : step'[v] = step[v] /\ diskContent'[v] = diskContent[v]
    BY <1>5, <1>t DEF SyncFile, TypeOK, PublicationInv
  <2> QED
    BY <1>5, <2>1, <2>2, <2>3 DEF SyncFile, PublicationInv
<1>6. ASSUME NEW w \in Writer, Link(w)
      PROVE  PublicationInv'
  <2>1. CASE directory[destination[w]] # None
    BY <1>6, <1>t, <2>1, ControlOnly
       DEF Link, Raise, PublicationInv, TypeOK, Running, Ended
  <2>2. CASE directory[destination[w]] = None
    <3>1. TypeOK'
      BY <1>6, <1>t, <2>2 DEF Link, TypeOK, Running, Ended, diskVars
    <3>2. /\ step'[w] = "sync_directory"
          /\ \A v \in Writer \ {w} : step'[v] = step[v]
          /\ destination[w] \in Path
          /\ directory'[destination[w]] = w
          /\ \A p \in Path \ {destination[w]} : directory'[p] = directory[p]
      BY <1>6, <1>t, <2>2 DEF Link, TypeOK
    <3>3. UNCHANGED <<destination, error, temporary, content, diskContent, diskDirectory>>
      BY <1>6, <2>2 DEF Link, diskVars
    <3>4. \A v \in Writer \ {w} : Linked(v)' <=> Linked(v)
      <4>1. diskDirectory[destination[w]] = None
        BY <2>2, <3>2 DEF PublicationInv
      <4> QED
        BY <2>2, <3>2, <3>3, <4>1, PublicationAssumption DEF Linked
    <3>5. content[w] = "whole" /\ diskContent[w] = "whole"
      BY <1>6 DEF Link, PublicationInv
    <3>6. \A v \in Writer : directory[destination[v]] = v => destination[v] # destination[w]
      BY <2>2, PublicationAssumption
    <3>7. \A v \in Writer : destination[v] \in Path
      BY <1>t DEF TypeOK
    <3>8. \A p \in Path : diskDirectory'[p] # None => diskDirectory'[p] = directory'[p]
      BY <2>2, <3>2, <3>3 DEF PublicationInv
    <3> QED
      BY <3>1, <3>2, <3>3, <3>4, <3>5, <3>6, <3>7, <3>8 DEF PublicationInv
  <2> QED
    BY <2>1, <2>2
<1>7. ASSUME NEW w \in Writer, SyncDirectory(w)
      PROVE  PublicationInv'
  <2>1. TypeOK'
    BY <1>7, <1>t DEF SyncDirectory, TypeOK, Running, Ended
  <2>2. \A v \in Writer : Linked(v)' => Linked(v)
    BY <1>7 DEF SyncDirectory, Linked
  <2>3. /\ step'[w] = "unlink"
        /\ \A v \in Writer \ {w} : step'[v] = step[v]
        /\ directory[destination[w]] = w
    BY <1>7, <1>t DEF SyncDirectory, TypeOK, PublicationInv
  <2> QED
    BY <1>7, <2>1, <2>2, <2>3 DEF SyncDirectory, PublicationInv
<1>8. ASSUME NEW w \in Writer, UnlinkTemporary(w)
      PROVE  PublicationInv'
  <2>1. PICK s \in {"published", "failed", "interrupted"} :
            /\ s = IF error[w] = "none" THEN "published" ELSE error[w]
            /\ step' = [step EXCEPT ![w] = s]
    BY <1>8, <1>t DEF UnlinkTemporary, TypeOK
  <2>2. UNCHANGED <<destination, content, directory, diskVars>> /\ error' = error
    BY <1>8 DEF UnlinkTemporary
  <2>3. temporary' \subseteq Writer
    BY <1>8, <1>t DEF UnlinkTemporary, TypeOK
  <2>4. s = "published" => /\ directory[destination[w]] = w
                           /\ diskDirectory[destination[w]] = w
    <3>1. step[w] = "unlink"
      BY <1>8 DEF UnlinkTemporary
    <3>2. s = "published" => error[w] = "none"
      BY <1>t, <2>1 DEF TypeOK
    <3> QED
      BY <3>1, <3>2 DEF PublicationInv
  <2>5. error' \in [Writer -> {"none", "failed", "interrupted"}]
    BY <1>t, <2>2 DEF TypeOK
  <2> QED
    BY <2>1, <2>2, <2>3, <2>4, <2>5, ControlOnly DEF Running, Ended
<1>9. ASSUME NEW w \in Writer, Fails(w)
      PROVE  PublicationInv'
  BY <1>9, <1>t, ControlOnly DEF Fails, Raise, TypeOK, Running, Ended
<1>10. ASSUME NEW w \in Writer, Interrupt(w)
       PROVE  PublicationInv'
  BY <1>10, <1>t, ControlOnly DEF Interrupt, Raise, TypeOK, Running, Ended
<1>11. ASSUME NEW w \in Writer, Kill(w)
       PROVE  PublicationInv'
  BY <1>11, <1>t, ControlOnly DEF Kill, TypeOK, Running, Ended
<1>12. ASSUME NEW p \in Path, CreateForeign(p)
       PROVE  PublicationInv'
  <2>1. TypeOK'
    BY <1>12, <1>t DEF CreateForeign, TypeOK, diskVars
  <2>2. /\ directory[p] = None /\ directory'[p] = Foreign
        /\ \A o \in Path \ {p} : directory'[o] = directory[o]
    BY <1>12, <1>t DEF CreateForeign, TypeOK
  <2>3. UNCHANGED <<destination, step, error, temporary, content, diskContent, diskDirectory>>
    BY <1>12 DEF CreateForeign, diskVars
  <2>4. \A v \in Writer : Linked(v)' => Linked(v)
    BY <2>2, <2>3, PublicationAssumption DEF Linked
  <2>5. \A v \in Writer : destination[v] \in Path
                          /\ (directory[destination[v]] = v => destination[v] # p)
    BY <1>t, <2>2, PublicationAssumption DEF TypeOK
  <2> QED
    BY <2>1, <2>2, <2>3, <2>4, <2>5 DEF PublicationInv
<1>13. CASE WriteBack
  <2>1. ASSUME NEW w \in Writer, diskContent' = [diskContent EXCEPT ![w] = content[w]],
               UNCHANGED <<diskDirectory, destination, step, error, temporary, content,
                           directory>>
        PROVE  PublicationInv'
    <3>1. TypeOK'
      BY <1>t, <2>1 DEF TypeOK
    <3>2. \A v \in Writer : Linked(v)' <=> Linked(v)
      BY <2>1 DEF Linked
    <3>3. /\ diskContent'[w] = content[w]
          /\ \A v \in Writer \ {w} : diskContent'[v] = diskContent[v]
      BY <1>t, <2>1 DEF TypeOK
    <3> QED
      BY <2>1, <3>1, <3>2, <3>3 DEF PublicationInv
  <2>2. ASSUME NEW p \in Path, diskDirectory' = [diskDirectory EXCEPT ![p] = directory[p]],
               UNCHANGED <<diskContent, destination, step, error, temporary, content,
                           directory>>
        PROVE  PublicationInv'
    <3>1. TypeOK'
      BY <1>t, <2>2 DEF TypeOK
    <3>2. /\ diskDirectory'[p] = directory[p]
          /\ \A o \in Path \ {p} : diskDirectory'[o] = diskDirectory[o]
      BY <1>t, <2>2 DEF TypeOK
    <3>3. \A v \in Writer : Linked(v)' => Linked(v)
      BY <2>2, <3>2 DEF Linked
    <3> QED
      BY <1>t, <2>2, <3>1, <3>2, <3>3 DEF PublicationInv, TypeOK
  <2> QED
    BY <1>13, <2>1, <2>2 DEF WriteBack
<1>14. CASE PowerFailure
  <2>1. TypeOK'
    BY <1>14, <1>t DEF PowerFailure, TypeOK, Running, Ended, diskVars
  <2>2. UNCHANGED <<destination, error, temporary, diskContent, diskDirectory>>
        /\ content' = diskContent /\ directory' = diskDirectory
    BY <1>14 DEF PowerFailure, diskVars
  <2>3. \A v \in Writer : Linked(v)' => Linked(v)
    BY <2>2 DEF Linked
  <2>4. \A v \in Writer : step'[v] \in {"inspect"} \cup Ended
                          /\ (step'[v] # "killed" => step'[v] = step[v])
    BY <1>14, <1>t DEF PowerFailure, TypeOK, Running, Ended
  <2> QED
    BY <2>1, <2>2, <2>3, <2>4 DEF PublicationInv, Ended
<1>15. CASE UNCHANGED vars
  BY <1>15 DEF vars, diskVars, PublicationInv, TypeOK, Linked
<1> QED
  BY <1>1, <1>2, <1>3, <1>4, <1>5, <1>6, <1>7, <1>8, <1>9, <1>10, <1>11, <1>12,
     <1>13, <1>14, <1>15 DEF Next, Write

LEMMA PublicationInvariant == Spec => []PublicationInv
BY InvInit, InvNext, PTL DEF Spec

(* A call of the writers is never at two statements, or past its end.      *)
THEOREM TypeCorrect == Spec => []TypeOK
<1>1. PublicationInv => TypeOK
  BY DEF PublicationInv
<1> QED
  BY <1>1, PublicationInvariant, PTL

(* No reader and no power failure finds an incomplete file at a            *)
(* destination (_evidence_artifact.py:373-392, _cli.py:200-216).           *)
THEOREM FilesAreWhole == Spec => []PublishedFilesAreWhole
<1>1. PublicationInv => PublishedFilesAreWhole
  BY DEF PublicationInv, PublishedFilesAreWhole, Linked
<1> QED
  BY <1>1, PublicationInvariant, PTL

(* A publication that was reported as a success is never replaced and      *)
(* survives every power failure.                                           *)
THEOREM SuccessLasts == Spec => []SuccessIsExclusive
<1>1. PublicationInv => SuccessIsExclusive
  BY DEF PublicationInv, SuccessIsExclusive, At
<1> QED
  BY <1>1, PublicationInvariant, PTL

Published == {destination[w] : w \in {v \in Writer : At(v, "published")}}

LEMMA SamePublished ==
    ASSUME UNCHANGED destination,
           \A w \in Writer : step[w] = "published" <=> step'[w] = "published"
    PROVE  Published' = Published
BY DEF Published, At

LEMMA PromiseInit == Init => Promise!Init
BY DEF Init, Promise!Init, At

LEMMA PromiseNext == PublicationInv /\ [Next]_vars => [Promise!Next]_(Promise!vars)
<1> SUFFICES ASSUME PublicationInv, [Next]_vars
             PROVE  Promise!Next \/ UNCHANGED <<directory, Published>>
  BY DEF Promise!vars, Published
<1> USE DEF At, GoTo
<1>t. TypeOK
  BY DEF PublicationInv
<1>1. ASSUME NEW w \in Writer,
             \/ InspectParent(w) \/ CreateTemporary(w) \/ RememberTemporary(w)
             \/ WriteAll(w) \/ SyncFile(w) \/ SyncDirectory(w)
             \/ Fails(w) \/ Interrupt(w) \/ Kill(w)
      PROVE  UNCHANGED <<directory, Published>>
  <2>1. UNCHANGED <<directory, destination>>
    BY <1>1 DEF InspectParent, CreateTemporary, RememberTemporary, WriteAll, SyncFile,
                SyncDirectory, Fails, Interrupt, Kill, diskVars
  <2>2. PICK s : /\ step' = [step EXCEPT ![w] = s]
                 /\ s # "published" /\ step[w] # "published"
    BY <1>1 DEF InspectParent, CreateTemporary, RememberTemporary, WriteAll, SyncFile,
                SyncDirectory, Fails, Interrupt, Kill, Raise, Running
  <2>3. \A v \in Writer : step[v] = "published" <=> step'[v] = "published"
    BY <1>t, <2>2 DEF TypeOK
  <2> QED
    BY <2>1, <2>3, SamePublished
<1>2. ASSUME NEW w \in Writer, Link(w)
      PROVE  Promise!Next \/ UNCHANGED <<directory, Published>>
  <2>1. PICK s \in {"sync_directory", "unlink"} : step' = [step EXCEPT ![w] = s]
    BY <1>2 DEF Link, Raise
  <2>2. \A v \in Writer : step[v] = "published" <=> step'[v] = "published"
    BY <1>2, <1>t, <2>1 DEF Link, TypeOK
  <2>3. Published' = Published
    BY <1>2, <2>2, SamePublished DEF Link
  <2>4. CASE directory[destination[w]] = None
    <3>1. destination[w] \in Path
      BY <1>t DEF TypeOK
    <3>2. Promise!Publish(destination[w], w)
      BY <1>2, <2>3, <2>4 DEF Link, Promise!Publish, Published
    <3> QED
      BY <3>1, <3>2 DEF Promise!Next
  <2>5. CASE directory[destination[w]] # None
    BY <1>2, <2>3, <2>5 DEF Link
  <2> QED
    BY <2>4, <2>5
<1>3. ASSUME NEW w \in Writer, UnlinkTemporary(w)
      PROVE  Promise!Next \/ UNCHANGED <<directory, Published>>
  <2>1. UNCHANGED <<directory, destination>> /\ step[w] = "unlink"
    BY <1>3 DEF UnlinkTemporary
  <2>2. CASE error[w] = "none"
    <3>1. /\ step'[w] = "published"
          /\ \A v \in Writer \ {w} : step'[v] = step[v]
      BY <1>3, <1>t, <2>2 DEF UnlinkTemporary, TypeOK
    <3>2. Published' = Published \cup {destination[w]}
      BY <2>1, <3>1 DEF Published
    <3>3. directory[destination[w]] = w /\ destination[w] \in Path
      BY <1>t, <2>1, <2>2 DEF PublicationInv, TypeOK
    <3>4. /\ directory[destination[w]] # None
          /\ UNCHANGED directory
      BY <2>1, <3>3, PublicationAssumption
    <3>5. \E p \in Path : Promise!Keep(p)
      BY <3>2, <3>3, <3>4 DEF Promise!Keep, Published
    <3> QED
      BY <3>5 DEF Promise!Next
  <2>3. CASE error[w] # "none"
    <3>1. /\ step'[w] # "published"
          /\ \A v \in Writer \ {w} : step'[v] = step[v]
      BY <1>3, <1>t, <2>3 DEF UnlinkTemporary, TypeOK
    <3> QED
      BY <2>1, <3>1, SamePublished
  <2> QED
    BY <2>2, <2>3
<1>4. ASSUME NEW p \in Path, CreateForeign(p)
      PROVE  Promise!Next
  <2>1. Published' = Published
    BY <1>4, SamePublished DEF CreateForeign
  <2>2. Promise!Publish(p, Foreign)
    BY <1>4, <2>1 DEF CreateForeign, Promise!Publish, Published
  <2> QED
    BY <2>2 DEF Promise!Next
<1>5. CASE WriteBack
  BY <1>5, SamePublished DEF WriteBack
<1>6. CASE PowerFailure
  <2> DEFINE lost == {p \in Path : directory[p] # None /\ diskDirectory[p] = None}
  <2>1. Published' = Published
    <3>1. \A w \in Writer : step[w] = "published" <=> step'[w] = "published"
      BY <1>6, <1>t DEF PowerFailure, TypeOK, Running
    <3> QED
      BY <1>6, <3>1, SamePublished DEF PowerFailure
  <2>2. directory' = [p \in Path |-> IF p \in lost THEN None ELSE directory[p]]
    <3>1. directory' = diskDirectory
      BY <1>6 DEF PowerFailure
    <3>2. \A p \in Path : diskDirectory[p] = IF p \in lost THEN None ELSE directory[p]
      BY DEF PublicationInv
    <3> QED
      BY <1>t, <3>1, <3>2 DEF TypeOK
  <2>3. lost \cap Published = {}
    BY PublicationAssumption DEF PublicationInv, Published
  <2>4. Promise!PowerFailure(lost)
    BY <2>1, <2>2, <2>3 DEF Promise!PowerFailure, Published
  <2> QED
    BY <2>4 DEF Promise!Next
<1>7. CASE UNCHANGED vars
  BY <1>7, SamePublished DEF vars
<1> QED
  BY <1>1, <1>2, <1>3, <1>4, <1>5, <1>6, <1>7 DEF Next, Write

(* The writers implement ExclusiveFiles: a name is given once and is not   *)
(* lost after its publication was reported, whatever fails in between.     *)
THEOREM PromiseIsKept == Spec => KeepsPromise
<1>1. Spec => [][Promise!Next]_(Promise!vars)
  BY PublicationInvariant, PromiseNext, PTL DEF Spec
<1> QED
  BY <1>1, PromiseInit, PTL DEF Spec, KeepsPromise, Promise!Spec
=============================================================================
