--------------------------- MODULE ExclusiveFiles ---------------------------
(***************************************************************************)
(* What publishing a file promises: a path gets a file once, whole, and    *)
(* never another one; a power failure may take it back, but only until the *)
(* publication was reported to have succeeded.  Publication is shown to    *)
(* keep this promise, Commands relies on no more than it.                  *)
(***************************************************************************)
CONSTANTS Path,  \* the names in the directory
          File,  \* the files that can be published, whole
          None   \* no file

VARIABLES files,  \* the file each path names
          kept    \* the paths whose publication was reported

vars == <<files, kept>>

Init == /\ files \in [Path -> File \cup {None}]
        /\ kept = {}

Publish(p, f) == /\ files[p] = None
                 /\ files' = [files EXCEPT ![p] = f]
                 /\ UNCHANGED kept

Keep(p) == /\ files[p] # None
           /\ kept' = kept \cup {p}
           /\ UNCHANGED files

PowerFailure(lost) == /\ lost \cap kept = {}
                      /\ files' = [p \in Path |-> IF p \in lost THEN None ELSE files[p]]
                      /\ UNCHANGED kept

Next == \/ \E p \in Path, f \in File : Publish(p, f)
        \/ \E p \in Path : Keep(p)
        \/ \E lost \in SUBSET Path : PowerFailure(lost)

Spec == Init /\ [][Next]_vars
=============================================================================
