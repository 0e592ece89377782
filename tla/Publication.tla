---------------------------- MODULE Publication ----------------------------
(***************************************************************************)
(* write_evidence_artifact (_evidence_artifact.py) and _write_report       *)
(* (_cli.py), which publish a file by the same steps: a private temporary  *)
(* file beside the destination is written and synced, linked to the        *)
(* destination if that does not exist, the directory is synced and the     *)
(* temporary name removed.  Any number of writers run at once, beside      *)
(* other programs that create files; an operation may fail, a writer may   *)
(* be interrupted or killed anywhere, and a power failure leaves of the    *)
(* directory and of the files what has reached the disk.                   *)
(***************************************************************************)
EXTENDS FiniteSets

CONSTANTS Writer,   \* the calls of the two functions
          Path,     \* the destinations, in one directory
          Foreign,  \* a file of another program
          None

ASSUME PublicationAssumption == Foreign \notin Writer /\ None \notin Writer \cup {Foreign}

VARIABLES
    destination,  \* path, of each writer
    step,         \* the statement each writer stands at, or how it ended
    error,        \* what will be raised when the temporary name is removed
    temporary,    \* the writers whose temporary name is in the directory
    content,      \* each writer's file, as any process sees it
    directory,    \* the file each path names, as any process sees it
    diskContent,  \* each writer's file, as a power failure leaves it
    diskDirectory \* the file each path names, as a power failure leaves it

diskVars == <<diskContent, diskDirectory>>
vars == <<destination, step, error, temporary, content, directory, diskVars>>

Running == {"create", "created", "write", "sync_file", "link", "sync_directory", "unlink"}
Ended == {"published", "failed", "interrupted", "killed"}

TypeOK ==
    /\ destination \in [Writer -> Path]
    /\ step \in [Writer -> {"inspect"} \cup Running \cup Ended]
    /\ error \in [Writer -> {"none", "failed", "interrupted"}]
    /\ temporary \subseteq Writer
    /\ content \in [Writer -> {"none", "partial", "whole"}]
    /\ directory \in [Path -> Writer \cup {Foreign, None}]
    /\ diskContent \in [Writer -> {"none", "partial", "whole"}]
    /\ diskDirectory \in [Path -> Writer \cup {Foreign, None}]

Init ==
    /\ destination \in [Writer -> Path]
    /\ step = [w \in Writer |-> "inspect"]
    /\ error = [w \in Writer |-> "none"]
    /\ temporary = {}
    /\ content = [w \in Writer |-> "none"]
    /\ directory = [p \in Path |-> None]
    /\ diskContent = content
    /\ diskDirectory = directory

-----------------------------------------------------------------------------
(* One call of a writer.                                                   *)

At(w, s) == step[w] = s
GoTo(w, s) == step' = [step EXCEPT ![w] = s]

(* parent.lstat(): the parent is a directory, or nothing is begun.  Only   *)
(* artifacts have it; a report's failure here is the one of its mkstemp.   *)
InspectParent(w) ==
    /\ At(w, "inspect")
    /\ GoTo(w, "create") \/ GoTo(w, "failed")
    /\ UNCHANGED <<destination, error, temporary, content, directory, diskVars>>

(* mkstemp: the name exists before temporary_path is assigned.             *)
CreateTemporary(w) ==
    /\ At(w, "create") /\ GoTo(w, "created")
    /\ temporary' = temporary \cup {w}
    /\ content' = [content EXCEPT ![w] = "partial"]
    /\ UNCHANGED <<destination, error, directory, diskVars>>

RememberTemporary(w) ==
    /\ At(w, "created") /\ GoTo(w, "write")
    /\ UNCHANGED <<destination, error, temporary, content, directory, diskVars>>

(* The loop of os.write, which ends with the last byte.                    *)
WriteAll(w) ==
    /\ At(w, "write") /\ GoTo(w, "sync_file")
    /\ content' = [content EXCEPT ![w] = "whole"]
    /\ UNCHANGED <<destination, error, temporary, directory, diskVars>>

(* Slip: the file is linked before it is synced.                           *)
SkipFileSync(w) ==
    /\ At(w, "sync_file") /\ GoTo(w, "link")
    /\ UNCHANGED <<destination, error, temporary, content, directory, diskVars>>

SyncFile(w) ==
    /\ At(w, "sync_file") /\ GoTo(w, "link")
    /\ diskContent' = [diskContent EXCEPT ![w] = content[w]]
    /\ UNCHANGED <<destination, error, temporary, content, directory, diskDirectory>>

(* Leaves the try statement for its finally clause.                        *)
Raise(w, e) == GoTo(w, "unlink") /\ error' = [error EXCEPT ![w] = e]

(* Slip: os.replace, which takes the name whatever it names.               *)
Replace(w) ==
    /\ At(w, "link") /\ GoTo(w, "sync_directory")
    /\ directory' = [directory EXCEPT ![destination[w]] = w]
    /\ UNCHANGED <<destination, error, temporary, content, diskVars>>

Link(w) ==
    /\ At(w, "link")
    /\ IF directory[destination[w]] = None
       THEN /\ GoTo(w, "sync_directory")
            /\ directory' = [directory EXCEPT ![destination[w]] = w]
            /\ UNCHANGED error
       ELSE Raise(w, "failed") /\ UNCHANGED directory
    /\ UNCHANGED <<destination, temporary, content, diskVars>>

SyncDirectory(w) ==
    /\ At(w, "sync_directory") /\ GoTo(w, "unlink")
    /\ diskDirectory' = directory
    /\ UNCHANGED <<destination, error, temporary, content, directory, diskContent>>

(* Slip: an error of the directory's sync is suppressed like the unlink's. *)
FailsQuietly(w) ==
    /\ step[w] \in Running \ {"created", "unlink"}
    /\ IF At(w, "sync_directory") THEN GoTo(w, "unlink") /\ UNCHANGED error
                                  ELSE Raise(w, "failed")
    /\ UNCHANGED <<destination, temporary, content, directory, diskVars>>

(* OSError, after the link as well as before it.                           *)
Fails(w) ==
    /\ step[w] \in Running \ {"created", "unlink"}
    /\ Raise(w, "failed")
    /\ UNCHANGED <<destination, temporary, content, directory, diskVars>>

(* The finally clause suppresses the OSError of its unlink.                *)
UnlinkTemporary(w) ==
    /\ At(w, "unlink")
    /\ GoTo(w, IF error[w] = "none" THEN "published" ELSE error[w])
    /\ temporary' \in {temporary, temporary \ {w}}
    /\ UNCHANGED <<destination, error, content, directory, diskVars>>

(* KeyboardInterrupt.  Before temporary_path is assigned, and in the       *)
(* finally clause, nothing removes the temporary name.                     *)
Interrupt(w) ==
    /\ step[w] \in {"inspect"} \cup Running
    /\ IF step[w] \in {"inspect", "create", "created", "unlink"}
       THEN GoTo(w, "interrupted") /\ UNCHANGED error
       ELSE Raise(w, "interrupted")
    /\ UNCHANGED <<destination, temporary, content, directory, diskVars>>

-----------------------------------------------------------------------------
(* The other programs and the machine.                                     *)

CreateForeign(p) ==
    /\ directory[p] = None
    /\ directory' = [directory EXCEPT ![p] = Foreign]
    /\ UNCHANGED <<destination, step, error, temporary, content, diskVars>>

(* The system writes back what it likes, in the order it likes.            *)
WriteBack ==
    /\ \/ \E w \in Writer : diskContent' = [diskContent EXCEPT ![w] = content[w]]
          /\ UNCHANGED diskDirectory
       \/ \E p \in Path : diskDirectory' = [diskDirectory EXCEPT ![p] = directory[p]]
          /\ UNCHANGED diskContent
    /\ UNCHANGED <<destination, step, error, temporary, content, directory>>

Kill(w) ==
    /\ step[w] \in Running
    /\ GoTo(w, "killed")
    /\ UNCHANGED <<destination, error, temporary, content, directory, diskVars>>

PowerFailure ==
    /\ step' = [w \in Writer |-> IF step[w] \in Running THEN "killed" ELSE step[w]]
    /\ content' = diskContent
    /\ directory' = diskDirectory
    /\ UNCHANGED <<destination, error, temporary, diskVars>>

Write(w) == \/ InspectParent(w) \/ CreateTemporary(w) \/ RememberTemporary(w)
            \/ WriteAll(w) \/ SyncFile(w) \/ Link(w) \/ SyncDirectory(w)
            \/ UnlinkTemporary(w)

Next == \/ \E w \in Writer : Write(w) \/ Fails(w) \/ Interrupt(w) \/ Kill(w)
        \/ \E p \in Path : CreateForeign(p)
        \/ WriteBack
        \/ PowerFailure

Spec == Init /\ [][Next]_vars

-----------------------------------------------------------------------------
(* A destination never names an incomplete file (threat-model.md:66-70):   *)
(* not for a reader that opens it at any moment, and not after a power     *)
(* failure, in whatever order the system wrote things back.                *)
PublishedFilesAreWhole ==
    \A p \in Path :
        /\ directory[p] \in Writer => content[directory[p]] = "whole"
        /\ diskDirectory[p] \in Writer => diskContent[diskDirectory[p]] = "whole"

(* A writer that reports success has the destination to itself and for     *)
(* good: no other writer or program took it before or takes it later, and  *)
(* a power failure does not take it back.                                  *)
SuccessIsExclusive ==
    \A w \in Writer :
        At(w, "published") => /\ directory[destination[w]] = w
                              /\ diskDirectory[destination[w]] = w

(* The writers keep the promise of ExclusiveFiles, among themselves and    *)
(* with the other programs: no overwriting, and no loss once reported.     *)
Promise == INSTANCE ExclusiveFiles WITH
    File <- Writer \cup {Foreign},
    files <- directory,
    kept <- {destination[w] : w \in {v \in Writer : At(v, "published")}}

KeepsPromise == Promise!Spec
=============================================================================
