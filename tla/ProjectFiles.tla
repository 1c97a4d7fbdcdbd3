------------------------------ MODULE ProjectFiles ------------------------------
(***************************************************************************)
(* Files of a Project beside its Runs: uploads of one name                 *)
(* (src/application/project-files.ts, src/runtime/e2b-files.ts), each a    *)
(* Python process in the sandbox fed over its stdin, and a read of that    *)
(* name.  Both ask first whether the Project is busy, and go on whatever   *)
(* begins after that.  The sandbox and what a Run does there are external. *)
(* A body is a number of pieces.                                           *)
(***************************************************************************)
EXTENDS Naturals

CONSTANTS Uploads,        \* uploads of one name
          BodySize,       \* pieces of an upload
          MaxFileSize     \* maxFileBytes, the largest file that can be read

ASSUME FilesAssumption ==
    /\ BodySize \in Nat /\ MaxFileSize \in Nat
    /\ \A u \in Uploads : u \notin {"nobody", "agent"}

VARIABLES turn,           \* "before" and "during" a Run or Terminal of the Project
          file,           \* what the name refers to: [by, size]
          upload,         \* where upload() is, then its answer
          sent,           \* pieces sent to the stdin of its process
          python,         \* the process: "none", "reading", "writing", or its exit code
          wrote,          \* pieces that it has written
          reader          \* read(): its stage or answer, and the size of what it has

filesVars == <<turn, file, upload, sent, python, wrote, reader>>

Absent  == [by |-> "nobody", size |-> 0]
Interpreting == {"reading", "writing"}

FilesInit ==
    /\ turn = "before" /\ file = Absent
    /\ upload = [u \in Uploads |-> "new"] /\ sent = [u \in Uploads |-> 0]
    /\ python = [u \in Uploads |-> "none"] /\ wrote = [u \in Uploads |-> 0]
    /\ reader = [stage |-> "new", size |-> 0]

-----------------------------------------------------------------------------
(* The sandbox                                                             *)

\* A Run, or a Terminal, begins, and replaces the file or removes it.
RunTakesTurn ==
    /\ turn = "before" /\ turn' = "during"
    /\ UNCHANGED <<file, upload, sent, python, wrote, reader>>

AgentChangesFile ==
    /\ turn = "during"
    /\ file' \in {Absent, [by |-> "agent", size |-> MaxFileSize + 1]}
    /\ UNCHANGED <<turn, upload, sent, python, wrote, reader>>

\* Mutant: the target is opened to be truncated.
TruncateTarget(u) ==
    /\ python[u] = "reading" /\ sent[u] = BodySize
    /\ file' = [by |-> u, size |-> 0] /\ python' = [python EXCEPT ![u] = "writing"]
    /\ UNCHANGED <<turn, upload, sent, wrote, reader>>

\* The whole body has arrived: the target is created with O_EXCL.
CreateTarget(u) ==
    /\ python[u] = "reading" /\ sent[u] = BodySize
    /\ IF file # Absent
       THEN python' = [python EXCEPT ![u] = "44"] /\ UNCHANGED file
       ELSE /\ file' = [by |-> u, size |-> 0]
            /\ python' = [python EXCEPT ![u] = "writing"]
    /\ UNCHANGED <<turn, upload, sent, wrote, reader>>

\* What it writes is lost when the name meanwhile refers to another file.
WriteTarget(u) ==
    /\ python[u] = "writing"
    /\ IF wrote[u] = BodySize
       THEN python' = [python EXCEPT ![u] = "0"] /\ UNCHANGED <<file, wrote>>
       ELSE /\ wrote' = [wrote EXCEPT ![u] = @ + 1]
            /\ file' = IF file.by = u THEN [file EXCEPT !.size = @ + 1] ELSE file
            /\ UNCHANGED python
    /\ UNCHANGED <<turn, upload, sent, reader>>

\* The process fails, or is ended by its timeoutMs; or it does not find the directory.
PythonDies(u) ==
    /\ \/ python[u] \in Interpreting /\ python' = [python EXCEPT ![u] = "137"]
       \/ /\ python[u] = "reading" /\ sent[u] = BodySize
          /\ python' = [python EXCEPT ![u] = "46"]
    /\ UNCHANGED <<turn, file, upload, sent, wrote, reader>>

-----------------------------------------------------------------------------
(* upload() and createE2BFile                                              *)

\* getAccess
Access(u) ==
    /\ upload[u] = "new"
    /\ upload' = [upload EXCEPT ![u] = IF turn = "during" THEN "project_busy" ELSE "admitted"]
    /\ UNCHANGED <<turn, file, sent, python, wrote, reader>>

StartPython(u) ==
    /\ upload[u] = "admitted"
    /\ \/ /\ upload' = [upload EXCEPT ![u] = "sending"]
          /\ python' = [python EXCEPT ![u] = "reading"]
       \/ /\ upload' = [upload EXCEPT ![u] = "provider_error"] /\ UNCHANGED python
    /\ UNCHANGED <<turn, file, sent, wrote, reader>>

\* sendStdin, piece by piece, and then wait()
SendStdin(u) ==
    /\ upload[u] = "sending"
    /\ IF sent[u] = BodySize
       THEN upload' = [upload EXCEPT ![u] = "waiting"] /\ UNCHANGED sent
       ELSE sent' = [sent EXCEPT ![u] = @ + 1] /\ UNCHANGED upload
    /\ UNCHANGED <<turn, file, python, wrote, reader>>

\* assertCreateResult, for wait() that resolves and for one that rejects with the code
AnswerFor(code) ==
    CASE code = "0"  -> "ok"
      [] code = "44" -> "path_conflict"
      [] code = "46" -> "path_not_found"
      [] OTHER       -> "provider_error"

FinishUpload(u) ==
    /\ upload[u] = "waiting" /\ python[u] \notin Interpreting
    /\ upload' = [upload EXCEPT ![u] = AnswerFor(python[u])]
    /\ UNCHANGED <<turn, file, sent, python, wrote, reader>>

\* sendStdin or wait() fails: the process is killed, if that succeeds.
FailUpload(u) ==
    /\ upload[u] \in {"sending", "waiting"}
    /\ upload' = [upload EXCEPT ![u] = "provider_error"]
    /\ \/ python' = [python EXCEPT ![u] = IF @ \in Interpreting THEN "137" ELSE @]
       \/ UNCHANGED python
    /\ UNCHANGED <<turn, file, sent, wrote, reader>>

-----------------------------------------------------------------------------
(* read(): the entry is inspected, then read, and its size compared twice  *)

InspectFile ==
    /\ reader.stage = "new"
    /\ reader' = [reader EXCEPT !.stage =
                    IF turn = "during" THEN "project_busy"
                    ELSE IF file = Absent THEN "path_not_found"
                    ELSE IF file.size > MaxFileSize THEN "file_too_large"
                    ELSE "inspected"]
    /\ UNCHANGED <<turn, file, upload, sent, python, wrote>>

ReadFile ==
    /\ reader.stage = "inspected"
    /\ reader' = IF file = Absent THEN [reader EXCEPT !.stage = "path_not_found"]
                 ELSE [stage |-> IF file.size > MaxFileSize THEN "file_too_large" ELSE "ok",
                       size  |-> file.size]
    /\ UNCHANGED <<turn, file, upload, sent, python, wrote>>

FilesNext ==
    \/ RunTakesTurn \/ AgentChangesFile
    \/ \E u \in Uploads : \/ CreateTarget(u) \/ WriteTarget(u) \/ PythonDies(u)
                          \/ Access(u) \/ StartPython(u) \/ SendStdin(u)
                          \/ FinishUpload(u) \/ FailUpload(u)
    \/ InspectFile \/ ReadFile

FilesSpec == FilesInit /\ [][FilesNext]_filesVars

-----------------------------------------------------------------------------
\* An upload that is answered "ok" has written its whole body, and as long as no Run has
\* begun the name refers to just that, although other uploads of the name were under way and
\* some may have failed half way: what is there is never written over.  A read is answered
\* with no more than the limit, even of a file that grows while it is read.
UploadsAreWhole ==
    /\ \A u \in Uploads :
          upload[u] = "ok" =>
              /\ wrote[u] = BodySize
              /\ turn = "before" => file = [by |-> u, size |-> BodySize]
    /\ reader.stage = "ok" => reader.size <= MaxFileSize
=============================================================================
