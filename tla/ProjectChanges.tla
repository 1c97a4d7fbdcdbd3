----------------------------- MODULE ProjectChanges -----------------------------
(***************************************************************************)
(* The changes of a Project's repository as a user asks for them:          *)
(* ProjectChangesService (src/application/project-changes.ts) and the git  *)
(* commands that it runs one after the other in the sandbox                *)
(* (src/runtime/e2b-changes.ts; what `git status' prints is read as in     *)
(* module GitChanges).  Git, and whoever changes the files, are external.  *)
(* There is one path, and a diff is its size: 0 when there is none.        *)
(***************************************************************************)
EXTENDS Naturals

CONSTANTS MaxDiff,        \* maxGitDiffSectionBytes
          MaxEdits        \* bound on the changes of the repository during a request

ASSUME ChangesAssumption == MaxDiff \in Nat

VARIABLES occupied,       \* a Run is active, or a Terminal has its row
          lease,          \* "free" (idle, ready), "held" (starting, busy) or "none"
          repository,     \* of the sandbox: [git, tracked, staged, unstaged]
          edits,
          ask,            \* the request: where it is, or its answer
          met             \* history: the repositories since the request began

changesVars == <<occupied, lease, repository, edits, ask, met>>
worldVars   == <<occupied, lease, repository, edits>>

\* No section, and the answers that show one
NoSection == [size |-> 0, truncated |-> FALSE, shown |-> FALSE]
DiffSizes == 0 .. MaxDiff + 1

NoRepository == [git |-> FALSE, tracked |-> FALSE, staged |-> 0, unstaged |-> 0]

\* An untracked file has a diff that is not staged, if it is not empty.
Repositories ==
    [git : {TRUE}, tracked : {TRUE}, staged : DiffSizes, unstaged : DiffSizes]
      \cup [git : {TRUE}, tracked : {FALSE}, staged : {0}, unstaged : DiffSizes \ {0}]
      \cup {NoRepository}

ChangesInit ==
    /\ occupied = FALSE /\ lease = "free" /\ repository = NoRepository /\ edits = 0
    /\ ask = [at |-> "new", of |-> "none", change |-> {}, staged |-> NoSection,
              unstaged |-> NoSection]
    /\ met = {}

-----------------------------------------------------------------------------
(* The Project meanwhile                                                   *)

\* A Run or Terminal takes the Project, then the Lease, and gives both back; or the sandbox
\* is stopped while no one has it.
OccupyProject ==
    /\ ~occupied /\ occupied' = TRUE /\ UNCHANGED lease
    /\ UNCHANGED <<repository, edits, ask, met>>
HoldLease ==
    /\ occupied /\ lease' = "held" /\ UNCHANGED occupied
    /\ UNCHANGED <<repository, edits, ask, met>>
VacateProject ==
    /\ occupied /\ occupied' = FALSE /\ lease' \in {"free", "none"}
    /\ UNCHANGED <<repository, edits, ask, met>>
StopSandbox ==
    /\ ~occupied /\ lease = "free" /\ lease' = "none"
    /\ UNCHANGED <<occupied, repository, edits, ask, met>>

\* By the Run, in the Terminal, or by a process that was left in the sandbox
EditRepository ==
    /\ repository' \in Repositories \ {repository}
    /\ IF met = {} THEN UNCHANGED <<edits, met>>
       ELSE edits < MaxEdits /\ edits' = edits + 1 /\ met' = met \cup {repository'}
    /\ UNCHANGED <<occupied, lease, ask>>

-----------------------------------------------------------------------------
(* The request                                                             *)

Goes(at) == ask' = [ask EXCEPT !.at = at] /\ UNCHANGED <<worldVars, met>>

\* getAccess: the active Run and the Terminal, and then the Lease
CheckOccupied ==
    /\ ask.at = "new"
    /\ \E of \in {"list", "read"} :
          ask' = [ask EXCEPT !.of = of, !.at = IF occupied THEN "project_busy" ELSE "access"]
    /\ met' = {repository}
    /\ UNCHANGED worldVars

CheckLease ==
    /\ ask.at = "access"
    /\ Goes(CASE lease = "none" -> "sandbox_unavailable"
              [] lease = "held" -> "project_busy"
              [] OTHER          -> "config")

InCommand == ask.at \in {"config", "status", "staged", "unstaged"}
ToFailure == IF lease = "none" THEN "sandbox_unavailable" ELSE "provider_error"

\* It cannot be started, or what it answers is no answer.
CommandFails == InCommand /\ Goes(ToFailure)

\* Exit code 44, which a list answers with no entries
NotRepository ==
    /\ InCommand /\ lease # "none" /\ ~repository.git
    /\ Goes(IF ask.of = "list" THEN "ok" ELSE "path_not_found")

\* The configuration is checked before the status and again before the diffs; whatever may be
\* in it that is not safe is a failure.
CheckConfiguration ==
    /\ ask.at = "config" /\ lease # "none" /\ repository.git
    /\ Goes("provider_error") \/ Goes(IF ask.change = {} THEN "status" ELSE "staged")

\* What status has of the path: of "staged", "unstaged", "untracked" those that it is
Kinds(r) ==
    {k \in {"staged", "unstaged", "untracked"} :
        \/ k = "staged" /\ r.staged > 0
        \/ k = "unstaged" /\ r.tracked /\ r.unstaged > 0
        \/ k = "untracked" /\ ~r.tracked /\ r.git}

\* listChanges, of which a read takes the entry of its path
ReadChangeStatus ==
    /\ ask.at = "status" /\ lease # "none" /\ repository.git
    /\ ask' = [ask EXCEPT
                 !.change = Kinds(repository),
                 !.at = CASE ask.of = "list"          -> "ok"
                          [] Kinds(repository) = {}   -> "path_not_found"
                          [] OTHER                    -> "config"]
    /\ UNCHANGED <<worldVars, met>>

\* truncateUtf8 of what `head -c' let through
Bounded(size) == [size      |-> IF size > MaxDiff THEN MaxDiff ELSE size,
                  truncated |-> size > MaxDiff,
                  shown     |-> TRUE]

\* The exit codes of git: 1 says that there is a difference, where it is asked for, and git
\* may have written all of an output that is cut, or not.
ExitCodes(size, untracked) ==
    {IF untracked THEN 1 ELSE 0} \cup IF size > MaxDiff THEN {141} ELSE {}

Accepted(size, code, untracked) ==
    code = 0 \/ (code = 1 /\ untracked) \/ (code = 141 /\ Bounded(size).truncated)

\* What the commands print: the diff of a path that is tracked, with --cached or without, and
\* the file compared with nothing, of which the size says nothing else once it is tracked.
TrackedDiff(staged) == IF staged THEN repository.staged
                       ELSE IF repository.tracked THEN repository.unstaged ELSE 0
UntrackedDiffs      == IF repository.tracked THEN DiffSizes ELSE {repository.unstaged}

Section(section, size, untracked, next) ==
    /\ lease # "none" /\ repository.git
    /\ \E code \in ExitCodes(size, untracked) :
          IF Accepted(size, code, untracked)
          THEN /\ ask' = [ask EXCEPT !.at = next, ![section] = Bounded(size)]
               /\ UNCHANGED <<worldVars, met>>
          ELSE Goes("provider_error")

\* Mutant: the staged section is read without --cached.
StagedUncached ==
    /\ ask.at = "staged"
    /\ IF "staged" \in ask.change
       THEN Section("staged", TrackedDiff(FALSE), FALSE, "unstaged")
       ELSE Goes("unstaged")

\* readE2BChangeDiff: a section for what was listed as staged, and one for the rest
ReadStaged ==
    /\ ask.at = "staged"
    /\ IF "staged" \in ask.change
       THEN Section("staged", TrackedDiff(TRUE), FALSE, "unstaged")
       ELSE Goes("unstaged")

ReadUnstaged ==
    /\ ask.at = "unstaged"
    /\ CASE ask.change = {"staged"} -> Goes("ok")
         [] "untracked" \in ask.change ->
              \E size \in UntrackedDiffs : Section("unstaged", size, TRUE, "ok")
         [] OTHER -> Section("unstaged", TrackedDiff(FALSE), FALSE, "ok")

ChangesNext ==
    \/ OccupyProject \/ HoldLease \/ VacateProject \/ StopSandbox \/ EditRepository
    \/ CheckOccupied \/ CheckLease \/ CommandFails \/ NotRepository \/ CheckConfiguration
    \/ ReadChangeStatus \/ ReadStaged \/ ReadUnstaged

ChangesSpec == ChangesInit /\ [][ChangesNext]_changesVars

-----------------------------------------------------------------------------
\* A change that is shown with its diff has just the sections that it was listed with, each
\* whole or said to be cut, and each as the repository was at some moment of the request,
\* although every command of it may meet another repository.  When nothing was changed
\* meanwhile, the answer is the change, and all of it.
ChangesAreCurrent ==
    LET Is(section, size) == section = Bounded(size)
        \* Listed as untracked, or as tracked, and so it was compared
        Of(r) == IF "untracked" \in ask.change THEN r.tracked \/ Is(ask.unstaged, r.unstaged)
                 ELSE Is(ask.unstaged, IF r.tracked THEN r.unstaged ELSE 0)
        Exact(r) ==
          /\ ask.change = Kinds(r)
          /\ ask.of = "read" =>
                /\ IF r.staged > 0 THEN Is(ask.staged, r.staged) ELSE ~ask.staged.shown
                /\ IF r.unstaged > 0 THEN Is(ask.unstaged, r.unstaged) ELSE ~ask.unstaged.shown
    IN  ask.at = "ok" =>
          /\ \E r \in met : ask.change = Kinds(r)
          /\ ask.of = "read" =>
                /\ ask.staged.shown <=> "staged" \in ask.change
                /\ ask.staged.shown => \E r \in met : Is(ask.staged, r.staged)
                /\ ask.unstaged.shown <=> ask.change # {"staged"}
                /\ ask.unstaged.shown => \E r \in met : Of(r)
          /\ \A r \in met : met = {r} => Exact(r)
=============================================================================
