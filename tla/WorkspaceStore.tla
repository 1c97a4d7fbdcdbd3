---------------------------- MODULE WorkspaceStore ----------------------------
(***************************************************************************)
(* What the activities around one Project's sandbox share: the Lease, the  *)
(* rows of terminal_sessions and preview_sessions, the active Run, and the *)
(* Provider's sandboxes with the PTY and the Vite process inside them.     *)
(* Every operation is one D1 statement or batch, or one Provider call.     *)
(*                                                                         *)
(* A write of the Lease sets updated_at.  It is compared for equality only *)
(* with a value read before, so the model keeps the set of readers that    *)
(* have read the Lease since it was last written: theirs is the current    *)
(* updated_at.  (Writes in one millisecond: see ProjectStore.)             *)
(***************************************************************************)
EXTENDS Naturals, FiniteSets

CONSTANTS Terminals,     \* the Terminal sessions
          Previews,      \* the Preview sessions
          Runs,          \* the AgentRuns
          Stops,         \* requests to stop the sandbox or to delete the Project
          First,         \* the sandbox that exists at the start
          None,          \* NULL
          MaxMishaps     \* bound on faults, crashes and lost sandboxes

Sessions == Terminals \cup Previews

ASSUME NamesAssumption ==
    /\ Terminals \cap Previews = {} /\ Sessions \cap Runs = {}
    /\ None \notin Sessions \cup Runs \cup {First}
    /\ First \notin Sessions \cup Runs
ASSUME MishapsAssumption == MaxMishaps \in Nat

VARIABLES project,      \* does the Project exist?
          lease,        \* its sandbox_leases row
          seen,         \* who has read updated_at since it was written
          run,          \* agent_runs: absent, active or terminal
          terminal,     \* the terminal_sessions row
          preview,      \* the preview_sessions row
          sandbox,      \* the Provider's sandboxes, named after their creators
          shell,        \* the sandbox in which a PTY is alive
          vite,         \* the sandbox in which a Preview process is alive
          mishaps

rowVars      == <<project, lease, seen, run, terminal, preview>>
processVars  == <<sandbox, shell, vite>>
storeVars    == <<project, lease, seen, run, terminal, preview, sandbox, shell, vite, mishaps>>

LeaseStatuses == {"starting", "ready", "busy", "idle", "stopped", "failed"}
Sandboxes     == {First} \cup Terminals \cup Runs
SandboxRefs   == Sandboxes \cup {None}
Readers       == {"open", "start", "use", "expire", "idle", "stop", "run"}
                   \X (Sessions \cup Runs \cup Stops)

NoTerminal == [id |-> None, box |-> None, bound |-> FALSE]
NoPreview  == [id |-> None, box |-> None, status |-> "starting"]

StoreTypeOK ==
    /\ project  \in BOOLEAN
    /\ lease    \in [status : LeaseStatuses, ref : SandboxRefs]
    /\ seen     \in SUBSET Readers
    /\ run      \in [Runs -> {"absent", "active", "done"}]
    /\ terminal \in [id : Terminals \cup {None}, box : SandboxRefs, bound : BOOLEAN]
    /\ preview  \in [id : Previews \cup {None}, box : SandboxRefs,
                     status : {"starting", "running"}]
    /\ sandbox  \in [Sandboxes -> {"none", "live", "gone"}]
    /\ shell    \in [Terminals -> SandboxRefs]
    /\ vite     \in [Previews -> SandboxRefs]
    /\ mishaps  \in 0..MaxMishaps

\* An earlier Run left its sandbox idle.
StoreInit ==
    /\ project  = TRUE
    /\ lease    = [status |-> "idle", ref |-> First]
    /\ seen     = {}
    /\ run      = [r \in Runs |-> "absent"]
    /\ terminal = NoTerminal
    /\ preview  = NoPreview
    /\ sandbox  = [s \in Sandboxes |-> IF s = First THEN "live" ELSE "none"]
    /\ shell    = [t \in Terminals |-> None]
    /\ vite     = [p \in Previews |-> None]
    /\ mishaps  = 0

ActiveRun == \E r \in Runs : run[r] = "active"
IsLive(s) == s # None /\ sandbox[s] = "live"

Mishap   == mishaps < MaxMishaps /\ mishaps' = mishaps + 1
NoMishap == UNCHANGED mishaps

-----------------------------------------------------------------------------
(* The sandbox_leases row.  A reader is added to seen; a write forgets all  *)
(* readers but the writer, who knows the updated_at it wrote.               *)

ReadLease(me)  == seen' = seen \cup {me}
Current(me)    == me \in seen

WriteLease(me, newStatus, newRef) ==
    /\ lease' = [status |-> newStatus, ref |-> newRef]
    /\ seen'  = {me}

\* updateState: unconditional; a Lease that names no sandbox has no Preview.
UpdateState(me, newStatus, newRef) ==
    /\ project
    /\ WriteLease(me, newStatus, newRef)
    /\ preview' = IF newStatus = "stopped" \/ newRef = None THEN NoPreview ELSE preview

\* Mutant: the claims do not look at preview_sessions.
UnusedBesidePreview == ~ActiveRun /\ terminal.id = None

\* Nothing uses the sandbox: the part the three claims for a stop have in common.
Unused == ~ActiveRun /\ terminal.id = None /\ preview.id = None

CanClaimForStop(me, statuses) ==
    project /\ Current(me) /\ lease.status \in statuses /\ lease.ref # None /\ Unused

\* claimIdleAfterActivityForStop, claimForManualStop
DetachSandbox(me) == WriteLease(me, "stopped", None)

-----------------------------------------------------------------------------
(* The terminal_sessions row                                               *)

\* Mutant: the claim does not look at agent_runs.
CanClaimBesideRun(me) ==
    project /\ Current(me) /\ terminal.id = None
        /\ ~(preview.id # None /\ preview.status = "starting")

CanClaimTerminal(me) ==
    /\ project /\ Current(me)
    /\ ~ActiveRun
    /\ terminal.id = None
    /\ ~(preview.id # None /\ preview.status = "starting")

ClaimTerminal(t) == terminal' = [id |-> t, box |-> None, bound |-> FALSE]

\* setProviderSandboxRef and setProviderProcessRef
CanBindSandbox(t) == terminal.id = t /\ terminal.box = None
CanBindPty(t)     == terminal.id = t /\ terminal.box # None /\ ~terminal.bound

\* release
ReleaseTerminal(t) == terminal' = IF terminal.id = t THEN NoTerminal ELSE terminal

\* releaseAndMarkLeaseIdle and releaseAndMarkLeaseStopped: only when the session and the
\* Lease still name the sandbox; the Lease is written and the row deleted together.
OwnsSession(t, box) == terminal.id = t /\ terminal.box = box /\ lease.ref = box

ReleaseAsIdle(me, t, box) ==
    /\ OwnsSession(t, box)
    /\ WriteLease(me, "idle", box)
    /\ terminal' = NoTerminal
    /\ UNCHANGED preview

\* The Previews of the sandbox go even when the Lease names another one.
ReleaseAsStopped(me, t, box) ==
    /\ preview' = IF terminal.id = t /\ terminal.box = box /\ preview.box = box
                  THEN NoPreview ELSE preview
    /\ IF OwnsSession(t, box)
       THEN WriteLease(me, "stopped", None) /\ terminal' = NoTerminal
       ELSE UNCHANGED <<lease, seen, terminal>>

\* markLeaseFailedKeepingSession
FailKeepingSession(me, t, box) ==
    /\ IF OwnsSession(t, box) THEN WriteLease(me, "failed", box)
                              ELSE UNCHANGED <<lease, seen>>
    /\ UNCHANGED <<terminal, preview>>

-----------------------------------------------------------------------------
(* The preview_sessions row                                                *)

CanClaimPreview(me) ==
    /\ project /\ Current(me)
    /\ lease.status \in {"idle", "ready"} /\ lease.ref # None
    /\ ~ActiveRun /\ terminal.id = None /\ preview.id = None

ClaimPreview(p) == preview' = [id |-> p, box |-> lease.ref, status |-> "starting"]

CanMarkRunning(p) == preview.id = p /\ preview.status = "starting"

\* Mutant: the row takes the status of the Lease.
MarkReadyInstead(p) == preview' = [preview EXCEPT !.status = "ready"]

MarkRunning(p)    == preview' = [preview EXCEPT !.status = "running"]

ReleasePreview(p) == preview' = IF preview.id = p THEN NoPreview ELSE preview

-----------------------------------------------------------------------------
(* The Run, of which only what the sandbox's other users see is kept: the   *)
(* insert with its triggers, and the writes updateStateForRun lets it make. *)

CanInsertRun ==
    /\ project /\ ~ActiveRun
    /\ terminal.id = None
    /\ ~(preview.id # None /\ preview.status = "starting")

InsertRun(r) ==
    /\ run[r] = "absent"
    /\ CanInsertRun
    /\ run' = [run EXCEPT ![r] = "active"]
    /\ ReadLease(<<"run", r>>)
    /\ UNCHANGED <<project, lease, terminal, preview, processVars, mishaps>>

OwnsLease(r) == run[r] = "active" /\ Current(<<"run", r>>)

\* The Run uses the sandbox of the Lease, or a new one when that is gone.
RunTakesSandbox(r) ==
    /\ OwnsLease(r) /\ lease.status # "busy"
    /\ IF IsLive(lease.ref)
       THEN WriteLease(<<"run", r>>, "busy", lease.ref) /\ UNCHANGED sandbox
       ELSE /\ WriteLease(<<"run", r>>, "busy", r)
            /\ sandbox' = [sandbox EXCEPT ![r] = "live"]
    /\ UNCHANGED <<project, run, terminal, preview, shell, vite, mishaps>>

Destroy(s) ==
    /\ sandbox' = IF s = None THEN sandbox ELSE [sandbox EXCEPT ![s] = "gone"]
    /\ shell' = [t \in Terminals |-> IF shell[t] = s THEN None ELSE shell[t]]
    /\ vite'  = [p \in Previews |-> IF vite[p] = s THEN None ELSE vite[p]]

\* It leaves the sandbox idle or failed, or has stopped it together with its Preview.
RunEnds(r) ==
    /\ OwnsLease(r) /\ lease.status = "busy"
    /\ \/ /\ \E st \in {"idle", "failed"} : WriteLease(<<"run", r>>, st, lease.ref)
          /\ UNCHANGED <<preview, processVars>>
       \/ /\ WriteLease(<<"run", r>>, "stopped", None)
          /\ preview' = NoPreview
          /\ Destroy(lease.ref)
    /\ run' = [run EXCEPT ![r] = "done"]
    /\ UNCHANGED <<project, terminal, mishaps>>

-----------------------------------------------------------------------------
(* The Provider                                                            *)

SandboxIsLost(s) ==
    /\ IsLive(s) /\ Mishap
    /\ Destroy(s)
    /\ UNCHANGED rowVars

ViteExits(p) ==
    /\ vite[p] # None
    /\ vite' = [vite EXCEPT ![p] = None]
    /\ UNCHANGED <<rowVars, sandbox, shell, mishaps>>
=============================================================================
