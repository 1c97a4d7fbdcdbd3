---------------------------- MODULE ProjectTerminal ----------------------------
(***************************************************************************)
(* ProjectTerminalService (src/application/project-terminal.ts): the       *)
(* request that opens a Terminal and then manages it ("open"), and the     *)
(* expiry Workflow that owns its end when the Worker is gone ("expire").   *)
(* Both run the same clean-up: kill the PTY and release the session, or    *)
(* isolate the whole sandbox, or keep the session as a lock.               *)
(*                                                                         *)
(* Each step is one statement or one Provider call; a step that faults may *)
(* or may not have been executed.                                          *)
(***************************************************************************)
EXTENDS WorkspaceStore

VARIABLES term,           \* for each actor and Terminal, what it does
          wakes           \* the Terminals whose expiry Workflow has been created

terminalVars == <<term, wakes>>

StartupPcs == {"claim", "schedule", "starting", "ensure", "ready", "bind", "spawn",
               "bindPty", "busy"}
CleanupPcs == {"kill", "release", "isolate", "stopped", "keep", "failLease", "drop", "idle"}

\* ref: the sandbox of the Lease as this actor knows it; box: the one it runs in; spawned:
\* does it hold a PTY; phase: how far the session has come.
TermRecords ==
    [pc : {"off", "managed", "read", "done"} \cup StartupPcs \cup CleanupPcs,
     ref : SandboxRefs, box : SandboxRefs,
     spawned : BOOLEAN, phase : {"startup", "session", "exited"}]

NoTerm == [pc |-> "off", ref |-> None, box |-> None,
           spawned |-> FALSE, phase |-> "startup"]

TermActors == {"open", "expire"}

TerminalInit ==
    /\ term = [a \in TermActors |-> [t \in Terminals |-> NoTerm]]
    /\ wakes = {}

At(a, t, pc)  == term[a][t].pc = pc
Box(a, t)     == term[a][t].box
Goto(a, t, pc) == term' = [term EXCEPT ![a][t].pc = pc]

\* The record is dropped when an actor is done, but for what the properties ask of it.
Finish(a, t) == term' = [term EXCEPT ![a][t] = [NoTerm EXCEPT !.pc = "done"]]

\* A step of open() that throws ends in cleanupFailedOpen.
FailedOpen(rec) ==
    [rec EXCEPT !.pc = IF rec.box = None THEN "failLease"
                       ELSE IF rec.spawned THEN "kill" ELSE "isolate"]
Throw(t) == term' = [term EXCEPT !["open"][t] = FailedOpen(@)]

-----------------------------------------------------------------------------
(* open()                                                                  *)

Me(t) == <<"open", t>>

\* getOrCreate; the active Run that is looked up before is looked up again by the claim.
OpenTerminal(t) ==
    /\ At("open", t, "off") /\ project
    /\ ReadLease(Me(t))
    /\ term' = [term EXCEPT !["open"][t] = [NoTerm EXCEPT !.pc = "claim", !.ref = lease.ref]]
    /\ UNCHANGED <<wakes, project, lease, run, terminal, preview, processVars, mishaps>>

\* A claim may also be refused by the user's allowance (module ModelGateway).
ClaimSession(t) ==
    /\ At("open", t, "claim")
    /\ \/ CanClaimTerminal(Me(t)) /\ ClaimTerminal(t) /\ Goto("open", t, "schedule")
       \/ ~CanClaimTerminal(Me(t)) /\ Finish("open", t) /\ UNCHANGED terminal
    /\ UNCHANGED <<wakes, project, lease, seen, run, preview, processVars, mishaps>>

ScheduleTerminalExpiry(t) ==
    /\ At("open", t, "schedule")
    /\ \/ Goto("open", t, "starting") /\ wakes' = wakes \cup {t} /\ NoMishap
       \/ /\ Goto("open", t, "drop") /\ Mishap
          /\ wakes' \in {wakes, wakes \cup {t}}
    /\ UNCHANGED <<rowVars, processVars>>

\* A write of the Lease by its id.  It throws when the Project has been deleted.
WriteLeaseStep(t, at, status, ref, next) ==
    /\ At("open", t, at)
    /\ \/ /\ UpdateState(Me(t), status, ref) /\ NoMishap
          /\ term' = [term EXCEPT
                !["open"][t].pc = next, !["open"][t].ref = ref,
                !["open"][t].phase = IF next = "managed" THEN "session" ELSE "startup"]
       \/ ~project /\ Throw(t) /\ UNCHANGED <<lease, seen, preview, mishaps>>
       \/ /\ Mishap /\ Throw(t)
          /\ UpdateState(Me(t), status, ref) \/ UNCHANGED <<lease, seen, preview>>
    /\ UNCHANGED <<wakes, project, run, terminal, processVars>>

MarkStarting(t) == WriteLeaseStep(t, "starting", "starting", term["open"][t].ref, "ensure")
MarkReady(t)    == WriteLeaseStep(t, "ready", "ready", Box("open", t), "bind")
MarkBusy(t)     == WriteLeaseStep(t, "busy", "busy", Box("open", t), "managed")

\* ensureLease attaches to the sandbox of the Lease or creates one.
EnsureSandbox(t) ==
    /\ At("open", t, "ensure")
    /\ LET ref == term["open"][t].ref
           new == ~IsLive(ref)
       IN  \/ /\ term' = [term EXCEPT !["open"][t].pc = "ready",
                                      !["open"][t].box = IF new THEN t ELSE ref]
              /\ sandbox' = IF new THEN [sandbox EXCEPT ![t] = "live"] ELSE sandbox
              /\ NoMishap
           \/ /\ Mishap /\ Throw(t)
              /\ sandbox' \in {sandbox, IF new THEN [sandbox EXCEPT ![t] = "live"] ELSE sandbox}
    /\ UNCHANGED <<wakes, rowVars, shell, vite>>

BindSandbox(t) ==
    /\ At("open", t, "bind")
    /\ \/ /\ CanBindSandbox(t) /\ NoMishap
          /\ terminal' = [terminal EXCEPT !.box = Box("open", t)]
          /\ Goto("open", t, "spawn")
       \/ ~CanBindSandbox(t) /\ Throw(t) /\ UNCHANGED <<terminal, mishaps>>
       \/ /\ Mishap /\ Throw(t)
          /\ \/ UNCHANGED terminal
             \/ CanBindSandbox(t) /\ terminal' = [terminal EXCEPT !.box = Box("open", t)]
    /\ UNCHANGED <<wakes, project, lease, seen, run, preview, processVars>>

SpawnPty(t) ==
    /\ At("open", t, "spawn")
    /\ \/ /\ IsLive(Box("open", t)) /\ NoMishap
          /\ shell' = [shell EXCEPT ![t] = Box("open", t)]
          /\ term' = [term EXCEPT !["open"][t].pc = "bindPty", !["open"][t].spawned = TRUE]
       \/ ~IsLive(Box("open", t)) /\ Throw(t) /\ UNCHANGED <<shell, mishaps>>
       \/ /\ IsLive(Box("open", t)) /\ Mishap /\ Throw(t)
          /\ shell' \in {shell, [shell EXCEPT ![t] = Box("open", t)]}
    /\ UNCHANGED <<wakes, rowVars, sandbox, vite>>

BindPty(t) ==
    /\ At("open", t, "bindPty")
    /\ \/ /\ CanBindPty(t) /\ NoMishap
          /\ terminal' = [terminal EXCEPT !.bound = TRUE]
          /\ Goto("open", t, "busy")
       \/ ~CanBindPty(t) /\ Throw(t) /\ UNCHANGED <<terminal, mishaps>>
       \/ /\ Mishap /\ Throw(t)
          /\ \/ UNCHANGED terminal
             \/ CanBindPty(t) /\ terminal' = [terminal EXCEPT !.bound = TRUE]
    /\ UNCHANGED <<wakes, project, lease, seen, run, preview, processVars>>

-----------------------------------------------------------------------------
(* ManagedProjectTerminal: whatever ends the session first begins the only  *)
(* clean-up (beginCleanup keeps its promise).                               *)

\* close(): by the client, by the local timer, or because the stream failed.
CloseTerminal(t) ==
    /\ At("open", t, "managed")
    /\ Goto("open", t, "kill")
    /\ UNCHANGED <<wakes, storeVars>>

\* events(): the PTY exits, and there is nothing left to kill or to isolate.
PtyExits(t) ==
    /\ At("open", t, "managed") /\ shell[t] # None
    /\ shell' = [shell EXCEPT ![t] = None]
    /\ term' = [term EXCEPT !["open"][t].pc = "release", !["open"][t].phase = "exited"]
    /\ UNCHANGED <<wakes, rowVars, sandbox, vite, mishaps>>

\* The isolate that opens or manages the Terminal is lost.
LoseWorker(t) ==
    /\ term["open"][t].pc \notin {"off", "claim", "done"}
    /\ Mishap /\ Finish("open", t)
    /\ UNCHANGED <<wakes, rowVars, processVars>>

-----------------------------------------------------------------------------
(* The clean-up, by either actor                                            *)

\* Mutant: a PTY whose kill faults is taken to be dead.
KillBestEffort(a, t) ==
    /\ At(a, t, "kill")
    /\ \/ shell' = [shell EXCEPT ![t] = None] /\ NoMishap
       \/ Mishap /\ UNCHANGED shell
    /\ Goto(a, t, "release")
    /\ UNCHANGED <<wakes, rowVars, sandbox, vite>>

\* The kill of a PTY that is gone succeeds; of one whose sandbox is gone it throws.
KillPty(a, t) ==
    /\ At(a, t, "kill")
    /\ \/ /\ IsLive(Box(a, t)) /\ NoMishap
          /\ shell' = [shell EXCEPT ![t] = None]
          /\ Goto(a, t, "release")
       \/ ~IsLive(Box(a, t)) /\ Goto(a, t, "isolate") /\ UNCHANGED <<shell, mishaps>>
       \/ /\ IsLive(Box(a, t)) /\ Mishap /\ Goto(a, t, "isolate")
          /\ shell' \in {shell, [shell EXCEPT ![t] = None]}
    /\ UNCHANGED <<wakes, rowVars, sandbox, vite>>

\* releaseTerminalAsIdle.  A fault of the batch is caught like a failed kill and isolates
\* the sandbox; after an exit it ends the stream, and the session is left to the expiry.
ReleaseIdle(a, t) ==
    /\ At(a, t, "release")
    /\ \/ /\ ReleaseAsIdle(<<"idle", t>>, t, Box(a, t)) /\ NoMishap
          /\ Goto(a, t, "idle")
       \/ /\ ~OwnsSession(t, Box(a, t)) /\ Finish(a, t)
          /\ UNCHANGED <<lease, seen, terminal, preview, mishaps>>
       \/ /\ Mishap
          /\ \/ ReleaseAsIdle(<<"idle", t>>, t, Box(a, t))
             \/ UNCHANGED <<lease, seen, terminal, preview>>
          /\ IF term[a][t].phase = "exited" THEN Finish(a, t) ELSE Goto(a, t, "isolate")
    /\ UNCHANGED <<wakes, project, run, processVars>>

\* isolateSandboxAndRelease
StopSandbox(a, t) ==
    /\ At(a, t, "isolate")
    /\ \/ Destroy(Box(a, t)) /\ NoMishap /\ Goto(a, t, "stopped")
       \/ /\ Mishap /\ Goto(a, t, "keep")
          /\ Destroy(Box(a, t)) \/ UNCHANGED processVars
    /\ UNCHANGED <<wakes, rowVars>>

ReleaseStopped(a, t) ==
    /\ At(a, t, "stopped")
    /\ \/ /\ ReleaseAsStopped(<<a, t>>, t, Box(a, t)) /\ NoMishap
          /\ Finish(a, t)
       \/ /\ Mishap /\ Goto(a, t, "keep")
          /\ \/ ReleaseAsStopped(<<a, t>>, t, Box(a, t))
             \/ UNCHANGED <<lease, seen, terminal, preview>>
    /\ UNCHANGED <<wakes, project, run, processVars>>

\* The Lease is marked failed and the session stays: nobody may use that sandbox.
KeepSession(a, t) ==
    /\ At(a, t, "keep") /\ Finish(a, t)
    /\ FailKeepingSession(<<a, t>>, t, Box(a, t))
    /\ UNCHANGED <<wakes, project, run, processVars, mishaps>>

\* markLeaseFailedBestEffort, for a session that has no sandbox yet, and release.  The
\* expiry is retried when the release faults; the opener gives up.
FailLease(a, t) ==
    /\ At(a, t, "failLease") /\ Goto(a, t, "drop")
    /\ \/ UpdateState(<<a, t>>, "failed", term[a][t].ref) /\ NoMishap
       \/ ~project /\ UNCHANGED <<lease, seen, preview, mishaps>>
       \/ Mishap /\ UNCHANGED <<lease, seen, preview>>
    /\ UNCHANGED <<wakes, project, run, terminal, processVars>>

DropSession(a, t) ==
    /\ At(a, t, "drop")
    /\ \/ ReleaseTerminal(t) /\ NoMishap /\ Finish(a, t)
       \/ /\ Mishap
          /\ ReleaseTerminal(t) \/ UNCHANGED terminal
          /\ IF a = "expire" THEN Goto(a, t, "off") ELSE Finish(a, t)
    /\ UNCHANGED <<wakes, project, lease, seen, run, preview, processVars>>

-----------------------------------------------------------------------------
(* expire(), a Workflow step that Cloudflare retries twice when it throws.   *)
(* MaxMishaps is below the number of retries, so they are not counted.      *)

\* The session outlasts its startup and the clean-up of a failed one: every Provider call
\* times out within minutes.
Starting(t) ==
    ~At("open", t, "off") /\ ~At("open", t, "done") /\ term["open"][t].phase = "startup"

\* Mutant: only a session that has a PTY is ended.
ReadBoundOnly(t) ==
    /\ t \in wakes /\ At("expire", t, "off") /\ ~Starting(t)
    /\ IF terminal.id # t \/ ~terminal.bound THEN Finish("expire", t)
       ELSE term' = [term EXCEPT !["expire"][t] =
                       [NoTerm EXCEPT !.ref = lease.ref, !.box = terminal.box, !.pc = "kill"]]
    /\ UNCHANGED <<wakes, storeVars>>

ReadSession(t) ==
    /\ t \in wakes /\ At("expire", t, "off") /\ ~Starting(t)
    /\ IF terminal.id # t THEN Finish("expire", t)
       ELSE term' = [term EXCEPT !["expire"][t] =
                       [NoTerm EXCEPT !.ref = lease.ref, !.box = terminal.box,
                                      !.pc = IF terminal.box = None THEN "failLease"
                                             ELSE IF terminal.bound THEN "kill" ELSE "isolate"]]
    /\ UNCHANGED <<wakes, storeVars>>

\* A lost isolate makes Cloudflare run the step again.
LoseExpiry(t) ==
    /\ term["expire"][t].pc \in CleanupPcs /\ Mishap
    /\ term' = [term EXCEPT !["expire"][t] = NoTerm]
    /\ UNCHANGED <<wakes, rowVars, processVars>>

-----------------------------------------------------------------------------
Startup(t) ==
    \/ ClaimSession(t) \/ ScheduleTerminalExpiry(t) \/ MarkStarting(t) \/ EnsureSandbox(t)
    \/ MarkReady(t) \/ BindSandbox(t) \/ SpawnPty(t) \/ BindPty(t) \/ MarkBusy(t)

\* scheduleIdleCleanup is the step at "idle", in module ProjectSandbox.
CleanUp(a, t) ==
    \/ KillPty(a, t) \/ ReleaseIdle(a, t) \/ StopSandbox(a, t) \/ ReleaseStopped(a, t)
    \/ KeepSession(a, t) \/ FailLease(a, t) \/ DropSession(a, t)

Expire(t) == ReadSession(t) \/ CleanUp("expire", t)

TerminalNext(t) ==
    \/ OpenTerminal(t) \/ Startup(t)
    \/ CloseTerminal(t) \/ PtyExits(t) \/ LoseWorker(t) \/ LoseExpiry(t)
    \/ CleanUp("open", t) \/ Expire(t)
=============================================================================
