----------------------------- MODULE ProjectPreview -----------------------------
(***************************************************************************)
(* ProjectPreviewService (src/application/project-preview.ts): the request *)
(* that starts a Preview ("start"), a later request that stops, inspects   *)
(* or fetches it ("use"), and its expiry Workflow ("expire").  A Preview   *)
(* may run beside a Run or a Terminal, whose sandbox it must not stop, so  *)
(* its clean-up only ever kills its own process.                           *)
(***************************************************************************)
EXTENDS ProjectTerminal

VARIABLES view,           \* for each actor and Preview, what it does
          timers          \* the Previews whose expiry Workflow has been created

previewVars == <<view, timers>>

\* box: the sandbox of the Lease or session it has read; idle: has it read an updated_at
\* with which to schedule the idle cleanup.
ViewRecords ==
    [pc : {"off", "inspect", "claim", "schedule", "spawn", "mark", "undo",
           "kill", "probe", "fetch", "drop", "idle", "done"},
     box : SandboxRefs, idle : BOOLEAN]

NoView     == [pc |-> "off", box |-> None, idle |-> FALSE]
ViewActors == {"start", "use", "expire"}

PreviewInit ==
    /\ view = [a \in ViewActors |-> [p \in Previews |-> NoView]]
    /\ timers = {}

Sees(a, p, pc)   == view[a][p].pc = pc
Move(a, p, pc)   == view' = [view EXCEPT ![a][p].pc = pc]
Leave(a, p)      == view' = [view EXCEPT ![a][p] = [NoView EXCEPT !.pc =
                                                      IF a = "use" THEN "off" ELSE "done"]]
-----------------------------------------------------------------------------
(* start()                                                                 *)

\* The other activities looked up first are looked up again by the claim.
StartPreview(p) ==
    /\ Sees("start", p, "off") /\ project
    /\ lease.ref # None /\ lease.status \in {"idle", "ready"}
    /\ ReadLease(<<"start", p>>)
    /\ view' = [view EXCEPT !["start"][p] = [NoView EXCEPT !.pc = "inspect", !.box = lease.ref]]
    /\ UNCHANGED <<timers, project, lease, run, terminal, preview, processVars, mishaps>>

\* inspectPreview: no entry, missing dependencies, or no sandbox, and nothing was claimed.
InspectWorkspace(p) ==
    /\ Sees("start", p, "inspect")
    /\ \/ IsLive(view["start"][p].box) /\ Move("start", p, "claim")
       \/ Leave("start", p)
    /\ UNCHANGED <<timers, storeVars>>

ClaimPreviewSession(p) ==
    /\ Sees("start", p, "claim")
    /\ \/ CanClaimPreview(<<"start", p>>) /\ ClaimPreview(p) /\ Move("start", p, "schedule")
       \/ ~CanClaimPreview(<<"start", p>>) /\ Leave("start", p) /\ UNCHANGED preview
    /\ UNCHANGED <<timers, project, lease, seen, run, terminal, processVars, mishaps>>

SchedulePreviewExpiry(p) ==
    /\ Sees("start", p, "schedule")
    /\ \/ Move("start", p, "spawn") /\ timers' = timers \cup {p} /\ NoMishap
       \/ /\ Mishap /\ Move("start", p, "drop")
          /\ timers' \in {timers, timers \cup {p}}
    /\ UNCHANGED <<rowVars, processVars>>

\* startPreview of the runtime: the port may never become ready, and then the process is
\* killed, unless that faults too.
SpawnVite(p) ==
    /\ Sees("start", p, "spawn")
    /\ LET box == view["start"][p].box IN
       \/ /\ IsLive(box) /\ NoMishap /\ Move("start", p, "mark")
          /\ vite' = [vite EXCEPT ![p] = box]
       \/ Move("start", p, "drop") /\ UNCHANGED <<vite, mishaps>>
       \/ /\ IsLive(box) /\ Mishap /\ Move("start", p, "drop")
          /\ vite' = [vite EXCEPT ![p] = box]
    /\ UNCHANGED <<timers, rowVars, sandbox, shell>>

\* markRunning; a session that is gone has its process killed, a fault leaves it behind.
MarkPreviewRunning(p) ==
    /\ Sees("start", p, "mark")
    /\ \/ CanMarkRunning(p) /\ MarkRunning(p) /\ Leave("start", p) /\ NoMishap
       \/ ~CanMarkRunning(p) /\ Move("start", p, "undo") /\ UNCHANGED <<preview, mishaps>>
       \/ /\ Mishap /\ Move("start", p, "drop")
          /\ \/ UNCHANGED preview
             \/ CanMarkRunning(p) /\ MarkRunning(p)
    /\ UNCHANGED <<timers, project, lease, seen, run, terminal, processVars>>

UndoSpawn(p) ==
    /\ Sees("start", p, "undo") /\ Move("start", p, "drop")
    /\ \/ vite' = [vite EXCEPT ![p] = None] /\ NoMishap
       \/ Mishap /\ UNCHANGED vite
    /\ UNCHANGED <<timers, rowVars, sandbox, shell>>

-----------------------------------------------------------------------------
(* stop(), inspect(), fetch() and expire()                                  *)

\* A session whose sandbox the Lease no longer names is released without more ado.
ReadSessionAndLease(a, p, next) ==
    IF lease.ref = preview.box
    THEN /\ ReadLease(<<a, p>>)
         /\ view' = [view EXCEPT ![a][p] = [pc |-> next, box |-> preview.box, idle |-> TRUE]]
    ELSE /\ UNCHANGED seen
         /\ view' = [view EXCEPT ![a][p] = [pc |-> "drop", box |-> preview.box, idle |-> FALSE]]

UsePreview(p) ==
    /\ Sees("use", p, "off")
    /\ preview.id = p /\ preview.status = "running"
    /\ \E request \in {"kill", "probe", "fetch"} : ReadSessionAndLease("use", p, request)
    /\ UNCHANGED <<timers, project, lease, run, terminal, preview, processVars, mishaps>>

\* Mutant: a session that is still starting is taken for one that is gone.
ExpireRunningOnly(p) ==
    /\ p \in timers /\ Sees("expire", p, "off")
    /\ IF preview.id = p /\ preview.status = "running"
       THEN ReadSessionAndLease("expire", p, "kill")
       ELSE Leave("expire", p) /\ UNCHANGED seen
    /\ UNCHANGED <<timers, project, lease, run, terminal, preview, processVars, mishaps>>

\* A session without a process reference has nothing to terminate.
ExpirePreview(p) ==
    /\ p \in timers /\ Sees("expire", p, "off")
    /\ IF preview.id = p
       THEN ReadSessionAndLease("expire", p, IF preview.status = "running" THEN "kill" ELSE "drop")
       ELSE Leave("expire", p) /\ UNCHANGED seen
    /\ UNCHANGED <<timers, project, lease, run, terminal, preview, processVars, mishaps>>

\* terminatePreview: after a fault the session stays, and the expiry does not try again.
KillVite(a, p) ==
    /\ Sees(a, p, "kill")
    /\ \/ Move(a, p, "drop") /\ vite' = [vite EXCEPT ![p] = None] /\ NoMishap
       \/ /\ Mishap /\ Leave(a, p)
          /\ vite' \in {vite, [vite EXCEPT ![p] = None]}
    /\ UNCHANGED <<timers, rowVars, sandbox, shell>>

\* inspect() asks for the process, fetch() notices only that the sandbox is gone.
ProbeVite(p) ==
    /\ \/ Sees("use", p, "probe") /\ vite[p] = None /\ Move("use", p, "drop")
       \/ Sees("use", p, "probe") /\ vite[p] # None /\ Leave("use", p)
       \/ /\ Sees("use", p, "fetch") /\ ~IsLive(view["use"][p].box) /\ Move("use", p, "drop")
       \/ /\ Sees("use", p, "fetch") /\ IsLive(view["use"][p].box) /\ Leave("use", p)
    /\ UNCHANGED <<timers, storeVars>>

\* release; only whoever deletes the row goes on to schedule the idle cleanup.
DropPreview(a, p) ==
    /\ Sees(a, p, "drop")
    /\ \/ /\ ReleasePreview(p) /\ NoMishap
          /\ IF preview.id = p /\ view[a][p].idle THEN Move(a, p, "idle") ELSE Leave(a, p)
       \/ /\ Mishap
          /\ ReleasePreview(p) \/ UNCHANGED preview
          /\ IF a = "expire" THEN Move(a, p, "off") ELSE Leave(a, p)
    /\ UNCHANGED <<timers, project, lease, seen, run, terminal, processVars>>

\* The isolate is lost.  Cloudflare runs the step of the expiry again.
LoseView(a, p) ==
    /\ view[a][p].pc \notin {"off", "done", "inspect", "claim", "probe", "fetch"} /\ Mishap
    /\ IF a = "start" THEN Leave(a, p) ELSE view' = [view EXCEPT ![a][p] = NoView]
    /\ UNCHANGED <<timers, rowVars, processVars>>

-----------------------------------------------------------------------------
StartStep(p) ==
    \/ InspectWorkspace(p) \/ ClaimPreviewSession(p) \/ SchedulePreviewExpiry(p)
    \/ SpawnVite(p) \/ MarkPreviewRunning(p) \/ UndoSpawn(p)

EndStep(a, p) == KillVite(a, p) \/ DropPreview(a, p)

PreviewNext(p) ==
    \/ StartPreview(p) \/ StartStep(p)
    \/ UsePreview(p) \/ ProbeVite(p) \/ ExpirePreview(p)
    \/ \E a \in ViewActors : EndStep(a, p) \/ LoseView(a, p)
=============================================================================
