----------------------------- MODULE ProjectSandbox -----------------------------
(***************************************************************************)
(* The end of a sandbox that nobody uses: the idle cleanup which a         *)
(* released Terminal or Preview schedules (stopAfterActivityIdle of        *)
(* src/application/sandbox-reclaimer.ts), the user who stops it            *)
(* (ProjectSandboxService, project-sandbox.ts) and the user who deletes    *)
(* the Project (ProjectManagementService.delete, project-management.ts).   *)
(* The Run's own idle cleanup is in module SandboxReclaimer.               *)
(***************************************************************************)
EXTENDS ProjectPreview

VARIABLES idle,           \* for each session, its idle-cleanup Workflow
          stop            \* for each request of a user, what it does

cleanupVars == <<idle, stop>>

IdleRecords == [pc : {"none", "asleep", "stop", "done"}, box : SandboxRefs]
StopRecords == [pc : {"off", "check", "claim", "stop", "delete", "done"},
                box : SandboxRefs, deletes : BOOLEAN]

NotScheduled == [pc |-> "none", box |-> None]
NoStop       == [pc |-> "off", box |-> None, deletes |-> FALSE]

CleanupInit ==
    /\ idle = [x \in Sessions |-> NotScheduled]
    /\ stop = [u \in Stops |-> NoStop]

-----------------------------------------------------------------------------
(* The idle cleanup                                                        *)

\* scheduleIdleCleanup: best effort.  The payload carries the updated_at it expects: a
\* Terminal wrote it when it released the session, a Preview read it some time before.
Schedule(x) ==
    \/ idle' = [idle EXCEPT ![x].pc = "asleep"] /\ NoMishap
    \/ /\ Mishap
       /\ idle' \in {idle, [idle EXCEPT ![x].pc = "asleep"]}

ScheduleTerminalIdle(a, t) ==
    /\ At(a, t, "idle") /\ Finish(a, t)
    /\ Schedule(t)
    /\ UNCHANGED <<wakes, previewVars, stop, rowVars, processVars>>

SchedulePreviewIdle(a, p) ==
    /\ Sees(a, p, "idle") /\ Leave(a, p)
    /\ Schedule(p)
    /\ seen' = IF <<a, p>> \in seen THEN seen \cup {<<"idle", p>>} ELSE seen
    /\ UNCHANGED <<terminalVars, timers, stop, project, lease, run, terminal, preview, processVars>>

\* stopAfterActivityIdle: its reads are repeated by the claim.
ReclaimAfterActivity(x) ==
    /\ idle[x].pc = "asleep"
    /\ IF CanClaimForStop(<<"idle", x>>, {"idle"})
       THEN /\ DetachSandbox(<<"idle", x>>)
            /\ idle' = [idle EXCEPT ![x] = [pc |-> "stop", box |-> lease.ref]]
       ELSE /\ idle' = [idle EXCEPT ![x].pc = "done"]
            /\ UNCHANGED <<lease, seen>>
    /\ UNCHANGED <<terminalVars, previewVars, stop, project, run, terminal, preview, processVars, mishaps>>

\* A stop that faults is not repeated: the retried step finds the Lease stopped.
StopReclaimed(x) ==
    /\ idle[x].pc = "stop"
    /\ idle' = [idle EXCEPT ![x] = [pc |-> "done", box |-> None]]
    /\ \/ Destroy(idle[x].box) /\ NoMishap
       \/ Mishap /\ UNCHANGED processVars
    /\ UNCHANGED <<terminalVars, previewVars, stop, rowVars>>

-----------------------------------------------------------------------------
(* A user stops the sandbox, or deletes the Project                        *)

StopTo(u, pc) == stop' = [stop EXCEPT ![u].pc = pc]
Answer(u)     == stop' = [stop EXCEPT ![u] = [NoStop EXCEPT !.pc = "done"]]

\* already_stopped and stopped let the deletion go on.
GoOn(u) == IF stop[u].deletes THEN StopTo(u, "delete") ELSE Answer(u)

RequestStop(u) ==
    /\ stop[u].pc = "off" /\ project
    /\ ReadLease(<<"stop", u>>)
    /\ \E deletes \in BOOLEAN :
         stop' = [stop EXCEPT ![u] = [pc |-> "check", box |-> lease.ref, deletes |-> deletes]]
    /\ UNCHANGED <<terminalVars, previewVars, idle, project, lease, run, terminal, preview,
                   processVars, mishaps>>

\* Three reads after the one of the Lease: any activity is an answer of project_busy.
CheckActivities(u) ==
    /\ stop[u].pc = "check"
    /\ \/ ~Unused /\ Answer(u)
       \/ Unused /\ stop[u].box # None /\ StopTo(u, "claim")
       \/ Unused /\ stop[u].box = None /\ GoOn(u)
    /\ UNCHANGED <<terminalVars, previewVars, idle, storeVars>>

\* stopManually.  A claim that fails is explained by what is read then (resolveClaimConflict).
ClaimForManualStop(u) ==
    /\ stop[u].pc = "claim"
    /\ LET claims == CanClaimForStop(<<"stop", u>>, LeaseStatuses \ {"stopped"}) IN
       \/ claims /\ DetachSandbox(<<"stop", u>>) /\ StopTo(u, "stop")
       \/ ~claims /\ (~Unused \/ lease.ref # None) /\ Answer(u) /\ UNCHANGED <<lease, seen>>
       \/ ~claims /\ Unused /\ lease.ref = None /\ GoOn(u) /\ UNCHANGED <<lease, seen>>
    /\ UNCHANGED <<terminalVars, previewVars, idle, project, run, terminal, preview, processVars,
                   mishaps>>

\* provider_error ends the deletion too.
StopClaimed(u) ==
    /\ stop[u].pc = "stop"
    /\ \/ Destroy(stop[u].box) /\ NoMishap /\ GoOn(u)
       \/ Mishap /\ UNCHANGED processVars /\ Answer(u)
    /\ UNCHANGED <<terminalVars, previewVars, idle, rowVars>>

\* deleteOwned archives the usage of the Runs in the same batch, and the archive takes no
\* active Run: the batch fails.  The other rows of the Project go with it.
DeleteProject(u) ==
    /\ stop[u].pc = "delete" /\ Answer(u)
    /\ IF project /\ ~ActiveRun
       THEN /\ project' = FALSE
            /\ lease' = [status |-> "stopped", ref |-> None] /\ seen' = {}
            /\ terminal' = NoTerminal /\ preview' = NoPreview
       ELSE UNCHANGED <<project, lease, seen, terminal, preview>>
    /\ UNCHANGED <<terminalVars, previewVars, idle, run, processVars, mishaps>>

StopStep(u) == CheckActivities(u) \/ ClaimForManualStop(u) \/ StopClaimed(u) \/ DeleteProject(u)
=============================================================================
