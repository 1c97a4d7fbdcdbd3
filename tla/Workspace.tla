------------------------------- MODULE Workspace -------------------------------
(***************************************************************************)
(* All the activities of one Project together: its Terminals, its          *)
(* Previews, its Runs (in summary), the idle cleanups, and the users who   *)
(* stop the sandbox or delete the Project.                                 *)
(***************************************************************************)
EXTENDS ProjectSandbox

vars == <<storeVars, terminalVars, previewVars, cleanupVars>>

Init == StoreInit /\ TerminalInit /\ PreviewInit /\ CleanupInit

RunNext(r) ==
    (InsertRun(r) \/ RunTakesSandbox(r) \/ RunEnds(r))
        /\ UNCHANGED <<terminalVars, previewVars, cleanupVars>>

\* The Workflows of a Terminal and of a Preview: their expiry, and the idle cleanup after them.
TerminalIdle(t)  == ReclaimAfterActivity(t) \/ StopReclaimed(t)
PreviewIdle(p)   == ReclaimAfterActivity(p) \/ StopReclaimed(p)
PreviewExpiry(p) == ExpirePreview(p) \/ EndStep("expire", p)

Environment ==
    /\ (\E s \in Sandboxes : SandboxIsLost(s)) \/ (\E p \in Previews : ViteExits(p))
    /\ UNCHANGED <<terminalVars, previewVars, cleanupVars>>

Next ==
    \/ \E t \in Terminals : TerminalNext(t) /\ UNCHANGED <<previewVars, cleanupVars>>
    \/ \E p \in Previews : PreviewNext(p) /\ UNCHANGED <<terminalVars, cleanupVars>>
    \/ \E a \in TermActors, t \in Terminals : ScheduleTerminalIdle(a, t)
    \/ \E a \in ViewActors, p \in Previews : SchedulePreviewIdle(a, p)
    \/ \E t \in Terminals : TerminalIdle(t)
    \/ \E p \in Previews : PreviewIdle(p)
    \/ \E u \in Stops : RequestStop(u) \/ StopStep(u)
    \/ \E r \in Runs : RunNext(r)
    \/ Environment

Spec == Init /\ [][Next]_vars

\* A request goes on to its end unless its Worker is lost, and a Workflow that has been
\* created is run.  Nobody has to open, use or close anything.
Fairness ==
    /\ \A t \in Terminals :
         /\ WF_vars(Startup(t) /\ UNCHANGED <<previewVars, cleanupVars>>)
         /\ WF_vars(CleanUp("open", t) /\ UNCHANGED <<previewVars, cleanupVars>>)
         /\ WF_vars(Expire(t) /\ UNCHANGED <<previewVars, cleanupVars>>)
    /\ \A p \in Previews :
         /\ WF_vars(StartStep(p) /\ UNCHANGED <<terminalVars, cleanupVars>>)
         /\ WF_vars(EndStep("start", p) /\ UNCHANGED <<terminalVars, cleanupVars>>)
         /\ WF_vars(PreviewExpiry(p) /\ UNCHANGED <<terminalVars, cleanupVars>>)

FairSpec == Spec /\ Fairness

-----------------------------------------------------------------------------
(* Safety                                                                  *)

TypeOK ==
    /\ StoreTypeOK
    /\ term    \in [TermActors -> [Terminals -> TermRecords]]
    /\ wakes   \subseteq Terminals
    /\ view    \in [ViewActors -> [Previews -> ViewRecords]]
    /\ timers  \subseteq Previews
    /\ idle    \in [Sessions -> IdleRecords]
    /\ stop    \in [Stops -> StopRecords]

\* The rows implement the occupancy of the Project: the holder is the active Run or the
\* Terminal that has a session row.
Holder ==
    IF terminal.id # None THEN terminal.id
    ELSE IF ActiveRun THEN CHOOSE r \in Runs : run[r] = "active"
    ELSE None

Occupancy == INSTANCE ProjectOccupancy
    WITH Tenants <- Terminals \cup Runs, Shells <- Terminals, Nobody <- None,
         open <- project, holder <- Holder, alive <- {t \in Terminals : shell[t] # None}

ImplementsOccupancy == Occupancy!Spec

\* A Run's writes and a Terminal's never meet: triggers, claims and the retained locks
\* together keep an active Run and a session row apart.
RunExcludesTerminal == ~(ActiveRun /\ terminal.id # None)

\* Cleanups and stops take only a sandbox that nobody can be using: what they have
\* detached is named by no row and by no one who has bound it.
DetachedIsUnused ==
    \A s \in {idle[x].box : x \in {y \in Sessions : idle[y].pc = "stop"}}
             \cup {stop[u].box : u \in {v \in Stops : stop[v].pc = "stop"}} :
        /\ lease.ref # s
        /\ terminal.box # s /\ preview.box # s
        /\ \A t \in Terminals : shell[t] # s

\* A Run has the sandbox it works in to itself (docs/adr/0005 section 3): no clean-up of a
\* Terminal that it has outlasted stops it.
IsolationSparesRuns ==
    [][\A a \in TermActors, t \in Terminals :
         At(a, t, "isolate") /\ ~At(a, t, "isolate")' /\ IsLive(Box(a, t)) /\ ~IsLive(Box(a, t))'
           => ~(ActiveRun /\ lease = [status |-> "busy", ref |-> Box(a, t)])]_vars

-----------------------------------------------------------------------------
(* Liveness                                                                *)

\* Once its expiry Workflow exists, a Terminal gives the Project back, and a Preview that
\* is still starting, and so keeps Runs and Terminals out, does so too: with any one
\* mishap, whatever its Worker does.
ExpiryReleasesTerminal ==
    \A t \in Terminals : (terminal.id = t /\ t \in wakes) ~> terminal.id # t
ExpiryReleasesStartup ==
    \A p \in Previews :
        (preview.id = p /\ preview.status = "starting" /\ p \in timers)
            ~> ~(preview.id = p /\ preview.status = "starting")

\* docs/adr/0005 lets nothing but the expiry Workflow free a Terminal that lost its Worker
\* and has it created right after the claim; but a Worker can be lost in between.
TerminalLocksAreReleased ==
    \A t \in Terminals : terminal.id = t ~> terminal.id # t
=============================================================================
