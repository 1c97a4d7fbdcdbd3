------------------------- MODULE WorkspaceSafety_proofs -------------------------
(***************************************************************************)
(* What a cleanup or a stop has detached from the Lease is named by no row *)
(* and no PTY, for any number of Terminals, Previews, Runs, requests of    *)
(* users and mishaps: whoever has let go of a sandbox is the only one that *)
(* knows it, until it has stopped it.                                      *)
(*                                                                         *)
(* Two invariants on top of OccupancyInv.  RowsKept: a startup keeps its   *)
(* row, which names its sandbox, until it is over, and the expiry of a     *)
(* session without a sandbox begins only then.  NamesClear: nobody who may *)
(* still write a name into a row knows a detached one, and the sandboxes   *)
(* that nobody has created yet are named nowhere.                          *)
(***************************************************************************)
EXTENDS Workspace_proofs

\* The opener while the session row is its own: after the claim, and until a startup that
\* failed before it had a sandbox has given it back.
HasRow == {"schedule", "starting", "ensure", "ready", "bind", "spawn", "bindPty", "busy",
           "failLease"}

\* The opener with a sandbox, first one that its row does not name yet.
HasBox == {"ready", "bind"}
InBox  == {"spawn", "bindPty", "busy", "managed"}

\* The opener before it may have created a sandbox.
Unborn == {"off", "claim", "schedule", "starting", "ensure"}

\* A row that belongs to no session names no sandbox.
EmptyRows ==
    /\ terminal.id = None => terminal.box = None
    /\ preview.id = None => preview.box = None

\* The opener o of Terminal t, and its row.
OpenerKept(t, o) ==
    /\ o.pc \in HasRow /\ project => terminal.id = t
    /\ o.pc \in HasBox => o.box # None
    /\ o.pc \in InBox \/ o.phase # "startup" =>
         o.box # None /\ (terminal.id = t => terminal.box = o.box)
    /\ o.pc \in StartupPcs \cup {"failLease"} => o.phase = "startup"
    /\ t \in wakes => o.pc \notin {"off", "claim"}

\* The expiry e, which begins only when the opener o no longer starts.
ExpiryKept(t, o, e) ==
    /\ e.pc \notin {"off", "done"} => o.pc = "done" \/ o.phase # "startup"
    /\ e.pc = "failLease" => o.pc = "done" /\ (project => terminal.id = t)

RowKept(t) ==
    /\ OpenerKept(t, term["open"][t])
    /\ ExpiryKept(t, term["open"][t], term["expire"][t])

RowsKept == EmptyRows /\ \A t \in Terminals : RowKept(t)

\* What cleanups and stops have detached and are about to stop.
Detached ==
    {idle[x].box : x \in {y \in Sessions : idle[y].pc = "stop"}}
      \cup {stop[u].box : u \in {v \in Stops : stop[v].pc = "stop"}}

\* Nobody who may write a name of his into a row names a detached sandbox.
Clear(t) ==
    /\ term["open"][t].pc = "claim" =>
         term["open"][t].box = None /\ (Me(t) \in seen => term["open"][t].ref = lease.ref)
    /\ term["open"][t].pc \in HasRow =>
         term["open"][t].ref \notin Detached /\ term["open"][t].box \notin Detached
    /\ term["expire"][t].pc = "failLease" => term["expire"][t].ref \notin Detached

\* Whoever detaches the sandbox of the Lease knows which one that is.
StopKnows(u) ==
    stop[u].pc \in {"check", "claim"} /\ <<"stop", u>> \in seen => stop[u].box = lease.ref

\* The names from which those in the Lease come.
Names ==
    {lease.ref} \cup Detached \cup {term[a][t].ref : a \in TermActors, t \in Terminals}
      \cup {term["open"][t].box : t \in Terminals}

NewTerminal(t) == term["open"][t].pc \in Unborn => t \notin Names
NewRun(r) ==
    \/ run[r] = "absent"
    \/ run[r] = "active" /\ <<"run", r>> \in seen /\ lease.status # "busy"
    => r \notin Names

NamesClear ==
    /\ None \notin Detached
    /\ \A t \in Terminals : Clear(t) /\ NewTerminal(t)
    /\ \A u \in Stops : StopKnows(u)
    /\ \A r \in Runs : NewRun(r)
    /\ DetachedIsUnused

WorkspaceInv == OccupancyInv /\ RowsKept /\ NamesClear

-----------------------------------------------------------------------------
(* What a step of a Terminal does, field by field                          *)

\* Only the record of actor a of Terminal t changes.
OnlyActor(a, t) ==
    \A b \in TermActors, u \in Terminals : b # a \/ u # t => term'[b][u] = term[b][u]

\* The record goes on to pc with what it knows.
Goes(o, n, pc) == n.pc = pc /\ n.ref = o.ref /\ n.box = o.box /\ n.phase = o.phase

\* getOrCreate reads the Lease.
Opens(t, o, n) ==
    /\ o.pc = "off" /\ n.pc = "claim" /\ n.ref = lease.ref /\ n.box = None /\ n.phase = "startup"
    /\ seen' = seen \cup {Me(t)} /\ UNCHANGED <<lease, terminal, preview, shell, wakes>>

\* The session row is taken, by one whose Lease is current.
Claims(t, o, n) ==
    /\ o.pc = "claim" /\ Goes(o, n, "schedule")
    /\ Me(t) \in seen /\ project /\ terminal.id = None
    /\ terminal'.id = t /\ terminal'.box = None
    /\ UNCHANGED <<lease, seen, preview, shell, wakes>>

\* The expiry Workflow is created, or may be.
Schedules(t, o, n) ==
    /\ o.pc = "schedule" /\ (Goes(o, n, "starting") \/ Goes(o, n, "drop"))
    /\ wakes' \in {wakes, wakes \cup {t}}
    /\ UNCHANGED <<lease, seen, terminal, preview, shell>>

\* What an await of the startup may do to rows and PTY, whether it succeeds or throws.
Works(t, o) ==
    /\ \/ UNCHANGED <<lease, seen>>
       \/ seen' = {Me(t)} /\ o.pc = "starting" /\ lease'.ref = o.ref
       \/ seen' = {Me(t)} /\ o.pc \in {"ready", "busy"} /\ lease'.ref = o.box
    /\ \/ terminal' = terminal
       \/ /\ terminal.id = t /\ terminal'.id = t
          /\ terminal'.box = terminal.box \/ (o.pc = "bind" /\ terminal'.box = o.box)
    /\ preview' \in {preview, NoPreview}
    /\ \A u \in Terminals :
         shell'[u] = shell[u] \/ (u = t /\ o.pc = "spawn" /\ shell'[u] = o.box)
    /\ wakes' = wakes

\* How the record goes on: the sandbox is that of the Lease or one that t creates.
Continues(t, o, n) ==
    /\ \/ o.pc = "starting" /\ n.pc = "ensure" /\ n.ref = o.ref /\ n.box = o.box
       \/ /\ o.pc = "ensure" /\ n.pc = "ready" /\ n.ref = o.ref /\ n.box \in {o.ref, t}
          /\ n.box # None
       \/ o.pc = "ready" /\ n.pc = "bind" /\ n.ref = o.box /\ n.box = o.box
       \/ /\ o.pc = "bind" /\ Goes(o, n, "spawn")
          /\ terminal.id = t /\ terminal'.box = o.box
       \/ o.pc = "spawn" /\ Goes(o, n, "bindPty")
       \/ o.pc = "bindPty" /\ Goes(o, n, "busy")
       \/ o.pc = "busy" /\ n.pc = "managed" /\ n.ref = o.box /\ n.box = o.box
    /\ n.phase \in {"startup", o.phase} \/ n.pc = "managed"

Fails(o, n) ==
    \/ o.box = None /\ Goes(o, n, "failLease")
    \/ o.box # None /\ (Goes(o, n, "kill") \/ Goes(o, n, "isolate"))

StartsUp(t, o, n) ==
    /\ o.pc \in {"starting", "ensure", "ready", "bind", "spawn", "bindPty", "busy"}
    /\ Works(t, o)
    /\ Continues(t, o, n) \/ Fails(o, n)

\* A claim that is refused, an isolate that is lost, or the expiry of a session that is gone.
LeavesAlone(o, n) ==
    /\ o.pc # "off" /\ n.pc = "done" /\ n.ref = None /\ n.box = None /\ n.phase = "startup"
    /\ UNCHANGED <<lease, seen, terminal, preview, shell, wakes>>

\* The end of the session and the clean-up, by either actor.
CleansUp(a, t, o, n) ==
    /\ o.pc \in CleanupPcs \cup {"managed"} /\ (a = "expire" => o.pc \in CleanupPcs)
    /\ \/ n.pc = "done" /\ n.ref = None /\ n.box = None /\ n.phase = "startup"
       \/ /\ n.pc \in CleanupPcs \ {"failLease"} /\ n.ref = o.ref /\ n.box = o.box
          /\ n.phase \in {o.phase, "exited"} /\ (n.phase = o.phase \/ o.pc = "managed")
       \/ a = "expire" /\ n.pc = "off" /\ n.ref \in {o.ref, None}
    /\ \/ UNCHANGED <<lease, seen>>
       \/ /\ \E me \in {"open", "expire", "idle"} : seen' = {<<me, t>>}
          /\ lease'.ref \in {lease.ref, None} \/ (o.pc = "failLease" /\ lease'.ref = o.ref)
    /\ terminal' = terminal \/ (terminal.id = t /\ terminal' = NoTerminal)
    /\ preview' \in {preview, NoPreview}
    /\ \A u \in Terminals : shell'[u] \in {shell[u], None}
    /\ wakes' = wakes

\* expire() reads the session and the Lease.
ReadsSession(t, o, n) ==
    /\ t \in wakes /\ o.pc = "off" /\ ~Starting(t)
    /\ \/ n.pc = "done" /\ n.ref = None
       \/ /\ terminal.id = t /\ n.ref = lease.ref /\ n.pc \in {"failLease", "kill", "isolate"}
          /\ n.pc = "failLease" => terminal.box = None
    /\ UNCHANGED <<lease, seen, terminal, preview, shell, wakes>>

OpenerMoves(t, o, n) ==
    \/ Opens(t, o, n) \/ Claims(t, o, n) \/ Schedules(t, o, n) \/ StartsUp(t, o, n)
    \/ LeavesAlone(o, n) \/ CleansUp("open", t, o, n)

ExpiryMoves(t, o, n) == CleansUp("expire", t, o, n) \/ ReadsSession(t, o, n)

\* A step of Terminal t, with the variables that it shares with nobody but Terminals.
TerminalMoves(t) ==
    /\ UNCHANGED <<project, run>>
    /\ \/ /\ OnlyActor("open", t)
          /\ OpenerMoves(t, term["open"][t], term'["open"][t])
       \/ /\ OnlyActor("expire", t)
          /\ ExpiryMoves(t, term["expire"][t], term'["expire"][t])

LEMMA GoesEffect ==
    ASSUME TerminalTyped, NEW a \in TermActors, NEW t \in Terminals, NEW pc, Goto(a, t, pc)
    PROVE  OnlyActor(a, t) /\ Goes(term[a][t], term'[a][t], pc)
  BY GotoEffect DEF OnlyActor, Goes

LEMMA FailsEffect ==
    ASSUME TerminalTyped, NEW t \in Terminals, Throw(t)
    PROVE  OnlyActor("open", t) /\ Fails(term["open"][t], term'["open"][t])
  BY ThrowEffect DEF OnlyActor, Fails, Goes

LEMMA LeavesEffect ==
    ASSUME TerminalTyped, NEW a \in TermActors, NEW t \in Terminals, Finish(a, t)
    PROVE  /\ OnlyActor(a, t) /\ term'[a][t].pc = "done" /\ term'[a][t].phase = "startup"
           /\ term'[a][t].ref = None /\ term'[a][t].box = None
  BY FinishEffect DEF OnlyActor

LEMMA OpenMoves ==
    ASSUME TerminalTyped, NEW t \in Terminals, OpenTerminal(t)
    PROVE  TerminalMoves(t)
<1> DEFINE rec == [NoTerm EXCEPT !.pc = "claim", !.ref = lease.ref]
<1>1. /\ term["open"][t].pc = "off" /\ seen' = seen \cup {Me(t)}
      /\ UNCHANGED <<lease, terminal, preview, shell, wakes, project, run>>
  BY DEF OpenTerminal, At, ReadLease, processVars
<1>2. rec.pc = "claim" /\ rec.ref = lease.ref /\ rec.box = None /\ rec.phase = "startup"
  BY DEF NoTerm
<1>3. term' = [term EXCEPT !["open"][t] = rec]
  BY DEF OpenTerminal
<1> HIDE DEF rec
<1>4. term'["open"][t] = rec
  BY <1>3, Actors DEF TerminalTyped
<1>5. OnlyActor("open", t)
  BY <1>3, Actors DEF TerminalTyped, OnlyActor
<1>6. Opens(t, term["open"][t], term'["open"][t])
  BY <1>1, <1>2, <1>4 DEF Opens
<1> QED BY <1>1, <1>5, <1>6 DEF TerminalMoves, OpenerMoves

LEMMA ClaimMoves ==
    ASSUME TerminalTyped, NEW t \in Terminals, ClaimSession(t)
    PROVE  TerminalMoves(t)
<1> DEFINE o == term["open"][t]
           n == term'["open"][t]
<1>1. /\ o.pc = "claim"
      /\ UNCHANGED <<lease, seen, preview, shell, wakes, project, run>>
  BY DEF ClaimSession, At, processVars
<1>2. CASE CanClaimTerminal(Me(t)) /\ ClaimTerminal(t) /\ Goto("open", t, "schedule")
  <2>1. Goes(o, n, "schedule") /\ OnlyActor("open", t)
    BY <1>2, GoesEffect, Actors
  <2>2. Me(t) \in seen /\ project /\ terminal.id = None /\ terminal'.id = t /\ terminal'.box = None
    BY <1>2 DEF CanClaimTerminal, Current, ClaimTerminal
  <2>3. Claims(t, o, n)
    BY <1>1, <2>1, <2>2 DEF Claims
  <2> QED BY <1>1, <2>1, <2>3 DEF TerminalMoves, OpenerMoves
<1>3. CASE Finish("open", t) /\ UNCHANGED terminal
  <2>1. OnlyActor("open", t) /\ LeavesAlone(o, n)
    BY <1>1, <1>3, LeavesEffect, Actors DEF LeavesAlone
  <2> QED BY <1>1, <2>1 DEF TerminalMoves, OpenerMoves
<1> QED BY <1>2, <1>3 DEF ClaimSession

LEMMA ScheduleMoves ==
    ASSUME TerminalTyped, NEW t \in Terminals, ScheduleTerminalExpiry(t)
    PROVE  TerminalMoves(t)
<1> DEFINE o == term["open"][t]
           n == term'["open"][t]
<1>1. /\ o.pc = "schedule" /\ wakes' \in {wakes, wakes \cup {t}}
      /\ UNCHANGED <<lease, seen, terminal, preview, shell, project, run>>
  BY DEF ScheduleTerminalExpiry, At, rowVars, processVars
<1>2. OnlyActor("open", t) /\ (Goes(o, n, "starting") \/ Goes(o, n, "drop"))
  BY GoesEffect, Actors DEF ScheduleTerminalExpiry
<1>3. Schedules(t, o, n)
  BY <1>1, <1>2 DEF Schedules
<1> QED BY <1>1, <1>2, <1>3 DEF TerminalMoves, OpenerMoves

\* The awaits of the startup between the expiry Workflow and the managed Terminal.
LEMMA StartsUpMoves ==
    ASSUME TerminalTyped, NEW t \in Terminals, UNCHANGED <<project, run>>,
           term["open"][t].pc \in {"starting", "ensure", "ready", "bind", "spawn", "bindPty",
                                   "busy"},
           Works(t, term["open"][t]),
           \/ Throw(t)
           \/ OnlyActor("open", t) /\ Continues(t, term["open"][t], term'["open"][t])
    PROVE  TerminalMoves(t)
  BY FailsEffect DEF TerminalMoves, OpenerMoves, StartsUp

\* A write of the Lease by the startup; what throws may have been executed.
LEMMA WriteMoves ==
    ASSUME TerminalTyped, NEW t \in Terminals, NEW at, NEW status, NEW ref, NEW next,
           WriteLeaseStep(t, at, status, ref, next),
           \/ at = "starting" /\ ref = term["open"][t].ref /\ next = "ensure"
           \/ at = "ready" /\ ref = term["open"][t].box /\ next = "bind"
           \/ at = "busy" /\ ref = term["open"][t].box /\ next = "managed"
    PROVE  TerminalMoves(t)
<1> DEFINE o == term["open"][t]
           n == term'["open"][t]
<1>1. /\ o.pc = at /\ UNCHANGED <<terminal, shell, wakes, project, run>>
      /\ UpdateState(Me(t), status, ref) \/ UNCHANGED <<lease, seen, preview>>
  BY DEF WriteLeaseStep, At, processVars
<1>2. /\ preview' \in {preview, NoPreview}
      /\ UNCHANGED <<lease, seen>> \/ (seen' = {Me(t)} /\ lease'.ref = ref)
  BY <1>1 DEF UpdateState, WriteLease
<1>3. Works(t, o)
  BY <1>1, <1>2 DEF Works
<1>4. CASE LeaseWritten(t, next, ref)
  <2>1. OnlyActor("open", t) /\ Continues(t, o, n)
    BY <1>1, <1>4, LeaseStepEffect DEF Continues, OnlyActor
  <2> QED BY <1>1, <1>3, <2>1, StartsUpMoves
<1>5. CASE Throw(t)
  BY <1>1, <1>3, <1>5, StartsUpMoves
<1> QED BY <1>4, <1>5 DEF WriteLeaseStep, LeaseWritten

LEMMA MarkMoves ==
    ASSUME TerminalTyped, NEW t \in Terminals, MarkStarting(t) \/ MarkReady(t) \/ MarkBusy(t)
    PROVE  TerminalMoves(t)
  BY WriteMoves DEF MarkStarting, MarkReady, MarkBusy, Box

LEMMA EnsureMoves ==
    ASSUME TerminalTyped, NEW t \in Terminals, EnsureSandbox(t)
    PROVE  TerminalMoves(t)
<1> DEFINE o == term["open"][t]
           n == term'["open"][t]
<1>1. /\ o.pc = "ensure"
      /\ UNCHANGED <<lease, seen, terminal, preview, shell, wakes, project, run>>
  BY DEF EnsureSandbox, At, rowVars
<1>2. Works(t, o)
  BY <1>1 DEF Works
<1>3. ASSUME NEW box \in {o.ref, t}, box # None,
             term' = [term EXCEPT !["open"][t].pc = "ready", !["open"][t].box = box]
      PROVE  TerminalMoves(t)
  <2>1. OnlyActor("open", t) /\ Continues(t, o, n)
    BY <1>1, <1>3, EnsureEffect DEF Continues, OnlyActor
  <2> QED BY <1>1, <1>2, <2>1, StartsUpMoves
<1>4. CASE Throw(t)
  BY <1>1, <1>2, <1>4, StartsUpMoves
<1> QED BY <1>3, <1>4, Actors DEF EnsureSandbox, IsLive

LEMMA BindMoves ==
    ASSUME StoreTyped, TerminalTyped, NEW t \in Terminals, BindSandbox(t) \/ BindPty(t)
    PROVE  TerminalMoves(t)
<1> DEFINE o == term["open"][t]
           n == term'["open"][t]
<1>1. /\ o.pc \in {"bind", "bindPty"}
      /\ UNCHANGED <<lease, seen, preview, shell, wakes, project, run>>
  BY DEF BindSandbox, BindPty, At, processVars
<1>2. CASE BindSandbox(t)
  <2>1. o.pc = "bind"
    BY <1>2 DEF BindSandbox, At
  <2>2. \/ terminal' = terminal
        \/ terminal.id = t /\ terminal'.id = t /\ terminal'.box = o.box
    BY <1>2 DEF BindSandbox, CanBindSandbox, Box, StoreTyped, RowTyped
  <2>3. Works(t, o)
    BY <1>1, <2>1, <2>2 DEF Works
  <2>4. CASE /\ CanBindSandbox(t) /\ Goto("open", t, "spawn")
             /\ terminal' = [terminal EXCEPT !.box = Box("open", t)]
    <3>1. OnlyActor("open", t) /\ Goes(o, n, "spawn")
      BY <2>4, GoesEffect, Actors
    <3>2. terminal.id = t /\ terminal'.box = o.box
      BY <2>4 DEF CanBindSandbox, Box, StoreTyped, RowTyped
    <3>3. Continues(t, o, n)
      BY <2>1, <3>1, <3>2 DEF Continues, Goes
    <3> QED BY <1>1, <2>3, <3>1, <3>3, StartsUpMoves
  <2>5. CASE Throw(t)
    BY <1>1, <2>3, <2>5, StartsUpMoves
  <2> QED BY <1>2, <2>4, <2>5 DEF BindSandbox
<1>3. CASE BindPty(t)
  <2>1. o.pc = "bindPty"
    BY <1>3 DEF BindPty, At
  <2>2. \/ terminal' = terminal
        \/ terminal.id = t /\ terminal'.id = t /\ terminal'.box = terminal.box
    BY <1>3 DEF BindPty, CanBindPty, StoreTyped, RowTyped
  <2>3. Works(t, o)
    BY <1>1, <2>1, <2>2 DEF Works
  <2>4. CASE Goto("open", t, "busy")
    <3>1. OnlyActor("open", t) /\ Goes(o, n, "busy")
      BY <2>4, GoesEffect, Actors
    <3>2. Continues(t, o, n)
      BY <2>1, <3>1 DEF Continues, Goes
    <3> QED BY <1>1, <2>3, <3>1, <3>2, StartsUpMoves
  <2>5. CASE Throw(t)
    BY <1>1, <2>3, <2>5, StartsUpMoves
  <2> QED BY <1>3, <2>4, <2>5 DEF BindPty
<1> QED BY <1>2, <1>3

LEMMA SpawnMoves ==
    ASSUME StoreTyped, TerminalTyped, NEW t \in Terminals, SpawnPty(t)
    PROVE  TerminalMoves(t)
<1> DEFINE o == term["open"][t]
           n == term'["open"][t]
<1>1. /\ o.pc = "spawn"
      /\ UNCHANGED <<lease, seen, terminal, preview, wakes, project, run>>
  BY DEF SpawnPty, At, rowVars
<1>2. \A u \in Terminals : shell'[u] = shell[u] \/ (u = t /\ shell'[u] = o.box)
  BY DEF SpawnPty, Box, StoreTyped, ProcessTyped
<1>3. Works(t, o)
  BY <1>1, <1>2 DEF Works
<1>4. CASE term' = [term EXCEPT !["open"][t].pc = "bindPty", !["open"][t].spawned = TRUE]
  <2>1. OnlyActor("open", t) /\ Goes(o, n, "bindPty")
    BY <1>4, SpawnEffect DEF OnlyActor, Goes
  <2>2. Continues(t, o, n)
    BY <1>1, <2>1 DEF Continues, Goes
  <2> QED BY <1>1, <1>3, <2>1, <2>2, StartsUpMoves
<1>5. CASE Throw(t)
  BY <1>1, <1>3, <1>5, StartsUpMoves
<1> QED BY <1>4, <1>5 DEF SpawnPty

\* What a step of the clean-up or of the end of the session may do.
LEMMA CleansMoves ==
    ASSUME TerminalTyped, NEW a \in TermActors, NEW t \in Terminals, UNCHANGED <<project, run>>,
           term[a][t].pc \in CleanupPcs \/ (a = "open" /\ term[a][t].pc = "managed"),
           \/ Finish(a, t)
           \/ \E pc \in CleanupPcs \ {"failLease"} : Goto(a, t, pc)
           \/ a = "expire" /\ Goto(a, t, "off"),
           \/ UNCHANGED <<lease, seen>>
           \/ /\ \E me \in {"open", "expire", "idle"} : seen' = {<<me, t>>}
              /\ \/ lease'.ref \in {lease.ref, None}
                 \/ term[a][t].pc = "failLease" /\ lease'.ref = term[a][t].ref,
           terminal' = terminal \/ (terminal.id = t /\ terminal' = NoTerminal),
           preview' \in {preview, NoPreview}, wakes' = wakes,
           \A u \in Terminals : shell'[u] \in {shell[u], None}
    PROVE  TerminalMoves(t)
<1> DEFINE o == term[a][t]
           n == term'[a][t]
<1>1. OnlyActor(a, t)
  BY LeavesEffect, GoesEffect
<1>2. \/ n.pc = "done" /\ n.ref = None /\ n.box = None /\ n.phase = "startup"
      \/ /\ n.pc \in CleanupPcs \ {"failLease"} /\ n.ref = o.ref /\ n.box = o.box
         /\ n.phase = o.phase
      \/ a = "expire" /\ n.pc = "off" /\ n.ref = o.ref
  BY LeavesEffect, GoesEffect DEF Goes
<1>3. CleansUp(a, t, o, n)
  BY <1>2 DEF CleansUp
<1> QED BY <1>1, <1>3 DEF TerminalMoves, OpenerMoves, ExpiryMoves, TermActors

LEMMA CleanUpMoves ==
    ASSUME StoreTyped, TerminalTyped, NEW a \in TermActors, NEW t \in Terminals, CleanUp(a, t)
    PROVE  TerminalMoves(t)
<1>0. UNCHANGED <<project, run, wakes>>
  BY DEF CleanUp, KillPty, ReleaseIdle, StopSandbox, ReleaseStopped, KeepSession, FailLease,
         DropSession, rowVars
<1>1. CASE KillPty(a, t)
  <2>1. /\ term[a][t].pc = "kill" /\ UNCHANGED <<lease, seen, terminal, preview>>
        /\ \A u \in Terminals : shell'[u] \in {shell[u], None}
        /\ Goto(a, t, "isolate") \/ Goto(a, t, "release")
    BY <1>1 DEF KillPty, At, rowVars, StoreTyped, ProcessTyped
  <2>2. {"kill", "release", "isolate"} \subseteq CleanupPcs \ {"failLease"}
    BY DEF CleanupPcs
  <2> QED BY <1>0, <2>1, <2>2, CleansMoves
<1>2. CASE ReleaseIdle(a, t)
  <2>1. /\ term[a][t].pc = "release" /\ shell' = shell /\ preview' = preview
        /\ \/ UNCHANGED <<lease, seen, terminal>>
           \/ /\ seen' = {<<"idle", t>>} /\ lease'.ref = lease.ref
              /\ terminal.id = t /\ terminal' = NoTerminal
        /\ Finish(a, t) \/ Goto(a, t, "isolate") \/ Goto(a, t, "idle")
    BY <1>2 DEF ReleaseIdle, ReleaseAsIdle, OwnsSession, WriteLease, At, processVars
  <2>2. {"release", "isolate", "idle"} \subseteq CleanupPcs \ {"failLease"}
    BY DEF CleanupPcs
  <2> QED BY <1>0, <2>1, <2>2, CleansMoves
<1>3. CASE StopSandbox(a, t)
  <2>1. /\ term[a][t].pc = "isolate" /\ UNCHANGED <<lease, seen, terminal, preview>>
        /\ Goto(a, t, "stopped") \/ Goto(a, t, "keep")
    BY <1>3 DEF StopSandbox, At, rowVars
  <2>2. \A u \in Terminals : shell'[u] \in {shell[u], None}
    BY <1>3, DestroyEffect DEF StopSandbox, processVars
  <2>3. {"isolate", "keep", "stopped"} \subseteq CleanupPcs \ {"failLease"}
    BY DEF CleanupPcs
  <2> QED BY <1>0, <2>1, <2>2, <2>3, CleansMoves
<1>4. CASE ReleaseStopped(a, t)
  <2>1. /\ term[a][t].pc = "stopped" /\ shell' = shell /\ preview' \in {preview, NoPreview}
        /\ \/ UNCHANGED <<lease, seen, terminal>>
           \/ /\ seen' = {<<a, t>>} /\ lease'.ref = None
              /\ terminal.id = t /\ terminal' = NoTerminal
        /\ Finish(a, t) \/ Goto(a, t, "keep")
    BY <1>4 DEF ReleaseStopped, ReleaseAsStopped, OwnsSession, WriteLease, At, processVars
  <2>2. {"stopped", "keep"} \subseteq CleanupPcs \ {"failLease"}
    BY DEF CleanupPcs
  <2> QED BY <1>0, <2>1, <2>2, CleansMoves DEF TermActors
<1>5. CASE KeepSession(a, t)
  <2>1. /\ term[a][t].pc = "keep" /\ Finish(a, t) /\ UNCHANGED <<shell, terminal, preview>>
        /\ UNCHANGED <<lease, seen>> \/ (seen' = {<<a, t>>} /\ lease'.ref = lease.ref)
    BY <1>5 DEF KeepSession, FailKeepingSession, OwnsSession, WriteLease, At, processVars
  <2>2. "keep" \in CleanupPcs
    BY DEF CleanupPcs
  <2> QED BY <1>0, <2>1, <2>2, CleansMoves DEF TermActors
<1>6. CASE FailLease(a, t)
  <2>1. /\ term[a][t].pc = "failLease" /\ Goto(a, t, "drop") /\ UNCHANGED <<shell, terminal>>
        /\ preview' \in {preview, NoPreview}
        /\ UNCHANGED <<lease, seen>> \/ (seen' = {<<a, t>>} /\ lease'.ref = term[a][t].ref)
    BY <1>6 DEF FailLease, UpdateState, WriteLease, At, processVars
  <2>2. "failLease" \in CleanupPcs /\ "drop" \in CleanupPcs \ {"failLease"}
    BY DEF CleanupPcs
  <2> QED BY <1>0, <2>1, <2>2, CleansMoves DEF TermActors
<1>7. CASE DropSession(a, t)
  <2>1. /\ term[a][t].pc = "drop" /\ UNCHANGED <<lease, seen, preview, shell>>
        /\ terminal' = terminal \/ (terminal.id = t /\ terminal' = NoTerminal)
        /\ Finish(a, t) \/ (a = "expire" /\ Goto(a, t, "off"))
    BY <1>7 DEF DropSession, ReleaseTerminal, At, processVars
  <2>2. "drop" \in CleanupPcs
    BY DEF CleanupPcs
  <2> QED BY <1>0, <2>1, <2>2, CleansMoves
<1> QED BY <1>1, <1>2, <1>3, <1>4, <1>5, <1>6, <1>7 DEF CleanUp

LEMMA CloseMoves ==
    ASSUME StoreTyped, TerminalTyped, NEW t \in Terminals, CloseTerminal(t)
    PROVE  TerminalMoves(t)
<1>1. /\ term["open"][t].pc = "managed" /\ Goto("open", t, "kill")
      /\ UNCHANGED <<lease, seen, terminal, preview, shell, wakes, project, run>>
  BY DEF CloseTerminal, At, storeVars
<1>2. "kill" \in CleanupPcs \ {"failLease"}
  BY DEF CleanupPcs
<1> QED BY <1>1, <1>2, Actors, CleansMoves

LEMMA LoseMoves ==
    ASSUME TerminalTyped, NEW t \in Terminals, LoseWorker(t)
    PROVE  TerminalMoves(t)
<1>1. /\ term["open"][t].pc # "off" /\ Finish("open", t)
      /\ UNCHANGED <<lease, seen, terminal, preview, shell, wakes, project, run>>
  BY DEF LoseWorker, rowVars, processVars
<1>2. OnlyActor("open", t) /\ LeavesAlone(term["open"][t], term'["open"][t])
  BY <1>1, LeavesEffect, Actors DEF LeavesAlone
<1> QED BY <1>1, <1>2 DEF TerminalMoves, OpenerMoves

LEMMA ExitMoves ==
    ASSUME StoreTyped, TerminalTyped, NEW t \in Terminals, PtyExits(t)
    PROVE  TerminalMoves(t)
<1> DEFINE o == term["open"][t]
           rec == [o EXCEPT !.pc = "release", !.phase = "exited"]
<1>1. o \in TermRecords
  BY Actors DEF TerminalTyped
<1>2. term' = [term EXCEPT !["open"][t] = rec]
  BY Actors DEF TerminalTyped, PtyExits
<1>3. rec.pc = "release" /\ rec.box = o.box /\ rec.ref = o.ref /\ rec.phase = "exited"
  <2> HIDE DEF o
  <2> QED BY <1>1 DEF TermRecords
<1> HIDE DEF rec
<1>4. term'["open"][t] = rec /\ OnlyActor("open", t)
  BY <1>2, Actors DEF TerminalTyped, OnlyActor
<1>5. /\ o.pc = "managed"
      /\ UNCHANGED <<lease, seen, terminal, preview, wakes, project, run>>
      /\ \A u \in Terminals : shell'[u] \in {shell[u], None}
  BY DEF PtyExits, At, rowVars, StoreTyped, ProcessTyped
<1>6. "release" \in CleanupPcs \ {"failLease"}
  BY DEF CleanupPcs
<1>7. CleansUp("open", t, o, term'["open"][t])
  BY <1>3, <1>4, <1>5, <1>6 DEF CleansUp
<1> QED BY <1>4, <1>5, <1>7 DEF TerminalMoves, OpenerMoves

LEMMA ExpiryStepMoves ==
    ASSUME TerminalTyped, NEW t \in Terminals, ReadSession(t) \/ LoseExpiry(t)
    PROVE  TerminalMoves(t)
<1> DEFINE o == term["expire"][t]
           n == term'["expire"][t]
<1>1. UNCHANGED <<lease, seen, terminal, preview, shell, wakes, project, run>>
  BY DEF ReadSession, LoseExpiry, storeVars, rowVars, processVars
<1>2. ASSUME NEW rec, term' = [term EXCEPT !["expire"][t] = rec]
      PROVE  n = rec /\ OnlyActor("expire", t)
  BY <1>2, Actors DEF TerminalTyped, OnlyActor
<1>3. CASE LoseExpiry(t)
  <2>1. n = NoTerm /\ OnlyActor("expire", t) /\ o.pc \in CleanupPcs
    BY <1>2, <1>3 DEF LoseExpiry
  <2>2. CleansUp("expire", t, o, n)
    BY <1>1, <2>1 DEF CleansUp, NoTerm
  <2> QED BY <1>1, <2>1, <2>2 DEF TerminalMoves, ExpiryMoves
<1>4. CASE ReadSession(t)
  <2>0. t \in wakes /\ o.pc = "off" /\ ~Starting(t)
    BY <1>4 DEF ReadSession, At
  <2>1. CASE terminal.id # t
    <3>1. n.pc = "done" /\ n.ref = None /\ OnlyActor("expire", t)
      BY <1>4, <2>1, LeavesEffect, Actors DEF ReadSession
    <3>2. ReadsSession(t, o, n)
      BY <1>1, <2>0, <3>1 DEF ReadsSession
    <3> QED BY <1>1, <3>1, <3>2 DEF TerminalMoves, ExpiryMoves
  <2>2. CASE terminal.id = t
    <3> DEFINE pc == IF terminal.box = None THEN "failLease"
                     ELSE IF terminal.bound THEN "kill" ELSE "isolate"
               rec == [NoTerm EXCEPT !.ref = lease.ref, !.box = terminal.box, !.pc = pc]
    <3>1. term' = [term EXCEPT !["expire"][t] = rec]
      BY <1>4, <2>2 DEF ReadSession
    <3>2. rec.pc = pc /\ rec.ref = lease.ref
      <4> HIDE DEF pc
      <4> QED BY DEF NoTerm
    <3>3. pc \in {"failLease", "kill", "isolate"} /\ (pc = "failLease" => terminal.box = None)
      OBVIOUS
    <3> HIDE DEF rec, pc
    <3>4. n = rec /\ OnlyActor("expire", t)
      BY <1>2, <3>1
    <3>5. ReadsSession(t, o, n)
      BY <1>1, <2>0, <2>2, <3>2, <3>3, <3>4 DEF ReadsSession
    <3> QED BY <1>1, <3>4, <3>5 DEF TerminalMoves, ExpiryMoves
  <2> QED BY <2>1, <2>2
<1> QED BY <1>3, <1>4

LEMMA TerminalStepMoves ==
    ASSUME StoreTyped, TerminalTyped, NEW t \in Terminals, TerminalNext(t)
    PROVE  TerminalMoves(t)
  BY OpenMoves, ClaimMoves, ScheduleMoves, MarkMoves, EnsureMoves, BindMoves, SpawnMoves,
     CloseMoves, ExitMoves, LoseMoves, ExpiryStepMoves, CleanUpMoves, Actors
  DEF TerminalNext, Startup, Expire

\* The end of a clean-up schedules the idle cleanup and does nothing else to a Terminal.
LEMMA ScheduleIdleMoves ==
    ASSUME TerminalTyped, NEW a \in TermActors, NEW t \in Terminals, ScheduleTerminalIdle(a, t)
    PROVE  TerminalMoves(t)
<1>1. /\ term[a][t].pc = "idle" /\ Finish(a, t)
      /\ UNCHANGED <<lease, seen, terminal, preview, shell, wakes, project, run>>
  BY DEF ScheduleTerminalIdle, At, rowVars, processVars
<1> QED BY <1>1, CleansMoves DEF CleanupPcs

-----------------------------------------------------------------------------
(* What the steps of everybody else do to rows, readers and records        *)

\* A step that Terminals notice only by what it does to the rows.
RowsOnly ==
    /\ UNCHANGED <<term, wakes>>
    /\ \A t \in Terminals : shell'[t] \in {shell[t], None}
    /\ \/ project' = project /\ terminal' = terminal
       \/ project' = FALSE /\ terminal' = NoTerminal

\* The row of a Preview is kept, released, or taken for the sandbox of the Lease.
PreviewRowMoves ==
    \/ preview'.id = preview.id /\ preview'.box = preview.box
    \/ preview' = NoPreview
    \/ preview'.id \in Previews /\ preview'.box = lease.ref

\* A Preview reads the Lease and never writes it.
LEMMA PreviewMoves ==
    ASSUME StoreTyped, NEW p \in Previews, PreviewNext(p), UNCHANGED <<terminalVars, cleanupVars>>
    PROVE  /\ RowsOnly /\ PreviewRowMoves /\ UNCHANGED <<project, run, lease, idle, stop>>
           /\ \E a \in ViewActors : seen' \subseteq seen \cup {<<a, p>>}
<1>1. RowsOnly /\ UNCHANGED <<project, run, idle, stop>>
  BY PreviewCalm DEF RowsOnly, Calm, cleanupVars
<1>2. ASSUME NEW a \in ViewActors, EndStep(a, p) \/ LoseView(a, p)
      PROVE  PreviewRowMoves /\ UNCHANGED <<lease, seen>>
  BY <1>2 DEF EndStep, KillVite, DropPreview, ReleasePreview, LoseView, rowVars, processVars,
              PreviewRowMoves
<1>3. CASE StartPreview(p) \/ UsePreview(p) \/ ProbeVite(p) \/ ExpirePreview(p)
  BY <1>1, <1>3 DEF StartPreview, UsePreview, ProbeVite, ExpirePreview, ReadSessionAndLease,
                    ReadLease, storeVars, PreviewRowMoves, ViewActors
<1>4. CASE StartStep(p)
  <2>1. UNCHANGED <<lease, seen>>
    BY <1>4 DEF StartStep, InspectWorkspace, ClaimPreviewSession, SchedulePreviewExpiry,
                SpawnVite, MarkPreviewRunning, UndoSpawn, storeVars, rowVars, processVars
  <2>2. preview' = preview \/ ClaimPreview(p) \/ MarkRunning(p)
    BY <1>4 DEF StartStep, InspectWorkspace, ClaimPreviewSession, SchedulePreviewExpiry,
                SpawnVite, MarkPreviewRunning, UndoSpawn, storeVars, rowVars, processVars
  <2>3. PreviewRowMoves
    BY <2>2 DEF PreviewRowMoves, ClaimPreview, MarkRunning, StoreTyped, ViewRowTyped
  <2> QED BY <1>1, <2>1, <2>3 DEF ViewActors
<1> QED BY <1>1, <1>2, <1>3, <1>4 DEF PreviewNext, ViewActors

\* What has been detached is forgotten, or still known to the same actor.
LEMMA DetachedFewer ==
    ASSUME \A x \in Sessions : idle'[x].pc = "stop" => idle'[x] = idle[x],
           \A u \in Stops : stop'[u].pc = "stop" => stop'[u] = stop[u]
    PROVE  Detached' \subseteq Detached
  BY DEF Detached

\* Actor me detaches the sandbox of the Lease, which nobody uses.
Detaches(me) ==
    /\ CanClaimForStop(me, LeaseStatuses) /\ DetachSandbox(me)
    /\ RowsOnly /\ UNCHANGED <<project, run, terminal, preview>>
    /\ Detached' \subseteq Detached \cup {lease.ref}

\* The idle cleanup and the stops, but for a request that reads the Lease, leave rows and
\* readers alone unless they detach the sandbox.
StopMoves(u) ==
    /\ \A v \in Stops : v # u => stop'[v] = stop[v]
    /\ \/ stop'[u].pc \notin {"check", "claim", "stop"}
       \/ stop[u].pc = "check" /\ stop'[u].pc = "claim" /\ stop'[u].box = stop[u].box
       \/ stop[u].pc = "claim" /\ stop'[u].pc = "stop" /\ stop'[u].box = stop[u].box

LEMMA StopToMoves ==
    ASSUME CleanupTyped, NEW u \in Stops, NEW pc, StopTo(u, pc)
    PROVE  /\ \A v \in Stops : v # u => stop'[v] = stop[v]
           /\ stop'[u].pc = pc /\ stop'[u].box = stop[u].box
<1> DEFINE old == stop[u]
           rec == [old EXCEPT !.pc = pc]
<1>1. old \in StopRecords
  BY DEF CleanupTyped
<1>2. stop' = [stop EXCEPT ![u] = rec]
  BY DEF StopTo, CleanupTyped
<1>3. rec.pc = pc /\ rec.box = old.box
  <2> HIDE DEF old
  <2> QED BY <1>1 DEF StopRecords
<1> HIDE DEF rec
<1> QED BY <1>2, <1>3 DEF CleanupTyped

LEMMA AnswerMoves ==
    ASSUME CleanupTyped, NEW u \in Stops, Answer(u)
    PROVE  (\A v \in Stops : v # u => stop'[v] = stop[v]) /\ stop'[u].pc = "done"
<1> DEFINE rec == [NoStop EXCEPT !.pc = "done"]
<1>1. stop' = [stop EXCEPT ![u] = rec] /\ rec.pc = "done"
  BY DEF Answer, NoStop
<1> HIDE DEF rec
<1> QED BY <1>1 DEF CleanupTyped

LEMMA GoOnMoves ==
    ASSUME CleanupTyped, NEW u \in Stops, GoOn(u)
    PROVE  (\A v \in Stops : v # u => stop'[v] = stop[v]) /\ stop'[u].pc \in {"delete", "done"}
  BY StopToMoves, AnswerMoves DEF GoOn

-----------------------------------------------------------------------------
(* A startup keeps its row                                                 *)

\* A step that is not of Terminal u.
LEMMA RowKeptBeside ==
    ASSUME NEW u, RowKept(u),
           term'["open"][u] = term["open"][u], term'["expire"][u] = term["expire"][u],
           u \in wakes' => u \in wakes, project' => project,
           \/ terminal' = terminal
           \/ terminal'.id # u /\ (project' => terminal.id # u)
    PROVE  RowKept(u)'
<1>1. OpenerKept(u, term["open"][u])'
  BY DEF RowKept, OpenerKept
<1>2. ExpiryKept(u, term["open"][u], term["expire"][u])'
  BY DEF RowKept, ExpiryKept
<1> QED BY <1>1, <1>2 DEF RowKept

\* Terminal t changes no other session's row.
LEMMA RowOfOne ==
    ASSUME NEW t \in Terminals, TerminalMoves(t)
    PROVE  /\ \/ terminal' = terminal
              \/ terminal.id \in {t, None} /\ terminal'.id \in {t, None}
           /\ wakes' \in {wakes, wakes \cup {t}}
           /\ terminal'.id = None => terminal' = terminal \/ terminal' = NoTerminal
           /\ preview' \in {preview, NoPreview}
<1> SUFFICES ASSUME NEW o, NEW n,
                    \/ OpenerMoves(t, o, n)
                    \/ ExpiryMoves(t, o, n)
             PROVE  /\ \/ terminal' = terminal
                       \/ terminal.id \in {t, None} /\ terminal'.id \in {t, None}
                    /\ wakes' \in {wakes, wakes \cup {t}}
                    /\ terminal'.id = None => terminal' = terminal \/ terminal' = NoTerminal
                    /\ preview' \in {preview, NoPreview}
  BY DEF TerminalMoves
<1>1. NoTerminal.id = None /\ t # None
  BY Actors DEF NoTerminal
<1> QED
  BY <1>1 DEF OpenerMoves, ExpiryMoves, Opens, Claims, Schedules, StartsUp, Works, LeavesAlone,
              CleansUp, ReadsSession

LEMMA OpenerRowKept ==
    ASSUME ShellsTracked, NEW t \in Terminals, RowKept(t), UNCHANGED project,
           OnlyActor("open", t), OpenerMoves(t, term["open"][t], term'["open"][t])
    PROVE  RowKept(t)'
<1> DEFINE o == term["open"][t]
           n == term'["open"][t]
           e == term["expire"][t]
<1>0. term'["expire"][t] = e /\ NoTerminal.id = None /\ t # None
  BY Actors DEF OnlyActor, NoTerminal
<1>1. /\ OpenerKept(t, o) /\ ExpiryKept(t, o, e)
      /\ o.pc \in NoPtyYet => o.phase = "startup" /\ e.pc \in {"off", "done"}
  BY Beginning DEF RowKept
<1>2. CASE Opens(t, o, n) \/ Claims(t, o, n) \/ Schedules(t, o, n)
  <2>1. /\ o.pc \in NoPtyYet /\ n.phase = "startup"
        /\ n.pc \in {"claim", "schedule", "starting", "drop"}
    BY <1>1, <1>2 DEF Opens, Claims, Schedules, Goes, NoPtyYet
  <2>2. n.pc \in {"schedule", "starting"} /\ project => terminal'.id = t
    BY <1>1, <1>2 DEF Opens, Claims, Schedules, Goes, OpenerKept, HasRow
  <2>3. t \in wakes' => n.pc # "claim"
    BY <1>1, <1>2 DEF Opens, Claims, Schedules, Goes, OpenerKept
  <2>4. OpenerKept(t, term["open"][t])'
    BY <2>1, <2>2, <2>3 DEF OpenerKept, HasRow, HasBox, InBox
  <2>5. ExpiryKept(t, term["open"][t], term["expire"][t])'
    BY <1>0, <1>1, <2>1 DEF ExpiryKept
  <2> QED BY <2>4, <2>5 DEF RowKept
<1>3. CASE StartsUp(t, o, n)
  <2>1. /\ o.phase = "startup" /\ o.pc # "done" /\ e.pc \in {"off", "done"}
        /\ project => terminal.id = t /\ terminal'.id = t
    BY <1>1, <1>3 DEF StartsUp, Works, OpenerKept, ExpiryKept, StartupPcs, HasRow
  <2>2. ExpiryKept(t, term["open"][t], term["expire"][t])'
    BY <1>0, <2>1 DEF ExpiryKept
  <2>3. n.pc \notin {"off", "claim"} /\ (n.phase = "startup" \/ n.pc = "managed")
    BY <1>3, <2>1 DEF StartsUp, Continues, Fails, Goes
  <2>4. n.pc \in HasBox => n.box # None
    BY <1>1, <1>3 DEF StartsUp, Continues, Fails, Goes, OpenerKept, HasBox
  <2>5. n.pc \in InBox => n.box # None /\ (terminal'.id = t => terminal'.box = n.box)
    BY <1>1, <1>3 DEF StartsUp, Works, Continues, Fails, Goes, OpenerKept, HasBox, InBox
  <2>6. n.phase # "startup" => n.pc \in InBox
    BY <2>3 DEF InBox
  <2>7. n.pc \in StartupPcs \cup {"failLease"} => n.phase = "startup"
    BY <2>3 DEF StartupPcs
  <2>8. OpenerKept(t, term["open"][t])'
    BY <2>1, <2>3, <2>4, <2>5, <2>6, <2>7 DEF OpenerKept
  <2> QED BY <2>2, <2>8 DEF RowKept
<1>4. CASE LeavesAlone(o, n)
  <2>1. OpenerKept(t, term["open"][t])'
    BY <1>4 DEF LeavesAlone, OpenerKept, HasRow, HasBox, InBox
  <2>2. ExpiryKept(t, term["open"][t], term["expire"][t])'
    BY <1>0, <1>1, <1>4 DEF LeavesAlone, ExpiryKept
  <2> QED BY <2>1, <2>2 DEF RowKept
<1>5. CASE CleansUp("open", t, o, n)
  <2>1. /\ o.pc # "done" /\ n.pc \in {"done"} \cup (CleanupPcs \ {"failLease"})
        /\ terminal' = terminal \/ terminal'.id = None
    BY <1>0, <1>5 DEF CleansUp, CleanupPcs
  <2>2. n.pc \notin HasRow \cup HasBox \cup InBox \cup StartupPcs \cup {"failLease", "off", "claim"}
    BY <2>1 DEF CleanupPcs, HasRow, HasBox, InBox, StartupPcs
  <2>3. n.phase # "startup" => n.box = o.box /\ (o.phase # "startup" \/ o.pc \in InBox)
    BY <1>5 DEF CleansUp, InBox
  <2>4. OpenerKept(t, term["open"][t])'
    BY <1>0, <1>1, <2>1, <2>2, <2>3 DEF OpenerKept
  <2>5. o.phase # "startup" => n.pc = "done" \/ n.phase # "startup"
    BY <1>5 DEF CleansUp
  <2>6. ExpiryKept(t, term["open"][t], term["expire"][t])'
    BY <1>0, <1>1, <2>1, <2>5 DEF ExpiryKept
  <2> QED BY <2>4, <2>6 DEF RowKept
<1> QED BY <1>2, <1>3, <1>4, <1>5 DEF OpenerMoves

LEMMA ExpiryRowKept ==
    ASSUME NEW t \in Terminals, RowKept(t), UNCHANGED project,
           OnlyActor("expire", t), ExpiryMoves(t, term["expire"][t], term'["expire"][t])
    PROVE  RowKept(t)'
<1> DEFINE o == term["open"][t]
           e == term["expire"][t]
           n == term'["expire"][t]
<1>0. term'["open"][t] = o /\ NoTerminal.id = None /\ t # None
  BY Actors DEF OnlyActor, NoTerminal
<1>1. OpenerKept(t, o) /\ ExpiryKept(t, o, e)
  BY DEF RowKept
<1>2. CASE CleansUp("expire", t, e, n)
  <2>1. /\ o.pc = "done" \/ o.phase # "startup"
        /\ n.pc # "failLease" /\ wakes' = wakes
        /\ terminal' = terminal \/ terminal'.id = None
    BY <1>0, <1>1, <1>2 DEF CleansUp, CleanupPcs, ExpiryKept
  <2>2. o.pc \notin HasRow
    BY <1>1, <2>1 DEF OpenerKept, HasRow, StartupPcs
  <2>3. OpenerKept(t, term["open"][t])'
    BY <1>0, <1>1, <2>1, <2>2 DEF OpenerKept
  <2>4. ExpiryKept(t, term["open"][t], term["expire"][t])'
    BY <1>0, <2>1 DEF ExpiryKept
  <2> QED BY <2>3, <2>4 DEF RowKept
<1>3. CASE ReadsSession(t, e, n)
  <2>1. OpenerKept(t, term["open"][t])'
    BY <1>0, <1>1, <1>3 DEF ReadsSession, OpenerKept
  <2>2. o.pc = "done" \/ o.phase # "startup"
    BY <1>1, <1>3 DEF ReadsSession, Starting, At, OpenerKept
  <2>3. n.pc = "failLease" => o.pc = "done" /\ terminal'.id = t
    BY <1>1, <1>3, <2>2 DEF ReadsSession, OpenerKept
  <2>4. ExpiryKept(t, term["open"][t], term["expire"][t])'
    BY <1>0, <2>2, <2>3 DEF ExpiryKept
  <2> QED BY <2>1, <2>4 DEF RowKept
<1> QED BY <1>2, <1>3 DEF ExpiryMoves

LEMMA TerminalRowsKept ==
    ASSUME ShellsTracked, RowsKept, NEW t \in Terminals, TerminalMoves(t)
    PROVE  RowsKept'
<1>1. RowKept(t)'
  BY OpenerRowKept, ExpiryRowKept DEF RowsKept, TerminalMoves
<1>2. ASSUME NEW u \in Terminals, u # t PROVE RowKept(u)'
  <2>1. term'["open"][u] = term["open"][u] /\ term'["expire"][u] = term["expire"][u]
    BY <1>2, Actors DEF TerminalMoves, OnlyActor
  <2> QED BY <1>2, <2>1, RowOfOne, RowKeptBeside, Actors DEF RowsKept, TerminalMoves
<1>3. EmptyRows'
  BY RowOfOne DEF RowsKept, EmptyRows, NoTerminal, NoPreview
<1> QED BY <1>1, <1>2, <1>3 DEF RowsKept

\* The steps of everybody else.
LEMMA OthersRowsKept ==
    ASSUME RowsKept, RowsOnly, PreviewRowMoves
    PROVE  RowsKept'
<1>1. None \notin Terminals /\ None \notin Previews /\ NoTerminal.id = None
  BY NamesAssumption DEF Sessions, NoTerminal
<1>2. ASSUME NEW u \in Terminals PROVE RowKept(u)'
  BY <1>1, <1>2, RowKeptBeside DEF RowsKept, RowsOnly
<1>3. EmptyRows'
  BY <1>1 DEF RowsKept, RowsOnly, PreviewRowMoves, EmptyRows, NoTerminal, NoPreview
<1> QED BY <1>2, <1>3 DEF RowsKept

-----------------------------------------------------------------------------
(* Nobody names a detached sandbox                                         *)

\* A reader who is still current has read the Lease as it is.
Knows(x) == x \in seen' => x \in seen /\ lease' = lease

\* What follows for all rows, when no row takes a detached name.
LEMMA UnusedKept ==
    ASSUME NamesClear, Detached' \subseteq Detached,
           lease'.ref \notin Detached, terminal'.box \notin Detached,
           preview'.box \notin Detached, \A t \in Terminals : shell'[t] \notin Detached
    PROVE  None \notin Detached' /\ DetachedIsUnused'
  BY DEF NamesClear, DetachedIsUnused, Detached

\* And what is known of them before.
LEMMA UnusedNow ==
    ASSUME NamesClear
    PROVE  /\ None \notin Detached /\ lease.ref \notin Detached
           /\ terminal.box \notin Detached /\ preview.box \notin Detached
           /\ \A t \in Terminals : shell[t] \notin Detached
  BY DEF NamesClear, DetachedIsUnused, Detached

\* A Terminal whose actors do nothing.
LEMMA ClearKept ==
    ASSUME NEW u, Clear(u),
           term'["open"][u] = term["open"][u], term'["expire"][u] = term["expire"][u],
           Detached' \subseteq Detached, Knows(Me(u))
    PROVE  Clear(u)'
  BY DEF Clear, Knows, Me

\* What a step adds to the names is nobody's whose sandbox is still to come.
LEMMA NewTerminalsKept ==
    ASSUME NamesClear, NEW X, Names' \subseteq Names \cup X,
           \A t \in Terminals :
             term'["open"][t].pc \in Unborn => term["open"][t].pc \in Unborn /\ t \notin X
    PROVE  \A t \in Terminals : NewTerminal(t)'
  BY DEF NamesClear, NewTerminal

LEMMA NewRunsKept ==
    ASSUME NamesClear, NEW X, Names' \subseteq Names \cup X, X \cap Runs = {},
           UNCHANGED run, \A r \in Runs : Knows(<<"run", r>>)
    PROVE  \A r \in Runs : NewRun(r)'
  BY DEF NamesClear, NewRun, Knows

\* A request is not disturbed by what others do, nor by its own steps.
LEMMA StopsKnowKept ==
    ASSUME NamesClear, stop' = stop \/ \E u \in Stops : StopMoves(u),
           \A u \in Stops : stop'[u].pc \in {"check", "claim"} => Knows(<<"stop", u>>)
    PROVE  \A u \in Stops : StopKnows(u)'
<1> SUFFICES ASSUME NEW u \in Stops PROVE StopKnows(u)'
  OBVIOUS
<1>1. StopKnows(u)
  BY DEF NamesClear
<1>2. stop'[u].pc \in {"check", "claim"} =>
        stop[u].pc \in {"check", "claim"} /\ stop'[u].box = stop[u].box
  BY DEF StopMoves
<1> QED BY <1>1, <1>2 DEF StopKnows, Knows

\* A step that Terminals do not take and that detaches nothing.
LEMMA QuietClear ==
    ASSUME NamesClear, RowsOnly, PreviewRowMoves, Detached' \subseteq Detached,
           lease'.ref \notin Detached, \A t \in Terminals : Knows(Me(t))
    PROVE  /\ None \notin Detached' /\ DetachedIsUnused'
           /\ \A t \in Terminals : Clear(t)'
           /\ Names' \subseteq Names \cup {lease'.ref}
<1>1. None \notin Detached' /\ DetachedIsUnused'
  <2>1. terminal'.box \notin Detached /\ preview'.box \notin Detached
    BY UnusedNow DEF RowsOnly, PreviewRowMoves, NoTerminal, NoPreview
  <2>2. \A t \in Terminals : shell'[t] \notin Detached
    BY UnusedNow DEF RowsOnly
  <2> QED BY <2>1, <2>2, UnusedKept
<1>2. \A t \in Terminals : Clear(t)'
  BY ClearKept DEF RowsOnly, NamesClear
<1>3. Names' \subseteq Names \cup {lease'.ref}
  BY DEF Names, RowsOnly
<1> QED BY <1>1, <1>2, <1>3

\* One that gives no name to the Lease and leaves it to those who know it.
LEMMA QuietNames ==
    ASSUME NamesClear, RowsOnly, PreviewRowMoves, UNCHANGED run, lease'.ref \in {lease.ref, None},
           Detached' \subseteq Detached,
           \A t \in Terminals : Knows(Me(t)),
           \A r \in Runs : Knows(<<"run", r>>),
           \A u \in Stops : StopKnows(u)'
    PROVE  NamesClear'
<1>1. /\ None \notin Detached' /\ DetachedIsUnused' /\ \A t \in Terminals : Clear(t)'
      /\ Names' \subseteq Names \cup {None}
  <2>1. lease'.ref \notin Detached /\ lease'.ref \in Names \cup {None}
    BY UnusedNow DEF Names
  <2> QED BY <2>1, QuietClear
<1>2. \A t \in Terminals : NewTerminal(t)'
  BY <1>1, NewTerminalsKept, Actors DEF RowsOnly
<1>3. \A r \in Runs : NewRun(r)'
  BY <1>1, NewRunsKept, Actors
<1> QED BY <1>1, <1>2, <1>3 DEF NamesClear

\* The sandbox of the Lease is detached: while the Project exists and no session has a row,
\* nobody has bound it and no startup is under way.
LEMMA DetachClear ==
    ASSUME ShellsTracked, RowsKept, NamesClear, NEW me, Detaches(me),
           \A t \in Terminals : me # Me(t), \A r \in Runs : me # <<"run", r>>,
           stop' = stop \/ \E u \in Stops : StopMoves(u),
           \A u \in Stops : stop'[u].pc \in {"check", "claim"} => me # <<"stop", u>>
    PROVE  NamesClear'
<1>1. /\ project /\ terminal.id = None /\ preview.id = None /\ lease.ref # None
      /\ lease'.ref = None /\ seen' = {me} /\ Detached' \subseteq Detached \cup {lease.ref}
      /\ UNCHANGED <<project, run, terminal, preview, term>>
      /\ \A t \in Terminals : shell'[t] \in {shell[t], None}
  BY DEF Detaches, CanClaimForStop, Unused, DetachSandbox, WriteLease, RowsOnly
<1>2. terminal.box = None /\ preview.box = None
  BY <1>1 DEF RowsKept, EmptyRows
<1>3. \A t \in Terminals : shell[t] = None
  BY <1>1, Actors DEF ShellsTracked, Tracked, ShellInRow
<1>4. None \notin Detached'
  BY <1>1, UnusedNow
<1>5. DetachedIsUnused'
  BY <1>1, <1>2, <1>3, <1>4 DEF DetachedIsUnused, Detached
<1>6. ASSUME NEW t \in Terminals PROVE Clear(t)'
  <2>1. term["open"][t].pc \notin HasRow /\ term["expire"][t].pc # "failLease"
    BY <1>1, Actors DEF RowsKept, RowKept, OpenerKept, ExpiryKept
  <2>2. Me(t) \notin seen'
    BY <1>1
  <2>3. Clear(t)
    BY DEF NamesClear
  <2> QED BY <1>1, <2>1, <2>2, <2>3 DEF Clear, Me
<1>7. Names' \subseteq Names \cup {None}
  BY <1>1 DEF Names
<1>8. \A t \in Terminals : NewTerminal(t)'
  BY <1>1, <1>7, NewTerminalsKept, Actors
<1>9. \A r \in Runs : NewRun(r)'
  BY <1>1, <1>7, NewRunsKept, Actors DEF Knows
<1>10. \A u \in Stops : StopKnows(u)'
  BY <1>1, StopsKnowKept DEF Knows
<1> QED BY <1>4, <1>5, <1>6, <1>8, <1>9, <1>10 DEF NamesClear

\* A Terminal reads and writes the Lease in its own name.
LEMMA TerminalKnows ==
    ASSUME NEW t \in Terminals, TerminalMoves(t)
    PROVE  \E me \in {"open", "expire", "idle"} :
             /\ seen' \subseteq seen \cup {<<me, t>>}
             /\ lease' = lease \/ seen' = {<<me, t>>}
<1> SUFFICES ASSUME NEW o, NEW n, OpenerMoves(t, o, n) \/ ExpiryMoves(t, o, n)
             PROVE  \E me \in {"open", "expire", "idle"} :
                      /\ seen' \subseteq seen \cup {<<me, t>>}
                      /\ lease' = lease \/ seen' = {<<me, t>>}
  BY DEF TerminalMoves
<1>1. CASE Opens(t, o, n) \/ Claims(t, o, n) \/ Schedules(t, o, n) \/ LeavesAlone(o, n)
             \/ ReadsSession(t, o, n)
  BY <1>1 DEF Opens, Claims, Schedules, LeavesAlone, ReadsSession, Me
<1>2. CASE StartsUp(t, o, n)
  BY <1>2 DEF StartsUp, Works, Me
<1>3. CASE CleansUp("open", t, o, n) \/ CleansUp("expire", t, o, n)
  BY <1>3 DEF CleansUp
<1> QED BY <1>1, <1>2, <1>3 DEF OpenerMoves, ExpiryMoves

LEMMA OthersKnow ==
    ASSUME NEW t \in Terminals, TerminalMoves(t)
    PROVE  /\ \A u \in Terminals : u # t => Knows(Me(u))
           /\ \A r : Knows(<<"run", r>>) /\ Knows(<<"stop", r>>)
<1>1. PICK me \in {"open", "expire", "idle"} :
        /\ seen' \subseteq seen \cup {<<me, t>>}
        /\ lease' = lease \/ seen' = {<<me, t>>}
  BY TerminalKnows
<1>2. ASSUME NEW x, x # <<me, t>> PROVE Knows(x)
  BY <1>1, <1>2 DEF Knows
<1>3. \A u \in Terminals : u # t => Me(u) # <<me, t>>
  BY DEF Me
<1>4. \A r : <<"run", r>> # <<me, t>> /\ <<"stop", r>> # <<me, t>>
  OBVIOUS
<1> QED BY <1>2, <1>3, <1>4

\* What a move of the opener writes it knows, and what it knows it has read or made.
LEMMA OpenerNames ==
    ASSUME NEW t \in Terminals, NEW o, NEW n, OpenerMoves(t, o, n)
    PROVE  /\ n.ref \in {o.ref, o.box, lease.ref, None}
           /\ \/ n.box \in {o.box, o.ref, None}
              \/ n.box = t /\ o.pc = "ensure" /\ n.pc = "ready"
           /\ lease'.ref \in {lease.ref, None} \/ (o.pc \in HasRow /\ lease'.ref \in {o.ref, o.box})
           /\ terminal'.box \in {terminal.box, None} \/ (o.pc \in HasRow /\ terminal'.box = o.box)
           /\ \A u \in Terminals :
                shell'[u] \in {shell[u], None} \/ (o.pc \in HasRow /\ shell'[u] = o.box)
           /\ n.pc \in Unborn => o.pc \in Unborn
<1>0. NoTerminal.box = None /\ CleanupPcs \cap Unborn = {}
  BY DEF NoTerminal, CleanupPcs, Unborn
<1>1. CASE Opens(t, o, n) \/ Claims(t, o, n) \/ Schedules(t, o, n)
  BY <1>1 DEF Opens, Claims, Schedules, Goes, Unborn
<1>2. CASE StartsUp(t, o, n)
  <2>1. o.pc \in HasRow
    BY <1>2 DEF StartsUp, HasRow
  <2>2. n.pc \in Unborn => o.pc \in Unborn
    BY <1>2 DEF StartsUp, Continues, Fails, Goes, Unborn
  <2>3. /\ n.ref \in {o.ref, o.box}
        /\ n.box \in {o.box, o.ref} \/ (n.box = t /\ o.pc = "ensure" /\ n.pc = "ready")
    BY <1>2 DEF StartsUp, Continues, Fails, Goes
  <2>4. /\ lease'.ref \in {lease.ref, o.ref, o.box}
        /\ terminal'.box \in {terminal.box, o.box}
        /\ \A u \in Terminals : shell'[u] \in {shell[u], o.box}
    BY <1>2 DEF StartsUp, Works
  <2> QED BY <2>1, <2>2, <2>3, <2>4
<1>3. CASE LeavesAlone(o, n)
  BY <1>3 DEF LeavesAlone, Unborn
<1>4. CASE CleansUp("open", t, o, n)
  BY <1>0, <1>4 DEF CleansUp, HasRow, Unborn
<1> QED BY <1>1, <1>2, <1>3, <1>4 DEF OpenerMoves

LEMMA ExpiryNames ==
    ASSUME NEW t \in Terminals, NEW o, NEW n, ExpiryMoves(t, o, n)
    PROVE  /\ n.ref \in {o.ref, lease.ref, None}
           /\ lease'.ref \in {lease.ref, None} \/ (o.pc = "failLease" /\ lease'.ref = o.ref)
           /\ terminal'.box \in {terminal.box, None}
           /\ \A u \in Terminals : shell'[u] \in {shell[u], None}
           /\ n.pc = "failLease" => n.ref = lease.ref
<1>0. NoTerminal.box = None
  BY DEF NoTerminal
<1> QED BY <1>0 DEF ExpiryMoves, CleansUp, ReadsSession

\* Neither writes a detached name into a row.
LEMMA TerminalUnused ==
    ASSUME NamesClear, NEW t \in Terminals, TerminalMoves(t), Detached' \subseteq Detached
    PROVE  None \notin Detached' /\ DetachedIsUnused'
<1> DEFINE o == term["open"][t]
           e == term["expire"][t]
<1>0. /\ o.pc \in HasRow => o.ref \notin Detached /\ o.box \notin Detached
      /\ e.pc = "failLease" => e.ref \notin Detached
  BY DEF NamesClear, Clear
<1>1. /\ lease'.ref \notin Detached /\ terminal'.box \notin Detached
      /\ \A u \in Terminals : shell'[u] \notin Detached
  <2>1. CASE OpenerMoves(t, o, term'["open"][t])
    <3> HIDE DEF o
    <3> QED BY <1>0, <2>1, OpenerNames, UnusedNow
  <2>2. CASE ExpiryMoves(t, e, term'["expire"][t])
    <3> HIDE DEF e
    <3> QED BY <1>0, <2>2, ExpiryNames, UnusedNow
  <2> QED BY <2>1, <2>2 DEF TerminalMoves
<1>2. preview'.box \notin Detached
  BY RowOfOne, UnusedNow DEF NoPreview
<1> QED BY <1>1, <1>2, UnusedKept

\* Nor does either come to know one.
LEMMA OpenerClear ==
    ASSUME NamesClear, NEW t \in Terminals, OnlyActor("open", t),
           OpenerMoves(t, term["open"][t], term'["open"][t]), Detached' \subseteq Detached
    PROVE  Clear(t)'
<1> DEFINE o == term["open"][t]
           n == term'["open"][t]
<1>0. /\ o.pc = "claim" => o.box = None /\ (Me(t) \in seen => o.ref = lease.ref)
      /\ o.pc \in HasRow => o.ref \notin Detached /\ o.box \notin Detached
      /\ term["expire"][t].pc = "failLease" => term["expire"][t].ref \notin Detached
  BY DEF NamesClear, Clear
<1>1. term'["expire"][t] = term["expire"][t]
  BY Actors DEF OnlyActor
<1>2. n.pc = "claim" => n.box = None /\ n.ref = lease'.ref
  BY DEF OpenerMoves, Opens, Claims, Schedules, StartsUp, Continues, Fails, LeavesAlone, CleansUp,
         Goes, CleanupPcs
<1>3. n.pc \in HasRow => n.ref \notin Detached /\ n.box \notin Detached
  <2>1. CASE Claims(t, o, n)
    BY <1>0, <2>1, UnusedNow DEF Claims, Goes
  <2>2. CASE Opens(t, o, n) \/ LeavesAlone(o, n) \/ CleansUp("open", t, o, n)
    BY <2>2 DEF Opens, LeavesAlone, CleansUp, CleanupPcs, HasRow
  <2>3. CASE Schedules(t, o, n)
    BY <1>0, <2>3 DEF Schedules, Goes, HasRow
  <2>4. CASE StartsUp(t, o, n)
    <3>1. o.ref \notin Detached /\ o.box \notin Detached
      BY <1>0, <2>4 DEF StartsUp, HasRow
    <3>2. o.pc = "ensure" => t \notin Detached
      BY DEF NamesClear, NewTerminal, Names, Unborn
    <3>3. n.ref \in {o.ref, o.box} /\ (n.box \in {o.ref, o.box} \/ (o.pc = "ensure" /\ n.box = t))
      BY <2>4 DEF StartsUp, Continues, Fails, Goes
    <3> QED BY <3>1, <3>2, <3>3
  <2> QED BY <2>1, <2>2, <2>3, <2>4 DEF OpenerMoves
<1> QED BY <1>0, <1>1, <1>2, <1>3 DEF Clear

LEMMA ExpiryClear ==
    ASSUME ShellsTracked, RowsKept, NamesClear, NEW t \in Terminals, OnlyActor("expire", t),
           ExpiryMoves(t, term["expire"][t], term'["expire"][t]), Detached' \subseteq Detached
    PROVE  Clear(t)'
<1> DEFINE o == term["open"][t]
           e == term["expire"][t]
           n == term'["expire"][t]
<1>1. term'["open"][t] = o
  BY Actors DEF OnlyActor
<1>2. n.pc = "failLease" => n.ref \notin Detached
  BY ExpiryNames, UnusedNow
<1>3. o.pc = "claim" => UNCHANGED <<lease, seen>>
  <2>1. CASE CleansUp("expire", t, e, n)
    <3>1. o.pc = "done" \/ o.phase # "startup"
      BY <2>1 DEF RowsKept, RowKept, ExpiryKept, CleansUp, CleanupPcs
    <3>2. o.pc = "claim" => o.phase = "startup"
      BY Beginning DEF NoPtyYet
    <3> QED BY <3>1, <3>2
  <2>2. CASE ReadsSession(t, e, n)
    BY <2>2 DEF ReadsSession
  <2> QED BY <2>1, <2>2 DEF ExpiryMoves
<1>4. Clear(t)
  BY DEF NamesClear
<1> QED BY <1>1, <1>2, <1>3, <1>4 DEF Clear, Me

\* The names after a step of Terminal t; its own it takes when it creates the sandbox.
LEMMA TerminalNames ==
    ASSUME NEW t \in Terminals, TerminalMoves(t), Detached' \subseteq Detached
    PROVE  \/ Names' \subseteq Names \cup {None}
           \/ /\ Names' \subseteq Names \cup {None, t}
              /\ term'["open"][t].pc \notin Unborn
<1> DEFINE o == term["open"][t]
           n == term'["open"][t]
           e == term["expire"][t]
           m == term'["expire"][t]
           Known == {lease.ref, o.ref, o.box, e.ref, None}
<1>0. Known \subseteq Names \cup {None} /\ t \in {t}
  BY Actors DEF Names
<1>1. ASSUME NEW X, lease'.ref \in Known \cup X, n.ref \in Known \cup X, n.box \in Known \cup X,
             m.ref \in Known \cup X, \A a \in TermActors, u \in Terminals :
               u # t => term'[a][u] = term[a][u]
      PROVE  Names' \subseteq Names \cup {None} \cup X
  <2>1. {lease'.ref, n.ref, n.box, m.ref} \subseteq Names \cup {None} \cup X
    BY <1>0, <1>1
  <2>2. \A a \in TermActors, u \in Terminals :
          term'[a][u].ref \in Names \cup {None} \cup X
    BY <1>1, <2>1 DEF Names, TermActors
  <2>3. \A u \in Terminals : term'["open"][u].box \in Names \cup {None} \cup X
    BY <1>1, <2>1, Actors DEF Names
  <2>4. Detached' \subseteq Names
    BY DEF Names
  <2> DEFINE All == Names \cup {None} \cup X
  <2>5. {term'[a][u].ref : a \in TermActors, u \in Terminals} \subseteq All
    <3> HIDE DEF All
    <3> QED BY <2>2 DEF All
  <2>6. {term'["open"][u].box : u \in Terminals} \subseteq All
    BY <2>3
  <2>7. {lease'.ref} \cup Detached' \subseteq All
    BY <2>1, <2>4
  <2> HIDE DEF All
  <2> QED BY <2>5, <2>6, <2>7 DEF Names, All
<1>2. CASE OnlyActor("open", t) /\ OpenerMoves(t, o, n)
  <2>1. m = e /\ \A a \in TermActors, u \in Terminals : u # t => term'[a][u] = term[a][u]
    BY <1>2, Actors DEF OnlyActor
  <2>2. /\ n.ref \in Known /\ lease'.ref \in Known
        /\ n.box \in Known \/ (n.box = t /\ n.pc = "ready")
    BY <1>2, OpenerNames
  <2>3. CASE n.box \in Known
    BY <2>1, <2>2, <2>3, <1>1
  <2>4. CASE n.box = t /\ n.pc = "ready"
    <3>1. Names' \subseteq Names \cup {None} \cup {t}
      BY <2>1, <2>2, <2>4, <1>1
    <3> QED BY <2>4, <3>1 DEF Unborn
  <2> QED BY <2>2, <2>3, <2>4
<1>3. CASE OnlyActor("expire", t) /\ ExpiryMoves(t, e, m)
  <2>1. n = o /\ \A a \in TermActors, u \in Terminals : u # t => term'[a][u] = term[a][u]
    BY <1>3, Actors DEF OnlyActor
  <2>2. m.ref \in Known /\ lease'.ref \in Known
    BY <1>3, ExpiryNames
  <2> QED BY <2>1, <2>2, <1>1
<1> QED BY <1>2, <1>3 DEF TerminalMoves

LEMMA TerminalNamesKept ==
    ASSUME ShellsTracked, RowsKept, NamesClear, NEW t \in Terminals, TerminalMoves(t),
           Detached' \subseteq Detached, UNCHANGED stop
    PROVE  NamesClear'
<1>1. None \notin Detached' /\ DetachedIsUnused'
  BY TerminalUnused
<1>2. Clear(t)'
  BY OpenerClear, ExpiryClear DEF TerminalMoves
<1>3. ASSUME NEW u \in Terminals, u # t
      PROVE  /\ term'["open"][u] = term["open"][u] /\ term'["expire"][u] = term["expire"][u]
             /\ Clear(u)'
  <2>1. term'["open"][u] = term["open"][u] /\ term'["expire"][u] = term["expire"][u]
    BY <1>3, Actors DEF TerminalMoves, OnlyActor
  <2>2. Clear(u) /\ Knows(Me(u))
    BY <1>3, OthersKnow DEF NamesClear
  <2> QED BY <2>1, <2>2, ClearKept
<1>4. \A u \in Terminals : term'["open"][u].pc \in Unborn => term["open"][u].pc \in Unborn
  <2>1. term'["open"][t].pc \in Unborn => term["open"][t].pc \in Unborn
    BY OpenerNames, Actors DEF TerminalMoves, OnlyActor
  <2> QED BY <1>3, <2>1
<1>5. (\A u \in Terminals : NewTerminal(u)') /\ (\A r \in Runs : NewRun(r)')
  <2>0. \A r \in Runs : Knows(<<"run", r>>) /\ run' = run
    BY OthersKnow DEF TerminalMoves
  <2>1. CASE Names' \subseteq Names \cup {None}
    BY <1>4, <2>0, <2>1, NewTerminalsKept, NewRunsKept, Actors
  <2>2. CASE Names' \subseteq Names \cup {None, t} /\ term'["open"][t].pc \notin Unborn
    <3>1. {None, t} \cap Runs = {}
      BY NamesAssumption DEF Sessions
    <3>2. \A u \in Terminals : term'["open"][u].pc \in Unborn => u \notin {None, t}
      BY <2>2, Actors
    <3> QED BY <1>4, <2>0, <2>2, <3>1, <3>2, NewTerminalsKept, NewRunsKept
  <2> QED BY <2>1, <2>2, TerminalNames
<1>6. \A u \in Stops : StopKnows(u)'
  BY OthersKnow, StopsKnowKept
<1> QED BY <1>1, <1>2, <1>3, <1>5, <1>6 DEF NamesClear

-----------------------------------------------------------------------------
(* The steps of Runs, Previews and cleanups                                *)

\* A Run takes the sandbox of the Lease, or one that it creates and nobody has named.
LEMMA RunNamesKept ==
    ASSUME StoreTyped, NamesClear, Exclusion, NEW r \in Runs, RunNext(r)
    PROVE  RowsOnly /\ PreviewRowMoves /\ NamesClear'
<1>0. /\ UNCHANGED <<term, wakes, idle, stop, project, terminal>>
      /\ \A q \in Runs : q # r => run'[q] = run[q]
      /\ run[r] = "absent" \/ run[r] = "active"
  BY DEF RunNext, terminalVars, cleanupVars, InsertRun, RunTakesSandbox, RunEnds, OwnsLease,
         StoreTyped, RunTyped
<1>1. Detached' \subseteq Detached
  BY <1>0 DEF Detached
<1>2. \A x : x # <<"run", r>> => Knows(x)
  BY DEF RunNext, InsertRun, RunTakesSandbox, RunEnds, ReadLease, WriteLease, Knows
<1>3. /\ \A t \in Terminals : Knows(Me(t))
      /\ \A u \in Stops : Knows(<<"stop", u>>)
      /\ \A q \in Runs : q # r => Knows(<<"run", q>>)
  BY <1>2 DEF Me
<1>4. \A u \in Stops : StopKnows(u)'
  BY <1>0, <1>3, StopsKnowKept
<1>5. /\ preview' \in {preview, NoPreview}
      /\ \A t \in Terminals : shell'[t] \in {shell[t], None}
  BY DestroyEffect DEF RunNext, InsertRun, RunTakesSandbox, RunEnds, processVars
<1>6. RowsOnly /\ PreviewRowMoves
  BY <1>0, <1>5 DEF RowsOnly, PreviewRowMoves
<1>7. NewRun(r) /\ r # None /\ r \notin Terminals
  BY NamesAssumption DEF NamesClear, Sessions
<1>8. /\ lease'.ref \notin Detached
      /\ Names' \subseteq Names \cup {None, r}
      /\ \A q \in Runs : NewRun(q)'
  <2>1. ASSUME lease'.ref \in {lease.ref, None} \/ (lease'.ref = r /\ r \notin Names)
        PROVE  /\ lease'.ref \notin Detached /\ Names' \subseteq Names \cup {lease'.ref}
               /\ lease'.ref \in Names \cup {None, r}
    <3>1. lease'.ref \notin Detached
      BY <2>1, UnusedNow DEF Names
    <3>2. Names' \subseteq Names \cup {lease'.ref}
      BY <1>1, <1>3, <1>6, <3>1, QuietClear
    <3>3. lease.ref \in Names
      BY DEF Names
    <3> QED BY <2>1, <3>1, <3>2, <3>3
  <2>2. CASE InsertRun(r)
    <3>1. lease' = lease /\ run[r] = "absent"
      BY <2>2 DEF InsertRun
    <3>2. r \notin Names /\ Names' \subseteq Names
      BY <1>7, <2>1, <3>1 DEF NewRun, Names
    <3>3. ASSUME NEW q \in Runs PROVE NewRun(q)'
      <4>1. CASE q = r
        BY <3>2, <4>1 DEF NewRun
      <4>2. CASE q # r
        BY <1>0, <1>3, <3>1, <3>2, <4>2 DEF NewRun, NamesClear, Knows
      <4> QED BY <4>1, <4>2
    <3> QED BY <2>1, <3>1, <3>2, <3>3
  <2>3. CASE RunTakesSandbox(r)
    <3>1. /\ run[r] = "active" /\ <<"run", r>> \in seen /\ lease.status # "busy" /\ run' = run
          /\ lease'.ref \in {lease.ref, r} /\ lease'.status = "busy"
      BY <2>3 DEF RunTakesSandbox, OwnsLease, Current, WriteLease
    <3>2. r \notin Names
      BY <1>7, <3>1 DEF NewRun
    <3>3. Names' \subseteq Names \cup {r}
      BY <2>1, <3>1, <3>2 DEF Names
    <3>4. ASSUME NEW q \in Runs PROVE NewRun(q)'
      BY <3>1, <3>3 DEF NewRun, NamesClear
    <3> QED BY <2>1, <3>1, <3>2, <3>3, <3>4
  <2>4. CASE RunEnds(r)
    <3>1. lease'.ref \in {lease.ref, None} /\ seen' = {<<"run", r>>} /\ run'[r] = "done"
      BY <2>4 DEF RunEnds, WriteLease, StoreTyped, RunTyped
    <3>2. Names' \subseteq Names \cup {None}
      BY <2>1, <3>1 DEF Names
    <3>3. ASSUME NEW q \in Runs PROVE NewRun(q)'
      <4>1. CASE q = r
        BY <3>1, <4>1 DEF NewRun
      <4>2. CASE q # r
        <5>1. <<"run", q>> \notin seen'
          BY <3>1, <4>2
        <5>2. run'[q] = run[q] /\ NewRun(q) /\ q # None
          BY <1>0, <4>2, Actors DEF NamesClear
        <5> QED BY <3>2, <5>1, <5>2 DEF NewRun
      <4> QED BY <4>1, <4>2
    <3> QED BY <2>1, <3>1, <3>2, <3>3
  <2> QED BY <2>2, <2>3, <2>4 DEF RunNext
<1>9. /\ None \notin Detached' /\ DetachedIsUnused' /\ \A t \in Terminals : Clear(t)'
  BY <1>1, <1>3, <1>6, <1>8, QuietClear
<1>10. \A t \in Terminals : NewTerminal(t)'
  BY <1>0, <1>7, <1>8, NewTerminalsKept, Actors
<1> QED BY <1>4, <1>6, <1>8, <1>9, <1>10 DEF NamesClear

LEMMA PreviewNamesKept ==
    ASSUME StoreTyped, NamesClear, NEW p \in Previews, PreviewNext(p),
           UNCHANGED <<terminalVars, cleanupVars>>
    PROVE  RowsOnly /\ PreviewRowMoves /\ NamesClear'
<1>1. /\ RowsOnly /\ PreviewRowMoves /\ UNCHANGED <<project, run, lease, idle, stop>>
      /\ \E a \in ViewActors : seen' \subseteq seen \cup {<<a, p>>}
  BY PreviewMoves
<1>2. /\ \A t \in Terminals : Knows(Me(t))
      /\ \A u \in Stops : Knows(<<"stop", u>>)
      /\ \A r \in Runs : Knows(<<"run", r>>)
  <2>1. p \notin Terminals
    BY NamesAssumption DEF Sessions
  <2> QED BY <1>1, <2>1 DEF Knows, Me, ViewActors
<1>3. Detached' \subseteq Detached
  BY <1>1 DEF Detached
<1>4. \A u \in Stops : StopKnows(u)'
  BY <1>1, <1>2, StopsKnowKept
<1> QED BY <1>1, <1>2, <1>3, <1>4, QuietNames

LEMMA DeleteNamesKept ==
    ASSUME CleanupTyped, NamesClear, NEW u \in Stops, DeleteProject(u)
    PROVE  RowsOnly /\ PreviewRowMoves /\ NamesClear'
<1>1. /\ UNCHANGED <<term, wakes, idle, run, shell>>
      /\ UNCHANGED <<project, terminal>> \/ (project' = FALSE /\ terminal' = NoTerminal)
      /\ preview' \in {preview, NoPreview} /\ lease'.ref \in {lease.ref, None}
      /\ UNCHANGED <<lease, seen>> \/ seen' = {}
  BY DEF DeleteProject, terminalVars, processVars
<1>2. StopMoves(u) /\ stop'[u].pc = "done"
  BY AnswerMoves DEF DeleteProject, StopMoves
<1>3. Detached' \subseteq Detached
  BY <1>1, <1>2, DetachedFewer DEF StopMoves
<1>4. \A x : Knows(x)
  BY <1>1 DEF Knows
<1>5. \A v \in Stops : StopKnows(v)'
  BY <1>2, <1>4, StopsKnowKept
<1>6. RowsOnly /\ PreviewRowMoves
  BY <1>1 DEF RowsOnly, PreviewRowMoves
<1> QED BY <1>1, <1>3, <1>4, <1>5, <1>6, QuietNames

\* A scheduled cleanup has detached nothing yet.
LEMMA ScheduleForgets ==
    ASSUME CleanupTyped, NEW x \in Sessions, Schedule(x), UNCHANGED stop
    PROVE  Detached' \subseteq Detached
<1> DEFINE old == idle[x]
           rec == [old EXCEPT !.pc = "asleep"]
<1>1. old \in IdleRecords
  BY DEF CleanupTyped
<1>2. idle' = idle \/ idle' = [idle EXCEPT ![x] = rec]
  BY DEF Schedule, CleanupTyped
<1>3. rec.pc = "asleep"
  <2> HIDE DEF old
  <2> QED BY <1>1 DEF IdleRecords
<1> HIDE DEF rec
<1>4. \A y \in Sessions : idle'[y].pc = "stop" => idle'[y] = idle[y]
  BY <1>2, <1>3 DEF CleanupTyped
<1> QED BY <1>4, DetachedFewer

\* The idle cleanup of session x.
LEMMA ReclaimNamesKept ==
    ASSUME StoreTyped, CleanupTyped, ShellsTracked, RowsKept, NamesClear, NEW x \in Sessions,
           ReclaimAfterActivity(x) \/ StopReclaimed(x), RowsOnly,
           UNCHANGED <<project, run, terminal, preview>>
    PROVE  NamesClear'
<1>0. UNCHANGED stop
  BY DEF ReclaimAfterActivity, StopReclaimed
<1>1. ASSUME NEW rec, idle' = [idle EXCEPT ![x] = rec]
      PROVE  idle'[x] = rec /\ \A y \in Sessions : y # x => idle'[y] = idle[y]
  BY <1>1 DEF CleanupTyped
<1>2. CASE ReclaimAfterActivity(x) /\ CanClaimForStop(<<"idle", x>>, {"idle"})
  <2>1. DetachSandbox(<<"idle", x>>)
    BY <1>2 DEF ReclaimAfterActivity
  <2> DEFINE rec == [pc |-> "stop", box |-> lease.ref]
  <2>2. idle' = [idle EXCEPT ![x] = rec] /\ rec.box = lease.ref
    BY <1>2 DEF ReclaimAfterActivity
  <2> HIDE DEF rec
  <2>3. Detached' \subseteq Detached \cup {lease.ref}
    BY <1>0, <1>1, <2>2 DEF Detached
  <2>4. Detaches(<<"idle", x>>)
    BY <1>2, <2>1, <2>3 DEF Detaches, CanClaimForStop, LeaseStatuses
  <2>5. /\ \A t \in Terminals : <<"idle", x>> # Me(t)
        /\ \A r \in Runs : <<"idle", x>> # <<"run", r>>
    BY DEF Me
  <2> QED BY <1>0, <2>4, <2>5, DetachClear
<1>3. CASE ~(ReclaimAfterActivity(x) /\ CanClaimForStop(<<"idle", x>>, {"idle"}))
  <2>1. UNCHANGED <<lease, seen>>
    BY <1>3 DEF ReclaimAfterActivity, StopReclaimed, rowVars
  <2>2. idle'[x].pc = "done" /\ \A y \in Sessions : y # x => idle'[y] = idle[y]
    <3>1. CASE ReclaimAfterActivity(x)
      <4> DEFINE old == idle[x]
                 rec == [old EXCEPT !.pc = "done"]
      <4>1. old \in IdleRecords
        BY DEF CleanupTyped
      <4>2. idle' = [idle EXCEPT ![x] = rec]
        BY <1>3, <3>1 DEF ReclaimAfterActivity, CleanupTyped
      <4>3. rec.pc = "done"
        <5> HIDE DEF old
        <5> QED BY <4>1 DEF IdleRecords
      <4> HIDE DEF rec
      <4> QED BY <1>1, <4>2, <4>3
    <3>2. CASE StopReclaimed(x)
      BY <1>1, <3>2 DEF StopReclaimed
    <3> QED BY <3>1, <3>2
  <2>3. Detached' \subseteq Detached
    BY <1>0, <2>2, DetachedFewer
  <2>4. \A y : Knows(y)
    BY <2>1 DEF Knows
  <2>5. \A u \in Stops : StopKnows(u)'
    BY <1>0, <2>4, StopsKnowKept
  <2> QED BY <2>1, <2>3, <2>4, <2>5, QuietNames DEF PreviewRowMoves
<1> QED BY <1>2, <1>3

\* The request u of a user, which reads the Lease before it claims the sandbox.
LEMMA RequestNamesKept ==
    ASSUME CleanupTyped, NamesClear, NEW u \in Stops, RequestStop(u), RowsOnly,
           UNCHANGED <<project, run, terminal, preview>>
    PROVE  NamesClear'
<1>1. seen' = seen \cup {<<"stop", u>>} /\ UNCHANGED <<lease, idle>>
  BY DEF RequestStop, ReadLease
<1>2. /\ \A v \in Stops : v # u => stop'[v] = stop[v]
      /\ stop'[u].pc = "check" /\ stop'[u].box = lease.ref
  <2>1. PICK deletes \in BOOLEAN :
          stop' = [stop EXCEPT ![u] = [pc |-> "check", box |-> lease.ref, deletes |-> deletes]]
    BY DEF RequestStop
  <2> QED BY <2>1 DEF CleanupTyped
<1>3. Detached' \subseteq Detached
  BY <1>1, <1>2, DetachedFewer
<1>4. \A x : x # <<"stop", u>> => Knows(x)
  BY <1>1 DEF Knows
<1>5. ASSUME NEW v \in Stops PROVE StopKnows(v)'
  <2>1. CASE v = u
    BY <1>1, <1>2, <2>1 DEF StopKnows
  <2>2. CASE v # u
    <3>1. Knows(<<"stop", v>>) /\ StopKnows(v) /\ stop'[v] = stop[v]
      BY <1>2, <1>4, <2>2 DEF NamesClear
    <3> QED BY <3>1 DEF StopKnows, Knows
  <2> QED BY <2>1, <2>2
<1>6. (\A t \in Terminals : Knows(Me(t))) /\ (\A r \in Runs : Knows(<<"run", r>>))
  BY <1>4 DEF Me
<1> QED BY <1>1, <1>3, <1>5, <1>6, QuietNames DEF PreviewRowMoves

LEMMA StopNamesKept ==
    ASSUME StoreTyped, CleanupTyped, ShellsTracked, RowsKept, NamesClear, NEW u \in Stops,
           CheckActivities(u) \/ ClaimForManualStop(u) \/ StopClaimed(u), RowsOnly,
           UNCHANGED <<project, run, terminal, preview>>
    PROVE  NamesClear'
<1>0. UNCHANGED idle
  BY DEF CheckActivities, ClaimForManualStop, StopClaimed
<1>1. StopMoves(u)
  BY StopToMoves, AnswerMoves, GoOnMoves
  DEF CheckActivities, ClaimForManualStop, StopClaimed, StopMoves
<1>2. CASE DetachSandbox(<<"stop", u>>) /\ ClaimForManualStop(u) /\ StopTo(u, "stop")
             /\ CanClaimForStop(<<"stop", u>>, LeaseStatuses \ {"stopped"})
  <2>1. stop'[u].pc = "stop" /\ stop'[u].box = stop[u].box
    BY <1>2, StopToMoves
  <2>2. stop[u].box = lease.ref
    BY <1>2 DEF NamesClear, StopKnows, ClaimForManualStop, CanClaimForStop, Current
  <2>3. Detached' \subseteq Detached \cup {lease.ref}
    BY <1>0, <1>1, <2>1, <2>2 DEF Detached, StopMoves
  <2>4. Detaches(<<"stop", u>>)
    BY <1>2, <2>3 DEF Detaches, CanClaimForStop, LeaseStatuses
  <2>5. /\ \A t \in Terminals : <<"stop", u>> # Me(t)
        /\ \A r \in Runs : <<"stop", u>> # <<"run", r>>
    BY DEF Me
  <2>6. \A v \in Stops : stop'[v].pc \in {"check", "claim"} => <<"stop", u>> # <<"stop", v>>
    BY <2>1
  <2> QED BY <1>1, <2>4, <2>5, <2>6, DetachClear
<1>3. CASE UNCHANGED <<lease, seen>> /\ stop'[u].pc # "stop"
  <2>1. Detached' \subseteq Detached
    BY <1>0, <1>1, <1>3, DetachedFewer DEF StopMoves
  <2>2. \A y : Knows(y)
    BY <1>3 DEF Knows
  <2>3. \A v \in Stops : StopKnows(v)'
    BY <1>1, <2>2, StopsKnowKept
  <2> QED BY <1>3, <2>1, <2>2, <2>3, QuietNames DEF PreviewRowMoves
<1> QED
  BY <1>2, <1>3, StopToMoves, AnswerMoves, GoOnMoves
  DEF CheckActivities, ClaimForManualStop, StopClaimed, storeVars, rowVars

LEMMA CleanupNamesKept ==
    ASSUME StoreTyped, CleanupTyped, ShellsTracked, RowsKept, NamesClear, CleanupStep
    PROVE  RowsOnly /\ PreviewRowMoves /\ NamesClear'
<1>1. RowsOnly /\ UNCHANGED <<project, run, terminal>>
  BY CleanupCalm DEF Calm, RowsOnly
<1>2. UNCHANGED preview
  BY DEF CleanupStep, SchedulePreviewIdle, ReclaimAfterActivity, StopReclaimed, RequestStop,
         CheckActivities, ClaimForManualStop, StopClaimed, Environment, SandboxIsLost, ViteExits,
         rowVars, storeVars
<1>3. PreviewRowMoves
  BY <1>2 DEF PreviewRowMoves
<1>4. ASSUME NEW a \in ViewActors, NEW p \in Previews, SchedulePreviewIdle(a, p)
      PROVE  NamesClear'
  <2>1. lease' = lease /\ stop' = stop /\ seen' \subseteq seen \cup {<<"idle", p>>}
    BY <1>4 DEF SchedulePreviewIdle
  <2>2. Detached' \subseteq Detached
    BY <1>4, <2>1, ScheduleForgets DEF SchedulePreviewIdle, Sessions
  <2>3. /\ \A t \in Terminals : Knows(Me(t))
        /\ \A u \in Stops : Knows(<<"stop", u>>)
        /\ \A r \in Runs : Knows(<<"run", r>>)
    BY <2>1 DEF Knows, Me
  <2>4. \A u \in Stops : StopKnows(u)'
    BY <2>1, <2>3, StopsKnowKept
  <2> QED BY <1>1, <1>3, <2>1, <2>2, <2>3, <2>4, QuietNames
<1>5. CASE Environment
  <2>1. UNCHANGED <<lease, seen, idle, stop>>
    BY <1>5 DEF Environment, SandboxIsLost, ViteExits, rowVars, cleanupVars
  <2>2. Detached' \subseteq Detached
    BY <2>1 DEF Detached
  <2>3. \A x : Knows(x)
    BY <2>1 DEF Knows
  <2>4. \A u \in Stops : StopKnows(u)'
    BY <2>1, <2>3, StopsKnowKept
  <2> QED BY <1>1, <1>3, <2>1, <2>2, <2>3, <2>4, QuietNames
<1> QED BY <1>1, <1>2, <1>3, <1>4, <1>5, ReclaimNamesKept, RequestNamesKept, StopNamesKept
        DEF CleanupStep

-----------------------------------------------------------------------------
(* The invariant                                                           *)

LEMMA WorkspaceInit == Init => WorkspaceInv
<1> SUFFICES ASSUME Init PROVE RowsKept /\ NamesClear
  BY InitMaps DEF WorkspaceInv
<1>1. /\ terminal = NoTerminal /\ preview = NoPreview /\ lease.ref = First /\ seen = {}
      /\ wakes = {} /\ (\A r \in Runs : run[r] = "absent")
      /\ \A a \in TermActors, t \in Terminals : term[a][t] = NoTerm
  BY DEF Init, StoreInit, TerminalInit
<1>2. NoTerm.pc = "off" /\ NoTerm.phase = "startup" /\ NoTerm.ref = None /\ NoTerm.box = None
  BY DEF NoTerm
<1>3. RowsKept
  <2>1. EmptyRows
    BY <1>1 DEF EmptyRows, NoTerminal, NoPreview
  <2>2. ASSUME NEW t \in Terminals PROVE RowKept(t)
    BY <1>1, <1>2, Actors DEF RowKept, OpenerKept, ExpiryKept, HasRow, HasBox, InBox, StartupPcs
  <2> QED BY <2>1, <2>2 DEF RowsKept
<1>4. Detached = {}
  BY DEF Detached, Init, CleanupInit, NotScheduled, NoStop
<1>5. Names \subseteq {First, None}
  <2>1. \A a \in TermActors, t \in Terminals : term[a][t].ref = None /\ term[a][t].box = None
    BY <1>1, <1>2
  <2> QED BY <1>1, <1>4, <2>1, Actors DEF Names
<1>6. \A t \in Terminals : Clear(t) /\ NewTerminal(t)
  BY <1>1, <1>2, <1>4, <1>5, Actors, NamesAssumption
  DEF Clear, NewTerminal, HasRow, Sessions
<1>7. \A u \in Stops : StopKnows(u)
  BY <1>1 DEF StopKnows
<1>8. \A r \in Runs : NewRun(r)
  BY <1>5, NamesAssumption DEF NewRun, Sessions
<1>9. DetachedIsUnused
  BY <1>4 DEF DetachedIsUnused, Detached
<1> QED BY <1>3, <1>4, <1>6, <1>7, <1>8, <1>9 DEF NamesClear

LEMMA WorkspaceNext == WorkspaceInv /\ [Next]_vars => WorkspaceInv'
<1> SUFFICES ASSUME WorkspaceInv, [Next]_vars PROVE RowsKept' /\ NamesClear'
  BY NextInv DEF WorkspaceInv
<1>0. /\ StoreTyped /\ TerminalTyped /\ CleanupTyped /\ ShellsTracked /\ Exclusion
      /\ RowsKept /\ NamesClear
  BY DEF WorkspaceInv, OccupancyInv, IInv
<1>1. ASSUME RowsOnly, PreviewRowMoves PROVE RowsKept'
  BY <1>0, <1>1, OthersRowsKept
<1>2. ASSUME NEW t \in Terminals, TerminalMoves(t), Detached' \subseteq Detached, UNCHANGED stop
      PROVE  RowsKept' /\ NamesClear'
  BY <1>0, <1>2, TerminalRowsKept, TerminalNamesKept
<1>3. ASSUME NEW t \in Terminals, TerminalNext(t), UNCHANGED cleanupVars
      PROVE  RowsKept' /\ NamesClear'
  <2>1. Detached' \subseteq Detached /\ stop' = stop
    BY <1>3 DEF cleanupVars, Detached
  <2> QED BY <1>0, <1>2, <1>3, <2>1, TerminalStepMoves
<1>4. ASSUME NEW a \in TermActors, NEW t \in Terminals, ScheduleTerminalIdle(a, t)
      PROVE  RowsKept' /\ NamesClear'
  <2>1. Detached' \subseteq Detached /\ stop' = stop
    BY <1>0, <1>4, ScheduleForgets DEF ScheduleTerminalIdle, Sessions
  <2> QED BY <1>0, <1>2, <1>4, <2>1, ScheduleIdleMoves
<1>5. ASSUME NEW p \in Previews, PreviewNext(p), UNCHANGED <<terminalVars, cleanupVars>>
      PROVE  RowsKept' /\ NamesClear'
  BY <1>0, <1>1, <1>5, PreviewNamesKept
<1>6. ASSUME NEW r \in Runs, RunNext(r) PROVE RowsKept' /\ NamesClear'
  BY <1>0, <1>1, <1>6, RunNamesKept
<1>7. ASSUME NEW u \in Stops, DeleteProject(u) PROVE RowsKept' /\ NamesClear'
  BY <1>0, <1>1, <1>7, DeleteNamesKept
<1>8. CASE CleanupStep
  BY <1>0, <1>1, <1>8, CleanupNamesKept
<1>9. CASE UNCHANGED vars
  <2>1. RowsOnly /\ PreviewRowMoves /\ UNCHANGED <<run, lease, seen, stop>>
    BY <1>9 DEF vars, storeVars, terminalVars, cleanupVars, RowsOnly, PreviewRowMoves
  <2>2. Detached' \subseteq Detached
    BY <1>9 DEF vars, cleanupVars, Detached
  <2>3. \A x : Knows(x)
    BY <2>1 DEF Knows
  <2>4. \A u \in Stops : StopKnows(u)'
    BY <1>0, <2>1, <2>3, StopsKnowKept
  <2> QED BY <1>0, <1>1, <2>1, <2>2, <2>3, <2>4, QuietNames
<1> QED BY <1>3, <1>4, <1>5, <1>6, <1>7, <1>8, <1>9
        DEF Next, TerminalIdle, PreviewIdle, StopStep, CleanupStep, Sessions

\* Whatever the idle cleanup or a stop has detached from the Lease and is about to stop is
\* named by no row and holds no PTY (claimIdleAfterActivityForStop, claimForManualStop): no
\* Terminal, Preview or Run can lose the sandbox that it is using to a cleanup.
THEOREM DetachedIsUnusedCorrect == Spec => []DetachedIsUnused
<1>1. WorkspaceInv => DetachedIsUnused
  BY DEF WorkspaceInv, NamesClear
<1> QED BY <1>1, WorkspaceInit, WorkspaceNext, PTL DEF Spec
=================================================================================
