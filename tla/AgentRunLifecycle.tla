-------------------------- MODULE AgentRunLifecycle --------------------------
(***************************************************************************)
(* What the AgentRuns of one Project promise to a reader of the database,  *)
(* whoever writes the rows: at most one Run is active, a Run moves only    *)
(* along allowedTransitions, and the assistant Message of a Run appears in *)
(* the very step that makes the Run succeeded (CONTEXT.md, invariants 5,   *)
(* 11 and 18).  RunExecution implements this specification.                *)
(***************************************************************************)
EXTENDS AgentRunStatus

CONSTANT Runs           \* every AgentRun the Project may ever have

VARIABLES status,       \* agent_runs.status
          reply         \* whether the Run's assistant Message exists

vars == <<status, reply>>

Init == /\ status = [r \in Runs |-> "absent"]
        /\ reply  = [r \in Runs |-> FALSE]

Active(r) == status[r] \in ActiveStatuses

Create(r) ==
    /\ status[r] = "absent"
    /\ \A q \in Runs : ~Active(q)
    /\ status' = [status EXCEPT ![r] = "queued"]
    /\ UNCHANGED reply

Move(r, to) ==
    /\ canTransitionAgentRun(status[r], to)
    /\ status' = [status EXCEPT ![r] = to]
    /\ reply'  = [reply EXCEPT ![r] = (to = "succeeded")]

Next == \E r \in Runs : Create(r) \/ \E to \in Statuses : Move(r, to)

Spec == Init /\ [][Next]_vars

TypeOK == /\ status \in [Runs -> Statuses]
          /\ reply  \in [Runs -> BOOLEAN]

\* At most one Run of a Project is active: the partial unique index
\* agent_runs_one_active_per_project (migration 0001).
OneActiveRun == \A r, q \in Runs : Active(r) /\ Active(q) => r = q

\* The conversation shows a reply exactly for the Runs that succeeded.
ReplyIffSucceeded == \A r \in Runs : reply[r] <=> status[r] = "succeeded"

\* Neither a finished Run nor its reply ever changes again.
TerminalIsFinal ==
    [][\A r \in Runs : isTerminalAgentRun(status[r]) =>
           status'[r] = status[r] /\ reply'[r] = reply[r]]_vars
=============================================================================
