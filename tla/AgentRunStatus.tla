--------------------------- MODULE AgentRunStatus ---------------------------
(***************************************************************************)
(* The status machine of an AgentRun: src/domain/agent-run.ts, repeated as *)
(* the trigger agent_runs_validate_status_transition of migration 0006.    *)
(* "absent" is a Run whose row has not been inserted.                      *)
(***************************************************************************)

ActiveStatuses   == {"queued", "starting", "running", "cancelling"}
TerminalStatuses == {"succeeded", "failed", "cancelled", "timed_out", "interrupted"}
Statuses         == ActiveStatuses \cup TerminalStatuses \cup {"absent"}

allowedTransitions ==
    [queued     |-> {"starting", "cancelled", "failed"},
     starting   |-> {"running", "cancelling", "failed", "timed_out", "interrupted"},
     running    |-> {"succeeded", "cancelling", "failed", "timed_out", "interrupted"},
     cancelling |-> {"cancelled", "failed", "timed_out", "interrupted"}]

isTerminalAgentRun(s) == s \in TerminalStatuses

canTransitionAgentRun(from, to) ==
    from \in ActiveStatuses /\ to \in allowedTransitions[from]
=============================================================================
