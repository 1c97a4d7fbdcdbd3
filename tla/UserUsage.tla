-------------------------------- MODULE UserUsage --------------------------------
(***************************************************************************)
(* The usage of all Runs of a user, those of deleted Projects included:    *)
(* what is recorded while Runs spend, what the deletion of a Project moves *)
(* to the archive (migration 0008, ProjectManagementService.delete), and   *)
(* the summaries read from both (d1-user-usage-repository.ts,              *)
(* d1-insights-usage-repository.ts, project-insights.ts).                  *)
(***************************************************************************)
EXTENDS Integers, FiniteSets, SequencesExt, FiniteSetsExt, RowOrder

CONSTANTS UsageProjects,  \* numbers
          UsageRuns,
          UsagePageSize,  \* Projects on a page of the tool, 50
          UsageBudgets,   \* values to try of the Runs that the tool reads at most, 100000
          MaxRunUsage     \* bound on the usage of a Run

ASSUME UsageAssumption ==
    /\ IsFiniteSet(UsageProjects) /\ UsageProjects \subseteq Int
    /\ UsagePageSize \in Nat \ {0} /\ UsageBudgets \subseteq Nat

VARIABLES alive,          \* projects
          current,        \* agent_runs: a set of [id, project, active, usage]
          archived,       \* archived_run_usage: a set of [id, project, usage]
          deletion,       \* Projects whose sandbox a DELETE request has stopped
          recorded        \* history: the usage ever recorded, by Project

usageVars == <<alive, current, archived, deletion, recorded>>

UsageInit ==
    /\ alive = UsageProjects /\ current = {} /\ archived = {} /\ deletion = {}
    /\ recorded = [p \in UsageProjects |-> 0]

RunsOf(p)   == {r \in current : r.project = p}
ActiveIn(p) == {r \in RunsOf(p) : r.active}

\* createQueuedWithInput: one active Run of a Project, and of a Project that is there
BeginRun(p, id) ==
    /\ p \in alive /\ ActiveIn(p) = {} /\ id \notin {r.id : r \in current \cup archived}
    /\ current' = current \cup {[id |-> id, project |-> p, active |-> TRUE, usage |-> 0]}
    /\ UNCHANGED <<alive, archived, deletion, recorded>>

\* addUsageDelta and setSandboxDuration change an active Run only.
Spend(r) ==
    /\ r.active /\ r.usage < MaxRunUsage
    /\ current' = (current \ {r}) \cup {[r EXCEPT !.usage = @ + 1]}
    /\ recorded' = [recorded EXCEPT ![r.project] = @ + 1]
    /\ UNCHANGED <<alive, archived, deletion>>

FinishRun(r) ==
    /\ r.active /\ current' = (current \ {r}) \cup {[r EXCEPT !.active = FALSE]}
    /\ UNCHANGED <<alive, archived, deletion, recorded>>

\* delete(): the Project is found and its sandbox stopped, which an active Run refuses.
StopForDeletion(p) ==
    /\ p \in alive \ deletion /\ ActiveIn(p) = {}
    /\ deletion' = deletion \cup {p}
    /\ UNCHANGED <<alive, current, archived, recorded>>

ArchivedRow(r) == [id |-> r.id, project |-> r.project, usage |-> r.usage]

\* Mutant: what is still active is left out, so that the batch does not fail.
ArchiveFinished(p) == archived' = archived \cup {ArchivedRow(r) : r \in RunsOf(p) \ ActiveIn(p)}

\* INSERT ... SELECT into the archive, whose CHECK refuses a status that is not terminal
Archive(p) ==
    /\ ActiveIn(p) = {}
    /\ archived' = archived \cup {ArchivedRow(r) : r \in RunsOf(p)}

\* One batch: the Runs cascade away with the Project, or all of it fails.
DeleteOwned(p) ==
    /\ p \in deletion /\ deletion' = deletion \ {p}
    /\ \/ Archive(p) /\ alive' = alive \ {p} /\ current' = current \ RunsOf(p)
       \/ ActiveIn(p) # {} /\ UNCHANGED <<alive, current, archived>>
    /\ UNCHANGED recorded

UsageNext ==
    \/ \E p \in UsageProjects : \/ StopForDeletion(p) \/ DeleteOwned(p)
                                \/ \E id \in UsageRuns : BeginRun(p, id)
    \/ \E r \in current : Spend(r) \/ FinishRun(r)

UsageSpec == UsageInit /\ [][UsageNext]_usageVars

-----------------------------------------------------------------------------
(* Summaries; each is one batch, so of one state                           *)

\* user_usage_rows
UsageRows ==
    {[id |-> r.id, project |-> r.project, deleted |-> FALSE, usage |-> r.usage] : r \in current}
      \cup {[id |-> r.id, project |-> r.project, deleted |-> TRUE, usage |-> r.usage] :
               r \in archived}

Summarize(rows) == [runs |-> Cardinality(rows), usage |-> MapThenSumSet(LAMBDA r : r.usage, rows)]

\* GROUP BY project_id, project_title, project_deleted
ProjectRows ==
    {[project |-> g[1], deleted |-> g[2],
      total |-> Summarize({r \in UsageRows : r.project = g[1] /\ r.deleted = g[2]})] :
        g \in {<<r.project, r.deleted>> : r \in UsageRows}}

\* ORDER BY total_tokens DESC, run_count DESC, and then by Project
UsesMore(a, b) ==
    \/ a.total.usage > b.total.usage
    \/ a.total.usage = b.total.usage /\ a.total.runs > b.total.runs
    \/ a.total = b.total /\ a.project < b.project

\* Runs are counted up to one more than the budget, of either kind.
OverBudget(budget) ==
    Min({Cardinality(current), budget + 1}) + Min({Cardinality(archived), budget + 1}) > budget

GetUsage(offset, budget) ==
    LET projects == InOrder(ProjectRows, UsesMore)
        next     == offset + UsagePageSize
    IN  IF OverBudget(budget) THEN [kind |-> "budget_exceeded"]
        ELSE [kind     |-> "ok",
              totals   |-> Summarize(UsageRows),
              projects |-> SubSeq(projects, offset + 1, Min({next, Len(projects)})),
              next     |-> IF next < Len(projects) THEN next ELSE -1]

-----------------------------------------------------------------------------
\* Nothing that was recorded is lost or counted twice when a Project is deleted, although a Run
\* may begin, spend and end between the stop of its sandbox and the batch that deletes it:
\* the totals are what was ever recorded, and each Project is one row with its part of it.
\* The tool shows all of that, over its pages, or, of more Runs than the budget, nothing.
UsageSurvivesDeletion ==
    /\ Summarize(UsageRows).usage = MapThenSumSet(LAMBDA p : recorded[p], UsageProjects)
    /\ \A p \in UsageProjects :
          LET rows == {row \in ProjectRows : row.project = p} IN
            /\ MapThenSumSet(LAMBDA row : row.total.usage, rows) = recorded[p]
            /\ Cardinality(rows) <= 1
            /\ \A row \in rows : row.deleted <=> p \notin alive
    /\ \A budget \in UsageBudgets :
          LET Answer(o) == GetUsage(o, budget)
              offsets   == {k * UsagePageSize : k \in 0 .. Cardinality(ProjectRows)}
              followed  == {o \in offsets : o = 0 \/ Answer(o - UsagePageSize).next = o}
          IN  IF Cardinality(UsageRows) > budget
              THEN Answer(0).kind = "budget_exceeded"
              ELSE UNION {ToSet(Answer(o).projects) : o \in followed} = ProjectRows
=============================================================================
