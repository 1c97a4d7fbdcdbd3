------------------------------ MODULE ModelGateway ------------------------------
(***************************************************************************)
(* The allowances of one user and the model requests of his Runs: the      *)
(* triggers of migration 0009 that admit Runs and Terminals,               *)
(* D1ModelAdmission, and one action per await of a request to the gateway  *)
(* (src/server/model-gateway.ts, model-gateway-service.ts).  A database    *)
(* statement that faults may or may not have been executed; Gemini is      *)
(* external.  The limits are scaled down, and the clock is the hour (two   *)
(* hours make a day).                                                      *)
(***************************************************************************)
EXTENDS Naturals, FiniteSets

CONSTANTS ModelRuns,      \* the user's Runs, each of a Project of its own
          Requests,       \* the model requests that agents make
          MaxPerHour,     \* user_resource_admission_rate, 60
          MaxPerDay,      \* user_resource_model_budget, 512
          MaxPerRun,      \* model_admission_count of a Run, 64
          TokenBudget,    \* total_tokens of a Run, 500000
          MaxUsage,       \* bound on the tokens of one response
          MaxFaults,      \* bound on faults and lost Workers
          LastHour        \* bound on the clock

ASSUME GatewayAssumption ==
    MaxPerHour \in Nat /\ MaxPerDay \in Nat /\ TokenBudget \in Nat \ {0} /\ MaxUsage \in Nat

VARIABLES runPhase,       \* agent_runs.status: "absent", "queued", "running", "cancelling", "over"
          terminals,      \* how many terminal_sessions the user has
          counters,       \* his row of user_resource_counters
          hour,           \* the clock of the database
          quota,          \* of each Run: model_admission_count, _request_active, total_tokens
          request,        \* what each request does
          faults,
          \* history, for the properties
          admittedNow,    \* Runs and Terminals admitted in this hour
          calledToday,    \* model requests admitted on this day
          delivered       \* tokens of the responses each agent has got

gatewayVars == <<runPhase, terminals, counters, hour, quota, request, faults, admittedNow,
                 calledToday, delivered>>
requestVars == <<request, faults>>
clockVars   == <<hour, admittedNow, calledToday>>

MaxConcurrent == 2        \* user_resource_concurrency
Day(h) == h \div 2

NoRequest == [pc |-> "off", run |-> "none", usage |-> 0, ok |-> FALSE]

GatewayInit ==
    /\ runPhase = [r \in ModelRuns |-> "absent"] /\ terminals = 0 /\ hour = 0
    /\ counters = [hour |-> 0, admissions |-> 0, day |-> 0, models |-> 0]
    /\ quota = [r \in ModelRuns |-> [count |-> 0, active |-> FALSE, tokens |-> 0]]
    /\ request = [q \in Requests |-> NoRequest] /\ faults = 0
    /\ admittedNow = 0 /\ calledToday = 0 /\ delivered = [r \in ModelRuns |-> 0]

Fault   == faults < MaxFaults /\ faults' = faults + 1
NoFault == UNCHANGED faults

-----------------------------------------------------------------------------
(* Admission of Runs and Terminals                                         *)

ActiveRuns == {r \in ModelRuns : runPhase[r] \notin {"absent", "over"}}

\* The counter after one more admission in this hour: ON CONFLICT DO UPDATE.
Admissions == IF counters.hour = hour THEN counters.admissions + 1 ELSE 1

\* Mutant: the rate is compared before the admission is counted.
CanAdmitUncounted ==
    /\ Cardinality(ActiveRuns) + terminals < MaxConcurrent
    /\ counters.hour # hour \/ counters.admissions <= MaxPerHour

\* Both triggers: the concurrency with the new row, and the CHECK of the counter.
CanAdmit ==
    /\ Cardinality(ActiveRuns) + terminals + 1 <= MaxConcurrent
    /\ Admissions <= MaxPerHour

CountAdmission ==
    /\ counters' = [counters EXCEPT !.hour = hour, !.admissions = Admissions]
    /\ admittedNow' = admittedNow + 1

\* A refused insert aborts as a whole.
AdmitRun(r) ==
    /\ runPhase[r] = "absent" /\ CanAdmit
    /\ runPhase' = [runPhase EXCEPT ![r] = "queued"]
    /\ CountAdmission
    /\ UNCHANGED <<terminals, hour, quota, requestVars, calledToday, delivered>>

\* INSERT OR IGNORE would skip a counter that cannot be raised: the trigger then aborts.
AdmitTerminal ==
    /\ CanAdmit
    /\ terminals' = terminals + 1
    /\ CountAdmission
    /\ UNCHANGED <<runPhase, hour, quota, requestVars, calledToday, delivered>>

ReleaseTerminal ==
    /\ terminals > 0 /\ terminals' = terminals - 1
    /\ UNCHANGED <<runPhase, counters, quota, requestVars, clockVars, delivered>>

\* The coordinator moves the Run (modules RunCoordinator and RunExecutionService).
MoveModelRun(r) ==
    /\ \/ runPhase[r] = "queued" /\ runPhase' = [runPhase EXCEPT ![r] = "running"]
       \/ r \in ActiveRuns /\ runPhase' \in {[runPhase EXCEPT ![r] = p] : p \in {"cancelling", "over"}}
    /\ UNCHANGED <<terminals, counters, quota, requestVars, clockVars, delivered>>

NextHour ==
    /\ hour < LastHour /\ hour' = hour + 1 /\ admittedNow' = 0
    /\ calledToday' = IF Day(hour') = Day(hour) THEN calledToday ELSE 0
    /\ UNCHANGED <<runPhase, terminals, counters, quota, requestVars, delivered>>

-----------------------------------------------------------------------------
(* One request                                                             *)

To(q, pc)    == request' = [request EXCEPT ![q].pc = pc]
Respond(q)    == request' = [request EXCEPT ![q] = [NoRequest EXCEPT !.pc = "done"]]
RunOf(q)     == request[q].run
Running(r)   == runPhase[r] = "running"

\* authorize: the capability names the Run, which must be starting or running.  The body
\* is read and checked before the admission.
Authorize(q, r) ==
    /\ request[q].pc = "off" /\ runPhase[r] # "absent"
    /\ request' = [request EXCEPT ![q] =
           IF Running(r) THEN [NoRequest EXCEPT !.pc = "admit", !.run = r]
           ELSE [NoRequest EXCEPT !.pc = "done"]]
    /\ UNCHANGED <<runPhase, terminals, counters, quota, faults, clockVars, delivered>>

ModelCount == IF counters.day = Day(hour) THEN counters.models + 1 ELSE 1

\* Mutant: a second request of a Run is admitted while the first one is upstream.
CanAcquireBesides(r) ==
    /\ Running(r)
    /\ quota[r].count < MaxPerRun /\ quota[r].tokens < TokenBudget
    /\ ModelCount <= MaxPerDay

\* acquire: the UPDATE, and the CHECK of the counter that its trigger raises.
CanAcquire(r) ==
    /\ Running(r) /\ ~quota[r].active
    /\ quota[r].count < MaxPerRun /\ quota[r].tokens < TokenBudget
    /\ ModelCount <= MaxPerDay

Acquire(r) ==
    /\ quota' = [quota EXCEPT ![r].count = @ + 1, ![r].active = TRUE]
    /\ counters' = [counters EXCEPT !.day = Day(hour), !.models = ModelCount]
    /\ calledToday' = calledToday + 1

\* A fault answers 503 and releases nothing, even if the UPDATE was executed.
Admit(q) ==
    /\ request[q].pc = "admit"
    /\ LET r == RunOf(q) IN
       \/ CanAcquire(r) /\ Acquire(r) /\ To(q, "upstream") /\ NoFault
       \/ ~CanAcquire(r) /\ Respond(q) /\ UNCHANGED <<quota, counters, calledToday, faults>>
       \/ /\ Fault /\ Respond(q)
          /\ \/ CanAcquire(r) /\ Acquire(r)
             \/ UNCHANGED <<quota, counters, calledToday>>
    /\ UNCHANGED <<runPhase, terminals, hour, admittedNow, delivered>>

\* createSdkCompletionResponse and readOpenAiUsage: a response with its usage; or a timeout,
\* a rejection, or a body without counters, which is answered 502 or 504.
Upstream(q) ==
    /\ request[q].pc = "upstream"
    /\ \/ \E u \in 1 .. MaxUsage :
             request' = [request EXCEPT ![q].pc = "record", ![q].usage = u]
       \/ To(q, "release")
    /\ UNCHANGED <<runPhase, terminals, counters, quota, faults, clockVars, delivered>>

\* Mutant: usage that cannot be recorded does not keep the response back.
RecordBestEffort(q) ==
    /\ request[q].pc = "record"
    /\ LET r == RunOf(q) IN
         IF r \in ActiveRuns
         THEN quota' = [quota EXCEPT ![r].tokens = @ + request[q].usage]
         ELSE UNCHANGED quota
    /\ request' = [request EXCEPT ![q].pc = "release", ![q].ok = TRUE]
    /\ UNCHANGED <<runPhase, terminals, counters, faults, clockVars, delivered>>

\* onUsage: addUsageDelta only counts for an active Run; else, or on a fault, 500.
RecordUsage(q) ==
    /\ request[q].pc = "record"
    /\ LET r == RunOf(q)
           added == [quota EXCEPT ![r].tokens = @ + request[q].usage]
           counts == r \in ActiveRuns
       IN  \/ /\ counts /\ NoFault /\ quota' = added
              /\ request' = [request EXCEPT ![q].pc = "release", ![q].ok = TRUE]
           \/ ~counts /\ NoFault /\ UNCHANGED quota /\ To(q, "release")
           \/ /\ Fault /\ To(q, "release")
              /\ quota' \in {quota, IF counts THEN added ELSE quota}
    /\ UNCHANGED <<runPhase, terminals, counters, clockVars, delivered>>

\* finally: release, whose fault is swallowed and keeps the Run locked, and then the answer.
ReleaseAdmission(q) ==
    /\ request[q].pc = "release"
    /\ LET r == RunOf(q) IN
         /\ \/ quota' = [quota EXCEPT ![r].active = FALSE] /\ NoFault
            \/ quota' \in {quota, [quota EXCEPT ![r].active = FALSE]} /\ Fault
         /\ delivered' = IF request[q].ok
                         THEN [delivered EXCEPT ![r] = @ + request[q].usage] ELSE delivered
    /\ Respond(q)
    /\ UNCHANGED <<runPhase, terminals, counters, clockVars>>

\* The Worker that serves the request is lost.
LoseGateway(q) ==
    /\ request[q].pc \in {"admit", "upstream", "record", "release"}
    /\ Fault /\ Respond(q)
    /\ UNCHANGED <<runPhase, terminals, counters, quota, clockVars, delivered>>

GatewayNext ==
    \/ \E r \in ModelRuns : AdmitRun(r) \/ MoveModelRun(r)
    \/ AdmitTerminal \/ ReleaseTerminal \/ NextHour
    \/ \E q \in Requests, r \in ModelRuns : Authorize(q, r)
    \/ \E q \in Requests :
          Admit(q) \/ Upstream(q) \/ RecordUsage(q) \/ ReleaseAdmission(q) \/ LoseGateway(q)

GatewaySpec == GatewayInit /\ [][GatewayNext]_gatewayVars

-----------------------------------------------------------------------------
AtGateway(r, pcs) == {q \in Requests : RunOf(q) = r /\ request[q].pc \in pcs}

\* A Run is never upstream twice: neither a fault nor a lost Worker, nor the release by
\* another request, opens its lock while a request may still be spending tokens.  And the
\* user's allowances hold over Runs and Terminals together, at the turn of an hour and of a
\* day, when one row of counters serves every window (migration 0009).
AdmissionHolds ==
    /\ \A r \in ModelRuns : Cardinality(AtGateway(r, {"upstream", "record", "release"})) <= 1
    /\ Cardinality(ActiveRuns) + terminals <= MaxConcurrent
    /\ admittedNow <= MaxPerHour
    /\ calledToday <= MaxPerDay

\* What an agent got is on the account of its Run, although the Run may end meanwhile; and
\* the account passes the budget by one response at most.
UsageIsAccounted ==
    \A r \in ModelRuns : /\ delivered[r] <= quota[r].tokens
                         /\ quota[r].tokens < TokenBudget + MaxUsage
=============================================================================
