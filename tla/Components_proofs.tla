--------------------------- MODULE Components_proofs ---------------------------
(***************************************************************************)
(* The promises of the components that share no state: of the model        *)
(* gateway, uploads, the view of the changes, the preview's content, the   *)
(* event queues of the sessions, the listings and the usage of a user.     *)
(* For each one, an inductive invariant, and what follows from it.         *)
(***************************************************************************)
EXTENDS ModelGateway, ProjectFiles, ProjectChanges, PreviewContent,
        EventQueue, ProjectListing, UserUsage, ListLemmas

-----------------------------------------------------------------------------
(* ModelGateway                                                            *)

GatewayPcs == {"off", "admit", "upstream", "record", "release", "done"}
Locked == {"upstream", "record", "release"}

QuotaTyped == quota \in [ModelRuns -> [count : Nat, active : BOOLEAN, tokens : Nat]]
RequestRecords ==
    [pc : GatewayPcs, run : ModelRuns \cup {"none"}, usage : 0 .. MaxUsage, ok : BOOLEAN]
RequestTyped ==
    /\ request \in [Requests -> RequestRecords]
    /\ \A q \in Requests : request[q].pc \in {"admit"} \cup Locked => RunOf(q) \in ModelRuns
GatewayTyped ==
    /\ runPhase \in [ModelRuns -> {"absent", "queued", "running", "cancelling", "over"}]
    /\ terminals \in Nat /\ hour \in Nat /\ admittedNow \in Nat /\ calledToday \in Nat
    /\ counters \in [hour : Nat, admissions : Nat, day : Nat, models : Nat]
    /\ QuotaTyped /\ RequestTyped
    /\ delivered \in [ModelRuns -> Nat]

\* The admission lock of a Run: who holds it, and that he is alone.
LockHeld ==
    /\ \A q \in Requests : request[q].pc \in Locked => quota[RunOf(q)].active
    /\ \A p, q \in Requests :
          request[p].pc \in Locked /\ request[q].pc \in Locked /\ RunOf(p) = RunOf(q) => p = q

\* The user's places, of which ActiveRuns and the terminals take up one each.
PlacesHold == IsFiniteSet(ActiveRuns) /\ Cardinality(ActiveRuns) + terminals <= MaxConcurrent

\* The row of counters stands for the current hour and day, or for an earlier one.
CountersCurrent ==
    /\ counters.hour <= hour /\ counters.day <= Day(hour)
    /\ admittedNow = IF counters.hour = hour THEN counters.admissions ELSE 0
    /\ calledToday = IF counters.day = Day(hour) THEN counters.models ELSE 0
    /\ admittedNow <= MaxPerHour /\ calledToday <= MaxPerDay

GatewayInv == GatewayTyped /\ LockHeld /\ PlacesHold /\ CountersCurrent

\* A request that may still spend tokens was admitted below the budget; one that has recorded
\* its usage has it on the account, besides what the agent got before.
BudgetHolds ==
    \A q \in Requests :
        /\ request[q].pc \in {"admit", "upstream", "record"} => ~request[q].ok
        /\ request[q].pc \in {"upstream", "record"} =>
             quota[RunOf(q)].tokens < TokenBudget
        /\ request[q].pc = "release" /\ request[q].ok =>
             delivered[RunOf(q)] + request[q].usage <= quota[RunOf(q)].tokens

AccountInv == GatewayInv /\ BudgetHolds /\ UsageIsAccounted
-----------------------------------------------------------------------------
\* Nothing is admitted and nobody is at the gateway.
LEMMA GatewayInitInv == GatewayInit => AccountInv
  <1> SUFFICES ASSUME GatewayInit PROVE AccountInv
    OBVIOUS
  <1> USE GatewayAssumption DEF GatewayInit
  <1>1. GatewayTyped
    BY DEF GatewayTyped, QuotaTyped, RequestTyped, RequestRecords, NoRequest, GatewayPcs, Locked
  <1>2. LockHeld /\ BudgetHolds
    BY DEF LockHeld, BudgetHolds, NoRequest, Locked
  <1>3. PlacesHold
    <2>1. ActiveRuns = {}
      BY DEF ActiveRuns
    <2> QED
      BY <2>1, FS_EmptySet DEF PlacesHold, MaxConcurrent
  <1>4. CountersCurrent
    BY DEF CountersCurrent, Day
  <1>5. UsageIsAccounted
    BY DEF UsageIsAccounted
  <1> QED
    BY <1>1, <1>2, <1>3, <1>4, <1>5 DEF AccountInv, GatewayInv

\* The places depend on the Runs' phases and on the number of Terminals only.
LEMMA PlacesUnchanged ==
    ASSUME PlacesHold, UNCHANGED <<runPhase, terminals>>
    PROVE  PlacesHold'
  <1>1. ActiveRuns' = ActiveRuns
    BY DEF ActiveRuns
  <1> QED
    BY <1>1 DEF PlacesHold

\* The rates depend on the counters and the clock only.
LEMMA CountersUnchanged ==
    ASSUME CountersCurrent, UNCHANGED <<counters, clockVars>>
    PROVE  CountersCurrent'
  BY DEF CountersCurrent, clockVars, Day

\* The account and the lock depend on the requests and the quota only.
LEMMA RequestsUnchanged ==
    ASSUME LockHeld, BudgetHolds, UsageIsAccounted, UNCHANGED <<request, quota, delivered>>
    PROVE  LockHeld' /\ BudgetHolds' /\ UsageIsAccounted'
  BY DEF LockHeld, BudgetHolds, UsageIsAccounted, RunOf

\* One request moves from pc to pc.
LEMMA AdmissionCounts ==
    ASSUME GatewayTyped, CountersCurrent, CanAdmit, CountAdmission,
           UNCHANGED <<hour, calledToday>>
    PROVE  /\ CountersCurrent'
           /\ counters' \in [hour : Nat, admissions : Nat, day : Nat, models : Nat]
           /\ admittedNow' \in Nat
  <1>1. /\ counters' = [counters EXCEPT !.hour = hour, !.admissions = Admissions]
        /\ counters \in [hour : Nat, admissions : Nat, day : Nat, models : Nat]
        /\ hour \in Nat /\ hour' = hour /\ admittedNow \in Nat /\ Admissions <= MaxPerHour
    BY DEF GatewayTyped, CanAdmit, CountAdmission
  <1>2. Admissions \in Nat /\ Admissions = admittedNow + 1
    BY <1>1 DEF Admissions, CountersCurrent
  <1>3. /\ counters' \in [hour : Nat, admissions : Nat, day : Nat, models : Nat]
        /\ counters'.hour = hour /\ counters'.admissions = Admissions
        /\ counters'.day = counters.day /\ counters'.models = counters.models
    BY <1>1, <1>2
  <1> QED
    BY <1>1, <1>2, <1>3 DEF CountersCurrent, CountAdmission, Day

\* admitRun counts the places before it takes one.
LEMMA AdmitRunKeeps ==
    ASSUME AccountInv, NEW r \in ModelRuns, AdmitRun(r)
    PROVE  AccountInv'
  <1> USE DEF AccountInv, GatewayInv
  <1>1. CountersCurrent' /\ admittedNow' \in Nat
        /\ counters' \in [hour : Nat, admissions : Nat, day : Nat, models : Nat]
    BY AdmissionCounts DEF AdmitRun
  <1>2. GatewayTyped'
    BY <1>1 DEF AdmitRun, GatewayTyped, QuotaTyped, RequestTyped, requestVars, RunOf
  <1>3. LockHeld' /\ BudgetHolds' /\ UsageIsAccounted'
    BY RequestsUnchanged DEF AdmitRun, requestVars
  <1>4. PlacesHold'
    <2>1. r \notin ActiveRuns /\ ActiveRuns' = ActiveRuns \cup {r}
      BY DEF AdmitRun, ActiveRuns, GatewayTyped
    <2>2. IsFiniteSet(ActiveRuns') /\ Cardinality(ActiveRuns') = Cardinality(ActiveRuns) + 1
      BY <2>1, FS_AddElement DEF PlacesHold
    <2>3. Cardinality(ActiveRuns) \in Nat
      BY FS_CardinalityType DEF PlacesHold
    <2> QED
      BY <2>2, <2>3 DEF PlacesHold, AdmitRun, CanAdmit, GatewayTyped, MaxConcurrent
  <1> QED
    BY <1>1, <1>2, <1>3, <1>4

\* So does the admission of a Terminal.
LEMMA AdmitTerminalKeeps ==
    ASSUME AccountInv, AdmitTerminal
    PROVE  AccountInv'
  <1> USE DEF AccountInv, GatewayInv
  <1>1. CountersCurrent' /\ admittedNow' \in Nat
        /\ counters' \in [hour : Nat, admissions : Nat, day : Nat, models : Nat]
    BY AdmissionCounts DEF AdmitTerminal
  <1>2. GatewayTyped'
    BY <1>1 DEF AdmitTerminal, GatewayTyped, QuotaTyped, RequestTyped, requestVars, RunOf
  <1>3. LockHeld' /\ BudgetHolds' /\ UsageIsAccounted'
    BY RequestsUnchanged DEF AdmitTerminal, requestVars
  <1>4. PlacesHold'
    <2>1. ActiveRuns' = ActiveRuns
      BY DEF AdmitTerminal, ActiveRuns
    <2>2. Cardinality(ActiveRuns) \in Nat
      BY FS_CardinalityType DEF PlacesHold
    <2> QED
      BY <2>1, <2>2 DEF PlacesHold, AdmitTerminal, CanAdmit, GatewayTyped, MaxConcurrent
  <1> QED
    BY <1>1, <1>2, <1>3, <1>4

\* A Terminal that ends gives its place back.
LEMMA ReleaseTerminalKeeps ==
    ASSUME AccountInv, ReleaseTerminal
    PROVE  AccountInv'
  <1> USE DEF AccountInv, GatewayInv
  <1>1. GatewayTyped'
    BY DEF ReleaseTerminal, GatewayTyped, QuotaTyped, RequestTyped, requestVars, clockVars, RunOf
  <1>2. LockHeld' /\ BudgetHolds' /\ UsageIsAccounted'
    BY RequestsUnchanged DEF ReleaseTerminal, requestVars
  <1>3. CountersCurrent'
    BY CountersUnchanged DEF ReleaseTerminal
  <1>4. PlacesHold'
    <2>1. ActiveRuns' = ActiveRuns
      BY DEF ReleaseTerminal, ActiveRuns
    <2>2. Cardinality(ActiveRuns) \in Nat
      BY FS_CardinalityType DEF PlacesHold
    <2> QED
      BY <2>1, <2>2 DEF PlacesHold, ReleaseTerminal, GatewayTyped, MaxConcurrent
  <1> QED
    BY <1>1, <1>2, <1>3, <1>4

\* A Run that goes on takes no second place.
LEMMA MoveRunKeeps ==
    ASSUME AccountInv, NEW r \in ModelRuns, MoveModelRun(r)
    PROVE  AccountInv'
  <1> USE DEF AccountInv, GatewayInv
  <1>1. GatewayTyped'
    BY DEF MoveModelRun, GatewayTyped, QuotaTyped, RequestTyped, requestVars, clockVars, RunOf
  <1>2. LockHeld' /\ BudgetHolds' /\ UsageIsAccounted'
    BY RequestsUnchanged DEF MoveModelRun, requestVars
  <1>3. CountersCurrent'
    BY CountersUnchanged DEF MoveModelRun
  <1>4. PlacesHold'
    <2>1. ActiveRuns' \subseteq ActiveRuns
      BY DEF MoveModelRun, ActiveRuns, GatewayTyped
    <2>2. /\ IsFiniteSet(ActiveRuns') /\ Cardinality(ActiveRuns') <= Cardinality(ActiveRuns)
          /\ Cardinality(ActiveRuns) \in Nat /\ Cardinality(ActiveRuns') \in Nat
      BY <2>1, FS_Subset, FS_CardinalityType DEF PlacesHold
    <2> QED
      BY <2>2 DEF PlacesHold, MoveModelRun, GatewayTyped, MaxConcurrent
  <1> QED
    BY <1>1, <1>2, <1>3, <1>4

\* A new hour, or a new day, begins with nothing counted.
LEMMA NextHourKeeps ==
    ASSUME AccountInv, NextHour
    PROVE  AccountInv'
  <1> USE DEF AccountInv, GatewayInv
  <1>1. GatewayTyped'
    BY DEF NextHour, GatewayTyped, QuotaTyped, RequestTyped, requestVars, clockVars, RunOf
  <1>2. LockHeld' /\ BudgetHolds' /\ UsageIsAccounted'
    BY RequestsUnchanged DEF NextHour, requestVars
  <1>3. PlacesHold'
    BY PlacesUnchanged DEF NextHour
  <1>4. CountersCurrent'
    <2>1. /\ hour \in Nat /\ counters.hour \in Nat /\ counters.day \in Nat
          /\ calledToday \in Nat /\ hour' = hour + 1 /\ counters' = counters
      BY DEF GatewayTyped, NextHour
    <2>2. Day(hour) <= Day(hour') /\ Day(hour) \in Nat /\ Day(hour') \in Nat
      BY <2>1 DEF Day
    <2>3. CASE Day(hour') = Day(hour)
      BY <2>1, <2>2, <2>3, GatewayAssumption DEF CountersCurrent, NextHour
    <2>4. CASE Day(hour') # Day(hour)
      BY <2>1, <2>2, <2>4, GatewayAssumption DEF CountersCurrent, NextHour
    <2> QED
      BY <2>3, <2>4
  <1> QED
    BY <1>1, <1>2, <1>3, <1>4

-----------------------------------------------------------------------------
\* Only the request q moves; what of the lock and of the account the others rely on stays.
OnlyRequest(q) == \A p \in Requests \ {q} : request'[p] = request[p]

\* A step that admits nobody keeps the locks.
LEMMA LockKept ==
    ASSUME LockHeld, NEW q \in Requests, OnlyRequest(q),
           request'[q].pc \in Locked => request[q].pc \in Locked /\ RunOf(q)' = RunOf(q),
           \A p \in Requests : request'[p].pc \in Locked => quota'[RunOf(p)].active
    PROVE  LockHeld'
  <1>1. \A p \in Requests : request'[p].pc \in Locked =>
          request[p].pc \in Locked /\ RunOf(p)' = RunOf(p)
    BY DEF OnlyRequest, RunOf
  <1>2. \A p \in Requests : request'[p].pc \in Locked => quota'[RunOf(p)'].active
    BY <1>1
  <1> QED
    BY <1>1, <1>2 DEF LockHeld, Locked

\* What a step of a request leaves alone.
LEMMA OthersUnchanged ==
    ASSUME PlacesHold, CountersCurrent, UNCHANGED <<runPhase, terminals, counters, clockVars>>
    PROVE  PlacesHold' /\ CountersCurrent'
  BY PlacesUnchanged, CountersUnchanged

Answered == [NoRequest EXCEPT !.pc = "done"]
Authorized(r) == [NoRequest EXCEPT !.pc = "admit", !.run = r]

\* A request that begins, and one that has been answered.
LEMMA FreshRequests ==
    /\ Answered \in RequestRecords /\ Answered.pc = "done" /\ Answered.ok = FALSE
    /\ \A r \in ModelRuns : /\ Authorized(r) \in RequestRecords /\ Authorized(r).pc = "admit"
                            /\ Authorized(r).run = r /\ Authorized(r).ok = FALSE
  <1>1. NoRequest \in RequestRecords /\ NoRequest.ok = FALSE
    BY GatewayAssumption DEF NoRequest, RequestRecords, GatewayPcs
  <1>2. /\ Answered \in RequestRecords /\ Answered.pc = "done" /\ Answered.ok = FALSE
    BY <1>1 DEF Answered, RequestRecords, GatewayPcs
  <1>3. ASSUME NEW r \in ModelRuns
        PROVE  /\ Authorized(r) \in RequestRecords /\ Authorized(r).pc = "admit"
               /\ Authorized(r).run = r /\ Authorized(r).ok = FALSE
    BY <1>1 DEF Authorized, RequestRecords, GatewayPcs
  <1> QED
    BY <1>2, <1>3

\* What the fields of a request are after it moves.
LEMMA RequestMoves ==
    ASSUME RequestTyped, NEW q \in Requests
    PROVE  /\ Respond(q) =>
                /\ RequestTyped' /\ OnlyRequest(q) /\ request'[q].pc = "done"
           /\ \A pc \in GatewayPcs :
                To(q, pc) /\ (request[q].pc \in {"admit"} \cup Locked) =>
                  /\ RequestTyped' /\ OnlyRequest(q) /\ request'[q].pc = pc
                  /\ RunOf(q)' = RunOf(q) /\ request'[q].usage = request[q].usage
                  /\ request'[q].ok = request[q].ok
  <1>1. ASSUME Respond(q)
        PROVE  RequestTyped' /\ OnlyRequest(q) /\ request'[q].pc = "done"
    <2>1. request' = [request EXCEPT ![q] = Answered]
      BY <1>1 DEF Respond, Answered
    <2> QED
      BY <2>1, FreshRequests DEF RequestTyped, OnlyRequest, GatewayPcs, Locked, RunOf
  <1>2. ASSUME NEW pc \in GatewayPcs, To(q, pc), request[q].pc \in {"admit"} \cup Locked
        PROVE  /\ RequestTyped' /\ OnlyRequest(q) /\ request'[q].pc = pc
               /\ RunOf(q)' = RunOf(q) /\ request'[q].usage = request[q].usage
               /\ request'[q].ok = request[q].ok
    BY <1>2 DEF To, RequestTyped, RequestRecords, OnlyRequest, RunOf, GatewayPcs, Locked
  <1> QED
    BY <1>1, <1>2

\* A request that is only authorized holds no lock.
LEMMA AuthorizeKeeps ==
    ASSUME AccountInv, NEW q \in Requests, NEW r \in ModelRuns, Authorize(q, r)
    PROVE  AccountInv'
  <1> USE DEF AccountInv, GatewayInv
  <1>1. /\ RequestTyped' /\ OnlyRequest(q)
        /\ request'[q].pc \in {"admit", "done"} /\ ~request'[q].ok
    <2>1. \/ request' = [request EXCEPT ![q] = Authorized(r)]
          \/ request' = [request EXCEPT ![q] = Answered]
      BY DEF Authorize, Authorized, Answered
    <2> QED
      BY <2>1, FreshRequests
         DEF GatewayTyped, RequestTyped, OnlyRequest, GatewayPcs, Locked, RunOf
  <1>2. GatewayTyped'
    BY <1>1 DEF Authorize, GatewayTyped, QuotaTyped, clockVars
  <1>3. \A p \in Requests : request'[p].pc \in Locked => request'[p] = request[p]
    BY <1>1 DEF OnlyRequest, Locked
  <1>4. LockHeld'
    <2>1. \A p \in Requests : request'[p].pc \in Locked => quota'[RunOf(p)].active
      BY <1>3 DEF LockHeld, Authorize
    <2> QED
      BY <1>1, <2>1, LockKept DEF Locked
  <1>5. BudgetHolds' /\ UsageIsAccounted'
    <2>1. \A p \in Requests : request'[p] = request[p] \/ p = q
      BY <1>1 DEF OnlyRequest
    <2> QED
      BY <1>1, <2>1 DEF BudgetHolds, UsageIsAccounted, Authorize, RunOf
  <1> QED
    BY <1>2, <1>4, <1>5, OthersUnchanged DEF Authorize

\* What is left of a request that answers, whatever became of its Run's quota.
LEMMA RespondKeeps ==
    ASSUME AccountInv, NEW q \in Requests, Respond(q), QuotaTyped',
           UNCHANGED delivered,
           \A r \in ModelRuns :
             /\ quota'[r].tokens = quota[r].tokens
             /\ quota[r].active => quota'[r].active
    PROVE  RequestTyped' /\ LockHeld' /\ BudgetHolds' /\ UsageIsAccounted'
  <1>0. RequestTyped /\ LockHeld /\ BudgetHolds /\ UsageIsAccounted
    BY DEF AccountInv, GatewayInv, GatewayTyped
  <1>1. RequestTyped' /\ OnlyRequest(q) /\ request'[q].pc = "done"
    BY <1>0, RequestMoves
  <1>2. \A p \in Requests : request'[p].pc \in Locked =>
          request'[p] = request[p] /\ RunOf(p) \in ModelRuns
    BY <1>0, <1>1 DEF OnlyRequest, Locked, RequestTyped
  <1>3. LockHeld'
    <2>1. \A p \in Requests : request'[p].pc \in Locked => quota'[RunOf(p)].active
      BY <1>0, <1>2 DEF LockHeld
    <2> QED
      BY <1>0, <1>1, <2>1, LockKept DEF Locked
  <1>4. BudgetHolds'
    <2>1. \A p \in Requests :
            /\ request'[p] = request[p] \/ request'[p].pc = "done"
            /\ request[p].pc \in Locked => RunOf(p) \in ModelRuns
      BY <1>0, <1>1 DEF OnlyRequest, RequestTyped
    <2> QED
      BY <1>0, <2>1 DEF BudgetHolds, RunOf, Locked
  <1>5. UsageIsAccounted'
    BY <1>0 DEF UsageIsAccounted
  <1> QED
    BY <1>1, <1>3, <1>4, <1>5

\* A Worker that is lost takes its request along; the lock stays with the Run.
LEMMA LoseGatewayKeeps ==
    ASSUME AccountInv, NEW q \in Requests, LoseGateway(q)
    PROVE  AccountInv'
  <1>1. RequestTyped' /\ LockHeld' /\ BudgetHolds' /\ UsageIsAccounted'
    BY RespondKeeps DEF LoseGateway, AccountInv, GatewayInv, GatewayTyped, QuotaTyped
  <1>2. GatewayTyped'
    BY <1>1 DEF LoseGateway, AccountInv, GatewayInv, GatewayTyped, QuotaTyped, clockVars
  <1> QED
    BY <1>1, <1>2, OthersUnchanged DEF AccountInv, GatewayInv, LoseGateway

\* The provider answers.
LEMMA UpstreamKeeps ==
    ASSUME AccountInv, NEW q \in Requests, Upstream(q)
    PROVE  AccountInv'
  <1>0. GatewayTyped /\ RequestTyped /\ LockHeld /\ BudgetHolds /\ UsageIsAccounted
    BY DEF AccountInv, GatewayInv, GatewayTyped
  <1>1. /\ RequestTyped' /\ OnlyRequest(q) /\ request'[q].run = request[q].run
        /\ request'[q].pc \in {"record", "release"} /\ ~request'[q].ok
    <2>1. request[q].pc = "upstream" /\ request[q].ok = FALSE
      BY <1>0 DEF Upstream, BudgetHolds, RequestTyped, RequestRecords
    <2>2. CASE To(q, "release")
      BY <1>0, <2>1, <2>2, RequestMoves DEF GatewayPcs, Locked, RunOf
    <2>3. ASSUME NEW u \in 1 .. MaxUsage,
                 request' = [request EXCEPT ![q].pc = "record", ![q].usage = u]
          PROVE  /\ RequestTyped' /\ OnlyRequest(q) /\ request'[q].run = request[q].run
                 /\ request'[q].pc = "record" /\ request'[q].ok = FALSE
      <3>1. request[q] \in RequestRecords /\ u \in 0 .. MaxUsage
        BY <1>0, GatewayAssumption DEF RequestTyped
      <3>2. request'[q] \in RequestRecords /\ OnlyRequest(q)
            /\ request'[q].pc = "record" /\ request'[q].run = request[q].run
            /\ request'[q].ok = request[q].ok
        BY <1>0, <2>3, <3>1 DEF RequestTyped, RequestRecords, OnlyRequest, GatewayPcs
      <3>3. request' \in [Requests -> RequestRecords]
        BY <1>0, <2>3, <3>2 DEF RequestTyped, OnlyRequest
      <3>4. RunOf(q)' \in ModelRuns
        BY <1>0, <2>1, <3>2 DEF RequestTyped, RunOf, Locked
      <3> QED
        BY <1>0, <2>1, <3>2, <3>3, <3>4 DEF RequestTyped, OnlyRequest, RunOf
    <2> QED
      BY <2>2, <2>3 DEF Upstream
  <1>2. GatewayTyped'
    BY <1>0, <1>1 DEF Upstream, GatewayTyped, QuotaTyped, clockVars
  <1>3. request[q].pc \in Locked /\ RunOf(q)' = RunOf(q)
    BY <1>1 DEF Upstream, Locked, RunOf
  <1>4. \A p \in Requests : request'[p] = request[p] \/ p = q
    BY <1>1 DEF OnlyRequest
  <1>5. LockHeld'
    <2>1. \A p \in Requests : request'[p].pc \in Locked => quota'[RunOf(p)].active
      BY <1>0, <1>3, <1>4 DEF LockHeld, Upstream, RunOf
    <2> QED
      BY <1>0, <1>1, <1>3, <2>1, LockKept
  <1>6. BudgetHolds' /\ UsageIsAccounted'
    BY <1>0, <1>1, <1>4 DEF Upstream, BudgetHolds, UsageIsAccounted, RunOf
  <1> QED
    BY <1>2, <1>5, <1>6, OthersUnchanged DEF AccountInv, GatewayInv, Upstream

\* An admission is counted once, for the hour and the day of the call.
LEMMA AcquireCounts ==
    ASSUME GatewayTyped, CountersCurrent, NEW r \in ModelRuns, CanAcquire(r), Acquire(r),
           UNCHANGED <<hour, admittedNow>>
    PROVE  /\ CountersCurrent'
           /\ counters' \in [hour : Nat, admissions : Nat, day : Nat, models : Nat]
           /\ calledToday' \in Nat
  <1>1. /\ counters' = [counters EXCEPT !.day = Day(hour), !.models = ModelCount]
        /\ counters \in [hour : Nat, admissions : Nat, day : Nat, models : Nat]
        /\ hour \in Nat /\ hour' = hour /\ calledToday \in Nat /\ ModelCount <= MaxPerDay
    BY DEF GatewayTyped, CanAcquire, Acquire
  <1>2. ModelCount \in Nat /\ ModelCount = calledToday + 1 /\ Day(hour) \in Nat
    BY <1>1 DEF ModelCount, CountersCurrent, Day
  <1>3. /\ counters' \in [hour : Nat, admissions : Nat, day : Nat, models : Nat]
        /\ counters'.day = Day(hour) /\ counters'.models = ModelCount
        /\ counters'.hour = counters.hour /\ counters'.admissions = counters.admissions
    BY <1>1, <1>2
  <1>4. Day(hour)' = Day(hour)
    BY <1>1 DEF Day
  <1> QED
    BY <1>1, <1>2, <1>3, <1>4 DEF CountersCurrent, Acquire

\* The lock is given to one request only.
LEMMA AcquireLocks ==
    ASSUME QuotaTyped, NEW r \in ModelRuns, Acquire(r)
    PROVE  /\ QuotaTyped' /\ quota'[r].active
           /\ \A s \in ModelRuns :
                quota'[s].tokens = quota[s].tokens /\ (quota[s].active => quota'[s].active)
  <1>1. quota[r] \in [count : Nat, active : BOOLEAN, tokens : Nat]
    BY DEF QuotaTyped
  <1>2. /\ quota'[r] \in [count : Nat, active : BOOLEAN, tokens : Nat]
        /\ quota'[r].active = TRUE /\ quota'[r].tokens = quota[r].tokens
        /\ \A s \in ModelRuns \ {r} : quota'[s] = quota[s]
    <2> DEFINE counted == [quota EXCEPT ![r].count = @ + 1]
    <2>1. /\ counted \in [ModelRuns -> [count : Nat, active : BOOLEAN, tokens : Nat]]
          /\ counted[r] \in [count : Nat, active : BOOLEAN, tokens : Nat]
          /\ counted[r].tokens = quota[r].tokens
          /\ \A s \in ModelRuns \ {r} : counted[s] = quota[s]
      BY <1>1 DEF QuotaTyped
    <2>2. quota' = [counted EXCEPT ![r].active = TRUE]
      BY <1>1 DEF QuotaTyped, Acquire
    <2> HIDE DEF counted
    <2> QED
      BY <2>1, <2>2
  <1>3. QuotaTyped'
    BY <1>2 DEF QuotaTyped, Acquire
  <1> QED
    BY <1>2, <1>3

\* acquire: it checks the lock, the budget and the rates, and takes all of them.
LEMMA AdmitKeeps ==
    ASSUME AccountInv, NEW q \in Requests, Admit(q)
    PROVE  AccountInv'
  <1> DEFINE r == RunOf(q)
  <1>0. /\ GatewayTyped /\ RequestTyped /\ QuotaTyped /\ LockHeld /\ BudgetHolds
        /\ UsageIsAccounted /\ PlacesHold /\ CountersCurrent
    BY DEF AccountInv, GatewayInv, GatewayTyped
  <1>1. r \in ModelRuns /\ request[q].pc = "admit" /\ ~request[q].ok
    BY <1>0 DEF Admit, RequestTyped, BudgetHolds
  <1>2. /\ \/ CanAcquire(r) /\ Acquire(r)
           \/ UNCHANGED <<quota, counters, calledToday>>
        /\ \/ CanAcquire(r) /\ Acquire(r) /\ To(q, "upstream")
           \/ Respond(q)
        /\ UNCHANGED <<runPhase, terminals, hour, admittedNow, delivered>>
    BY DEF Admit
  <1> HIDE DEF r
  <1>3. /\ CountersCurrent' /\ calledToday' \in Nat
        /\ counters' \in [hour : Nat, admissions : Nat, day : Nat, models : Nat]
    <2>1. CASE CanAcquire(r) /\ Acquire(r)
      BY <1>0, <1>1, <1>2, <2>1, AcquireCounts
    <2>2. CASE UNCHANGED <<quota, counters, calledToday>>
      BY <1>0, <1>2, <2>2, CountersUnchanged DEF clockVars, GatewayTyped
    <2> QED
      BY <1>2, <2>1, <2>2
  <1>4. /\ QuotaTyped'
        /\ \A s \in ModelRuns :
             quota'[s].tokens = quota[s].tokens /\ (quota[s].active => quota'[s].active)
    BY <1>0, <1>1, <1>2, AcquireLocks DEF QuotaTyped
  <1>5. RequestTyped' /\ LockHeld' /\ BudgetHolds' /\ UsageIsAccounted'
    <2>1. CASE Respond(q)
      BY <1>2, <1>4, <2>1, RespondKeeps
    <2>2. CASE CanAcquire(r) /\ Acquire(r) /\ To(q, "upstream")
      <3>1. /\ RequestTyped' /\ OnlyRequest(q) /\ request'[q].pc = "upstream"
            /\ RunOf(q)' = r /\ ~request'[q].ok
        BY <1>0, <1>1, <2>2, RequestMoves DEF GatewayPcs, r
      <3>2. quota'[r].active /\ ~quota[r].active /\ quota[r].tokens < TokenBudget
        BY <1>0, <1>1, <2>2, AcquireLocks DEF CanAcquire
      <3>3. \A p \in Requests : request'[p] = request[p] \/ p = q
        BY <3>1 DEF OnlyRequest
      <3>4. \A p \in Requests : p # q /\ request[p].pc \in Locked =>
              RunOf(p) \in ModelRuns /\ RunOf(p) # r
        BY <1>0, <3>2 DEF LockHeld, RequestTyped
      <3>5. LockHeld'
        <4>1. \A p \in Requests : request'[p].pc \in Locked => quota'[RunOf(p)'].active
          BY <1>0, <1>4, <3>1, <3>2, <3>3, <3>4 DEF LockHeld, RunOf
        <4>2. ASSUME NEW p \in Requests, NEW o \in Requests, request'[p].pc \in Locked,
                     request'[o].pc \in Locked, RunOf(p)' = RunOf(o)'
              PROVE  p = o
          <5>1. CASE p # q /\ o # q
            BY <1>0, <3>3, <4>2, <5>1 DEF LockHeld, RunOf
          <5>2. CASE p = q \/ o = q
            BY <3>1, <3>3, <3>4, <4>2, <5>2 DEF RunOf
          <5> QED
            BY <5>1, <5>2
        <4> QED
          BY <4>1, <4>2 DEF LockHeld, Locked
      <3>6. BudgetHolds'
        <4>1. \A p \in Requests : request[p].pc \in Locked => RunOf(p) \in ModelRuns
          BY <1>0 DEF RequestTyped
        <4> QED
          BY <1>0, <1>1, <1>2, <1>4, <3>1, <3>2, <3>3, <4>1 DEF BudgetHolds, RunOf, Locked
      <3>7. UsageIsAccounted'
        BY <1>0, <1>2, <1>4 DEF UsageIsAccounted
      <3> QED
        BY <3>1, <3>5, <3>6, <3>7
    <2> QED
      BY <1>2, <2>1, <2>2
  <1>6. GatewayTyped'
    BY <1>0, <1>2, <1>3, <1>4, <1>5 DEF GatewayTyped
  <1> QED
    BY <1>0, <1>2, <1>3, <1>5, <1>6, PlacesUnchanged DEF AccountInv, GatewayInv

\* The usage is on the account before the agent gets the response.
LEMMA RecordUsageKeeps ==
    ASSUME AccountInv, NEW q \in Requests, RecordUsage(q)
    PROVE  AccountInv'
  <1> DEFINE r == RunOf(q)
             added == [quota EXCEPT ![r].tokens = @ + request[q].usage]
  <1>0. /\ GatewayTyped /\ RequestTyped /\ QuotaTyped /\ LockHeld /\ BudgetHolds
        /\ UsageIsAccounted /\ PlacesHold /\ CountersCurrent
        /\ delivered \in [ModelRuns -> Nat]
    BY DEF AccountInv, GatewayInv, GatewayTyped
  <1>1. /\ r \in ModelRuns /\ request[q].pc = "record" /\ ~request[q].ok
        /\ request[q].usage \in 0 .. MaxUsage
        /\ quota[r].tokens < TokenBudget
    BY <1>0 DEF RecordUsage, RequestTyped, RequestRecords, BudgetHolds, Locked
  <1>2. /\ quota' \in {quota, added}
        /\ \/ /\ quota' = added
              /\ request' = [request EXCEPT ![q].pc = "release", ![q].ok = TRUE]
           \/ To(q, "release")
        /\ UNCHANGED <<runPhase, terminals, counters, clockVars, delivered>>
    BY DEF RecordUsage
  <1>3. /\ QuotaTyped'
        /\ \A s \in ModelRuns \ {r} : quota'[s] = quota[s]
        /\ quota'[r].active = quota[r].active
        /\ quota' = added => quota'[r].tokens = quota[r].tokens + request[q].usage
        /\ quota'[r].tokens \in {quota[r].tokens, quota[r].tokens + request[q].usage}
    BY <1>0, <1>1, <1>2 DEF QuotaTyped
  <1>4. /\ RequestTyped' /\ OnlyRequest(q) /\ request'[q].pc = "release" /\ RunOf(q)' = r
        /\ request'[q].usage = request[q].usage
        /\ request'[q].ok => quota' = added
    <2>1. CASE To(q, "release")
      BY <1>0, <1>1, <2>1, RequestMoves DEF GatewayPcs, Locked
    <2>2. CASE quota' = added /\ request' = [request EXCEPT ![q].pc = "release", ![q].ok = TRUE]
      BY <1>0, <1>1, <2>2 DEF RequestTyped, RequestRecords, OnlyRequest, RunOf, GatewayPcs
    <2> QED
      BY <1>2, <2>1, <2>2
  <1> HIDE DEF r, added
  <1>5. \A p \in Requests : request'[p] = request[p] \/ p = q
    BY <1>4 DEF OnlyRequest
  <1>6. \A p \in Requests : p # q /\ request[p].pc \in Locked =>
          RunOf(p) \in ModelRuns /\ RunOf(p) # r
    BY <1>0, <1>1 DEF LockHeld, RequestTyped, Locked, r
  <1>7. LockHeld'
    <2>1. \A p \in Requests : request'[p].pc \in Locked => quota'[RunOf(p)].active
      BY <1>0, <1>1, <1>3, <1>5, <1>6 DEF LockHeld, Locked, r
    <2> QED
      BY <1>0, <1>1, <1>4, <2>1, LockKept DEF Locked, r
  <1>8. UsageIsAccounted'
    BY <1>0, <1>1, <1>2, <1>3, GatewayAssumption DEF UsageIsAccounted, QuotaTyped
  <1>9. BudgetHolds'
    <2>1. ASSUME NEW p \in Requests, p # q
          PROVE  /\ request'[p].pc \in {"admit", "upstream", "record"} => ~request'[p].ok
                 /\ request'[p].pc \in {"upstream", "record"} =>
                      quota'[RunOf(p)'].tokens < TokenBudget
                 /\ request'[p].pc = "release" /\ request'[p].ok =>
                      delivered'[RunOf(p)'] + request'[p].usage <= quota'[RunOf(p)'].tokens
      BY <1>0, <1>2, <1>3, <1>5, <1>6, <2>1 DEF BudgetHolds, RunOf, Locked
    <2>2. request'[q].ok => delivered'[r] + request'[q].usage <= quota'[r].tokens
      BY <1>0, <1>1, <1>2, <1>3, <1>4 DEF UsageIsAccounted, QuotaTyped
    <2> QED
      BY <1>4, <2>1, <2>2 DEF BudgetHolds
  <1>10. GatewayTyped'
    BY <1>0, <1>2, <1>3, <1>4 DEF GatewayTyped, clockVars
  <1> QED
    BY <1>0, <1>2, <1>7, <1>8, <1>9, <1>10, OthersUnchanged DEF AccountInv, GatewayInv

\* The lock is given back, and the response delivered.
LEMMA ReleaseAdmissionKeeps ==
    ASSUME AccountInv, NEW q \in Requests, ReleaseAdmission(q)
    PROVE  AccountInv'
  <1> DEFINE r == RunOf(q)
             freed == [quota EXCEPT ![r].active = FALSE]
  <1>0. /\ GatewayTyped /\ RequestTyped /\ QuotaTyped /\ LockHeld /\ BudgetHolds
        /\ UsageIsAccounted /\ PlacesHold /\ CountersCurrent
        /\ delivered \in [ModelRuns -> Nat]
    BY DEF AccountInv, GatewayInv, GatewayTyped
  <1>1. /\ r \in ModelRuns /\ request[q].pc = "release" /\ request[q].usage \in Nat
        /\ request[q].ok => delivered[r] + request[q].usage <= quota[r].tokens
    BY <1>0, GatewayAssumption
       DEF ReleaseAdmission, RequestTyped, RequestRecords, BudgetHolds, Locked
  <1>2. /\ quota' \in {quota, freed} /\ Respond(q)
        /\ delivered' = IF request[q].ok
                        THEN [delivered EXCEPT ![r] = @ + request[q].usage] ELSE delivered
        /\ UNCHANGED <<runPhase, terminals, counters, clockVars>>
    BY DEF ReleaseAdmission
  <1>3. /\ QuotaTyped'
        /\ \A s \in ModelRuns \ {r} : quota'[s] = quota[s]
        /\ \A s \in ModelRuns : quota'[s].tokens = quota[s].tokens
    <2>1. CASE quota' = quota
      BY <1>0, <2>1 DEF QuotaTyped
    <2>2. CASE quota' = freed
      <3>1. quota[r] \in [count : Nat, active : BOOLEAN, tokens : Nat]
        BY <1>0, <1>1 DEF QuotaTyped
      <3>2. /\ quota'[r] \in [count : Nat, active : BOOLEAN, tokens : Nat]
            /\ quota'[r].tokens = quota[r].tokens
            /\ \A s \in ModelRuns \ {r} : quota'[s] = quota[s]
        BY <1>0, <1>1, <2>2, <3>1 DEF QuotaTyped
      <3> QED
        BY <1>0, <2>2, <3>2 DEF QuotaTyped
    <2> QED
      BY <1>2, <2>1, <2>2
  <1>4. /\ RequestTyped' /\ OnlyRequest(q) /\ request'[q].pc = "done"
    BY <1>0, <1>2, RequestMoves
  <1>5. /\ delivered' \in [ModelRuns -> Nat]
        /\ \A s \in ModelRuns \ {r} : delivered'[s] = delivered[s]
        /\ delivered'[r] <= quota[r].tokens
    BY <1>0, <1>1, <1>2 DEF UsageIsAccounted
  <1> HIDE DEF r, freed
  <1>6. \A p \in Requests : request'[p] = request[p] \/ p = q
    BY <1>4 DEF OnlyRequest
  <1>7. \A p \in Requests : p # q /\ request[p].pc \in Locked =>
          RunOf(p) \in ModelRuns /\ RunOf(p) # r
    BY <1>0, <1>1 DEF LockHeld, RequestTyped, Locked, r
  <1>8. LockHeld'
    <2>1. \A p \in Requests : request'[p].pc \in Locked => quota'[RunOf(p)].active
      BY <1>0, <1>3, <1>4, <1>6, <1>7 DEF LockHeld, Locked
    <2> QED
      BY <1>0, <1>4, <2>1, LockKept DEF Locked
  <1>9. UsageIsAccounted'
    BY <1>0, <1>3, <1>5 DEF UsageIsAccounted
  <1>10. BudgetHolds'
    <2>1. ASSUME NEW p \in Requests, p # q
          PROVE  /\ request'[p].pc \in {"admit", "upstream", "record"} => ~request'[p].ok
                 /\ request'[p].pc \in {"upstream", "record"} =>
                      quota'[RunOf(p)'].tokens < TokenBudget
                 /\ request'[p].pc = "release" /\ request'[p].ok =>
                      delivered'[RunOf(p)'] + request'[p].usage <= quota'[RunOf(p)'].tokens
      BY <1>0, <1>3, <1>5, <1>6, <1>7, <2>1 DEF BudgetHolds, RunOf, Locked
    <2> QED
      BY <1>4, <2>1 DEF BudgetHolds
  <1>11. GatewayTyped'
    BY <1>0, <1>2, <1>3, <1>4, <1>5 DEF GatewayTyped, clockVars
  <1> QED
    BY <1>0, <1>2, <1>8, <1>9, <1>10, <1>11, OthersUnchanged DEF AccountInv, GatewayInv

\* The invariant holds in every state.
LEMMA InductiveGateway == GatewaySpec => []AccountInv
  <1>1. AccountInv /\ [GatewayNext]_gatewayVars => AccountInv'
    <2> SUFFICES ASSUME AccountInv, [GatewayNext]_gatewayVars PROVE AccountInv'
      OBVIOUS
    <2>1. CASE GatewayNext
      BY <2>1, AdmitRunKeeps, MoveRunKeeps, AdmitTerminalKeeps, ReleaseTerminalKeeps,
         NextHourKeeps, AuthorizeKeeps, AdmitKeeps, UpstreamKeeps, RecordUsageKeeps,
         ReleaseAdmissionKeeps, LoseGatewayKeeps
         DEF GatewayNext
    <2>2. CASE UNCHANGED gatewayVars
      <3>1. UNCHANGED <<runPhase, terminals, counters, hour, quota, request, admittedNow,
                        calledToday, delivered>>
        BY <2>2 DEF gatewayVars
      <3>2. GatewayTyped'
        BY <3>1 DEF AccountInv, GatewayInv, GatewayTyped, QuotaTyped, RequestTyped, RunOf
      <3> QED
        BY <3>1, <3>2, OthersUnchanged, RequestsUnchanged DEF AccountInv, GatewayInv, clockVars
    <2> QED
      BY <2>1, <2>2
  <1> QED
    BY <1>1, GatewayInitInv, PTL DEF GatewaySpec

\* The lock of a Run, the places of its user and his rates hold, for any set of Runs and
\* requests and any limits: at most one request of a Run is upstream or recording, at most
\* MaxConcurrent Runs and Terminals are active together, no hour and no day is passed.
THEOREM AdmissionCorrect == GatewaySpec => []AdmissionHolds
  <1>1. AccountInv => AdmissionHolds
    <2> SUFFICES ASSUME AccountInv PROVE AdmissionHolds
      OBVIOUS
    <2>1. ASSUME NEW r \in ModelRuns
          PROVE  Cardinality(AtGateway(r, {"upstream", "record", "release"})) <= 1
      <3> DEFINE S == AtGateway(r, {"upstream", "record", "release"})
      <3>1. \A p, q \in S : p = q
        BY DEF AtGateway, AccountInv, GatewayInv, LockHeld, Locked
      <3>2. CASE S = {}
        BY <3>2, FS_EmptySet
      <3>3. ASSUME NEW q \in S PROVE Cardinality(S) <= 1
        <4>1. S = {q}
          BY <3>1, <3>3
        <4> QED
          BY <4>1, FS_Singleton
      <3> QED
        BY <3>2, <3>3
    <2> QED
      BY <2>1 DEF AdmissionHolds, AccountInv, GatewayInv, PlacesHold, CountersCurrent
  <1> QED
    BY <1>1, InductiveGateway, PTL

\* No response reaches an agent off the account of its Run, and no account passes the budget
\* by more than one response, although Runs end and Workers are lost at any step.
THEOREM UsageCorrect == GatewaySpec => []UsageIsAccounted
  <1>1. AccountInv => UsageIsAccounted
    BY DEF AccountInv
  <1> QED
    BY <1>1, InductiveGateway, PTL

-----------------------------------------------------------------------------
(* ProjectFiles                                                            *)

UploadStages == {"new", "admitted", "sending", "waiting", "ok", "project_busy", "path_conflict",
                 "path_not_found", "provider_error"}
FileRecords == [by : Uploads \cup {"nobody", "agent"}, size : Nat]

FilesTyped ==
    /\ turn \in {"before", "during"}
    /\ file \in FileRecords
    /\ upload \in [Uploads -> UploadStages]
    /\ sent \in [Uploads -> Nat]
    /\ python \in [Uploads -> {"none", "reading", "writing", "0", "44", "46", "137"}]
    /\ wrote \in [Uploads -> Nat]
    /\ reader \in [stage : {"new", "inspected", "ok", "project_busy", "path_not_found",
                            "file_too_large"}, size : Nat]

\* How far the process of an upload has come.  It is the only one that the name refers to, until
\* a Run begins, for a process that does not find the name free ends.
UploadInOrder(u) ==
    /\ upload[u] \in {"new", "admitted"} => python[u] = "none"
    /\ python[u] \in {"none", "reading"} => wrote[u] = 0
    /\ python[u] = "0" => wrote[u] = BodySize
    /\ upload[u] = "ok" => python[u] = "0"
    /\ python[u] \in {"writing", "0"} /\ turn = "before" =>
         file.by = u /\ file.size = wrote[u]

FilesInv ==
    /\ FilesTyped
    /\ \A u \in Uploads : UploadInOrder(u)
    /\ reader.stage = "ok" => reader.size <= MaxFileSize

\* No upload has begun.
LEMMA FilesInitInv == FilesInit => FilesInv
  BY FilesAssumption
     DEF FilesInit, FilesInv, FilesTyped, UploadInOrder, Absent, UploadStages, FileRecords

\* A step of the process of u, or of the upload u, leaves the others alone.
LEMMA OneUploadMoves ==
    ASSUME FilesInv, NEW u \in Uploads, FilesTyped', UNCHANGED <<turn, reader>>,
           \A v \in Uploads \ {u} :
             upload'[v] = upload[v] /\ python'[v] = python[v] /\ wrote'[v] = wrote[v],
           file' = file \/ file = Absent \/ file.by = u,
           UploadInOrder(u)'
    PROVE  FilesInv'
  <1>1. ASSUME NEW v \in Uploads \ {u} PROVE UploadInOrder(v)'
    <2>1. file.by = v => file' = file
      BY <1>1, FilesAssumption DEF Absent
    <2> QED
      BY <1>1, <2>1 DEF FilesInv, UploadInOrder
  <1> QED
    BY <1>1 DEF FilesInv

\* Only the exit code 0 is answered with success.
LEMMA AnswerIsOk ==
    ASSUME NEW code, AnswerFor(code) = "ok"
    PROVE  code = "0"
  BY DEF AnswerFor

\* The answers to an exit code.
LEMMA AnswerTyped ==
    ASSUME NEW code
    PROVE  AnswerFor(code) \in {"ok", "path_conflict", "path_not_found", "provider_error"}
  BY DEF AnswerFor

\* Every step of the uploads, of the reader and of the agent keeps the invariant.
LEMMA FilesNextInv == FilesInv /\ [FilesNext]_filesVars => FilesInv'
  <1> SUFFICES ASSUME FilesInv, [FilesNext]_filesVars PROVE FilesInv'
    OBVIOUS
  <1>0. FilesTyped
    BY DEF FilesInv
  <1>1. CASE RunTakesTurn
    BY <1>1 DEF RunTakesTurn, FilesInv, FilesTyped, UploadInOrder
  <1>2. CASE AgentChangesFile
    BY <1>2, FilesAssumption
       DEF AgentChangesFile, FilesInv, FilesTyped, UploadInOrder, Absent, FileRecords
  <1>3. ASSUME NEW u \in Uploads, CreateTarget(u) PROVE FilesInv'
    <2>1. FilesTyped'
      BY <1>0, <1>3 DEF CreateTarget, FilesTyped, FileRecords
    <2>2. UploadInOrder(u)'
      BY <1>0, <1>3 DEF CreateTarget, FilesInv, FilesTyped, UploadInOrder
    <2> QED
      BY <1>0, <1>3, <2>1, <2>2, OneUploadMoves DEF CreateTarget, FilesTyped
  <1>4. ASSUME NEW u \in Uploads, WriteTarget(u) PROVE FilesInv'
    <2>1. FilesTyped'
      BY <1>0, <1>4 DEF WriteTarget, FilesTyped, FileRecords
    <2>2. UploadInOrder(u)'
      BY <1>0, <1>4 DEF WriteTarget, FilesInv, FilesTyped, FileRecords, UploadInOrder
    <2> QED
      BY <1>0, <1>4, <2>1, <2>2, OneUploadMoves DEF WriteTarget, FilesTyped
  <1>5. ASSUME NEW u \in Uploads, PythonDies(u) PROVE FilesInv'
    <2>1. FilesTyped'
      BY <1>0, <1>5 DEF PythonDies, FilesTyped
    <2>2. UploadInOrder(u)'
      BY <1>0, <1>5 DEF PythonDies, FilesInv, FilesTyped, UploadInOrder, Interpreting
    <2> QED
      BY <1>0, <1>5, <2>1, <2>2, OneUploadMoves DEF PythonDies, FilesTyped
  <1>6. ASSUME NEW u \in Uploads, Access(u) PROVE FilesInv'
    <2>1. FilesTyped'
      BY <1>0, <1>6 DEF Access, FilesTyped, UploadStages
    <2>2. UploadInOrder(u)'
      BY <1>0, <1>6 DEF Access, FilesInv, FilesTyped, UploadInOrder
    <2> QED
      BY <1>0, <1>6, <2>1, <2>2, OneUploadMoves DEF Access, FilesTyped
  <1>7. ASSUME NEW u \in Uploads, StartPython(u) PROVE FilesInv'
    <2>1. FilesTyped'
      BY <1>0, <1>7 DEF StartPython, FilesTyped, UploadStages
    <2>2. UploadInOrder(u)'
      BY <1>0, <1>7 DEF StartPython, FilesInv, FilesTyped, UploadInOrder
    <2> QED
      BY <1>0, <1>7, <2>1, <2>2, OneUploadMoves DEF StartPython, FilesTyped
  <1>8. ASSUME NEW u \in Uploads, SendStdin(u) PROVE FilesInv'
    <2>1. FilesTyped'
      BY <1>0, <1>8 DEF SendStdin, FilesTyped, UploadStages
    <2>2. UploadInOrder(u)'
      BY <1>0, <1>8 DEF SendStdin, FilesInv, FilesTyped, UploadInOrder
    <2> QED
      BY <1>0, <1>8, <2>1, <2>2, OneUploadMoves DEF SendStdin, FilesTyped
  <1>9. ASSUME NEW u \in Uploads, FinishUpload(u) PROVE FilesInv'
    <2>0. /\ AnswerFor(python[u]) \in {"ok", "path_conflict", "path_not_found", "provider_error"}
          /\ AnswerFor(python[u]) = "ok" => python[u] = "0"
      BY AnswerTyped, AnswerIsOk
    <2>1. FilesTyped'
      BY <1>0, <1>9, <2>0 DEF FinishUpload, FilesTyped, UploadStages
    <2>2. UploadInOrder(u)'
      BY <1>0, <1>9, <2>0 DEF FinishUpload, FilesInv, FilesTyped, UploadInOrder
    <2> QED
      BY <1>0, <1>9, <2>1, <2>2, OneUploadMoves DEF FinishUpload, FilesTyped
  <1>10. ASSUME NEW u \in Uploads, FailUpload(u) PROVE FilesInv'
    <2>1. FilesTyped'
      BY <1>0, <1>10 DEF FailUpload, FilesTyped, UploadStages
    <2>2. UploadInOrder(u)'
      BY <1>0, <1>10 DEF FailUpload, FilesInv, FilesTyped, UploadInOrder, Interpreting
    <2> QED
      BY <1>0, <1>10, <2>1, <2>2, OneUploadMoves DEF FailUpload, FilesTyped
  <1>11. CASE InspectFile
    BY <1>0, <1>11 DEF InspectFile, FilesInv, FilesTyped, UploadInOrder
  <1>12. CASE ReadFile
    <2>1. FilesTyped' /\ (reader'.stage = "ok" => reader'.size <= MaxFileSize)
      BY <1>0, <1>12, FilesAssumption DEF ReadFile, FilesTyped, FileRecords
    <2> QED
      BY <1>12, <2>1 DEF ReadFile, FilesInv, UploadInOrder
  <1>13. CASE UNCHANGED filesVars
    BY <1>13 DEF filesVars, FilesInv, FilesTyped, UploadInOrder
  <1> QED
    BY <1>1, <1>2, <1>3, <1>4, <1>5, <1>6, <1>7, <1>8, <1>9, <1>10, <1>11, <1>12, <1>13
       DEF FilesNext

\* An upload answered "ok" is whole, and until a Run begins it is what its name refers to; a
\* read is never answered with more than the limit: for any uploads and sizes.
THEOREM UploadsCorrect == FilesSpec => []UploadsAreWhole
  <1>1. FilesInv => UploadsAreWhole
    BY DEF FilesInv, FilesTyped, FileRecords, UploadInOrder, UploadsAreWhole
  <1> QED
    BY <1>1, FilesInitInv, FilesNextInv, PTL DEF FilesSpec

-----------------------------------------------------------------------------
(* ProjectChanges                                                          *)

ChangeKinds == {"staged", "unstaged", "untracked"}
AskStages == {"new", "access", "config", "status", "staged", "unstaged", "ok", "project_busy",
              "sandbox_unavailable", "provider_error", "path_not_found"}
AskSections == [size : Nat, truncated : BOOLEAN, shown : BOOLEAN]
AskRecords == [at : AskStages, of : {"none", "list", "read"}, change : SUBSET ChangeKinds,
               staged : AskSections, unstaged : AskSections]

\* What the answer will show, from the commands that have answered so far.
StagedShown ==
    /\ ask.staged.shown <=> "staged" \in ask.change
    /\ ask.staged.shown => \E r \in met : ask.staged = Bounded(r.staged)

ComparedTo(r) ==
    IF "untracked" \in ask.change
    THEN r.tracked \/ ask.unstaged = Bounded(r.unstaged)
    ELSE ask.unstaged = Bounded(IF r.tracked THEN r.unstaged ELSE 0)

UnstagedShown ==
    /\ ask.unstaged.shown <=> ask.change # {"staged"}
    /\ ask.unstaged.shown => \E r \in met : ComparedTo(r)

BeforeDiffs == {"new", "access", "config", "status"}

AskInOrder ==
    /\ ask.at \in {"new", "access", "status"} => ask.change = {}
    /\ ask.at # "new" => ask.of \in {"list", "read"}
    /\ ask.at \in {"staged", "unstaged"} => ask.change # {} /\ ask.of = "read"
    /\ ask.at = "config" /\ ask.change # {} => ask.of = "read"
    /\ ask.at \in BeforeDiffs \cup {"staged"} => ~ask.staged.shown
    /\ ask.at \in BeforeDiffs \cup {"staged", "unstaged"} => ~ask.unstaged.shown
    /\ ask.change # {} \/ ask.at = "ok" => \E r \in met : ask.change = Kinds(r)
    /\ ask.at = "unstaged" => StagedShown
    /\ ask.at = "ok" /\ ask.of = "read" => ask.change # {} /\ StagedShown /\ UnstagedShown

ChangesInv ==
    /\ repository \in Repositories /\ met \subseteq Repositories /\ ask \in AskRecords
    /\ IF ask.at = "new" THEN met = {} ELSE repository \in met
    /\ AskInOrder

\* Nobody has asked for the changes.
LEMMA ChangesInitInv == ChangesInit => ChangesInv
  BY DEF ChangesInit, ChangesInv, Repositories, AskRecords, AskStages, AskSections, NoSection,
         AskInOrder, BeforeDiffs

\* What the invariant says of an answer.
LEMMA ChangesShown == ChangesInv => ChangesAreCurrent
  <1> SUFFICES ASSUME ChangesInv, ask.at = "ok" PROVE ChangesAreCurrent
    BY DEF ChangesAreCurrent
  <1>1. \E r \in met : ask.change = Kinds(r)
    BY DEF ChangesInv, AskInOrder
  <1>2. ask.of = "read" => ask.change # {} /\ StagedShown /\ UnstagedShown
    BY DEF ChangesInv, AskInOrder
  <1>3. ASSUME NEW r \in met, met = {r}
        PROVE  /\ ask.change = Kinds(r)
               /\ ask.of = "read" =>
                    /\ IF r.staged > 0 THEN ask.staged = Bounded(r.staged) ELSE ~ask.staged.shown
                    /\ IF r.unstaged > 0 THEN ask.unstaged = Bounded(r.unstaged)
                                         ELSE ~ask.unstaged.shown
    <2>1. ask.change = Kinds(r)
      BY <1>1, <1>3
    <2>2. /\ r.staged \in Nat /\ r.unstaged \in Nat /\ r.tracked \in BOOLEAN /\ r.git \in BOOLEAN
          /\ ~r.tracked /\ r.git => r.staged = 0 /\ r.unstaged > 0
          /\ ~r.git => r.staged = 0 /\ r.unstaged = 0 /\ ~r.tracked
      <3>1. r \in Repositories
        BY <1>3 DEF ChangesInv
      <3>2. CASE r = NoRepository
        BY <3>2 DEF NoRepository
      <3>3. CASE r # NoRepository
        <4>1. CASE r \in [git : {TRUE}, tracked : {TRUE}, staged : DiffSizes,
                           unstaged : DiffSizes]
          <5>1. /\ r.git = TRUE /\ r.tracked = TRUE
                /\ r.staged \in DiffSizes /\ r.unstaged \in DiffSizes
            BY <4>1
          <5>2. r.staged \in Nat /\ r.unstaged \in Nat
            BY <5>1, ChangesAssumption DEF DiffSizes
          <5> QED
            BY <5>1, <5>2
        <4>2. CASE r \in [git : {TRUE}, tracked : {FALSE}, staged : {0},
                           unstaged : DiffSizes \ {0}]
          <5>1. r.git = TRUE /\ r.tracked = FALSE /\ r.staged = 0 /\ r.unstaged \in DiffSizes \ {0}
            BY <4>2
          <5>2. r.staged \in Nat /\ r.unstaged \in Nat /\ r.unstaged > 0
            BY <5>1, ChangesAssumption DEF DiffSizes
          <5> QED
            BY <5>1, <5>2
        <4> QED
          BY <3>1, <3>3, <4>1, <4>2 DEF Repositories
      <3> QED
        BY <3>2, <3>3
    <2>3. /\ "staged" \in Kinds(r) <=> r.staged > 0
          /\ "unstaged" \in Kinds(r) <=> r.tracked /\ r.unstaged > 0
          /\ "untracked" \in Kinds(r) <=> ~r.tracked /\ r.git
          /\ Kinds(r) \subseteq ChangeKinds
      BY DEF Kinds, ChangeKinds
    <2>4. ASSUME ask.of = "read"
          PROVE  /\ IF r.staged > 0 THEN ask.staged = Bounded(r.staged) ELSE ~ask.staged.shown
                 /\ IF r.unstaged > 0 THEN ask.unstaged = Bounded(r.unstaged)
                                      ELSE ~ask.unstaged.shown
      <3>1. IF r.staged > 0 THEN ask.staged = Bounded(r.staged) ELSE ~ask.staged.shown
        BY <1>2, <1>3, <2>1, <2>3, <2>4 DEF StagedShown
      <3>2. r.unstaged > 0 <=> ask.change # {"staged"}
        BY <1>2, <2>1, <2>2, <2>3, <2>4 DEF ChangeKinds
      <3>3. CASE r.unstaged > 0
        <4>1. ComparedTo(r)
          BY <1>2, <1>3, <2>4, <3>2, <3>3 DEF UnstagedShown
        <4> QED
          BY <2>1, <2>2, <2>3, <3>1, <3>3, <4>1 DEF ComparedTo
      <3>4. CASE ~(r.unstaged > 0)
        BY <1>2, <2>4, <3>1, <3>2, <3>4 DEF UnstagedShown
      <3> QED
        BY <3>1, <3>3, <3>4
    <2> QED
      BY <2>1, <2>4
  <1> QED
    BY <1>1, <1>2, <1>3
       DEF ChangesAreCurrent, StagedShown, UnstagedShown, ComparedTo

\* The repository may be changed at any moment: what was met stays met.
LEMMA MetGrows ==
    ASSUME ChangesInv, ask' = ask, met \subseteq met', met' \subseteq Repositories,
           repository' \in Repositories,
           IF ask.at = "new" THEN met' = {} ELSE repository' \in met'
    PROVE  ChangesInv'
  <1>1. /\ StagedShown => StagedShown'
        /\ UnstagedShown => UnstagedShown'
    BY DEF StagedShown, UnstagedShown, ComparedTo
  <1>2. AskInOrder'
    <2>1. (\E r \in met : ask.change = Kinds(r)) => (\E r \in met' : ask'.change = Kinds(r))
      OBVIOUS
    <2> QED
      BY <1>1, <2>1 DEF ChangesInv, AskInOrder, Kinds
  <1> QED
    BY <1>2 DEF ChangesInv

\* A request that has begun goes to a stage that shows no diff.
LEMMA AskGoes ==
    ASSUME ChangesInv, ask.at # "new", NEW at, Goes(at),
           \/ at \in {"project_busy", "sandbox_unavailable", "provider_error", "path_not_found"}
           \/ at = "config" /\ ask.at = "access"
           \/ at = "status" /\ ask.at = "config" /\ ask.change = {}
           \/ at = "staged" /\ ask.at = "config" /\ ask.change # {}
           \/ at = "ok" /\ ask.of # "read" /\ Kinds(repository) = {} /\ ask.change = {}
           \/ at = "unstaged" /\ ask.at = "staged" /\ "staged" \notin ask.change
           \/ at = "ok" /\ ask.at = "unstaged" /\ ask.change = {"staged"}
    PROVE  ChangesInv'
  <1>1. /\ UNCHANGED <<repository, met>>
        /\ ask' \in AskRecords /\ ask'.at = at /\ ask'.of = ask.of /\ ask'.change = ask.change
        /\ ask'.staged = ask.staged /\ ask'.unstaged = ask.unstaged
    BY DEF Goes, worldVars, ChangesInv, AskRecords, AskStages
  <1>2. /\ StagedShown <=> StagedShown'
        /\ UnstagedShown <=> UnstagedShown'
    BY <1>1 DEF StagedShown, UnstagedShown, ComparedTo
  <1>3. repository \in met
    BY DEF ChangesInv
  <1>4. \A r : Kinds(r)' = Kinds(r)
    BY DEF Kinds
  <1>5. AskInOrder'
    <2>1. at = "unstaged" /\ "staged" \notin ask.change => StagedShown'
      BY <1>1 DEF ChangesInv, AskInOrder, StagedShown
    <2>2. ask.at = "unstaged" /\ ask.change = {"staged"} => StagedShown' /\ UnstagedShown'
      BY <1>1, <1>2 DEF ChangesInv, AskInOrder, UnstagedShown
    <2>3. ask.change # {} \/ at = "ok" => \E r \in met : ask.change = Kinds(r)
      BY <1>3 DEF ChangesInv, AskInOrder
    <2>4. ask'.change # {} \/ at = "ok" => \E r \in met' : ask'.change = Kinds(r)'
      BY <1>1, <2>3, <1>4
    <2>5. AskInOrder /\ ask.at # "new"
      BY DEF ChangesInv
    <2> QED
      BY <1>1, <2>1, <2>2, <2>4, <2>5 DEF AskInOrder, BeforeDiffs
  <1> QED
    BY <1>1, <1>3, <1>5 DEF ChangesInv

\* The request begins, with the repository of this moment.
LEMMA CheckOccupiedKeeps ==
    ASSUME ChangesInv, CheckOccupied
    PROVE  ChangesInv'
  <1>1. PICK of \in {"list", "read"} :
          ask' = [ask EXCEPT !.of = of, !.at = IF occupied THEN "project_busy" ELSE "access"]
    BY DEF CheckOccupied
  <1>2. /\ ask' \in AskRecords /\ ask'.at \in {"project_busy", "access"}
        /\ ask'.change = ask.change /\ ask'.staged = ask.staged /\ ask'.unstaged = ask.unstaged
    BY <1>1 DEF ChangesInv, AskRecords, AskStages
  <1>3. ask.change = {} /\ ~ask.staged.shown /\ ~ask.unstaged.shown
    BY DEF ChangesInv, AskInOrder, BeforeDiffs, CheckOccupied
  <1>4. repository' = repository /\ met' = {repository}
    BY DEF CheckOccupied, worldVars
  <1> QED
    BY <1>1, <1>2, <1>3, <1>4 DEF ChangesInv, AskInOrder, BeforeDiffs

\* What a Lease is answered with.
LEMMA LeaseAnswers ==
    (CASE lease = "none" -> "sandbox_unavailable"
       [] lease = "held" -> "project_busy"
       [] OTHER          -> "config") \in {"sandbox_unavailable", "project_busy", "config"}
  OBVIOUS

\* The status decides which diffs are asked for.
LEMMA ReadStatusKeeps ==
    ASSUME ChangesInv, ReadChangeStatus
    PROVE  ChangesInv'
  <1> DEFINE next == CASE ask.of = "list"          -> "ok"
                       [] Kinds(repository) = {}   -> "path_not_found"
                       [] OTHER                    -> "config"
  <1>1. /\ next \in {"ok", "path_not_found", "config"}
        /\ next = "ok" => ask.of = "list"
        /\ next = "config" => Kinds(repository) # {} /\ ask.of # "list"
    OBVIOUS
  <1>2. ask' = [ask EXCEPT !.change = Kinds(repository), !.at = next]
    BY DEF ReadChangeStatus
  <1>3. Kinds(repository) \in SUBSET ChangeKinds
    BY DEF Kinds, ChangeKinds
  <1> HIDE DEF next
  <1>4. /\ ask' \in AskRecords /\ ask'.at = next /\ ask'.change = Kinds(repository)
        /\ ask'.of = ask.of /\ ask'.staged = ask.staged /\ ask'.unstaged = ask.unstaged
    BY <1>1, <1>2, <1>3 DEF ChangesInv, AskRecords, AskStages
  <1>5. /\ repository \in met /\ ~ask.staged.shown /\ ~ask.unstaged.shown
        /\ ask.of \in {"list", "read"}
    BY DEF ChangesInv, AskInOrder, ReadChangeStatus, BeforeDiffs
  <1>6. UNCHANGED <<repository, met>>
    BY DEF ReadChangeStatus, worldVars
  <1>7. Kinds(repository)' = Kinds(repository)
    BY <1>6 DEF Kinds
  <1> QED
    BY <1>1, <1>4, <1>5, <1>6, <1>7 DEF ChangesInv, AskInOrder, BeforeDiffs

\* A command that prints a section, after another one or in place of it.
LEMMA SectionKeeps ==
    ASSUME ChangesInv, NEW section \in {"staged", "unstaged"}, NEW size, NEW untracked,
           NEW next, Section(section, size, untracked, next), size \in Nat,
           \/ /\ ask.at = "staged" /\ section = "staged" /\ next = "unstaged"
              /\ "staged" \in ask.change /\ size = repository.staged
           \/ /\ ask.at = "unstaged" /\ section = "unstaged" /\ next = "ok"
              /\ ask.change # {"staged"}
              /\ IF "untracked" \in ask.change
                 THEN repository.tracked \/ size = repository.unstaged
                 ELSE size = IF repository.tracked THEN repository.unstaged ELSE 0
    PROVE  ChangesInv'
  <1>1. AskInOrder /\ ask.at # "new" /\ repository \in met /\ ask \in AskRecords
    BY DEF ChangesInv
  <1>2. CASE Goes("provider_error")
    BY <1>1, <1>2, AskGoes
  <1>3. CASE /\ ask' = [ask EXCEPT !.at = next, ![section] = Bounded(size)]
             /\ UNCHANGED <<worldVars, met>>
    <2>1. UNCHANGED <<repository, met>>
      BY <1>3 DEF worldVars
    <2>2. Bounded(size) \in AskSections /\ Bounded(size).shown = TRUE
      BY ChangesAssumption DEF Bounded, AskSections
    <2>3. CASE section = "staged"
      <3>1. ask' = [ask EXCEPT !.at = "unstaged", !.staged = Bounded(size)]
        BY <1>3, <2>3
      <3>2. /\ ask' \in AskRecords /\ ask'.at = "unstaged" /\ ask'.staged = Bounded(size)
            /\ ask'.of = ask.of /\ ask'.change = ask.change /\ ask'.unstaged = ask.unstaged
        BY <1>1, <2>2, <3>1 DEF AskRecords, AskStages
      <3>3. StagedShown'
        <4>1. ask'.staged = Bounded(repository.staged)
          BY <2>3, <3>2
        <4>2. ask'.staged = Bounded(repository.staged)'
          BY <2>1, <4>1 DEF Bounded
        <4> QED
          BY <1>1, <2>1, <2>2, <2>3, <3>2, <4>2 DEF StagedShown
      <3>4. \E r \in met' : ask'.change = Kinds(r)'
        BY <1>1, <2>1, <2>3, <3>2 DEF AskInOrder, Kinds
      <3> QED
        BY <1>1, <2>1, <2>3, <3>2, <3>3, <3>4 DEF ChangesInv, AskInOrder, BeforeDiffs
    <2>4. CASE section = "unstaged"
      <3>1. ask' = [ask EXCEPT !.at = "ok", !.unstaged = Bounded(size)]
        BY <1>3, <2>4
      <3>2. /\ ask' \in AskRecords /\ ask'.at = "ok" /\ ask'.unstaged = Bounded(size)
            /\ ask'.of = ask.of /\ ask'.change = ask.change /\ ask'.staged = ask.staged
        BY <1>1, <2>2, <3>1 DEF AskRecords, AskStages
      <3>3. StagedShown'
        BY <1>1, <2>1, <2>4, <3>2 DEF AskInOrder, StagedShown
      <3>4. UnstagedShown'
        <4>1. ComparedTo(repository)'
          BY <2>1, <2>4, <3>2 DEF ComparedTo, Bounded
        <4> QED
          BY <1>1, <2>1, <2>2, <2>4, <3>2, <4>1 DEF UnstagedShown
      <3>5. \E r \in met' : ask'.change = Kinds(r)'
        BY <1>1, <2>1, <2>4, <3>2 DEF AskInOrder, Kinds
      <3> QED
        BY <1>1, <2>1, <2>4, <3>2, <3>3, <3>4, <3>5 DEF ChangesInv, AskInOrder, BeforeDiffs
    <2> QED
      BY <2>3, <2>4
  <1> QED
    BY <1>2, <1>3 DEF Section

\* The sizes of what Git prints.
LEMMA RepositorySizes ==
    ASSUME NEW r \in Repositories
    PROVE  r.staged \in DiffSizes /\ r.unstaged \in DiffSizes
  <1>1. 0 \in DiffSizes
    BY ChangesAssumption DEF DiffSizes
  <1>2. CASE r = NoRepository
    BY <1>1, <1>2 DEF NoRepository
  <1>3. CASE r # NoRepository
    BY <1>1, <1>3 DEF Repositories
  <1> QED
    BY <1>2, <1>3

\* The two commands that the second diff may come from.
LEMMA ReadUnstagedCases ==
    ASSUME ReadUnstaged
    PROVE  \/ ask.change = {"staged"} /\ Goes("ok")
           \/ /\ ask.change # {"staged"} /\ "untracked" \in ask.change
              /\ \E size \in UntrackedDiffs : Section("unstaged", size, TRUE, "ok")
           \/ /\ ask.change # {"staged"} /\ "untracked" \notin ask.change
              /\ Section("unstaged", TrackedDiff(FALSE), FALSE, "ok")
  BY DEF ReadUnstaged

\* Every step of a request and of the world around it keeps the invariant.
LEMMA ChangesNextInv == ChangesInv /\ [ChangesNext]_changesVars => ChangesInv'
  <1> SUFFICES ASSUME ChangesInv, [ChangesNext]_changesVars PROVE ChangesInv'
    OBVIOUS
  <1>0. /\ repository \in Repositories /\ repository.staged \in DiffSizes
        /\ repository.unstaged \in DiffSizes /\ DiffSizes \subseteq Nat /\ 0 \in DiffSizes
    BY RepositorySizes, ChangesAssumption DEF ChangesInv, DiffSizes
  <1>1. CASE OccupyProject \/ HoldLease \/ VacateProject \/ StopSandbox \/ UNCHANGED changesVars
    BY <1>1, MetGrows
       DEF OccupyProject, HoldLease, VacateProject, StopSandbox, changesVars, ChangesInv
  <1>2. CASE EditRepository
    <2>1. /\ ask' = ask /\ repository' \in Repositories
          /\ met' = IF met = {} THEN met ELSE met \cup {repository'}
      BY <1>2 DEF EditRepository
    <2> QED
      BY <2>1, MetGrows DEF ChangesInv
  <1>3. CASE CheckOccupied
    BY <1>3, CheckOccupiedKeeps
  <1>4. CASE CheckLease
    BY <1>4, LeaseAnswers, AskGoes DEF CheckLease
  <1>5. CASE CommandFails
    BY <1>5, AskGoes DEF CommandFails, InCommand, ToFailure
  <1>6. CASE NotRepository
    <2>1. Kinds(repository) = {}
      <3>1. ~repository.git
        BY <1>6 DEF NotRepository
      <3>2. repository = NoRepository
        BY <1>0, <3>1 DEF Repositories
      <3>3. repository.staged = 0 /\ repository.tracked = FALSE /\ repository.git = FALSE
        BY <3>2 DEF NoRepository
      <3> QED
        BY <3>3 DEF Kinds
    <2>2. ask.of = "list" => ask.change = {}
      BY <1>6 DEF NotRepository, InCommand, ChangesInv, AskInOrder, BeforeDiffs
    <2> QED
      BY <1>6, <2>1, <2>2, AskGoes DEF NotRepository, InCommand
  <1>7. CASE CheckConfiguration
    BY <1>7, AskGoes DEF CheckConfiguration
  <1>8. CASE ReadChangeStatus
    BY <1>8, ReadStatusKeeps
  <1>9. CASE ReadStaged
    BY <1>0, <1>9, AskGoes, SectionKeeps DEF ReadStaged, TrackedDiff
  <1>10. CASE ReadUnstaged
    <2>1. CASE ask.change = {"staged"} /\ Goes("ok")
      BY <1>10, <2>1, AskGoes DEF ReadUnstaged
    <2>2. ASSUME NEW size \in UntrackedDiffs, Section("unstaged", size, TRUE, "ok"),
                 ask.change # {"staged"}, "untracked" \in ask.change
          PROVE  ChangesInv'
      <3>1. size \in Nat /\ (repository.tracked \/ size = repository.unstaged)
        BY <1>0, <2>2 DEF UntrackedDiffs
      <3> QED
        BY <1>10, <2>2, <3>1, SectionKeeps DEF ReadUnstaged
    <2>3. CASE /\ ask.change # {"staged"} /\ "untracked" \notin ask.change
               /\ Section("unstaged", TrackedDiff(FALSE), FALSE, "ok")
      <3>1. TrackedDiff(FALSE) = IF repository.tracked THEN repository.unstaged ELSE 0
        BY DEF TrackedDiff
      <3> QED
        BY <1>0, <1>10, <2>3, <3>1, SectionKeeps DEF ReadUnstaged
    <2> QED
      BY <1>10, <2>1, <2>2, <2>3, ReadUnstagedCases
  <1> QED
    BY <1>1, <1>2, <1>3, <1>4, <1>5, <1>6, <1>7, <1>8, <1>9, <1>10 DEF ChangesNext

\* A change is answered with just the sections it was listed with, each as the repository was
\* at some moment of the request, and exactly when nothing changed: whatever the limit, and
\* however often the repository changes.
THEOREM ChangesCorrect == ChangesSpec => []ChangesAreCurrent
  BY ChangesInitInv, ChangesNextInv, ChangesShown, PTL DEF ChangesSpec

-----------------------------------------------------------------------------
(* PreviewContent                                                          *)

ContentRows == [id : 0 .. MaxSessions, status : {"none", "starting", "running"},
                created : Nat, expires : Nat]
ContentUrls == [session : 0 .. MaxSessions, iat : Int, exp : Int]
Vites == [state : {"none", "starting", "listening", "exited"}, base : ContentUrls]

\* The stages of a start() whose capability could be issued, and those that follow a probe.
OnTheWay == {"attach", "write_config", "write_config_retry", "write_config_command",
             "command_start", "wait_ready", "probe", "disconnect", "mark_running", "kill"}
Probed == {"disconnect", "mark_running"}

ContentTyped ==
    /\ clock \in Nat /\ shown \in ContentRows /\ vites \in [Sessions -> Vites]
    /\ stage \in {"idle", "failed"} \cup OnTheWay

\* n is the newest session.
NewestIs(n) ==
    n \in 0 .. MaxSessions /\ \A p \in Sessions : vites[p].base # NoUrl <=> p <= n

BasesInOrder ==
    \A p \in Sessions : vites[p].base # NoUrl =>
        vites[p].base.session = p /\ vites[p].base.iat <= Second(clock)

Good(p)      == CanIssue(vites[p].base)
HasPort(p)   == vites[p].state \in {"listening", "exited"}

RowInOrder ==
    /\ shown.status # "none" <=> shown.id # 0
    /\ shown.id # 0 => vites[shown.id].base = Claims(shown.id, shown.created, shown.expires)
    /\ shown.status = "running" => stage = "idle" /\ Good(shown.id) /\ HasPort(shown.id)

StartInOrder(n) ==
    /\ stage \in OnTheWay => n # 0 /\ Good(n)
    /\ stage \in Probed => HasPort(n)

UrlsInOrder == \A u \in urls : u.session \in Sessions /\ u = vites[u.session].base /\ CanIssue(u)

ContentInvOf(n) ==
    ContentTyped /\ NewestIs(n) /\ BasesInOrder /\ RowInOrder /\ StartInOrder(n) /\ UrlsInOrder

ContentInv == \E n \in 0 .. MaxSessions : ContentInvOf(n)

\* The name of the newest Vite is defined by the sessions that were begun.
LEMMA OwnerIs ==
    ASSUME NEW n, NewestIs(n)
    PROVE  Owner = n
  <1> DEFINE P(p) == /\ p = 0 \/ vites[p].base # NoUrl
                     /\ \A s \in Sessions : vites[s].base # NoUrl => s <= p
  <1>1. n \in 0 .. MaxSessions /\ P(n)
    BY ContentAssumption DEF NewestIs, Sessions
  <1>2. \A p \in 0 .. MaxSessions : P(p) => p = n
    <2> SUFFICES ASSUME NEW p \in 0 .. MaxSessions, P(p) PROVE p = n
      OBVIOUS
    <2>1. p <= n
      BY ContentAssumption DEF NewestIs, Sessions
    <2>2. n <= p
      BY ContentAssumption DEF NewestIs, Sessions
    <2> QED
      BY <2>1, <2>2, ContentAssumption DEF NewestIs
  <1>3. Owner = CHOOSE p \in 0 .. MaxSessions : P(p)
    BY DEF Owner
  <1> HIDE DEF P
  <1> QED
    BY <1>1, <1>2, <1>3

\* Time in whole seconds does not run backwards.
LEMMA SecondsPass ==
    ASSUME NEW s \in Int, NEW t \in Int, s <= t
    PROVE  Second(s) <= Second(t) /\ Second(s) \in Int /\ Second(t) \in Int
  BY DEF Second

\* No session has begun.
LEMMA ContentInitInv == ContentInit => ContentInv
  <1> SUFFICES ASSUME ContentInit PROVE ContentInvOf(0) /\ 0 \in 0 .. MaxSessions
    BY DEF ContentInv
  <1>1. ContentTyped
    BY ContentAssumption
       DEF ContentInit, ContentTyped, ContentRows, NoRow, Vites, ContentUrls, NoUrl
  <1>2. NewestIs(0) /\ BasesInOrder
    BY ContentAssumption DEF ContentInit, NewestIs, BasesInOrder, Sessions
  <1>3. RowInOrder /\ StartInOrder(0) /\ UrlsInOrder
    BY DEF ContentInit, RowInOrder, NoRow, StartInOrder, OnTheWay, Probed, UrlsInOrder
  <1> QED
    BY <1>1, <1>2, <1>3, ContentAssumption DEF ContentInvOf

\* A step that leaves the newest session and every base alone.
BasesKept == \A p \in Sessions : vites'[p].base = vites[p].base

\* What a step keeps that starts no Vite.
LEMMA BasesKeptInv ==
    ASSUME NEW n \in 0 .. MaxSessions, ContentInvOf(n), BasesKept, clock' \in Nat,
           clock <= clock'
    PROVE  NewestIs(n)' /\ BasesInOrder' /\ (Good(n) /\ n # 0 => Good(n)')
  <1>1. Second(clock) <= Second(clock') /\ Second(clock) \in Int /\ Second(clock') \in Int
    BY SecondsPass DEF ContentInvOf, ContentTyped
  <1>2. NewestIs(n)'
    BY DEF ContentInvOf, NewestIs, BasesKept
  <1>3. BasesInOrder'
    BY <1>1 DEF ContentInvOf, BasesInOrder, BasesKept, ContentTyped, Vites, ContentUrls
  <1>4. n # 0 => n \in Sessions
    BY ContentAssumption DEF Sessions
  <1> QED
    BY <1>2, <1>3, <1>4 DEF Good, BasesKept

\* A Vite that exits keeps its base and what is said of its port.
LEMMA ExitKeeps ==
    ASSUME NEW p \in Sessions, vites \in [Sessions -> Vites], vites' = Exited(p)
    PROVE  /\ vites' \in [Sessions -> Vites] /\ BasesKept
           /\ \A q \in Sessions : HasPort(q) => HasPort(q)'
  BY DEF Exited, Vites, BasesKept, HasPort

\* A step in which processes may take the port or exit, and nothing starts.
LEMMA QuietKeeps ==
    ASSUME NEW n \in 0 .. MaxSessions, ContentInvOf(n), ContentTyped', BasesKept, clock <= clock',
           \A p \in Sessions : HasPort(p) => HasPort(p)',
           UNCHANGED <<stage, shown>> \/ (shown' = NoRow /\ UNCHANGED stage),
           urls' \subseteq urls
    PROVE  ContentInv'
  <1>1. NewestIs(n)' /\ BasesInOrder' /\ (Good(n) /\ n # 0 => Good(n)')
    BY BasesKeptInv DEF ContentTyped
  <1>2. n # 0 => n \in Sessions
    BY ContentAssumption DEF Sessions
  <1>3. StartInOrder(n)'
    BY <1>1, <1>2 DEF ContentInvOf, StartInOrder, OnTheWay, Probed
  <1>4. UrlsInOrder'
    BY DEF ContentInvOf, UrlsInOrder, BasesKept, CanIssue
  <1>5. RowInOrder'
    <2>1. CASE shown' = NoRow
      BY <2>1 DEF RowInOrder, NoRow
    <2>2. CASE UNCHANGED <<stage, shown>>
      <3>1. shown.id # 0 => shown.id \in Sessions
        BY ContentAssumption DEF ContentInvOf, ContentTyped, ContentRows, Sessions
      <3> QED
        BY <2>2, <3>1 DEF ContentInvOf, RowInOrder, BasesKept, Good, CanIssue, Claims
    <2> QED
      BY <2>1, <2>2
  <1> QED
    BY <1>1, <1>3, <1>4, <1>5 DEF ContentInv, ContentInvOf

\* A step of start(): no row is running meanwhile, since a running row is given a start() its end.
StageKeeps ==
    /\ stage # "idle" /\ UNCHANGED <<clock, shown, urls>> /\ BasesKept
    /\ vites' \in [Sessions -> Vites]
    /\ stage' \in {"failed"} \cup OnTheWay

\* Such a step of start() keeps the invariant.
LEMMA StageKeepsInv ==
    ASSUME NEW n \in 0 .. MaxSessions, ContentInvOf(n), StageKeeps,
           stage' \in OnTheWay => stage \in OnTheWay,
           stage' \in Probed => HasPort(n)'
    PROVE  ContentInv'
  <1>0. clock \in Nat /\ clock' = clock
    BY DEF ContentInvOf, ContentTyped, StageKeeps
  <1>1. NewestIs(n)' /\ BasesInOrder' /\ (Good(n) /\ n # 0 => Good(n)')
    BY <1>0, BasesKeptInv DEF StageKeeps
  <1>2. ContentTyped'
    BY DEF ContentInvOf, ContentTyped, StageKeeps
  <1>3. StartInOrder(n)'
    BY <1>1 DEF ContentInvOf, StartInOrder
  <1>4. UrlsInOrder'
    BY DEF ContentInvOf, UrlsInOrder, BasesKept, CanIssue, StageKeeps
  <1>5. RowInOrder'
    <2>1. shown.id # 0 => shown.id \in Sessions
      BY ContentAssumption DEF ContentInvOf, ContentTyped, ContentRows, Sessions
    <2> QED
      BY <2>1 DEF ContentInvOf, RowInOrder, StageKeeps, BasesKept, Claims
  <1> QED
    BY <1>1, <1>2, <1>3, <1>4, <1>5 DEF ContentInv, ContentInvOf

\* A new session begins with its own base.
LEMMA StartContentKeeps ==
    ASSUME NEW n \in 0 .. MaxSessions, ContentInvOf(n), StartContent
    PROVE  ContentInv'
  <1>1. PICK id \in Sessions :
          /\ \A p \in Sessions : p < id <=> vites[p].base # NoUrl
          /\ shown' = [id |-> id, status |-> "starting", created |-> clock,
                       expires |-> clock + Duration]
          /\ LET url == Claims(id, clock, clock + Duration) IN
               /\ vites' = [vites EXCEPT ![id].base = url]
               /\ stage' = IF CanIssue(url) THEN "attach" ELSE "failed"
    BY DEF StartContent
  <1> DEFINE url == Claims(id, clock, clock + Duration)
  <1>2. /\ clock \in Nat /\ clock' = clock /\ urls' = urls /\ id \in Nat /\ id # 0
        /\ vites \in [Sessions -> Vites]
    BY ContentAssumption DEF ContentInvOf, ContentTyped, StartContent, Sessions
  <1>3. /\ url \in ContentUrls /\ url # NoUrl /\ url.session = id /\ url.iat = Second(clock)
    <2>1. Second(clock) \in Int /\ Second(clock + Duration) \in Int
      BY <1>2, ContentAssumption DEF Second
    <2> QED
      BY <1>2, <2>1, ContentAssumption DEF Claims, ContentUrls, NoUrl, Sessions
  <1>4. /\ vites' = [vites EXCEPT ![id].base = url]
        /\ stage' = IF CanIssue(url) THEN "attach" ELSE "failed"
    BY <1>1
  <1>5. shown' \in ContentRows /\ shown'.id = id /\ shown'.status = "starting"
        /\ shown'.created = clock /\ shown'.expires = clock + Duration
    BY <1>1, <1>2, ContentAssumption DEF ContentRows, Sessions
  <1>6. Claims(id, shown'.created, shown'.expires) = url
    BY <1>5
  <1> HIDE DEF url
  <1>7. /\ vites' \in [Sessions -> Vites] /\ vites'[id].base = url
        /\ \A p \in Sessions \ {id} : vites'[p] = vites[p]
    BY <1>2, <1>3, <1>4 DEF Vites
  <1>8. id = n + 1
    <2>1. ~(id <= n)
      BY <1>1, <1>2 DEF ContentInvOf, NewestIs
    <2>2. ~(n + 1 < id)
      BY <1>1, <1>2, ContentAssumption DEF ContentInvOf, NewestIs, Sessions
    <2> QED
      BY <1>2, <2>1, <2>2
  <1>9. NewestIs(id)'
    BY <1>1, <1>2, <1>3, <1>7, <1>8, ContentAssumption DEF ContentInvOf, NewestIs, Sessions
  <1>10. BasesInOrder'
    BY <1>2, <1>3, <1>7, SecondsPass DEF ContentInvOf, BasesInOrder
  <1>11. ContentTyped'
    BY <1>2, <1>4, <1>5, <1>7 DEF ContentTyped, OnTheWay
  <1>12. RowInOrder'
    BY <1>2, <1>5, <1>6, <1>7 DEF RowInOrder, Claims
  <1>13. StartInOrder(id)'
    BY <1>2, <1>4, <1>7 DEF StartInOrder, OnTheWay, Probed, Good, CanIssue
  <1>14. UrlsInOrder'
    <2>1. ~(vites[id].base # NoUrl)
      BY <1>1, <1>2
    <2>2. \A u \in urls : u.session # id
      BY <1>2, <2>1, ContentAssumption DEF ContentInvOf, UrlsInOrder, NoUrl, Sessions
    <2> QED
      BY <1>2, <1>7, <2>2 DEF ContentInvOf, UrlsInOrder, CanIssue
  <1> QED
    BY <1>2, <1>9, <1>10, <1>11, <1>12, <1>13, <1>14, ContentAssumption
       DEF ContentInv, ContentInvOf, Sessions

\* A session is shown as running after its own Vite was seen at its port.
LEMMA MarkRunningKeeps ==
    ASSUME NEW n \in 0 .. MaxSessions, ContentInvOf(n), MarkContentRunning
    PROVE  ContentInv'
  <1>0. /\ Owner = n /\ stage = "mark_running" /\ n # 0 /\ n \in Sessions /\ Good(n) /\ HasPort(n)
        /\ UNCHANGED <<clock, vites>> /\ clock \in Nat /\ vites \in [Sessions -> Vites]
        /\ shown \in ContentRows
    BY OwnerIs, ContentAssumption
       DEF ContentInvOf, MarkContentRunning, StartInOrder, OnTheWay, Probed, Sessions, ContentTyped
  <1>1. CASE stage' \in {"kill", "failed"} /\ UNCHANGED <<shown, urls>>
    BY <1>0, <1>1, StageKeepsInv DEF StageKeeps, BasesKept, OnTheWay, Probed
  <1>2. CASE /\ shown.id = n /\ shown.status = "starting"
             /\ shown' = [shown EXCEPT !.status = "running"]
             /\ urls' = urls \cup {ContentUrl} /\ stage' = "idle"
    <2>1. /\ shown' \in ContentRows /\ shown'.id = n /\ shown'.status = "running"
          /\ shown'.created = shown.created /\ shown'.expires = shown.expires
      BY <1>0, <1>2 DEF ContentRows
    <2>2. ContentUrl = vites[n].base
      BY <1>0, <1>2 DEF ContentInvOf, RowInOrder, ContentUrl
    <2>3. vites[n].base # NoUrl /\ vites[n].base.session = n
      BY <1>0 DEF ContentInvOf, NewestIs, BasesInOrder
    <2>4. UrlsInOrder'
      BY <1>0, <1>2, <2>2, <2>3 DEF ContentInvOf, UrlsInOrder, Good, CanIssue
    <2>5. RowInOrder'
      BY <1>0, <1>2, <2>1, <2>2 DEF RowInOrder, ContentUrl, Good, HasPort, CanIssue, Claims
    <2>6. ContentTyped' /\ StartInOrder(n)'
      BY <1>0, <1>2, <2>1 DEF ContentTyped, StartInOrder, OnTheWay, Probed
    <2>7. NewestIs(n)' /\ BasesInOrder'
      BY <1>0 DEF ContentInvOf, NewestIs, BasesInOrder
    <2> QED
      BY <2>4, <2>5, <2>6, <2>7 DEF ContentInv, ContentInvOf
  <1> QED
    BY <1>0, <1>1, <1>2 DEF MarkContentRunning

\* A capability is issued for the session that is shown.
LEMMA InspectKeeps ==
    ASSUME NEW n \in 0 .. MaxSessions, ContentInvOf(n), InspectContent
    PROVE  ContentInv'
  <1>0. /\ UNCHANGED <<clock, stage, vites>> /\ clock \in Nat /\ ContentTyped
        /\ shown.status = "running" /\ stage = "idle" /\ Good(shown.id)
        /\ shown.id \in Sessions
    BY ContentAssumption
       DEF InspectContent, ContentInvOf, ContentTyped, RowInOrder, ContentRows, Sessions
  <1>1. CASE shown' = NoRow /\ UNCHANGED urls
    <2>1. ContentTyped'
      BY <1>0, <1>1, ContentAssumption DEF ContentTyped, NoRow, ContentRows
    <2> QED
      BY <1>0, <1>1, <2>1, QuietKeeps DEF BasesKept, HasPort
  <1>2. CASE urls' = urls \cup {ContentUrl} /\ UNCHANGED shown
    <2>1. ContentUrl = vites[shown.id].base /\ ContentUrl.session = shown.id
      BY <1>0, ContentAssumption DEF ContentInvOf, RowInOrder, ContentUrl, Claims, Sessions
    <2>2. UrlsInOrder'
      BY <1>0, <1>2, <2>1 DEF ContentInvOf, UrlsInOrder, Good, CanIssue
    <2>3. /\ ContentTyped' /\ NewestIs(n)' /\ BasesInOrder' /\ RowInOrder' /\ StartInOrder(n)'
      BY <1>0, <1>2
         DEF ContentInvOf, ContentTyped, NewestIs, BasesInOrder, RowInOrder, StartInOrder, Good,
             HasPort, CanIssue, Claims
    <2> QED
      BY <2>2, <2>3 DEF ContentInv, ContentInvOf
  <1> QED
    BY <1>0, <1>1, <1>2 DEF InspectContent

\* Every step keeps the invariant.
LEMMA ContentNextInv == ContentInv /\ [ContentNext]_contentVars => ContentInv'
  <1> SUFFICES ASSUME NEW n \in 0 .. MaxSessions, ContentInvOf(n), [ContentNext]_contentVars
               PROVE  ContentInv'
    BY DEF ContentInv
  <1>0. /\ Owner = n /\ ContentTyped /\ clock \in Nat /\ vites \in [Sessions -> Vites]
        /\ n # 0 => n \in Sessions
    BY OwnerIs, ContentAssumption DEF ContentInvOf, ContentTyped, Sessions
  <1>1. CASE Tick \/ UNCHANGED contentVars
    <2>1. ContentTyped' /\ clock <= clock'
      BY <1>0, <1>1 DEF Tick, contentVars, ContentTyped
    <2> QED
      BY <1>1, <2>1, QuietKeeps DEF Tick, contentVars, BasesKept, HasPort
  <1>2. CASE StartContent
    BY <1>2, StartContentKeeps
  <1>3. CASE Prepare \/ WaitReady \/ Disconnect
    <2>1. stage \in OnTheWay /\ stage' \in {"failed"} \cup OnTheWay
      BY <1>3 DEF Prepare, WaitReady, Disconnect, OnTheWay
    <2>2. stage' \in Probed => stage \in Probed
      BY <1>3 DEF Prepare, WaitReady, Disconnect, Probed
    <2>3. UNCHANGED <<clock, shown, vites, urls>>
      BY <1>3 DEF Prepare, WaitReady, Disconnect
    <2> QED
      BY <1>0, <2>1, <2>2, <2>3, StageKeepsInv
         DEF StageKeeps, BasesKept, OnTheWay, ContentInvOf, StartInOrder, HasPort
  <1>4. CASE Probe
    <2>1. stage = "probe" /\ stage' \in OnTheWay /\ UNCHANGED <<clock, shown, vites, urls>>
      BY <1>4 DEF Probe, OnTheWay
    <2>2. n \in Sessions /\ vites[n].base # NoUrl /\ vites[n].base.session = n
      BY <1>0, <2>1 DEF ContentInvOf, StartInOrder, OnTheWay, NewestIs, BasesInOrder
    <2>3. stage' \in Probed => \E p \in Listening : vites[p].base = vites[n].base
      BY <1>0, <1>4 DEF Probe, Probed
    <2>4. stage' \in Probed => HasPort(n)
      BY <2>2, <2>3 DEF Listening, HasPort, ContentInvOf, BasesInOrder
    <2> QED
      BY <1>0, <2>1, <2>4, StageKeepsInv DEF StageKeeps, BasesKept, OnTheWay, HasPort
  <1>5. CASE RunVite
    <2>1. n \in Sessions /\ stage = "command_start" /\ UNCHANGED <<clock, shown, urls>>
      BY <1>0, <1>5 DEF RunVite, ContentInvOf, StartInOrder, OnTheWay
    <2>2. /\ vites' = [vites EXCEPT ![n].state = "starting"] \/ vites' = Exited(n)
          /\ stage' \in {"wait_ready", "failed"}
      BY <1>0, <1>5 DEF RunVite
    <2>3. vites' \in [Sessions -> Vites] /\ BasesKept
      <3>1. CASE vites' = [vites EXCEPT ![n].state = "starting"]
        BY <1>0, <2>1, <3>1 DEF Vites, BasesKept
      <3>2. CASE vites' = Exited(n)
        BY <1>0, <2>1, <3>2, ExitKeeps
      <3> QED
        BY <2>2, <3>1, <3>2
    <2> QED
      BY <2>1, <2>2, <2>3, StageKeepsInv DEF StageKeeps, OnTheWay, Probed
  <1>6. CASE KillVite
    <2>1. n \in Sessions /\ stage = "kill" /\ stage' = "failed" /\ UNCHANGED <<clock, shown, urls>>
      BY <1>0, <1>6 DEF KillVite, ContentInvOf, StartInOrder, OnTheWay
    <2>2. vites' \in [Sessions -> Vites] /\ BasesKept
      BY <1>0, <1>6, <2>1, ExitKeeps DEF KillVite, BasesKept
    <2> QED
      BY <2>1, <2>2, StageKeepsInv DEF StageKeeps, OnTheWay, Probed
  <1>7. CASE MarkContentRunning
    BY <1>7, MarkRunningKeeps
  <1>8. CASE ReleaseRow
    <2>1. stage = "failed" /\ stage' = "idle" /\ UNCHANGED <<clock, vites, urls>>
          /\ shown' \in {NoRow, shown}
      BY <1>8 DEF ReleaseRow
    <2>2. ContentTyped'
      BY <1>0, <2>1, ContentAssumption DEF ContentTyped, NoRow, ContentRows
    <2>3. NewestIs(n)' /\ BasesInOrder' /\ UrlsInOrder' /\ StartInOrder(n)'
      BY <2>1 DEF ContentInvOf, NewestIs, BasesInOrder, UrlsInOrder, StartInOrder, OnTheWay,
                  Probed, CanIssue
    <2>4. RowInOrder'
      BY <2>1 DEF ContentInvOf, RowInOrder, NoRow, Good, HasPort, CanIssue, Claims
    <2> QED
      BY <2>2, <2>3, <2>4 DEF ContentInv, ContentInvOf
  <1>9. CASE InspectContent
    BY <1>9, InspectKeeps
  <1>10. CASE StopContent
    <2>1. /\ shown' = NoRow /\ UNCHANGED <<clock, stage, urls>>
          /\ vites' = IF shown.status = "running" THEN Exited(shown.id) ELSE vites
      BY <1>10 DEF StopContent
    <2>2. shown.status = "running" => shown.id \in Sessions
      BY <1>0, ContentAssumption DEF ContentInvOf, RowInOrder, ContentTyped, ContentRows, Sessions
    <2>3. /\ vites' \in [Sessions -> Vites] /\ BasesKept
          /\ \A p \in Sessions : HasPort(p) => HasPort(p)'
      <3>1. CASE shown.status = "running"
        <4>1. vites' = Exited(shown.id)
          BY <2>1, <3>1
        <4> QED
          BY <1>0, <2>2, <3>1, <4>1, ExitKeeps DEF BasesKept, HasPort
      <3>2. CASE shown.status # "running"
        BY <1>0, <2>1, <3>2 DEF BasesKept, HasPort
      <3> QED
        BY <3>1, <3>2
    <2>4. ContentTyped'
      BY <1>0, <2>1, <2>3, ContentAssumption DEF ContentTyped, NoRow, ContentRows
    <2> QED
      BY <1>0, <2>1, <2>3, <2>4, QuietKeeps
  <1>11. ASSUME NEW p \in Sessions, TakePort(p) \/ ViteExits(p) PROVE ContentInv'
    <2>1. UNCHANGED <<clock, shown, stage, urls>>
          /\ \/ vites[p].state = "starting" /\ vites' = [vites EXCEPT ![p].state = "listening"]
             \/ vites' = Exited(p)
      BY <1>11 DEF TakePort, ViteExits
    <2>2. /\ vites' \in [Sessions -> Vites] /\ BasesKept
          /\ \A q \in Sessions : HasPort(q) => HasPort(q)'
      <3>1. CASE vites' = [vites EXCEPT ![p].state = "listening"]
        BY <1>0, <3>1 DEF BasesKept, HasPort, Vites
      <3>2. CASE vites' = Exited(p)
        BY <1>0, <3>2, ExitKeeps
      <3> QED
        BY <2>1, <3>1, <3>2
    <2>3. ContentTyped'
      BY <1>0, <2>1, <2>2 DEF ContentTyped
    <2> QED
      BY <1>0, <2>1, <2>2, <2>3, QuietKeeps
  <1> QED
    BY <1>1, <1>2, <1>3, <1>4, <1>5, <1>6, <1>7, <1>8, <1>9, <1>10, <1>11 DEF ContentNext

\* A content URL is good exactly as long as its session, on a Worker whose clock is behind too,
\* and it is never answered by a process that another session left on the port.
THEOREM ContentUrlCorrect == ContentSpec => []ContentUrlFollowsSession
  <1>1. ContentInv => ContentUrlFollowsSession
    <2> SUFFICES ASSUME NEW n \in 0 .. MaxSessions, ContentInvOf(n),
                        NEW u \in urls, NEW t \in clock - 2 * ClockSkew .. clock
                 PROVE  /\ ContentAnswer(u, t) # "not_found" <=>
                             /\ shown.id = u.session /\ shown.status = "running"
                             /\ Second(t) < Second(shown.expires)
                        /\ ContentAnswer(u, t) = "wrong_base" => ~Alive(u.session)
      BY DEF ContentInv, ContentUrlFollowsSession
    <2>1. /\ u.session \in Sessions /\ u = vites[u.session].base /\ CanIssue(u)
          /\ u.iat \in Int /\ u.exp \in Int /\ u # NoUrl
          /\ t \in Int /\ clock \in Nat /\ t <= clock
      BY ContentAssumption
         DEF ContentInvOf, UrlsInOrder, ContentTyped, Vites, ContentUrls, CanIssue, NoUrl, Sessions
    <2>2. u.iat <= Second(t) + ClockSkew
      <3>1. u.iat <= Second(clock)
        BY <2>1 DEF ContentInvOf, BasesInOrder
      <3>2. Second(clock) <= Second(t) + ClockSkew
        BY <2>1, ContentAssumption DEF Second
      <3> QED
        BY <2>1, <3>1, <3>2, ContentAssumption DEF Second
    <2>3. shown.id = u.session => u.exp = Second(shown.expires)
      BY <2>1, ContentAssumption DEF ContentInvOf, RowInOrder, Claims, Sessions
    <2>4. Verifies(u, t) <=> Second(t) < u.exp
      BY <2>1, <2>2 DEF Verifies, Second
    <2>5. /\ ContentAnswer(u, t) # "not_found" <=>
               Verifies(u, t) /\ shown.id = u.session /\ shown.status = "running"
          /\ ContentAnswer(u, t) = "wrong_base" =>
               /\ shown.id = u.session /\ shown.status = "running"
               /\ \A p \in Listening : vites[p].base # u
      BY DEF ContentAnswer
    <2>6. ContentAnswer(u, t) = "wrong_base" => ~Alive(u.session)
      BY <2>1, <2>5 DEF ContentInvOf, RowInOrder, HasPort, Alive, Listening
    <2> QED
      BY <2>3, <2>4, <2>5, <2>6
  <1> QED
    BY <1>1, ContentInitInv, ContentNextInv, PTL DEF ContentSpec

-----------------------------------------------------------------------------
(* EventQueue                                                              *)

\* What has been sent, by the kind of session, its chunks and the state of the SDK.
FirstLen(k)         == IF k = "process" THEN 1 ELSE 0
SentLen(k, c, s) == FirstLen(k) + c + (IF s = "exited" THEN 1 ELSE 0)
SentAt(k, c, i)  == IF i <= FirstLen(k) + c THEN i - FirstLen(k) ELSE Exit
SentOf(k, c, s)  == (IF k = "process" THEN <<0>> ELSE <<>>)
                      \o [i \in 1 .. c |-> i]
                      \o (IF s = "exited" THEN <<Exit>> ELSE <<>>)

\* What has been sent, event by event.
LEMMA SentIs ==
    ASSUME NEW k, NEW c \in Nat, NEW s
    PROVE  /\ SentOf(k, c, s) \in Seq(Nat) /\ Len(SentOf(k, c, s)) = SentLen(k, c, s)
           /\ \A i \in 1 .. SentLen(k, c, s) : SentOf(k, c, s)[i] = SentAt(k, c, i)
  <1> DEFINE a == IF k = "process" THEN <<0>> ELSE <<>>
             b == [i \in 1 .. c |-> i]
             d == IF s = "exited" THEN <<Exit>> ELSE <<>>
  <1>1. a \in Seq(Nat) /\ Len(a) = FirstLen(k) /\ \A i \in 1 .. Len(a) : a[i] = 0
    BY DEF FirstLen
  <1>2. b \in Seq(Nat) /\ Len(b) = c /\ \A i \in 1 .. Len(b) : b[i] = i
    <2>1. \A i \in 1 .. c : i \in Nat
      OBVIOUS
    <2> QED
      BY <2>1, IsASeq
  <1>3. d \in Seq(Nat) /\ Len(d) = (IF s = "exited" THEN 1 ELSE 0)
        /\ \A i \in 1 .. Len(d) : d[i] = Exit
    BY QueueAssumption DEF Exit
  <1>4. /\ FirstLen(k) \in Nat
        /\ (k = "process" => FirstLen(k) = 1) /\ (k # "process" => FirstLen(k) = 0)
    BY DEF FirstLen
  <1>5. SentOf(k, c, s) = (a \o b) \o d
    BY DEF SentOf
  <1> HIDE DEF a, b, d
  <1>6. /\ a \o b \in Seq(Nat) /\ Len(a \o b) = FirstLen(k) + c
        /\ \A i \in 1 .. (FirstLen(k) + c) :
             (a \o b)[i] = IF i <= FirstLen(k) THEN a[i] ELSE b[i - FirstLen(k)]
    BY <1>1, <1>2, <1>4, ConcatProperties
  <1>7. /\ SentOf(k, c, s) \in Seq(Nat) /\ Len(SentOf(k, c, s)) = SentLen(k, c, s)
        /\ \A i \in 1 .. SentLen(k, c, s) :
             SentOf(k, c, s)[i] =
               IF i <= FirstLen(k) + c THEN (a \o b)[i] ELSE d[i - (FirstLen(k) + c)]
    <2> DEFINE ab == a \o b
    <2>0. ab \in Seq(Nat) /\ Len(ab) = FirstLen(k) + c
      BY <1>6
    <2> HIDE DEF ab
    <2>1. /\ ab \o d \in Seq(Nat)
          /\ Len(ab \o d) = FirstLen(k) + c + Len(d)
          /\ \A i \in 1 .. (FirstLen(k) + c + Len(d)) :
               (ab \o d)[i] = IF i <= FirstLen(k) + c THEN ab[i] ELSE d[i - (FirstLen(k) + c)]
      <3>1. d \in Seq(Nat)
        BY <1>3
      <3>2. /\ ab \o d \in Seq(Nat)
            /\ Len(ab \o d) = Len(ab) + Len(d)
            /\ \A i \in 1 .. Len(ab) + Len(d) :
                 (ab \o d)[i] = IF i <= Len(ab) THEN ab[i] ELSE d[i - Len(ab)]
        BY <2>0, <3>1, ConcatProperties
      <3> QED
        BY <2>0, <3>2
    <2> QED
      BY <1>3, <1>5, <2>1 DEF SentLen, ab
  <1>8. ASSUME NEW i \in 1 .. SentLen(k, c, s)
        PROVE  SentOf(k, c, s)[i] = SentAt(k, c, i)
    <2>1. CASE i <= FirstLen(k)
      <3>1. i = 1 /\ FirstLen(k) = 1
        BY <1>4, <1>8, <2>1 DEF SentLen
      <3> QED
        BY <1>1, <1>2, <1>6, <1>7, <2>1, <3>1 DEF SentAt
    <2>2. CASE FirstLen(k) < i /\ i <= FirstLen(k) + c
      <3>1. i - FirstLen(k) \in 1 .. Len(b) /\ i \in 1 .. (FirstLen(k) + c) /\ ~(i <= FirstLen(k))
        BY <1>2, <1>4, <1>8, <2>2 DEF SentLen
      <3> QED
        BY <1>2, <1>6, <1>7, <2>2, <3>1 DEF SentAt
    <2>3. CASE FirstLen(k) + c < i
      BY <1>3, <1>4, <1>7, <1>8, <2>3 DEF SentAt, SentLen
    <2> QED
      BY <1>4, <1>8, <2>1, <2>2, <2>3 DEF SentLen
  <1> QED
    BY <1>7, <1>8

QueueEvents == Nat \X Nat

QueueTyped ==
    /\ kind \in {"none", "process", "terminal"} /\ started \in BOOLEAN /\ parked \in BOOLEAN
    /\ waiting \in BOOLEAN
    /\ buffered \in Seq(QueueEvents) /\ pending \in Seq(QueueEvents) /\ offered \in QueueEvents
    /\ end \in {"open", "closed", "failed"} /\ told \in {"open", "closed", "failed"}
    /\ chunks \in 0 .. MaxChunks /\ sdk \in {"running", "exited", "broken"}
    /\ got \in Seq(Nat)

Passed        == Len(got) + Len(pending)
AllSent    == SentLen(kind, chunks, sdk)

\* The reader has got, and will find pending, what was sent, from the beginning on and in
\* this order.
InSequence ==
    /\ Passed <= AllSent \/ kind = "none"
    /\ \A i \in 1 .. Len(got) : got[i] = SentAt(kind, chunks, i)
    /\ \A i \in 1 .. Len(pending) : pending[i][1] = SentAt(kind, chunks, Len(got) + i)
    /\ \A i \in 1 .. Len(buffered) : buffered[i][1] = i

\* And nothing is missing but what the SDK holds, unless the stream has failed.
NothingMissing ==
    end # "failed" /\ sdk # "broken" /\ kind # "none" =>
        IF kind = "process" /\ ~started THEN Len(buffered) = chunks
        ELSE Passed + (IF offered # Nothing THEN 1 ELSE 0) = AllSent

QueueInOrder ==
    /\ kind = "none" => /\ ~started /\ ~waiting /\ got = <<>> /\ pending = <<>> /\ buffered = <<>>
                        /\ chunks = 0 /\ offered = Nothing /\ sdk = "running"
                        /\ end = "open" /\ told = "open"
    /\ waiting => pending = <<>> /\ end = "open" /\ told = "open" /\ started
    /\ kind = "process" /\ ~started => pending = <<>> /\ got = <<>> /\ sdk = "running"
    /\ ~started => got = <<>> /\ sdk # "exited"
    /\ started \/ kind # "process" => buffered = <<>>
    /\ end = "closed" => sdk = "exited"
    /\ sdk = "exited" => offered = Nothing
    /\ offered # Nothing => kind = "terminal" /\ sdk = "running" /\ offered[1] = chunks

QueueInv == QueueTyped /\ QueueInOrder /\ InSequence /\ NothingMissing

\* No session has begun.
LEMMA QueueInitInv == QueueInit => QueueInv
  <1> SUFFICES ASSUME QueueInit PROVE QueueInv
    OBVIOUS
  <1>1. QueueTyped
    <2>1. <<0, 0>> \in QueueEvents
      BY DEF QueueEvents
    <2>2. <<>> \in Seq(QueueEvents) /\ <<>> \in Seq(Nat)
      OBVIOUS
    <2>3. 0 \in 0 .. MaxChunks
      BY QueueAssumption
    <2> QED
      BY <2>1, <2>2, <2>3 DEF QueueInit, QueueTyped, Nothing
  <1>2. QueueInOrder /\ NothingMissing
    BY DEF QueueInit, QueueInOrder, NothingMissing
  <1>3. InSequence
    BY DEF QueueInit, InSequence
  <1> QED
    BY <1>1, <1>2, <1>3 DEF QueueInv

\* What an event that is pushed does to what the reader has got and will find pending.
LEMMA PushAdds ==
    ASSUME QueueTyped, waiting => pending = <<>>, end = "open", NEW e \in QueueEvents, Push(e)
    PROVE  /\ got' \in Seq(Nat) /\ pending' \in Seq(QueueEvents) /\ waiting' = FALSE
           /\ \/ /\ waiting /\ got' = Append(got, e[1]) /\ pending' = <<>>
                 /\ Len(got') = Len(got) + 1
                 /\ \A i \in 1 .. Len(got) : got'[i] = got[i]
                 /\ got'[Len(got) + 1] = e[1]
              \/ /\ ~waiting /\ got' = got /\ Len(pending') = Len(pending) + 1
                 /\ \A i \in 1 .. Len(pending) : pending'[i] = pending[i]
                 /\ pending'[Len(pending) + 1] = e
  <1>1. e[1] \in Nat
    BY DEF QueueEvents
  <1>2. CASE waiting
    <2>1. got' = Append(got, e[1]) /\ waiting' = FALSE /\ pending' = <<>>
      BY <1>2 DEF Push
    <2> QED
      BY <1>1, <1>2, <2>1, AppendProperties DEF QueueTyped
  <1>3. CASE ~waiting
    <2>1. pending' = Append(pending, e) /\ waiting' = FALSE /\ got' = got
      BY <1>3 DEF Push, QueueTyped
    <2> QED
      BY <1>3, <2>1, AppendProperties DEF QueueTyped
  <1> QED
    BY <1>2, <1>3

\* A process session sends process.started first.
LEMMA FirstLenIs ==
    ASSUME NEW k
    PROVE  /\ FirstLen(k) \in {0, 1}
           /\ (k = "process" => FirstLen(k) = 1) /\ (k # "process" => FirstLen(k) = 0)
  BY DEF FirstLen

\* How many events have been sent.
LEMMA SentLenIs ==
    ASSUME NEW k, NEW c \in Nat, NEW s
    PROVE  /\ SentLen(k, c, s) \in Nat
           /\ s # "exited" => SentLen(k, c, s) = FirstLen(k) + c
           /\ s = "exited" => SentLen(k, c, s) = FirstLen(k) + c + 1
  <1>1. FirstLen(k) \in Nat
    BY FirstLenIs
  <1> QED
    BY <1>1 DEF SentLen

\* The lengths of what is sent, received and pending are numbers.
LEMMA Counts ==
    ASSUME QueueTyped
    PROVE  /\ chunks \in Nat /\ Len(got) \in Nat /\ Len(pending) \in Nat /\ Len(buffered) \in Nat
           /\ FirstLen(kind) \in Nat /\ AllSent \in Nat /\ Passed \in Nat
           /\ sdk # "exited" => AllSent = FirstLen(kind) + chunks
           /\ sdk = "exited" => AllSent = FirstLen(kind) + chunks + 1
  <1>1. chunks \in Nat
    BY QueueAssumption DEF QueueTyped
  <1>2. Len(got) \in Nat /\ Len(pending) \in Nat /\ Len(buffered) \in Nat
    BY DEF QueueTyped
  <1>3. FirstLen(kind) \in Nat
    BY FirstLenIs
  <1> QED
    BY <1>1, <1>2, <1>3, SentLenIs DEF Passed, AllSent

\* Where the events are found does not depend on what is sent after them.
LEMMA SentAtStays ==
    ASSUME NEW k, NEW c \in Nat, NEW d \in Nat, c <= d, NEW s, s # "exited",
           NEW i \in 1 .. SentLen(k, c, s)
    PROVE  SentAt(k, d, i) = SentAt(k, c, i)
  BY FirstLenIs, SentLenIs DEF SentAt

\* An event that is next is next wherever push puts it.
LEMMA PushInSequence ==
    ASSUME QueueTyped, QueueInOrder, InSequence, kind # "none", end = "open",
           NEW e \in QueueEvents, Push(e), kind' = kind, sdk # "exited", chunks' \in Nat,
           chunks <= chunks', UNCHANGED buffered,
           e[1] = SentAt(kind, chunks', Passed + 1), Passed + 1 <= AllSent'
    PROVE  InSequence' /\ Passed' = Passed + 1
  <1>0. /\ waiting => pending = <<>>
        /\ chunks \in Nat /\ Len(got) \in Nat /\ Len(pending) \in Nat /\ AllSent \in Nat
        /\ Passed = Len(got) + Len(pending) /\ Passed <= AllSent
    BY Counts DEF QueueInOrder, InSequence, Passed
  <1>1. /\ \A i \in 1 .. Len(got) : got[i] = SentAt(kind, chunks', i)
        /\ \A i \in 1 .. Len(pending) : pending[i][1] = SentAt(kind, chunks', Len(got) + i)
    <2>1. ASSUME NEW i \in 1 .. Passed PROVE SentAt(kind, chunks', i) = SentAt(kind, chunks, i)
      <3>1. i \in 1 .. SentLen(kind, chunks, sdk)
        BY <1>0 DEF AllSent
      <3> QED
        BY <1>0, <3>1, SentAtStays
    <2>2. \A i \in 1 .. Len(got) : i \in 1 .. Passed
      BY <1>0
    <2>3. \A i \in 1 .. Len(pending) : Len(got) + i \in 1 .. Passed
      BY <1>0
    <2> QED
      BY <2>1, <2>2, <2>3 DEF InSequence
  <1>2. CASE /\ waiting /\ pending' = <<>> /\ Len(got') = Len(got) + 1
             /\ \A i \in 1 .. Len(got) : got'[i] = got[i]
             /\ got'[Len(got) + 1] = e[1]
    <2>1. Passed' = Passed + 1 /\ Passed + 1 = Len(got) + 1
      BY <1>0, <1>2 DEF Passed
    <2>2. \A i \in 1 .. Len(got') : got'[i] = SentAt(kind, chunks', i)
      BY <1>0, <1>1, <1>2, <2>1
    <2>3. Len(pending') = 0
      BY <1>2
    <2> QED
      BY <2>1, <2>2, <2>3 DEF InSequence
  <1>3. CASE /\ got' = got /\ Len(pending') = Len(pending) + 1
             /\ \A i \in 1 .. Len(pending) : pending'[i] = pending[i]
             /\ pending'[Len(pending) + 1] = e
    <2>1. Passed' = Passed + 1 /\ Passed + 1 = Len(got) + (Len(pending) + 1)
      BY <1>0, <1>3 DEF Passed
    <2>2. ASSUME NEW i \in 1 .. Len(pending')
          PROVE  pending'[i][1] = SentAt(kind, chunks', Len(got') + i)
      <3>1. CASE i = Len(pending) + 1
        <4>1. Len(got') + i = Passed + 1
          BY <1>0, <1>3, <3>1
        <4> QED
          BY <1>3, <3>1, <4>1
      <3>2. CASE i # Len(pending) + 1
        <4>1. i \in 1 .. Len(pending)
          BY <1>0, <1>3, <2>2, <3>2
        <4> QED
          BY <1>1, <1>3, <4>1
      <3> QED
        BY <3>1, <3>2
    <2> QED
      BY <1>1, <1>3, <2>1, <2>2 DEF InSequence
  <1> QED
    BY <1>0, <1>2, <1>3, PushAdds

\* The number of the next chunk, where a stream of which nothing is missing is continued.
LEMMA NextChunk ==
    ASSUME QueueTyped, sdk # "exited", NEW c \in Nat, c = chunks + 1,
           NEW n, n = SentLen(kind, chunks, sdk)
    PROVE  /\ SentAt(kind, c, n + 1) = c /\ SentLen(kind, c, sdk) = n + 1 /\ n \in Nat
           /\ SentAt(kind, chunks, n + 1) = Exit /\ SentLen(kind, chunks, "exited") = n + 1
  <1>1. chunks \in Nat /\ FirstLen(kind) \in Nat /\ n = FirstLen(kind) + chunks
    BY Counts DEF AllSent
  <1> QED
    BY <1>1, SentLenIs DEF SentAt

-----------------------------------------------------------------------------
\* A session begins with nothing but, for a process, process.started.
LEMMA BeginSessionKeeps ==
    ASSUME QueueInv, NEW k \in {"process", "terminal"}, BeginSession(k)
    PROVE  QueueInv'
  <1>1. QueueTyped'
    BY DEF BeginSession, QueueInv, QueueTyped
  <1>2. QueueInOrder'
    BY DEF BeginSession, QueueInv, QueueInOrder
  <1>3. /\ got' = <<>> /\ pending' = <<>> /\ buffered' = <<>> /\ chunks' = 0 /\ sdk' = "running"
        /\ Nothing' = Nothing /\ offered' = Nothing /\ kind' = k /\ ~started'
    BY DEF BeginSession, QueueInv, QueueInOrder, Nothing
  <1>4. Len(got') = 0 /\ Len(pending') = 0 /\ Len(buffered') = 0
    BY <1>3
  <1>5. Passed' = 0 /\ AllSent' = FirstLen(k)
    BY <1>3, <1>4, SentLenIs, FirstLenIs DEF Passed, AllSent
  <1>6. InSequence'
    BY <1>3, <1>4, <1>5, FirstLenIs DEF InSequence
  <1>7. NothingMissing'
    BY <1>3, <1>4, <1>5, FirstLenIs DEF NothingMissing
  <1> QED
    BY <1>1, <1>2, <1>6, <1>7 DEF QueueInv

\* What the reader has, and what waits for it, is still what was sent when more is sent.
LEMMA MoreSent ==
    ASSUME QueueTyped, InSequence, sdk # "exited", chunks' \in Nat, chunks <= chunks',
           UNCHANGED <<kind, got, buffered>>, pending' = pending \/ pending' = <<>>,
           kind = "none" => chunks' = chunks
    PROVE  InSequence'
  <1>1. /\ chunks \in Nat /\ Len(got) \in Nat /\ Len(pending) \in Nat /\ FirstLen(kind) \in Nat
        /\ AllSent = FirstLen(kind) + chunks /\ Passed = Len(got) + Len(pending) /\ AllSent \in Nat
    BY Counts DEF Passed
  <1>2. AllSent' \in Nat /\ AllSent' >= FirstLen(kind) + chunks'
    BY <1>1, SentLenIs DEF AllSent
  <1>3. Passed' <= Passed /\ Passed' = Len(got) + Len(pending') /\ Len(pending') \in Nat
    BY <1>1 DEF Passed
  <1>4. ASSUME NEW i \in 1 .. Passed
        PROVE  SentAt(kind, chunks', i) = SentAt(kind, chunks, i)
    <2>1. CASE kind # "none"
      <3>1. i \in 1 .. SentLen(kind, chunks, sdk)
        BY <1>1, <2>1 DEF AllSent, InSequence
      <3> QED
        BY <1>1, <3>1, SentAtStays
    <2>2. CASE kind = "none"
      BY <2>2
    <2> QED
      BY <2>1, <2>2
  <1>5. \A i \in 1 .. Len(got) : got'[i] = SentAt(kind, chunks', i)
    BY <1>1, <1>4 DEF InSequence
  <1>6. \A i \in 1 .. Len(pending') : pending'[i][1] = SentAt(kind, chunks', Len(got) + i)
    <2>1. CASE pending' = pending
      <3>1. \A i \in 1 .. Len(pending) : Len(got) + i \in 1 .. Passed
        BY <1>1
      <3> QED
        BY <1>4, <2>1, <3>1 DEF InSequence
    <2>2. CASE pending' = <<>>
      BY <2>2
    <2> QED
      BY <2>1, <2>2
  <1>7. Passed' <= AllSent' \/ kind = "none"
    BY <1>1, <1>2, <1>3 DEF InSequence
  <1> QED
    BY <1>5, <1>6, <1>7 DEF InSequence

\* The empty queue.
LEMMA EmptyQueues == <<>> \in Seq(QueueEvents) /\ <<>> \in Seq(Nat)
  OBVIOUS

\* Where the output has passed a limit nothing remains to be found.
LEMMA FailOutputKeeps ==
    ASSUME QueueInv, kind = "process", sdk = "running", FailOutput, chunks' \in 0 .. MaxChunks,
           chunks <= chunks', UNCHANGED <<kind, started, offered, parked, sdk>>
    PROVE  QueueInv'
  <1>0. /\ end' = "failed" /\ got' = got /\ pending' = <<>> /\ buffered' = <<>> /\ waiting' = FALSE
        /\ told' \in {told, "failed"}
    BY DEF FailOutput
  <1>1. QueueTyped'
    BY <1>0, EmptyQueues DEF QueueInv, QueueTyped
  <1>2. QueueInOrder'
    BY <1>0 DEF QueueInv, QueueInOrder, Nothing
  <1>3. InSequence'
    <2>1. chunks' \in Nat
      BY QueueAssumption
    <2>2. /\ \A i \in 1 .. Len(got) : got'[i] = SentAt(kind, chunks', i)
          /\ Passed' <= AllSent'
      <3>1. chunks \in Nat /\ Len(got) \in Nat /\ Len(pending) \in Nat /\ FirstLen(kind) \in Nat
            /\ AllSent = FirstLen(kind) + chunks /\ Passed = Len(got) + Len(pending)
        BY Counts DEF QueueInv, Passed
      <3>2. Passed' = Len(got)
        BY <1>0, <3>1 DEF Passed
      <3>3. AllSent' = FirstLen(kind) + chunks'
        BY <2>1, SentLenIs DEF AllSent
      <3>4. ASSUME NEW i \in 1 .. Len(got)
            PROVE  SentAt(kind, chunks', i) = SentAt(kind, chunks, i)
        <4>1. i \in 1 .. SentLen(kind, chunks, sdk)
          BY <3>1, <3>4 DEF AllSent, QueueInv, InSequence
        <4> QED
          BY <2>1, <3>1, <4>1, SentAtStays
      <3> QED
        BY <1>0, <2>1, <3>1, <3>2, <3>3, <3>4 DEF QueueInv, InSequence
    <2>3. Len(pending') = 0 /\ Len(buffered') = 0
      BY <1>0
    <2> QED
      BY <1>0, <2>2, <2>3 DEF InSequence
  <1>4. NothingMissing'
    BY <1>0 DEF NothingMissing
  <1> QED
    BY <1>1, <1>2, <1>3, <1>4 DEF QueueInv

\* A chunk of a process is buffered, pushed or turned into the failure.
LEMMA EmitOutputKeeps ==
    ASSUME QueueInv, NEW size \in Sizes, EmitOutput(size)
    PROVE  QueueInv'
  <1> DEFINE e == <<chunks + 1, size>>
  <1>0. /\ kind = "process" /\ sdk = "running" /\ chunks < MaxChunks /\ chunks' = chunks + 1
        /\ UNCHANGED <<kind, started, offered, parked, sdk>>
    BY DEF EmitOutput
  <1>1. /\ chunks \in Nat /\ chunks' \in Nat /\ chunks' \in 0 .. MaxChunks /\ chunks <= chunks'
        /\ e \in QueueEvents /\ AllSent \in Nat /\ Passed \in Nat
        /\ AllSent = FirstLen(kind) + chunks /\ FirstLen(kind) = 1
    BY <1>0, QueueAssumption, Counts, FirstLenIs DEF QueueInv, QueueTyped, Sizes, QueueEvents
  <1>2. /\ SentAt(kind, chunks', AllSent + 1) = chunks' /\ AllSent' = AllSent + 1
        /\ offered = Nothing /\ end # "closed"
    BY <1>0, <1>1, NextChunk DEF QueueInv, AllSent, QueueInOrder
  <1> HIDE DEF e
  <1>3. CASE /\ end # "open"
             /\ UNCHANGED <<total, buffered, pending, end, waiting, got, told>>
    <2>1. QueueTyped' /\ QueueInOrder'
      BY <1>0, <1>1, <1>3 DEF QueueInv, QueueTyped, QueueInOrder, Nothing
    <2>2. InSequence'
      BY <1>0, <1>1, <1>3, MoreSent DEF QueueInv
    <2>3. NothingMissing'
      BY <1>2, <1>3 DEF NothingMissing, QueueInv, QueueTyped
    <2> QED
      BY <2>1, <2>2, <2>3 DEF QueueInv
  <1>4. CASE FailOutput
    BY <1>0, <1>1, <1>4, FailOutputKeeps
  <1>5. CASE /\ end = "open" /\ ~started
             /\ buffered' = Append(buffered, e) /\ UNCHANGED <<pending, end, waiting, got, told>>
    <2>0. Len(buffered) = chunks
      BY <1>0, <1>5 DEF QueueInv, NothingMissing
    <2>1. /\ buffered' \in Seq(QueueEvents) /\ Len(buffered') = Len(buffered) + 1
          /\ \A i \in 1 .. Len(buffered) : buffered'[i] = buffered[i]
          /\ buffered'[Len(buffered) + 1] = e
      BY <1>1, <1>5, AppendProperties DEF QueueInv, QueueTyped
    <2>2. QueueTyped' /\ QueueInOrder'
      BY <1>0, <1>1, <1>5, <2>1 DEF QueueInv, QueueTyped, QueueInOrder, Nothing
    <2>3. Len(got) = 0 /\ Len(pending) = 0
      BY <1>0, <1>5 DEF QueueInv, QueueInOrder
    <2>4. Passed' = 0
      BY <1>5, <2>3 DEF Passed
    <2>5. \A i \in 1 .. Len(buffered') : buffered'[i][1] = i
      BY <1>1, <2>0, <2>1 DEF e, QueueInv, InSequence
    <2>6. InSequence'
      BY <1>1, <1>2, <1>5, <2>3, <2>4, <2>5 DEF InSequence
    <2>7. NothingMissing'
      BY <1>0, <1>5, <2>0, <2>1 DEF NothingMissing
    <2> QED
      BY <2>2, <2>6, <2>7 DEF QueueInv
  <1>6. CASE end = "open" /\ started /\ Push(e) /\ UNCHANGED <<buffered, end, told>>
    <2>1. Passed = AllSent
      BY <1>0, <1>1, <1>2, <1>6 DEF QueueInv, NothingMissing, Nothing
    <2>2. e[1] = SentAt(kind, chunks', Passed + 1) /\ Passed + 1 <= AllSent'
      BY <1>0, <1>1, <1>2, <2>1 DEF e
    <2>3. InSequence' /\ Passed' = Passed + 1
      BY <1>0, <1>1, <1>6, <2>2, PushInSequence DEF QueueInv
    <2>4. got' \in Seq(Nat) /\ pending' \in Seq(QueueEvents) /\ waiting' = FALSE
      BY <1>1, <1>6, PushAdds DEF QueueInv, QueueInOrder
    <2>5. QueueTyped' /\ QueueInOrder'
      BY <1>0, <1>1, <1>6, <2>4 DEF QueueInv, QueueTyped, QueueInOrder, Nothing
    <2>6. NothingMissing'
      BY <1>0, <1>1, <1>2, <1>6, <2>1, <2>3 DEF NothingMissing, Nothing
    <2> QED
      BY <2>3, <2>5, <2>6 DEF QueueInv
  <1> QED
    BY <1>3, <1>4, <1>5, <1>6 DEF EmitOutput, Buffer, e

\* What was buffered follows process.started.
LEMMA StartProcessKeeps ==
    ASSUME QueueInv, StartProcessSession
    PROVE  QueueInv'
  <1>0. /\ kind = "process" /\ ~started /\ told = "open" /\ pending = <<>> /\ got = <<>>
        /\ sdk = "running" /\ ~waiting /\ end # "closed" /\ offered = Nothing
        /\ UNCHANGED <<kind, end, offered, parked, total, chunks, sdk, waiting, got>>
    BY DEF StartProcessSession, QueueInv, QueueInOrder
  <1>1. /\ chunks \in Nat /\ AllSent = 1 + chunks /\ Len(buffered) \in Nat
    BY <1>0, Counts, FirstLenIs DEF QueueInv
  <1>2. CASE end # "open" /\ told' = end /\ UNCHANGED <<started, buffered, pending>>
    <2>1. QueueTyped' /\ QueueInOrder'
      BY <1>0, <1>2 DEF QueueInv, QueueTyped, QueueInOrder, Nothing
    <2>2. InSequence'
      BY <1>0, <1>1, <1>2, MoreSent DEF QueueInv
    <2>3. NothingMissing'
      BY <1>0, <1>2 DEF NothingMissing, QueueInv, QueueTyped
    <2> QED
      BY <2>1, <2>2, <2>3 DEF QueueInv
  <1>3. CASE /\ end = "open" /\ started' = TRUE /\ buffered' = <<>>
             /\ pending' = <<Nothing>> \o buffered /\ UNCHANGED told
    <2>1. Len(buffered) = chunks
      BY <1>0, <1>3 DEF QueueInv, NothingMissing
    <2>2. <<Nothing>> \in Seq(QueueEvents) /\ Len(<<Nothing>>) = 1 /\ <<Nothing>>[1] = Nothing
      BY DEF Nothing, QueueEvents
    <2>3. /\ pending' \in Seq(QueueEvents) /\ Len(pending') = 1 + chunks
          /\ \A i \in 1 .. Len(pending') :
               pending'[i] = IF i <= 1 THEN Nothing ELSE buffered[i - 1]
      <3> DEFINE n == <<Nothing>>
      <3>1. n \in Seq(QueueEvents) /\ Len(n) = 1 /\ n[1] = Nothing /\ buffered \in Seq(QueueEvents)
        BY <2>2 DEF QueueInv, QueueTyped
      <3>2. pending' = n \o buffered
        BY <1>3
      <3> HIDE DEF n
      <3>3. /\ n \o buffered \in Seq(QueueEvents) /\ Len(n \o buffered) = Len(n) + Len(buffered)
            /\ \A i \in 1 .. Len(n) + Len(buffered) :
                 (n \o buffered)[i] = IF i <= Len(n) THEN n[i] ELSE buffered[i - Len(n)]
        BY <3>1, ConcatProperties
      <3>4. Len(pending') = 1 + chunks
        BY <2>1, <3>1, <3>2, <3>3
      <3>5. ASSUME NEW i \in 1 .. 1 + chunks
            PROVE  pending'[i] = IF i <= 1 THEN Nothing ELSE buffered[i - 1]
        BY <1>1, <2>1, <3>1, <3>2, <3>3
      <3> QED
        BY <3>2, <3>3, <3>4, <3>5
    <2>4. QueueTyped' /\ QueueInOrder'
      BY <1>0, <1>3, <2>3, EmptyQueues DEF QueueInv, QueueTyped, QueueInOrder, Nothing
    <2>5. Len(got) = 0 /\ Len(buffered') = 0
      BY <1>0, <1>3
    <2>6. Passed' = 1 + chunks /\ AllSent' = 1 + chunks
      BY <1>0, <1>1, <2>3, <2>5 DEF Passed, AllSent
    <2>7. ASSUME NEW i \in 1 .. 1 + chunks PROVE pending'[i][1] = SentAt(kind, chunks, i)
      <3>1. SentAt(kind, chunks, i) = i - 1
        BY <1>0, <1>1, FirstLenIs DEF SentAt
      <3>2. CASE i = 1
        BY <2>3, <3>1, <3>2 DEF Nothing
      <3>3. CASE i # 1
        <4>1. i - 1 \in 1 .. Len(buffered) /\ ~(i <= 1)
          BY <1>1, <2>1, <3>3
        <4> QED
          BY <2>3, <3>1, <4>1 DEF QueueInv, InSequence
      <3> QED
        BY <3>2, <3>3
    <2>8. InSequence'
      BY <1>0, <1>1, <2>3, <2>5, <2>6, <2>7 DEF InSequence
    <2>9. NothingMissing'
      BY <1>0, <1>3, <2>6 DEF NothingMissing, Nothing
    <2> QED
      BY <2>4, <2>8, <2>9 DEF QueueInv
  <1> QED
    BY <1>2, <1>3 DEF StartProcessSession

\* A chunk of a terminal is what the SDK holds until it is pushed.
LEMMA OfferOutputKeeps ==
    ASSUME QueueInv, NEW size \in Sizes, OfferOutput(size)
    PROVE  QueueInv'
  <1> DEFINE e == <<chunks + 1, size>>
  <1>0. /\ kind = "terminal" /\ sdk = "running" /\ chunks < MaxChunks /\ chunks' = chunks + 1
        /\ offered = Nothing /\ UNCHANGED <<kind, started, buffered, pending, got>>
    BY DEF OfferOutput
  <1>1. /\ chunks \in Nat /\ chunks' \in Nat /\ chunks' \in 0 .. MaxChunks /\ chunks <= chunks'
        /\ e \in QueueEvents /\ e # Nothing /\ e[1] = chunks'
    BY <1>0, QueueAssumption, Counts DEF QueueInv, QueueTyped, Sizes, QueueEvents, Nothing
  <1>2. AllSent' = AllSent + 1 \/ sdk' # "running"
    <2>1. SentLen(kind, chunks', sdk) = AllSent + 1
      BY <1>0, <1>1, NextChunk DEF QueueInv, AllSent
    <2> QED
      BY <1>0, <2>1 DEF AllSent
  <1>3. InSequence'
    BY <1>0, <1>1, MoreSent DEF QueueInv
  <1> HIDE DEF e
  <1>4. CASE EndQueue("failed") /\ sdk' = "broken" /\ UNCHANGED offered
    <2>1. QueueTyped' /\ QueueInOrder'
      BY <1>0, <1>1, <1>4 DEF EndQueue, QueueInv, QueueTyped, QueueInOrder, Nothing
    <2>2. NothingMissing'
      BY <1>4 DEF NothingMissing
    <2> QED
      BY <1>3, <2>1, <2>2 DEF QueueInv
  <1>5. CASE offered' = e /\ UNCHANGED <<sdk, end, parked, waiting, told>>
    <2>1. QueueTyped' /\ QueueInOrder'
      BY <1>0, <1>1, <1>5 DEF QueueInv, QueueTyped, QueueInOrder, Nothing
    <2>2. Passed' = Passed /\ Passed \in Nat /\ AllSent \in Nat
      BY <1>0, Counts DEF QueueInv, Passed
    <2>3. NothingMissing'
      BY <1>0, <1>1, <1>2, <1>5, <2>2 DEF NothingMissing, QueueInv, Nothing
    <2> QED
      BY <1>3, <2>1, <2>3 DEF QueueInv
  <1> QED
    BY <1>4, <1>5 DEF OfferOutput, e

\* The chunk that is held is the next.
LEMMA WaitAndPushKeeps ==
    ASSUME QueueInv, WaitAndPush
    PROVE  QueueInv'
  <1>0. /\ offered # Nothing /\ kind = "terminal" /\ sdk = "running" /\ offered[1] = chunks
        /\ end # "closed"
        /\ UNCHANGED <<kind, started, buffered, end, total, chunks, told>>
    BY DEF WaitAndPush, QueueInv, QueueInOrder
  <1>1. /\ chunks \in Nat /\ chunks' \in Nat /\ chunks <= chunks'
        /\ AllSent \in Nat /\ Passed \in Nat
        /\ AllSent = FirstLen(kind) + chunks /\ FirstLen(kind) = 0
        /\ (sdk' = sdk => AllSent' = AllSent)
    BY <1>0, Counts, FirstLenIs DEF QueueInv, AllSent
  <1>2. CASE parked' = TRUE /\ UNCHANGED <<offered, pending, waiting, got, sdk>>
    <2>1. QueueTyped' /\ QueueInOrder'
      BY <1>0, <1>2 DEF QueueInv, QueueTyped, QueueInOrder, Nothing
    <2>2. InSequence'
      BY <1>0, <1>1, <1>2, MoreSent DEF QueueInv
    <2>3. NothingMissing'
      BY <1>0, <1>2 DEF NothingMissing, QueueInv, Nothing, Passed, AllSent
    <2> QED
      BY <2>1, <2>2, <2>3 DEF QueueInv
  <1>3. CASE offered' = Nothing /\ sdk' = "broken" /\ UNCHANGED <<parked, pending, waiting, got>>
    <2>1. QueueTyped' /\ QueueInOrder'
      BY <1>0, <1>3 DEF QueueInv, QueueTyped, QueueInOrder, Nothing, QueueEvents
    <2>2. InSequence'
      <3>1. QueueTyped /\ InSequence /\ UNCHANGED <<kind, got, buffered>> /\ pending' = pending
        BY <1>0, <1>3 DEF QueueInv
      <3> QED
        BY <1>0, <1>1, <3>1, MoreSent
    <2>3. NothingMissing'
      BY <1>3 DEF NothingMissing
    <2> QED
      BY <2>1, <2>2, <2>3 DEF QueueInv
  <1>4. CASE end # "failed" /\ Push(offered) /\ offered' = Nothing /\ UNCHANGED <<parked, sdk>>
    <2>1. end = "open" /\ Passed + 1 = AllSent
      BY <1>0, <1>4 DEF QueueInv, QueueTyped, NothingMissing
    <2>2. offered[1] = SentAt(kind, chunks', Passed + 1) /\ Passed + 1 <= AllSent'
      BY <1>0, <1>1, <1>4, <2>1 DEF SentAt
    <2>3. InSequence' /\ Passed' = Passed + 1
      BY <1>0, <1>1, <1>4, <2>1, <2>2, PushInSequence DEF QueueInv, QueueTyped
    <2>4. got' \in Seq(Nat) /\ pending' \in Seq(QueueEvents) /\ waiting' = FALSE
      BY <1>4, <2>1, PushAdds DEF QueueInv, QueueInOrder, QueueTyped
    <2>5. QueueTyped'
      <3>1. Nothing \in QueueEvents
        BY DEF Nothing, QueueEvents
      <3> QED
        BY <1>0, <1>4, <2>4, <3>1 DEF QueueInv, QueueTyped
    <2>6. QueueInOrder'
      <3>1. ~started => got' = got
        BY <1>4, <2>1 DEF QueueInv, QueueInOrder, Push
      <3> QED
        BY <1>0, <1>4, <2>1, <2>4, <3>1 DEF QueueInv, QueueInOrder
    <2>7. NothingMissing'
      BY <1>0, <1>1, <1>4, <2>1, <2>3 DEF NothingMissing, Nothing
    <2> QED
      BY <2>3, <2>5, <2>6, <2>7 DEF QueueInv
  <1> QED
    BY <1>2, <1>3, <1>4 DEF WaitAndPush

\* The exit comes after all chunks, for the SDK holds none.
LEMMA CompleteKeeps ==
    ASSUME QueueInv, Complete
    PROVE  QueueInv'
  <1> DEFINE e == <<Exit, 0>>
  <1>0. /\ sdk = "running" /\ offered = Nothing /\ started /\ sdk' = "exited" /\ kind # "none"
        /\ UNCHANGED <<kind, started, buffered, offered, total, chunks>>
    BY DEF Complete, QueueInv, QueueInOrder
  <1>1. /\ e \in QueueEvents /\ e[1] = Exit
        /\ chunks \in Nat /\ chunks' \in Nat /\ chunks <= chunks'
        /\ AllSent \in Nat /\ Passed \in Nat
        /\ SentAt(kind, chunks', AllSent + 1) = Exit /\ AllSent' = AllSent + 1
    BY <1>0, Counts, QueueAssumption, NextChunk DEF QueueInv, QueueEvents, Exit, AllSent
  <1> HIDE DEF e
  <1>2. CASE end # "open" /\ UNCHANGED <<pending, end, parked, waiting, got, told>>
    <2>1. end = "failed"
      BY <1>0, <1>2 DEF QueueInv, QueueTyped, QueueInOrder
    <2>2. QueueTyped' /\ QueueInOrder'
      BY <1>0, <1>2, <2>1 DEF QueueInv, QueueTyped, QueueInOrder, Nothing
    <2>3. InSequence'
      BY <1>0, <1>1, <1>2, MoreSent DEF QueueInv
    <2>4. NothingMissing'
      BY <1>2, <2>1 DEF NothingMissing
    <2> QED
      BY <2>2, <2>3, <2>4 DEF QueueInv
  <1>3. CASE end = "open" /\ Push(e) /\ end' = "closed" /\ UNCHANGED <<parked, told>>
    <2>1. Passed = AllSent
      BY <1>0, <1>1, <1>3 DEF QueueInv, NothingMissing
    <2>2. e[1] = SentAt(kind, chunks', Passed + 1) /\ Passed + 1 <= AllSent'
      BY <1>1, <2>1
    <2>3. InSequence' /\ Passed' = Passed + 1
      BY <1>0, <1>1, <1>3, <2>2, PushInSequence DEF QueueInv
    <2>4. got' \in Seq(Nat) /\ pending' \in Seq(QueueEvents) /\ waiting' = FALSE
      BY <1>1, <1>3, PushAdds DEF QueueInv, QueueInOrder
    <2>5. QueueTyped' /\ QueueInOrder'
      BY <1>0, <1>3, <2>4 DEF QueueInv, QueueTyped, QueueInOrder, Nothing
    <2>6. NothingMissing'
      BY <1>0, <1>1, <1>3, <2>1, <2>3 DEF NothingMissing, Nothing
    <2> QED
      BY <2>3, <2>5, <2>6 DEF QueueInv
  <1> QED
    BY <1>0, <1>2, <1>3 DEF Complete, e

\* The steps by which nothing is sent and nothing is read.
LEMMA QuietQueueKeeps ==
    ASSUME QueueInv, BreakStream \/ FailQueue \/ StartTerminalSession
    PROVE  QueueInv'
  <1>1. /\ UNCHANGED <<kind, buffered, pending, offered, chunks, got>>
        /\ sdk' \in {sdk, "broken"} /\ (sdk' = "broken" => sdk # "exited") /\ AllSent' = AllSent
    <2>1. /\ UNCHANGED <<kind, buffered, pending, offered, chunks, got>>
          /\ sdk' \in {sdk, "broken"} /\ (sdk' = "broken" => sdk # "exited")
      BY DEF BreakStream, FailQueue, StartTerminalSession, QueueInv, QueueInOrder
    <2> QED
      BY <2>1 DEF AllSent, SentLen
  <1>2. QueueTyped'
    BY <1>1
       DEF BreakStream, FailQueue, StartTerminalSession, EndQueue, QueueInv, QueueTyped
  <1>3. QueueInOrder'
    BY <1>1
       DEF BreakStream, FailQueue, StartTerminalSession, EndQueue, QueueInv, QueueInOrder, Nothing
  <1>4. InSequence' /\ Passed' = Passed
    BY <1>1 DEF QueueInv, InSequence, Passed
  <1>5. NothingMissing'
    BY <1>1, <1>4
       DEF BreakStream, FailQueue, StartTerminalSession, EndQueue, QueueInv, NothingMissing, Nothing
  <1> QED
    BY <1>2, <1>3, <1>4, <1>5 DEF QueueInv

\* The reader takes what is pending from the front.
LEMMA NextEventKeeps ==
    ASSUME QueueInv, NextEvent
    PROVE  QueueInv'
  <1>0. /\ ~waiting /\ told = "open" /\ started /\ kind # "none"
        /\ UNCHANGED <<kind, started, buffered, end, offered, total, chunks, sdk>>
    BY DEF NextEvent, QueueInv, QueueInOrder
  <1>1. CASE /\ pending # <<>>
             /\ pending' = Tail(pending) /\ got' = Append(got, Head(pending)[1])
             /\ parked' = FALSE /\ UNCHANGED <<waiting, told>>
    <2>0. Len(pending) \in Nat /\ Len(got) \in Nat /\ Head(pending) = pending[1]
          /\ pending \in Seq(QueueEvents) /\ got \in Seq(Nat)
      BY Counts DEF QueueInv, QueueTyped
    <2>1. /\ Tail(pending) \in Seq(QueueEvents) /\ Len(Tail(pending)) = Len(pending) - 1
          /\ \A i \in 1 .. Len(Tail(pending)) : Tail(pending)[i] = pending[i + 1]
          /\ Len(pending) >= 1
      BY <1>1, <2>0, HeadTailProperties, EmptySeq
    <2>2. Head(pending) \in QueueEvents /\ Head(pending)[1] \in Nat
      <3>1. Head(pending) \in QueueEvents
        BY <1>1, <2>0, HeadTailProperties
      <3> QED
        BY <3>1 DEF QueueEvents
    <2>3. /\ got' \in Seq(Nat) /\ Len(got') = Len(got) + 1
          /\ \A i \in 1 .. Len(got) : got'[i] = got[i]
          /\ got'[Len(got) + 1] = pending[1][1]
      BY <1>1, <2>0, <2>2, AppendProperties
    <2>4. QueueTyped' /\ QueueInOrder'
      BY <1>0, <1>1, <2>1, <2>3 DEF QueueInv, QueueTyped, QueueInOrder, Nothing
    <2>5. Passed' = Passed /\ AllSent' = AllSent
      BY <1>0, <1>1, <2>0, <2>1, <2>3 DEF Passed, AllSent
    <2>6. ASSUME NEW i \in 1 .. Len(got') PROVE got'[i] = SentAt(kind, chunks, i)
      <3>1. pending[1][1] = SentAt(kind, chunks, Len(got) + 1)
        BY <2>0, <2>1 DEF QueueInv, InSequence
      <3>2. CASE i \in 1 .. Len(got)
        BY <2>3, <3>2 DEF QueueInv, InSequence
      <3>3. CASE i = Len(got) + 1
        BY <2>3, <3>1, <3>3
      <3> QED
        BY <2>0, <2>3, <3>2, <3>3
    <2>7. ASSUME NEW i \in 1 .. Len(pending')
          PROVE  pending'[i][1] = SentAt(kind, chunks, Len(got') + i)
      <3>1. i + 1 \in 1 .. Len(pending) /\ Len(got) + (i + 1) = Len(got') + i
        BY <1>1, <2>0, <2>1, <2>3
      <3>2. pending[i + 1][1] = SentAt(kind, chunks, Len(got) + (i + 1))
        BY <3>1 DEF QueueInv, InSequence
      <3> QED
        BY <1>1, <2>1, <3>1, <3>2
    <2>8. InSequence'
      BY <1>0, <2>5, <2>6, <2>7 DEF QueueInv, InSequence
    <2>9. NothingMissing'
      BY <1>0, <2>5 DEF QueueInv, NothingMissing, Nothing
    <2> QED
      BY <2>4, <2>8, <2>9 DEF QueueInv
  <1>2. CASE pending = <<>> /\ told' = end /\ waiting' = (end = "open")
             /\ UNCHANGED <<pending, parked, got>>
    <2>1. QueueTyped' /\ QueueInOrder'
      BY <1>0, <1>2 DEF QueueInv, QueueTyped, QueueInOrder, Nothing
    <2>2. InSequence' /\ NothingMissing'
      BY <1>0, <1>2 DEF QueueInv, InSequence, NothingMissing, Passed, AllSent, Nothing
    <2> QED
      BY <2>1, <2>2 DEF QueueInv
  <1> QED
    BY <1>0, <1>1, <1>2 DEF NextEvent

\* Every step of a session keeps the invariant.
LEMMA QueueNextInv == QueueInv /\ [QueueNext]_queueVars => QueueInv'
  <1>1. CASE UNCHANGED queueVars
    BY <1>1 DEF queueVars, QueueInv, QueueTyped, QueueInOrder, InSequence, NothingMissing,
                Passed, AllSent, Nothing
  <1> QED
    BY <1>1, BeginSessionKeeps, EmitOutputKeeps, OfferOutputKeeps, StartProcessKeeps,
       QuietQueueKeeps, WaitAndPushKeeps, CompleteKeeps, NextEventKeeps DEF QueueNext

-----------------------------------------------------------------------------
Continues(a, b) == Len(b) >= Len(a) /\ SubSeq(b, 1, Len(a)) = a

\* What is sent continues what was sent, until the exit.
LEMMA SentGrows ==
    ASSUME NEW k, NEW c \in Nat, NEW d \in Nat, c <= d, NEW s, NEW t, s # "exited"
    PROVE  Continues(SentOf(k, c, s), SentOf(k, d, t))
  <1> DEFINE a == SentOf(k, c, s)
             b == SentOf(k, d, t)
             u == SubSeq(b, 1, Len(a))
  <1>1. /\ a \in Seq(Nat) /\ Len(a) \in Nat /\ Len(a) = FirstLen(k) + c /\ FirstLen(k) \in Nat
        /\ \A i \in 1 .. Len(a) : a[i] = SentAt(k, c, i)
    <2>1. /\ a \in Seq(Nat) /\ Len(a) = SentLen(k, c, s)
          /\ \A i \in 1 .. SentLen(k, c, s) : a[i] = SentAt(k, c, i)
      BY SentIs
    <2>2. SentLen(k, c, s) \in Nat /\ SentLen(k, c, s) = FirstLen(k) + c /\ FirstLen(k) \in Nat
      BY SentLenIs, FirstLenIs
    <2> QED
      BY <2>1, <2>2
  <1>2. /\ b \in Seq(Nat) /\ Len(b) \in Nat /\ Len(b) >= FirstLen(k) + d
        /\ \A i \in 1 .. Len(b) : b[i] = SentAt(k, d, i)
    <2>1. /\ b \in Seq(Nat) /\ Len(b) = SentLen(k, d, t)
          /\ \A i \in 1 .. SentLen(k, d, t) : b[i] = SentAt(k, d, i)
      BY SentIs
    <2>2. SentLen(k, d, t) \in Nat /\ SentLen(k, d, t) >= FirstLen(k) + d
      BY SentLenIs, <1>1
    <2> QED
      BY <2>1, <2>2
  <1> HIDE DEF a, b
  <1>3. /\ u \in Seq(Nat) /\ Len(u) = Len(a)
        /\ \A i \in 1 .. Len(a) : u[i] = b[i]
    <2> DEFINE n == Len(a)
    <2>1. n \in Int /\ n <= Len(b) /\ n >= 0
      BY <1>1, <1>2
    <2> HIDE DEF n
    <2>2. \A i \in 1 .. n : b[i] \in Nat
      <3>1. \A i \in 1 .. Len(b) : b[i] \in Nat
        BY <1>2, ElementOfSeq
      <3> QED
        BY <1>2, <2>1, <3>1
    <2>3. /\ SubSeq(b, 1, n) \in Seq(Nat)
          /\ Len(SubSeq(b, 1, n)) = IF 1 <= n THEN n - 1 + 1 ELSE 0
          /\ \A i \in 1 .. n - 1 + 1 : SubSeq(b, 1, n)[i] = b[1 + i - 1]
      BY <2>1, <2>2, SubSeqProperties
    <2> QED
      BY <2>1, <2>3 DEF n
  <1>4. ASSUME NEW i \in 1 .. Len(a) PROVE u[i] = a[i]
    <2>1. i \in 1 .. SentLen(k, c, s) /\ i \in 1 .. Len(b)
      <3>1. SentLen(k, c, s) = FirstLen(k) + c
        BY SentLenIs
      <3>2. FirstLen(k) + c <= FirstLen(k) + d
        BY <1>1
      <3> QED
        BY <1>1, <1>2, <3>1, <3>2
    <2>2. SentAt(k, d, i) = SentAt(k, c, i)
      BY <2>1, SentAtStays
    <2> QED
      BY <1>1, <1>2, <1>3, <2>1, <2>2
  <1> HIDE DEF u
  <1>5. u = a
    BY <1>1, <1>3, <1>4, SeqEqual
  <1> QED
    BY <1>1, <1>2, <1>5 DEF a, b, u, Continues

\* A step that writes a chunk, or in which the process ends, is SendEvent.
LEMMA SendStep ==
    ASSUME QueueInv, sdk # "exited", chunks' \in Nat, told' = told,
           \/ kind' = kind /\ chunks' = chunks + 1 /\ sdk' # "exited"
           \/ kind' = kind /\ chunks' = chunks /\ sdk' = "exited"
    PROVE  Stream!SendEvent
  <1>1. chunks \in Nat /\ chunks <= chunks' /\ FirstLen(kind) \in Nat
    BY Counts DEF QueueInv
  <1>2. /\ SentEvents = SentOf(kind, chunks, sdk) /\ SentEvents' = SentOf(kind, chunks', sdk')
    BY DEF SentEvents, SentOf
  <1>3. /\ Len(SentEvents) = FirstLen(kind) + chunks
        /\ Len(SentEvents') = FirstLen(kind) + chunks + 1
    <2>1. /\ Len(SentEvents) = SentLen(kind, chunks, sdk)
          /\ Len(SentEvents') = SentLen(kind', chunks', sdk')
      BY <1>1, <1>2, SentIs
    <2> QED
      BY <1>1, <2>1, SentLenIs
  <1>4. SubSeq(SentEvents', 1, Len(SentEvents)) = SentEvents
    <2>1. Continues(SentOf(kind, chunks, sdk), SentOf(kind, chunks', sdk'))
      BY <1>1, SentGrows
    <2> QED
      BY <1>2, <2>1 DEF Continues
  <1>5. ASSUME NEW i \in 1 .. Len(SentEvents) PROVE SentEvents[i] # Exit
    <2>1. SentEvents[i] = i - FirstLen(kind)
      BY <1>1, <1>2, <1>3, SentIs, SentLenIs DEF SentAt
    <2>2. chunks <= MaxChunks
      BY QueueAssumption DEF QueueInv, QueueTyped
    <2> QED
      BY <1>1, <1>3, <2>1, <2>2, QueueAssumption DEF Exit
  <1> QED
    BY <1>3, <1>4, <1>5 DEF Stream!SendEvent

\* The reader gets the event that is next.
LEMMA ReceiveStep ==
    ASSUME QueueInv, QueueInv', NEW x \in Nat, got' = Append(got, x), told = "open",
           told' = told
    PROVE  Stream!Receive
  <1>1. Len(got) \in Nat /\ Len(got') = Len(got) + 1 /\ got'[Len(got) + 1] = x
    BY AppendProperties DEF QueueInv, QueueTyped
  <1>2. QueueTyped' /\ InSequence' /\ kind' # "none"
    <2>1. got' # <<>>
      BY <1>1
    <2> QED
      BY <2>1 DEF QueueInv, QueueInOrder
  <1>3. Len(pending') \in Nat /\ AllSent' \in Nat /\ chunks' \in Nat
    <2>1. chunks' \in Nat /\ Len(pending') \in Nat
      BY <1>2, QueueAssumption DEF QueueTyped
    <2>2. AllSent' = SentLen(kind', chunks', sdk')
      BY DEF AllSent
    <2> QED
      BY <2>1, <2>2, SentLenIs
  <1>4. Len(got) + 1 <= AllSent' /\ x = SentAt(kind', chunks', Len(got) + 1)
    BY <1>1, <1>2, <1>3 DEF InSequence, Passed
  <1>5. Len(SentEvents') = AllSent' /\ SentEvents'[Len(got) + 1] = x
    <2>1. SentEvents' = SentOf(kind', chunks', sdk') /\ AllSent' = SentLen(kind', chunks', sdk')
      BY DEF SentEvents, SentOf, AllSent
    <2> QED
      BY <1>1, <1>3, <1>4, <2>1, SentIs
  <1> QED
    BY <1>1, <1>3, <1>4, <1>5 DEF Stream!Receive

\* The reader is told of a failure.
LEMMA FailureStep ==
    ASSUME QueueInv, told = "open", told' = "failed", got' = got, kind' = kind,
           chunks' \in Nat, chunks <= chunks',
           sdk # "exited" \/ (sdk' = sdk /\ chunks' = chunks)
    PROVE  Stream!EndInFailure
  <1>1. chunks \in Nat
    BY Counts DEF QueueInv
  <1>2. SentEvents = SentOf(kind, chunks, sdk) /\ SentEvents' = SentOf(kind, chunks', sdk')
    BY DEF SentEvents, SentOf
  <1>3. Len(SentEvents') >= Len(SentEvents) /\ SubSeq(SentEvents', 1, Len(SentEvents)) = SentEvents
    <2>1. CASE sdk # "exited"
      <3>1. Continues(SentOf(kind, chunks, sdk), SentOf(kind, chunks', sdk'))
        BY <1>1, <2>1, SentGrows
      <3> QED
        BY <1>2, <3>1 DEF Continues
    <2>2. CASE sdk' = sdk /\ chunks' = chunks
      <3>1. SentEvents \in Seq(Nat) /\ SentEvents' = SentEvents
        BY <1>1, <1>2, <2>2, SentIs
      <3> QED
        BY <3>1
    <2> QED
      BY <2>1, <2>2
  <1> QED
    BY <1>3 DEF Stream!EndInFailure

\* The reader that is told of a normal end has got everything.
LEMMA NormalEndStep ==
    ASSUME QueueInv, kind # "none", started, end = "closed", pending = <<>>, told = "open",
           told' = "closed", UNCHANGED <<kind, chunks, sdk, got>>
    PROVE  Stream!EndNormally
  <1>1. sdk = "exited" /\ chunks \in Nat /\ got \in Seq(Nat) /\ Len(got) \in Nat
    BY Counts DEF QueueInv, QueueInOrder, QueueTyped
  <1>2. Len(got) = AllSent
    BY <1>1, Counts DEF QueueInv, QueueInOrder, NothingMissing, Passed
  <1>3. AllSent = FirstLen(kind) + chunks + 1 /\ FirstLen(kind) \in Nat
    BY <1>1, FirstLenIs, SentLenIs DEF AllSent
  <1>4. SentEvents = SentOf(kind, chunks, sdk) /\ SentEvents' = SentEvents
    BY DEF SentEvents, SentOf
  <1>5. /\ SentEvents \in Seq(Nat) /\ Len(SentEvents) = Len(got)
        /\ \A i \in 1 .. Len(got) : SentEvents[i] = SentAt(kind, chunks, i)
    BY <1>1, <1>2, <1>4, SentIs DEF AllSent
  <1>6. got = SentEvents
    BY <1>1, <1>5, SeqEqual DEF QueueInv, InSequence
  <1>7. got[Len(got)] = Exit /\ got # <<>>
    <2>1. Len(got) \in 1 .. Len(got) /\ SentAt(kind, chunks, Len(got)) = Exit
      BY <1>1, <1>2, <1>3 DEF SentAt
    <2> QED
      BY <1>5, <1>6, <2>1
  <1> QED
    BY <1>4, <1>6, <1>7 DEF Stream!EndNormally

\* A step in which nothing is sent and nothing is read is a stutter.
LEMMA QuietStep ==
    ASSUME QueueInv, UNCHANGED <<got, told, chunks>>,
           \/ kind' = kind /\ sdk' = sdk
           \/ kind' = kind /\ sdk # "exited" /\ sdk' # "exited"
           \/ kind = "none" /\ kind' = "terminal" /\ sdk' = sdk
    PROVE  UNCHANGED <<SentEvents, got, told>>
  BY DEF SentEvents

\* A process session begins by SendEvent.
LEMMA BeginSessionStep ==
    ASSUME QueueInv, NEW k \in {"process", "terminal"}, BeginSession(k)
    PROVE  [Stream!StreamNext]_<<SentEvents, got, told>>
  <1>0. /\ kind = "none" /\ kind' = k /\ chunks = 0 /\ sdk = "running"
        /\ UNCHANGED <<chunks, sdk, got, told>>
    BY DEF BeginSession, QueueInv, QueueInOrder
  <1>1. CASE k = "terminal"
    BY <1>0, <1>1, QuietStep
  <1>2. CASE k = "process"
    <2>1. SentEvents = SentOf(kind, chunks, sdk) /\ SentEvents' = SentOf(kind', chunks, sdk)
      BY <1>0 DEF SentEvents, SentOf
    <2>2. /\ SentEvents \in Seq(Nat) /\ Len(SentEvents) = 0
          /\ SentEvents' \in Seq(Nat) /\ Len(SentEvents') = 1
      <3>1. SentLen(kind, chunks, sdk) = 0 /\ SentLen(kind', chunks, sdk) = 1
        <4>1. FirstLen(kind) = 0 /\ FirstLen(kind') = 1
          BY <1>0, <1>2 DEF FirstLen
        <4> QED
          BY <1>0, <4>1 DEF SentLen
      <3>2. chunks \in Nat
        BY <1>0
      <3> QED
        BY <2>1, <3>1, <3>2, SentIs
    <2>3. SubSeq(SentEvents', 1, Len(SentEvents)) = SentEvents
      <3>1. SubSeq(SentEvents', 1, 0) = <<>> /\ SentEvents = <<>>
        BY <2>2, SubSeqProperties, EmptySeq
      <3> QED
        BY <2>2, <3>1
    <2>4. Stream!SendEvent /\ UNCHANGED got
      BY <1>0, <2>2, <2>3 DEF Stream!SendEvent
    <2> QED
      BY <2>4 DEF Stream!StreamNext
  <1> QED
    BY <1>1, <1>2

\* An event goes to the reader that waits, or to pending.
LEMMA PushStep ==
    ASSUME QueueInv, QueueInv', NEW e \in QueueEvents, Push(e), told' = told, end = "open"
    PROVE  got' = got \/ Stream!Receive
  <1>1. CASE waiting
    <2>1. got' = Append(got, e[1]) /\ told = "open" /\ e[1] \in Nat
      BY <1>1 DEF Push, QueueInv, QueueInOrder, QueueEvents
    <2> QED
      BY <2>1, ReceiveStep
  <1>2. CASE ~waiting
    BY <1>2 DEF Push
  <1> QED
    BY <1>1, <1>2

\* A chunk of a process is sent, or the stream fails.
LEMMA EmitOutputStep ==
    ASSUME QueueInv, QueueInv', NEW size \in Sizes, EmitOutput(size)
    PROVE  Stream!StreamNext
  <1> DEFINE e == <<chunks + 1, size>>
  <1>0. kind' = kind /\ sdk = "running" /\ sdk' = sdk /\ chunks' = chunks + 1
    BY DEF EmitOutput
  <1>1. chunks \in Nat /\ chunks' \in Nat /\ chunks <= chunks' /\ e \in QueueEvents
    BY <1>0, Counts, QueueAssumption DEF QueueInv, QueueEvents, Sizes
  <1> HIDE DEF e
  <1>2. CASE UNCHANGED <<got, told>>
    BY <1>0, <1>1, <1>2, SendStep DEF Stream!StreamNext
  <1>3. CASE FailOutput
    <2>1. CASE waiting
      <3>1. told = "open" /\ told' = "failed" /\ got' = got
        BY <1>3, <2>1 DEF FailOutput, QueueInv, QueueInOrder
      <3> QED
        BY <1>0, <1>1, <3>1, FailureStep DEF Stream!StreamNext
    <2>2. CASE ~waiting
      BY <1>2, <1>3, <2>2 DEF FailOutput
    <2> QED
      BY <2>1, <2>2
  <1>4. CASE end = "open" /\ Push(e) /\ UNCHANGED told
    <2>1. Stream!SendEvent
      BY <1>0, <1>1, <1>4, SendStep
    <2> QED
      BY <1>1, <1>4, <2>1, PushStep DEF Stream!StreamNext
  <1> QED
    BY <1>2, <1>3, <1>4 DEF EmitOutput, Buffer, e

\* A chunk of a terminal is sent when the SDK has it, or the stream fails.
LEMMA OfferOutputStep ==
    ASSUME QueueInv, NEW size \in Sizes, OfferOutput(size)
    PROVE  Stream!StreamNext
  <1>0. /\ kind' = kind /\ sdk = "running" /\ sdk' # "exited" /\ chunks' = chunks + 1
        /\ got' = got
    BY DEF OfferOutput
  <1>1. chunks \in Nat /\ chunks' \in Nat /\ chunks <= chunks'
    BY <1>0, Counts DEF QueueInv
  <1>2. CASE told' = told
    BY <1>0, <1>1, <1>2, SendStep DEF Stream!StreamNext
  <1>3. CASE waiting /\ told' = "failed"
    <2>1. told = "open"
      BY <1>3 DEF QueueInv, QueueInOrder
    <2> QED
      BY <1>0, <1>1, <1>3, <2>1, FailureStep DEF Stream!StreamNext
  <1> QED
    BY <1>2, <1>3 DEF OfferOutput, EndQueue

\* The caller gets the session, or the failure that came before.
LEMMA StartSessionStep ==
    ASSUME QueueInv, StartProcessSession \/ StartTerminalSession
    PROVE  [Stream!StreamNext]_<<SentEvents, got, told>>
  <1>0. UNCHANGED <<kind, chunks, sdk, got>> /\ chunks \in Nat
    BY Counts DEF StartProcessSession, StartTerminalSession, QueueInv
  <1>1. CASE told' = told
    BY <1>0, <1>1, QuietStep
  <1>2. CASE StartProcessSession /\ told' # told
    <2>1. told = "open" /\ told' = end /\ end # "open" /\ ~started
      BY <1>2 DEF StartProcessSession
    <2>2. told' = "failed"
      BY <2>1 DEF QueueInv, QueueTyped, QueueInOrder
    <2> QED
      BY <1>0, <2>1, <2>2, FailureStep DEF Stream!StreamNext
  <1> QED
    BY <1>1, <1>2 DEF StartTerminalSession

\* The chunk that is held has been sent before.
LEMMA WaitAndPushStep ==
    ASSUME QueueInv, QueueInv', WaitAndPush
    PROVE  [Stream!StreamNext]_<<SentEvents, got, told>>
  <1>0. /\ UNCHANGED <<kind, chunks, told, end>> /\ sdk = "running" /\ sdk' # "exited"
        /\ offered \in QueueEvents /\ end # "closed"
    BY DEF WaitAndPush, QueueInv, QueueTyped, QueueInOrder
  <1>1. SentEvents' = SentEvents
    BY <1>0 DEF SentEvents
  <1>2. CASE got' = got
    BY <1>0, <1>1, <1>2
  <1>3. CASE end # "failed" /\ Push(offered)
    <2>1. end = "open"
      BY <1>0, <1>3 DEF QueueInv, QueueTyped
    <2> QED
      BY <1>0, <1>1, <1>3, <2>1, PushStep DEF Stream!StreamNext
  <1> QED
    BY <1>2, <1>3 DEF WaitAndPush

\* The exit is sent.
LEMMA CompleteStep ==
    ASSUME QueueInv, QueueInv', Complete
    PROVE  Stream!StreamNext
  <1>0. /\ UNCHANGED <<kind, chunks, told>> /\ sdk = "running" /\ sdk' = "exited"
        /\ chunks' \in Nat /\ <<Exit, 0>> \in QueueEvents
    BY Counts, QueueAssumption DEF Complete, QueueInv, QueueEvents, Exit
  <1>1. Stream!SendEvent
    BY <1>0, SendStep
  <1>2. got' = got \/ Stream!Receive
    BY <1>0, PushStep DEF Complete
  <1> QED
    BY <1>1, <1>2 DEF Stream!StreamNext

\* The stream breaks, and the queue fails.
LEMMA QuietQueueStep ==
    ASSUME QueueInv, BreakStream \/ FailQueue
    PROVE  [Stream!StreamNext]_<<SentEvents, got, told>>
  <1>0. /\ UNCHANGED <<kind, chunks, got>> /\ sdk # "exited" /\ sdk' # "exited"
        /\ chunks' \in Nat
    BY Counts DEF BreakStream, FailQueue, QueueInv
  <1>1. CASE told' = told
    BY <1>0, <1>1, QuietStep
  <1>2. CASE waiting /\ told' = "failed"
    <2>1. told = "open"
      BY <1>2 DEF QueueInv, QueueInOrder
    <2> QED
      BY <1>0, <1>2, <2>1, Counts, FailureStep DEF Stream!StreamNext, QueueInv
  <1> QED
    BY <1>1, <1>2 DEF BreakStream, FailQueue, EndQueue

\* The reader receives an event, or how the stream ended.
LEMMA NextEventStep ==
    ASSUME QueueInv, QueueInv', NextEvent
    PROVE  [Stream!StreamNext]_<<SentEvents, got, told>>
  <1>0. /\ UNCHANGED <<kind, chunks, sdk>> /\ told = "open" /\ started /\ kind # "none"
        /\ end \in {"open", "closed", "failed"} /\ chunks' \in Nat
    BY Counts DEF NextEvent, QueueInv, QueueTyped, QueueInOrder
  <1>1. SentEvents' = SentEvents
    BY <1>0 DEF SentEvents
  <1>2. CASE pending # <<>>
    <2>1. got' = Append(got, Head(pending)[1]) /\ told' = told
      BY <1>2 DEF NextEvent
    <2>2. Head(pending) \in QueueEvents
      BY <1>2, HeadTailProperties DEF QueueInv, QueueTyped
    <2>3. Head(pending)[1] \in Nat
      BY <2>2 DEF QueueEvents
    <2> QED
      BY <1>0, <1>1, <2>1, <2>3, ReceiveStep DEF Stream!StreamNext
  <1>3. CASE pending = <<>>
    <2>1. told' = end /\ got' = got
      BY <1>3 DEF NextEvent
    <2>2. CASE end = "open"
      BY <1>0, <1>1, <2>1, <2>2
    <2>3. CASE end = "closed"
      BY <1>0, <1>3, <2>1, <2>3, NormalEndStep DEF Stream!StreamNext
    <2>4. CASE end = "failed"
      BY <1>0, <2>1, <2>4, FailureStep, Counts DEF Stream!StreamNext, QueueInv
    <2> QED
      BY <1>0, <2>2, <2>3, <2>4
  <1> QED
    BY <1>2, <1>3

\* Every step of a session is a step of the stream, or none.
LEMMA QueueStep ==
    QueueInv /\ QueueInv' /\ [QueueNext]_queueVars
      => [Stream!StreamNext]_<<SentEvents, got, told>>
  <1> SUFFICES ASSUME QueueInv, QueueInv', [QueueNext]_queueVars
               PROVE  [Stream!StreamNext]_<<SentEvents, got, told>>
    OBVIOUS
  <1>1. CASE UNCHANGED queueVars
    BY <1>1 DEF queueVars, SentEvents
  <1>2. CASE QueueNext
    BY <1>2, BeginSessionStep, EmitOutputStep, OfferOutputStep, StartSessionStep,
       WaitAndPushStep, CompleteStep, QuietQueueStep, NextEventStep DEF QueueNext
  <1> QED
    BY <1>1, <1>2

\* Both kinds of session implement the stream, whatever the limits: the reader gets what
\* was sent, in order and without a gap, and is told of a normal end only when he has got
\* everything up to the exit; only a failure cuts the stream short.
THEOREM StreamCorrect == QueueSpec => ImplementsStream
  <1>1. QueueInit => Stream!StreamInit
    BY DEF QueueInit, Stream!StreamInit
  <1> QED
    BY <1>1, QueueInitInv, QueueNextInv, QueueStep, PTL
       DEF QueueSpec, ImplementsStream, Stream!StreamSpec

-----------------------------------------------------------------------------
(* Sums over a finite set.  Both are by the smallest subset for which it   *)
(* fails, since induction over sets cannot be used here.                   *)

\* Of the subsets of a finite set that have a property, one is smallest.
LEMMA SmallestSubset ==
    ASSUME NEW S, IsFiniteSet(S), NEW T, T \subseteq SUBSET S, T # {}
    PROVE  \E A \in T : \A B \in T : B \subseteq A => B = A
  <1>1. IsWellFoundedOn(StrictSubsetOrdering(S), SUBSET S)
    BY FS_StrictSubsetOrderingWellFounded, FS_FiniteSubsetsOfFinite
  <1>2. \E A \in T : \A B \in T : <<B, A>> \notin StrictSubsetOrdering(S)
    BY <1>1, WFMin
  <1> QED
    BY <1>2 DEF StrictSubsetOrdering

\* F gives the sum of w over every subset of S.
IsSumOf(F, w, S) ==
    /\ F \in [SUBSET S -> Nat] /\ F[{}] = 0
    /\ \A t \in SUBSET S : \A x \in t : F[t] = w[x] + F[t \ {x}]

\* There is such a sum of any numbers.
LEMMA SumExists ==
    ASSUME NEW S, IsFiniteSet(S), NEW w, \A x \in S : w[x] \in Nat
    PROVE  \E F : IsSumOf(F, w, S)
  <1> DEFINE T == {A \in SUBSET S : ~ \E F : IsSumOf(F, w, A)}
  <1> SUFFICES ASSUME T # {} PROVE FALSE
    OBVIOUS
  <1>0. T \subseteq SUBSET S
    OBVIOUS
  <1> HIDE DEF T
  <1>1. PICK A \in T : \A B \in T : B \subseteq A => B = A
    BY <1>0, SmallestSubset
  <1> USE DEF T
  <1>2. CASE A = {}
    <2> DEFINE F == [t \in SUBSET A |-> 0]
    <2>1. IsSumOf(F, w, A)
      BY <1>2 DEF IsSumOf
    <2> QED
      BY <1>1, <2>1
  <1>3. CASE A # {}
    <2>1. PICK a \in A : TRUE
      BY <1>3
    <2>2. A \ {a} \notin T
      BY <1>1
    <2>3. PICK F : IsSumOf(F, w, A \ {a})
      BY <2>2
    <2> DEFINE G == [t \in SUBSET A |-> IF a \in t THEN w[a] + F[t \ {a}] ELSE F[t]]
    <2>4. G \in [SUBSET A -> Nat] /\ G[{}] = 0
      <3>1. \A t \in SUBSET A : /\ t \ {a} \in SUBSET (A \ {a})
                                /\ a \notin t => t \in SUBSET (A \ {a})
        OBVIOUS
      <3> QED
        BY <3>1, <2>1, <2>3 DEF IsSumOf
    <2>5. ASSUME NEW t \in SUBSET A, NEW x \in t PROVE G[t] = w[x] + G[t \ {x}]
      <3>1. t \ {x} \in SUBSET A /\ w[a] \in Nat /\ w[x] \in Nat
        OBVIOUS
      <3>2. CASE x = a
        <4>1. G[t] = w[a] + F[t \ {a}] /\ G[t \ {a}] = F[t \ {a}]
          BY <3>1, <3>2
        <4> QED
          BY <4>1, <3>2
      <3>3. CASE x # a /\ a \in t
        <4>1. t \ {a} \in SUBSET (A \ {a}) /\ x \in t \ {a} /\ (t \ {x}) \ {a} = (t \ {a}) \ {x}
          BY <3>3
        <4>2. F[t \ {a}] = w[x] + F[(t \ {a}) \ {x}] /\ F[(t \ {a}) \ {x}] \in Nat
          BY <4>1, <2>3 DEF IsSumOf
        <4>3. G[t] = w[a] + F[t \ {a}] /\ G[t \ {x}] = w[a] + F[(t \ {a}) \ {x}]
          BY <3>1, <3>3, <4>1
        <4> QED
          BY <3>1, <4>2, <4>3
      <3>4. CASE a \notin t
        <4>1. t \in SUBSET (A \ {a}) /\ G[t] = F[t] /\ G[t \ {x}] = F[t \ {x}]
          BY <3>1, <3>4
        <4> QED
          BY <4>1, <2>3 DEF IsSumOf
      <3> QED
        BY <3>2, <3>3, <3>4
    <2>6. IsSumOf(G, w, A)
      BY <2>4, <2>5 DEF IsSumOf
    <2> QED
      BY <1>1, <2>6
  <1> QED
    BY <1>2, <1>3

\* What agrees with the sum on one element of every subset is the sum.
LEMMA SumIs ==
    ASSUME NEW S, IsFiniteSet(S), NEW w, NEW F, IsSumOf(F, w, S), NEW G, G[{}] = 0,
           \A t \in SUBSET S : t # {} => \E x \in t : G[t] = w[x] + G[t \ {x}]
    PROVE  \A t \in SUBSET S : G[t] = F[t]
  <1> DEFINE T == {t \in SUBSET S : G[t] # F[t]}
  <1> SUFFICES ASSUME T # {} PROVE FALSE
    OBVIOUS
  <1>0. T \subseteq SUBSET S
    OBVIOUS
  <1> HIDE DEF T
  <1>1. PICK t \in T : \A u \in T : u \subseteq t => u = t
    BY <1>0, SmallestSubset
  <1> USE DEF T
  <1>2. t # {}
    BY DEF IsSumOf
  <1>3. PICK x \in t : G[t] = w[x] + G[t \ {x}]
    BY <1>2
  <1>4. t \ {x} \notin T
    BY <1>1
  <1> QED
    BY <1>3, <1>4 DEF IsSumOf

\* One round of a fold that adds up over a set, which chooses the elements one by one.
Adds(H, w, S) ==
    [t \in SUBSET S |-> IF t = {} THEN 0
                        ELSE w[CHOOSE x \in t : TRUE] + H[t \ {CHOOSE x \in t : TRUE}]]

\* Such a fold is the sum.
LEMMA FoldIsSum ==
    ASSUME NEW S, IsFiniteSet(S), NEW w, \A x \in S : w[x] \in Nat,
           NEW F, IsSumOf(F, w, S), NEW G, G = Adds(G, w, S)
    PROVE  G = F
  <1>2. G = [t \in SUBSET S |-> G[t]] /\ F = [t \in SUBSET S |-> F[t]]
    BY DEF IsSumOf, Adds
  <1>3. G[{}] = 0
    BY DEF Adds
  <1>4. ASSUME NEW t \in SUBSET S, t # {} PROVE \E x \in t : G[t] = w[x] + G[t \ {x}]
    <2> DEFINE c == CHOOSE x \in t : TRUE
    <2>1. c \in t
      BY <1>4
    <2>2. G[t] = w[c] + G[t \ {c}]
      BY <1>4 DEF Adds
    <2> QED
      BY <2>1, <2>2
  <1>5. \A t \in SUBSET S : G[t] = F[t]
    BY ONLY <1>3, <1>4, SumIs, IsFiniteSet(S), IsSumOf(F, w, S)
  <1> QED
    BY ONLY <1>2, <1>5

\* It comes to an end, since the sum is such a fold.
LEMMA SumFolds ==
    ASSUME NEW S, NEW w, NEW F, IsSumOf(F, w, S)
    PROVE  F = Adds(F, w, S)
  BY DEF IsSumOf, Adds

\* The sizes in a sequence are added up in this way.
LEMMA BytesIs ==
    ASSUME NEW s, NEW S, S = DOMAIN s, IsFiniteSet(S), \A i \in S : s[i][2] \in Nat,
           NEW w, w = [i \in S |-> s[i][2]], NEW F, IsSumOf(F, w, S)
    PROVE  BytesOf(s) = F[S]
  <1> DEFINE Step(H) == [t \in SUBSET DOMAIN s |->
                  IF t = {} THEN 0
                  ELSE s[CHOOSE x \in t : TRUE][2] + H[t \ {CHOOSE x \in t : TRUE}]]
             Fold == CHOOSE H : H = Step(H)
  <1>1. BytesOf(s) = Fold[DOMAIN s]
    BY DEF BytesOf, FoldSeq, FoldFunction, FoldFunctionOnSet, MapThenFoldSet
  <1>2. ASSUME NEW H PROVE Step(H) = Adds(H, w, S)
    <2>1. ASSUME NEW t \in SUBSET S, t # {}
          PROVE  s[CHOOSE x \in t : TRUE][2] = w[CHOOSE x \in t : TRUE]
      <3>1. (CHOOSE x \in t : TRUE) \in S
        BY <2>1
      <3> QED
        BY <3>1
    <2> QED
      BY <2>1 DEF Adds
  <1> HIDE DEF Step
  <1>3. F = Step(F)
    BY <1>2, SumFolds
  <1>4. Fold = Step(Fold)
    BY <1>3
  <1> HIDE DEF Fold
  <1>5. Fold = Adds(Fold, w, S)
    BY <1>2, <1>4
  <1>6. \A x \in S : w[x] \in Nat
    OBVIOUS
  <1>7. Fold = F
    BY <1>5, <1>6, FoldIsSum
  <1> QED
    BY <1>1, <1>7

-----------------------------------------------------------------------------
(* The bytes of a queue                                                    *)

SizesOf(s) == [i \in DOMAIN s |-> s[i][2]]

\* A sequence of events has finitely many, and each has a size.
LEMMA EventsOf ==
    ASSUME NEW s \in Seq(QueueEvents)
    PROVE  /\ Len(s) \in Nat /\ DOMAIN s = 1 .. Len(s) /\ IsFiniteSet(DOMAIN s)
           /\ \A i \in DOMAIN s : s[i] \in QueueEvents /\ s[i][2] \in Nat /\ SizesOf(s)[i] \in Nat
  <1>1. Len(s) \in Nat /\ DOMAIN s = 1 .. Len(s) /\ \A i \in 1 .. Len(s) : s[i] \in QueueEvents
    BY ElementOfSeq
  <1>2. IsFiniteSet(1 .. Len(s))
    BY <1>1, FS_Interval
  <1> QED
    BY <1>1, <1>2 DEF QueueEvents, SizesOf

\* The bytes are the sum of the sizes.
LEMMA BytesAreSum ==
    ASSUME NEW s \in Seq(QueueEvents)
    PROVE  \E F : IsSumOf(F, SizesOf(s), DOMAIN s) /\ BytesOf(s) = F[DOMAIN s]
  <1>1. IsFiniteSet(DOMAIN s) /\ \A i \in DOMAIN s : s[i][2] \in Nat /\ SizesOf(s)[i] \in Nat
    BY EventsOf
  <1>2. PICK F : IsSumOf(F, SizesOf(s), DOMAIN s)
    BY <1>1, SumExists
  <1>3. BytesOf(s) = F[DOMAIN s]
    BY <1>1, <1>2, BytesIs DEF SizesOf
  <1> QED
    BY <1>2, <1>3

\* The bytes of a queue are a number, and none of an empty one.
LEMMA BytesType ==
    ASSUME NEW s \in Seq(QueueEvents)
    PROVE  BytesOf(s) \in Nat /\ (s = <<>> => BytesOf(s) = 0)
  <1>1. PICK F : IsSumOf(F, SizesOf(s), DOMAIN s) /\ BytesOf(s) = F[DOMAIN s]
    BY BytesAreSum
  <1>2. s = <<>> => DOMAIN s = {}
    BY EventsOf
  <1> QED
    BY <1>1, <1>2 DEF IsSumOf

\* An event that is added at the end adds its size.
LEMMA BytesOfAppend ==
    ASSUME NEW s \in Seq(QueueEvents), NEW e \in QueueEvents
    PROVE  BytesOf(Append(s, e)) = BytesOf(s) + e[2]
  <1> DEFINE u == Append(s, e)
             n == Len(s)
  <1>1. /\ u \in Seq(QueueEvents) /\ Len(u) = n + 1 /\ n \in Nat /\ u[n + 1] = e
        /\ \A i \in 1 .. n : u[i] = s[i]
    BY AppendProperties
  <1>2. DOMAIN s = 1 .. n /\ DOMAIN u = 1 .. n + 1
    BY <1>1, EventsOf
  <1> HIDE DEF u, n
  <1>3. PICK F : IsSumOf(F, SizesOf(u), DOMAIN u) /\ BytesOf(u) = F[DOMAIN u]
    BY <1>1, BytesAreSum
  <1>4. /\ n + 1 \in DOMAIN u /\ DOMAIN u \ {n + 1} = DOMAIN s
        /\ SUBSET DOMAIN s \subseteq SUBSET DOMAIN u
    BY <1>1, <1>2
  <1>5. F[DOMAIN u] = e[2] + F[DOMAIN s]
    <2>1. SizesOf(u)[n + 1] = e[2]
      BY <1>1, <1>4 DEF SizesOf
    <2>2. F[DOMAIN u] = SizesOf(u)[n + 1] + F[DOMAIN u \ {n + 1}]
      BY <1>3, <1>4 DEF IsSumOf
    <2> QED
      BY <1>4, <2>1, <2>2
  <1> DEFINE G == [t \in SUBSET DOMAIN s |-> F[t]]
  <1>6. IsSumOf(G, SizesOf(s), DOMAIN s)
    <2>1. G \in [SUBSET DOMAIN s -> Nat] /\ G[{}] = 0
      BY <1>3, <1>4 DEF IsSumOf
    <2>2. ASSUME NEW t \in SUBSET DOMAIN s, NEW x \in t
          PROVE  G[t] = SizesOf(s)[x] + G[t \ {x}]
      <3>1. SizesOf(s)[x] = SizesOf(u)[x]
        BY <1>1, <1>2, <1>4 DEF SizesOf
      <3>2. F[t] = SizesOf(u)[x] + F[t \ {x}]
        BY <1>3, <1>4 DEF IsSumOf
      <3>3. G[t] = F[t] /\ G[t \ {x}] = F[t \ {x}]
        OBVIOUS
      <3> QED
        BY <3>1, <3>2, <3>3
    <2> QED
      BY <2>1, <2>2 DEF IsSumOf
  <1>7. BytesOf(s) = F[DOMAIN s]
    <2>1. BytesOf(s) = G[DOMAIN s]
      <3>1. IsFiniteSet(DOMAIN s) /\ \A i \in DOMAIN s : s[i][2] \in Nat
        BY EventsOf
      <3> HIDE DEF G
      <3> QED
        BY <1>6, <3>1, BytesIs DEF SizesOf
    <2> QED
      BY <2>1
  <1>8. F[DOMAIN s] \in Nat /\ e[2] \in Nat
    BY <1>3, <1>4 DEF IsSumOf, QueueEvents
  <1> QED
    BY <1>3, <1>5, <1>7, <1>8 DEF u

Shift(t) == {i + 1 : i \in t}

\* The first event of a queue counts beside the others.
LEMMA BytesOfFirst ==
    ASSUME NEW s \in Seq(QueueEvents), NEW r \in Seq(QueueEvents), Len(s) = Len(r) + 1,
           \A i \in 1 .. Len(r) : s[i + 1] = r[i]
    PROVE  BytesOf(s) = s[1][2] + BytesOf(r)
  <1> DEFINE n == Len(r)
  <1>1. DOMAIN r = 1 .. n /\ DOMAIN s = 1 .. n + 1 /\ n \in Nat
    BY EventsOf
  <1> HIDE DEF n
  <1>2. PICK F : IsSumOf(F, SizesOf(s), DOMAIN s) /\ BytesOf(s) = F[DOMAIN s]
    BY BytesAreSum
  <1>3. /\ 1 \in DOMAIN s /\ DOMAIN s \ {1} = Shift(DOMAIN r)
        /\ \A t \in SUBSET DOMAIN r : Shift(t) \in SUBSET DOMAIN s
    <2>1. 1 \in DOMAIN s
      BY <1>1
    <2>2. ASSUME NEW j \in DOMAIN s \ {1} PROVE j \in Shift(DOMAIN r)
      <3>1. j - 1 \in DOMAIN r /\ j = (j - 1) + 1
        BY <1>1
      <3> QED
        BY <3>1 DEF Shift
    <2>3. ASSUME NEW i \in DOMAIN r PROVE i + 1 \in DOMAIN s \ {1}
      BY <1>1
    <2> QED
      BY <2>1, <2>2, <2>3 DEF Shift
  <1>4. F[DOMAIN s] = s[1][2] + F[Shift(DOMAIN r)]
    <2>1. F[DOMAIN s] = SizesOf(s)[1] + F[DOMAIN s \ {1}]
      BY <1>2, <1>3 DEF IsSumOf
    <2> QED
      BY <1>3, <2>1 DEF SizesOf
  <1> DEFINE G == [t \in SUBSET DOMAIN r |-> F[Shift(t)]]
  <1>5. IsSumOf(G, SizesOf(r), DOMAIN r)
    <2>1. G \in [SUBSET DOMAIN r -> Nat]
      BY <1>2, <1>3 DEF IsSumOf
    <2>2. G[{}] = 0
      <3>1. Shift({}) = {}
        BY DEF Shift
      <3> QED
        BY <1>2, <3>1 DEF IsSumOf
    <2>3. ASSUME NEW t \in SUBSET DOMAIN r, NEW x \in t
          PROVE  G[t] = SizesOf(r)[x] + G[t \ {x}]
      <3>1. x + 1 \in Shift(t) /\ Shift(t) \in SUBSET DOMAIN s
        BY <1>3 DEF Shift
      <3>2. Shift(t) \ {x + 1} = Shift(t \ {x})
        <4>1. \A i \in t : i \in Int /\ x \in Int
          BY <1>1
        <4> QED
          BY <4>1 DEF Shift
      <3>3. F[Shift(t)] = SizesOf(s)[x + 1] + F[Shift(t) \ {x + 1}]
        BY <1>2, <3>1 DEF IsSumOf
      <3>4. SizesOf(s)[x + 1] = SizesOf(r)[x]
        BY <1>1, <3>1 DEF SizesOf, n
      <3> QED
        BY <3>2, <3>3, <3>4
    <2> QED
      BY <2>1, <2>2, <2>3 DEF IsSumOf
  <1>6. BytesOf(r) = F[Shift(DOMAIN r)]
    <2>1. BytesOf(r) = G[DOMAIN r]
      <3>1. IsFiniteSet(DOMAIN r) /\ \A i \in DOMAIN r : r[i][2] \in Nat
        BY EventsOf
      <3> HIDE DEF G
      <3> QED
        BY <1>5, <3>1, BytesIs DEF SizesOf
    <2> QED
      BY <2>1
  <1> QED
    BY <1>2, <1>4, <1>6

-----------------------------------------------------------------------------
(* The chunks of a queue                                                   *)

ChunksIn(s) == {i \in DOMAIN s : s[i][2] > 0}

\* There are at most as many chunks as events.
LEMMA ChunksType ==
    ASSUME NEW s \in Seq(QueueEvents)
    PROVE  /\ IsFiniteSet(ChunksIn(s)) /\ Cardinality(ChunksIn(s)) \in Nat
           /\ Cardinality(ChunksIn(s)) <= Len(s) /\ (s = <<>> => Cardinality(ChunksIn(s)) = 0)
  <1>1. Len(s) \in Nat /\ DOMAIN s = 1 .. Len(s) /\ ChunksIn(s) \in SUBSET (1 .. Len(s))
    BY EventsOf DEF ChunksIn
  <1>2. IsFiniteSet(1 .. Len(s)) /\ Cardinality(1 .. Len(s)) = Len(s)
    <2>1. ASSUME NEW n \in Nat PROVE IsFiniteSet(1 .. n) /\ Cardinality(1 .. n) = n
      <3>1. /\ IsFiniteSet(1 .. n)
            /\ Cardinality(1 .. n) = IF 1 > n THEN 0 ELSE n - 1 + 1
        BY FS_Interval
      <3> QED
        BY <3>1
    <2> QED
      BY <1>1, <2>1
  <1>3. IsFiniteSet(ChunksIn(s)) /\ Cardinality(ChunksIn(s)) <= Len(s)
    BY <1>1, <1>2, FS_Subset
  <1>4. s = <<>> => Cardinality(ChunksIn(s)) = 0
    <2>1. s = <<>> => ChunksIn(s) = {}
      BY <1>1
    <2> QED
      BY <2>1, FS_EmptySet
  <1> QED
    BY <1>3, <1>4, FS_CardinalityType

\* The first event counts once at most, and not at all if it has no size.
LEMMA ChunksOfFirst ==
    ASSUME NEW s \in Seq(QueueEvents), NEW r \in Seq(QueueEvents), Len(s) = Len(r) + 1,
           \A i \in 1 .. Len(r) : s[i + 1] = r[i]
    PROVE  /\ Cardinality(ChunksIn(r)) <= Cardinality(ChunksIn(s))
           /\ s[1][2] = 0 => Cardinality(ChunksIn(s)) <= Cardinality(ChunksIn(r))
  <1> DEFINE n == Len(r)
  <1>1. DOMAIN r = 1 .. n /\ DOMAIN s = 1 .. n + 1 /\ n \in Nat
    BY EventsOf
  <1>2. IsFiniteSet(ChunksIn(r)) /\ IsFiniteSet(ChunksIn(s))
    BY ChunksType
  <1> HIDE DEF n
  <1>3. Cardinality(ChunksIn(r)) <= Cardinality(ChunksIn(s))
    <2> DEFINE f == [i \in ChunksIn(r) |-> i + 1]
    <2>1. f \in Injection(ChunksIn(r), ChunksIn(s))
      <3>1. ASSUME NEW i \in ChunksIn(r) PROVE f[i] = i + 1 /\ i \in Nat /\ i + 1 \in ChunksIn(s)
        BY <1>1 DEF ChunksIn, n
      <3> HIDE DEF f
      <3>2. f \in [ChunksIn(r) -> ChunksIn(s)]
        BY <3>1 DEF f
      <3> QED
        BY <3>1, <3>2 DEF Injection, IsInjective
    <2> QED
      BY <1>2, <2>1, FS_Injection
  <1>4. ASSUME s[1][2] = 0 PROVE Cardinality(ChunksIn(s)) <= Cardinality(ChunksIn(r))
    <2> DEFINE f == [i \in ChunksIn(s) |-> i - 1]
    <2>1. f \in Injection(ChunksIn(s), ChunksIn(r))
      <3>1. ASSUME NEW i \in ChunksIn(s) PROVE f[i] = i - 1 /\ i \in Nat /\ i - 1 \in ChunksIn(r)
        <4>1. i # 1 /\ i \in 1 .. n + 1 /\ s[i][2] > 0
          BY <1>1, <1>4 DEF ChunksIn
        <4>2. i - 1 \in 1 .. n /\ (i - 1) + 1 = i
          BY <1>1, <4>1
        <4>3. r[i - 1] = s[i]
          BY <4>2 DEF n
        <4> QED
          BY <1>1, <4>1, <4>2, <4>3 DEF ChunksIn
      <3> HIDE DEF f
      <3>2. f \in [ChunksIn(s) -> ChunksIn(r)]
        BY <3>1 DEF f
      <3> QED
        BY <3>1, <3>2 DEF Injection, IsInjective
    <2> QED
      BY <1>2, <2>1, FS_Injection
  <1> QED
    BY <1>3, <1>4

-----------------------------------------------------------------------------
(* The bounds                                                              *)

Within(k, s) ==
    /\ BytesOf(s) <= PendingBytes
    /\ k = "process" => Cardinality(ChunksIn(s)) <= PendingEvents

\* What waits, before and after the session has started.
QueuesWithin == Within(kind, buffered) /\ Within(kind, pending)

\* An empty queue is within its bounds.
LEMMA EmptyWithin == \A k : Within(k, <<>>)
  <1>1. BytesOf(<<>>) = 0 /\ Cardinality(ChunksIn(<<>>)) = 0
    BY EmptyQueues, BytesType, ChunksType
  <1> QED
    BY <1>1, QueueAssumption DEF Within

\* A queue stays within its limits when its first event is taken, or one without size comes
\* before them.
LEMMA FirstWithin ==
    ASSUME NEW k, NEW s \in Seq(QueueEvents), NEW r \in Seq(QueueEvents), Len(s) = Len(r) + 1,
           \A i \in 1 .. Len(r) : s[i + 1] = r[i]
    PROVE  /\ Within(k, s) => Within(k, r)
           /\ s[1][2] = 0 /\ Within(k, r) => Within(k, s)
  <1>1. BytesOf(s) = s[1][2] + BytesOf(r) /\ BytesOf(s) \in Nat /\ BytesOf(r) \in Nat
    BY BytesOfFirst, BytesType
  <1>2. s[1][2] \in Nat
    <2>1. Len(r) \in Nat /\ DOMAIN s = 1 .. Len(s)
      BY EventsOf
    <2> QED
      BY <2>1, EventsOf
  <1>3. /\ Cardinality(ChunksIn(r)) \in Nat /\ Cardinality(ChunksIn(s)) \in Nat
        /\ Cardinality(ChunksIn(r)) <= Cardinality(ChunksIn(s))
        /\ s[1][2] = 0 => Cardinality(ChunksIn(s)) <= Cardinality(ChunksIn(r))
    BY ChunksType, ChunksOfFirst
  <1> QED
    BY <1>1, <1>2, <1>3, QueueAssumption DEF Within

\* An event for which there is room.
LEMMA AppendWithin ==
    ASSUME NEW k, NEW s \in Seq(QueueEvents), NEW e \in QueueEvents,
           BytesOf(s) + e[2] <= PendingBytes,
           k = "process" => Len(s) < PendingEvents
    PROVE  Within(k, Append(s, e))
  <1>1. Append(s, e) \in Seq(QueueEvents) /\ Len(Append(s, e)) = Len(s) + 1 /\ Len(s) \in Nat
    BY AppendProperties
  <1>2. BytesOf(Append(s, e)) = BytesOf(s) + e[2]
    BY BytesOfAppend
  <1>3. /\ Cardinality(ChunksIn(Append(s, e))) \in Nat
        /\ Cardinality(ChunksIn(Append(s, e))) <= Len(s) + 1
    BY <1>1, ChunksType
  <1> HIDE DEF ChunksIn
  <1> QED
    BY <1>1, <1>2, <1>3, QueueAssumption DEF Within

\* An event without size needs no room.
LEMMA AppendNothingWithin ==
    ASSUME NEW k, NEW s \in Seq(QueueEvents), NEW e \in QueueEvents, e[2] = 0, Within(k, s)
    PROVE  Within(k, Append(s, e))
  <1> DEFINE u == Append(s, e)
  <1>1. /\ u \in Seq(QueueEvents) /\ Len(u) = Len(s) + 1 /\ Len(s) \in Nat
        /\ u[Len(s) + 1] = e /\ \A i \in 1 .. Len(s) : u[i] = s[i]
    BY AppendProperties
  <1>2. BytesOf(u) = BytesOf(s) + 0 /\ BytesOf(s) \in Nat
    BY BytesOfAppend, BytesType
  <1>3. DOMAIN s = 1 .. Len(s) /\ DOMAIN u = 1 .. Len(s) + 1
    BY <1>1, EventsOf
  <1> HIDE DEF u
  <1>4. ChunksIn(u) = ChunksIn(s)
    BY <1>1, <1>3 DEF ChunksIn
  <1> QED
    BY <1>2, <1>4 DEF Within, u

\* What is pushed goes to a reader that waits, or there is room for it.
LEMMA PushWithin ==
    ASSUME QueueTyped, QueuesWithin, NEW e \in QueueEvents, Push(e), kind' = kind,
           \/ e[2] = 0 \/ waiting \/ end # "open"
           \/ BytesOf(pending) + e[2] <= PendingBytes
              /\ (kind = "process" => Len(pending) < PendingEvents)
    PROVE  Within(kind', pending')
  <1>1. CASE pending' = pending
    BY <1>1 DEF QueuesWithin
  <1>2. CASE pending' = Append(pending, e) /\ ~waiting /\ end = "open"
    <2>1. CASE e[2] = 0
      BY <1>2, <2>1, AppendNothingWithin DEF QueuesWithin, QueueTyped
    <2>2. CASE e[2] # 0
      BY <1>2, <2>2, AppendWithin DEF QueueTyped
    <2> QED
      BY <2>1, <2>2
  <1> QED
    BY <1>1, <1>2 DEF Push

\* A chunk of a process is kept where there is room, or the failure discards all of them.
LEMMA EmitOutputWithin ==
    ASSUME QueueInv, QueuesWithin, NEW size \in Sizes, EmitOutput(size)
    PROVE  QueuesWithin'
  <1> DEFINE e == <<chunks + 1, size>>
  <1>1. kind' = kind /\ e \in QueueEvents /\ size \in Nat
    BY Counts, QueueAssumption DEF EmitOutput, QueueInv, QueueEvents, Sizes
  <1>2. BytesOf(pending) \in Nat /\ BytesOf(buffered) \in Nat /\ Len(buffered) \in Nat
    BY BytesType, Counts DEF QueueInv, QueueTyped
  <1>3. CASE UNCHANGED <<buffered, pending>>
    BY <1>1, <1>3 DEF QueuesWithin
  <1>4. CASE FailOutput
    BY <1>4, EmptyWithin DEF FailOutput, QueuesWithin
  <1>5. CASE Buffer(e) /\ ~FailOutput
    <2>1. /\ ~(BytesOf(buffered) + size > PendingBytes) /\ ~(Len(buffered) >= PendingEvents)
          /\ buffered' = Append(buffered, e) /\ pending' = pending
      BY <1>5 DEF Buffer
    <2>2. BytesOf(buffered) + e[2] <= PendingBytes /\ Len(buffered) < PendingEvents
      BY <1>1, <1>2, <2>1, QueueAssumption
    <2>3. Within(kind, buffered')
      BY <1>1, <2>1, <2>2, AppendWithin DEF QueueInv, QueueTyped
    <2> QED
      BY <1>1, <2>1, <2>3 DEF QueuesWithin
  <1>6. CASE Fits(e) /\ Push(e) /\ UNCHANGED buffered
    <2>1. Within(kind', pending')
      BY <1>1, <1>6, PushWithin DEF Fits, QueueInv
    <2> QED
      BY <1>1, <1>6, <2>1 DEF QueuesWithin
  <1> QED
    BY <1>3, <1>4, <1>5, <1>6 DEF EmitOutput

\* What was buffered before the session started fits behind process.started.
LEMMA StartProcessWithin ==
    ASSUME QueueInv, QueuesWithin, StartProcessSession
    PROVE  QueuesWithin'
  <1>0. kind' = kind
    BY DEF StartProcessSession
  <1>1. CASE UNCHANGED <<buffered, pending>>
    BY <1>0, <1>1 DEF QueuesWithin
  <1>2. CASE buffered' = <<>> /\ pending' = <<Nothing>> \o buffered
    <2> DEFINE n == <<Nothing>>
               r == buffered
    <2>1. n \in Seq(QueueEvents) /\ Len(n) = 1 /\ n[1] = Nothing /\ r \in Seq(QueueEvents)
      BY DEF Nothing, QueueEvents, QueueInv, QueueTyped
    <2> HIDE DEF n
    <2>2. /\ n \o r \in Seq(QueueEvents) /\ Len(n \o r) = Len(r) + 1
          /\ \A i \in 1 .. Len(r) : (n \o r)[i + 1] = r[i]
          /\ (n \o r)[1] = Nothing
      <3> HIDE DEF r
      <3>1. /\ n \o r \in Seq(QueueEvents) /\ Len(n \o r) = Len(n) + Len(r)
            /\ \A i \in 1 .. Len(n) + Len(r) :
                 (n \o r)[i] = IF i <= Len(n) THEN n[i] ELSE r[i - Len(n)]
        BY <2>1, ConcatProperties
      <3>2. Len(r) \in Nat
        BY <2>1
      <3> QED
        BY <2>1, <3>1, <3>2
    <2>3. (n \o r)[1][2] = 0
      BY <2>2 DEF Nothing
    <2>4. Within(kind, n \o r)
      BY <2>1, <2>2, <2>3, FirstWithin DEF QueuesWithin
    <2> QED
      BY <1>0, <1>2, <2>4, EmptyWithin DEF QueuesWithin, n
  <1> QED
    BY <1>1, <1>2 DEF StartProcessSession

\* The SDK's chunk is taken when there is room for it.
LEMMA WaitAndPushWithin ==
    ASSUME QueueInv, QueuesWithin, WaitAndPush
    PROVE  QueuesWithin'
  <1>0. kind' = kind /\ buffered' = buffered /\ offered \in QueueEvents /\ offered # Nothing
    BY DEF WaitAndPush, QueueInv, QueueTyped
  <1>1. CASE UNCHANGED pending
    BY <1>0, <1>1 DEF QueuesWithin
  <1>2. CASE /\ offered[2] <= PendingBytes /\ Push(offered)
             /\ pending = <<>> \/ BytesOf(pending) + offered[2] <= PendingBytes \/ end = "closed"
    <2>1. kind = "terminal" /\ offered[2] \in Nat
      BY <1>0 DEF QueueInv, QueueInOrder, QueueEvents
    <2>2. pending = <<>> => BytesOf(pending) = 0
      BY EmptyQueues, BytesType
    <2>3. BytesOf(pending) + offered[2] <= PendingBytes \/ end # "open"
      BY <1>2, <2>1, <2>2
    <2>4. Within(kind', pending')
      BY <1>0, <1>2, <2>1, <2>3, PushWithin DEF QueueInv
    <2> QED
      BY <1>0, <2>4 DEF QueuesWithin
  <1> QED
    BY <1>1, <1>2 DEF WaitAndPush

\* The exit has no size.
LEMMA CompleteWithin ==
    ASSUME QueueInv, QueuesWithin, Complete
    PROVE  QueuesWithin'
  <1> DEFINE e == <<Exit, 0>>
  <1>1. kind' = kind /\ buffered' = buffered /\ e \in QueueEvents /\ e[2] = 0
    BY QueueAssumption DEF Complete, QueueEvents, Exit
  <1> HIDE DEF e
  <1>2. CASE UNCHANGED pending
    BY <1>1, <1>2 DEF QueuesWithin
  <1>3. CASE Push(e)
    <2>1. Within(kind', pending')
      BY <1>1, <1>3, PushWithin DEF QueueInv
    <2> QED
      BY <1>1, <2>1 DEF QueuesWithin
  <1> QED
    BY <1>2, <1>3 DEF Complete, e

\* The reader only takes events.
LEMMA NextEventWithin ==
    ASSUME QueueInv, QueuesWithin, NextEvent
    PROVE  QueuesWithin'
  <1>0. kind' = kind /\ buffered' = buffered /\ pending \in Seq(QueueEvents)
    BY DEF NextEvent, QueueInv, QueueTyped
  <1>1. CASE UNCHANGED pending
    BY <1>0, <1>1 DEF QueuesWithin
  <1>2. CASE pending # <<>> /\ pending' = Tail(pending)
    <2>1. /\ Tail(pending) \in Seq(QueueEvents) /\ Len(Tail(pending)) = Len(pending) - 1
          /\ Len(pending) \in Nat
          /\ \A i \in 1 .. Len(Tail(pending)) : Tail(pending)[i] = pending[i + 1]
      BY <1>0, <1>2, HeadTailProperties
    <2> DEFINE r == Tail(pending)
    <2> HIDE DEF r
    <2>2. Len(pending) = Len(r) + 1 /\ \A i \in 1 .. Len(r) : pending[i + 1] = r[i]
      BY <2>1 DEF r
    <2>3. Within(kind, r)
      BY <1>0, <2>1, <2>2, FirstWithin DEF QueuesWithin, r
    <2> QED
      BY <1>0, <1>2, <2>3 DEF QueuesWithin, r
  <1> QED
    BY <1>1, <1>2 DEF NextEvent

\* No step of a session lets more wait than its limits.
LEMMA QueueNextWithin ==
    QueueInv /\ QueuesWithin /\ [QueueNext]_queueVars => QueuesWithin'
  <1> SUFFICES ASSUME QueueInv, QueuesWithin, [QueueNext]_queueVars PROVE QueuesWithin'
    OBVIOUS
  <1>1. CASE UNCHANGED <<kind, buffered, pending>>
    BY <1>1 DEF QueuesWithin
  <1>2. ASSUME NEW k \in {"process", "terminal"}, BeginSession(k) PROVE QueuesWithin'
    <2>1. buffered' = <<>> /\ pending' = <<>>
      BY <1>2 DEF BeginSession, QueueInv, QueueInOrder
    <2> QED
      BY <2>1, EmptyWithin DEF QueuesWithin
  <1> QED
    BY <1>1, <1>2, EmitOutputWithin, StartProcessWithin, WaitAndPushWithin, CompleteWithin,
       NextEventWithin
       DEF QueueNext, queueVars, OfferOutput, StartTerminalSession, BreakStream, FailQueue

\* Memory is bounded for any limits, however much the process writes and however slowly it is
\* read: never do more than maxPendingSize bytes wait, nor more than maxPendingEvents chunks
\* of a process session, from before its start to its end.
THEOREM QueueBoundedCorrect == QueueSpec => []QueueBounded
  <1>1. QueueInit => QueuesWithin
    BY EmptyWithin DEF QueueInit, QueuesWithin
  <1>2. QueueInv /\ QueuesWithin => QueueBounded
    <2> SUFFICES ASSUME QueueInv, QueuesWithin PROVE QueueBounded
      OBVIOUS
    <2>1. buffered \in Seq(QueueEvents) /\ pending \in Seq(QueueEvents)
      BY DEF QueueInv, QueueTyped
    <2>2. buffered = <<>> \/ pending = <<>>
      BY DEF QueueInv, QueueInOrder
    <2>3. buffered \o pending = buffered \/ buffered \o pending = pending
      BY <2>1, <2>2, ConcatEmptySeq
    <2>4. Within(kind, buffered \o pending)
      BY <2>3 DEF QueuesWithin
    <2> QED
      BY <2>4 DEF QueueBounded, Within, ChunksIn
  <1> QED
    BY <1>1, <1>2, QueueInitInv, QueueNextInv, QueueNextWithin, PTL DEF QueueSpec

-----------------------------------------------------------------------------
(* ProjectListing: the order of rows                                       *)

Rows == [at : Int, id : Int]

\* No two of the rows have one id.
Distinct(S) == \A a, b \in S : a.id = b.id => a = b

\* Rows are ordered by their timestamps and, where these are equal, by their ids.
LEMMA NewerOrders ==
    ASSUME NEW a \in Rows, NEW b \in Rows, NEW c \in Rows
    PROVE  /\ ~Newer(a, a)
           /\ Newer(a, b) /\ Newer(b, c) => Newer(a, c)
           /\ Newer(a, b) \/ Newer(b, a) \/ a = b
           /\ ~(Newer(a, b) /\ Newer(b, a))
  <1>1. /\ a.at \in Int /\ b.at \in Int /\ c.at \in Int
        /\ a.id \in Int /\ b.id \in Int /\ c.id \in Int
        /\ (a.at = b.at /\ a.id = b.id => a = b)
    BY DEF Rows
  <1> QED
    BY <1>1 DEF Newer

\* What a query finds is read in that order.
LEMMA RowsInOrder ==
    ASSUME NEW S \in SUBSET Rows, IsFiniteSet(S)
    PROVE  LET s == InOrder(S, Newer) IN
           /\ s \in [1 .. Cardinality(S) -> S] /\ Cardinality(S) \in Nat
           /\ \A r \in S : \E n \in 1 .. Cardinality(S) : s[n] = r
           /\ \A m, n \in 1 .. Cardinality(S) : m < n => Newer(s[m], s[n])
  <1> DEFINE R == PairsOf(S, Newer)
             s == InOrder(S, Newer)
             place(m) == CHOOSE z \in S : Cardinality({y \in S : Newer(y, z)}) = m - 1
  <1>1. \A x, y \in S : <<x, y>> \in R <=> Newer(x, y)
    BY DEF PairsOf
  <1> HIDE DEF R
  <1>2. StrictOrder(S, R)
    BY <1>1, NewerOrders DEF StrictOrder
  <1>3. \A x \in S : {y \in S : Newer(y, x)} = Ahead(S, R, x)
    BY <1>1 DEF Ahead
  <1>4. s = [m \in 1 .. Cardinality(S) |-> place(m)]
    BY Zenon DEF InOrder
  <1>5. ASSUME NEW n \in 1 .. Cardinality(S), NEW x \in S,
               Cardinality(Ahead(S, R, x)) = n - 1
        PROVE  s[n] \in S /\ Cardinality(Ahead(S, R, s[n])) = n - 1
    <2>1. Cardinality({y \in S : Newer(y, x)}) = n - 1
      BY <1>3, <1>5
    <2>2. place(n) \in S /\ Cardinality({y \in S : Newer(y, place(n))}) = n - 1
      BY <2>1
    <2> HIDE DEF place, s
    <2>3. s[n] = place(n)
      BY <1>4
    <2> QED
      BY <1>3, <2>2, <2>3
  <1> HIDE DEF place, s
  <1>6. s = [n \in 1 .. Cardinality(S) |-> s[n]]
    BY <1>4
  <1>7. /\ s \in [1 .. Cardinality(S) -> S] /\ Cardinality(S) \in Nat
        /\ \A r \in S : \E n \in 1 .. Cardinality(S) : s[n] = r
        /\ \A m, n \in 1 .. Cardinality(S) : m < n => <<s[m], s[n]>> \in R
    <2>1. \A n \in 1 .. Cardinality(S) : \A x \in S :
              Cardinality(Ahead(S, R, x)) = n - 1 =>
                  s[n] \in S /\ Cardinality(Ahead(S, R, s[n])) = n - 1
      BY <1>5
    <2> QED
      BY <1>2, <1>6, <2>1, InOrderSorts
  <1> QED
    BY <1>1, <1>7 DEF s

-----------------------------------------------------------------------------
(* ProjectListing: a page                                                  *)

\* What Fetch takes from the rows that the query finds.
PageOf(S) ==
    LET next == InOrder(S, Newer) IN SubSeq(next, 1, Min({Len(next), ListPageSize + 1}))

\* The minimum of two is the lesser.
LEMMA MinOfTwo ==
    ASSUME NEW a \in Int, NEW b \in Int
    PROVE  Min({a, b}) = IF a <= b THEN a ELSE b
  <1>1. \E x \in {a, b} : \A y \in {a, b} : x <= y
    OBVIOUS
  <1>2. Min({a, b}) \in {a, b} /\ \A y \in {a, b} : Min({a, b}) <= y
    BY <1>1 DEF Min
  <1> QED
    BY <1>2

\* One row more than a page, if there is one.
LEMMA PageIs ==
    ASSUME NEW S \in SUBSET Rows, IsFiniteSet(S)
    PROVE  LET c == Cardinality(S)
               k == IF c <= ListPageSize THEN c ELSE ListPageSize
               s == InOrder(S, Newer)
           IN /\ c \in Nat /\ k \in Nat /\ k <= c
              /\ ItemIds(PageOf(S)) = [n \in 1 .. k |-> s[n].id]
              /\ NextCursor(PageOf(S)) = IF c <= ListPageSize THEN NoCursor ELSE s[ListPageSize]
  <1> DEFINE c == Cardinality(S)
             k == IF c <= ListPageSize THEN c ELSE ListPageSize
             s == InOrder(S, Newer)
             m == IF c <= ListPageSize + 1 THEN c ELSE ListPageSize + 1
             f == PageOf(S)
  <1>1. s \in [1 .. c -> S] /\ c \in Nat /\ ListPageSize \in Nat \ {0}
    BY RowsInOrder, ListingAssumption
  <1> HIDE DEF c, s
  <1>2. Len(s) = c
    BY <1>1
  <1>3. f = SubSeq(s, 1, m)
    <2>1. Min({c, ListPageSize + 1}) = m
      BY <1>1, MinOfTwo
    <2> QED
      BY <1>2, <2>1 DEF PageOf, s
  <1>4. m \in Nat /\ m <= c
    BY <1>1
  <1> HIDE DEF m, f
  <1>5. Len(f) = m /\ \A n \in 1 .. m : f[n] = s[n]
    <2>1. \A n \in 1 .. m : s[n] \in S
      BY <1>1, <1>4
    <2>2. /\ Len(SubSeq(s, 1, m)) = IF 1 <= m THEN m - 1 + 1 ELSE 0
          /\ \A n \in 1 .. m - 1 + 1 : SubSeq(s, 1, m)[n] = s[1 + n - 1]
      BY <1>4, <2>1, SubSeqProperties
    <2> QED
      BY <1>3, <1>4, <2>2
  <1>6. k \in Nat /\ k <= c /\ k <= m
    BY <1>1 DEF m
  <1>7. ItemIds(f) = [n \in 1 .. k |-> s[n].id]
    <2>1. Min({m, ListPageSize}) = k
      BY <1>1, <1>4, MinOfTwo DEF m
    <2> HIDE DEF k
    <2>2. ItemIds(f) = [n \in 1 .. k |-> f[n].id]
      BY <1>5, <2>1 DEF ItemIds
    <2> QED
      BY <1>5, <1>6, <2>2
  <1>8. NextCursor(f) = IF c <= ListPageSize THEN NoCursor ELSE s[ListPageSize]
    BY <1>1, <1>5 DEF NextCursor, m
  <1> QED
    BY <1>1, <1>6, <1>7, <1>8 DEF c, s, f

ShownOnce(seen, i) ==
    \E n \in DOMAIN seen : seen[n] = i /\ \A m \in DOMAIN seen : seen[m] = i => m = n
NotShown(seen, i) == \A n \in DOMAIN seen : seen[n] # i

\* A page shows the rows up to its cursor, each once, and no others.
LEMMA PageShows ==
    ASSUME NEW S \in SUBSET Rows, IsFiniteSet(S), Distinct(S), NoCursor \notin S
    PROVE  LET items == ItemIds(PageOf(S))
               next  == NextCursor(PageOf(S))
           IN /\ items \in Seq({r.id : r \in S})
              /\ next # NoCursor => next \in S
              /\ \A r \in S : IF next # NoCursor /\ Newer(next, r) THEN NotShown(items, r.id)
                              ELSE ShownOnce(items, r.id)
  <1> DEFINE c == Cardinality(S)
             k == IF c <= ListPageSize THEN c ELSE ListPageSize
             s == InOrder(S, Newer)
             items == ItemIds(PageOf(S))
             next == NextCursor(PageOf(S))
  <1>1. /\ s \in [1 .. c -> S] /\ c \in Nat
        /\ \A r \in S : \E n \in 1 .. c : s[n] = r
        /\ \A m, n \in 1 .. c : m < n => Newer(s[m], s[n])
    BY RowsInOrder
  <1>2. /\ k \in Nat /\ k <= c /\ items = [n \in 1 .. k |-> s[n].id]
        /\ next = IF c <= ListPageSize THEN NoCursor ELSE s[ListPageSize]
    BY PageIs
  <1>3. ListPageSize \in Nat \ {0}
    BY ListingAssumption
  <1> HIDE DEF c, s, items, next
  <1>4. items \in Seq({r.id : r \in S})
    <2>1. \A n \in 1 .. k : s[n].id \in {r.id : r \in S}
      BY <1>1, <1>2
    <2>2. items \in [1 .. k -> {r.id : r \in S}]
      BY <1>2, <2>1
    <2> HIDE DEF k
    <2> QED
      BY <1>2, <2>2
  <1>5. next # NoCursor =>
            next \in S /\ c > ListPageSize /\ next = s[ListPageSize] /\ k = ListPageSize
    BY <1>1, <1>2, <1>3
  <1>6. next = NoCursor => k = c
    <2>1. CASE c <= ListPageSize
      BY <2>1
    <2>2. CASE ~(c <= ListPageSize)
      <3>1. s[ListPageSize] \in S
        BY <1>1, <1>3, <2>2
      <3> QED
        BY <1>2, <2>2, <3>1
    <2> QED
      BY <2>1, <2>2
  <1> HIDE DEF k
  <1>7. DOMAIN items = 1 .. k /\ \A n \in 1 .. k : items[n] = s[n].id /\ n \in 1 .. c
    BY <1>1, <1>2
  <1>8. ASSUME NEW m \in 1 .. c, NEW n \in 1 .. c, s[m].id = s[n].id PROVE m = n
    <2>1. s[m] = s[n] /\ s[m] \in Rows
      BY <1>1, <1>8 DEF Distinct
    <2>2. ~Newer(s[m], s[n]) /\ ~Newer(s[n], s[m])
      BY <2>1, NewerOrders
    <2> QED
      BY <1>1, <2>2
  <1>9. ASSUME NEW r \in S
        PROVE  IF next # NoCursor /\ Newer(next, r) THEN NotShown(items, r.id)
               ELSE ShownOnce(items, r.id)
    <2>1. PICK n \in 1 .. c : s[n] = r
      BY <1>1
    <2>2. CASE next # NoCursor /\ Newer(next, r)
      <3>1. ASSUME NEW m \in 1 .. k, items[m] = r.id PROVE FALSE
        <4>1. m = n /\ m \in 1 .. c
          BY <1>7, <1>8, <2>1, <3>1
        <4>2. next = s[k] /\ k \in 1 .. c
          BY <1>2, <1>3, <1>5, <2>2
        <4>3. s[m] = s[k] \/ Newer(s[m], s[k])
          BY <1>1, <4>1, <4>2
        <4>4. s[m] \in Rows /\ s[k] \in Rows
          BY <1>1, <4>1, <4>2
        <4> QED
          BY <2>1, <2>2, <4>1, <4>2, <4>3, <4>4, NewerOrders
      <3> QED
        BY <1>7, <2>2, <3>1 DEF NotShown
    <2>3. CASE ~(next # NoCursor /\ Newer(next, r))
      <3>1. n \in 1 .. k
        <4>1. CASE next = NoCursor
          BY <1>6, <4>1
        <4>2. CASE next # NoCursor
          <5>1. next = s[k] /\ k \in 1 .. c
            BY <1>2, <1>3, <1>5, <4>2
          <5>2. ~(k < n)
            BY <1>1, <2>1, <2>3, <4>2, <5>1
          <5> QED
            BY <1>2, <5>1, <5>2
        <4> QED
          BY <4>1, <4>2
      <3>2. items[n] = r.id /\ \A m \in 1 .. k : items[m] = r.id => m = n
        BY <1>7, <1>8, <2>1, <3>1
      <3> QED
        BY <1>7, <2>3, <3>1, <3>2 DEF ShownOnce
    <2> QED
      BY <2>2, <2>3
  <1> QED
    BY <1>4, <1>5, <1>9 DEF items, next

-----------------------------------------------------------------------------
(* ProjectListing: the invariant                                           *)

RowOf(i) == [at |-> rowAt[i], id |-> i]

\* What the query finds behind a cursor.
Found(cursor) == {row \in {RowOf(i) : i \in Listed} : AfterCursor(row, cursor)}

ListingTyped ==
    /\ rowAt \in [RowIds -> Int] /\ untouched \in SUBSET Listed
    /\ listing \in [of : {"none", "projects", "runs"}, cursor : Rows, seen : Seq(RowIds)]
    /\ listing.of = "none" => listing.cursor = NoCursor /\ untouched = {}

\* A row that is as it was has been shown once, or it comes after the cursor and was not.
ShownSoFar ==
    \A i \in untouched :
        IF listing.cursor # NoCursor /\ Newer(listing.cursor, RowOf(i))
        THEN NotShown(listing.seen, i)
        ELSE ShownOnce(listing.seen, i)

ListingInv == ListingTyped /\ ShownSoFar

\* What a query finds are rows, each once, and none of them looks like "no cursor".
LEMMA FoundIs ==
    ASSUME ListingTyped, NEW cursor \in Rows
    PROVE  /\ Found(cursor) \in SUBSET Rows /\ IsFiniteSet(Found(cursor))
           /\ Distinct(Found(cursor)) /\ NoCursor \notin Found(cursor)
           /\ {r.id : r \in Found(cursor)} \subseteq RowIds
           /\ \A i \in Listed : RowOf(i).id = i /\ RowOf(i) \in Rows
           /\ \A i \in Listed : AfterCursor(RowOf(i), cursor) => RowOf(i) \in Found(cursor)
           /\ Fetch(cursor) = PageOf(Found(cursor))
  <1> DEFINE All == {RowOf(i) : i \in Listed}
  <1>1. ASSUME NEW i \in Listed
        PROVE  RowOf(i) \in Rows /\ RowOf(i).id = i /\ RowOf(i).at > 0 /\ i \in RowIds
    BY ListingAssumption DEF Listed, RowOf, Rows, ListingTyped
  <1>2. IsFiniteSet(All)
    <2>1. IsFiniteSet(Listed)
      BY ListingAssumption, FS_Subset DEF Listed
    <2> DEFINE f == [i \in Listed |-> RowOf(i)]
    <2>2. f \in Surjection(Listed, All)
      BY DEF Surjection
    <2> HIDE DEF f, All
    <2> QED
      BY <2>1, <2>2, FS_Surjection
  <1>3. Found(cursor) \in SUBSET All
    BY DEF Found
  <1>4. IsFiniteSet(Found(cursor))
    BY <1>2, <1>3, FS_Subset
  <1>5. Found(cursor) \in SUBSET Rows /\ {r.id : r \in Found(cursor)} \subseteq RowIds
    BY <1>1, <1>3
  <1>6. Distinct(Found(cursor))
    BY <1>1, <1>3 DEF Distinct
  <1>7. NoCursor \notin Found(cursor)
    <2>1. \A row \in All : row.at > 0
      BY <1>1
    <2> QED
      BY <1>3, <2>1 DEF NoCursor
  <1>8. \A i \in Listed : AfterCursor(RowOf(i), cursor) => RowOf(i) \in Found(cursor)
    BY DEF Found
  <1>9. Fetch(cursor) = PageOf(Found(cursor))
    BY DEF Fetch, PageOf, Found, RowOf
  <1> QED
    BY <1>1, <1>4, <1>5, <1>6, <1>7, <1>8, <1>9

\* Before the listing begins there is nothing to show.
LEMMA ListingInitInv == ListingInit => ListingInv
  <1> SUFFICES ASSUME ListingInit PROVE ListingInv
    OBVIOUS
  <1>1. NoCursor \in Rows /\ <<>> \in Seq(RowIds)
    BY DEF NoCursor, Rows
  <1>2. rowAt \in [RowIds -> Int] /\ untouched = {}
    BY DEF ListingInit
  <1>3. listing = [of |-> "none", cursor |-> NoCursor, seen |-> <<>>]
    BY DEF ListingInit
  <1>4. ListingTyped
    BY <1>1, <1>2, <1>3 DEF ListingTyped
  <1> QED
    BY <1>2, <1>4 DEF ListingInv, ShownSoFar

\* The rows change, but those that are untouched do not.
LEMMA RowStepInv ==
    ASSUME ListingInv, listing' = listing, untouched' \in SUBSET untouched,
           rowAt' \in [RowIds -> Int],
           \A i \in untouched' : rowAt'[i] = rowAt[i]
    PROVE  ListingInv'
  <1>1. \A i \in untouched' : i \in Listed' /\ RowOf(i)' = RowOf(i) /\ i \in untouched
    BY DEF ListingInv, ListingTyped, Listed, RowOf
  <1>2. ListingTyped'
    BY <1>1 DEF ListingInv, ListingTyped
  <1>3. ShownSoFar'
    BY <1>1 DEF ListingInv, ShownSoFar
  <1> QED
    BY <1>2, <1>3 DEF ListingInv

\* A row is created, renamed or deleted.
LEMMA RowsKeep ==
    ASSUME ListingInv, NEW i \in RowIds, CreateRow(i) \/ RenameProject(i) \/ DeleteProject(i)
    PROVE  ListingInv'
  <1>0. rowAt \in [RowIds -> Int] /\ untouched \in SUBSET Listed /\ Instants \subseteq Int
    BY ListingAssumption DEF ListingInv, ListingTyped
  <1>1. CASE CreateRow(i)
    <2>1. PICK t \in Instants : rowAt' = [rowAt EXCEPT ![i] = t]
      BY <1>1 DEF CreateRow
    <2>2. i \notin untouched /\ untouched' = untouched /\ listing' = listing
      BY <1>0, <1>1 DEF CreateRow, Listed
    <2> QED
      BY <1>0, <2>1, <2>2, RowStepInv
  <1>2. CASE RenameProject(i)
    <2>1. PICK t \in Instants : rowAt' = [rowAt EXCEPT ![i] = t]
      BY <1>2 DEF RenameProject
    <2>2. untouched' = untouched \ {i} /\ listing' = listing
      BY <1>2 DEF RenameProject
    <2> QED
      BY <1>0, <2>1, <2>2, RowStepInv DEF Listed
  <1>3. CASE DeleteProject(i)
    <2>1. rowAt' = [rowAt EXCEPT ![i] = -1]
      BY <1>3 DEF DeleteProject
    <2>2. untouched' = untouched \ {i} /\ listing' = listing
      BY <1>3 DEF DeleteProject
    <2> QED
      BY <1>0, <2>1, <2>2, RowStepInv DEF Listed
  <1> QED
    BY <1>1, <1>2, <1>3

\* The first page.
LEMMA BeginListingKeeps ==
    ASSUME ListingInv, NEW of \in {"projects", "runs"}, BeginListing(of)
    PROVE  ListingInv'
  <1> DEFINE S == Found(NoCursor)
             items == ItemIds(PageOf(S))
             next == NextCursor(PageOf(S))
  <1>1. /\ ListingTyped /\ NoCursor \in Rows
        /\ untouched' = Listed /\ rowAt' = rowAt
    BY DEF BeginListing, ListingInv, NoCursor, Rows
  <1>2. /\ S \in SUBSET Rows /\ IsFiniteSet(S) /\ Distinct(S) /\ NoCursor \notin S
        /\ {r.id : r \in S} \subseteq RowIds
        /\ \A i \in Listed : RowOf(i).id = i /\ RowOf(i) \in S
        /\ Fetch(NoCursor) = PageOf(S)
    BY <1>1, FoundIs DEF AfterCursor
  <1>3. listing' = [of |-> of, cursor |-> next, seen |-> items]
    BY <1>2 DEF BeginListing
  <1> HIDE DEF S, items, next
  <1>4. /\ items \in Seq({r.id : r \in S})
        /\ next # NoCursor => next \in S
        /\ \A r \in S : IF next # NoCursor /\ Newer(next, r) THEN NotShown(items, r.id)
                        ELSE ShownOnce(items, r.id)
    BY <1>2, PageShows DEF items, next
  <1>5. items \in Seq(RowIds) /\ next \in Rows
    BY <1>1, <1>2, <1>4, SeqMonotonic
  <1>6. Listed' = Listed /\ \A i \in Listed : RowOf(i)' = RowOf(i)
    BY <1>1 DEF Listed, RowOf
  <1>7. ListingTyped'
    BY <1>1, <1>3, <1>5, <1>6 DEF ListingTyped
  <1>8. ShownSoFar'
    <2>1. ASSUME NEW i \in Listed
          PROVE  IF next # NoCursor /\ Newer(next, RowOf(i)) THEN NotShown(items, i)
                 ELSE ShownOnce(items, i)
      BY <1>2, <1>4
    <2> QED
      BY <1>1, <1>3, <1>6, <2>1 DEF ShownSoFar
  <1> QED
    BY <1>7, <1>8 DEF ListingInv

\* What is shown of two pages.
LEMMA TwoPages ==
    ASSUME NEW a \in Seq(RowIds), NEW b \in Seq(RowIds), NEW i
    PROVE  /\ a \o b \in Seq(RowIds)
           /\ NotShown(a, i) /\ NotShown(b, i) => NotShown(a \o b, i)
           /\ NotShown(a, i) /\ ShownOnce(b, i) => ShownOnce(a \o b, i)
           /\ ShownOnce(a, i) /\ NotShown(b, i) => ShownOnce(a \o b, i)
  <1> DEFINE m == Len(a)
             n == Len(b)
             u == a \o b
  <1>1. /\ m \in Nat /\ n \in Nat /\ u \in Seq(RowIds) /\ Len(u) = m + n
        /\ \A j \in 1 .. m + n : u[j] = IF j <= m THEN a[j] ELSE b[j - m]
    BY ConcatProperties, LenProperties
  <1>2. DOMAIN a = 1 .. m /\ DOMAIN b = 1 .. n /\ DOMAIN u = 1 .. m + n
    BY <1>1, LenProperties
  <1> HIDE DEF m, n, u
  <1>3. ASSUME NotShown(a, i), NotShown(b, i) PROVE NotShown(u, i)
    <2>1. ASSUME NEW j \in 1 .. m + n PROVE u[j] # i
      <3>1. CASE j <= m
        <4>1. j \in 1 .. m /\ u[j] = a[j]
          BY <1>1, <3>1
        <4> QED
          BY <1>2, <1>3, <4>1 DEF NotShown
      <3>2. CASE ~(j <= m)
        <4>1. j - m \in 1 .. n /\ u[j] = b[j - m]
          BY <1>1, <3>2
        <4> QED
          BY <1>2, <1>3, <4>1 DEF NotShown
      <3> QED
        BY <3>1, <3>2
    <2> QED
      BY <1>2, <2>1 DEF NotShown
  <1>4. ASSUME NotShown(a, i), ShownOnce(b, i) PROVE ShownOnce(u, i)
    <2>1. PICK k \in 1 .. n : b[k] = i /\ \A j \in 1 .. n : b[j] = i => j = k
      BY <1>2, <1>4 DEF ShownOnce
    <2>2. m + k \in 1 .. m + n /\ u[m + k] = i
      <3>1. m + k \in 1 .. m + n /\ ~(m + k <= m) /\ (m + k) - m = k
        BY <1>1
      <3> QED
        BY <1>1, <2>1, <3>1
    <2>3. ASSUME NEW j \in 1 .. m + n, u[j] = i PROVE j = m + k
      <3>1. ~(j <= m)
        <4>1. j <= m => j \in 1 .. m /\ u[j] = a[j]
          BY <1>1
        <4> QED
          BY <1>2, <1>4, <2>3, <4>1 DEF NotShown
      <3>2. j - m \in 1 .. n /\ u[j] = b[j - m]
        BY <1>1, <3>1
      <3>3. j - m = k
        BY <2>1, <2>3, <3>2
      <3> QED
        BY <1>1, <3>3
    <2> QED
      BY <1>2, <2>2, <2>3 DEF ShownOnce
  <1>5. ASSUME ShownOnce(a, i), NotShown(b, i) PROVE ShownOnce(u, i)
    <2>1. PICK k \in 1 .. m : a[k] = i /\ \A j \in 1 .. m : a[j] = i => j = k
      BY <1>2, <1>5 DEF ShownOnce
    <2>2. k \in 1 .. m + n /\ u[k] = i
      <3>1. k \in 1 .. m + n /\ k <= m
        BY <1>1
      <3> QED
        BY <1>1, <2>1, <3>1
    <2>3. ASSUME NEW j \in 1 .. m + n, u[j] = i PROVE j = k
      <3>1. j <= m
        <4>1. ~(j <= m) => j - m \in 1 .. n /\ u[j] = b[j - m]
          BY <1>1
        <4> QED
          BY <1>2, <1>5, <2>3, <4>1 DEF NotShown
      <3>2. j \in 1 .. m /\ u[j] = a[j]
        BY <1>1, <3>1
      <3> QED
        BY <2>1, <2>3, <3>2
    <2> QED
      BY <1>2, <2>2, <2>3 DEF ShownOnce
  <1> QED
    BY <1>1, <1>3, <1>4, <1>5 DEF u

\* The next page shows what comes after the cursor, up to its own, and nothing again.
LEMMA ContinueListingKeeps ==
    ASSUME ListingInv, ContinueListing
    PROVE  ListingInv'
  <1> DEFINE c == listing.cursor
             S == Found(c)
             items == ItemIds(PageOf(S))
             next == NextCursor(PageOf(S))
  <1>1. /\ ListingTyped /\ c \in Rows /\ c # NoCursor /\ listing.seen \in Seq(RowIds)
        /\ listing.of # "none"
        /\ untouched' = untouched /\ rowAt' = rowAt /\ untouched \in SUBSET Listed
    BY DEF ContinueListing, ListingInv, ListingTyped
  <1>2. /\ S \in SUBSET Rows /\ IsFiniteSet(S) /\ Distinct(S) /\ NoCursor \notin S
        /\ {r.id : r \in S} \subseteq RowIds
        /\ \A i \in Listed : RowOf(i).id = i /\ RowOf(i) \in Rows
        /\ \A i \in Listed : AfterCursor(RowOf(i), c) => RowOf(i) \in S
        /\ Fetch(c) = PageOf(S)
    BY <1>1, FoundIs
  <1>3. \A r \in S : Newer(c, r) /\ \E i \in Listed : r = RowOf(i)
    BY <1>1 DEF Found, AfterCursor
  <1>4. listing' = [listing EXCEPT !.cursor = next, !.seen = @ \o items]
    BY <1>2 DEF ContinueListing
  <1> HIDE DEF S, items, next
  <1>5. /\ items \in Seq({r.id : r \in S})
        /\ next # NoCursor => next \in S
        /\ \A r \in S : IF next # NoCursor /\ Newer(next, r) THEN NotShown(items, r.id)
                        ELSE ShownOnce(items, r.id)
    BY <1>2, PageShows DEF items, next
  <1>6. items \in Seq(RowIds) /\ next \in Rows
    <2>1. NoCursor \in Rows
      BY DEF NoCursor, Rows
    <2> QED
      BY <1>2, <1>5, <2>1, SeqMonotonic
  <1>7. Listed' = Listed /\ \A i \in Listed : RowOf(i)' = RowOf(i)
    BY <1>1 DEF Listed, RowOf
  <1>8. listing'.cursor = next /\ listing'.seen = listing.seen \o items /\ listing'.of = listing.of
    BY <1>1, <1>4 DEF ListingTyped
  <1>9. ListingTyped'
    <2>1. listing.seen \o items \in Seq(RowIds)
      BY <1>1, <1>6, TwoPages
    <2>2. listing' \in [of : {"none", "projects", "runs"}, cursor : Rows, seen : Seq(RowIds)]
      BY <1>1, <1>4, <1>6, <2>1 DEF ListingTyped
    <2> QED
      BY <1>1, <1>7, <1>8, <2>2 DEF ListingTyped
  <1>10. ASSUME NEW i \in untouched
         PROVE  IF next # NoCursor /\ Newer(next, RowOf(i)) THEN NotShown(listing.seen \o items, i)
                ELSE ShownOnce(listing.seen \o items, i)
    <2>1. i \in Listed /\ RowOf(i) \in Rows /\ RowOf(i).id = i
      BY <1>1, <1>2
    <2>2. CASE Newer(c, RowOf(i))
      <3>1. NotShown(listing.seen, i)
        BY <1>1, <2>2 DEF ListingInv, ShownSoFar
      <3>2. RowOf(i) \in S
        BY <1>2, <2>1, <2>2 DEF AfterCursor
      <3>3. IF next # NoCursor /\ Newer(next, RowOf(i)) THEN NotShown(items, i)
            ELSE ShownOnce(items, i)
        BY <1>5, <2>1, <3>2
      <3> QED
        BY <1>1, <1>6, <3>1, <3>3, TwoPages
    <2>3. CASE ~Newer(c, RowOf(i))
      <3>1. ShownOnce(listing.seen, i)
        BY <1>1, <2>3 DEF ListingInv, ShownSoFar
      <3>2. NotShown(items, i)
        <4>1. i \notin {r.id : r \in S}
          <5> SUFFICES ASSUME NEW r \in S, r.id = i PROVE FALSE
            OBVIOUS
          <5>1. PICK j \in Listed : r = RowOf(j)
            BY <1>3
          <5>2. j = i
            BY <1>2, <5>1
          <5> QED
            BY <1>3, <2>3, <5>1, <5>2
        <4>2. \A n \in DOMAIN items : items[n] \in {r.id : r \in S}
          BY <1>5, LenProperties
        <4> QED
          BY <4>1, <4>2 DEF NotShown
      <3>3. ~(next # NoCursor /\ Newer(next, RowOf(i)))
        BY <1>1, <1>2, <1>3, <1>5, <2>1, <2>3, NewerOrders
      <3> QED
        BY <1>1, <1>6, <3>1, <3>2, <3>3, TwoPages
    <2> QED
      BY <2>2, <2>3
  <1>11. ShownSoFar'
    BY <1>1, <1>7, <1>8, <1>10 DEF ShownSoFar
  <1> QED
    BY <1>9, <1>11 DEF ListingInv

\* Every step keeps the invariant.
LEMMA ListingNextInv == ListingInv /\ [ListingNext]_listingVars => ListingInv'
  <1> SUFFICES ASSUME ListingInv, [ListingNext]_listingVars PROVE ListingInv'
    OBVIOUS
  <1>1. CASE UNCHANGED listingVars
    BY <1>1, RowStepInv DEF listingVars, ListingInv, ListingTyped
  <1> QED
    BY <1>1, RowsKeep, BeginListingKeeps, ContinueListingKeeps DEF ListingNext

\* However many rows there are, whatever their timestamps and ids, and however large a page is:
\* a listing read to its end shows every row that nobody touched meanwhile exactly once.
THEOREM ListingCorrect == ListingSpec => []ListingIsComplete
  <1>1. ListingInv => ListingIsComplete
    <2> SUFFICES ASSUME ListingInv, listing.cursor = NoCursor, NEW i \in untouched
                 PROVE  Cardinality({n \in DOMAIN listing.seen : listing.seen[n] = i}) = 1
      BY DEF ListingIsComplete
    <2>1. ShownOnce(listing.seen, i)
      BY DEF ListingInv, ShownSoFar
    <2>2. PICK n : {m \in DOMAIN listing.seen : listing.seen[m] = i} = {n}
      BY <2>1 DEF ShownOnce
    <2> QED
      BY <2>2, FS_Singleton
  <1> QED
    BY <1>1, ListingInitInv, ListingNextInv, PTL DEF ListingSpec

-----------------------------------------------------------------------------
(* More about sums                                                         *)

SumOver(w, S) == (CHOOSE F : IsSumOf(F, w, S))[S]

\* There is one such function.
LEMMA SumUnique ==
    ASSUME NEW S, IsFiniteSet(S), NEW w, NEW F, IsSumOf(F, w, S), NEW G, IsSumOf(G, w, S)
    PROVE  F[S] = G[S]
  <1>1. G[{}] = 0
    BY DEF IsSumOf
  <1>2. ASSUME NEW t \in SUBSET S, t # {} PROVE \E x \in t : G[t] = w[x] + G[t \ {x}]
    BY <1>2 DEF IsSumOf
  <1>3. \A t \in SUBSET S : G[t] = F[t]
    BY ONLY <1>1, <1>2, SumIs, IsFiniteSet(S), IsSumOf(F, w, S)
  <1> QED
    BY <1>3

\* A sum over a set gives the sum over each of its subsets.
LEMMA SumOfIs ==
    ASSUME NEW S, IsFiniteSet(S), NEW w, NEW F, IsSumOf(F, w, S), NEW A \in SUBSET S
    PROVE  F[A] = SumOver(w, A)
  <1> DEFINE H == [t \in SUBSET A |-> F[t]]
             G == CHOOSE G : IsSumOf(G, w, A)
  <1>1. IsFiniteSet(A)
    BY FS_Subset
  <1>2. IsSumOf(H, w, A)
    BY DEF IsSumOf
  <1>3. IsSumOf(G, w, A)
    BY <1>2
  <1>4. H[A] = F[A]
    OBVIOUS
  <1> HIDE DEF G, H
  <1>5. H[A] = G[A]
    BY <1>1, <1>2, <1>3, SumUnique
  <1> QED
    BY <1>4, <1>5 DEF SumOver, G

\* A sum is a number, none of the elements of no set, and each element adds its own.
LEMMA SumFacts ==
    ASSUME NEW S, IsFiniteSet(S), NEW w, \A x \in S : w[x] \in Nat
    PROVE  /\ SumOver(w, S) \in Nat /\ SumOver(w, {}) = 0
           /\ \A x \in S : SumOver(w, S) = w[x] + SumOver(w, S \ {x})
  <1>1. PICK F : IsSumOf(F, w, S)
    BY SumExists
  <1>2. \A A \in SUBSET S : F[A] = SumOver(w, A)
    BY <1>1, SumOfIs
  <1>3. S \in SUBSET S /\ {} \in SUBSET S /\ \A x \in S : S \ {x} \in SUBSET S
    OBVIOUS
  <1> QED
    BY <1>1, <1>2, <1>3 DEF IsSumOf

\* An element that is added adds its own.
LEMMA SumOfMore ==
    ASSUME NEW S, IsFiniteSet(S), NEW w, \A x \in S : w[x] \in Nat,
           NEW a, a \notin S, w[a] \in Nat
    PROVE  SumOver(w, S \cup {a}) = w[a] + SumOver(w, S)
  <1>1. IsFiniteSet(S \cup {a}) /\ (S \cup {a}) \ {a} = S
    BY FS_AddElement
  <1>2. \A x \in S \cup {a} : w[x] \in Nat
    OBVIOUS
  <1> QED
    BY <1>1, <1>2, SumFacts

\* The sum over two sets that have no element in common.
LEMMA SumOfUnion ==
    ASSUME NEW S, IsFiniteSet(S), NEW T, IsFiniteSet(T), S \cap T = {},
           NEW w, \A x \in S \cup T : w[x] \in Nat
    PROVE  SumOver(w, S \cup T) = SumOver(w, S) + SumOver(w, T)
  <1> DEFINE bad == {A \in SUBSET S : SumOver(w, A \cup T) # SumOver(w, A) + SumOver(w, T)}
  <1> SUFFICES ASSUME bad # {} PROVE FALSE
    OBVIOUS
  <1>0. bad \subseteq SUBSET S
    OBVIOUS
  <1> HIDE DEF bad
  <1>1. PICK A \in bad : \A B \in bad : B \subseteq A => B = A
    BY <1>0, SmallestSubset
  <1> USE DEF bad
  <1>2. SumOver(w, T) \in Nat /\ SumOver(w, {}) = 0 /\ {} \cup T = T
    BY SumFacts
  <1>3. A # {}
    <2>1. SumOver(w, A \cup T) # SumOver(w, A) + SumOver(w, T)
      OBVIOUS
    <2> HIDE DEF bad
    <2>2. 0 + SumOver(w, T) = SumOver(w, T)
      BY <1>2
    <2> QED
      BY <1>2, <2>1, <2>2
  <1>4. PICK a \in A : TRUE
    BY <1>3
  <1> DEFINE B == A \ {a}
  <1>5. B \notin bad /\ B \in SUBSET S
    BY <1>1, <1>4
  <1>6. SumOver(w, B \cup T) = SumOver(w, B) + SumOver(w, T)
    BY <1>5
  <1>7. /\ IsFiniteSet(B) /\ IsFiniteSet(B \cup T) /\ a \notin B /\ a \notin B \cup T
        /\ w[a] \in Nat /\ (\A x \in B : w[x] \in Nat) /\ \A x \in B \cup T : w[x] \in Nat
    BY <1>5, FS_Subset, FS_Union
  <1>8. A = B \cup {a} /\ A \cup T = (B \cup T) \cup {a}
    BY <1>4
  <1> HIDE DEF B, bad
  <1>9. SumOver(w, B) \in Nat /\ SumOver(w, A) = w[a] + SumOver(w, B)
    BY <1>7, <1>8, SumFacts, SumOfMore
  <1>10. SumOver(w, A \cup T) = w[a] + SumOver(w, B \cup T)
    BY <1>7, <1>8, SumOfMore
  <1>11. SumOver(w, A \cup T) = SumOver(w, A) + SumOver(w, T)
    BY <1>2, <1>6, <1>7, <1>9, <1>10
  <1> QED
    BY <1>11 DEF bad

\* A sum over what the elements of a set become, when no two become the same.
LEMMA SumOfImage ==
    ASSUME NEW S, IsFiniteSet(S), NEW w, \A x \in S : w[x] \in Nat, NEW v,
           NEW f, \A x \in S : v[f[x]] = w[x], \A x, y \in S : f[x] = f[y] => x = y
    PROVE  SumOver(v, {f[x] : x \in S}) = SumOver(w, S)
  <1> DEFINE Im(A) == {f[x] : x \in A}
             bad == {A \in SUBSET S : SumOver(v, Im(A)) # SumOver(w, A)}
  <1> SUFFICES ASSUME bad # {} PROVE FALSE
    OBVIOUS
  <1>0. bad \subseteq SUBSET S
    OBVIOUS
  <1> HIDE DEF bad
  <1>1. PICK A \in bad : \A B \in bad : B \subseteq A => B = A
    BY <1>0, SmallestSubset
  <1> USE DEF bad
  <1>2. SumOver(w, {}) = 0 /\ SumOver(v, {}) = 0
    BY SumFacts, FS_EmptySet
  <1>3. A # {}
    <2>1. Im({}) = {}
      OBVIOUS
    <2> HIDE DEF Im
    <2> QED
      BY <1>2, <2>1
  <1>4. PICK a \in A : TRUE
    BY <1>3
  <1> DEFINE B == A \ {a}
  <1>5. B \notin bad /\ B \in SUBSET S /\ a \in S
    BY <1>1, <1>4
  <1>6. SumOver(v, Im(B)) = SumOver(w, B)
    BY <1>5
  <1>7. /\ IsFiniteSet(B) /\ a \notin B /\ w[a] \in Nat /\ (\A x \in B : w[x] \in Nat)
    BY <1>5, FS_Subset
  <1>8. A = B \cup {a} /\ Im(A) = Im(B) \cup {f[a]} /\ f[a] \notin Im(B) /\ v[f[a]] = w[a]
    BY <1>4, <1>5
  <1>9. IsFiniteSet(Im(B)) /\ \A y \in Im(B) : v[y] \in Nat
    <2> DEFINE h == [x \in B |-> f[x]]
    <2>1. h \in Surjection(B, Im(B))
      BY DEF Surjection
    <2>2. \A y \in Im(B) : v[y] \in Nat
      BY <1>5
    <2> HIDE DEF h, Im, B
    <2> QED
      BY <1>7, <2>1, <2>2, FS_Surjection
  <1> HIDE DEF B, bad, Im
  <1>10. SumOver(w, A) = w[a] + SumOver(w, B)
    BY <1>7, <1>8, SumOfMore
  <1>11. SumOver(v, Im(A)) = w[a] + SumOver(v, Im(B))
    BY <1>7, <1>8, <1>9, SumOfMore
  <1>12. SumOver(v, Im(A)) = SumOver(w, A)
    BY <1>6, <1>10, <1>11
  <1> QED
    BY <1>12 DEF bad

\* What is summed up by groups is the sum of all.
LEMMA SumOfGroups ==
    ASSUME NEW S, IsFiniteSet(S), NEW w, \A x \in S : w[x] \in Nat,
           NEW P, IsFiniteSet(P), NEW g, \A x \in S : g[x] \in P,
           NEW T, \A q \in P : T[q] = SumOver(w, {x \in S : g[x] = q})
    PROVE  SumOver(T, P) = SumOver(w, S)
  <1> DEFINE In(Q) == {x \in S : g[x] \in Q}
             One(q) == {x \in S : g[x] = q}
             bad == {Q \in SUBSET P : SumOver(T, Q) # SumOver(w, In(Q))}
  <1>0. bad \subseteq SUBSET P
    OBVIOUS
  <1>1. ASSUME NEW A, A \subseteq S PROVE IsFiniteSet(A) /\ \A x \in A : w[x] \in Nat
    BY <1>1, FS_Subset
  <1>2. ASSUME NEW q \in P PROVE T[q] = SumOver(w, One(q)) /\ T[q] \in Nat
    <2>1. One(q) \subseteq S
      OBVIOUS
    <2>2. T[q] = SumOver(w, One(q))
      OBVIOUS
    <2> HIDE DEF One
    <2> QED
      BY <1>1, <2>1, <2>2, SumFacts
  <1>3. ASSUME bad # {} PROVE FALSE
    <2> HIDE DEF bad
    <2>1. PICK Q \in bad : \A B \in bad : B \subseteq Q => B = Q
      BY <1>0, <1>3, SmallestSubset
    <2> USE DEF bad
    <2>2. SumOver(w, {}) = 0 /\ SumOver(T, {}) = 0
      BY SumFacts, FS_EmptySet
    <2>3. Q # {}
      <3>1. In({}) = {}
        OBVIOUS
      <3> HIDE DEF In
      <3> QED
        BY <2>2, <3>1
    <2>4. PICK q \in Q : TRUE
      BY <2>3
    <2> DEFINE B == Q \ {q}
    <2>5. B \notin bad /\ B \in SUBSET P /\ q \in P
      BY <2>1, <2>4
    <2>6. SumOver(T, B) = SumOver(w, In(B))
      BY <2>5
    <2>7. /\ IsFiniteSet(B) /\ q \notin B /\ Q = B \cup {q}
          /\ (\A x \in B : T[x] \in Nat)
      BY <1>2, <2>4, <2>5, FS_Subset
    <2>8. /\ In(Q) = In(B) \cup One(q) /\ In(B) \cap One(q) = {}
          /\ In(B) \subseteq S /\ One(q) \subseteq S
      BY <2>4
    <2> HIDE DEF B, bad, In, One
    <2>9. SumOver(T, Q) = T[q] + SumOver(T, B)
      BY <1>2, <2>5, <2>7, SumOfMore
    <2>10. SumOver(w, In(Q)) = SumOver(w, In(B)) + SumOver(w, One(q))
      <3>1. \A x \in In(B) \cup One(q) : w[x] \in Nat
        BY <2>8
      <3>2. IsFiniteSet(In(B)) /\ IsFiniteSet(One(q)) /\ In(B) \cap One(q) = {}
        BY <1>1, <2>8
      <3>3. SumOver(w, In(B) \cup One(q)) = SumOver(w, In(B)) + SumOver(w, One(q))
        BY <3>1, <3>2, SumOfUnion
      <3> QED
        BY <2>8, <3>3
    <2>11. SumOver(w, In(B)) \in Nat
      BY <1>1, <2>8, SumFacts
    <2>12. SumOver(T, Q) = SumOver(w, In(Q))
      BY <1>2, <2>5, <2>6, <2>9, <2>10, <2>11
    <2> QED
      BY <2>12 DEF bad
  <1>4. SumOver(T, P) = SumOver(w, In(P))
    BY <1>3
  <1>5. In(P) = S
    OBVIOUS
  <1> QED
    BY <1>4, <1>5

\* A fold that adds up over a set gives the sum.
LEMMA FoldSums ==
    ASSUME NEW S, IsFiniteSet(S), NEW w, \A x \in S : w[x] \in Nat
    PROVE  /\ \E G : G = Adds(G, w, S)
           /\ \A G : G = Adds(G, w, S) => G[S] = SumOver(w, S)
  <1>1. PICK F : IsSumOf(F, w, S)
    BY SumExists
  <1>2. F = Adds(F, w, S)
    BY <1>1, SumFolds
  <1>3. F[S] = SumOver(w, S)
    BY <1>1, SumOfIs
  <1>4. \A G : G = Adds(G, w, S) => G = F
    BY <1>1, FoldIsSum
  <1> QED
    BY <1>2, <1>3, <1>4

-----------------------------------------------------------------------------
(* UserUsage: the sums                                                     *)

RunRows == [id : UsageRuns, project : UsageProjects, deleted : BOOLEAN, usage : Nat]
RunUsage == [r \in RunRows |-> r.usage]

\* A summary adds up what the rows have used.
LEMMA SummarySums ==
    ASSUME NEW S \in SUBSET RunRows, IsFiniteSet(S)
    PROVE  /\ Summarize(S).usage = SumOver(RunUsage, S) /\ SumOver(RunUsage, S) \in Nat
           /\ Summarize(S).runs = Cardinality(S) /\ Cardinality(S) \in Nat
  <1> DEFINE Step(H) == [t \in SUBSET S |->
                  IF t = {} THEN 0
                  ELSE (CHOOSE x \in t : TRUE).usage + H[t \ {CHOOSE x \in t : TRUE}]]
             Fold == CHOOSE H : H = Step(H)
             w == RunUsage
  <1>1. Summarize(S).usage = Fold[S]
    BY DEF Summarize, MapThenSumSet, MapThenFoldSet
  <1>2. \A x \in S : w[x] \in Nat /\ w[x] = x.usage
    BY DEF RunUsage, RunRows
  <1>3. ASSUME NEW H PROVE Step(H) = Adds(H, w, S)
    <2>1. ASSUME NEW t \in SUBSET S, t # {}
          PROVE  (CHOOSE x \in t : TRUE).usage = w[CHOOSE x \in t : TRUE]
      <3>1. (CHOOSE x \in t : TRUE) \in S
        BY <2>1
      <3> QED
        BY <1>2, <3>1
    <2> HIDE DEF w
    <2> QED
      BY <2>1 DEF Adds
  <1> HIDE DEF Step, w
  <1>4. PICK G : G = Adds(G, w, S)
    BY <1>2, FoldSums
  <1>5. Fold = Step(Fold)
    BY <1>3, <1>4
  <1> HIDE DEF Fold
  <1>6. Fold[S] = SumOver(w, S)
    BY <1>2, <1>3, <1>5, FoldSums
  <1>7. SumOver(w, S) \in Nat
    BY <1>2, SumFacts
  <1>8. Summarize(S).runs = Cardinality(S) /\ Cardinality(S) \in Nat
    BY FS_CardinalityType DEF Summarize
  <1> QED
    BY <1>1, <1>6, <1>7, <1>8 DEF w

\* What was recorded is added up over the Projects.
LEMMA RecordedSums ==
    ASSUME recorded \in [UsageProjects -> Nat]
    PROVE  MapThenSumSet(LAMBDA p : recorded[p], UsageProjects) = SumOver(recorded, UsageProjects)
  <1> DEFINE S == UsageProjects
             Step(H) == [t \in SUBSET S |->
                  IF t = {} THEN 0
                  ELSE recorded[CHOOSE x \in t : TRUE] + H[t \ {CHOOSE x \in t : TRUE}]]
             Fold == CHOOSE H : H = Step(H)
  <1>1. MapThenSumSet(LAMBDA p : recorded[p], UsageProjects) = Fold[S]
    BY DEF MapThenSumSet, MapThenFoldSet
  <1>2. IsFiniteSet(S) /\ \A x \in S : recorded[x] \in Nat
    BY UsageAssumption
  <1>3. ASSUME NEW H PROVE Step(H) = Adds(H, recorded, S)
    BY DEF Adds
  <1> HIDE DEF Step
  <1>4. PICK G : G = Adds(G, recorded, S)
    BY <1>2, FoldSums
  <1>5. Fold = Step(Fold)
    BY <1>3, <1>4
  <1> HIDE DEF Fold
  <1> QED
    BY <1>1, <1>2, <1>3, <1>5, FoldSums

\* So does the usage of one Project, of at most one row.
LEMMA TotalOfRows ==
    ASSUME NEW row, row.total.usage \in Nat, NEW S, S \subseteq {row}
    PROVE  MapThenSumSet(LAMBDA x : x.total.usage, S) = IF S = {} THEN 0 ELSE row.total.usage
  <1> DEFINE Step(H) == [t \in SUBSET S |->
                  IF t = {} THEN 0
                  ELSE (CHOOSE x \in t : TRUE).total.usage + H[t \ {CHOOSE x \in t : TRUE}]]
             Fold == CHOOSE H : H = Step(H)
             w == [x \in S |-> x.total.usage]
  <1>1. MapThenSumSet(LAMBDA x : x.total.usage, S) = Fold[S]
    BY DEF MapThenSumSet, MapThenFoldSet
  <1>2. IsFiniteSet(S) /\ \A x \in S : w[x] \in Nat /\ w[x] = x.total.usage
    BY FS_Singleton, FS_Subset
  <1>3. ASSUME NEW H PROVE Step(H) = Adds(H, w, S)
    <2>1. ASSUME NEW t \in SUBSET S, t # {}
          PROVE  (CHOOSE x \in t : TRUE).total.usage = w[CHOOSE x \in t : TRUE]
      <3>1. (CHOOSE x \in t : TRUE) \in S
        BY <2>1
      <3> QED
        BY <1>2, <3>1
    <2> HIDE DEF w
    <2> QED
      BY <2>1 DEF Adds
  <1> HIDE DEF Step, w
  <1>4. PICK G : G = Adds(G, w, S)
    BY <1>2, FoldSums
  <1>5. Fold = Step(Fold)
    BY <1>3, <1>4
  <1> HIDE DEF Fold
  <1>6. Fold[S] = SumOver(w, S)
    BY <1>2, <1>3, <1>5, FoldSums
  <1>7. CASE S = {}
    BY <1>1, <1>2, <1>6, <1>7, SumFacts
  <1>8. CASE S # {}
    <2>1. row \in S /\ S \ {row} = {}
      BY <1>8
    <2>2. SumOver(w, S) = w[row] + SumOver(w, {}) /\ SumOver(w, {}) = 0 /\ w[row] = row.total.usage
      BY <1>2, <2>1, SumFacts
    <2> QED
      BY <1>1, <1>6, <1>8, <2>2
  <1> QED
    BY <1>7, <1>8

-----------------------------------------------------------------------------
(* UserUsage: the invariant                                                *)

CurrentRow(r) == [id |-> r.id, project |-> r.project, deleted |-> FALSE, usage |-> r.usage]
DeletedRow(r) == [id |-> r.id, project |-> r.project, deleted |-> TRUE, usage |-> r.usage]
RowsOfProject(p) == {r \in UsageRows : r.project = p}

UsageTyped ==
    /\ alive \in SUBSET UsageProjects /\ deletion \in SUBSET alive
    /\ recorded \in [UsageProjects -> Nat]
    /\ current \in SUBSET [id : UsageRuns, project : alive, active : BOOLEAN, usage : Nat]
    /\ archived \in SUBSET [id : UsageRuns, project : UsageProjects \ alive, usage : Nat]
    /\ IsFiniteSet(current) /\ IsFiniteSet(archived)

OneRowEach ==
    Distinct(current) /\ Distinct(archived) /\ \A a \in current, b \in archived : a.id # b.id

\* The rows of a Project, wherever they are, have all that was recorded of it.
UsageKept == \A p \in UsageProjects : recorded[p] = SumOver(RunUsage, RowsOfProject(p))

UsageInv == UsageTyped /\ OneRowEach /\ UsageKept

\* What the rows of either table are.
LEMMA RowTypes ==
    ASSUME UsageTyped
    PROVE  /\ \A r \in current : /\ r.id \in UsageRuns /\ r.project \in UsageProjects
                                  /\ r.project \in alive /\ r.usage \in Nat
                                  /\ r.active \in BOOLEAN
           /\ \A r \in archived : /\ r.id \in UsageRuns /\ r.project \in UsageProjects
                                   /\ r.project \notin alive /\ r.usage \in Nat
  <1>1. current \subseteq [id : UsageRuns, project : alive, active : BOOLEAN, usage : Nat]
    BY DEF UsageTyped
  <1>2. archived \subseteq [id : UsageRuns, project : UsageProjects \ alive, usage : Nat]
    BY DEF UsageTyped
  <1>3. alive \subseteq UsageProjects
    BY DEF UsageTyped
  <1> QED
    BY <1>1, <1>2, <1>3

\* The rows of both tables.
LEMMA UsageRowsAre ==
    UsageRows = {CurrentRow(r) : r \in current} \cup {DeletedRow(r) : r \in archived}
  BY DEF UsageRows, CurrentRow, DeletedRow

\* They are finitely many, and a row is one of a deleted Project when it is in the archive.
LEMMA UsageRowsType ==
    ASSUME UsageTyped
    PROVE  /\ UsageRows \in SUBSET RunRows /\ IsFiniteSet(UsageRows)
           /\ \A r \in UsageRows : r.deleted <=> r.project \notin alive
           /\ \A p : RowsOfProject(p) \in SUBSET RunRows /\ IsFiniteSet(RowsOfProject(p))
  <1> DEFINE C == {CurrentRow(r) : r \in current}
             D == {DeletedRow(r) : r \in archived}
             f == [r \in current |-> CurrentRow(r)]
             g == [r \in archived |-> DeletedRow(r)]
  <1>1. f \in Surjection(current, C) /\ g \in Surjection(archived, D)
    BY DEF Surjection
  <1>2. IsFiniteSet(current) /\ IsFiniteSet(archived)
    BY DEF UsageTyped
  <1>3. C \in SUBSET RunRows /\ \A r \in C : ~r.deleted /\ r.project \in alive
    <2>1. ASSUME NEW r \in current
          PROVE  /\ CurrentRow(r) \in RunRows /\ ~CurrentRow(r).deleted
                 /\ CurrentRow(r).project \in alive
      BY RowTypes DEF RunRows, CurrentRow, UsageTyped
    <2> QED
      BY <2>1
  <1>4. D \in SUBSET RunRows /\ \A r \in D : r.deleted /\ r.project \notin alive
    <2>1. ASSUME NEW r \in archived
          PROVE  /\ DeletedRow(r) \in RunRows /\ DeletedRow(r).deleted
                 /\ DeletedRow(r).project \notin alive
      BY RowTypes DEF RunRows, DeletedRow
    <2> QED
      BY <2>1
  <1> HIDE DEF f, g, C, D
  <1>5. IsFiniteSet(C) /\ IsFiniteSet(D)
    BY <1>1, <1>2, FS_Surjection
  <1>6. UsageRows = C \cup D
    BY UsageRowsAre DEF C, D
  <1>7. UsageRows \in SUBSET RunRows /\ IsFiniteSet(UsageRows)
    BY <1>3, <1>4, <1>5, <1>6, FS_Union
  <1>8. \A p : RowsOfProject(p) \subseteq UsageRows
    BY DEF RowsOfProject
  <1> QED
    BY <1>3, <1>4, <1>6, <1>7, <1>8, FS_Subset

\* Each row has its own Run.
LEMMA UsageRowsDistinct ==
    ASSUME UsageTyped, OneRowEach
    PROVE  Distinct(UsageRows)
  <1> SUFFICES ASSUME NEW a \in UsageRows, NEW b \in UsageRows, a.id = b.id PROVE a = b
    BY DEF Distinct
  <1>1. ASSUME NEW q \in current, NEW r \in current, q.id = r.id
        PROVE  CurrentRow(q) = CurrentRow(r)
    <2>1. q = r
      BY <1>1 DEF OneRowEach, Distinct
    <2> QED
      BY <2>1
  <1>2. ASSUME NEW q \in archived, NEW r \in archived, q.id = r.id
        PROVE  DeletedRow(q) = DeletedRow(r)
    <2>1. q = r
      BY <1>2 DEF OneRowEach, Distinct
    <2> QED
      BY <2>1
  <1>3. /\ \A r : CurrentRow(r).id = r.id /\ DeletedRow(r).id = r.id
        /\ \A q \in current, r \in archived : q.id # r.id
    BY DEF OneRowEach, CurrentRow, DeletedRow
  <1>4. \/ \E r \in current : a = CurrentRow(r)
        \/ \E r \in archived : a = DeletedRow(r)
    BY UsageRowsAre
  <1>5. \/ \E r \in current : b = CurrentRow(r)
        \/ \E r \in archived : b = DeletedRow(r)
    BY UsageRowsAre
  <1> QED
    BY <1>1, <1>2, <1>3, <1>4, <1>5

\* The sum of the rows of a Project.
LEMMA ProjectSums ==
    ASSUME UsageTyped, NEW p
    PROVE  /\ \A r \in RowsOfProject(p) : RunUsage[r] = r.usage /\ RunUsage[r] \in Nat
           /\ SumOver(RunUsage, RowsOfProject(p)) \in Nat
  <1>1. RowsOfProject(p) \in SUBSET RunRows /\ IsFiniteSet(RowsOfProject(p))
    BY UsageRowsType
  <1>2. \A r \in RowsOfProject(p) : RunUsage[r] = r.usage /\ RunUsage[r] \in Nat
    BY <1>1 DEF RunUsage, RunRows
  <1> QED
    BY <1>1, <1>2, SumFacts

\* Before the first Run nothing was recorded.
LEMMA UsageInitInv == UsageInit => UsageInv
  <1> SUFFICES ASSUME UsageInit PROVE UsageInv
    OBVIOUS
  <1>1. UsageTyped
    BY FS_EmptySet DEF UsageInit, UsageTyped
  <1>2. OneRowEach
    BY DEF UsageInit, OneRowEach, Distinct
  <1>3. ASSUME NEW p \in UsageProjects PROVE recorded[p] = SumOver(RunUsage, RowsOfProject(p))
    <2>1. RowsOfProject(p) = {} /\ recorded[p] = 0
      BY DEF UsageInit, RowsOfProject, UsageRows
    <2>2. SumOver(RunUsage, {}) = 0
      BY FS_EmptySet, SumFacts
    <2> QED
      BY <2>1, <2>2
  <1> QED
    BY <1>1, <1>2, <1>3 DEF UsageInv, UsageKept

\* A Run begins and has used nothing.
LEMMA BeginRunKeeps ==
    ASSUME UsageInv, NEW p \in UsageProjects, NEW id \in UsageRuns, BeginRun(p, id)
    PROVE  UsageInv'
  <1> DEFINE new == [id |-> id, project |-> p, active |-> TRUE, usage |-> 0]
             row == CurrentRow(new)
  <1>1. /\ p \in alive /\ id \notin {r.id : r \in current \cup archived}
        /\ current' = current \cup {new} /\ alive' = alive /\ archived' = archived
        /\ deletion' = deletion /\ recorded' = recorded
    BY DEF BeginRun
  <1>2. UsageTyped /\ OneRowEach /\ UsageKept
    BY DEF UsageInv
  <1>3. UsageTyped'
    <2>1. IsFiniteSet(current')
      BY <1>1, <1>2, FS_AddElement DEF UsageTyped
    <2>2. new \in [id : UsageRuns, project : alive, active : BOOLEAN, usage : Nat]
      BY <1>1
    <2> HIDE DEF new
    <2> QED
      BY <1>1, <1>2, <2>1, <2>2 DEF UsageTyped
  <1>4. OneRowEach'
    <2>1. new.id = id /\ \A r \in current \cup archived : r.id # id
      BY <1>1
    <2> HIDE DEF new
    <2>2. \A a, b \in current' : a.id = b.id => a = b
      BY <1>1, <1>2, <2>1 DEF OneRowEach, Distinct
    <2>3. \A a \in current', b \in archived' : a.id # b.id
      BY <1>1, <1>2, <2>1 DEF OneRowEach
    <2> QED
      BY <1>1, <1>2, <2>2, <2>3 DEF OneRowEach, Distinct
  <1>5. UsageRows' = UsageRows \cup {row}
    BY <1>1 DEF UsageRows, CurrentRow
  <1>6. row \notin UsageRows /\ row.project = p /\ row.usage = 0 /\ row \in RunRows
    BY <1>1, UsageRowsAre DEF CurrentRow, DeletedRow, RunRows
  <1> HIDE DEF row
  <1>7. ASSUME NEW q \in UsageProjects PROVE recorded'[q] = SumOver(RunUsage, RowsOfProject(q)')
    <2>1. CASE q = p
      <3>1. RowsOfProject(p)' = RowsOfProject(p) \cup {row} /\ row \notin RowsOfProject(p)
        BY <1>5, <1>6 DEF RowsOfProject
      <3>2. RunUsage[row] = 0
        BY <1>6 DEF RunUsage
      <3>3. /\ IsFiniteSet(RowsOfProject(p)) /\ SumOver(RunUsage, RowsOfProject(p)) \in Nat
            /\ \A r \in RowsOfProject(p) : RunUsage[r] \in Nat
        BY <1>2, UsageRowsType, ProjectSums
      <3>4. SumOver(RunUsage, RowsOfProject(p) \cup {row}) = 0 + SumOver(RunUsage, RowsOfProject(p))
        BY <3>1, <3>2, <3>3, SumOfMore
      <3> QED
        BY <1>1, <1>2, <2>1, <3>1, <3>3, <3>4 DEF UsageKept
    <2>2. CASE q # p
      <3>1. RowsOfProject(q)' = RowsOfProject(q)
        BY <1>5, <1>6, <2>2 DEF RowsOfProject
      <3> QED
        BY <1>1, <1>2, <3>1 DEF UsageKept
    <2> QED
      BY <2>1, <2>2
  <1> QED
    BY <1>3, <1>4, <1>7 DEF UsageInv, UsageKept

\* An active Run uses more, which is recorded.
LEMMA SpendKeeps ==
    ASSUME UsageInv, NEW r \in current, Spend(r)
    PROVE  UsageInv'
  <1> DEFINE new == [r EXCEPT !.usage = @ + 1]
             old == CurrentRow(r)
             row == CurrentRow(new)
             p == r.project
  <1>1. /\ current' = (current \ {r}) \cup {new} /\ alive' = alive /\ archived' = archived
        /\ deletion' = deletion /\ recorded' = [recorded EXCEPT ![p] = @ + 1]
    BY DEF Spend
  <1>2. UsageTyped /\ OneRowEach /\ UsageKept
    BY DEF UsageInv
  <1>3. /\ r \in [id : UsageRuns, project : alive, active : BOOLEAN, usage : Nat]
        /\ r.usage \in Nat /\ p \in UsageProjects
    BY <1>2, RowTypes DEF UsageTyped
  <1>4. /\ new \in [id : UsageRuns, project : alive, active : BOOLEAN, usage : Nat]
        /\ new.id = r.id /\ new.project = p /\ new.usage = r.usage + 1
    BY <1>3
  <1>5. /\ old.id = r.id /\ old.project = p /\ old.usage = r.usage /\ old.deleted = FALSE
        /\ row.id = r.id /\ row.project = p /\ row.usage = r.usage + 1
        /\ row \in RunRows /\ old # row
    <2>1. row \in RunRows
      BY <1>3, <1>4 DEF CurrentRow, RunRows
    <2>2. old.usage # row.usage
      BY <1>3, <1>4 DEF CurrentRow
    <2> HIDE DEF new
    <2> QED
      BY <1>4, <2>1, <2>2 DEF CurrentRow
  <1> HIDE DEF new
  <1>6. UsageTyped'
    <2>1. IsFiniteSet(current')
      BY <1>1, <1>2, FS_AddElement, FS_RemoveElement DEF UsageTyped
    <2>2. recorded' \in [UsageProjects -> Nat]
      BY <1>1, <1>2 DEF UsageTyped
    <2> QED
      BY <1>1, <1>2, <1>4, <2>1, <2>2 DEF UsageTyped
  <1>7. OneRowEach'
    <2>1. \A a, b \in current' : a.id = b.id => a = b
      BY <1>1, <1>2, <1>4 DEF OneRowEach, Distinct
    <2>2. \A a \in current', b \in archived' : a.id # b.id
      BY <1>1, <1>2, <1>4 DEF OneRowEach
    <2> QED
      BY <1>1, <1>2, <2>1, <2>2 DEF OneRowEach, Distinct
  <1>8. old \in UsageRows
    BY UsageRowsAre
  <1>9. UsageRows' = (UsageRows \ {old}) \cup {row}
    <2>1. UsageRows' = {CurrentRow(x) : x \in current'} \cup {DeletedRow(x) : x \in archived}
      BY <1>1 DEF UsageRows, CurrentRow, DeletedRow
    <2>2. \A x \in current \ {r} : CurrentRow(x) # old
      <3>1. \A x \in current : CurrentRow(x).id = x.id
        BY DEF CurrentRow
      <3> QED
        BY <1>2, <1>5, <3>1 DEF OneRowEach, Distinct
    <2>3. \A x \in archived : DeletedRow(x) # old
      <3>1. \A x \in archived : DeletedRow(x).deleted = TRUE
        BY DEF DeletedRow
      <3> QED
        BY <1>5, <3>1
    <2> HIDE DEF old, row
    <2>4. {CurrentRow(x) : x \in current'} = {CurrentRow(x) : x \in current \ {r}} \cup {row}
      BY <1>1 DEF row
    <2>5. {CurrentRow(x) : x \in current} = {CurrentRow(x) : x \in current \ {r}} \cup {old}
      BY DEF old
    <2> QED
      BY <2>1, <2>2, <2>3, <2>4, <2>5, UsageRowsAre
  <1>10. row \notin UsageRows
    BY <1>2, <1>5, <1>8, UsageRowsDistinct DEF Distinct
  <1> HIDE DEF old, row, p
  <1>11. ASSUME NEW q \in UsageProjects PROVE recorded'[q] = SumOver(RunUsage, RowsOfProject(q)')
    <2>1. CASE q = p
      <3> DEFINE S == RowsOfProject(p)
                 R == S \ {old}
      <3>1. S' = R \cup {row} /\ row \notin R /\ old \in S
        BY <1>5, <1>8, <1>9, <1>10 DEF RowsOfProject
      <3>2. IsFiniteSet(S) /\ \A x \in S : RunUsage[x] \in Nat /\ RunUsage[x] = x.usage
        BY <1>2, UsageRowsType, ProjectSums
      <3>3. RunUsage[row] = r.usage + 1 /\ RunUsage[row] \in Nat
        BY <1>3, <1>5 DEF RunUsage
      <3>4. RunUsage[old] = r.usage
        BY <1>5, <3>1, <3>2
      <3> HIDE DEF S
      <3>5. IsFiniteSet(R) /\ \A x \in R : RunUsage[x] \in Nat
        BY <3>2, FS_RemoveElement
      <3>6. SumOver(RunUsage, S) = RunUsage[old] + SumOver(RunUsage, R)
        BY <3>1, <3>2, SumFacts
      <3> HIDE DEF R
      <3>7. SumOver(RunUsage, R \cup {row}) = RunUsage[row] + SumOver(RunUsage, R)
        BY <3>1, <3>3, <3>5, SumOfMore
      <3>8. SumOver(RunUsage, R) \in Nat
        BY <3>5, SumFacts
      <3>9. recorded[p] = SumOver(RunUsage, S) /\ recorded'[p] = recorded[p] + 1
        BY <1>1, <1>2, <1>3 DEF UsageKept, UsageTyped, S
      <3>10. recorded'[p] = SumOver(RunUsage, S')
        BY <1>3, <3>1, <3>3, <3>4, <3>6, <3>7, <3>8, <3>9
      <3> QED
        BY <2>1, <3>10 DEF S
    <2>2. CASE q # p
      <3>1. RowsOfProject(q)' = RowsOfProject(q)
        BY <1>5, <1>9, <2>2 DEF RowsOfProject
      <3>2. recorded'[q] = recorded[q]
        BY <1>1, <1>2, <2>2 DEF UsageTyped
      <3> QED
        BY <1>2, <3>1, <3>2 DEF UsageKept
    <2> QED
      BY <2>1, <2>2
  <1> QED
    BY <1>6, <1>7, <1>11 DEF UsageInv, UsageKept

\* A Run ends, and the summaries do not say so.
LEMMA FinishRunKeeps ==
    ASSUME UsageInv, NEW r \in current, FinishRun(r)
    PROVE  UsageInv'
  <1> DEFINE new == [r EXCEPT !.active = FALSE]
  <1>1. /\ current' = (current \ {r}) \cup {new} /\ alive' = alive /\ archived' = archived
        /\ deletion' = deletion /\ recorded' = recorded
    BY DEF FinishRun
  <1>2. UsageTyped /\ OneRowEach /\ UsageKept
    BY DEF UsageInv
  <1>3. r \in [id : UsageRuns, project : alive, active : BOOLEAN, usage : Nat]
    BY <1>2 DEF UsageTyped
  <1>4. /\ new \in [id : UsageRuns, project : alive, active : BOOLEAN, usage : Nat]
        /\ new.id = r.id /\ CurrentRow(new) = CurrentRow(r)
    BY <1>3 DEF CurrentRow
  <1> HIDE DEF new
  <1>5. UsageTyped'
    <2>1. IsFiniteSet(current')
      BY <1>1, <1>2, FS_AddElement, FS_RemoveElement DEF UsageTyped
    <2> QED
      BY <1>1, <1>2, <1>4, <2>1 DEF UsageTyped
  <1>6. OneRowEach'
    <2>1. \A a, b \in current' : a.id = b.id => a = b
      BY <1>1, <1>2, <1>4 DEF OneRowEach, Distinct
    <2>2. \A a \in current', b \in archived' : a.id # b.id
      BY <1>1, <1>2, <1>4 DEF OneRowEach
    <2> QED
      BY <1>1, <1>2, <2>1, <2>2 DEF OneRowEach, Distinct
  <1>7. UsageRows' = UsageRows
    <2>1. UsageRows' = {CurrentRow(x) : x \in current'} \cup {DeletedRow(x) : x \in archived}
      BY <1>1 DEF UsageRows, CurrentRow, DeletedRow
    <2>2. {CurrentRow(x) : x \in current'} = {CurrentRow(x) : x \in current}
      BY <1>1, <1>4
    <2> QED
      BY <2>1, <2>2, UsageRowsAre
  <1>8. UsageKept'
    BY <1>1, <1>2, <1>7 DEF UsageKept, RowsOfProject
  <1> QED
    BY <1>5, <1>6, <1>8 DEF UsageInv

\* The sandbox is stopped.
LEMMA StopForDeletionKeeps ==
    ASSUME UsageInv, NEW p \in UsageProjects, StopForDeletion(p)
    PROVE  UsageInv'
  <1>1. /\ current' = current /\ alive' = alive /\ archived' = archived
        /\ deletion' = deletion \cup {p} /\ recorded' = recorded /\ p \in alive
    BY DEF StopForDeletion
  <1>2. UsageRows' = UsageRows
    BY <1>1 DEF UsageRows
  <1> QED
    BY <1>1, <1>2 DEF UsageInv, UsageTyped, OneRowEach, UsageKept, RowsOfProject

\* The Runs of a Project that is deleted go to the archive, with all that they have used.
LEMMA ArchiveKeeps ==
    ASSUME UsageInv, NEW p \in alive, Archive(p), alive' = alive \ {p},
           current' = current \ RunsOf(p), deletion' = deletion \ {p}, recorded' = recorded
    PROVE  UsageInv'
  <1> DEFINE moved == {ArchivedRow(r) : r \in RunsOf(p)}
             S == RowsOfProject(p)
             f == [x \in RunRows |-> [x EXCEPT !.deleted = TRUE]]
  <1>1. UsageTyped /\ OneRowEach /\ UsageKept /\ archived' = archived \cup moved
    BY DEF UsageInv, Archive
  <1>2. p \in UsageProjects
    BY <1>1 DEF UsageTyped
  <1>3. \A r \in RunsOf(p) : r \in current /\ r.project = p /\ r.id \in UsageRuns /\ r.usage \in Nat
    BY <1>1, RowTypes DEF RunsOf
  <1>4. \A a \in moved : \E r \in RunsOf(p) : a.id = r.id /\ a = ArchivedRow(r)
    BY DEF ArchivedRow
  <1>5. moved \subseteq [id : UsageRuns, project : UsageProjects \ alive', usage : Nat]
    BY <1>2, <1>3 DEF ArchivedRow
  <1>6. IsFiniteSet(moved)
    <2> DEFINE g == [r \in RunsOf(p) |-> ArchivedRow(r)]
    <2>1. g \in Surjection(RunsOf(p), moved)
      BY DEF Surjection
    <2>2. IsFiniteSet(RunsOf(p))
      <3>1. RunsOf(p) \subseteq current
        BY <1>3
      <3> QED
        BY <1>1, <3>1, FS_Subset DEF UsageTyped
    <2> HIDE DEF g, moved
    <2> QED
      BY <2>1, <2>2, FS_Surjection
  <1> HIDE DEF moved
  <1>7. UsageTyped'
    <2>1. IsFiniteSet(current')
      BY <1>1, FS_Subset DEF UsageTyped
    <2>2. IsFiniteSet(archived')
      BY <1>1, <1>6, FS_Union DEF UsageTyped
    <2>3. current' \subseteq [id : UsageRuns, project : alive', active : BOOLEAN, usage : Nat]
      <3>1. \A r \in current' :
                /\ r \in [id : UsageRuns, project : alive, active : BOOLEAN, usage : Nat]
                /\ r.project # p
        BY <1>1 DEF UsageTyped, RunsOf
      <3> QED
        BY <3>1
    <2>4. archived' \subseteq [id : UsageRuns, project : UsageProjects \ alive', usage : Nat]
      <3>1. \A r \in archived :
                r \in [id : UsageRuns, project : UsageProjects \ alive, usage : Nat]
        BY <1>1 DEF UsageTyped
      <3>2. \A r \in archived :
                r \in [id : UsageRuns, project : UsageProjects \ alive', usage : Nat]
        BY <3>1
      <3> QED
        BY <1>1, <1>5, <3>2
    <2> QED
      BY <1>1, <2>1, <2>2, <2>3, <2>4 DEF UsageTyped
  <1>8. OneRowEach'
    <2>1. Distinct(moved)
      <3> SUFFICES ASSUME NEW a \in moved, NEW b \in moved, a.id = b.id PROVE a = b
        BY DEF Distinct
      <3>1. PICK r \in RunsOf(p) : a.id = r.id /\ a = ArchivedRow(r)
        BY <1>4
      <3>2. PICK s \in RunsOf(p) : b.id = s.id /\ b = ArchivedRow(s)
        BY <1>4
      <3>3. r = s
        BY <1>1, <1>3, <3>1, <3>2 DEF OneRowEach, Distinct
      <3> QED
        BY <3>1, <3>2, <3>3
    <2>2. \A a \in moved, b \in archived : a.id # b.id
      BY <1>1, <1>3, <1>4 DEF OneRowEach
    <2>3. \A a \in current', b \in moved : a.id # b.id
      BY <1>1, <1>3, <1>4 DEF OneRowEach, Distinct
    <2>4. Distinct(current') /\ \A a \in current', b \in archived : a.id # b.id
      BY <1>1 DEF OneRowEach, Distinct
    <2>5. Distinct(archived')
      BY <1>1, <2>1, <2>2 DEF OneRowEach, Distinct
    <2> QED
      BY <1>1, <2>3, <2>4, <2>5 DEF OneRowEach
  <1>9. UsageRows' = {CurrentRow(x) : x \in current'} \cup {DeletedRow(x) : x \in archived}
                       \cup {DeletedRow(x) : x \in RunsOf(p)}
    <2>1. UsageRows' = {CurrentRow(x) : x \in current'} \cup {DeletedRow(x) : x \in archived'}
      BY DEF UsageRows, CurrentRow, DeletedRow
    <2>2. \A x : DeletedRow(ArchivedRow(x)) = DeletedRow(x)
      BY DEF DeletedRow, ArchivedRow
    <2>3. {DeletedRow(x) : x \in moved} = {DeletedRow(x) : x \in RunsOf(p)}
      BY <2>2 DEF moved
    <2> QED
      BY <1>1, <2>1, <2>3
  <1>10. ASSUME NEW q \in UsageProjects, q # p PROVE RowsOfProject(q)' = RowsOfProject(q)
    <2>1. /\ \A x : CurrentRow(x).project = x.project /\ DeletedRow(x).project = x.project
      BY DEF CurrentRow, DeletedRow
    <2>2. \A y : y \in UsageRows /\ y.project = q <=> y \in UsageRows' /\ y.project = q
      <3>1. \A x \in current : x \in current' <=> x.project # p
        BY DEF RunsOf
      <3>2. \A x \in RunsOf(p) : x.project # q
        BY <1>3, <1>10
      <3>3. current' \subseteq current
        OBVIOUS
      <3> QED
        BY <1>9, <1>10, <2>1, <3>1, <3>2, <3>3, UsageRowsAre
    <2> QED
      BY <2>2 DEF RowsOfProject
  <1>11. /\ \A y : y \in S <=> \E x \in RunsOf(p) : y = CurrentRow(x)
         /\ \A y : y \in S' <=> \E x \in RunsOf(p) : y = DeletedRow(x)
    <2>1. /\ \A x : CurrentRow(x).project = x.project /\ DeletedRow(x).project = x.project
      BY DEF CurrentRow, DeletedRow
    <2>2. \A x \in archived : x.project # p
      BY <1>1, RowTypes
    <2>3. \A x : x \in RunsOf(p) <=> x \in current /\ x.project = p
      BY DEF RunsOf
    <2>4. \A y : y \in S <=> y \in UsageRows /\ y.project = p
      BY DEF RowsOfProject
    <2>5. \A y : y \in S' <=> y \in UsageRows' /\ y.project = p
      BY DEF RowsOfProject
    <2> HIDE DEF S
    <2> QED
      BY <1>9, <2>1, <2>2, <2>3, <2>4, <2>5, UsageRowsAre
  <1>12. S \in SUBSET RunRows /\ IsFiniteSet(S) /\ \A x \in S : RunUsage[x] \in Nat
    BY <1>1, UsageRowsType, ProjectSums
  <1>13. \A x \in S : f[x] \in RunRows /\ f[x].id = x.id /\ f[x].usage = x.usage
    BY <1>12 DEF RunRows
  <1>14. \A x \in S : RunUsage[f[x]] = RunUsage[x]
    BY <1>12, <1>13 DEF RunUsage
  <1>15. \A x, y \in S : f[x] = f[y] => x = y
    <2>1. S \subseteq UsageRows
      BY DEF RowsOfProject
    <2>2. Distinct(UsageRows)
      BY <1>1, UsageRowsDistinct
    <2> HIDE DEF f, S
    <2>3. \A x, y \in S : f[x] = f[y] => x.id = y.id
      BY <1>13
    <2> QED
      BY <2>1, <2>2, <2>3 DEF Distinct
  <1>16. S' = {f[x] : x \in S}
    <2>1. \A x \in RunsOf(p) : CurrentRow(x) \in RunRows => f[CurrentRow(x)] = DeletedRow(x)
      BY DEF CurrentRow, DeletedRow
    <2>2. \A x \in RunsOf(p) : CurrentRow(x) \in S
      BY <1>11
    <2> HIDE DEF f, S
    <2>3. \A y : y \in {f[x] : x \in S} <=> \E x \in RunsOf(p) : y = DeletedRow(x)
      BY <1>11, <1>12, <2>1, <2>2
    <2> QED
      BY <1>11, <2>3
  <1> HIDE DEF f, S
  <1>17. SumOver(RunUsage, S') = SumOver(RunUsage, S)
    BY <1>12, <1>14, <1>15, <1>16, SumOfImage
  <1>18. UsageKept'
    <2>1. ASSUME NEW q \in UsageProjects
          PROVE  recorded'[q] = SumOver(RunUsage, RowsOfProject(q)')
      <3>1. CASE q = p
        BY <1>1, <1>17, <3>1 DEF UsageKept, S
      <3>2. CASE q # p
        BY <1>1, <1>10, <3>2 DEF UsageKept
      <3> QED
        BY <3>1, <3>2
    <2> QED
      BY <2>1 DEF UsageKept
  <1> QED
    BY <1>7, <1>8, <1>18 DEF UsageInv

\* The batch that deletes a Project succeeds as a whole or changes nothing.
LEMMA DeleteOwnedKeeps ==
    ASSUME UsageInv, NEW p \in UsageProjects, DeleteOwned(p)
    PROVE  UsageInv'
  <1>1. p \in deletion /\ deletion' = deletion \ {p} /\ recorded' = recorded
    BY DEF DeleteOwned
  <1>2. CASE Archive(p) /\ alive' = alive \ {p} /\ current' = current \ RunsOf(p)
    <2>1. p \in alive
      BY <1>1 DEF UsageInv, UsageTyped
    <2> QED
      BY <1>1, <1>2, <2>1, ArchiveKeeps
  <1>3. CASE UNCHANGED <<alive, current, archived>>
    <2>1. UsageRows' = UsageRows
      BY <1>3 DEF UsageRows
    <2> QED
      BY <1>1, <1>3, <2>1 DEF UsageInv, UsageTyped, OneRowEach, UsageKept, RowsOfProject
  <1> QED
    BY <1>2, <1>3 DEF DeleteOwned

\* Every step keeps the invariant.
LEMMA UsageNextInv == UsageInv /\ [UsageNext]_usageVars => UsageInv'
  <1> SUFFICES ASSUME UsageInv, [UsageNext]_usageVars PROVE UsageInv'
    OBVIOUS
  <1>1. CASE UNCHANGED usageVars
    <2>1. UsageRows' = UsageRows
      BY <1>1 DEF usageVars, UsageRows
    <2> QED
      BY <1>1, <2>1 DEF usageVars, UsageInv, UsageTyped, OneRowEach, UsageKept, RowsOfProject
  <1> QED
    BY <1>1, BeginRunKeeps, SpendKeeps, FinishRunKeeps, StopForDeletionKeeps, DeleteOwnedKeeps
       DEF UsageNext

-----------------------------------------------------------------------------
(* UserUsage: the summaries                                                *)

\* The totals are what was recorded.
LEMMA TotalsAreRecorded ==
    ASSUME UsageInv
    PROVE  Summarize(UsageRows).usage = MapThenSumSet(LAMBDA p : recorded[p], UsageProjects)
  <1> DEFINE g == [r \in RunRows |-> r.project]
  <1>1. UsageRows \in SUBSET RunRows /\ IsFiniteSet(UsageRows)
    BY UsageRowsType DEF UsageInv
  <1>2. /\ \A x \in UsageRows : RunUsage[x] \in Nat
        /\ \A x \in UsageRows : g[x] = x.project /\ g[x] \in UsageProjects
    BY <1>1 DEF RunUsage, RunRows
  <1> HIDE DEF g
  <1>3. \A p \in UsageProjects : recorded[p] = SumOver(RunUsage, {x \in UsageRows : g[x] = p})
    <2>1. \A p \in UsageProjects : {x \in UsageRows : g[x] = p} = RowsOfProject(p)
      BY <1>2 DEF RowsOfProject
    <2> QED
      BY <2>1 DEF UsageInv, UsageKept
  <1>4. SumOver(recorded, UsageProjects) = SumOver(RunUsage, UsageRows)
    <2>1. \A x \in UsageRows : g[x] \in UsageProjects
      BY <1>2
    <2>2. \A x \in UsageRows : RunUsage[x] \in Nat
      BY <1>2
    <2>3. IsFiniteSet(UsageProjects)
      BY UsageAssumption
    <2>4. IsFiniteSet(UsageRows)
      BY <1>1
    <2> QED
      BY ONLY <1>3, <2>1, <2>2, <2>3, <2>4, SumOfGroups
  <1>5. Summarize(UsageRows).usage = SumOver(RunUsage, UsageRows)
    BY <1>1, SummarySums
  <1>6. recorded \in [UsageProjects -> Nat]
    BY DEF UsageInv, UsageTyped
  <1> QED
    BY <1>4, <1>5, <1>6, RecordedSums

\* The row of a Project that has any Runs.
ProjectRow(p) ==
    [project |-> p, deleted |-> p \notin alive, total |-> Summarize(RowsOfProject(p))]

\* The rows of Projects are these, of the Projects that have Runs.
LEMMA ProjectRowsAre ==
    ASSUME UsageInv
    PROVE  /\ ProjectRows = {ProjectRow(p) : p \in {r.project : r \in UsageRows}}
           /\ {r.project : r \in UsageRows} \subseteq UsageProjects
  <1> DEFINE group(g) == [project |-> g[1], deleted |-> g[2],
                 total |-> Summarize({r \in UsageRows : r.project = g[1] /\ r.deleted = g[2]})]
             groups == {<<r.project, r.deleted>> : r \in UsageRows}
  <1>1. /\ \A r \in UsageRows : r \in RunRows /\ r.deleted \in BOOLEAN
        /\ \A r \in UsageRows : r.deleted <=> r.project \notin alive
        /\ {r.project : r \in UsageRows} \subseteq UsageProjects
    BY UsageRowsType DEF UsageInv, RunRows
  <1>2. ASSUME NEW r \in UsageRows PROVE group(<<r.project, r.deleted>>) = ProjectRow(r.project)
    <2>1. \A q \in UsageRows : q.deleted = (q.project \notin alive)
      BY <1>1
    <2>2. {q \in UsageRows : q.project = r.project /\ q.deleted = r.deleted}
            = RowsOfProject(r.project)
      BY <2>1 DEF RowsOfProject
    <2> QED
      BY <2>1, <2>2 DEF ProjectRow
  <1>3. ProjectRows = {group(g) : g \in groups}
    BY DEF ProjectRows
  <1> HIDE DEF group
  <1>4. ProjectRows = {group(<<r.project, r.deleted>>) : r \in UsageRows}
    BY <1>3
  <1>5. ProjectRows = {ProjectRow(p) : p \in {r.project : r \in UsageRows}}
    BY <1>2, <1>4
  <1> QED
    BY <1>1, <1>5

\* A Project is one row, with all that it has used, and of a deleted Project when it is deleted.
LEMMA ProjectIsOneRow ==
    ASSUME UsageInv, NEW p \in UsageProjects
    PROVE  LET rows == {row \in ProjectRows : row.project = p} IN
             /\ MapThenSumSet(LAMBDA row : row.total.usage, rows) = recorded[p]
             /\ Cardinality(rows) <= 1
             /\ \A row \in rows : row.deleted <=> p \notin alive
  <1> DEFINE rows == {row \in ProjectRows : row.project = p}
  <1>1. /\ ProjectRows = {ProjectRow(q) : q \in {r.project : r \in UsageRows}}
        /\ \A q : ProjectRow(q).project = q /\ (ProjectRow(q).deleted <=> q \notin alive)
        /\ \A q : ProjectRow(q).total = Summarize(RowsOfProject(q))
    BY ProjectRowsAre DEF ProjectRow
  <1>2. recorded[p] = SumOver(RunUsage, RowsOfProject(p)) /\ recorded[p] \in Nat
    BY DEF UsageInv, UsageKept, UsageTyped
  <1>3. CASE RowsOfProject(p) = {}
    <2>1. rows = {}
      BY <1>1, <1>3 DEF RowsOfProject
    <2>2. recorded[p] = 0
      BY <1>2, <1>3, FS_EmptySet, SumFacts
    <2>3. [total |-> [usage |-> 0]].total.usage \in Nat
      OBVIOUS
    <2> HIDE DEF rows
    <2>4. MapThenSumSet(LAMBDA row : row.total.usage, rows) = 0
      BY <2>1, <2>3, TotalOfRows
    <2>5. Cardinality(rows) = 0
      BY <2>1, FS_EmptySet
    <2> QED
      BY <2>1, <2>2, <2>4, <2>5 DEF rows
  <1>4. CASE RowsOfProject(p) # {}
    <2>1. rows = {ProjectRow(p)}
      BY <1>1, <1>4 DEF RowsOfProject
    <2>2. ProjectRow(p).total.usage = recorded[p]
      <3>1. RowsOfProject(p) \in SUBSET RunRows /\ IsFiniteSet(RowsOfProject(p))
        BY UsageRowsType DEF UsageInv
      <3> QED
        BY <1>1, <1>2, <3>1, SummarySums
    <2> HIDE DEF rows
    <2>3. MapThenSumSet(LAMBDA row : row.total.usage, rows) = recorded[p]
      BY <1>2, <2>1, <2>2, TotalOfRows
    <2>4. Cardinality(rows) = 1
      BY <2>1, FS_Singleton
    <2>5. \A row \in rows : row.deleted <=> p \notin alive
      BY <1>1, <2>1
    <2> QED
      BY <2>3, <2>4, <2>5 DEF rows
  <1> QED
    BY <1>3, <1>4

\* The rows of Projects are finitely many, each of another Project and with its totals.
LEMMA ProjectRowsType ==
    ASSUME UsageInv
    PROVE  /\ IsFiniteSet(ProjectRows)
           /\ \A a \in ProjectRows : /\ a.project \in Int
                                     /\ a.total \in [runs : Nat, usage : Nat]
           /\ \A a, b \in ProjectRows : a.project = b.project => a = b
  <1> DEFINE Q == {r.project : r \in UsageRows}
             f == [p \in Q |-> ProjectRow(p)]
  <1>1. ProjectRows = {ProjectRow(p) : p \in Q} /\ Q \subseteq UsageProjects
    BY ProjectRowsAre
  <1>2. IsFiniteSet(Q) /\ Q \subseteq Int
    BY <1>1, UsageAssumption, FS_Subset
  <1> HIDE DEF Q
  <1>3. f \in Surjection(Q, ProjectRows)
    BY <1>1 DEF Surjection
  <1> HIDE DEF f
  <1>4. IsFiniteSet(ProjectRows)
    BY <1>2, <1>3, FS_Surjection
  <1>5. \A p : ProjectRow(p).project = p /\ ProjectRow(p).total = Summarize(RowsOfProject(p))
    BY DEF ProjectRow
  <1>6. ASSUME NEW p PROVE Summarize(RowsOfProject(p)) \in [runs : Nat, usage : Nat]
    <2> DEFINE S == RowsOfProject(p)
    <2>1. S \in SUBSET RunRows /\ IsFiniteSet(S)
      BY UsageRowsType DEF UsageInv
    <2> HIDE DEF S
    <2>2. Summarize(S).usage \in Nat /\ Summarize(S).runs \in Nat
      BY <2>1, SummarySums
    <2>3. Summarize(S) = [runs |-> Summarize(S).runs, usage |-> Summarize(S).usage]
      BY DEF Summarize
    <2> QED
      BY <2>2, <2>3 DEF S
  <1> QED
    BY <1>1, <1>2, <1>4, <1>5, <1>6

\* The Projects of the tool are in an order, and each is at a place of it.
LEMMA ProjectsInOrder ==
    ASSUME NEW S, IsFiniteSet(S),
           \A a \in S : a.project \in Int /\ a.total \in [runs : Nat, usage : Nat],
           \A a, b \in S : a.project = b.project => a = b
    PROVE  LET s == InOrder(S, UsesMore) IN
           /\ s \in [1 .. Cardinality(S) -> S] /\ Cardinality(S) \in Nat
           /\ \A r \in S : \E n \in 1 .. Cardinality(S) : s[n] = r
  <1> DEFINE R == PairsOf(S, UsesMore)
             s == InOrder(S, UsesMore)
             place(m) == CHOOSE z \in S : Cardinality({y \in S : UsesMore(y, z)}) = m - 1
  <1>1. \A x, y \in S : <<x, y>> \in R <=> UsesMore(x, y)
    BY DEF PairsOf
  <1> HIDE DEF R
  <1>2. \A a \in S : a.total \in [runs : Nat, usage : Nat]
    OBVIOUS
  <1>3. \A a, b \in S : a.total.usage = b.total.usage /\ a.total.runs = b.total.runs
                          => a.total = b.total
    BY <1>2
  <1>4. \A a \in S : a.total.usage \in Int /\ a.total.runs \in Int /\ a.project \in Int
    BY <1>2
  <1>5. StrictOrder(S, R)
    <2>1. \A x \in S : ~UsesMore(x, x)
      BY <1>4 DEF UsesMore
    <2>2. \A x, y, z \in S : UsesMore(x, y) /\ UsesMore(y, z) => UsesMore(x, z)
      BY <1>3, <1>4 DEF UsesMore
    <2>3. \A x, y \in S : UsesMore(x, y) \/ UsesMore(y, x) \/ x = y
      BY <1>3, <1>4 DEF UsesMore
    <2> QED
      BY <1>1, <2>1, <2>2, <2>3 DEF StrictOrder
  <1>6. \A x \in S : {y \in S : UsesMore(y, x)} = Ahead(S, R, x)
    BY <1>1 DEF Ahead
  <1>7. s = [m \in 1 .. Cardinality(S) |-> place(m)]
    BY Zenon DEF InOrder
  <1>8. ASSUME NEW n \in 1 .. Cardinality(S), NEW x \in S,
               Cardinality(Ahead(S, R, x)) = n - 1
        PROVE  s[n] \in S /\ Cardinality(Ahead(S, R, s[n])) = n - 1
    <2>1. Cardinality({y \in S : UsesMore(y, x)}) = n - 1
      BY <1>6, <1>8
    <2>2. place(n) \in S /\ Cardinality({y \in S : UsesMore(y, place(n))}) = n - 1
      BY <2>1
    <2> HIDE DEF place, s
    <2>3. s[n] = place(n)
      BY <1>7
    <2> QED
      BY <1>6, <2>2, <2>3
  <1> HIDE DEF place, s
  <1>9. s = [n \in 1 .. Cardinality(S) |-> s[n]]
    BY <1>7
  <1>10. /\ s \in [1 .. Cardinality(S) -> S] /\ Cardinality(S) \in Nat
         /\ \A r \in S : \E n \in 1 .. Cardinality(S) : s[n] = r
         /\ \A m, n \in 1 .. Cardinality(S) : m < n => <<s[m], s[n]>> \in R
    <2>1. \A n \in 1 .. Cardinality(S) : \A x \in S :
              Cardinality(Ahead(S, R, x)) = n - 1 =>
                  s[n] \in S /\ Cardinality(Ahead(S, R, s[n])) = n - 1
      BY <1>8
    <2> QED
      BY <1>5, <1>9, <2>1, InOrderSorts
  <1> QED
    BY <1>10 DEF s

\* The rows are as many as the Runs of both tables.
LEMMA RowsAreCounted ==
    ASSUME UsageInv
    PROVE  /\ Cardinality(UsageRows) = Cardinality(current) + Cardinality(archived)
           /\ Cardinality(current) \in Nat /\ Cardinality(archived) \in Nat
  <1> DEFINE C == {CurrentRow(r) : r \in current}
             D == {DeletedRow(r) : r \in archived}
             f == [r \in current |-> CurrentRow(r)]
             g == [r \in archived |-> DeletedRow(r)]
  <1>1. IsFiniteSet(current) /\ IsFiniteSet(archived) /\ OneRowEach
    BY DEF UsageInv, UsageTyped
  <1>2. \A r : CurrentRow(r).id = r.id /\ DeletedRow(r).id = r.id
    BY DEF CurrentRow, DeletedRow
  <1>3. f \in Bijection(current, C)
    <2>1. f \in Surjection(current, C)
      BY DEF Surjection
    <2>2. \A a, b \in current : f[a] = f[b] => a = b
      BY <1>1, <1>2 DEF OneRowEach, Distinct
    <2> HIDE DEF f, C
    <2> QED
      BY <2>1, <2>2 DEF Bijection, Injection, IsInjective, Surjection
  <1>4. g \in Bijection(archived, D)
    <2>1. g \in Surjection(archived, D)
      BY DEF Surjection
    <2>2. \A a, b \in archived : g[a] = g[b] => a = b
      BY <1>1, <1>2 DEF OneRowEach, Distinct
    <2> HIDE DEF g, D
    <2> QED
      BY <2>1, <2>2 DEF Bijection, Injection, IsInjective, Surjection
  <1>5. C \cap D = {} /\ UsageRows = C \cup D
    <2>1. \A r : CurrentRow(r).deleted = FALSE /\ DeletedRow(r).deleted = TRUE
      BY DEF CurrentRow, DeletedRow
    <2> QED
      BY <2>1, UsageRowsAre
  <1> HIDE DEF f, g, C, D
  <1>6. /\ IsFiniteSet(C) /\ Cardinality(C) = Cardinality(current)
        /\ IsFiniteSet(D) /\ Cardinality(D) = Cardinality(archived)
    <2>1. ASSUME NEW X, NEW Y, IsFiniteSet(X), NEW h \in Bijection(X, Y)
          PROVE  IsFiniteSet(Y) /\ Cardinality(Y) = Cardinality(X)
      BY <2>1, FS_Bijection DEF ExistsBijection
    <2> QED
      BY <1>1, <1>3, <1>4, <2>1
  <1>7. Cardinality(current) \in Nat /\ Cardinality(archived) \in Nat
    BY <1>1, FS_CardinalityType
  <1>8. Cardinality(C \cup D) = Cardinality(C) + Cardinality(D) - Cardinality(C \cap D)
    BY <1>6, FS_Union
  <1>9. Cardinality(C \cap D) = 0
    BY <1>5, FS_EmptySet
  <1> QED
    BY <1>5, <1>6, <1>7, <1>8, <1>9

\* Every place is on a page.
LEMMA PlaceIsOnPage ==
    ASSUME NEW size \in Nat \ {0}, NEW j \in Nat \ {0}
    PROVE  \E k \in 0 .. j - 1 : k * size < j /\ j <= k * size + size
  <1> DEFINE T == {n \in Nat \ {0} : ~ \E k \in 0 .. n - 1 : k * size < n /\ n <= k * size + size}
  <1> SUFFICES ASSUME T # {} PROVE FALSE
    OBVIOUS
  <1>1. T \subseteq Nat
    OBVIOUS
  <1> HIDE DEF T
  <1>2. PICK n \in T : \A m \in T : ~(<<m, n>> \in OpToRel(<, Nat))
    BY <1>1, NatLessThanWellFounded, WFMin
  <1>3. \A m \in T : ~(m < n)
    BY <1>1, <1>2 DEF OpToRel
  <1> USE DEF T
  <1>4. n \in Nat \ {0}
    OBVIOUS
  <1>5. n > size
    <2>1. 0 * size = 0
      OBVIOUS
    <2> QED
      BY <1>4, <2>1
  <1>6. n - size \in Nat \ {0} /\ n - size < n
    BY <1>4, <1>5
  <1>7. PICK k \in 0 .. (n - size) - 1 : k * size < n - size /\ n - size <= k * size + size
    BY <1>3, <1>6
  <1>8. k + 1 \in 0 .. n - 1 /\ (k + 1) * size = k * size + size /\ k * size \in Nat
    BY <1>4, <1>6
  <1> DEFINE low == k * size
             high == (k + 1) * size
  <1>9. low < n - size /\ n - size <= low + size /\ high = low + size /\ low \in Nat
    BY <1>7, <1>8
  <1> HIDE DEF low, high
  <1>10. high < n /\ n <= high + size
    BY <1>4, <1>9
  <1> QED
    BY <1>4, <1>8, <1>10 DEF high

\* The tool gives up exactly when there are more Runs than it may read.
LEMMA BudgetCountsRows ==
    ASSUME UsageInv, NEW budget \in UsageBudgets
    PROVE  OverBudget(budget) <=> Cardinality(UsageRows) > budget
  <1> DEFINE c == Cardinality(current)
             d == Cardinality(archived)
  <1>1. c \in Nat /\ d \in Nat /\ budget \in Nat /\ Cardinality(UsageRows) = c + d
    BY RowsAreCounted, UsageAssumption
  <1> HIDE DEF c, d
  <1>2. /\ Min({c, budget + 1}) = IF c <= budget + 1 THEN c ELSE budget + 1
        /\ Min({d, budget + 1}) = IF d <= budget + 1 THEN d ELSE budget + 1
    BY <1>1, MinOfTwo
  <1>3. OverBudget(budget) <=> Min({c, budget + 1}) + Min({d, budget + 1}) > budget
    BY DEF OverBudget, c, d
  <1> QED
    BY <1>1, <1>2, <1>3

\* A page shows the Projects at its places and tells whether there are more.
LEMMA PageOfProjects ==
    ASSUME UsageInv, NEW budget \in UsageBudgets, ~(Cardinality(UsageRows) > budget),
           NEW offset \in Nat
    PROVE  LET answer == GetUsage(offset, budget)
               s      == InOrder(ProjectRows, UsesMore)
               c      == Cardinality(ProjectRows)
               next   == offset + UsagePageSize
           IN /\ answer.next = IF next < c THEN next ELSE -1
              /\ ToSet(answer.projects) = {s[n] : n \in {m \in 1 .. c : offset < m /\ m <= next}}
  <1> DEFINE answer == GetUsage(offset, budget)
             s      == InOrder(ProjectRows, UsesMore)
             c      == Cardinality(ProjectRows)
             next   == offset + UsagePageSize
             last   == IF next <= c THEN next ELSE c
             page   == SubSeq(s, offset + 1, last)
  <1>1. s \in [1 .. c -> ProjectRows] /\ c \in Nat
    <2> DEFINE S == ProjectRows
    <2>1. /\ IsFiniteSet(S) /\ \A a, b \in S : a.project = b.project => a = b
          /\ \A a \in S : a.project \in Int /\ a.total \in [runs : Nat, usage : Nat]
      BY ProjectRowsType
    <2> HIDE DEF S
    <2>2. LET u == InOrder(S, UsesMore) IN
          /\ u \in [1 .. Cardinality(S) -> S] /\ Cardinality(S) \in Nat
          /\ \A r \in S : \E n \in 1 .. Cardinality(S) : u[n] = r
      BY <2>1, ProjectsInOrder
    <2> QED
      BY <2>2 DEF S
  <1>2. UsagePageSize \in Nat \ {0} /\ next \in Nat /\ ~OverBudget(budget)
    BY UsageAssumption, BudgetCountsRows
  <1> HIDE DEF s, c
  <1>3. Len(s) = c
    BY <1>1
  <1>4. Min({next, c}) = last
    BY <1>1, <1>2, MinOfTwo
  <1>5. answer.next = (IF next < Len(s) THEN next ELSE -1) /\
        answer.projects = SubSeq(s, offset + 1, Min({next, Len(s)}))
    BY <1>2 DEF GetUsage, s
  <1>6. last \in Nat /\ last <= c /\ last <= next
    BY <1>1, <1>2
  <1>7. \A n \in offset + 1 .. last : n \in 1 .. c /\ s[n] \in ProjectRows
    BY <1>1, <1>6
  <1>8. /\ page \in Seq(ProjectRows)
        /\ Len(page) = IF offset + 1 <= last THEN last - (offset + 1) + 1 ELSE 0
        /\ \A n \in 1 .. last - (offset + 1) + 1 : page[n] = s[offset + 1 + n - 1]
    BY <1>6, <1>7, SubSeqProperties
  <1>9. \A m : m \in 1 .. c /\ offset < m /\ m <= next <=> m \in offset + 1 .. last
    BY <1>1, <1>2
  <1> HIDE DEF last, page
  <1>10. \A x : x \in ToSet(page) <=> \E n \in offset + 1 .. last : x = s[n]
    <2>1. DOMAIN page = 1 .. Len(page) /\ Len(page) \in Nat
      BY <1>8, LenProperties
    <2>2. \A n \in 1 .. Len(page) : /\ offset + n \in offset + 1 .. last
                                    /\ page[n] = s[offset + n]
      <3> TAKE n \in 1 .. Len(page)
      <3>1. n \in 1 .. last - (offset + 1) + 1 /\ offset + 1 + n - 1 = offset + n
        BY <1>6, <1>8, <2>1
      <3>2. offset + n \in offset + 1 .. last
        BY <1>6, <3>1
      <3> QED
        BY <1>8, <3>1, <3>2
    <2>3. \A m \in offset + 1 .. last : /\ m - offset \in 1 .. Len(page)
                                        /\ offset + (m - offset) = m
      BY <1>6, <1>8, <2>1
    <2>4. \A x : x \in ToSet(page) <=> \E n \in 1 .. Len(page) : x = page[n]
      BY <2>1 DEF ToSet
    <2>5. \A m \in offset + 1 .. last : page[m - offset] = s[m]
      BY <2>2, <2>3
    <2> HIDE DEF last, page
    <2>6. ASSUME NEW x \in ToSet(page) PROVE \E n \in offset + 1 .. last : x = s[n]
      BY <2>2, <2>4, <2>6
    <2>7. ASSUME NEW x, \E n \in offset + 1 .. last : x = s[n] PROVE x \in ToSet(page)
      BY <2>3, <2>4, <2>5, <2>7
    <2> QED
      BY <2>6, <2>7
  <1>11. ToSet(page) = {s[n] : n \in {m \in 1 .. c : offset < m /\ m <= next}}
    BY <1>9, <1>10
  <1>12. answer.projects = page /\ answer.next = IF next < c THEN next ELSE -1
    BY <1>3, <1>4, <1>5 DEF page
  <1> QED
    BY <1>11, <1>12 DEF s, c

\* Page after page, the tool shows every Project, and nothing else.
LEMMA PagesShowAll ==
    ASSUME UsageInv, NEW budget \in UsageBudgets, ~(Cardinality(UsageRows) > budget)
    PROVE  LET Answer(o) == GetUsage(o, budget)
               offsets   == {k * UsagePageSize : k \in 0 .. Cardinality(ProjectRows)}
               followed  == {o \in offsets : o = 0 \/ Answer(o - UsagePageSize).next = o}
           IN  UNION {ToSet(Answer(o).projects) : o \in followed} = ProjectRows
  <1> DEFINE Answer(o) == GetUsage(o, budget)
             c         == Cardinality(ProjectRows)
             s         == InOrder(ProjectRows, UsesMore)
             offsets   == {k * UsagePageSize : k \in 0 .. c}
             followed  == {o \in offsets : o = 0 \/ Answer(o - UsagePageSize).next = o}
  <1>1. /\ s \in [1 .. c -> ProjectRows] /\ c \in Nat
        /\ \A r \in ProjectRows : \E n \in 1 .. c : s[n] = r
    <2> DEFINE S == ProjectRows
    <2>1. /\ IsFiniteSet(S) /\ \A a, b \in S : a.project = b.project => a = b
          /\ \A a \in S : a.project \in Int /\ a.total \in [runs : Nat, usage : Nat]
      BY ProjectRowsType
    <2> HIDE DEF S
    <2>2. LET u == InOrder(S, UsesMore) IN
          /\ u \in [1 .. Cardinality(S) -> S] /\ Cardinality(S) \in Nat
          /\ \A r \in S : \E n \in 1 .. Cardinality(S) : u[n] = r
      BY <2>1, ProjectsInOrder
    <2> QED
      BY <2>2 DEF S
  <1>2. UsagePageSize \in Nat \ {0}
    BY UsageAssumption
  <1>3. ASSUME NEW o \in Nat
        PROVE  /\ Answer(o).next = IF o + UsagePageSize < c THEN o + UsagePageSize ELSE -1
               /\ ToSet(Answer(o).projects)
                    = {s[n] : n \in {m \in 1 .. c : o < m /\ m <= o + UsagePageSize}}
    BY PageOfProjects
  <1>4. \A k \in Nat : k * UsagePageSize \in Nat
    BY <1>2
  <1> HIDE DEF Answer, c, s
  <1>5. ASSUME NEW o \in followed PROVE ToSet(Answer(o).projects) \subseteq ProjectRows
    <2>1. o \in Nat
      BY <1>1, <1>4
    <2> QED
      BY <1>1, <1>3, <2>1
  <1>6. ASSUME NEW r \in ProjectRows PROVE \E o \in followed : r \in ToSet(Answer(o).projects)
    <2>1. PICK n \in 1 .. c : s[n] = r
      BY <1>1
    <2>2. PICK k \in 0 .. n - 1 : k * UsagePageSize < n /\ n <= k * UsagePageSize + UsagePageSize
      <3>1. n \in Nat \ {0}
        BY <1>1
      <3> QED
        BY <1>2, <3>1, PlaceIsOnPage
    <2> DEFINE o == k * UsagePageSize
    <2>3. o \in Nat /\ o \in offsets /\ o < n /\ n <= o + UsagePageSize
      <3>1. k \in Nat /\ k \in 0 .. c
        BY <1>1
      <3> QED
        BY <1>4, <2>2, <3>1
    <2>4. o = 0 \/ Answer(o - UsagePageSize).next = o
      <3>1. CASE k = 0
        BY <1>2, <3>1
      <3>2. CASE k # 0
        <4>1. o - UsagePageSize = (k - 1) * UsagePageSize /\ k - 1 \in Nat
          BY <1>2, <3>2
        <4>2. o - UsagePageSize \in Nat
          BY <1>4, <4>1
        <4> HIDE DEF o
        <4>3. (o - UsagePageSize) + UsagePageSize = o /\ o < c
          BY <1>1, <1>2, <2>3
        <4> QED
          BY <1>3, <4>2, <4>3
      <3> QED
        BY <3>1, <3>2
    <2> HIDE DEF o
    <2>5. r \in ToSet(Answer(o).projects)
      BY <1>3, <2>1, <2>3
    <2>6. o \in followed
      BY <2>3, <2>4
    <2> QED
      BY <2>5, <2>6
  <1> HIDE DEF followed
  <1>7. UNION {ToSet(Answer(o).projects) : o \in followed} = ProjectRows
    BY <1>5, <1>6
  <1> QED
    BY <1>7 DEF Answer, followed, c

\* Whatever Runs begin, spend and end while Projects are deleted, however many there are and
\* however large a page is: the totals are what was ever recorded, each Project is one row
\* with its part of it, and the pages show all of them, or nothing of more Runs than the budget.
THEOREM UsageSurvives == UsageSpec => []UsageSurvivesDeletion
  <1>1. UsageInv => UsageSurvivesDeletion
    <2> SUFFICES ASSUME UsageInv PROVE UsageSurvivesDeletion
      OBVIOUS
    <2>1. ASSUME NEW budget \in UsageBudgets, Cardinality(UsageRows) > budget
          PROVE  GetUsage(0, budget).kind = "budget_exceeded"
      <3>1. OverBudget(budget)
        BY <2>1, BudgetCountsRows
      <3> QED
        BY <3>1 DEF GetUsage
    <2> QED
      BY <2>1, TotalsAreRecorded, ProjectIsOneRow, PagesShowAll DEF UsageSurvivesDeletion
  <1> QED
    BY <1>1, UsageInitInv, UsageNextInv, PTL DEF UsageSpec
================================================================================
