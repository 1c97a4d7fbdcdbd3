------------------------------- MODULE RunConsole -------------------------------
(***************************************************************************)
(* How the browser follows a Run: the console of a Project                 *)
(* (src/client/components/project-console.tsx, run-console.tsx) with its   *)
(* queries (src/client/project-queries.ts, api.ts) over the HTTP API       *)
(* (src/server/agent-run-api.ts, src/application/project-read.ts), and the *)
(* lifecycle stream (src/server/run-lifecycle-stream.ts) that an           *)
(* EventSource reads.  The Runs themselves, and those of another tab or of *)
(* an MCP client, are the server's; a Message is its sequence number.      *)
(*                                                                         *)
(* TanStack Query is external: a query that is invalidated is read again,  *)
(* what was in flight being dropped if the query has data, and joined if   *)
(* it has none or cancelRefetch is false.                                  *)
(***************************************************************************)
EXTENDS Integers, Sequences, FiniteSets, FiniteSetsExt

CONSTANTS MaxRuns,        \* bound on the Project's Runs
          OldMessages,    \* Messages the Project has when its console is opened
          PageSize        \* listPageSize

VARIABLES serverRun,      \* agent_runs.status
          written,        \* number of the Project's Messages
          replyOf,        \* the Message with which a Run succeeded
          followed,       \* activeRunId, 0 for null
          known,          \* the status in the cache of each Run
          active,         \* the cache of the active Run: [run, status], run 0 for null
          synced,         \* synchronizedTerminalRuns
          runRead, activeRead,        \* reads in flight
          log,            \* the cache of the messages: items and nextCursor
          tail,           \* the read of newer Messages in flight
          createCall, cancelCall,     \* mutations in flight
          stream          \* the EventSource and the server's end of it

listVars    == <<log, tail>>
streamVars  == <<stream>>
callVars    == <<createCall, cancelCall>>
readVars    == <<runRead, activeRead>>
cacheVars   == <<followed, known, active, synced>>
dbVars      == <<serverRun, written, replyOf>>
consoleVars == <<dbVars, cacheVars, readVars, listVars, callVars, streamVars>>

ConsoleRuns == 1 .. MaxRuns
Over        == {"succeeded", "failed"}
Null        == 0 - 1

Idle     == [stage |-> "idle", run |-> 0, status |-> "absent"]
NoActive == [run |-> 0, status |-> "absent"]
NoTail   == [stage |-> "idle", after |-> Null, got |-> {}, next |-> Null, before |-> {}]

ConsoleInit ==
    /\ serverRun = [r \in ConsoleRuns |-> "absent"] /\ written = OldMessages
    /\ replyOf = [r \in ConsoleRuns |-> Null]
    /\ followed = 0 /\ known = [r \in ConsoleRuns |-> "absent"] /\ synced = {}
    /\ active = [run |-> Null, status |-> "absent"]
    /\ runRead = Idle /\ activeRead = Idle
    /\ log = [loaded |-> FALSE, items |-> {}, cursor |-> Null]
    /\ tail = NoTail
    /\ createCall = Idle /\ cancelCall = Idle
    /\ stream = [run |-> 0, state |-> "closed", last |-> "absent", events |-> <<>>]

-----------------------------------------------------------------------------
(* The server                                                              *)

OnServer == {r \in ConsoleRuns : serverRun[r] \in {"running", "cancelling"}}
LastRun  == Cardinality({r \in ConsoleRuns : serverRun[r] # "absent"})

\* A Run is created with its user Message.
Admits(r) == OnServer = {} /\ r = LastRun + 1 /\ r \in ConsoleRuns
Insert(r) ==
    /\ serverRun' = [serverRun EXCEPT ![r] = "running"] /\ written' = written + 1
    /\ UNCHANGED replyOf

OtherClientCreates ==
    /\ Admits(LastRun + 1) /\ Insert(LastRun + 1)
    /\ UNCHANGED <<cacheVars, readVars, listVars, callVars, streamVars>>

EndRun(r) ==
    /\ r \in OnServer
    /\ \/ /\ serverRun[r] = "running"
          /\ serverRun' = [serverRun EXCEPT ![r] = "succeeded"]
          /\ written' = written + 1 /\ replyOf' = [replyOf EXCEPT ![r] = written]
       \/ /\ serverRun' = [serverRun EXCEPT ![r] = "failed"]
          /\ UNCHANGED <<written, replyOf>>
    /\ UNCHANGED <<cacheVars, readVars, listVars, callVars, streamVars>>

\* The page is opened: its queries are mounted.
OpenConsole ==
    /\ tail.stage = "idle" /\ ~log.loaded
    /\ tail' = [NoTail EXCEPT !.stage = "reading"]
    /\ activeRead' = [Idle EXCEPT !.stage = "asked"]
    /\ UNCHANGED <<dbVars, cacheVars, runRead, log, callVars, streamVars>>

-----------------------------------------------------------------------------
(* Messages: listOwnedMessages and useProjectMessages                      *)

\* The page that a query reads: its items and its nextCursor.
Page(after, before) ==
    LET rows == {n \in 0 .. written - 1 : /\ after # Null => n > after
                                          /\ before # Null => n < before}
        few(s, n) == {x \in s : IF after # Null
                                THEN Cardinality({y \in s : y < x}) < n
                                ELSE Cardinality({y \in s : y > x}) < n}
        items == few(rows, PageSize)
    IN  [items |-> items,
         next  |-> IF items = rows THEN Null ELSE IF after # Null THEN Max(items) ELSE Min(items)]

\* invalidateQueries of the messages: without data the read in flight is joined.
FreshTail ==
    IF tail.stage # "idle" /\ ~log.loaded THEN tail
    ELSE [NoTail EXCEPT !.stage = "reading", !.before = log.items,
                        !.after = IF log.items = {} THEN Null ELSE Max(log.items)]

\* queryFn: the newest page, or page by page what is newer than the cache.
ReadTail ==
    /\ tail.stage = "reading"
    /\ LET page == Page(tail.after, Null)
           more == tail.after # Null /\ page.next # Null
       IN  tail' = [tail EXCEPT !.got = @ \cup page.items, !.next = page.next,
                                !.after = IF more THEN page.next ELSE @,
                                !.stage = IF more THEN "reading" ELSE "landing"]
    /\ UNCHANGED <<dbVars, cacheVars, readVars, log, callVars, streamVars>>

\* Mutant: what was in the cache when the read began is kept, not what is there now.
LandOnPrevious ==
    /\ tail.stage = "landing" /\ tail' = NoTail
    /\ log' = [loaded |-> TRUE, items |-> tail.before \cup tail.got,
               cursor |-> IF tail.after = Null THEN tail.next ELSE log.cursor]
    /\ UNCHANGED <<dbVars, cacheVars, readVars, callVars, streamVars>>

LandTail ==
    /\ tail.stage = "landing" /\ tail' = NoTail
    /\ log' = IF tail.after = Null
              THEN [loaded |-> TRUE, items |-> tail.got, cursor |-> tail.next]
              ELSE [log EXCEPT !.items = @ \cup tail.got]
    /\ UNCHANGED <<dbVars, cacheVars, readVars, callVars, streamVars>>

\* "Load earlier messages".  What it reads does not change, so it is one step.
LoadOlder ==
    /\ log.cursor # Null
    /\ LET page == Page(Null, log.cursor)
       IN  log' = [log EXCEPT !.items = @ \cup page.items, !.cursor = page.next]
    /\ UNCHANGED <<dbVars, cacheVars, readVars, tail, callVars, streamVars>>

-----------------------------------------------------------------------------
(* The queries of Runs                                                     *)

\* The read of a Run begins where the server reads it, and lands some time later.
RunRead(r) == [stage |-> "landing", run |-> r, status |-> serverRun[r]]

\* The query of the followed Run reads when it is mounted and then at its refetchInterval,
\* be it 2 s or, beside a healthy stream, 30 s, until the cached status is terminal.
PollRun ==
    /\ followed # 0 /\ known[followed] \notin Over /\ runRead.stage = "idle"
    /\ runRead' = RunRead(followed)
    /\ UNCHANGED <<dbVars, cacheVars, activeRead, listVars, callVars, streamVars>>

LandRun ==
    /\ runRead.stage = "landing" /\ runRead' = Idle
    /\ known' = [known EXCEPT ![runRead.run] = runRead.status]
    /\ UNCHANGED <<dbVars, followed, active, synced, activeRead, listVars, callVars,
                   streamVars>>

ReadActive ==
    /\ activeRead.stage = "asked"
    /\ \E r \in OnServer \cup {0} :
          /\ r = 0 => OnServer = {}
          /\ activeRead' = [stage |-> "landing", run |-> r,
                            status |-> IF r = 0 THEN "absent" ELSE serverRun[r]]
    /\ UNCHANGED <<dbVars, cacheVars, runRead, listVars, callVars, streamVars>>

\* With the effect that takes up an active Run: it is followed if no other is.
LandActive ==
    /\ activeRead.stage = "landing" /\ activeRead' = Idle
    /\ active' = [run |-> activeRead.run, status |-> activeRead.status]
    /\ IF activeRead.run = 0 THEN UNCHANGED <<followed, known>>
       ELSE /\ known' = [known EXCEPT ![activeRead.run] = activeRead.status]
            /\ followed' = IF followed = 0 THEN activeRead.run ELSE followed
    /\ UNCHANGED <<dbVars, synced, runRead, listVars, callVars, streamVars>>

\* invalidateProjectState
RefreshProject ==
    /\ activeRead' = IF activeRead.stage # "idle" /\ active.run = Null THEN activeRead
                     ELSE [Idle EXCEPT !.stage = "asked"]
    /\ tail' = FreshTail

\* The effect that runs once for each followed Run that has become terminal
SyncTerminal ==
    /\ followed # 0 /\ known[followed] \in Over /\ followed \notin synced
    /\ synced' = synced \cup {followed}
    /\ RefreshProject
    /\ UNCHANGED <<dbVars, followed, known, active, runRead, log, callVars, streamVars>>

-----------------------------------------------------------------------------
(* Mutations                                                               *)

\* activeRunIsBlocking
Blocking ==
    \/ active.run = Null
    \/ active.run # 0 /\ active.status \notin Over
    \/ followed # 0 /\ known[followed] \notin Over

\* The answer is the Run, or an error: the Project is busy.
CreateRun ==
    /\ ~Blocking /\ createCall.stage = "idle" /\ Admits(LastRun + 1) /\ Insert(LastRun + 1)
    /\ createCall' = [stage |-> "landing", run |-> LastRun + 1, status |-> "running"]
    /\ UNCHANGED <<cacheVars, readVars, listVars, cancelCall, streamVars>>

LandCreate ==
    /\ createCall.stage = "landing" /\ createCall' = Idle
    /\ followed' = createCall.run
    /\ known' = [known EXCEPT ![createCall.run] = createCall.status]
    /\ active' = [run |-> createCall.run, status |-> createCall.status]
    /\ RefreshProject /\ runRead' = Idle
    /\ UNCHANGED <<dbVars, synced, log, cancelCall, streamVars>>

\* The Run that is shown is cancelled; one that is over stays as it is.
CancelRun ==
    /\ followed # 0 /\ known[followed] \notin Over /\ cancelCall.stage = "idle"
    /\ LET to == IF serverRun[followed] = "running" THEN "cancelling" ELSE serverRun[followed]
       IN  /\ serverRun' = [serverRun EXCEPT ![followed] = to]
           /\ cancelCall' = [stage |-> "landing", run |-> followed, status |-> to]
    /\ UNCHANGED <<written, replyOf, cacheVars, readVars, listVars, createCall, streamVars>>

LandCancel ==
    /\ cancelCall.stage = "landing" /\ cancelCall' = Idle
    /\ known' = [known EXCEPT ![cancelCall.run] = cancelCall.status]
    /\ active' = IF cancelCall.status \in Over THEN NoActive
                 ELSE [run |-> cancelCall.run, status |-> cancelCall.status]
    /\ UNCHANGED <<dbVars, followed, synced, readVars, listVars, createCall, streamVars>>

-----------------------------------------------------------------------------
(* The lifecycle stream                                                    *)

\* streamingRunId
Streaming == IF followed # 0 /\ known[followed] \notin Over THEN followed ELSE 0

\* The effect of subscribeToAgentRun, which closes the stream of the Run before
Subscribe ==
    /\ stream.run # Streaming
    /\ stream' = [run |-> Streaming, last |-> "absent", events |-> <<>>,
                  state |-> IF Streaming = 0 THEN "closed" ELSE "connecting"]
    /\ UNCHANGED <<dbVars, cacheVars, readVars, listVars, callVars>>

\* One turn of streamRunLifecycle: a status that has changed, and run.completed after a
\* terminal one.  The first status is always written.
WriteStatus ==
    /\ stream.state \in {"connecting", "open"}
    /\ LET now == serverRun[stream.run] IN
         /\ now # stream.last
         /\ stream' = [stream EXCEPT
                          !.state  = IF now \in Over THEN "ended" ELSE "open",
                          !.last   = now,
                          !.events = @ \o IF now \in Over THEN <<now, "completed">> ELSE <<now>>]
    /\ UNCHANGED <<dbVars, cacheVars, readVars, listVars, callVars>>

\* onEvent: a status that is not terminal goes into the cache, the end makes it read the
\* Run, by the read in flight if there is one.  run.completed closes the EventSource.
HearEvent ==
    /\ stream.events # <<>>
    /\ LET e == Head(stream.events) IN
         /\ stream' = [stream EXCEPT !.events = Tail(@),
                                     !.state = IF e = "completed" THEN "closed" ELSE @]
         /\ IF e \in Over \cup {"completed"}
            THEN /\ runRead' = IF runRead.stage = "idle" /\ followed = stream.run
                               THEN RunRead(followed) ELSE runRead
                 /\ UNCHANGED known
            ELSE known' = [known EXCEPT ![stream.run] = e] /\ UNCHANGED runRead
    /\ UNCHANGED <<dbVars, followed, active, synced, activeRead, listVars, callVars>>

\* The connection breaks: the EventSource connects again, unless it is refused.
DropStream ==
    /\ stream.state \in {"connecting", "open", "ended"}
    /\ \E state \in {"connecting", "refused"} :
          stream' = [stream EXCEPT !.state = state, !.last = "absent", !.events = <<>>]
    /\ UNCHANGED <<dbVars, cacheVars, readVars, listVars, callVars>>

\* The answer to a mutation is lost and it fails, although the server has executed it.
\* (A query whose answer is lost is retried: a read that takes longer.)
LoseAnswer ==
    /\ \/ createCall.stage = "landing" /\ createCall' = Idle /\ UNCHANGED cancelCall
       \/ cancelCall.stage = "landing" /\ cancelCall' = Idle /\ UNCHANGED createCall
    /\ UNCHANGED <<dbVars, cacheVars, readVars, listVars, streamVars>>

ConsoleNext ==
    \/ OtherClientCreates \/ (\E r \in ConsoleRuns : EndRun(r))
    \/ OpenConsole \/ ReadTail \/ LandTail \/ LoadOlder
    \/ PollRun \/ LandRun \/ ReadActive \/ LandActive \/ SyncTerminal
    \/ CreateRun \/ LandCreate \/ CancelRun \/ LandCancel
    \/ Subscribe \/ WriteStatus \/ HearEvent \/ DropStream \/ LoseAnswer

\* Reads are served and land, timers fire and effects run; nobody has to press a button,
\* and neither the stream nor the Run has to get anywhere.
ConsoleFairness ==
    /\ WF_consoleVars(PollRun) /\ WF_consoleVars(LandRun)
    /\ WF_consoleVars(SyncTerminal)
    /\ WF_consoleVars(ReadTail) /\ WF_consoleVars(LandTail)

-----------------------------------------------------------------------------
\* The Messages in the cache are a stretch without a gap, which begins where the next page
\* of older ones ends.
NoGap ==
    log.items # {} =>
        /\ log.items = Min(log.items) .. Max(log.items)
        /\ Min(log.items) = IF log.cursor = Null THEN 0 ELSE log.cursor

\* When a Run that the console follows has ended, and the console has its first page but has
\* not noticed the end, the console comes to show how the Run ended (or follows another Run
\* by then), and its reply or the offer to load it, without a gap between Messages: whether
\* or not the stream works, and whichever stale reads land meanwhile.
ConsoleShowsOutcome ==
    \A r \in ConsoleRuns :
        followed = r /\ serverRun[r] \in Over /\ log.loaded /\ r \notin synced
          ~> /\ followed = r => known[r] = serverRun[r]
             /\ replyOf[r] # Null => replyOf[r] \in log.items \/ replyOf[r] < log.cursor
             /\ NoGap
=============================================================================
