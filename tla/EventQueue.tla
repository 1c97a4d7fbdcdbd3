------------------------------- MODULE EventQueue -------------------------------
(***************************************************************************)
(* The sessions of src/runtime/e2b-sessions.ts: callbacks of the E2B SDK   *)
(* fill an AsyncEventQueue, one reader iterates over it.  A process        *)
(* session buffers what arrives before its handle exists and is killed     *)
(* when a limit is passed; a terminal session lets the SDK wait instead.   *)
(* The SDK is external: it hands over one chunk at a time, awaits onData,  *)
(* and resolves wait() after the last chunk.                               *)
(*                                                                         *)
(* A chunk is <<its number, its size>>; 0 is process.started and Exit is   *)
(* process.completed or terminal.exited, neither of which counts as bytes. *)
(***************************************************************************)
EXTENDS Naturals, Sequences, FiniteSets, SequencesExt

CONSTANTS PendingBytes,   \* maxPendingSize
          PendingEvents,  \* maxPendingEvents of a process session
          TotalBytes,     \* totalBytes, outputLimitBytes
          MaxChunks       \* bound on the chunks the process writes

ASSUME QueueAssumption == PendingBytes \in Nat /\ PendingEvents \in Nat /\ MaxChunks \in Nat

VARIABLES kind,           \* the session: "none" (not begun), "process" or "terminal"
          started,        \* has the caller got the session?
          buffered,       \* bufferedOutput
          pending,        \* AsyncEventQueue.pending
          end,            \* closed / failure
          offered,        \* the chunk whose onData the SDK awaits
          parked,         \* does that onData sit in capacityWaiters?
          total,          \* totalBytes, outputBytes
          chunks,         \* number of chunks written so far
          sdk,            \* what wait() did
          waiting,        \* a next() sits in waiters
          got,            \* what the reader has got, by number
          told            \* how the reader's iteration ended

queueVars == <<kind, started, buffered, pending, end, offered, parked, total, chunks, sdk,
               waiting, got, told>>

Sizes   == 1 .. PendingBytes + 1
Exit    == MaxChunks + 1
Nothing == <<0, 0>>

BytesOf(s) == FoldSeq(LAMBDA e, n : e[2] + n, 0, s)

QueueInit ==
    /\ kind = "none" /\ started = FALSE /\ buffered = <<>>
    /\ pending = <<>> /\ end = "open" /\ offered = Nothing /\ parked = FALSE
    /\ total = 0 /\ chunks = 0 /\ sdk = "running"
    /\ waiting = FALSE /\ got = <<>> /\ told = "open"

\* The session is asked for; its callbacks may run before the caller gets it.
BeginSession(k) ==
    /\ kind = "none" /\ kind' = k
    /\ UNCHANGED <<started, buffered, pending, end, offered, parked, total, chunks, sdk,
                   waiting, got, told>>

-----------------------------------------------------------------------------
(* AsyncEventQueue                                                         *)

\* push: to a reader that waits, else to pending.
Push(e) ==
    IF end # "open" THEN UNCHANGED <<pending, waiting, got>>
    ELSE IF waiting
    THEN /\ got' = Append(got, e[1]) /\ waiting' = FALSE
         /\ UNCHANGED pending
    ELSE pending' = Append(pending, e) /\ UNCHANGED <<waiting, got>>

\* Mutant: the limit is compared after the event has been counted in.
FitsOneMore(e) ==
    waiting \/ (Len(pending) <= PendingEvents /\ BytesOf(pending) + e[2] <= PendingBytes)

\* The test of tryPushBounded
Fits(e) ==
    waiting \/ (Len(pending) < PendingEvents /\ BytesOf(pending) + e[2] <= PendingBytes)

\* close and fail wake the SDK's onData and the reader; only the first of them counts.
EndQueue(how) ==
    IF end # "open" THEN UNCHANGED <<end, parked, waiting, told>>
    ELSE /\ end' = how /\ parked' = FALSE
         /\ waiting' = FALSE
         /\ told' = IF waiting THEN how ELSE told

\* Mutant: the SDK is not woken when the reader makes room.
NextWithoutRelease ==
    /\ ~waiting /\ told = "open" /\ started
    /\ IF pending # <<>>
       THEN /\ pending' = Tail(pending) /\ got' = Append(got, Head(pending)[1])
            /\ UNCHANGED <<parked, waiting, told>>
       ELSE /\ told' = end /\ waiting' = (end = "open")
            /\ UNCHANGED <<pending, parked, got>>
    /\ UNCHANGED <<kind, started, buffered, end, offered, total, chunks, sdk>>

\* next(): what is pending comes before the failure and the end.
NextEvent ==
    /\ ~waiting /\ told = "open" /\ started
    /\ IF pending # <<>>
       THEN /\ pending' = Tail(pending) /\ got' = Append(got, Head(pending)[1])
            /\ parked' = FALSE
            /\ UNCHANGED <<waiting, told>>
       ELSE /\ told' = end /\ waiting' = (end = "open")
            /\ UNCHANGED <<pending, parked, got>>
    /\ UNCHANGED <<kind, started, buffered, end, offered, total, chunks, sdk>>

-----------------------------------------------------------------------------
(* The process session                                                     *)

\* Mutant: the limit discards the output, and the stream goes on.
DropOutput ==
    /\ buffered' = <<>> /\ pending' = <<>>
    /\ UNCHANGED <<end, waiting, got, told>>

\* failOutput: what is pending is discarded with the failure.
FailOutput ==
    /\ end = "open" /\ end' = "failed"
    /\ buffered' = <<>> /\ pending' = <<>>
    /\ waiting' = FALSE /\ told' = IF waiting THEN "failed" ELSE told
    /\ UNCHANGED got

Buffer(e) ==
    IF BytesOf(buffered) + e[2] > PendingBytes \/ Len(buffered) >= PendingEvents
    THEN FailOutput
    ELSE buffered' = Append(buffered, e) /\ UNCHANGED <<pending, end, waiting, got, told>>

\* emitOutput.  After the failure output is ignored.
EmitOutput(size) ==
    /\ kind = "process" /\ sdk = "running" /\ chunks < MaxChunks
    /\ chunks' = chunks + 1
    /\ LET e == <<chunks + 1, size>> IN
       IF end # "open"
       THEN UNCHANGED <<total, buffered, pending, end, waiting, got, told>>
       ELSE /\ total' = total + size
            /\ \/ total + size > TotalBytes /\ FailOutput
               \/ total + size <= TotalBytes /\ ~started /\ Buffer(e)
               \/ total + size <= TotalBytes /\ started /\ ~Fits(e) /\ FailOutput
               \/ /\ total + size <= TotalBytes /\ started /\ Fits(e) /\ Push(e)
                  /\ UNCHANGED <<buffered, end, told>>
    /\ UNCHANGED <<kind, started, offered, parked, sdk>>

\* commands.run resolves: the caller gets the session, or the failure that came before.
StartProcessSession ==
    /\ kind = "process" /\ ~started /\ told = "open"
    /\ IF end # "open"
       THEN told' = end /\ UNCHANGED <<started, buffered, pending>>
       ELSE /\ started' = TRUE /\ buffered' = <<>>
            /\ pending' = <<Nothing>> \o buffered
            /\ UNCHANGED told
    /\ UNCHANGED <<kind, end, offered, parked, total, chunks, sdk, waiting, got>>

-----------------------------------------------------------------------------
(* The terminal session                                                    *)

\* onData: beyond the output limit the queue fails and so does the callback.
OfferOutput(size) ==
    /\ kind = "terminal" /\ sdk = "running" /\ offered = Nothing /\ chunks < MaxChunks
    /\ chunks' = chunks + 1 /\ total' = total + size
    /\ IF total + size > TotalBytes
       THEN EndQueue("failed") /\ sdk' = "broken" /\ UNCHANGED offered
       ELSE offered' = <<chunks + 1, size>> /\ UNCHANGED <<sdk, end, parked, waiting, told>>
    /\ UNCHANGED <<kind, started, buffered, pending, got>>

\* waitAndPush, each time it runs.  A callback that throws breaks the SDK's stream.
WaitAndPush ==
    /\ offered # Nothing /\ ~parked
    /\ \/ /\ end = "open" /\ offered[2] <= PendingBytes
          /\ pending # <<>> /\ BytesOf(pending) + offered[2] > PendingBytes
          /\ parked' = TRUE
          /\ UNCHANGED <<offered, pending, waiting, got, sdk>>
       \/ /\ offered[2] > PendingBytes \/ end = "failed"
          /\ offered' = Nothing /\ sdk' = "broken"
          /\ UNCHANGED <<parked, pending, waiting, got>>
       \/ /\ offered[2] <= PendingBytes /\ end # "failed"
          /\ pending = <<>> \/ BytesOf(pending) + offered[2] <= PendingBytes \/ end = "closed"
          /\ Push(offered) /\ offered' = Nothing
          /\ UNCHANGED <<parked, sdk>>
    /\ UNCHANGED <<kind, started, buffered, end, total, chunks, told>>

StartTerminalSession ==
    /\ kind = "terminal" /\ ~started
    /\ started' = TRUE
    /\ UNCHANGED <<kind, buffered, pending, end, offered, parked, total, chunks, sdk, waiting,
                   got, told>>

-----------------------------------------------------------------------------
(* settleProcess and settleTerminal                                        *)

\* wait() resolves, or rejects with a CommandExitError: the exit is an event.
Complete ==
    /\ sdk = "running" /\ offered = Nothing /\ started
    /\ sdk' = "exited"
    /\ IF end # "open" THEN UNCHANGED <<pending, end, parked, waiting, got, told>>
       ELSE /\ Push(<<Exit, 0>>)
            /\ end' = "closed" /\ UNCHANGED <<parked, told>>
    /\ UNCHANGED <<kind, started, buffered, offered, total, chunks>>

\* The connection is lost, or the process is killed and its stream disconnected.
BreakStream ==
    /\ sdk = "running" /\ offered = Nothing /\ started
    /\ sdk' = "broken"
    /\ UNCHANGED <<kind, started, buffered, pending, end, offered, parked, total, chunks,
                   waiting, got, told>>

\* wait() rejects with anything else.
FailQueue ==
    /\ sdk = "broken" /\ started /\ end = "open"
    /\ EndQueue("failed")
    /\ UNCHANGED <<kind, started, buffered, pending, offered, total, chunks, sdk, got>>

-----------------------------------------------------------------------------
QueueNext ==
    \/ \E k \in {"process", "terminal"} : BeginSession(k)
    \/ \E size \in Sizes : EmitOutput(size) \/ OfferOutput(size)
    \/ StartProcessSession \/ StartTerminalSession
    \/ WaitAndPush \/ Complete \/ BreakStream \/ FailQueue
    \/ NextEvent

\* The SDK ends its stream, callbacks run when they can, and the reader reads on.
QueueFairness ==
    /\ WF_queueVars(StartProcessSession \/ StartTerminalSession)
    /\ WF_queueVars(WaitAndPush)
    /\ WF_queueVars(Complete)
    /\ WF_queueVars(FailQueue)
    /\ WF_queueVars(NextEvent)

QueueSpec == QueueInit /\ [][QueueNext]_queueVars

-----------------------------------------------------------------------------
\* Memory is bounded whatever the process writes and however slowly it is read: the bytes
\* that wait never exceed maxPendingSize, nor the chunks of a process session their number.
QueueBounded ==
    LET waits == buffered \o pending IN
      /\ BytesOf(waits) <= PendingBytes
      /\ kind = "process" => Cardinality({i \in DOMAIN waits : waits[i][2] > 0}) <= PendingEvents

\* Both sessions implement the stream that RunCoordinator and ProjectTerminal rely on.
SentEvents ==
    (IF kind = "process" THEN <<0>> ELSE <<>>)
      \o [i \in 1 .. chunks |-> i]
      \o (IF sdk = "exited" THEN <<Exit>> ELSE <<>>)

Stream == INSTANCE OutputStream WITH sent <- SentEvents, received <- got, verdict <- told

ImplementsStream == Stream!StreamSpec

\* A reader that reads on is told how the stream ended: neither a wake-up that is lost nor
\* an end that comes while output waits for room leaves it, or the SDK, hanging.
EndReachesReader == kind # "none" ~> told # "open"
=============================================================================
