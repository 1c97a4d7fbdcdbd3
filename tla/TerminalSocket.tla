----------------------------- MODULE TerminalSocket -----------------------------
(***************************************************************************)
(* One WebSocket of a Terminal: its server side                            *)
(* (src/server/terminal-api.ts), which runs the client's messages one      *)
(* after the other but not its timers, its pump and its failures; the      *)
(* browser's side (src/client/terminal-client.ts); and the view            *)
(* (src/client/components/project-terminal.tsx).  The Terminal itself is   *)
(* module ProjectTerminal's; here it opens, ends, and closes or does not.  *)
(* Frames arrive in order; the contents of output and input are left out.  *)
(***************************************************************************)
EXTENDS Naturals, Sequences

CONSTANTS MaxQueued,      \* maxQueuedTerminalMessages
          MaxFrames       \* bound on the frames the client sends

VARIABLES operations,     \* what the chain `operations' still has to run
          op,             \* what it awaits
          opening, connection, socketClosed,
          attachTimer,
          pump,           \* pumpTerminalEvents
          failing,        \* how many failSockets await closeConnection beside the chain
          wire,           \* frames to the client; "bye" is the end of the socket
          serverSock,     \* has the server closed the socket, or seen it closed?
          outbox,         \* frames to the server
          frames,         \* how many frames the client has sent
          socket,         \* the browser's socket
          ready, deliberateClose, errorReported, serverClosed, forceCloseTimer,
          phase           \* of the view

serverVars == <<operations, op, opening, connection, socketClosed, attachTimer, pump, failing,
                serverSock>>
flagVars   == <<ready, deliberateClose, errorReported, serverClosed, forceCloseTimer>>
clientVars == <<outbox, frames, socket, phase>>
socketVars == <<serverVars, wire, flagVars, clientVars>>

SocketInit ==
    /\ operations = <<>> /\ op = "idle" /\ opening = FALSE /\ connection = "none"
    /\ socketClosed = FALSE /\ attachTimer = FALSE /\ pump = "off" /\ failing = 0
    /\ serverSock = "open" /\ wire = <<>> /\ outbox = <<>> /\ frames = 0
    /\ socket = "off" /\ ready = FALSE /\ deliberateClose = FALSE /\ errorReported = FALSE
    /\ serverClosed = FALSE /\ forceCloseTimer = FALSE /\ phase = "idle"

-----------------------------------------------------------------------------
(* The server                                                              *)

\* ws.send and ws.close, best effort.
Tell(sent) == wire' = IF serverSock = "open" THEN wire \o sent ELSE wire

\* connection.close: the first call begins the clean-up, all calls await it.
Closing == IF connection = "open" THEN "closing" ELSE connection
Settled == connection \notin {"open", "closing"}

\* failSocket up to its await
FailSocket ==
    /\ attachTimer' = FALSE /\ socketClosed' = TRUE
    /\ connection' = Closing
    /\ Tell(<<"error">>)

\* and after it: a clean-up that throws leaves the socket to the client.
CloseSocket(sent) ==
    IF connection = "broken" THEN UNCHANGED <<wire, serverSock>>
    ELSE Tell(Append(sent, "bye")) /\ serverSock' = "closed"

\* onMessage.  A frame beyond the limit fails the socket at once, beside the chain.
OnMessage ==
    /\ outbox # <<>> /\ serverSock # "gone"
    /\ outbox' = Tail(outbox)
    /\ \/ socketClosed /\ UNCHANGED <<serverVars, wire>>
       \/ /\ ~socketClosed
          /\ Len(operations) + (IF op = "idle" THEN 0 ELSE 1) < MaxQueued
          /\ operations' = Append(operations, Head(outbox))
          /\ UNCHANGED <<op, opening, connection, socketClosed, attachTimer, pump, failing,
                         serverSock, wire>>
       \/ /\ ~socketClosed
          /\ Len(operations) + (IF op = "idle" THEN 0 ELSE 1) >= MaxQueued
          /\ FailSocket /\ failing' = failing + 1
          /\ UNCHANGED <<operations, op, opening, pump, serverSock>>
    /\ UNCHANGED <<flagVars, frames, socket, phase>>

\* The attach timer fires.
AttachTimeout ==
    /\ attachTimer
    /\ IF opening \/ connection # "none" \/ socketClosed
       THEN attachTimer' = FALSE /\ UNCHANGED <<socketClosed, connection, failing, wire>>
       ELSE FailSocket /\ failing' = failing + 1
    /\ UNCHANGED <<operations, op, opening, pump, serverSock, flagVars, clientVars>>

\* A failSocket beside the chain goes on.
FinishFailing ==
    /\ failing > 0 /\ Settled
    /\ failing' = failing - 1
    /\ CloseSocket(<<>>)
    /\ UNCHANGED <<operations, op, opening, connection, socketClosed, attachTimer, pump,
                   flagVars, clientVars>>

\* The chain takes its next operation: handleMessage, or what onClose and onError append.
RunOperation ==
    /\ op = "idle" /\ operations # <<>>
    /\ operations' = Tail(operations)
    /\ LET m == Head(operations) IN
       \/ /\ m = "attach" /\ ~opening /\ connection = "none"
          /\ opening' = TRUE /\ attachTimer' = FALSE /\ op' = "open"
          /\ UNCHANGED <<connection, socketClosed, wire>>
       \/ /\ \/ m = "attach" /\ (opening \/ connection # "none")
             \/ m \in {"input", "close"} /\ connection = "none"
             \/ m = "bad"
          /\ FailSocket /\ op' = "fail" /\ UNCHANGED opening
       \/ /\ m = "input" /\ connection # "none"
          /\ op' = "call"
          /\ UNCHANGED <<opening, connection, socketClosed, attachTimer, wire>>
       \/ /\ m = "close" /\ connection # "none"
          /\ op' = "close" /\ socketClosed' = TRUE /\ connection' = Closing
          /\ UNCHANGED <<opening, attachTimer, wire>>
       \/ /\ m = "drop"
          /\ op' = "drop" /\ connection' = Closing
          /\ UNCHANGED <<opening, socketClosed, attachTimer, wire>>
    /\ UNCHANGED <<pump, failing, serverSock, flagVars, clientVars>>

\* projectTerminals.open resolves.  A socket closed meanwhile gets no Terminal.
OpenResolves ==
    /\ op = "open"
    /\ \/ /\ ~socketClosed
          /\ connection' = "open" /\ pump' = "on" /\ Tell(<<"ready">>)
          /\ op' = "idle" /\ opening' = FALSE
          /\ UNCHANGED <<socketClosed, attachTimer>>
       \/ /\ socketClosed
          /\ connection' = "closing" /\ op' = "late" /\ opening' = FALSE
          /\ UNCHANGED <<pump, socketClosed, attachTimer, wire>>
       \/ FailSocket /\ op' = "fail" /\ opening' = FALSE /\ UNCHANGED pump   \* refused
       \/ FailSocket /\ op' = "fail" /\ UNCHANGED <<opening, pump>>          \* thrown
    /\ UNCHANGED <<operations, failing, serverSock, flagVars, clientVars>>

\* connection.write or resize resolves, or rejects and fails the socket.
CallResolves ==
    /\ op = "call"
    /\ \/ op' = "idle" /\ UNCHANGED <<connection, socketClosed, attachTimer, wire>>
       \/ FailSocket /\ op' = "fail"
    /\ UNCHANGED <<operations, opening, pump, failing, serverSock, flagVars, clientVars>>

\* The chain's own await of the clean-up is over.  If it throws, a message fails the socket
\* once more, and leaves it to the client.
CloseResolves ==
    /\ op \in {"fail", "close", "late", "drop"} /\ Settled
    /\ op' = "idle"
    /\ \/ /\ op = "drop" \/ (op = "late" /\ connection # "broken")
          /\ UNCHANGED <<connection, socketClosed, attachTimer, wire, serverSock>>
       \/ /\ op \in {"fail", "close"} /\ connection # "broken"
          /\ CloseSocket(<<>>) /\ UNCHANGED <<connection, socketClosed, attachTimer>>
       \/ /\ op # "drop" /\ connection = "broken"
          /\ FailSocket /\ UNCHANGED serverSock
    /\ UNCHANGED <<operations, opening, pump, failing, flagVars, clientVars>>

\* The clean-up of the Terminal ends, or throws for every caller.
CleanupSettles ==
    /\ connection = "closing" /\ connection' \in {"closed", "broken"}
    /\ UNCHANGED <<operations, op, opening, socketClosed, attachTimer, pump, failing,
                   serverSock, wire, flagVars, clientVars>>

\* The PTY exits or is killed, or its stream fails: the clean-up comes first.
StreamEnds ==
    /\ pump = "on" /\ pump' \in {"exited", "failed"}
    /\ connection' = Closing
    /\ UNCHANGED <<operations, op, opening, socketClosed, attachTimer, failing, serverSock,
                   wire, flagVars, clientVars>>

\* ws.send throws in the pump: its events are abandoned, and the clean-up left to failSocket.
SendFails ==
    /\ pump = "on" /\ pump' = "done"
    /\ FailSocket /\ failing' = failing + 1
    /\ UNCHANGED <<operations, op, opening, serverSock, flagVars, clientVars>>

\* The expiry timer of the Terminal only begins the clean-up.
TerminalExpires ==
    /\ connection = "open" /\ connection' = "closing"
    /\ UNCHANGED <<operations, op, opening, socketClosed, attachTimer, pump, failing,
                   serverSock, wire, flagVars, clientVars>>

\* The pump tells the client of the exit, or fails the socket.
PumpEnds ==
    /\ pump \in {"exited", "failed"} /\ Settled
    /\ pump' = "done"
    /\ IF pump = "exited" /\ connection = "closed"
       THEN CloseSocket(<<"exit">>) /\ UNCHANGED <<connection, socketClosed, attachTimer, failing>>
       ELSE FailSocket /\ failing' = failing + 1 /\ UNCHANGED serverSock
    /\ UNCHANGED <<operations, op, opening, flagVars, clientVars>>

\* Mutant: the disconnect waits for nobody and closes what is there.
ForgetSocket ==
    /\ serverSock # "gone" /\ socket \in {"closing", "closed"} /\ outbox = <<>>
    /\ serverSock' = "gone" /\ attachTimer' = FALSE /\ connection' = Closing
    /\ UNCHANGED <<operations, op, opening, socketClosed, pump, failing, wire, flagVars, clientVars>>

\* onClose and onError: the socket is gone, and the chain ends with the clean-up.
SocketGone ==
    /\ serverSock # "gone" /\ socket \in {"closing", "closed"} /\ outbox = <<>>
    /\ serverSock' = "gone" /\ attachTimer' = FALSE /\ socketClosed' = TRUE
    /\ operations' = Append(operations, "drop")
    /\ UNCHANGED <<op, opening, connection, pump, failing, wire, flagVars, clientVars>>

-----------------------------------------------------------------------------
(* The browser                                                             *)

\* reportError and the view's onError
ReportError ==
    IF errorReported \/ deliberateClose \/ serverClosed
    THEN UNCHANGED <<errorReported, forceCloseTimer, phase>>
    ELSE errorReported' = TRUE /\ forceCloseTimer' = TRUE /\ phase' = "closing"

Connect ==
    /\ socket = "off" /\ socket' = "connecting" /\ phase' = "connecting"
    /\ UNCHANGED <<serverVars, wire, flagVars, outbox, frames>>

\* upgradeCloudflareWebSocket: the server accepts, and onOpen arms the attach timer.
Upgrade == socket = "connecting" /\ attachTimer' = TRUE

\* The client learns of it, and attaches.
Open ==
    /\ Upgrade
    /\ socket' = "open" /\ outbox' = Append(outbox, "attach")
    /\ UNCHANGED <<operations, op, opening, connection, socketClosed, pump, failing, serverSock,
                   wire, flagVars, frames, phase>>

\* write and resize of this client; a frame no client of ours sends.
SendFrame(m) ==
    /\ socket = "open" /\ frames < MaxFrames
    /\ m = "input" => ready
    /\ outbox' = Append(outbox, m) /\ frames' = frames + 1
    /\ UNCHANGED <<serverVars, wire, flagVars, socket, phase>>

\* A frame arrives.  A socket that is closing drops what it gets.
Hear ==
    /\ wire # <<>> /\ socket \in {"open", "closing"} /\ Head(wire) # "bye"
    /\ wire' = Tail(wire)
    /\ IF socket = "closing" THEN UNCHANGED <<flagVars, phase>>
       ELSE \/ /\ Head(wire) = "ready"
               /\ ready' = TRUE /\ phase' = "ready"
               /\ UNCHANGED <<deliberateClose, errorReported, serverClosed, forceCloseTimer>>
            \/ /\ Head(wire) = "error" /\ ReportError
               /\ UNCHANGED <<ready, deliberateClose, serverClosed>>
            \/ /\ Head(wire) = "exit"
               /\ serverClosed' = TRUE /\ forceCloseTimer' = TRUE /\ phase' = "closing"
               /\ UNCHANGED <<ready, deliberateClose, errorReported>>
    /\ UNCHANGED <<serverVars, outbox, frames, socket>>

\* The socket is closed by the server, by ourselves, or by the network.
Closed ==
    /\ \/ socket \in {"open", "closing"} /\ wire # <<>> /\ Head(wire) = "bye"
       \/ socket = "closing"
       \/ socket \in {"connecting", "open"}
    /\ socket' = "closed" /\ wire' = <<>> /\ outbox' = <<>>
    /\ forceCloseTimer' = FALSE
    /\ errorReported' = (errorReported \/ ~(deliberateClose \/ serverClosed))
    /\ phase' = IF phase = "gone" THEN phase ELSE "closed"
    /\ UNCHANGED <<serverVars, ready, deliberateClose, serverClosed, frames>>

\* Mutant: without a grace period the client waits for the server's close.
CloseAndWait ==
    /\ socket = "open" /\ phase \in {"connecting", "ready"} /\ ~deliberateClose
    /\ phase' = "closing" /\ deliberateClose' = TRUE /\ ready' = FALSE
    /\ outbox' = Append(outbox, "close")
    /\ UNCHANGED <<serverVars, wire, errorReported, serverClosed, forceCloseTimer, frames, socket>>

\* The user closes the Terminal (close of the view and of the client).
Close ==
    /\ socket = "open" /\ phase \in {"connecting", "ready"} /\ ~deliberateClose
    /\ phase' = "closing" /\ deliberateClose' = TRUE /\ ready' = FALSE
    /\ outbox' = Append(outbox, "close") /\ forceCloseTimer' = TRUE
    /\ UNCHANGED <<serverVars, wire, errorReported, serverClosed, frames, socket>>

\* A connection that is still being made is given up at once.
CloseConnecting ==
    /\ socket = "connecting"
    /\ phase' = "closing" /\ deliberateClose' = TRUE /\ ready' = FALSE /\ socket' = "closing"
    /\ UNCHANGED <<serverVars, wire, errorReported, serverClosed, forceCloseTimer, outbox, frames>>

\* forceCloseAfterGracePeriod
ForceClose ==
    /\ forceCloseTimer /\ forceCloseTimer' = FALSE
    /\ socket' = IF socket = "open" THEN "closing" ELSE socket
    /\ UNCHANGED <<serverVars, wire, ready, deliberateClose, errorReported, serverClosed,
                   outbox, frames, phase>>

\* dispose: the view is gone.
Dispose ==
    /\ socket \in {"connecting", "open"} /\ socket' = "closing"
    /\ deliberateClose' = TRUE /\ ready' = FALSE /\ forceCloseTimer' = FALSE
    /\ phase' = "gone"
    /\ UNCHANGED <<serverVars, wire, errorReported, serverClosed, outbox, frames>>

-----------------------------------------------------------------------------
ServerStep == RunOperation \/ OpenResolves \/ CallResolves \/ CloseResolves

SocketNext ==
    \/ OnMessage \/ AttachTimeout \/ FinishFailing \/ ServerStep
    \/ CleanupSettles \/ StreamEnds \/ SendFails \/ TerminalExpires \/ PumpEnds \/ SocketGone
    \/ Connect \/ Open \/ Hear \/ Closed \/ Close \/ CloseConnecting \/ ForceClose \/ Dispose
    \/ \E m \in {"input", "bad"} : SendFrame(m)

\* Frames are delivered, timers fire, calls of the service end, and a socket that is being
\* closed closes; neither the user nor the network nor the process has to do anything.
SocketFairness ==
    /\ WF_socketVars(OnMessage)
    /\ WF_socketVars(AttachTimeout)
    /\ WF_socketVars(FinishFailing)
    /\ WF_socketVars(ServerStep)
    /\ WF_socketVars(CleanupSettles)
    /\ WF_socketVars(PumpEnds)
    /\ WF_socketVars(SocketGone)
    /\ WF_socketVars(Open)
    /\ WF_socketVars(Hear)
    /\ WF_socketVars(Closed /\ (socket = "closing" \/ (wire # <<>> /\ Head(wire) = "bye")))
    /\ WF_socketVars(ForceClose)

-----------------------------------------------------------------------------
\* A Terminal never outlives its socket: when the browser is gone, whatever was opening,
\* queued or being written at that moment, the server ends up without an open Terminal, for
\* good (terminal-api.ts, the operations chain and the check after open).
NoTerminalOutlivesItsSocket == socket = "closed" ~> [](connection \notin {"open", "closing"})

\* The view does not hang: it leaves "connecting" and "closing" although the clean-up on the
\* server may throw and leave the socket open (forceCloseAfterGracePeriod).
ViewSettles == phase \in {"connecting", "closing"} ~> phase \in {"ready", "closed", "gone"}
=============================================================================
