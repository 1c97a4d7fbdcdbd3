------------------------------ MODULE OutputStream ------------------------------
(***************************************************************************)
(* What a session of the runtime promises to whoever reads its events: the *)
(* reader gets what was sent, in that order and without a gap, and is told *)
(* of a normal end only when it has got everything up to the exit.  Only a *)
(* failure may cut the stream short.                                       *)
(***************************************************************************)
EXTENDS Naturals, Sequences

CONSTANT Exit             \* the event that reports the exit of the process

VARIABLES sent,           \* the events of the session, in order
          received,       \* the events the reader has got
          verdict         \* what the reader was told at the end

StreamInit == received = <<>> /\ verdict = "open"

\* Nothing follows the exit.
SendEvent ==
    /\ \A i \in 1 .. Len(sent) : sent[i] # Exit
    /\ Len(sent') = Len(sent) + 1 /\ SubSeq(sent', 1, Len(sent)) = sent
    /\ UNCHANGED verdict

Receive ==
    /\ verdict = "open"
    /\ Len(received) < Len(sent')
    /\ received' = Append(received, sent'[Len(received) + 1])
    /\ UNCHANGED verdict

EndNormally ==
    /\ verdict = "open" /\ verdict' = "closed"
    /\ received = sent /\ received # <<>> /\ received[Len(received)] = Exit
    /\ UNCHANGED <<sent, received>>

\* Also because of an event that is more than the session may send.
EndInFailure ==
    /\ verdict = "open" /\ verdict' = "failed"
    /\ Len(sent') >= Len(sent) /\ SubSeq(sent', 1, Len(sent)) = sent
    /\ UNCHANGED received

\* A reader that already waits gets an event in the step that sends it.
StreamNext ==
    \/ SendEvent /\ UNCHANGED received
    \/ SendEvent /\ Receive
    \/ Receive /\ UNCHANGED sent
    \/ EndNormally
    \/ EndInFailure

StreamSpec == StreamInit /\ [][StreamNext]_<<sent, received, verdict>>
=============================================================================
