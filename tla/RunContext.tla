------------------------------- MODULE RunContext -------------------------------
(***************************************************************************)
(* The history that a Run's prompt carries: MessageRepository's            *)
(* listContextBefore and buildRunPrompt (src/application/run-context.ts).  *)
(* A Message is its role and the size of its content.                      *)
(***************************************************************************)
EXTENDS Naturals, Sequences, SequencesExt

CONSTANTS MaxHistoryBytes, MaxHistoryMessages

\* The brackets of an empty history fit.
ASSUME ContextAssumption ==
    MaxHistoryBytes \in Nat /\ MaxHistoryBytes >= 2 /\ MaxHistoryMessages \in Nat

Framing == 1              \* what JSON adds to the content of a Message
Omitted == MaxHistoryBytes + 1      \* stands for content null

Newest(ms, n) == Reverse(SubSeq(ms, 1 + (IF Len(ms) > n THEN Len(ms) - n ELSE 0), Len(ms)))

\* The rows, newest first; content that is too large is read as null.
ContextBefore(ms) ==
    [i \in 1 .. Len(Newest(ms, MaxHistoryMessages + 1)) |->
        LET m == Newest(ms, MaxHistoryMessages + 1)[i]
        IN  IF m.size > MaxHistoryBytes THEN [m EXCEPT !.size = Omitted] ELSE m]

\* The loop over the rows, up to its break
AddMessage(h, m) ==
    IF h.truncated THEN h
    ELSE IF \/ m.size = Omitted
            \/ Len(h.history) = MaxHistoryMessages
            \/ h.bytes + m.size + Framing + 1 > MaxHistoryBytes
    THEN [h EXCEPT !.truncated = TRUE]
    ELSE [h EXCEPT !.history = <<m>> \o @, !.bytes = @ + m.size + Framing + 1]

\* No answer is shown without the question before it.
DropAnswers(h) ==
    LET asked == {i \in 1 .. Len(h.history) : h.history[i].role = "user"}
        from  == IF asked = {} THEN Len(h.history) + 1
                 ELSE CHOOSE i \in asked : \A j \in asked : i <= j
    IN  [history   |-> SubSeq(h.history, from, Len(h.history)),
         truncated |-> h.truncated \/ from > 1]

BuildRunPrompt(ms) ==
    DropAnswers(FoldLeft(AddMessage, [history |-> <<>>, bytes |-> 2, truncated |-> FALSE],
                         ContextBefore(ms)))

-----------------------------------------------------------------------------
MessageBytes(ms) == FoldLeft(LAMBDA n, m : n + m.size + Framing + 1, 0, ms)

\* The history is the longest end of the conversation that fits and begins with the user,
\* and it is marked as truncated exactly when it is not the whole conversation.
FitsPrompt(ms) ==
    /\ Len(ms) <= MaxHistoryMessages
    /\ \A i \in DOMAIN ms : ms[i].size <= MaxHistoryBytes
    /\ 2 + MessageBytes(ms) <= MaxHistoryBytes
    /\ ms # <<>> => ms[1].role = "user"

ContextAgrees(ms) ==
    LET ends == {SubSeq(ms, i, Len(ms)) : i \in 1 .. Len(ms) + 1}
        best == CHOOSE s \in {t \in ends : FitsPrompt(t)} :
                    \A t \in ends : FitsPrompt(t) => Len(t) <= Len(s)
    IN  BuildRunPrompt(ms) = [history |-> best, truncated |-> best # ms]
=============================================================================
