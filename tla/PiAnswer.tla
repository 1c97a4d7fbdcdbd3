-------------------------------- MODULE PiAnswer --------------------------------
(***************************************************************************)
(* How the answer of a Run is read from the output of the Pi process:      *)
(* AgentJsonLines (src/agent/json-lines.ts), parsePiRecord and events() of *)
(* src/agent/pi-runtime.ts.  Output comes in chunks of characters that     *)
(* have nothing to do with its records; the last may lack its newline.     *)
(*                                                                         *)
(* A record is [kind, text]: "start" is the message_start of an assistant, *)
(* "end" a message_end with stopReason stop or length, "toolUse" one with  *)
(* any other, "rejected" a response without success, "other" is ignored.   *)
(* It is a number of equal characters, followed by Newline.                *)
(***************************************************************************)
EXTENDS Naturals, Sequences, SequencesExt

CONSTANT MaxRecord        \* maxAgentRecordBytes

ASSUME RecordAssumption == MaxRecord \in Nat \ {0}

Newline == [kind |-> "newline", text |-> ""]
Record(kind, text) == [kind |-> kind, text |-> text]

\* Width of a record in characters; one of kind "huge" is beyond the limit.
Characters(r) == [i \in 1 .. IF r.kind = "huge" THEN MaxRecord + 1 ELSE MaxRecord |-> r]

\* What Pi prints
PiOutput(rs, terminated) ==
    FlattenSeq([i \in 1 .. Len(rs) |->
        Characters(rs[i]) \o IF i < Len(rs) \/ terminated THEN <<Newline>> ELSE <<>>])

-----------------------------------------------------------------------------
\* read() of a chunk, a character at a time: the remainder is kept between chunks.
ReadCharacter(l, c) ==
    IF l.failed THEN l
    ELSE IF c # Newline
    THEN IF Len(l.remainder) >= MaxRecord THEN [l EXCEPT !.failed = TRUE]
         ELSE [l EXCEPT !.remainder = Append(@, c)]
    ELSE IF l.remainder = <<>> THEN l
    ELSE [l EXCEPT !.remainder = <<>>, !.records = Append(@, l.remainder[1])]

ReadChunk(l, chunk) == FoldLeft(ReadCharacter, [l EXCEPT !.records = <<>>], chunk)

\* Mutant: message_start does not clear what an earlier turn has said.
KeepFinalText(a, r) ==
    IF a.outcome # "open" THEN a
    ELSE CASE r.kind = "end"     -> [a EXCEPT !.finalText = r.text, !.successful = TRUE]
           [] r.kind = "settled" -> [a EXCEPT !.outcome = IF a.successful THEN "answer"
                                                          ELSE "error"]
           [] r.kind \in {"rejected", "invalid"} -> [a EXCEPT !.outcome = "error"]
           [] OTHER -> a

\* The body of the loop over the records
ReadRecord(a, r) ==
    IF a.outcome # "open" THEN a
    ELSE CASE r.kind = "start"   -> [a EXCEPT !.finalText = "", !.successful = FALSE]
           [] r.kind = "end"     -> [a EXCEPT !.finalText = r.text, !.successful = TRUE]
           [] r.kind = "toolUse" -> [a EXCEPT !.finalText = r.text, !.successful = FALSE]
           [] r.kind = "settled" -> [a EXCEPT !.outcome = IF a.successful THEN "answer"
                                                          ELSE "error"]
           [] r.kind \in {"rejected", "invalid"} -> [a EXCEPT !.outcome = "error"]
           [] OTHER -> a

\* A chunk of stdout.  What precedes an oversized record in its chunk is still executed.
ReadOutput(s, chunk) ==
    IF s.answer.outcome # "open" THEN s
    ELSE LET l == ReadChunk(s.lines, chunk)
             a == FoldLeft(ReadRecord, s.answer, l.records)
         IN  [lines  |-> l,
              answer |-> IF l.failed /\ a.outcome = "open"
                         THEN [a EXCEPT !.outcome = "error"] ELSE a]

PiInit == [lines  |-> [remainder |-> <<>>, records |-> <<>>, failed |-> FALSE],
           answer |-> [outcome |-> "open", finalText |-> "", successful |-> FALSE]]

\* events(): process.completed ends the last line and the Run; a session that ends without
\* it is an error, and so is an answer after which the process cannot be terminated.
PiEvents(chunks, completed, terminates) ==
    LET s == FoldLeft(ReadOutput, PiInit, chunks)
        t == IF completed THEN ReadOutput(s, <<Newline>>) ELSE s
    IN  CASE t.answer.outcome = "answer" /\ terminates -> Record("completed", t.answer.finalText)
          [] t.answer.outcome = "open" /\ completed -> Record("exited", "")
          [] OTHER -> Record("error", "")

-----------------------------------------------------------------------------
\* However the output is cut into chunks, the reply is the text of the last assistant message
\* before Pi settles, if that message ended well; a message that was begun and not ended, a
\* tool turn or a retry is never taken for the reply, nor is an earlier message; and there is
\* no reply unless Pi has been terminated.
PiAnswerAgrees(rs, terminated, chunks, completed, terminates) ==
    LET seen     == IF terminated \/ completed THEN Len(rs) ELSE Len(rs) - 1
        decide   == {i \in 1 .. Len(rs) :
                       \/ rs[i].kind = "huge"
                       \/ i <= seen /\ rs[i].kind \in {"settled", "rejected", "invalid"}}
        first    == CHOOSE i \in decide : \A j \in decide : i <= j
        turns    == {i \in 1 .. first : rs[i].kind \in {"start", "end", "toolUse"}}
        final    == rs[CHOOSE i \in turns : \A j \in turns : j <= i]
        answered == /\ decide # {} /\ rs[first].kind = "settled"
                    /\ turns # {} /\ final.kind = "end"
    IN  PiEvents(chunks, completed, terminates) =
            CASE answered /\ terminates -> Record("completed", final.text)
              [] decide = {} /\ completed -> Record("exited", "")
              [] OTHER -> Record("error", "")
=============================================================================
