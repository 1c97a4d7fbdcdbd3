------------------------------ MODULE ModelRequest ------------------------------
(***************************************************************************)
(* What the ModelGateway reads (src/server/model-gateway-body.ts,          *)
(* model-gateway-protocol.ts): the body of a request or of a response, in  *)
(* chunks, up to a limit; a completion request; and the usage in the       *)
(* response that is passed on.  A chunk is its number of bytes.            *)
(***************************************************************************)
EXTENDS Integers, Sequences, SequencesExt, FiniteSetsExt

CONSTANT MaxBodyBytes     \* maxCompletionRequestBytes, maxUpstreamResponseBytes

ASSUME BodyAssumption == MaxBodyBytes \in Nat

SumOf(chunks) == FoldLeft(LAMBDA a, b : a + b, 0, chunks)

\* readBoundedText: `end' is "done" or "error", how the stream ends; the loop leaves it as
\* soon as the limit is passed.
ReadBodyChunk(r, bytes) ==
    IF r.kind = "too_large" THEN r
    ELSE IF r.bytes + bytes > MaxBodyBytes THEN [r EXCEPT !.kind = "too_large"]
    ELSE [r EXCEPT !.bytes = @ + bytes]

ReadBoundedText(chunks, end, decodes) ==
    LET r == FoldLeft(ReadBodyChunk, [kind |-> "ok", bytes |-> 0], chunks)
    IN  IF r.kind = "ok" /\ (end = "error" \/ ~decodes) THEN [r EXCEPT !.kind = "invalid"] ELSE r

\* parseOpenAiCompletionRequest: a declared length that is no length says nothing (-1).  What
\* is wrong with the payload, or with a message of it, is a set of names.
ParseCompletionRequest(declared, chunks, end, decodes, wrong, messages) ==
    LET body == ReadBoundedText(chunks, end, decodes)
    IN  CASE declared > MaxBodyBytes -> "too_large"
          [] body.kind # "ok"        -> body.kind
          [] wrong # {} \/ messages = <<>> \/ \E i \in DOMAIN messages : messages[i] # {} -> "invalid"
          [] OTHER -> "ok"

NoUsage == [input |-> -1, output |-> -1, total |-> -1]

\* toModelGatewayUsage of a payload with its three counters, -1 for one that is no number
ToModelGatewayUsage(u) ==
    IF Min({u.input, u.output, u.total}) < 0 \/ u.total < u.input + u.output THEN NoUsage ELSE u

\* onEvent: data is blank or "[DONE]", JSON, or neither
ReadEvent(r, event) ==
    CASE event.data = "none" -> r
      [] event.data = "bad"  -> [r EXCEPT !.malformed = TRUE]
      [] OTHER -> [r EXCEPT !.usage = IF ToModelGatewayUsage(event.usage) = NoUsage THEN @
                                      ELSE ToModelGatewayUsage(event.usage)]

\* readOpenAiUsage of a stream; an event that is cut off at its end is not parsed.
ReadOpenAiUsage(events, cut) ==
    LET whole == SubSeq(events, 1, Len(events) - (IF cut /\ events # <<>> THEN 1 ELSE 0))
        r     == FoldLeft(ReadEvent, [usage |-> NoUsage, malformed |-> FALSE], whole)
    IN  IF r.malformed THEN NoUsage ELSE r.usage

-----------------------------------------------------------------------------
\* However a body is split into chunks, it is read whole when it has no more than the limit,
\* and refused otherwise; a request is read that declares no more, has no more and has nothing
\* wrong with it.
BodyAgrees(declared, chunks, end, decodes, wrong, messages) ==
    LET body   == ReadBoundedText(chunks, end, decodes)
        answer == ParseCompletionRequest(declared, chunks, end, decodes, wrong, messages)
    IN  /\ body.kind = "ok" <=> end = "done" /\ decodes /\ SumOf(chunks) <= MaxBodyBytes
        /\ body.kind = "ok" => body.bytes = SumOf(chunks)
        /\ body.kind = "too_large" <=> SumOf(chunks) > MaxBodyBytes
        /\ answer = "ok" <=> /\ declared <= MaxBodyBytes /\ body.kind = "ok" /\ wrong = {}
                             /\ messages # <<>> /\ ToSet(messages) = {{}}

\* The usage of a response is the last one in it that adds up, and a response of which any
\* part cannot be read has none: it is not passed on.
UsageAgrees(events, cut) ==
    LET n     == Len(events) - (IF cut /\ events # <<>> THEN 1 ELSE 0)
        good  == {i \in 1 .. n : events[i].data = "json"
                                 /\ ToModelGatewayUsage(events[i].usage) # NoUsage}
        usage == ReadOpenAiUsage(events, cut)
    IN  /\ usage # NoUsage <=> good # {} /\ \A i \in 1 .. n : events[i].data # "bad"
        /\ usage # NoUsage => /\ usage = events[Max(good)].usage
                              /\ usage.total >= usage.input + usage.output
=============================================================================
