------------------------------ MODULE ModelAnswer ------------------------------
(***************************************************************************)
(* What the ModelGateway makes of a model's answer                         *)
(* (createSdkCompletionResponse of src/server/model-gateway-ai-sdk.ts),    *)
(* and of the tools that a request offers.  It answers when it has all of  *)
(* the answer: its text, its calls and the counters that the provider      *)
(* measured.  What is written is read twice: by the gateway itself, for    *)
(* its usage (ModelRequest), and with Pi's next request (Conversation).    *)
(* The AI SDK, which turns the provider's response into events, is         *)
(* external.  A part of the text, and a call, count 1 in the size.         *)
(***************************************************************************)
EXTENDS Conversation, ModelRequest

CONSTANT MaxAnswerSize    \* the 8 MiB of an answer

ASSUME AnswerAssumption == MaxAnswerSize \in Nat

\* toSdkCompletionInput: the names of the tools on offer, "bad" for an entry that is none, and
\* the choice, which may be the name of one of them.
TakesTools(tools, choice, sequential) ==
    LET names == ToSet(tools) IN
    /\ "bad" \notin names /\ IsInjective(tools)
    /\ choice \in {"auto", "none", "required"} \cup names
    /\ choice = "required" => names # {}
    /\ sequential => names = {}

NoCounters == [prompt |-> -1, candidates |-> -1, thoughts |-> 0, total |-> -1]

\* The SDK counts what a model thinks as output, and what was not reported as nothing.
SdkUsage(raw) == [input  |-> Max({raw.prompt, 0}),
                  output |-> Max({raw.candidates, 0}) + raw.thoughts]

NoAnswer == [kind |-> "ok", text |-> <<>>, calls |-> <<>>, signed |-> {}, raw |-> NoCounters,
             usage |-> SdkUsage(NoCounters), finish |-> "none"]

\* addCall
AddAnswerCall(r, call, tools) ==
    IF call.id = 0 \/ call.name \notin ToSet(tools) \/ ~call.record
    THEN [r EXCEPT !.kind = "upstream_response"]
    ELSE [r EXCEPT !.calls  = Append(@, [id |-> call.id, name |-> call.name]),
                   !.signed = IF call.signed THEN @ \cup {call.id} ELSE @]

\* One turn of the loop over the events
TakeModelEvent(r, event, tools) ==
    IF r.kind # "ok" THEN r
    ELSE CASE event.type = "error" -> [r EXCEPT !.kind = "upstream_response"]
           [] event.type = "text"  -> [r EXCEPT !.text = Append(@, event.text)]
           [] event.type = "call"  -> AddAnswerCall(r, event.call, tools)
           [] event.type = "step"  -> [r EXCEPT !.raw = event.raw]
           [] OTHER -> [r EXCEPT !.usage = event.usage, !.finish = event.finish]

\* The counters must be the provider's own.
Measured(raw, usage) ==
    /\ Min({raw.prompt, raw.candidates, raw.total}) >= 0
    /\ raw.total >= usage.input + usage.output

Finishes == {"stop", "length", "tool-calls", "content-filter"}

\* The whole of it; `upstream' is how far the fetch came: "unreached", "rejected" (which is
\* handed on as it is), "unreadable" or "read".
ModelResponse(upstream, events, tools) ==
    LET r == FoldLeft(LAMBDA a, event : TakeModelEvent(a, event, tools), NoAnswer, events)
        Fails(kind) == [NoAnswer EXCEPT !.kind = kind]
    IN  CASE upstream = "unreached"  -> Fails("upstream_fetch")
          [] upstream = "rejected"   -> Fails("rejected")
          [] upstream = "unreadable" -> Fails("upstream_response")
          [] OTHER -> IF r.kind # "ok" \/ ~Measured(r.raw, r.usage) \/ r.finish \notin Finishes
                           \/ Len(r.text) + Len(r.calls) > MaxAnswerSize
                      THEN Fails("upstream_response") ELSE r

\* publicUsage, and the four events of a stream
PublicUsage(r)  == [input |-> r.usage.input, output |-> r.raw.candidates, total |-> r.raw.total]
WrittenEvents(r) ==
    LET chunk == [data |-> "json", usage |-> NoUsage]
    IN  <<chunk, chunk, [chunk EXCEPT !.usage = PublicUsage(r)], [chunk EXCEPT !.data = "none"]>>

\* What the SDK makes of a response: its parts, and then, when it was not cut off or an error,
\* the metadata and the end.
SdkEvents(parts, end, raw, finish) ==
    parts \o CASE end = "error" -> <<[type |-> "error"]>>
               [] end = "cut"   -> <<>>
               [] OTHER -> <<[type |-> "step", raw |-> raw],
                             [type |-> "finish", usage |-> SdkUsage(raw), finish |-> finish]>>

-----------------------------------------------------------------------------
\* An answer that is passed on is all of the model's answer, in its order; its usage, written
\* as a stream or not, is read back as the provider measured it, so that it is recorded; and
\* Pi can go on from it: the conversation with its calls and their results is taken.
AnswerAgrees(upstream, parts, end, raw, finish, tools) ==
    LET events == SdkEvents(parts, end, raw, finish)
        answer == ModelResponse(upstream, events, tools)
        calls  == Selected(parts, {p \in ToSet(parts) : p.type = "call"})
        texts  == Selected(parts, {p \in ToSet(parts) : p.type = "text"})
        Turn(role, made, answers) ==
          [role |-> role, content |-> "text", calls |-> made, answers |-> answers]
        next   == <<Turn("user", <<>>, 0), Turn("assistant", answer.calls, 0)>>
                    \o [i \in DOMAIN answer.calls |-> Turn("tool", <<>>, answer.calls[i].id)]
    IN  /\ answer.kind = "ok" <=>
              /\ upstream = "read" /\ end = "done" /\ finish \in Finishes
              /\ \A i \in DOMAIN calls :
                    /\ calls[i].call.id # 0 /\ calls[i].call.record
                    /\ \E j \in DOMAIN tools : tools[j] = calls[i].call.name
              /\ raw.prompt >= 0 /\ raw.candidates >= 0
              /\ raw.total >= raw.prompt + raw.candidates + raw.thoughts
              /\ Len(parts) <= MaxAnswerSize
        /\ answer.kind = "ok" =>
              /\ answer.text = [i \in DOMAIN texts |-> texts[i].text]
              /\ Len(answer.calls) = Len(calls)
              /\ \A i \in DOMAIN calls :
                    /\ answer.calls[i].id = calls[i].call.id
                    /\ answer.calls[i].name = calls[i].call.name
                    /\ calls[i].call.signed <=> calls[i].call.id \in answer.signed
              /\ ReadOpenAiUsage(WrittenEvents(answer), FALSE)
                   = [input |-> raw.prompt, output |-> raw.candidates, total |-> raw.total]
              /\ ToModelGatewayUsage(PublicUsage(answer)) # NoUsage
              /\ ~ToSdkCompletionInput(next).refused

\* The tools of a request are taken when each has a name of its own, and the choice is among
\* them; a model that calls one in turn may be asked to only when there is none.
ToolsAgree(tools, choice, sequential) ==
    TakesTools(tools, choice, sequential) <=>
        /\ \A i, j \in DOMAIN tools : tools[i] # "bad" /\ (tools[i] = tools[j] => i = j)
        /\ \/ choice \in {"auto", "none"}
           \/ choice = "required" /\ tools # <<>>
           \/ \E i \in DOMAIN tools : tools[i] = choice
        /\ sequential => tools = <<>>
=============================================================================
