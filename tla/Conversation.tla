------------------------------ MODULE Conversation ------------------------------
(***************************************************************************)
(* What the ModelGateway makes of the conversation that Pi sends:          *)
(* toSdkCompletionInput of src/server/model-gateway-ai-sdk.ts.  A message  *)
(* is its role and content, the calls of an assistant ([id, name]), and    *)
(* the call that a tool message answers.                                   *)
(***************************************************************************)
EXTENDS Naturals, Sequences, SequencesExt, Selections

Refused == [refused |-> TRUE, instructions |-> <<>>, messages |-> <<>>, calls |-> {}]

ConversationInit == [Refused EXCEPT !.refused = FALSE]

CallNames(c) == {call.id : call \in c.calls}

\* Mutant: a call id that is taken is given its new name.
RenameCall(c, call) ==
    [c EXCEPT !.calls = {old \in @ : old.id # call.id} \cup {call}]

\* One turn of the loop over tool_calls: an id is used once in the conversation.
AddCall(c, call) ==
    IF c.refused \/ call.id \in CallNames(c) THEN Refused
    ELSE [c EXCEPT !.calls = @ \cup {call}]

\* One turn of the loop over messages
AddToConversation(c, m) ==
    IF c.refused \/ m.content = "media" THEN Refused
    ELSE CASE m.role = "system" -> [c EXCEPT !.instructions = Append(@, m.content)]
           [] m.role = "user"   -> [c EXCEPT !.messages = Append(@, m)]
           [] m.role = "assistant" ->
                 LET added == FoldLeft(AddCall, c, m.calls)
                 IN  IF added.refused THEN Refused
                     ELSE [added EXCEPT !.messages = Append(@, m)]
           [] m.role = "tool" ->
                 IF m.answers \notin CallNames(c) THEN Refused
                 ELSE LET call == CHOOSE k \in c.calls : k.id = m.answers
                      IN  [c EXCEPT !.messages = Append(@, [m EXCEPT !.calls = <<call>>])]
           [] OTHER -> Refused

ToSdkCompletionInput(ms) ==
    LET c == FoldLeft(AddToConversation, ConversationInit, ms)
    IN  IF c.messages = <<>> THEN Refused ELSE c

-----------------------------------------------------------------------------
\* A conversation is taken exactly when it is text, each call has an id of its own, and each
\* answer follows the call it is for; the answer then carries the name of just that call.
ConversationAgrees(ms) ==
    LET all     == FlattenSeq([i \in 1 .. Len(ms) |-> ms[i].calls])
        before(i) == {c \in UNION {{ms[j].calls[k] : k \in DOMAIN ms[j].calls} :
                                     j \in 1 .. i - 1} : c.id = ms[i].answers}
        spoken  == {m \in ToSet(ms) : m.role # "system"}
        said    == Selected(ms, spoken)
        good    == /\ said # <<>>
                   /\ \A i \in DOMAIN ms : ms[i].content # "media"
                   /\ \A i, j \in DOMAIN all : i # j => all[i].id # all[j].id
                   /\ \A i \in DOMAIN ms : ms[i].role = "tool" => before(i) # {}
        result  == ToSdkCompletionInput(ms)
    IN  /\ result.refused <=> ~good
        /\ good => /\ Len(result.messages) = Len(said)
                   /\ \A i \in DOMAIN ms :
                        ms[i].role = "tool" =>
                          LET place == Len(Selected(SubSeq(ms, 1, i), spoken))
                          IN  {result.messages[place].calls[1]} = before(i)
=============================================================================
