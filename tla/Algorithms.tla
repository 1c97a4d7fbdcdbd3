------------------------------- MODULE Algorithms -------------------------------
(***************************************************************************)
(* Eleven algorithms without state of their own, each against a reference  *)
(* that says what it computes and not how: the one action takes a sample   *)
(* of the input of one of them.                                            *)
(***************************************************************************)
EXTENDS PiAnswer, RunContext, GitChanges, Conversation, ProjectPaths, ModelAnswer,
        RunCapability, PreviewUrls

CONSTANTS MaxRecords,     \* bound on the records of a sample of Pi's output
          MaxHistory,     \* bound on the Messages of a sample conversation
          MaxStatuses,    \* bound on the entries of a sample of git's output
          MaxTurns,       \* bound on the messages of a sample request
          MaxChunkCount,  \* bound on the chunks of a sample body
          MaxUsageEvents, \* bound on the events of a sample response
          MaxParts,       \* bound on the parts of a sample answer
          MaxLink,        \* bound on the segments of a sample link
          MaxInstant      \* bound on the instants of a sample capability

\* The names of the sample trees are names of entries, and the bounds are numbers.
ASSUME SamplesAssumption ==
    /\ {".git", "a", "b"} \subseteq EntryNames
    /\ \A bound \in {MaxRecords, MaxHistory, MaxStatuses, MaxTurns, MaxPathDepth, MaxChunkCount,
                     MaxUsageEvents, MaxParts, MaxLink, MaxInstant} : bound \in Nat

VARIABLE sample

NoSample       == [of |-> "none"]
AlgorithmsInit == sample = NoSample

SampleRecords ==
    {Record(kind, "") : kind \in {"start", "settled", "invalid", "huge", "other"}}
      \cup {Record("end", "a"), Record("end", "b"), Record("toolUse", "a")}

TakePi ==
    \E n \in 0 .. MaxRecords : \E rs \in [1 .. n -> SampleRecords] :
    \E terminated, completed, terminates \in BOOLEAN :
    LET output == PiOutput(rs, terminated)
    IN  /\ n > 0 \/ terminated
        /\ \E cut \in 0 .. Len(output) :
              sample' = [of |-> "pi", records |-> rs, terminated |-> terminated,
                         chunks |-> <<SubSeq(output, 1, cut),
                                      SubSeq(output, cut + 1, Len(output))>>,
                         completed |-> completed, terminates |-> terminates]

TakeContext ==
    \E n \in 0 .. MaxHistory :
    \E ms \in [1 .. n -> [role : {"user", "assistant"}, size : {0, 3, MaxHistoryBytes + 2}]] :
        sample' = [of |-> "context", messages |-> ms]

TakeStatus ==
    \E n \in 0 .. MaxStatuses : \E ss \in [1 .. n -> GitStatuses] :
    \E cut \in 0 .. Len(StatusOutput(ss)) : \E exit \in {0, 128, 141} :
        sample' = [of |-> "changes", statuses |-> ss, cut |-> cut, exit |-> exit]

SampleCalls == [id : {1, 2}, name : {"n1", "n2"}]
SampleTurns ==
    [role : {"system", "user"}, content : {"text"}, calls : {<<>>}, answers : {0}]
      \cup [role : {"user"}, content : {"media"}, calls : {<<>>}, answers : {0}]
      \cup [role : {"tool"}, content : {"text"}, calls : {<<>>}, answers : {1, 2}]
      \cup [role : {"assistant"}, content : {"text"}, answers : {0},
            calls : {<<>>} \cup {<<c>> : c \in SampleCalls}
                      \cup {<<[id |-> 1, name |-> "n1"], [id |-> i, name |-> "n2"]>> :
                              i \in {1, 2}}]

TakeConversation ==
    \E n \in 0 .. MaxTurns : \E ms \in [1 .. n -> SampleTurns] :
        sample' = [of |-> "conversation", messages |-> ms]

TakePath ==
    \E a, b, aa, ab \in EntryKinds \cup {"absent"}, git \in {"absent", "directory"} :
    \E n \in 0 .. MaxPathDepth + 1 : \E segments \in [1 .. n -> {"a", "b", ".."}] :
        LET all == {[path |-> <<"a">>, kind |-> a], [path |-> <<"b">>, kind |-> b],
                    [path |-> <<".git">>, kind |-> git],
                    [path |-> <<"a", "a">>, kind |-> aa], [path |-> <<"a", "b">>, kind |-> ab]}
        IN  /\ a \in {"absent", "file"} => aa = "absent" /\ ab = "absent"
            /\ sample' = [of |-> "path", segments |-> segments,
                          tree |-> {e \in all : e.kind # "absent"}]

TakeBody ==
    \E n \in 0 .. MaxChunkCount : \E chunks \in [1 .. n -> 1 .. MaxBodyBytes] :
    \E declared \in {-1, MaxBodyBytes, MaxBodyBytes + 1}, end \in {"done", "error"} :
    \E decodes \in BOOLEAN, wrong \in {{}, {"tools"}} :
    \E messages \in {<<>>, <<{}>>, <<{}, {"role"}>>} :
        sample' = [of |-> "body", declared |-> declared, chunks |-> chunks, end |-> end,
                   decodes |-> decodes, wrong |-> wrong, messages |-> messages]

TakeUsage ==
    \E n \in 0 .. MaxUsageEvents : \E cut \in BOOLEAN :
    \E events \in [1 .. n -> [data : {"none", "bad"}, usage : {NoUsage}] \cup
                             [data : {"json"}, usage : [input : {0, 1}, output : {1},
                                                        total : {-1, 1, 2}]]] :
        sample' = [of |-> "usage", events |-> events, cut |-> cut]

TakeCapability ==
    \E issuedAt, expiresAt, instant \in 0 .. MaxInstant, tokens \in {0, 1, MaxOutputTokens + 1} :
    \E status \in {"queued", "starting", "running", "cancelling"}, model \in {"m1", "m2"} :
    \E id \in {"r1", "r2"} :
        sample' = [of |-> "capability", instant |-> instant,
                   run |-> [id |-> id, model |-> model, status |-> status],
                   input |-> [run |-> "r1", model |-> "m1", tokens |-> tokens,
                              issuedAt |-> issuedAt, expiresAt |-> expiresAt]]

SampleParts ==
    {[type |-> "text", text |-> t] : t \in {"a", "b"}}
      \cup [type : {"call"}, call : [id : {0, 1, 2}, name : {"n1"}, record : {TRUE}, signed : {FALSE}]
                \cup {[id |-> 1, name |-> "n2", record |-> TRUE, signed |-> TRUE],
                      [id |-> 1, name |-> "n1", record |-> FALSE, signed |-> FALSE]}]

\* The SDK gives each call an id of its own; what comes after an end that is none is not read.
TakeAnswer ==
    \E n \in 0 .. MaxParts : \E parts \in [1 .. n -> SampleParts] :
    \E upstream \in {"unreached", "rejected", "unreadable", "read"} :
    \E end \in {"done", "error", "cut"}, finish \in {"stop", "other"} :
    \E raw \in [prompt : {-1, 1}, candidates : {-1, 1}, thoughts : {0, 1}, total : 2 .. 3],
       tools \in {<<"n1">>, <<"n1", "n2">>} :
        /\ upstream = "read" \/ n = 0
        /\ end = "done" \/ (finish = "stop" /\ raw.prompt = 1)
        /\ \A i, j \in 1 .. n :
              i # j /\ parts[i].type = "call" /\ parts[j].type = "call"
                => parts[i].call.id # parts[j].call.id
        /\ sample' = [of |-> "answer", upstream |-> upstream, parts |-> parts, end |-> end,
                      raw |-> raw, finish |-> finish, tools |-> tools]

TakeTools ==
    \E n \in 0 .. 2 : \E tools \in [1 .. n -> {"n1", "n2", "bad"}] :
    \E choice \in {"auto", "none", "required", "n1", "unknown"}, sequential \in BOOLEAN :
        sample' = [of |-> "tools", tools |-> tools, choice |-> choice, sequential |-> sequential]

TakeLink ==
    \E n \in 0 .. MaxLink : \E path \in [1 .. n -> {"a", "client", ".", ".."}] :
    \E form \in {"absolute", "host", "rooted", "based", "relative"} :
    \E kind \in {"redirect", "html", "other"}, element \in {"a", "script"} :
        sample' = [of |-> "link", answer |-> [kind |-> kind, element |-> element,
                                              link |-> Link(form, path)]]

AlgorithmsNext ==
    /\ sample = NoSample
    /\ \/ TakePi \/ TakeContext \/ TakeStatus \/ TakeConversation
       \/ TakePath \/ TakeBody \/ TakeUsage \/ TakeCapability
       \/ TakeAnswer \/ TakeTools \/ TakeLink

AlgorithmsSpec == AlgorithmsInit /\ [][AlgorithmsNext]_sample

-----------------------------------------------------------------------------
\* Each as its reference says: the reply of a Run is the text Pi ended with; the history of its
\* prompt the longest end of the conversation that fits; the changes shown the first ones and
\* whole; the calls a model sees answered those it made; a directory shown is one, and not what
\* a symlink leads to; a request is within its limits, and its usage adds up; an answer is whole
\* and can be gone on from; its capability is in force; a link stays within its Preview.
AlgorithmsAgree ==
    /\ sample.of = "pi" => PiAnswerAgrees(sample.records, sample.terminated, sample.chunks,
                                          sample.completed, sample.terminates)
    /\ sample.of = "context" => ContextAgrees(sample.messages)
    /\ sample.of = "changes" => ChangesAgree(sample.statuses, sample.cut, sample.exit)
    /\ sample.of = "conversation" => ConversationAgrees(sample.messages)
    /\ sample.of = "path" => PathsAgree(sample.tree, sample.segments)
    /\ sample.of = "body" => BodyAgrees(sample.declared, sample.chunks, sample.end,
                                        sample.decodes, sample.wrong, sample.messages)
    /\ sample.of = "usage" => UsageAgrees(sample.events, sample.cut)
    /\ sample.of = "answer" => AnswerAgrees(sample.upstream, sample.parts, sample.end, sample.raw,
                                            sample.finish, sample.tools)
    /\ sample.of = "tools" => ToolsAgree(sample.tools, sample.choice, sample.sequential)
    /\ sample.of = "capability" => CapabilityAgrees(sample.input, sample.instant, sample.run)
    /\ sample.of = "link" => UrlsAgree(sample.answer)
=============================================================================
