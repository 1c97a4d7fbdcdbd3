---------------------------- MODULE Algorithms_proofs ----------------------------
(***************************************************************************)
(* The eleven algorithms for every input, and not only for the samples     *)
(* that are small enough to be checked: each is what its reference says.   *)
(* A loop is a fold, or a recursive function; what it has computed after   *)
(* each of its rounds is shown from what it had before it.                 *)
(***************************************************************************)
EXTENDS Algorithms, ListLemmas

-----------------------------------------------------------------------------
(* ModelRequest                                                            *)

BodyStates == [kind : {"ok", "too_large"}, bytes : Nat]
NoBytes    == [kind |-> "ok", bytes |-> 0]

\* Chunk by chunk
LEMMA BodyFold ==
    ASSUME NEW s \in Seq(Nat)
    PROVE  \E G \in [0 .. Len(s) -> BodyStates] :
             /\ G[0] = NoBytes
             /\ \A i \in 1 .. Len(s) : G[i] = ReadBodyChunk(G[i - 1], s[i])
             /\ FoldLeft(ReadBodyChunk, NoBytes, s) = G[Len(s)]
  <1> DEFINE f == [q \in BodyStates \X Nat |-> ReadBodyChunk(q[1], q[2])]
             Step(H) == [t \in SUBSET DOMAIN s |->
                           IF t = {} THEN NoBytes
                           ELSE ReadBodyChunk(H[t \ {Max(t)}], s[Max(t)])]
             F == CHOOSE H : H = Step(H)
  <1>1. FoldLeft(ReadBodyChunk, NoBytes, s) = F[DOMAIN s]
    BY DEF FoldLeft, MapThenFoldSet
  <1>2. \A r \in BodyStates, x \in Nat : ReadBodyChunk(r, x) \in BodyStates
    BY DEF ReadBodyChunk, BodyStates
  <1>3. NoBytes \in BodyStates
    BY DEF NoBytes, BodyStates
  <1>4. \A r \in BodyStates, x \in Nat : f[<<r, x>>] = ReadBodyChunk(r, x)
    OBVIOUS
  <1>5. Foldable(BodyStates, Nat, f, NoBytes, s)
    BY <1>2, <1>3 DEF Foldable
  <1> HIDE DEF f
  <1>6. Len(s) \in Nat /\ DOMAIN s = 1 .. Len(s) /\ \A i \in 1 .. Len(s) : s[i] \in Nat
    BY LenProperties, ElementOfSeq
  <1>7. \A t \in SUBSET DOMAIN s :
           t # {} => s[Max(t)] \in Nat /\ t \ {Max(t)} \in SUBSET DOMAIN s
    BY <1>6, MaxIsIn
  <1>8. HasFold(BodyStates, f, NoBytes, s)
    BY <1>5, FoldExists
  <1>9. PICK K \in [SUBSET DOMAIN s -> BodyStates] : K = Folds(K, f, NoBytes, s)
    BY <1>8 DEF HasFold
  <1>10. Step(K) = Folds(K, f, NoBytes, s)
    BY <1>4, <1>7 DEF Folds
  <1>11. F = Step(F)
    BY <1>9, <1>10
  <1> HIDE DEF F
  <1>12. F[{}] = NoBytes
    BY <1>11
  <1>13. IsFold(F, BodyStates, f, NoBytes, s)
    <2>1. ASSUME NEW t \in SUBSET DOMAIN s, t # {}, F[t \ {Max(t)}] \in BodyStates
          PROVE  F[t] = f[<<F[t \ {Max(t)}], s[Max(t)]>>]
      <3>1. F[t] = ReadBodyChunk(F[t \ {Max(t)}], s[Max(t)])
        BY <1>11, <2>1
      <3>2. s[Max(t)] \in Nat
        BY <1>7, <2>1
      <3> HIDE DEF Step
      <3> QED
        BY <1>4, <2>1, <3>1, <3>2
    <2> HIDE DEF Step
    <2> QED
      BY <1>12, <2>1 DEF IsFold
  <1>14. GivesAlong(F, BodyStates, f, NoBytes, s)
    BY <1>5, <1>13, FoldGives
  <1>15. PICK G \in [0 .. Len(s) -> BodyStates] : Along(G, f, NoBytes, s) /\ F[DOMAIN s] = G[Len(s)]
    BY <1>14 DEF GivesAlong
  <1>16. \A i \in 1 .. Len(s) : G[i - 1] \in BodyStates
    <2>1. \A i \in 1 .. Len(s) : i - 1 \in 0 .. Len(s)
      BY <1>6
    <2> QED
      BY <2>1
  <1>17. \A i \in 1 .. Len(s) : G[i] = ReadBodyChunk(G[i - 1], s[i])
    BY <1>4, <1>6, <1>15, <1>16 DEF Along
  <1> QED
    BY <1>1, <1>15, <1>17 DEF Along

\* The sum, chunk by chunk
LEMMA SumFold ==
    ASSUME NEW s \in Seq(Nat)
    PROVE  \E G \in [0 .. Len(s) -> Nat] :
             /\ G[0] = 0
             /\ \A i \in 1 .. Len(s) : G[i] = G[i - 1] + s[i]
             /\ SumOf(s) = G[Len(s)]
  <1> DEFINE f == [q \in Nat \X Nat |-> q[1] + q[2]]
             Step(H) == [t \in SUBSET DOMAIN s |->
                           IF t = {} THEN 0
                           ELSE H[t \ {Max(t)}] + s[Max(t)]]
             F == CHOOSE H : H = Step(H)
  <1>1. SumOf(s) = F[DOMAIN s]
    BY DEF SumOf, FoldLeft, MapThenFoldSet
  <1>2. \A r \in Nat, x \in Nat : r + x \in Nat
    OBVIOUS
  <1>3. 0 \in Nat
    OBVIOUS
  <1>4. \A r \in Nat, x \in Nat : f[<<r, x>>] = r + x
    OBVIOUS
  <1>5. Foldable(Nat, Nat, f, 0, s)
    BY <1>2, <1>3 DEF Foldable
  <1> HIDE DEF f
  <1>6. Len(s) \in Nat /\ DOMAIN s = 1 .. Len(s) /\ \A i \in 1 .. Len(s) : s[i] \in Nat
    BY LenProperties, ElementOfSeq
  <1>7. \A t \in SUBSET DOMAIN s :
           t # {} => s[Max(t)] \in Nat /\ t \ {Max(t)} \in SUBSET DOMAIN s
    BY <1>6, MaxIsIn
  <1>8. HasFold(Nat, f, 0, s)
    BY <1>5, FoldExists
  <1>9. PICK K \in [SUBSET DOMAIN s -> Nat] : K = Folds(K, f, 0, s)
    BY <1>8 DEF HasFold
  <1>10. Step(K) = Folds(K, f, 0, s)
    BY <1>4, <1>7 DEF Folds
  <1>11. F = Step(F)
    BY <1>9, <1>10
  <1> HIDE DEF F
  <1>12. F[{}] = 0
    BY <1>11
  <1>13. IsFold(F, Nat, f, 0, s)
    <2>1. ASSUME NEW t \in SUBSET DOMAIN s, t # {}, F[t \ {Max(t)}] \in Nat
          PROVE  F[t] = f[<<F[t \ {Max(t)}], s[Max(t)]>>]
      <3>1. F[t] = F[t \ {Max(t)}] + s[Max(t)]
        BY <1>11, <2>1
      <3>2. s[Max(t)] \in Nat
        BY <1>7, <2>1
      <3> HIDE DEF Step
      <3> QED
        BY <1>4, <2>1, <3>1, <3>2
    <2> HIDE DEF Step
    <2> QED
      BY <1>12, <2>1 DEF IsFold
  <1>14. GivesAlong(F, Nat, f, 0, s)
    BY <1>5, <1>13, FoldGives
  <1>15. PICK G \in [0 .. Len(s) -> Nat] : Along(G, f, 0, s) /\ F[DOMAIN s] = G[Len(s)]
    BY <1>14 DEF GivesAlong
  <1>16. \A i \in 1 .. Len(s) : G[i - 1] \in Nat
    <2>1. \A i \in 1 .. Len(s) : i - 1 \in 0 .. Len(s)
      BY <1>6
    <2> QED
      BY <2>1
  <1>17. \A i \in 1 .. Len(s) : G[i] = G[i - 1] + s[i]
    BY <1>4, <1>6, <1>15, <1>16 DEF Along
  <1> QED
    BY <1>1, <1>15, <1>17 DEF Along

\* However a body is split into chunks, of any number and size, it is read whole exactly when it
\* has no more than the limit (readBoundedText), and a request is taken exactly when it should
\* be (parseCompletionRequest).
THEOREM BodyCorrect ==
    ASSUME NEW declared \in Int, NEW chunks \in Seq(Nat), NEW end \in {"done", "error"},
           NEW decodes \in BOOLEAN, NEW wrong, NEW messages, NEW M, messages \in Seq(M)
    PROVE  BodyAgrees(declared, chunks, end, decodes, wrong, messages)
  <1> DEFINE n == Len(chunks)
             r == FoldLeft(ReadBodyChunk, NoBytes, chunks)
             body == ReadBoundedText(chunks, end, decodes)
             answer == ParseCompletionRequest(declared, chunks, end, decodes, wrong, messages)
  <1>1. PICK G \in [0 .. n -> BodyStates] :
           /\ G[0] = NoBytes
           /\ \A i \in 1 .. n : G[i] = ReadBodyChunk(G[i - 1], chunks[i])
           /\ r = G[n]
    BY BodyFold
  <1>2. PICK S \in [0 .. n -> Nat] :
           S[0] = 0 /\ (\A i \in 1 .. n : S[i] = S[i - 1] + chunks[i]) /\ SumOf(chunks) = S[n]
    BY SumFold
  <1>3. n \in Nat /\ (\A i \in 1 .. n : chunks[i] \in Nat) /\ MaxBodyBytes \in Nat
    BY LenProperties, ElementOfSeq, BodyAssumption
  <1>4. body = IF r.kind = "ok" /\ (end = "error" \/ ~decodes)
               THEN [r EXCEPT !.kind = "invalid"] ELSE r
    BY DEF ReadBoundedText, NoBytes
  <1> HIDE DEF n, r, body
  <1> DEFINE T == {i \in 0 .. n : IF G[i].kind = "ok"
                                  THEN G[i].bytes = S[i] /\ S[i] <= MaxBodyBytes
                                  ELSE S[i] > MaxBodyBytes}
  <1>5. 0 \in T
    BY <1>1, <1>2, <1>3 DEF NoBytes
  <1>6. ASSUME NEW i \in 1 .. n, i - 1 \in T PROVE i \in T
    <2>1. i - 1 \in 0 .. n /\ i \in 0 .. n
      BY <1>3
    <2>2. G[i - 1] \in BodyStates /\ S[i - 1] \in Nat /\ S[i] = S[i - 1] + chunks[i]
      BY <1>2, <2>1
    <2>3. G[i] = ReadBodyChunk(G[i - 1], chunks[i])
      BY <1>1
    <2> QED
      BY <1>3, <1>6, <2>1, <2>2, <2>3 DEF ReadBodyChunk, BodyStates
  <1> HIDE DEF T
  <1>7. n \in T
    <2>1. \A i \in 0 .. n : i \in T
      BY <1>3, <1>5, <1>6, Reaches
    <2> QED
      BY <1>3, <2>1
  <1>8. r \in BodyStates /\ SumOf(chunks) \in Nat
    BY <1>1, <1>2, <1>3
  <1>9. IF r.kind = "ok" THEN r.bytes = SumOf(chunks) /\ SumOf(chunks) <= MaxBodyBytes
                         ELSE r.kind = "too_large" /\ SumOf(chunks) > MaxBodyBytes
    BY <1>1, <1>2, <1>7, <1>8 DEF T, BodyStates
  <1>10. /\ body.kind = "ok" <=> end = "done" /\ decodes /\ SumOf(chunks) <= MaxBodyBytes
         /\ body.kind = "ok" => body.bytes = SumOf(chunks)
         /\ body.kind = "too_large" <=> SumOf(chunks) > MaxBodyBytes
    BY <1>3, <1>4, <1>8, <1>9 DEF BodyStates
  <1>11. body.kind \in {"ok", "too_large", "invalid"}
    BY <1>4, <1>8 DEF BodyStates
  <1>12. answer = "ok" <=> /\ declared <= MaxBodyBytes /\ body.kind = "ok" /\ wrong = {}
                          /\ messages # <<>> /\ ToSet(messages) = {{}}
    <2>1. /\ DOMAIN messages = 1 .. Len(messages) /\ Len(messages) \in Nat
          /\ messages # <<>> => Len(messages) > 0
      BY LenProperties, EmptySeq
    <2>2. ToSet(messages) = {messages[i] : i \in DOMAIN messages}
      BY DEF ToSet
    <2>3. messages # <<>> => 1 \in DOMAIN messages
      BY <2>1
    <2>4. messages # <<>> =>
            (ToSet(messages) = {{}} <=> \A i \in DOMAIN messages : messages[i] = {})
      BY <2>2, <2>3
    <2>5. answer = CASE declared > MaxBodyBytes -> "too_large"
                    [] body.kind # "ok"        -> body.kind
                    [] wrong # {} \/ messages = <<>> \/
                          (\E i \in DOMAIN messages : messages[i] # {})           -> "invalid"
                    [] OTHER -> "ok"
      BY DEF ParseCompletionRequest, body
    <2> HIDE DEF answer
    <2> QED
      BY <1>3, <1>11, <2>4, <2>5
  <1> QED
    BY <1>10, <1>12 DEF BodyAgrees, body

Counters    == [input : Int, output : Int, total : Int]
UsageEvents == [data : {"none", "bad", "json"}, usage : Counters]
UsageStates == [usage : Counters, malformed : BOOLEAN]
UsageUnread == [usage |-> NoUsage, malformed |-> FALSE]

\* The least of three numbers is what the code means by each of them being no less than 0.
LEMMA MinOfThree ==
    ASSUME NEW a \in Int, NEW b \in Int, NEW c \in Int
    PROVE  Min({a, b, c}) < 0 <=> a < 0 \/ b < 0 \/ c < 0
  <1> DEFINE S == {a, b, c}
             m == CHOOSE x \in S : \A y \in S : x =< y
  <1>1. \E x \in S : \A y \in S : x =< y
    OBVIOUS
  <1>2. m \in S /\ \A y \in S : m =< y
    BY <1>1
  <1>3. Min(S) = m
    BY DEF Min
  <1> HIDE DEF m
  <1> QED
    BY <1>2, <1>3

\* Counters are taken over when they are numbers and add up, and then as they are.
LEMMA UsageOfEvent ==
    ASSUME NEW u \in Counters
    PROVE  /\ ToModelGatewayUsage(u) \in Counters
           /\ ToModelGatewayUsage(u) # NoUsage => /\ ToModelGatewayUsage(u) = u
                                                  /\ u.total >= u.input + u.output
  <1>1. Min({u.input, u.output, u.total}) < 0 <=> u.input < 0 \/ u.output < 0 \/ u.total < 0
    BY MinOfThree DEF Counters
  <1> QED
    BY <1>1 DEF ToModelGatewayUsage, Counters, NoUsage

\* Event by event
LEMMA UsageFold ==
    ASSUME NEW s \in Seq(UsageEvents)
    PROVE  \E G \in [0 .. Len(s) -> UsageStates] :
             /\ G[0] = UsageUnread
             /\ \A i \in 1 .. Len(s) : G[i] = ReadEvent(G[i - 1], s[i])
             /\ FoldLeft(ReadEvent, UsageUnread, s) = G[Len(s)]
  <1> DEFINE f == [q \in UsageStates \X UsageEvents |-> ReadEvent(q[1], q[2])]
             Step(H) == [t \in SUBSET DOMAIN s |->
                           IF t = {} THEN UsageUnread
                           ELSE ReadEvent(H[t \ {Max(t)}], s[Max(t)])]
             F == CHOOSE H : H = Step(H)
  <1>1. FoldLeft(ReadEvent, UsageUnread, s) = F[DOMAIN s]
    BY DEF FoldLeft, MapThenFoldSet
  <1>2. \A r \in UsageStates, x \in UsageEvents : ReadEvent(r, x) \in UsageStates
    BY UsageOfEvent DEF ReadEvent, UsageStates, UsageEvents
  <1>3. UsageUnread \in UsageStates
    BY DEF UsageUnread, UsageStates, Counters, NoUsage
  <1>4. \A r \in UsageStates, x \in UsageEvents : f[<<r, x>>] = ReadEvent(r, x)
    OBVIOUS
  <1>5. Foldable(UsageStates, UsageEvents, f, UsageUnread, s)
    BY <1>2, <1>3 DEF Foldable
  <1> HIDE DEF f
  <1>6. Len(s) \in Nat /\ DOMAIN s = 1 .. Len(s) /\ \A i \in 1 .. Len(s) : s[i] \in UsageEvents
    BY LenProperties, ElementOfSeq
  <1>7. \A t \in SUBSET DOMAIN s :
           t # {} => s[Max(t)] \in UsageEvents /\ t \ {Max(t)} \in SUBSET DOMAIN s
    BY <1>6, MaxIsIn
  <1>8. HasFold(UsageStates, f, UsageUnread, s)
    BY <1>5, FoldExists
  <1>9. PICK K \in [SUBSET DOMAIN s -> UsageStates] : K = Folds(K, f, UsageUnread, s)
    BY <1>8 DEF HasFold
  <1>10. Step(K) = Folds(K, f, UsageUnread, s)
    BY <1>4, <1>7 DEF Folds
  <1>11. F = Step(F)
    BY <1>9, <1>10
  <1> HIDE DEF F
  <1>12. F[{}] = UsageUnread
    BY <1>11
  <1>13. IsFold(F, UsageStates, f, UsageUnread, s)
    <2>1. ASSUME NEW t \in SUBSET DOMAIN s, t # {}, F[t \ {Max(t)}] \in UsageStates
          PROVE  F[t] = f[<<F[t \ {Max(t)}], s[Max(t)]>>]
      <3>1. F[t] = ReadEvent(F[t \ {Max(t)}], s[Max(t)])
        BY <1>11, <2>1
      <3>2. s[Max(t)] \in UsageEvents
        BY <1>7, <2>1
      <3> HIDE DEF Step
      <3> QED
        BY <1>4, <2>1, <3>1, <3>2
    <2> HIDE DEF Step
    <2> QED
      BY <1>12, <2>1 DEF IsFold
  <1>14. GivesAlong(F, UsageStates, f, UsageUnread, s)
    BY <1>5, <1>13, FoldGives
  <1>15. PICK G \in [0 .. Len(s) -> UsageStates] :
           Along(G, f, UsageUnread, s) /\ F[DOMAIN s] = G[Len(s)]
    BY <1>14 DEF GivesAlong
  <1>16. \A i \in 1 .. Len(s) : G[i - 1] \in UsageStates
    <2>1. \A i \in 1 .. Len(s) : i - 1 \in 0 .. Len(s)
      BY <1>6
    <2> QED
      BY <2>1
  <1>17. \A i \in 1 .. Len(s) : G[i] = ReadEvent(G[i - 1], s[i])
    BY <1>4, <1>6, <1>15, <1>16 DEF Along
  <1> QED
    BY <1>1, <1>15, <1>17 DEF Along

\* Of a response of any length, cut off or not: its usage is the last one that adds up, and
\* there is none when any part of it cannot be read (readOpenAiUsage).
THEOREM ResponseUsageCorrect ==
    ASSUME NEW events \in Seq(UsageEvents), NEW cut \in BOOLEAN
    PROVE  UsageAgrees(events, cut)
  <1> DEFINE n     == Len(events) - (IF cut /\ events # <<>> THEN 1 ELSE 0)
             Good(i) == {j \in 1 .. i : events[j].data = "json"
                                       /\ ToModelGatewayUsage(events[j].usage) # NoUsage}
             usage == ReadOpenAiUsage(events, cut)
             whole == SubSeq(events, 1, n)
             r     == FoldLeft(ReadEvent, UsageUnread, whole)
  <1>1. /\ n \in 0 .. Len(events) /\ Len(events) \in Nat
        /\ \A i \in 1 .. Len(events) : events[i] \in UsageEvents
    BY LenProperties, EmptySeq, ElementOfSeq
  <1>2. usage = IF r.malformed THEN NoUsage ELSE r.usage
    BY DEF ReadOpenAiUsage, UsageUnread
  <1>3. UsageAgrees(events, cut) =
          /\ usage # NoUsage <=> Good(n) # {} /\ \A i \in 1 .. n : events[i].data # "bad"
          /\ usage # NoUsage => /\ usage = events[Max(Good(n))].usage
                                /\ usage.total >= usage.input + usage.output
    BY DEF UsageAgrees
  <1> HIDE DEF n, usage, r
  <1>4. /\ whole \in Seq(UsageEvents) /\ Len(whole) = n
        /\ \A i \in 1 .. n : whole[i] = events[i]
    <2>1. \A i \in 1 .. n : events[i] \in UsageEvents
      BY <1>1
    <2>2. n \in Int /\ 1 \in Int /\ n >= 0
      BY <1>1
    <2>3. /\ whole \in Seq(UsageEvents)
          /\ Len(whole) = IF 1 <= n THEN n - 1 + 1 ELSE 0
          /\ \A i \in 1 .. n - 1 + 1 : whole[i] = events[1 + i - 1]
      BY <2>1, <2>2, SubSeqProperties
    <2>4. \A i \in 1 .. n : i \in 1 .. n - 1 + 1 /\ 1 + i - 1 = i
      BY <2>2
    <2> QED
      BY <2>2, <2>3, <2>4
  <1> HIDE DEF whole
  <1>5. PICK G \in [0 .. n -> UsageStates] :
           /\ G[0] = UsageUnread
           /\ \A i \in 1 .. n : G[i] = ReadEvent(G[i - 1], whole[i])
           /\ r = G[n]
    BY <1>4, UsageFold DEF r
  <1> DEFINE FromNewest(i) == \E j \in Good(i) : /\ \A k \in Good(i) : k <= j
                                           /\ G[i].usage = events[j].usage
             T == {i \in 0 .. n :
                     /\ G[i].malformed <=> \E j \in 1 .. i : events[j].data = "bad"
                     /\ IF Good(i) = {} THEN G[i].usage = NoUsage ELSE FromNewest(i)}
  <1>6. 0 \in T
    BY <1>1, <1>5 DEF UsageUnread
  <1>7. ASSUME NEW i \in 1 .. n, i - 1 \in T PROVE i \in T
    <2>1. i \in 0 .. n /\ i - 1 \in 0 .. n /\ i \in 1 .. Len(events) /\ i \in Nat
      BY <1>1
    <2> DEFINE e == events[i]
    <2>2. G[i] = ReadEvent(G[i - 1], e) /\ e \in UsageEvents /\ G[i - 1] \in UsageStates
      BY <1>1, <1>4, <1>5, <2>1
    <2>3. \A j : j \in 1 .. i <=> j = i \/ j \in 1 .. i - 1
      BY <2>1
    <2> HIDE DEF e
    <2>4. G[i].malformed <=> G[i - 1].malformed \/ e.data = "bad"
      BY <2>2 DEF ReadEvent, UsageEvents, UsageStates
    <2>5. G[i].malformed <=> \E j \in 1 .. i : events[j].data = "bad"
      BY <1>7, <2>3, <2>4 DEF e
    <2>6. CASE i \in Good(i)
      <3>1. e.data = "json" /\ ToModelGatewayUsage(e.usage) # NoUsage
        BY <2>6 DEF e
      <3>2. ToModelGatewayUsage(e.usage) = e.usage
        BY <2>2, <3>1, UsageOfEvent DEF UsageEvents
      <3>3. G[i].usage = e.usage
        BY <2>2, <3>1, <3>2 DEF ReadEvent, UsageStates
      <3>4. \A k \in Good(i) : k <= i
        BY <2>1
      <3>5. FromNewest(i)
        BY <2>6, <3>3, <3>4 DEF e
      <3> QED
        BY <2>1, <2>5, <2>6, <3>5
    <2>7. CASE i \notin Good(i)
      <3>1. ~(e.data = "json" /\ ToModelGatewayUsage(e.usage) # NoUsage)
        BY <2>1, <2>7 DEF e
      <3>2. G[i].usage = G[i - 1].usage
        BY <2>2, <3>1 DEF ReadEvent, UsageStates, UsageEvents
      <3>3. Good(i) = Good(i - 1)
        BY <2>3, <2>7
      <3> HIDE DEF Good
      <3>4. IF Good(i) = {} THEN G[i].usage = NoUsage ELSE FromNewest(i)
        BY <1>7, <3>2, <3>3
      <3> QED
        BY <2>1, <2>5, <3>4
    <2> QED
      BY <2>6, <2>7
  <1> HIDE DEF T
  <1>8. n \in T
    <2>1. n \in Nat
      BY <1>1
    <2>2. \A i \in 0 .. n : i \in T
      BY <1>6, <1>7, <2>1, Reaches
    <2> QED
      BY <2>1, <2>2
  <1>9. r.malformed <=> \E j \in 1 .. n : events[j].data = "bad"
    BY <1>5, <1>8 DEF T
  <1>10. CASE Good(n) = {}
    BY <1>2, <1>3, <1>5, <1>8, <1>10 DEF T
  <1>11. CASE Good(n) # {}
    <2>1. PICK j \in Good(n) : (\A k \in Good(n) : k <= j) /\ r.usage = events[j].usage
      BY <1>5, <1>8, <1>11 DEF T
    <2>2. Good(n) \subseteq Int
      OBVIOUS
    <2>3. events[j] \in UsageEvents /\ ToModelGatewayUsage(events[j].usage) # NoUsage
      BY <1>1
    <2> HIDE DEF Good
    <2>4. Max(Good(n)) = j
      BY <2>1, <2>2, MaxIs
    <2>5. events[j].usage \in Counters
      BY <2>3 DEF UsageEvents
    <2>6. /\ ToModelGatewayUsage(events[j].usage) = events[j].usage
          /\ events[j].usage.total >= events[j].usage.input + events[j].usage.output
      BY <2>3, <2>5, UsageOfEvent
    <2>7. r.usage # NoUsage
      BY <2>1, <2>3, <2>6
    <2> QED
      BY <1>2, <1>3, <1>9, <1>11, <2>1, <2>4, <2>6, <2>7
  <1> QED
    BY <1>10, <1>11

-----------------------------------------------------------------------------
(* RunCapability                                                           *)

CapabilityInputs(N) ==
    [run : N, model : N, tokens : Int, issuedAt : Nat, expiresAt : Nat]

\* An instant is in the second that it is rounded down to.
LEMMA EpochOf ==
    ASSUME NEW x \in Nat
    PROVE  Epoch(x) \in Nat /\ 2 * Epoch(x) <= x /\ x <= 2 * Epoch(x) + 1
  BY DEF Epoch

\* What is issued is a token, and no token is what is not.
LEMMA Issued ==
    ASSUME NEW N, NEW input \in CapabilityInputs(N)
    PROVE  LET token == IssueCapability(input)
               iat   == Epoch(input.issuedAt)
               exp   == Epoch(input.expiresAt)
           IN  token # NoToken =>
                 /\ input.tokens \in 1 .. MaxOutputTokens
                 /\ exp > iat /\ exp - iat <= MaxCapabilityLifetime
                 /\ token = [run |-> input.run, model |-> input.model, tokens |-> input.tokens,
                             iat |-> iat, exp |-> exp]
  BY DEF IssueCapability

\* For any input that the code issues a token for, any instants of a clock that is behind or
\* ahead, and any Run: a capability is in force exactly when it should be (run-capability.ts).
THEOREM CapabilityCorrect ==
    ASSUME NEW N, NEW input \in CapabilityInputs(N), NEW instant \in Nat, NEW run
    PROVE  CapabilityAgrees(input, instant, run)
  <1> DEFINE token == IssueCapability(input)
             now == Epoch(instant)
             iat == Epoch(input.issuedAt)
             exp == Epoch(input.expiresAt)
  <1>1. /\ now \in Nat /\ 2 * now <= instant /\ instant <= 2 * now + 1
        /\ iat \in Nat /\ 2 * iat <= input.issuedAt /\ input.issuedAt <= 2 * iat + 1
        /\ exp \in Nat /\ 2 * exp <= input.expiresAt /\ input.expiresAt <= 2 * exp + 1
        /\ input.issuedAt \in Nat /\ input.expiresAt \in Nat
    BY EpochOf DEF CapabilityInputs
  <1>2. token # NoToken =>
          /\ input.tokens \in 1 .. MaxOutputTokens
          /\ exp > iat /\ exp - iat <= MaxCapabilityLifetime
          /\ token = [run |-> input.run, model |-> input.model, tokens |-> input.tokens,
                      iat |-> iat, exp |-> exp]
    BY Issued
  <1>3. AuthorizeCapability(token, instant, run) =
          /\ token # NoToken
          /\ token.exp > now /\ token.iat <= now + CapabilitySkew
          /\ token.exp > token.iat /\ token.exp - token.iat <= MaxCapabilityLifetime
          /\ token.tokens \in 1 .. MaxOutputTokens
          /\ run.id = token.run /\ run.status \in {"starting", "running"}
          /\ run.model = token.model
    BY DEF AuthorizeCapability, VerifyCapability
  <1> HIDE DEF token, now, iat, exp
  <1>4. token # NoToken =>
          (AuthorizeCapability(token, instant, run) <=>
             /\ exp > now /\ iat <= now + CapabilitySkew
             /\ run.id = input.run /\ run.status \in {"starting", "running"}
             /\ run.model = input.model)
    BY <1>2, <1>3
  <1>5. now \in iat - CapabilitySkew .. exp - 1 <=> exp > now /\ iat <= now + CapabilitySkew
    BY <1>1, CapabilityAssumption
  <1>6. AuthorizeCapability(token, instant, run) => token # NoToken
    BY <1>3
  <1>7. AuthorizeCapability(token, instant, run) =>
          instant < input.expiresAt /\ instant < input.issuedAt + 2 * MaxCapabilityLifetime
    BY <1>1, <1>2, <1>4, <1>6, CapabilityAssumption
  <1> QED
    BY <1>4, <1>5, <1>6, <1>7 DEF CapabilityAgrees, token, now, iat, exp

-----------------------------------------------------------------------------
(* The tools of a request                                                  *)

\* For any tools of a request, and any choice among them: they are taken exactly when each has
\* a name of its own and the choice is one that can be made (toSdkCompletionInput).
THEOREM ToolsCorrect ==
    ASSUME NEW N, NEW tools \in Seq(N), NEW choice, NEW sequential \in BOOLEAN
    PROVE  ToolsAgree(tools, choice, sequential)
  <1> DEFINE names == ToSet(tools)
  <1>1. names = {tools[i] : i \in DOMAIN tools}
    BY DEF ToSet
  <1>2. names = {} <=> tools = <<>>
    <2>1. DOMAIN tools = 1 .. Len(tools) /\ Len(tools) \in Nat
      BY LenProperties
    <2>2. tools # <<>> => 1 \in DOMAIN tools
      BY <2>1, EmptySeq
    <2>3. tools = <<>> => DOMAIN tools = {}
      BY <2>1, EmptySeq
    <2> QED
      BY <1>1, <2>2, <2>3
  <1>3. /\ "bad" \notin names <=> \A i \in DOMAIN tools : tools[i] # "bad"
        /\ choice \in names <=> \E i \in DOMAIN tools : tools[i] = choice
    BY <1>1
  <1>4. IsInjective(tools) <=> \A i, j \in DOMAIN tools : tools[i] = tools[j] => i = j
    BY DEF IsInjective
  <1>5. (\A i, j \in DOMAIN tools : tools[i] # "bad" /\ (tools[i] = tools[j] => i = j)) <=>
          "bad" \notin names /\ IsInjective(tools)
    BY <1>3, <1>4
  <1> HIDE DEF names
  <1>6. TakesTools(tools, choice, sequential) =
          /\ "bad" \notin names /\ IsInjective(tools)
          /\ choice \in {"auto", "none", "required"} \cup names
          /\ choice = "required" => names # {}
          /\ sequential => names = {}
    BY DEF TakesTools, names
  <1> QED
    BY <1>2, <1>3, <1>5, <1>6 DEF ToolsAgree

-----------------------------------------------------------------------------
(* RunContext                                                              *)

Messages  == [role : {"user", "assistant"}, size : Nat]
Histories == [history : Seq(Messages), bytes : Nat, truncated : BOOLEAN]
NoHistory == [history |-> <<>>, bytes |-> 2, truncated |-> FALSE]

\* The last n Messages
Suffix(ms, n) == SubSeq(ms, Len(ms) - n + 1, Len(ms))

LEMMA SuffixIs ==
    ASSUME NEW S, NEW ms \in Seq(S), NEW n \in 0 .. Len(ms)
    PROVE  /\ Suffix(ms, n) \in Seq(S) /\ Len(Suffix(ms, n)) = n
           /\ \A i \in 1 .. n : Suffix(ms, n)[i] = ms[Len(ms) - n + i]
  <1> DEFINE a == Len(ms) - n + 1
             L == Len(ms)
  <1>1. L \in Nat
    BY LenProperties
  <1>2. a \in 1 .. L + 1 /\ L \in a - 1 .. L /\ L - a + 1 = n
    BY <1>1
  <1>3. /\ SubSeq(ms, a, L) \in Seq(S) /\ Len(SubSeq(ms, a, L)) = L - a + 1
        /\ \A i \in 1 .. L - a + 1 : SubSeq(ms, a, L)[i] = ms[a + i - 1]
    BY <1>2, PartIs
  <1>4. \A i \in 1 .. n : a + i - 1 = L - n + i
    BY <1>1
  <1> QED
    BY <1>2, <1>3, <1>4 DEF Suffix

\* It grows at its beginning.
LEMMA SuffixGrows ==
    ASSUME NEW S, NEW ms \in Seq(S), NEW n \in 1 .. Len(ms)
    PROVE  <<ms[Len(ms) - n + 1]>> \o Suffix(ms, n - 1) = Suffix(ms, n)
  <1> DEFINE m == Len(ms) - n + 1
             r == <<ms[m]>> \o Suffix(ms, n - 1)
  <1>1. Len(ms) \in Nat /\ m \in 1 .. Len(ms) /\ n - 1 \in 0 .. Len(ms) /\ n \in 0 .. Len(ms)
    BY LenProperties
  <1>2. ms[m] \in S
    BY <1>1, ElementOfSeq
  <1>3. <<ms[m]>> \in Seq(S) /\ Len(<<ms[m]>>) = 1 /\ <<ms[m]>>[1] = ms[m]
    BY <1>2
  <1>4. /\ Suffix(ms, n - 1) \in Seq(S) /\ Len(Suffix(ms, n - 1)) = n - 1
        /\ \A i \in 1 .. n - 1 : Suffix(ms, n - 1)[i] = ms[Len(ms) - (n - 1) + i]
    BY <1>1, SuffixIs
  <1>5. /\ Suffix(ms, n) \in Seq(S) /\ Len(Suffix(ms, n)) = n
        /\ \A i \in 1 .. n : Suffix(ms, n)[i] = ms[Len(ms) - n + i]
    BY <1>1, SuffixIs
  <1>6. /\ r \in Seq(S) /\ Len(r) = 1 + (n - 1)
        /\ \A i \in 1 .. 1 + (n - 1) : r[i] = IF i <= 1 THEN <<ms[m]>>[i]
                                              ELSE Suffix(ms, n - 1)[i - 1]
    BY <1>3, <1>4, ConcatProperties
  <1> HIDE DEF r
  <1>7. ASSUME NEW i \in 1 .. n PROVE r[i] = Suffix(ms, n)[i]
    <2>1. CASE i = 1
      BY <1>1, <1>3, <1>5, <1>6, <2>1
    <2>2. CASE i # 1
      <3>1. i - 1 \in 1 .. n - 1 /\ Len(ms) - (n - 1) + (i - 1) = Len(ms) - n + i /\ ~(i <= 1)
        BY <1>1, <2>2
      <3>2. i \in 1 .. 1 + (n - 1)
        BY <1>1
      <3> QED
        BY <1>4, <1>5, <1>6, <3>1, <3>2
    <2> QED
      BY <2>1, <2>2
  <1>8. Len(r) = Len(Suffix(ms, n)) /\ Len(r) = n
    BY <1>1, <1>5, <1>6
  <1>9. r = Suffix(ms, n)
    BY <1>5, <1>6, <1>7, <1>8, SeqEqual
  <1> QED
    BY <1>9 DEF r

\* The bytes of a history, Message by Message
LEMMA MessageBytesFold ==
    ASSUME NEW s \in Seq(Messages)
    PROVE  \E G \in [0 .. Len(s) -> Nat] :
             /\ G[0] = 0
             /\ \A i \in 1 .. Len(s) : G[i] = G[i - 1] + s[i].size + Framing + 1
             /\ MessageBytes(s) = G[Len(s)]
  <1> DEFINE f == [q \in Nat \X Messages |-> q[1] + q[2].size + Framing + 1]
             Step(H) == [t \in SUBSET DOMAIN s |->
                           IF t = {} THEN 0
                           ELSE H[t \ {Max(t)}] + s[Max(t)].size + Framing + 1]
             F == CHOOSE H : H = Step(H)
  <1>1. MessageBytes(s) = F[DOMAIN s]
    BY DEF MessageBytes, FoldLeft, MapThenFoldSet
  <1>2. \A r \in Nat, x \in Messages : r + x.size + Framing + 1 \in Nat
    BY DEF Messages, Framing
  <1>3. 0 \in Nat
    OBVIOUS
  <1>4. \A r \in Nat, x \in Messages : f[<<r, x>>] = r + x.size + Framing + 1
    OBVIOUS
  <1>5. Foldable(Nat, Messages, f, 0, s)
    BY <1>2, <1>3 DEF Foldable
  <1> HIDE DEF f
  <1>6. Len(s) \in Nat /\ DOMAIN s = 1 .. Len(s) /\ \A i \in 1 .. Len(s) : s[i] \in Messages
    BY LenProperties, ElementOfSeq
  <1>7. \A t \in SUBSET DOMAIN s :
           t # {} => s[Max(t)] \in Messages /\ t \ {Max(t)} \in SUBSET DOMAIN s
    BY <1>6, MaxIsIn
  <1>8. HasFold(Nat, f, 0, s)
    BY <1>5, FoldExists
  <1>9. PICK K \in [SUBSET DOMAIN s -> Nat] : K = Folds(K, f, 0, s)
    BY <1>8 DEF HasFold
  <1>10. Step(K) = Folds(K, f, 0, s)
    BY <1>4, <1>7 DEF Folds
  <1>11. F = Step(F)
    BY <1>9, <1>10
  <1> HIDE DEF F
  <1>12. F[{}] = 0
    BY <1>11
  <1>13. IsFold(F, Nat, f, 0, s)
    <2>1. ASSUME NEW t \in SUBSET DOMAIN s, t # {}, F[t \ {Max(t)}] \in Nat
          PROVE  F[t] = f[<<F[t \ {Max(t)}], s[Max(t)]>>]
      <3>1. F[t] = F[t \ {Max(t)}] + s[Max(t)].size + Framing + 1
        BY <1>11, <2>1
      <3>2. s[Max(t)] \in Messages
        BY <1>7, <2>1
      <3> HIDE DEF Step
      <3> QED
        BY <1>4, <2>1, <3>1, <3>2
    <2> HIDE DEF Step
    <2> QED
      BY <1>12, <2>1 DEF IsFold
  <1>14. GivesAlong(F, Nat, f, 0, s)
    BY <1>5, <1>13, FoldGives
  <1>15. PICK G \in [0 .. Len(s) -> Nat] : Along(G, f, 0, s) /\ F[DOMAIN s] = G[Len(s)]
    BY <1>14 DEF GivesAlong
  <1>16. \A i \in 1 .. Len(s) : G[i - 1] \in Nat
    <2>1. \A i \in 1 .. Len(s) : i - 1 \in 0 .. Len(s)
      BY <1>6
    <2> QED
      BY <2>1
  <1>17. \A i \in 1 .. Len(s) : G[i] = G[i - 1] + s[i].size + Framing + 1
    BY <1>4, <1>6, <1>15, <1>16 DEF Along
  <1> QED
    BY <1>1, <1>15, <1>17 DEF Along

\* The history, row by row
LEMMA HistoryFold ==
    ASSUME NEW s \in Seq(Messages)
    PROVE  \E G \in [0 .. Len(s) -> Histories] :
             /\ G[0] = NoHistory
             /\ \A i \in 1 .. Len(s) : G[i] = AddMessage(G[i - 1], s[i])
             /\ FoldLeft(AddMessage, NoHistory, s) = G[Len(s)]
  <1> DEFINE f == [q \in Histories \X Messages |-> AddMessage(q[1], q[2])]
             Step(H) == [t \in SUBSET DOMAIN s |->
                           IF t = {} THEN NoHistory
                           ELSE AddMessage(H[t \ {Max(t)}], s[Max(t)])]
             F == CHOOSE H : H = Step(H)
  <1>1. FoldLeft(AddMessage, NoHistory, s) = F[DOMAIN s]
    BY DEF FoldLeft, MapThenFoldSet
  <1>2. ASSUME NEW r \in Histories, NEW x \in Messages PROVE AddMessage(r, x) \in Histories
    <2>1. <<x>> \in Seq(Messages) /\ r.history \in Seq(Messages)
      BY DEF Histories
    <2>2. <<x>> \o r.history \in Seq(Messages)
      BY <2>1, ConcatProperties
    <2>3. x.size \in Nat /\ r.bytes \in Nat
      BY DEF Messages, Histories
    <2>4. [r EXCEPT !.truncated = TRUE] \in Histories
      BY DEF Histories
    <2>5. r.bytes + x.size + Framing + 1 \in Nat
      BY <2>3 DEF Framing
    <2>6. [r EXCEPT !.history = <<x>> \o @, !.bytes = @ + x.size + Framing + 1] \in Histories
      BY <2>2, <2>5 DEF Histories
    <2> QED
      BY <2>4, <2>6 DEF AddMessage
  <1>3. NoHistory \in Histories
    BY EmptySeq DEF NoHistory, Histories
  <1>4. \A r \in Histories, x \in Messages : f[<<r, x>>] = AddMessage(r, x)
    OBVIOUS
  <1>5. Foldable(Histories, Messages, f, NoHistory, s)
    BY <1>2, <1>3 DEF Foldable
  <1> HIDE DEF f
  <1>6. Len(s) \in Nat /\ DOMAIN s = 1 .. Len(s) /\ \A i \in 1 .. Len(s) : s[i] \in Messages
    BY LenProperties, ElementOfSeq
  <1>7. \A t \in SUBSET DOMAIN s :
           t # {} => s[Max(t)] \in Messages /\ t \ {Max(t)} \in SUBSET DOMAIN s
    BY <1>6, MaxIsIn
  <1>8. HasFold(Histories, f, NoHistory, s)
    BY <1>5, FoldExists
  <1>9. PICK K \in [SUBSET DOMAIN s -> Histories] : K = Folds(K, f, NoHistory, s)
    BY <1>8 DEF HasFold
  <1>10. Step(K) = Folds(K, f, NoHistory, s)
    BY <1>4, <1>7 DEF Folds
  <1>11. F = Step(F)
    BY <1>9, <1>10
  <1> HIDE DEF F
  <1>12. F[{}] = NoHistory
    BY <1>11
  <1>13. IsFold(F, Histories, f, NoHistory, s)
    <2>1. ASSUME NEW t \in SUBSET DOMAIN s, t # {}, F[t \ {Max(t)}] \in Histories
          PROVE  F[t] = f[<<F[t \ {Max(t)}], s[Max(t)]>>]
      <3>1. F[t] = AddMessage(F[t \ {Max(t)}], s[Max(t)])
        BY <1>11, <2>1
      <3>2. s[Max(t)] \in Messages
        BY <1>7, <2>1
      <3> HIDE DEF Step
      <3> QED
        BY <1>4, <2>1, <3>1, <3>2
    <2> HIDE DEF Step
    <2> QED
      BY <1>12, <2>1 DEF IsFold
  <1>14. GivesAlong(F, Histories, f, NoHistory, s)
    BY <1>5, <1>13, FoldGives
  <1>15. PICK G \in [0 .. Len(s) -> Histories] :
           Along(G, f, NoHistory, s) /\ F[DOMAIN s] = G[Len(s)]
    BY <1>14 DEF GivesAlong
  <1>16. \A i \in 1 .. Len(s) : G[i - 1] \in Histories
    <2>1. \A i \in 1 .. Len(s) : i - 1 \in 0 .. Len(s)
      BY <1>6
    <2> QED
      BY <2>1
  <1>17. \A i \in 1 .. Len(s) : G[i] = AddMessage(G[i - 1], s[i])
    BY <1>4, <1>6, <1>15, <1>16 DEF Along
  <1> QED
    BY <1>1, <1>15, <1>17 DEF Along

\* P gives the bytes of the first Messages.
IsBytes(P, ms) ==
    /\ P \in [0 .. Len(ms) -> Nat] /\ P[0] = 0
    /\ \A i \in 1 .. Len(ms) : P[i] = P[i - 1] + ms[i].size + Framing + 1

\* The bytes of the last Messages are those of all without those before them.
LEMMA SuffixBytes ==
    ASSUME NEW ms \in Seq(Messages), NEW P, IsBytes(P, ms), NEW n \in 0 .. Len(ms)
    PROVE  MessageBytes(Suffix(ms, n)) = P[Len(ms)] - P[Len(ms) - n]
  <1> DEFINE s == Suffix(ms, n)
             k == Len(ms) - n
  <1>1. Len(ms) \in Nat /\ k \in 0 .. Len(ms) /\ n \in Nat /\ k + n = Len(ms)
    BY LenProperties
  <1>2. s \in Seq(Messages) /\ Len(s) = n /\ \A i \in 1 .. n : s[i] = ms[k + i]
    BY SuffixIs
  <1> HIDE DEF s, k
  <1>3. PICK G \in [0 .. Len(s) -> Nat] :
           /\ G[0] = 0
           /\ \A i \in 1 .. Len(s) : G[i] = G[i - 1] + s[i].size + Framing + 1
           /\ MessageBytes(s) = G[Len(s)]
    BY <1>2, MessageBytesFold
  <1> DEFINE T == {i \in 0 .. n : G[i] = P[k + i] - P[k]}
  <1>4. 0 \in T
    BY <1>1, <1>3 DEF IsBytes
  <1>5. ASSUME NEW i \in 1 .. n, i - 1 \in T PROVE i \in T
    <2>1. k + i \in 1 .. Len(ms) /\ k + (i - 1) = (k + i) - 1 /\ i \in 0 .. n
      BY <1>1
    <2>2. P[k + i] = P[(k + i) - 1] + ms[k + i].size + Framing + 1
      BY <2>1 DEF IsBytes
    <2>3. G[i] = G[i - 1] + ms[k + i].size + Framing + 1
      BY <1>2, <1>3
    <2>4. G[i - 1] = P[(k + i) - 1] - P[k]
      BY <1>5, <2>1
    <2>5. P[k] \in Nat /\ P[(k + i) - 1] \in Nat
      BY <1>1, <2>1 DEF IsBytes
    <2>6. ms[k + i].size \in Nat
      <3>1. ms[k + i] \in Messages
        BY <2>1, ElementOfSeq
      <3> QED
        BY <3>1 DEF Messages
    <2>7. G[i] = P[k + i] - P[k]
      BY <2>2, <2>3, <2>4, <2>5, <2>6 DEF Framing
    <2> QED
      BY <2>1, <2>7
  <1> HIDE DEF T
  <1>6. n \in T
    <2>1. \A i \in 0 .. n : i \in T
      BY <1>1, <1>4, <1>5, Reaches
    <2> QED
      BY <1>1, <2>1
  <1> QED
    BY <1>1, <1>2, <1>3, <1>6 DEF T, s, k

\* Do the last n Messages fit, whoever begins?
Fit(ms, P, n) ==
    n <= MaxHistoryMessages /\ 2 + (P[Len(ms)] - P[Len(ms) - n]) <= MaxHistoryBytes

\* More Messages have more bytes.
LEMMA BytesGrow ==
    ASSUME NEW ms \in Seq(Messages), NEW P, IsBytes(P, ms), NEW k \in 0 .. Len(ms)
    PROVE  \A i \in 0 .. Len(ms) : k <= i => P[k] <= P[i]
  <1> DEFINE T == {i \in 0 .. Len(ms) : k <= i => P[k] <= P[i]}
  <1>1. Len(ms) \in Nat /\ \A i \in 0 .. Len(ms) : P[i] \in Nat
    BY LenProperties DEF IsBytes
  <1>2. 0 \in T
    BY <1>1
  <1>3. ASSUME NEW i \in 1 .. Len(ms), i - 1 \in T PROVE i \in T
    <2>1. i - 1 \in 0 .. Len(ms) /\ i \in 0 .. Len(ms)
      BY <1>1
    <2>2. P[i] = P[i - 1] + ms[i].size + Framing + 1
      BY DEF IsBytes
    <2>3. ms[i].size \in Nat
      <3>1. ms[i] \in Messages
        BY ElementOfSeq
      <3> QED
        BY <3>1 DEF Messages
    <2>4. P[k] \in Nat /\ P[i - 1] \in Nat
      BY <1>1, <2>1
    <2>5. k <= i - 1 => P[k] <= P[i - 1]
      BY <1>3
    <2>6. k <= i => P[k] <= P[i]
      <3>1. CASE k = i
        BY <1>1, <3>1
      <3>2. CASE k <= i - 1
        BY <2>2, <2>3, <2>4, <2>5, <3>2 DEF Framing
      <3> QED
        BY <1>1, <3>1, <3>2
    <2> QED
      BY <2>1, <2>6
  <1> HIDE DEF T
  <1>4. \A i \in 0 .. Len(ms) : i \in T
    BY <1>1, <1>2, <1>3, Reaches
  <1> QED
    BY <1>4 DEF T

\* What fits, fits without its beginning, and no Message of it is too large.
LEMMA FitLess ==
    ASSUME NEW ms \in Seq(Messages), NEW P, IsBytes(P, ms), NEW n \in 0 .. Len(ms), Fit(ms, P, n),
           NEW m \in 0 .. n
    PROVE  Fit(ms, P, m) /\ (m > 0 => ms[Len(ms) - m + 1].size <= MaxHistoryBytes)
  <1> DEFINE L == Len(ms)
             k == L - n
             j == L - m
  <1>1. L \in Nat /\ k \in 0 .. L /\ j \in 0 .. L /\ k <= j /\ m <= n /\ n \in Nat /\ m \in Nat
    BY LenProperties
  <1>2. \A i \in 0 .. L : P[i] \in Nat
    BY DEF IsBytes
  <1>3. P[k] <= P[j]
    BY <1>1, BytesGrow
  <1>4. n <= MaxHistoryMessages /\ 2 + (P[L] - P[k]) <= MaxHistoryBytes
    BY DEF Fit
  <1>5. P[L] \in Nat /\ P[k] \in Nat /\ P[j] \in Nat
    BY <1>1, <1>2
  <1> HIDE DEF k
  <1>6. Fit(ms, P, m)
    <2>1. m <= MaxHistoryMessages
      BY <1>1, <1>4, ContextAssumption
    <2>2. 2 + (P[L] - P[j]) <= MaxHistoryBytes
      BY <1>3, <1>4, <1>5, ContextAssumption
    <2> QED
      BY <2>1, <2>2 DEF Fit
  <1>7. ASSUME m > 0 PROVE ms[L - m + 1].size <= MaxHistoryBytes
    <2> HIDE DEF L
    <2>1. j + 1 \in 0 .. L /\ j + 1 \in 1 .. L /\ L - m + 1 = j + 1 /\ (j + 1) - 1 = j
      BY <1>1, <1>7
    <2> HIDE DEF j
    <2>2. P[j + 1] = P[j] + ms[j + 1].size + Framing + 1
      BY <2>1 DEF IsBytes, L
    <2>3. ms[j + 1].size \in Nat
      <3>1. ms[j + 1] \in Messages
        BY <2>1, ElementOfSeq DEF L
      <3> QED
        BY <3>1 DEF Messages
    <2>4. P[j + 1] <= P[L]
      BY <1>1, <2>1, BytesGrow DEF L
    <2>5. P[j + 1] \in Nat
      BY <1>2, <2>1
    <2>6. ms[j + 1].size <= MaxHistoryBytes
      BY <1>3, <1>4, <1>5, <2>2, <2>3, <2>4, <2>5, ContextAssumption DEF Framing
    <2> QED
      BY <2>1, <2>6
  <1> QED
    BY <1>6, <1>7

\* The rows: the last Messages, newest first, as many as a prompt has and one more
Clip(m)     == IF m.size > MaxHistoryBytes THEN [m EXCEPT !.size = Omitted] ELSE m
RowCount(ms) == IF Len(ms) > MaxHistoryMessages + 1 THEN MaxHistoryMessages + 1 ELSE Len(ms)

LEMMA RowsAre ==
    ASSUME NEW ms \in Seq(Messages)
    PROVE  /\ ContextBefore(ms) \in Seq(Messages) /\ Len(ContextBefore(ms)) = RowCount(ms)
           /\ \A j \in 1 .. RowCount(ms) : ContextBefore(ms)[j] = Clip(ms[Len(ms) + 1 - j])
  <1> DEFINE L == Len(ms)
             K == RowCount(ms)
             a == 1 + (IF L > MaxHistoryMessages + 1 THEN L - (MaxHistoryMessages + 1) ELSE 0)
             s == SubSeq(ms, a, L)
             r == Newest(ms, MaxHistoryMessages + 1)
  <1>1. L \in Nat /\ MaxHistoryMessages \in Nat
    BY LenProperties, ContextAssumption
  <1>2. K \in 0 .. L /\ a \in 1 .. L + 1 /\ L \in a - 1 .. L /\ L - a + 1 = K /\ a - 1 = L - K
    BY <1>1 DEF RowCount
  <1> HIDE DEF K
  <1>3. s \in Seq(Messages) /\ Len(s) = K /\ \A i \in 1 .. K : s[i] = ms[a + i - 1]
    BY <1>2, PartIs
  <1>4. r = Reverse(s)
    BY DEF Newest
  <1> HIDE DEF s, a, r
  <1>5. r = [i \in 1 .. K |-> s[(K - i) + 1]]
    BY <1>3, <1>4 DEF Reverse
  <1>6. \A j \in 1 .. K : r[j] = ms[L + 1 - j] /\ r[j] \in Messages
    <2>1. ASSUME NEW j \in 1 .. K PROVE r[j] = ms[L + 1 - j] /\ r[j] \in Messages
      <3>1. (K - j) + 1 \in 1 .. K /\ a + ((K - j) + 1) - 1 = L + 1 - j /\ L + 1 - j \in 1 .. L
        BY <1>1, <1>2
      <3>2. r[j] = s[(K - j) + 1]
        BY <1>5
      <3>3. s[(K - j) + 1] = ms[a + ((K - j) + 1) - 1]
        BY <1>3, <3>1
      <3>4. ms[L + 1 - j] \in Messages
        BY <3>1, ElementOfSeq
      <3> QED
        BY <3>1, <3>2, <3>3, <3>4
    <2> QED
      BY <2>1
  <1>7. Len(r) = K
    BY <1>1, <1>2, <1>5
  <1>8. ContextBefore(ms) = [i \in 1 .. K |-> Clip(r[i])]
    BY <1>7 DEF ContextBefore, Clip, r
  <1>9. \A m \in Messages : Clip(m) \in Messages
    BY ContextAssumption DEF Messages, Clip, Omitted
  <1>10. ContextBefore(ms) \in [1 .. K -> Messages]
    BY <1>6, <1>8, <1>9
  <1>11. K \in Nat
    BY <1>1, <1>2
  <1>12. ContextBefore(ms) \in Seq(Messages) /\ Len(ContextBefore(ms)) = K
    BY <1>10, <1>11, <1>8
  <1> QED
    BY <1>6, <1>8, <1>12 DEF K

\* The history after j rows: the last j Messages, or less and no more fit
LongestOf(ms, P, h, j) ==
    \/ /\ ~ h.truncated /\ h.history = Suffix(ms, j) /\ Fit(ms, P, j)
       /\ h.bytes = 2 + (P[Len(ms)] - P[Len(ms) - j])
    \/ /\ h.truncated
       /\ \E c \in 0 .. Len(ms) - 1 : h.history = Suffix(ms, c) /\ Fit(ms, P, c)
                                      /\ ~ Fit(ms, P, c + 1)

LEMMA RowAdds ==
    ASSUME NEW ms \in Seq(Messages), NEW P, IsBytes(P, ms), NEW j \in 1 .. RowCount(ms),
           NEW h \in Histories, LongestOf(ms, P, h, j - 1)
    PROVE  LongestOf(ms, P, AddMessage(h, Clip(ms[Len(ms) + 1 - j])), j)
  <1> DEFINE L == Len(ms)
             k == L - j
             m == ms[L + 1 - j]
             x == Clip(m)
  <1>1. /\ L \in Nat /\ j \in 1 .. L /\ k \in 0 .. L /\ k + 1 \in 1 .. L /\ j - 1 \in 0 .. L - 1
        /\ L + 1 - j = k + 1 /\ L - (j - 1) = k + 1 /\ (k + 1) - 1 = k /\ L - j + 1 = k + 1
        /\ j \in 0 .. L /\ k + 1 \in 0 .. L /\ j - 1 \in 0 .. L /\ (j - 1) + 1 = j
    BY LenProperties, ContextAssumption DEF RowCount
  <1>2. CASE h.truncated
    BY <1>2 DEF LongestOf, AddMessage
  <1>3. CASE ~ h.truncated
    <2>1. m \in Messages
      BY <1>1, ElementOfSeq
    <2>2. m.size \in Nat
      BY <2>1 DEF Messages
    <2>3. P[k + 1] = P[k] + m.size + Framing + 1
      BY <1>1 DEF IsBytes
    <2>4. P[k] \in Nat /\ P[k + 1] \in Nat /\ P[L] \in Nat
      <3>1. L \in 0 .. L
        BY <1>1
      <3> QED
        BY <1>1, <3>1 DEF IsBytes
    <2>5. /\ h.history = Suffix(ms, j - 1) /\ Fit(ms, P, j - 1)
          /\ h.bytes = 2 + (P[L] - P[k + 1])
      BY <1>1, <1>3 DEF LongestOf
    <2>6. Len(h.history) = j - 1
      BY <1>1, <2>5, SuffixIs
    <2>7. CASE m.size > MaxHistoryBytes
      <3>1. x.size = Omitted
        BY <2>1, <2>7 DEF Clip, Messages
      <3>2. ~ Fit(ms, P, j)
        <4>1. j \in 0 .. j /\ j > 0
          BY <1>1
        <4>2. ASSUME Fit(ms, P, j) PROVE FALSE
          <5>1. ms[L - j + 1].size <= MaxHistoryBytes
            BY <1>1, <4>1, <4>2, FitLess
          <5> QED
            BY <1>1, <2>2, <2>7, <5>1, ContextAssumption
        <4> QED
          BY <4>2
      <3>3. AddMessage(h, x) = [h EXCEPT !.truncated = TRUE]
        BY <1>3, <3>1 DEF AddMessage
      <3> DEFINE g == [h EXCEPT !.truncated = TRUE]
      <3>4. g.truncated /\ g.history = h.history
        BY DEF Histories
      <3> HIDE DEF g, x, m
      <3>5. LongestOf(ms, P, g, j)
        BY <1>1, <2>5, <3>2, <3>4 DEF LongestOf
      <3> QED
        BY <3>3, <3>5 DEF g, x, m
    <2>8. CASE ~ (m.size > MaxHistoryBytes)
      <3>1. x = m
        BY <2>8 DEF Clip
      <3>2. x.size # Omitted
        BY <2>2, <2>8, <3>1, ContextAssumption DEF Omitted
      <3> DEFINE full == \/ j - 1 = MaxHistoryMessages
                         \/ h.bytes + m.size + Framing + 1 > MaxHistoryBytes
      <3>3. full <=> ~ Fit(ms, P, j)
        <4>1. h.bytes + m.size + Framing + 1 = 2 + (P[L] - P[k])
          <5> HIDE DEF k, m, L
          <5>1. h.bytes = 2 + (P[L] - (P[k] + m.size + Framing + 1))
            BY <2>3, <2>5
          <5> QED
            BY <2>2, <2>4, <5>1 DEF Framing
        <4>2. j - 1 <= MaxHistoryMessages
          BY <2>5 DEF Fit
        <4>3. Fit(ms, P, j) <=> j <= MaxHistoryMessages /\ 2 + (P[L] - P[k]) <= MaxHistoryBytes
          BY DEF Fit
        <4>4. 2 + (P[L] - P[k]) \in Int /\ j \in Nat
          BY <1>1, <2>4
        <4> HIDE DEF k, m, L
        <4> QED
          BY <4>1, <4>2, <4>3, <4>4, ContextAssumption
      <3>4. CASE full
        <4>1. AddMessage(h, x) = [h EXCEPT !.truncated = TRUE]
          BY <1>3, <2>6, <3>1, <3>4 DEF AddMessage
        <4> DEFINE g == [h EXCEPT !.truncated = TRUE]
        <4>2. g.truncated /\ g.history = h.history
          BY DEF Histories
        <4> HIDE DEF g, x, m, full
        <4>3. LongestOf(ms, P, g, j)
          BY <1>1, <2>5, <3>3, <3>4, <4>2 DEF LongestOf
        <4> QED
          BY <4>1, <4>3 DEF g, x, m
      <3>5. CASE ~ full
        <4> DEFINE g == [h EXCEPT !.history = <<x>> \o @, !.bytes = @ + x.size + Framing + 1]
        <4>1. AddMessage(h, x) = g
          BY <1>3, <2>6, <3>1, <3>2, <3>5 DEF AddMessage
        <4>2. /\ g.truncated = h.truncated /\ g.history = <<m>> \o h.history
              /\ g.bytes = h.bytes + m.size + Framing + 1
          BY <3>1 DEF Histories
        <4> HIDE DEF g
        <4>3. <<m>> \o Suffix(ms, j - 1) = Suffix(ms, j)
          <5>1. <<ms[Len(ms) - j + 1]>> \o Suffix(ms, j - 1) = Suffix(ms, j)
            BY <1>1, SuffixGrows
          <5> QED
            BY <1>1, <5>1
        <4>4. h.bytes + m.size + Framing + 1 = 2 + (P[L] - P[k])
          <5> HIDE DEF k, m, L
          <5>1. h.bytes = 2 + (P[L] - (P[k] + m.size + Framing + 1))
            BY <2>3, <2>5
          <5> QED
            BY <2>2, <2>4, <5>1 DEF Framing
        <4>5. Fit(ms, P, j)
          BY <3>3, <3>5
        <4>6. g.history = Suffix(ms, j) /\ g.bytes = 2 + (P[L] - P[k]) /\ ~ g.truncated
          BY <1>3, <2>5, <4>2, <4>3, <4>4
        <4> HIDE DEF full, x, m
        <4>7. LongestOf(ms, P, g, j)
          BY <4>5, <4>6 DEF LongestOf
        <4> QED
          BY <4>1, <4>7 DEF x, m
      <3> QED
        BY <3>4, <3>5
    <2> QED
      BY <2>7, <2>8
  <1> QED
    BY <1>2, <1>3

\* What the loop over the rows gives: the longest end that fits, whoever begins.
LEMMA LongestIs ==
    ASSUME NEW ms \in Seq(Messages), NEW P, IsBytes(P, ms), NEW h,
           h = FoldLeft(AddMessage, NoHistory, ContextBefore(ms))
    PROVE  \E c \in 0 .. Len(ms) : /\ h.history = Suffix(ms, c) /\ Fit(ms, P, c)
                                   /\ h.truncated = (c < Len(ms))
                                   /\ c < Len(ms) => ~ Fit(ms, P, c + 1)
  <1> DEFINE s == ContextBefore(ms)
             K == RowCount(ms)
             L == Len(ms)
  <1>1. s \in Seq(Messages) /\ Len(s) = K /\ \A j \in 1 .. K : s[j] = Clip(ms[L + 1 - j])
    BY RowsAre
  <1>2. L \in Nat /\ K \in Nat /\ K <= L
    BY LenProperties, ContextAssumption DEF RowCount
  <1> HIDE DEF s, K
  <1>3. PICK G \in [0 .. Len(s) -> Histories] :
           /\ G[0] = NoHistory
           /\ \A i \in 1 .. Len(s) : G[i] = AddMessage(G[i - 1], s[i])
           /\ FoldLeft(AddMessage, NoHistory, s) = G[Len(s)]
    BY <1>1, HistoryFold
  <1> DEFINE T == {i \in 0 .. K : LongestOf(ms, P, G[i], i)}
  <1>4. 0 \in T
    <2>1. L - 0 = L /\ P[L] \in Nat
      <3>1. L \in 0 .. L
        BY <1>2
      <3> QED
        BY <1>2, <3>1 DEF IsBytes
    <2>2. Suffix(ms, 0) = <<>>
      <3>1. 0 \in 0 .. L
        BY <1>2
      <3>2. Suffix(ms, 0) \in Seq(Messages) /\ Len(Suffix(ms, 0)) = 0
        BY <3>1, SuffixIs
      <3> QED
        BY <3>2, EmptySeq
    <2>3. Fit(ms, P, 0)
      BY <1>2, <2>1, ContextAssumption DEF Fit
    <2>4. LongestOf(ms, P, NoHistory, 0)
      BY <1>2, <2>1, <2>2, <2>3 DEF LongestOf, NoHistory
    <2>5. 0 \in 0 .. K
      BY <1>2
    <2> QED
      BY <1>3, <2>4, <2>5
  <1>5. ASSUME NEW i \in 1 .. K, i - 1 \in T PROVE i \in T
    <2>1. i - 1 \in 0 .. K /\ i \in 0 .. K
      BY <1>2
    <2>2. G[i - 1] \in Histories
      BY <1>1, <1>3, <2>1
    <2>3. LongestOf(ms, P, G[i - 1], i - 1)
      BY <1>5
    <2>4. LongestOf(ms, P, AddMessage(G[i - 1], Clip(ms[Len(ms) + 1 - i])), i)
      BY <2>2, <2>3, RowAdds DEF K
    <2>5. G[i] = AddMessage(G[i - 1], Clip(ms[Len(ms) + 1 - i]))
      BY <1>1, <1>3
    <2> QED
      BY <2>1, <2>4, <2>5
  <1> HIDE DEF T
  <1>6. K \in T
    <2>1. \A i \in 0 .. K : i \in T
      BY <1>2, <1>4, <1>5, Reaches
    <2> QED
      BY <1>2, <2>1
  <1>7. LongestOf(ms, P, h, K)
    BY <1>1, <1>3, <1>6 DEF T, s
  <1>8. CASE ~ h.truncated
    <2>1. h.history = Suffix(ms, K) /\ Fit(ms, P, K)
      BY <1>7, <1>8 DEF LongestOf
    <2>2. K <= MaxHistoryMessages
      BY <2>1 DEF Fit
    <2>3. K = L
      BY <1>2, <2>2, ContextAssumption DEF K, RowCount
    <2>4. h.truncated \in BOOLEAN
      <3>1. Len(s) \in 0 .. Len(s)
        BY <1>1, <1>2
      <3>2. h \in Histories
        BY <1>3, <3>1 DEF s
      <3> QED
        BY <3>2 DEF Histories
    <2>5. h.truncated = (L < L)
      BY <1>2, <1>8, <2>4
    <2> QED
      BY <1>2, <2>1, <2>3, <2>5
  <1>9. CASE h.truncated
    <2>1. PICK c \in 0 .. L - 1 : h.history = Suffix(ms, c) /\ Fit(ms, P, c) /\ ~ Fit(ms, P, c + 1)
      BY <1>7, <1>9 DEF LongestOf
    <2>2. h.truncated \in BOOLEAN
      <3>1. Len(s) \in 0 .. Len(s)
        BY <1>1, <1>2
      <3>2. h \in Histories
        BY <1>3, <3>1 DEF s
      <3> QED
        BY <3>2 DEF Histories
    <2>3. c \in 0 .. L /\ c < L
      BY <1>2
    <2>4. h.truncated = (c < L)
      BY <1>9, <2>2, <2>3
    <2> QED
      BY <2>1, <2>3, <2>4
  <1> QED
    BY <1>8, <1>9

\* What fits a prompt, of the ends of a conversation
LEMMA EndFits ==
    ASSUME NEW ms \in Seq(Messages), NEW P, IsBytes(P, ms), NEW n \in 0 .. Len(ms)
    PROVE  FitsPrompt(Suffix(ms, n)) <=>
             Fit(ms, P, n) /\ (n > 0 => ms[Len(ms) - n + 1].role = "user")
  <1> DEFINE L == Len(ms)
             s == Suffix(ms, n)
  <1>1. L \in Nat /\ n \in Nat /\ n <= L
    BY LenProperties
  <1>2. /\ s \in Seq(Messages) /\ Len(s) = n /\ DOMAIN s = 1 .. n
        /\ \A i \in 1 .. n : s[i] = ms[L - n + i]
    <2>1. s \in Seq(Messages) /\ Len(s) = n /\ \A i \in 1 .. n : s[i] = ms[L - n + i]
      BY SuffixIs
    <2> HIDE DEF s
    <2> QED
      BY <2>1, LenProperties
  <1>3. MessageBytes(s) = P[L] - P[L - n]
    BY SuffixBytes
  <1> HIDE DEF s
  <1>4. s # <<>> <=> n > 0
    BY <1>1, <1>2, EmptySeq
  <1>5. n > 0 => s[1] = ms[L - n + 1]
    BY <1>1, <1>2
  <1>6. Fit(ms, P, n) => \A i \in 1 .. n : s[i].size <= MaxHistoryBytes
    <2>1. ASSUME Fit(ms, P, n), NEW i \in 1 .. n PROVE s[i].size <= MaxHistoryBytes
      <3>1. n - i + 1 \in 0 .. n /\ n - i + 1 > 0 /\ L - (n - i + 1) + 1 = L - n + i
        BY <1>1
      <3>2. ms[L - (n - i + 1) + 1].size <= MaxHistoryBytes
        BY <2>1, <3>1, FitLess
      <3> QED
        BY <1>2, <3>1, <3>2
    <2> QED
      BY <2>1
  <1>7. Fit(ms, P, n) <=> n <= MaxHistoryMessages /\ 2 + MessageBytes(s) <= MaxHistoryBytes
    BY <1>3 DEF Fit
  <1>8. FitsPrompt(s) <=> /\ n <= MaxHistoryMessages
                          /\ \A i \in 1 .. n : s[i].size <= MaxHistoryBytes
                          /\ 2 + MessageBytes(s) <= MaxHistoryBytes
                          /\ n > 0 => s[1].role = "user"
    BY <1>2, <1>4 DEF FitsPrompt
  <1> HIDE DEF L
  <1>9. FitsPrompt(s) <=> Fit(ms, P, n) /\ (n > 0 => ms[L - n + 1].role = "user")
    BY <1>5, <1>6, <1>7, <1>8
  <1> QED
    BY <1>9 DEF s, L

\* The answers before the first question are dropped.
LEMMA DropIs ==
    ASSUME NEW ms \in Seq(Messages), NEW c \in 0 .. Len(ms), NEW h, h.history = Suffix(ms, c)
    PROVE  \E b \in 0 .. c :
             /\ DropAnswers(h) = [history |-> Suffix(ms, b), truncated |-> h.truncated \/ b < c]
             /\ b > 0 => ms[Len(ms) - b + 1].role = "user"
             /\ \A n \in b + 1 .. c : ms[Len(ms) - n + 1].role # "user"
  <1> DEFINE L == Len(ms)
             s == Suffix(ms, c)
             asked == {i \in 1 .. c : s[i].role = "user"}
             from == IF asked = {} THEN c + 1 ELSE CHOOSE i \in asked : \A j \in asked : i <= j
             b == c - from + 1
  <1>1. L \in Nat /\ c \in Nat /\ c <= L
    BY LenProperties
  <1>2. /\ s \in Seq(Messages) /\ Len(s) = c /\ \A i \in 1 .. c : s[i] = ms[L - c + i]
    BY SuffixIs
  <1> HIDE DEF s
  <1>3. DropAnswers(h) = [history |-> SubSeq(s, from, c), truncated |-> h.truncated \/ from > 1]
    BY <1>2 DEF DropAnswers, s
  <1>4. from \in 1 .. c + 1 /\ (from <= c => from \in asked) /\ \A j \in asked : from <= j
    <2>1. CASE asked = {}
      <3>1. from = c + 1
        BY <2>1
      <3> HIDE DEF from, asked
      <3> QED
        BY <1>1, <2>1, <3>1
    <2>2. CASE asked # {}
      <3> HIDE DEF asked
      <3>1. asked \subseteq 1 .. c
        BY DEF asked
      <3>2. \E m \in asked : \A j \in asked : m <= j
        <4> DEFINE T == {i \in 0 .. c : (\E j \in asked : j <= i) =>
                                           \E m \in asked : \A j \in asked : m <= j}
        <4>1. 0 \in T
          BY <1>1, <3>1
        <4>2. ASSUME NEW i \in 1 .. c, i - 1 \in T PROVE i \in T
          <5>1. i \in 0 .. c /\ i - 1 \in 0 .. c
            BY <1>1
          <5>2. CASE \E j \in asked : j <= i - 1
            BY <4>2, <5>1, <5>2
          <5>3. CASE ~ \E j \in asked : j <= i - 1
            <6>1. \A j \in asked : i <= j
              BY <1>1, <3>1, <5>3
            <6>2. (\E j \in asked : j <= i) => i \in asked
              <7>1. ASSUME NEW j \in asked, j <= i PROVE i \in asked
                <8>1. j = i
                  BY <3>1, <6>1, <7>1
                <8> QED
                  BY <8>1
              <7> QED
                BY <7>1
            <6> QED
              BY <5>1, <6>1, <6>2
          <5> QED
            BY <5>2, <5>3
        <4> HIDE DEF T
        <4>3. \A i \in 0 .. c : i \in T
          BY <1>1, <4>1, <4>2, Reaches
        <4>4. c \in T
          BY <1>1, <4>3
        <4>5. \E j \in asked : j <= c
          <5>1. PICK j \in asked : TRUE
            BY <2>2
          <5>2. j <= c
            BY <1>1, <3>1
          <5> QED
            BY <5>2
        <4> QED
          BY <4>4, <4>5 DEF T
      <3>3. from = CHOOSE i \in asked : \A j \in asked : i <= j
        BY <2>2
      <3> HIDE DEF from
      <3>4. from \in asked /\ \A j \in asked : from <= j
        BY <3>2, <3>3
      <3> QED
        BY <1>1, <3>1, <3>4
    <2> QED
      BY <2>1, <2>2
  <1> HIDE DEF from
  <1>5. b \in 0 .. c /\ (from > 1 <=> b < c) /\ from = c - b + 1
    BY <1>1, <1>4
  <1>6. SubSeq(s, from, c) = Suffix(ms, b)
    <2>1. /\ SubSeq(s, from, c) \in Seq(Messages) /\ Len(SubSeq(s, from, c)) = c - from + 1
          /\ \A i \in 1 .. c - from + 1 : SubSeq(s, from, c)[i] = s[from + i - 1]
      <3>1. c \in from - 1 .. c /\ from \in 1 .. c + 1
        BY <1>1, <1>4
      <3> QED
        BY <1>2, <3>1, PartIs
    <2>2. b \in 0 .. L
      BY <1>1, <1>5
    <2>3. /\ Suffix(ms, b) \in Seq(Messages) /\ Len(Suffix(ms, b)) = b
          /\ \A i \in 1 .. b : Suffix(ms, b)[i] = ms[L - b + i]
      BY <2>2, SuffixIs
    <2>4. ASSUME NEW i \in 1 .. b PROVE SubSeq(s, from, c)[i] = Suffix(ms, b)[i]
      <3>1. from + i - 1 \in 1 .. c /\ L - c + (from + i - 1) = L - b + i
        BY <1>1, <1>4, <1>5
      <3>2. SubSeq(s, from, c)[i] = s[from + i - 1]
        BY <2>1
      <3>3. s[from + i - 1] = ms[L - c + (from + i - 1)]
        BY <1>2, <3>1
      <3>4. Suffix(ms, b)[i] = ms[L - b + i]
        BY <2>3
      <3> QED
        BY <3>1, <3>2, <3>3, <3>4
    <2> QED
      BY <2>1, <2>3, <2>4, SeqEqual
  <1>7. b > 0 => ms[L - b + 1].role = "user"
    <2> SUFFICES ASSUME b > 0 PROVE ms[L - b + 1].role = "user"
      OBVIOUS
    <2>1. from \in 1 .. c /\ L - c + from = L - b + 1
      BY <1>1, <1>4, <1>5
    <2>2. s[from].role = "user"
      BY <1>4, <2>1
    <2>3. s[from] = ms[L - c + from]
      BY <1>2, <2>1
    <2> QED
      BY <2>1, <2>2, <2>3
  <1>8. ASSUME NEW n \in b + 1 .. c PROVE ms[L - n + 1].role # "user"
    <2>1. c - n + 1 \in 1 .. c /\ c - n + 1 < from /\ L - c + (c - n + 1) = L - n + 1
      BY <1>1, <1>5, <1>4
    <2>2. s[c - n + 1] = ms[L - c + (c - n + 1)]
      BY <1>2, <2>1
    <2>3. c - n + 1 \notin asked
      BY <1>4, <2>1
    <2> QED
      BY <2>1, <2>2, <2>3
  <1> HIDE DEF b
  <1>9. DropAnswers(h) = [history |-> Suffix(ms, b), truncated |-> h.truncated \/ b < c]
    BY <1>3, <1>5, <1>6
  <1> QED
    BY <1>5, <1>7, <1>8, <1>9

\* The history of a prompt (src/application/run-context.ts) is the longest end of the
\* conversation that fits and begins with the user, and it says whether something is missing.
THEOREM ContextCorrect == ASSUME NEW ms \in Seq(Messages) PROVE ContextAgrees(ms)
  <1> DEFINE L == Len(ms)
             h == FoldLeft(AddMessage, NoHistory, ContextBefore(ms))
             ends == {SubSeq(ms, i, L) : i \in 1 .. L + 1}
             best == CHOOSE s \in {t \in ends : FitsPrompt(t)} :
                        \A t \in ends : FitsPrompt(t) => Len(t) <= Len(s)
  <1>1. L \in Nat
    BY LenProperties
  <1>2. PICK P \in [0 .. L -> Nat] :
           P[0] = 0 /\ \A i \in 1 .. L : P[i] = P[i - 1] + ms[i].size + Framing + 1
    BY MessageBytesFold
  <1>3. IsBytes(P, ms)
    BY <1>2 DEF IsBytes
  <1> HIDE DEF h, L
  <1>4. PICK c \in 0 .. Len(ms) : /\ h.history = Suffix(ms, c) /\ Fit(ms, P, c)
                                  /\ h.truncated = (c < Len(ms))
                                  /\ c < Len(ms) => ~ Fit(ms, P, c + 1)
    BY <1>3, LongestIs DEF h
  <1>5. PICK b \in 0 .. c :
           /\ DropAnswers(h) = [history |-> Suffix(ms, b), truncated |-> h.truncated \/ b < c]
           /\ b > 0 => ms[Len(ms) - b + 1].role = "user"
           /\ \A n \in b + 1 .. c : ms[Len(ms) - n + 1].role # "user"
    BY <1>4, DropIs
  <1> USE DEF L
  <1>6. b \in 0 .. L /\ c \in 0 .. L /\ b <= c /\ c <= L /\ b \in Nat /\ c \in Nat
    BY <1>1
  <1>7. FitsPrompt(Suffix(ms, b))
    <2>1. Fit(ms, P, b)
      BY <1>3, <1>4, <1>6, FitLess
    <2> QED
      BY <1>3, <1>5, <1>6, <2>1, EndFits
  <1>8. ASSUME NEW n \in 0 .. L, FitsPrompt(Suffix(ms, n)) PROVE n <= b
    <2>1. Fit(ms, P, n) /\ (n > 0 => ms[L - n + 1].role = "user")
      BY <1>3, <1>8, EndFits
    <2>2. n <= c
      <3>1. ASSUME n > c PROVE FALSE
        <4>1. c + 1 \in 0 .. n /\ c < L
          BY <1>1, <1>6, <3>1
        <4>2. Fit(ms, P, c + 1)
          BY <1>3, <2>1, <4>1, FitLess
        <4> QED
          BY <1>4, <4>1, <4>2
      <3> QED
        BY <1>1, <1>6, <3>1
    <2>3. ASSUME n > b PROVE FALSE
      <3>1. n \in b + 1 .. c /\ n > 0
        BY <1>1, <1>6, <2>2, <2>3
      <3> QED
        BY <1>5, <2>1, <3>1
    <2> QED
      BY <1>1, <1>6, <2>3
  <1> HIDE DEF L
  <1>9. ends = {Suffix(ms, n) : n \in 0 .. L}
    <2>1. ASSUME NEW i \in 1 .. L + 1 PROVE \E n \in 0 .. L : SubSeq(ms, i, L) = Suffix(ms, n)
      <3>1. L - i + 1 \in 0 .. L /\ L - (L - i + 1) + 1 = i
        BY <1>1
      <3>2. SubSeq(ms, i, L) = Suffix(ms, L - i + 1)
        BY <3>1 DEF Suffix, L
      <3> QED
        BY <3>1, <3>2
    <2>2. ASSUME NEW n \in 0 .. L PROVE \E i \in 1 .. L + 1 : SubSeq(ms, i, L) = Suffix(ms, n)
      <3>1. L - n + 1 \in 1 .. L + 1
        BY <1>1
      <3> QED
        BY <3>1 DEF Suffix, L
    <2> QED
      BY <2>1, <2>2
  <1> HIDE DEF ends
  <1>10. \A n \in 0 .. L : Len(Suffix(ms, n)) = n
    BY SuffixIs DEF L
  <1>11. best = Suffix(ms, b)
    <2>1. /\ Suffix(ms, b) \in {t \in ends : FitsPrompt(t)}
          /\ \A t \in ends : FitsPrompt(t) => Len(t) <= Len(Suffix(ms, b))
      BY <1>6, <1>7, <1>8, <1>9, <1>10
    <2>2. /\ best \in {t \in ends : FitsPrompt(t)}
          /\ \A t \in ends : FitsPrompt(t) => Len(t) <= Len(best)
      BY <2>1
    <2> HIDE DEF best
    <2>3. PICK n \in 0 .. L : best = Suffix(ms, n)
      BY <1>9, <2>2
    <2>4. n <= b
      BY <1>8, <2>2, <2>3
    <2>5. b <= n
      BY <1>6, <1>7, <1>9, <1>10, <2>2, <2>3
    <2>6. n = b
      BY <1>1, <1>6, <2>4, <2>5
    <2> QED
      BY <2>3, <2>6
  <1>12. Suffix(ms, L) = ms
    <2>1. L \in 0 .. L
      BY <1>1
    <2>2. /\ Suffix(ms, L) \in Seq(Messages) /\ Len(Suffix(ms, L)) = L
          /\ \A i \in 1 .. L : Suffix(ms, L)[i] = ms[L - L + i]
      BY <2>1, SuffixIs DEF L
    <2>3. \A i \in 1 .. L : L - L + i = i
      BY <1>1
    <2> QED
      BY <2>2, <2>3, SeqEqual DEF L
  <1>13. best # ms <=> b < L
    <2>1. CASE b = L
      BY <1>1, <1>11, <1>12, <2>1
    <2>2. CASE b < L
      <3>1. Len(best) # Len(ms)
        <4> HIDE DEF best
        <4>1. Len(best) = b
          BY <1>6, <1>10, <1>11
        <4>2. b # L
          BY <1>1, <1>6, <2>2
        <4> QED
          BY <4>1, <4>2 DEF L
      <3> QED
        BY <2>2, <3>1
    <2> QED
      BY <1>1, <1>6, <2>1, <2>2
  <1>14. (h.truncated \/ b < c) <=> b < L
    <2>1. h.truncated = (c < L)
      BY <1>4 DEF L
    <2>2. (c < L \/ b < c) <=> b < L
      BY <1>1, <1>6
    <2> QED
      BY <2>1, <2>2
  <1>15. (h.truncated \/ b < c) = (best # ms)
    BY <1>13, <1>14
  <1>16. BuildRunPrompt(ms) = DropAnswers(h)
    BY DEF BuildRunPrompt, NoHistory, h
  <1>17. BuildRunPrompt(ms) = [history |-> best, truncated |-> best # ms]
    <2> HIDE DEF best
    <2> QED
      BY <1>5, <1>11, <1>15, <1>16
  <1> QED
    BY <1>17 DEF ContextAgrees, ends, L

-----------------------------------------------------------------------------
(* Selections                                                              *)

SelectsAlong(A, S, s) ==
    \E G \in [0 .. Len(s) -> Seq(A)] :
        /\ G[0] = <<>>
        /\ \A i \in 1 .. Len(s) : G[i] = IF s[i] \in S THEN Append(G[i - 1], s[i]) ELSE G[i - 1]
        /\ Selected(s, S) = G[Len(s)]

\* What is selected, one after the other
LEMMA SelectedFold ==
    ASSUME NEW A, NEW S, NEW s \in Seq(A)
    PROVE  SelectsAlong(A, S, s)
  <1> DEFINE f == [q \in Seq(A) \X A |-> (IF q[2] \in S THEN Append(q[1], q[2]) ELSE q[1])]
             Step(H) == [t \in SUBSET DOMAIN s |->
                           IF t = {} THEN <<>>
                           ELSE IF s[Max(t)] \in S THEN Append(H[t \ {Max(t)}], s[Max(t)])
                           ELSE H[t \ {Max(t)}]]
             F == CHOOSE H : H = Step(H)
  <1>1. Selected(s, S) = F[DOMAIN s]
    BY DEF Selected, FoldLeft, MapThenFoldSet
  <1>2. \A r \in Seq(A), x \in A : (IF x \in S THEN Append(r, x) ELSE r) \in Seq(A)
    BY AppendProperties
  <1>3. <<>> \in Seq(A)
    BY EmptySeq
  <1>4. \A r \in Seq(A), x \in A : f[<<r, x>>] = (IF x \in S THEN Append(r, x) ELSE r)
    OBVIOUS
  <1>5. Foldable(Seq(A), A, f, <<>>, s)
    BY <1>2, <1>3 DEF Foldable
  <1> HIDE DEF f
  <1>6. Len(s) \in Nat /\ DOMAIN s = 1 .. Len(s) /\ \A i \in 1 .. Len(s) : s[i] \in A
    BY LenProperties, ElementOfSeq
  <1>7. \A t \in SUBSET DOMAIN s :
           t # {} => s[Max(t)] \in A /\ t \ {Max(t)} \in SUBSET DOMAIN s
    BY <1>6, MaxIsIn
  <1>8. HasFold(Seq(A), f, <<>>, s)
    BY <1>5, FoldExists
  <1>9. PICK K \in [SUBSET DOMAIN s -> Seq(A)] : K = Folds(K, f, <<>>, s)
    BY <1>8 DEF HasFold
  <1>10. Step(K) = Folds(K, f, <<>>, s)
    BY <1>4, <1>7 DEF Folds
  <1>11. F = Step(F)
    BY <1>9, <1>10
  <1> HIDE DEF F
  <1>12. F[{}] = <<>>
    BY <1>11
  <1>13. IsFold(F, Seq(A), f, <<>>, s)
    <2>1. ASSUME NEW t \in SUBSET DOMAIN s, t # {}, F[t \ {Max(t)}] \in Seq(A)
          PROVE  F[t] = f[<<F[t \ {Max(t)}], s[Max(t)]>>]
      <3>1. F[t] = (IF s[Max(t)] \in S THEN Append(F[t \ {Max(t)}], s[Max(t)]) ELSE F[t \ {Max(t)}])
        BY <1>11, <2>1
      <3>2. s[Max(t)] \in A
        BY <1>7, <2>1
      <3> HIDE DEF Step
      <3> QED
        BY <1>4, <2>1, <3>1, <3>2
    <2> HIDE DEF Step
    <2> QED
      BY <1>12, <2>1 DEF IsFold
  <1>14. GivesAlong(F, Seq(A), f, <<>>, s)
    BY <1>5, <1>13, FoldGives
  <1>15. PICK G \in [0 .. Len(s) -> Seq(A)] : Along(G, f, <<>>, s) /\ F[DOMAIN s] = G[Len(s)]
    BY <1>14 DEF GivesAlong
  <1>16. \A i \in 1 .. Len(s) : G[i - 1] \in Seq(A)
    <2>1. \A i \in 1 .. Len(s) : i - 1 \in 0 .. Len(s)
      BY <1>6
    <2> QED
      BY <2>1
  <1>17. \A i \in 1 .. Len(s) : G[i] = (IF s[i] \in S THEN Append(G[i - 1], s[i]) ELSE G[i - 1])
    BY <1>4, <1>6, <1>15, <1>16 DEF Along
  <1> QED
    BY <1>1, <1>15, <1>17 DEF Along, SelectsAlong

SelectsStepwise(A, S, s) ==
    /\ Selected(First(s, 0), S) = <<>>
    /\ \A i \in 0 .. Len(s) : Selected(First(s, i), S) \in Seq(A)
    /\ \A i \in 1 .. Len(s) : Selected(First(s, i), S)
         = IF s[i] \in S THEN Append(Selected(First(s, i - 1), S), s[i])
           ELSE Selected(First(s, i - 1), S)

LEMMA SelectsStep == ASSUME NEW A, NEW S, NEW s \in Seq(A) PROVE SelectsStepwise(A, S, s)
  <1> SelectsAlong(A, S, s)
    BY SelectedFold
  <1>1. PICK G \in [0 .. Len(s) -> Seq(A)] :
           /\ G[0] = <<>>
           /\ \A i \in 1 .. Len(s) : G[i] = IF s[i] \in S THEN Append(G[i - 1], s[i]) ELSE G[i - 1]
    BY DEF SelectsAlong
  <1>2. Len(s) \in Nat
    BY LenProperties
  <1>3. ASSUME NEW i \in 0 .. Len(s) PROVE Selected(First(s, i), S) = G[i]
    <2> DEFINE t == First(s, i)
    <2>1. t \in Seq(A) /\ Len(t) = i /\ \A j \in 1 .. i : t[j] = s[j]
      BY FirstIs
    <2> HIDE DEF t
    <2> SelectsAlong(A, S, t)
      BY <2>1, SelectedFold
    <2>2. PICK H \in [0 .. Len(t) -> Seq(A)] :
             /\ H[0] = <<>>
             /\ \A j \in 1 .. Len(t) : H[j] = IF t[j] \in S THEN Append(H[j - 1], t[j])
                                              ELSE H[j - 1]
             /\ Selected(t, S) = H[Len(t)]
      BY DEF SelectsAlong
    <2> DEFINE T == {j \in 0 .. i : H[j] = G[j]}
    <2>3. 0 \in T
      BY <1>1, <1>2, <2>2
    <2>4. ASSUME NEW j \in 1 .. i, j - 1 \in T PROVE j \in T
      <3>1. j \in 0 .. i /\ j \in 1 .. Len(s) /\ j \in 1 .. Len(t)
        BY <1>2, <2>1
      <3>2. H[j] = IF s[j] \in S THEN Append(H[j - 1], s[j]) ELSE H[j - 1]
        BY <2>1, <2>2, <3>1
      <3>3. G[j] = IF s[j] \in S THEN Append(G[j - 1], s[j]) ELSE G[j - 1]
        BY <1>1, <3>1
      <3>4. H[j - 1] = G[j - 1]
        BY <2>4
      <3>5. H[j] = G[j]
        BY <3>2, <3>3, <3>4
      <3> QED
        BY <3>1, <3>5
    <2> HIDE DEF T
    <2>7. i \in Nat
      BY <1>2
    <2>5. \A j \in 0 .. i : j \in T
      BY <2>7, <2>3, <2>4, Reaches
    <2>6. i \in T
      BY <1>2, <2>5
    <2> QED
      BY <2>1, <2>2, <2>6 DEF T, t
  <1>4. 0 \in 0 .. Len(s) /\ \A i \in 1 .. Len(s) : i - 1 \in 0 .. Len(s) /\ i \in 0 .. Len(s)
    BY <1>2
  <1>5. Selected(First(s, 0), S) = <<>>
    BY <1>1, <1>3, <1>4
  <1>6. \A i \in 0 .. Len(s) : Selected(First(s, i), S) \in Seq(A)
    BY <1>3
  <1>7. ASSUME NEW i \in 1 .. Len(s)
        PROVE  Selected(First(s, i), S)
                = IF s[i] \in S THEN Append(Selected(First(s, i - 1), S), s[i])
                  ELSE Selected(First(s, i - 1), S)
    <2>1. Selected(First(s, i), S) = G[i] /\ Selected(First(s, i - 1), S) = G[i - 1]
      BY <1>3, <1>4
    <2> QED
      BY <1>1, <2>1
  <1> QED
    BY <1>5, <1>6, <1>7 DEF SelectsStepwise

LEMMA SelectedIs ==
    ASSUME NEW A, NEW S, NEW s \in Seq(A)
    PROVE  /\ Selected(First(s, 0), S) = <<>>
           /\ \A i \in 0 .. Len(s) : Selected(First(s, i), S) \in Seq(A)
  <1>1. SelectsStepwise(A, S, s)
    BY SelectsStep
  <1> QED
    BY <1>1 DEF SelectsStepwise

LEMMA SelectedStep ==
    ASSUME NEW A, NEW S, NEW s \in Seq(A), NEW i \in 1 .. Len(s)
    PROVE  Selected(First(s, i), S) = IF s[i] \in S THEN Append(Selected(First(s, i - 1), S), s[i])
                                      ELSE Selected(First(s, i - 1), S)
  <1>1. SelectsStepwise(A, S, s)
    BY SelectsStep
  <1> QED
    BY <1>1 DEF SelectsStepwise

\* What is selected is in the selection, and of a sequence in it all is selected.
LEMMA SelectedFrom ==
    ASSUME NEW A, NEW S, NEW s \in Seq(A)
    PROVE  Selected(s, S) \in Seq(A \cap S) /\ (s \in Seq(S) => Selected(s, S) = s)
  <1> DEFINE T == {i \in 0 .. Len(s) : Selected(First(s, i), S) \in Seq(A \cap S)}
             U == {i \in 0 .. Len(s) : Selected(First(s, i), S) = First(s, i)}
  <1>1. Len(s) \in Nat /\ First(s, Len(s)) = s
    BY LenProperties, FirstGrows
  <1>2. 0 \in T
    BY <1>1, SelectedIs, EmptySeq
  <1>3. ASSUME NEW i \in 1 .. Len(s), i - 1 \in T PROVE i \in T
    <2>1. s[i] \in A /\ i \in 0 .. Len(s)
      BY <1>1, ElementOfSeq
    <2>2. Selected(First(s, i), S)
                = IF s[i] \in S THEN Append(Selected(First(s, i - 1), S), s[i])
                  ELSE Selected(First(s, i - 1), S)
      BY SelectedStep
    <2>3. s[i] \in S => Append(Selected(First(s, i - 1), S), s[i]) \in Seq(A \cap S)
      BY <1>3, <2>1, AppendProperties
    <2> QED
      BY <1>3, <2>1, <2>2, <2>3
  <1> HIDE DEF T
  <1>4. Len(s) \in T
    <2>1. \A i \in 0 .. Len(s) : i \in T
      BY <1>1, <1>2, <1>3, Reaches
    <2> QED
      BY <1>1, <2>1
  <1>5. ASSUME s \in Seq(S) PROVE Selected(s, S) = s
    <2>1. 0 \in U
      BY <1>1, SelectedIs, FirstGrows
    <2>2. ASSUME NEW i \in 1 .. Len(s), i - 1 \in U PROVE i \in U
      <3>1. s[i] \in S /\ i \in 0 .. Len(s)
        BY <1>1, <1>5, ElementOfSeq
      <3>2. Selected(First(s, i), S) = Append(Selected(First(s, i - 1), S), s[i])
        BY <3>1, SelectedStep
      <3>3. First(s, i) = Append(First(s, i - 1), s[i])
        BY FirstGrows
      <3> QED
        BY <2>2, <3>1, <3>2, <3>3
    <2> HIDE DEF U
    <2>3. \A i \in 0 .. Len(s) : i \in U
      BY <1>1, <2>1, <2>2, Reaches
    <2>4. Len(s) \in U
      BY <1>1, <2>3
    <2> QED
      BY <1>1, <2>4 DEF U
  <1>6. Selected(s, S) \in Seq(A \cap S)
    BY <1>1, <1>4 DEF T
  <1> QED
    BY <1>5, <1>6

-----------------------------------------------------------------------------
(* PreviewUrls                                                             *)

NextSegment(at, s) ==
    CASE s = "." -> at
      [] s = ".." -> IF at = <<>> THEN at ELSE Front(at)
      [] OTHER -> Append(at, s)

ResolvesAlong(W, from, s) ==
    \E G \in [0 .. Len(s) -> Seq(W)] : /\ G[0] = from
                                       /\ \A i \in 1 .. Len(s) : G[i] = NextSegment(G[i - 1], s[i])
                                       /\ Resolve(from, s) = G[Len(s)]

\* Segment by segment
LEMMA ResolveFold ==
    ASSUME NEW W, NEW from \in Seq(W), NEW s \in Seq(W)
    PROVE  ResolvesAlong(W, from, s)
  <1> DEFINE f == [q \in Seq(W) \X W |-> NextSegment(q[1], q[2])]
             Step(H) == [t \in SUBSET DOMAIN s |->
                           IF t = {} THEN from
                           ELSE NextSegment(H[t \ {Max(t)}], s[Max(t)])]
             F == CHOOSE H : H = Step(H)
  <1>1. Resolve(from, s) = F[DOMAIN s]
    BY DEF Resolve, FoldLeft, MapThenFoldSet, NextSegment
  <1>2. \A r \in Seq(W), x \in W : NextSegment(r, x) \in Seq(W)
    <2>1. ASSUME NEW r \in Seq(W), r # <<>> PROVE Front(r) \in Seq(W)
      <3>1. Len(r) \in Nat /\ Len(r) > 0 /\ Len(r) - 1 \in 0 .. Len(r)
        BY <2>1, LenProperties, EmptySeq
      <3> QED
        BY <3>1, FirstIs DEF First, Front
    <2> QED
      BY <2>1, AppendProperties DEF NextSegment
  <1>3. from \in Seq(W)
    OBVIOUS
  <1>4. \A r \in Seq(W), x \in W : f[<<r, x>>] = NextSegment(r, x)
    OBVIOUS
  <1>5. Foldable(Seq(W), W, f, from, s)
    BY <1>2, <1>3 DEF Foldable
  <1> HIDE DEF f
  <1>6. Len(s) \in Nat /\ DOMAIN s = 1 .. Len(s) /\ \A i \in 1 .. Len(s) : s[i] \in W
    BY LenProperties, ElementOfSeq
  <1>7. \A t \in SUBSET DOMAIN s :
           t # {} => s[Max(t)] \in W /\ t \ {Max(t)} \in SUBSET DOMAIN s
    BY <1>6, MaxIsIn
  <1>8. HasFold(Seq(W), f, from, s)
    BY <1>5, FoldExists
  <1>9. PICK K \in [SUBSET DOMAIN s -> Seq(W)] : K = Folds(K, f, from, s)
    BY <1>8 DEF HasFold
  <1>10. Step(K) = Folds(K, f, from, s)
    BY <1>4, <1>7 DEF Folds
  <1>11. F = Step(F)
    BY <1>9, <1>10
  <1> HIDE DEF F
  <1>12. F[{}] = from
    BY <1>11
  <1>13. IsFold(F, Seq(W), f, from, s)
    <2>1. ASSUME NEW t \in SUBSET DOMAIN s, t # {}, F[t \ {Max(t)}] \in Seq(W)
          PROVE  F[t] = f[<<F[t \ {Max(t)}], s[Max(t)]>>]
      <3>1. F[t] = NextSegment(F[t \ {Max(t)}], s[Max(t)])
        BY <1>11, <2>1
      <3>2. s[Max(t)] \in W
        BY <1>7, <2>1
      <3> HIDE DEF Step
      <3> QED
        BY <1>4, <2>1, <3>1, <3>2
    <2> HIDE DEF Step
    <2> QED
      BY <1>12, <2>1 DEF IsFold
  <1>14. GivesAlong(F, Seq(W), f, from, s)
    BY <1>5, <1>13, FoldGives
  <1>15. PICK G \in [0 .. Len(s) -> Seq(W)] : Along(G, f, from, s) /\ F[DOMAIN s] = G[Len(s)]
    BY <1>14 DEF GivesAlong
  <1>16. \A i \in 1 .. Len(s) : G[i - 1] \in Seq(W)
    <2>1. \A i \in 1 .. Len(s) : i - 1 \in 0 .. Len(s)
      BY <1>6
    <2> QED
      BY <2>1
  <1>17. \A i \in 1 .. Len(s) : G[i] = NextSegment(G[i - 1], s[i])
    BY <1>4, <1>6, <1>15, <1>16 DEF Along
  <1> QED
    BY <1>1, <1>15, <1>17 DEF Along, ResolvesAlong

\* A path that does not climb leads to where its segments say.
LEMMA ResolvesTo ==
    ASSUME NEW W, NEW from \in Seq(W), NEW s \in Seq(W)
    PROVE  /\ Resolve(from, s) \in Seq(W)
           /\ ".." \notin ToSet(s) => Resolve(from, s) = from \o Selected(s, ToSet(s) \ {"."})
  <1> DEFINE S == ToSet(s) \ {"."}
  <1> ResolvesAlong(W, from, s)
    BY ResolveFold
  <1>1. PICK G \in [0 .. Len(s) -> Seq(W)] :
             /\ G[0] = from
             /\ \A i \in 1 .. Len(s) : G[i] = NextSegment(G[i - 1], s[i])
             /\ Resolve(from, s) = G[Len(s)]
    BY DEF ResolvesAlong
  <1>2. Len(s) \in Nat /\ First(s, Len(s)) = s /\ DOMAIN s = 1 .. Len(s)
    BY LenProperties, FirstGrows
  <1>3. ASSUME ".." \notin ToSet(s) PROVE G[Len(s)] = from \o Selected(s, S)
    <2> DEFINE T == {i \in 0 .. Len(s) : G[i] = from \o Selected(First(s, i), S)}
    <2> HIDE DEF S
    <2>1. 0 \in T
      BY <1>1, <1>2, SelectedIs, ConcatEmptySeq
    <2>2. ASSUME NEW i \in 1 .. Len(s), i - 1 \in T PROVE i \in T
      <3>1. i \in 0 .. Len(s) /\ i - 1 \in 0 .. Len(s) /\ s[i] \in W
        BY <1>2, ElementOfSeq
      <3>2. s[i] # ".." /\ (s[i] \in S <=> s[i] # ".")
        BY <1>2, <1>3 DEF ToSet, S
      <3>3. Selected(First(s, i), S)
                = IF s[i] \in S THEN Append(Selected(First(s, i - 1), S), s[i])
                  ELSE Selected(First(s, i - 1), S)
        BY SelectedStep
      <3>4. G[i] = NextSegment(G[i - 1], s[i]) /\ G[i - 1] = from \o Selected(First(s, i - 1), S)
        BY <1>1, <2>2
      <3>5. Selected(First(s, i - 1), S) \in Seq(W)
        BY <3>1, SelectedIs
      <3>6. Append(from \o Selected(First(s, i - 1), S), s[i])
              = from \o Append(Selected(First(s, i - 1), S), s[i])
        <4> DEFINE t == Selected(First(s, i - 1), S)
        <4>1. t \in Seq(W) /\ s[i] \in W
          BY <3>1, <3>5
        <4> HIDE DEF t
        <4>2. AppendsTo(from, t, s[i])
          BY <4>1, AppendToConcat
        <4> QED
          BY <4>2 DEF t, AppendsTo
      <3>7. G[i] = from \o Selected(First(s, i), S)
        <4>1. CASE s[i] = "."
          BY <3>2, <3>3, <3>4, <4>1 DEF NextSegment
        <4>2. CASE s[i] # "."
          BY <3>2, <3>3, <3>4, <3>6, <4>2 DEF NextSegment
        <4> QED
          BY <4>1, <4>2
      <3> QED
        BY <3>1, <3>7
    <2> HIDE DEF T
    <2>3. \A i \in 0 .. Len(s) : i \in T
      BY <1>2, <2>1, <2>2, Reaches
    <2>4. Len(s) \in T
      BY <1>2, <2>3
    <2> QED
      BY <1>2, <2>4 DEF T
  <1>4. G[Len(s)] \in Seq(W)
    BY <1>2
  <1> QED
    BY <1>1, <1>3, <1>4

Links(W) == [form : {"absolute", "host", "rooted", "based", "relative"}, path : Seq(W)]
PreviewAnswers(W) ==
    [kind : {"redirect", "html", "other"}, element : {"a", "script"}, link : Links(W)]

LEMMA BaseIs ==
    ASSUME NEW W, "base" \in W
    PROVE  Base \in Seq(W) /\ Len(Base) = 1 /\ Base[1] = "base"
  BY DEF Base

\* The segments that are kept of a path that does not climb, resolved again
LEMMA PlainIs ==
    ASSUME NEW W, NEW s \in Seq(W), ".." \notin ToSet(s)
    PROVE  LET plain == Selected(s, ToSet(s) \ {"."})
           IN  /\ plain \in Seq(W) /\ ".." \notin ToSet(plain)
               /\ Selected(plain, ToSet(plain) \ {"."}) = plain
  <1> DEFINE plain == Selected(s, ToSet(s) \ {"."})
             S == ToSet(s) \ {"."}
             U == ToSet(plain) \ {"."}
  <1>1. plain \in Seq(W \cap S)
    BY SelectedFrom
  <1> HIDE DEF plain
  <1>2. plain \in Seq(W)
    BY <1>1, SeqMonotonic
  <1>3. DOMAIN plain = 1 .. Len(plain) /\ Len(plain) \in Nat /\ plain \in [1 .. Len(plain) -> W]
    BY <1>2, LenProperties
  <1>4. \A i \in 1 .. Len(plain) : plain[i] \in S
    BY <1>1, ElementOfSeq
  <1>5. ".." \notin ToSet(plain)
    BY <1>3, <1>4 DEF ToSet
  <1>6. \A i \in 1 .. Len(plain) : plain[i] \in U
    BY <1>3, <1>4 DEF ToSet
  <1> HIDE DEF U, S
  <1>7. plain \in [1 .. Len(plain) -> U]
    BY <1>3, <1>6
  <1>8. plain \in Seq(U)
    BY <1>3, <1>7, SeqDef
  <1>9. Selected(plain, U) = plain
    BY <1>2, <1>8, SelectedFrom
  <1> QED
    BY <1>2, <1>5, <1>9 DEF plain, U

\* What is below the content URL is served.
LEMMA ServedBelow ==
    ASSUME NEW W, "base" \in W, NEW plain \in Seq(W), ".." \notin ToSet(plain)
    PROVE  ContentHandler(Base \o plain) = IF plain = <<"client">> THEN "stub" ELSE "vite"
  <1> DEFINE p == Base \o plain
  <1>1. /\ p \in Seq(W) /\ Len(p) = 1 + Len(plain)
        /\ \A i \in 1 .. 1 + Len(plain) : p[i] = IF i <= 1 THEN Base[i] ELSE plain[i - 1]
    BY BaseIs, ConcatProperties
  <1>2. Len(plain) \in Nat /\ DOMAIN plain = 1 .. Len(plain) /\ DOMAIN p = 1 .. 1 + Len(plain)
    BY <1>1, LenProperties
  <1> HIDE DEF p
  <1>3. p # <<>> /\ p[1] = "base"
    BY <1>1, <1>2, BaseIs, EmptySeq
  <1>4. Head(p) = "base"
    <2>1. 1 \in 1 .. Len(p) /\ Len(p) \in 1 .. Len(p)
      BY <1>1, <1>2
    <2>2. Head(SubSeq(p, 1, Len(p))) = p[1]
      BY <1>1, <2>1, HeadTailOfSubSeq
    <2>3. SubSeq(p, 1, Len(p)) = p
      BY <1>1, SubSeqFull
    <2> QED
      BY <1>3, <2>2, <2>3
  <1>5. ".." \notin ToSet(p)
    <2>1. ASSUME NEW i \in 1 .. 1 + Len(plain) PROVE p[i] # ".."
      <3>1. CASE i = 1
        BY <1>3, <3>1
      <3>2. CASE i # 1
        <4>1. i - 1 \in 1 .. Len(plain) /\ p[i] = plain[i - 1]
          BY <1>1, <1>2, <3>2
        <4> QED
          BY <1>2, <4>1 DEF ToSet
      <3> QED
        BY <3>1, <3>2
    <2> QED
      BY <1>2, <2>1 DEF ToSet
  <1>6. Tail(p) = plain
    <2>1. /\ Tail(p) \in Seq(W) /\ Len(Tail(p)) = Len(p) - 1
          /\ \A i \in 1 .. Len(Tail(p)) : Tail(p)[i] = p[i + 1]
      BY <1>1, <1>3, HeadTailProperties
    <2>2. Len(Tail(p)) = Len(plain)
      BY <1>1, <1>2, <2>1
    <2>3. ASSUME NEW i \in 1 .. Len(plain) PROVE Tail(p)[i] = plain[i]
      <3>1. i + 1 \in 1 .. 1 + Len(plain) /\ (i + 1) - 1 = i /\ ~(i + 1 <= 1)
        BY <1>2
      <3>2. p[i + 1] = plain[(i + 1) - 1]
        BY <1>1, <3>1
      <3> QED
        BY <2>1, <2>2, <3>1, <3>2
    <2> QED
      BY <2>1, <2>2, <2>3, SeqEqual
  <1>7. ParseUpstreamPath(p) = Link("based", plain)
    BY <1>3, <1>4, <1>5, <1>6 DEF ParseUpstreamPath
  <1>8. Link("based", plain) # NoLink /\ Link("based", plain).form = "based"
        /\ Link("based", plain).path = plain
    BY DEF Link, NoLink
  <1>9. ContentHandler(p) = IF plain = <<"client">> THEN "stub" ELSE "vite"
    BY <1>7, <1>8 DEF ContentHandler, IsViteClientResourcePath
  <1> QED
    BY <1>9 DEF p

\* The links of a Preview (src/server/preview-api.ts), of any length: they stay below its
\* content URL or are not served.
THEOREM PreviewUrlsCorrect == ASSUME NEW V, NEW answer \in PreviewAnswers(V) PROVE UrlsAgree(answer)
  <1> DEFINE link  == answer.link
             path  == link.path
             sent  == PreparePreviewResponse(answer)
             asked == Asked(sent.link, Base)
             plain == Selected(path, ToSet(path) \ {"."})
             twice == PreparePreviewResponse([answer EXCEPT !.link = sent.link])
             here  == sent.link.form \in {"based", "rooted", "relative"}
             at    == Resolve(<<>>, path)
  <1> DEFINE W == V \cup {"base"}
  <1>1. /\ path \in Seq(W) /\ link = [form |-> link.form, path |-> path]
        /\ link.form \in {"absolute", "host", "rooted", "based", "relative"}
    <2>1. path \in Seq(V) /\ link \in Links(V)
      BY DEF PreviewAnswers, Links
    <2>2. path \in Seq(W)
      BY <2>1, SeqMonotonic
    <2> QED
      BY <2>1, <2>2 DEF Links
  <1> HIDE DEF W
  <1>2. at \in Seq(W)
    BY <1>1, ResolvesTo, EmptySeq
  <1> HIDE DEF at
  <1>3. /\ sent.kind = "redirect" => /\ answer.kind = "redirect" /\ sent.link.form = "based"
                                     /\ link.form \notin {"absolute", "host"}
                                     /\ \/ link.form = "based" /\ sent.link = link
                                        \/ sent.link = Link("based", at)
        /\ answer.kind = "redirect" /\ link.form \in {"absolute", "host"} =>
              sent = [kind |-> "unavailable", link |-> NoLink]
        /\ answer.kind = "redirect" /\ link.form \notin {"absolute", "host"} =>
              sent.kind = "redirect"
        /\ answer.kind = "html" =>
              /\ sent.kind = "html"
              /\ \/ /\ sent.link = NoLink /\ answer.element = "script" /\ path = <<"client">>
                 \/ /\ sent.link # NoLink /\ sent.link = RewriteRootRelativeUrl(link)
                    /\ ~(answer.element = "script" /\ IsViteClientResourcePath(link))
        /\ answer.kind \notin {"redirect", "html"} =>
              sent = [kind |-> answer.kind, link |-> NoLink]
    <2> DEFINE moved == RewriteRedirectLocation(link)
    <2>1. NoLink.form = "none" /\ \A x : Link("based", x).form = "based" /\ Link("based", x).path = x
      BY DEF NoLink, Link
    <2>2. link # NoLink /\ link.form \in {"absolute", "host", "rooted", "based", "relative"}
      BY <1>1, <2>1
    <2>3. /\ link.form \in {"absolute", "host"} => moved = NoLink
          /\ link.form = "based" => moved = link
          /\ link.form \in {"rooted", "relative"} => moved = Link("based", at)
      BY DEF RewriteRedirectLocation, at
    <2> HIDE DEF link, moved
    <2>4. answer.kind = "redirect" =>
            sent = [kind |-> IF moved = NoLink THEN "unavailable" ELSE "redirect", link |-> moved]
      BY DEF PreparePreviewResponse, link, moved
    <2>5. answer.kind = "html" =>
            sent = [kind |-> "html", link |-> RewriteElement(answer.element, link)]
      BY DEF PreparePreviewResponse, link
    <2>6. answer.kind \notin {"redirect", "html"} => sent = [kind |-> answer.kind, link |-> NoLink]
      BY DEF PreparePreviewResponse
    <2> HIDE DEF sent
    <2>7. CASE answer.kind = "redirect"
      <3>1. CASE link.form \in {"absolute", "host"}
        BY <2>3, <2>4, <2>7, <3>1
      <3>2. CASE link.form = "based"
        <4>1. sent = [kind |-> "redirect", link |-> link]
          BY <2>2, <2>3, <2>4, <2>7, <3>2
        <4> QED
          BY <2>7, <3>2, <4>1
      <3>3. CASE link.form \in {"rooted", "relative"}
        <4>1. moved = Link("based", at) /\ moved # NoLink /\ moved.form = "based"
          BY <2>1, <2>3, <3>3
        <4>2. sent = [kind |-> "redirect", link |-> moved]
          BY <2>4, <2>7, <4>1
        <4> QED
          BY <2>7, <3>3, <4>1, <4>2
      <3> QED
        BY <2>2, <3>1, <3>2, <3>3
    <2>8. CASE answer.kind = "html"
      <3>1. sent.kind = "html" /\ sent.link = RewriteElement(answer.element, link)
        BY <2>5, <2>8
      <3>2. CASE answer.element = "script" /\ IsViteClientResourcePath(link)
        <4>1. sent.link = NoLink
          BY <3>1, <3>2 DEF RewriteElement
        <4>2. path = <<"client">>
          BY <3>2 DEF IsViteClientResourcePath, link
        <4> QED
          BY <2>8, <3>1, <3>2, <4>1, <4>2
      <3>3. CASE ~(answer.element = "script" /\ IsViteClientResourcePath(link))
        <4>1. sent.link = RewriteRootRelativeUrl(link)
          BY <3>1, <3>3 DEF RewriteElement
        <4>2. RewriteRootRelativeUrl(link) # NoLink
          BY <2>1, <2>2 DEF RewriteRootRelativeUrl
        <4> QED
          BY <2>8, <3>1, <3>3, <4>1, <4>2
      <3> QED
        BY <3>2, <3>3
    <2>9. CASE answer.kind \notin {"redirect", "html"}
      <3>1. sent.kind = answer.kind
        BY <2>6, <2>9
      <3> QED
        BY <2>6, <2>9, <3>1
    <2> QED
      BY <2>7, <2>8, <2>9
  <1> HIDE DEF sent
  <1>4. "base" \in W /\ Base \in Seq(W) /\ <<>> \in Seq(W)
    BY BaseIs, EmptySeq DEF W
  <1>5. here => asked = Resolve(Base, path) \/ asked = Resolve(Base, at)
    BY <1>1, <1>3 DEF Asked, Link, NoLink, RewriteRootRelativeUrl, PreviewAnswers
  <1>6. here => asked \in Seq(W)
    BY <1>1, <1>2, <1>4, <1>5, ResolvesTo
  <1>7. ASSUME here, ".." \notin ToSet(path)
        PROVE  asked = Base \o plain /\ plain \in Seq(W) /\ ".." \notin ToSet(plain)
    <2>1. /\ plain \in Seq(W) /\ ".." \notin ToSet(plain)
          /\ Selected(plain, ToSet(plain) \ {"."}) = plain
      BY <1>1, <1>7, PlainIs
    <2>2. Resolve(Base, path) = Base \o plain
      BY <1>1, <1>4, <1>7, ResolvesTo
    <2>3. at = <<>> \o plain
      BY <1>1, <1>4, <1>7, ResolvesTo DEF at
    <2> HIDE DEF plain
    <2>4. at = plain
      BY <2>1, <2>3, ConcatEmptySeq
    <2>5. Resolve(Base, at) = Base \o plain
      BY <1>4, <2>1, <2>4, ResolvesTo
    <2> QED
      BY <1>5, <1>7, <2>1, <2>2, <2>5
  <1>8. sent.kind = "redirect" => here /\ asked = Asked(sent.link, <<"redirect">>)
    BY <1>3 DEF Asked, Link
  <1>9. sent.kind = "unavailable" <=>
          answer.kind = "redirect" /\ link.form \in {"none", "absolute", "host"}
    BY <1>1, <1>3 DEF PreviewAnswers
  <1>10. here /\ ".." \notin ToSet(path) =>
           /\ asked = Base \o plain
           /\ ContentHandler(asked) = IF plain = <<"client">> THEN "stub" ELSE "vite"
    <2> HIDE DEF plain, here, asked
    <2> QED
      BY <1>4, <1>7, ServedBelow
  <1>11. ASSUME here, ContentHandler(asked) # "not_found" PROVE IsPrefix(Base, asked)
    <2>1. asked \in Seq(W)
      BY <1>6, <1>11
    <2> HIDE DEF asked
    <2>2. asked # <<>> /\ Head(asked) = "base"
      BY <1>11 DEF ContentHandler, ParseUpstreamPath
    <2>3. 1 \in 1 .. Len(asked) /\ Len(asked) \in 1 .. Len(asked) /\ Len(asked) \in Nat
      BY <2>1, <2>2, EmptySeq
    <2>4. asked[1] = "base"
      <3>1. Head(SubSeq(asked, 1, Len(asked))) = asked[1]
        BY <2>1, <2>3, HeadTailOfSubSeq
      <3>2. SubSeq(asked, 1, Len(asked)) = asked
        BY <2>1, SubSeqFull
      <3> QED
        BY <2>2, <3>1, <3>2
    <2>5. First(asked, 1) = Base
      <3>1. First(asked, 1) \in Seq(W) /\ Len(First(asked, 1)) = 1 /\ First(asked, 1)[1] = asked[1]
        <4>1. 1 \in 0 .. Len(asked)
          BY <2>3
        <4>2. /\ First(asked, 1) \in Seq(W) /\ Len(First(asked, 1)) = 1
              /\ \A j \in 1 .. 1 : First(asked, 1)[j] = asked[j]
          BY <2>1, <4>1, FirstIs
        <4> QED
          BY <4>2
      <3>2. Len(Base) = 1 /\ Base[1] = "base"
        BY <1>4, BaseIs
      <3>3. \A i \in 1 .. 1 : First(asked, 1)[i] = Base[i]
        BY <2>4, <3>1, <3>2
      <3> QED
        BY <1>4, <3>1, <3>2, <3>3, SeqEqual
    <2>6. First(Base, 1) = Base
      BY <1>4, BaseIs, FirstGrows
    <2> QED
      BY <1>4, <2>3, <2>5, <2>6, BaseIs DEF IsPrefix, First
  <1>12. answer.kind = "html" /\ sent.link = NoLink =>
           answer.element = "script" /\ path = <<"client">>
    BY <1>3
  <1>13. ASSUME sent.link # NoLink PROVE twice = sent
    <2> DEFINE a == [answer EXCEPT !.link = sent.link]
    <2>1. a.kind = answer.kind /\ a.element = answer.element /\ a.link = sent.link
      BY DEF PreviewAnswers
    <2>2. CASE answer.kind = "redirect"
      <3>1. sent.kind = "redirect" /\ sent.link.form = "based"
        BY <1>1, <1>3, <1>13, <2>2
      <3>2. RewriteRedirectLocation(sent.link) = sent.link
        BY <3>1 DEF RewriteRedirectLocation
      <3>3. sent = [kind |-> "redirect", link |-> sent.link]
        BY <2>2, <3>1 DEF PreparePreviewResponse, sent
      <3> QED
        BY <1>13, <2>1, <2>2, <3>2, <3>3 DEF PreparePreviewResponse
    <2>3. CASE answer.kind = "html"
      <3>1. sent.link = RewriteRootRelativeUrl(link)
            /\ ~(answer.element = "script" /\ IsViteClientResourcePath(link))
        BY <1>3, <1>13, <2>3
      <3>2. RewriteRootRelativeUrl(sent.link) = sent.link
            /\ (IsViteClientResourcePath(sent.link) <=> IsViteClientResourcePath(link))
        BY <1>1, <3>1 DEF RewriteRootRelativeUrl, IsViteClientResourcePath, Link
      <3>3. RewriteElement(answer.element, sent.link) = sent.link
        BY <3>1, <3>2 DEF RewriteElement
      <3>4. sent = [kind |-> "html", link |-> sent.link]
        BY <2>3 DEF PreparePreviewResponse, sent
      <3> QED
        BY <2>1, <2>3, <3>3, <3>4 DEF PreparePreviewResponse
    <2>4. CASE answer.kind \notin {"redirect", "html"}
      BY <1>3, <1>13, <2>4
    <2> QED
      BY <2>2, <2>3, <2>4
  <1> HIDE DEF asked, plain, twice, here
  <1>14. UrlsAgree(answer) =
           /\ sent.kind = "redirect" => here /\ asked = Asked(sent.link, <<"redirect">>)
           /\ sent.kind = "unavailable" <=>
                answer.kind = "redirect" /\ link.form \in {"none", "absolute", "host"}
           /\ here /\ ".." \notin ToSet(path) =>
                /\ asked = Base \o plain
                /\ ContentHandler(asked) = IF plain = <<"client">> THEN "stub" ELSE "vite"
           /\ here /\ ContentHandler(asked) # "not_found" => IsPrefix(Base, asked)
           /\ answer.kind = "html" /\ sent.link = NoLink =>
                answer.element = "script" /\ path = <<"client">>
           /\ sent.link # NoLink => twice = sent
    BY Zenon DEF UrlsAgree, asked, plain, twice, here, sent
  <1> QED
    BY <1>8, <1>9, <1>10, <1>11, <1>12, <1>13, <1>14

-----------------------------------------------------------------------------
(* GitChanges                                                              *)

FieldKinds   == {"changed", "renamed", "renamedTo", "ignored", "unsupported", "previous", "badPrevious",
                 "none"}
StatusFields == [kind : FieldKinds]
StatusChars  == StatusFields \cup {Nul}
StatusStates == [entries : Seq(FieldKinds), truncated : BOOLEAN, unsupported : BOOLEAN,
                 mode : {"record", "previous", "dropped", "stop", "invalid"},
                 open : StatusFields]

StatusFoldGoes(base, s) ==
    \E G \in [0 .. Len(s) -> StatusStates] :
        /\ G[0] = base
        /\ \A i \in 1 .. Len(s) : G[i] = ReadStatus(G[i - 1], s[i])
        /\ FoldLeft(ReadStatus, base, s) = G[Len(s)]

\* Character by character
LEMMA StatusFold ==
    ASSUME NEW base \in StatusStates, NEW s \in Seq(StatusChars)
    PROVE  StatusFoldGoes(base, s)
  <1> DEFINE f == [q \in StatusStates \X StatusChars |-> ReadStatus(q[1], q[2])]
             Step(H) == [t \in SUBSET DOMAIN s |->
                           IF t = {} THEN base
                           ELSE ReadStatus(H[t \ {Max(t)}], s[Max(t)])]
             F == CHOOSE H : H = Step(H)
  <1>1. FoldLeft(ReadStatus, base, s) = F[DOMAIN s]
    BY DEF FoldLeft, MapThenFoldSet
  <1>2. ASSUME NEW p \in StatusStates, NEW c \in StatusChars PROVE ReadStatus(p, c) \in StatusStates
    <2>1. p.open \in StatusFields /\ NoField \in StatusFields
      BY DEF StatusStates, StatusFields, FieldKinds, NoField, Field
    <2>2. ASSUME NEW q \in StatusFields PROVE ReadField(p, q) \in StatusStates
      <3>1. \A k \in FieldKinds : Append(p.entries, k) \in Seq(FieldKinds)
        BY AppendProperties DEF StatusStates
      <3>2. q.kind \in FieldKinds /\ "renamed" \in FieldKinds
        BY DEF StatusFields, FieldKinds
      <3>3. p.entries \in Seq(FieldKinds) /\ Append(p.entries, "renamed") \in Seq(FieldKinds)
            /\ Append(p.entries, q.kind) \in Seq(FieldKinds)
        BY <3>1, <3>2 DEF StatusStates
      <3> QED
        BY <3>3 DEF ReadField, AwaitsPrevious, StatusStates
    <2>3. ReadField(p, p.open) \in StatusStates
      BY <2>1, <2>2
    <2>4. c # Nul => c \in StatusFields
      BY DEF StatusChars
    <2> HIDE DEF Nul, NoField
    <2> QED
      BY <2>1, <2>3, <2>4 DEF ReadStatus, StatusStates
  <1>3. base \in StatusStates
    OBVIOUS
  <1>4. \A r \in StatusStates, x \in StatusChars : f[<<r, x>>] = ReadStatus(r, x)
    OBVIOUS
  <1>5. Foldable(StatusStates, StatusChars, f, base, s)
    BY <1>2, <1>3 DEF Foldable
  <1> HIDE DEF f
  <1>6. Len(s) \in Nat /\ DOMAIN s = 1 .. Len(s) /\ \A i \in 1 .. Len(s) : s[i] \in StatusChars
    BY LenProperties, ElementOfSeq
  <1>7. \A t \in SUBSET DOMAIN s :
           t # {} => s[Max(t)] \in StatusChars /\ t \ {Max(t)} \in SUBSET DOMAIN s
    BY <1>6, MaxIsIn
  <1>8. HasFold(StatusStates, f, base, s)
    BY <1>5, FoldExists
  <1>9. PICK K \in [SUBSET DOMAIN s -> StatusStates] : K = Folds(K, f, base, s)
    BY <1>8 DEF HasFold
  <1>10. Step(K) = Folds(K, f, base, s)
    BY <1>4, <1>7 DEF Folds
  <1>11. F = Step(F)
    BY <1>9, <1>10
  <1> HIDE DEF F
  <1>12. F[{}] = base
    BY <1>11
  <1>13. IsFold(F, StatusStates, f, base, s)
    <2>1. ASSUME NEW t \in SUBSET DOMAIN s, t # {}, F[t \ {Max(t)}] \in StatusStates
          PROVE  F[t] = f[<<F[t \ {Max(t)}], s[Max(t)]>>]
      <3>1. F[t] = ReadStatus(F[t \ {Max(t)}], s[Max(t)])
        BY <1>11, <2>1
      <3>2. s[Max(t)] \in StatusChars
        BY <1>7, <2>1
      <3> HIDE DEF Step
      <3> QED
        BY <1>4, <2>1, <3>1, <3>2
    <2> HIDE DEF Step
    <2> QED
      BY <1>12, <2>1 DEF IsFold
  <1>14. GivesAlong(F, StatusStates, f, base, s)
    BY <1>5, <1>13, FoldGives
  <1>15. PICK G \in [0 .. Len(s) -> StatusStates] : Along(G, f, base, s) /\ F[DOMAIN s] = G[Len(s)]
    BY <1>14 DEF GivesAlong
  <1>16. \A i \in 1 .. Len(s) : G[i - 1] \in StatusStates
    <2>1. \A i \in 1 .. Len(s) : i - 1 \in 0 .. Len(s)
      BY <1>6
    <2> QED
      BY <2>1
  <1>17. \A i \in 1 .. Len(s) : G[i] = ReadStatus(G[i - 1], s[i])
    BY <1>4, <1>6, <1>15, <1>16 DEF Along
  <1> QED
    BY <1>1, <1>15, <1>17 DEF Along, StatusFoldGoes

LEMMA StatusFoldStep ==
    ASSUME NEW base \in StatusStates, NEW s \in Seq(StatusChars), NEW x \in StatusChars
    PROVE  /\ FoldLeft(ReadStatus, base, s) \in StatusStates
           /\ FoldLeft(ReadStatus, base, Append(s, x)) =
                 ReadStatus(FoldLeft(ReadStatus, base, s), x)
  <1> DEFINE t == Append(s, x)
  <1>1. /\ t \in Seq(StatusChars) /\ Len(t) = Len(s) + 1 /\ t[Len(s) + 1] = x /\ Len(s) \in Nat
        /\ \A i \in 1 .. Len(s) : t[i] = s[i]
    BY AppendProperties, LenProperties
  <1> HIDE DEF t
  <1> StatusFoldGoes(base, s)
    BY StatusFold
  <1> StatusFoldGoes(base, t)
    BY <1>1, StatusFold
  <1>2. PICK G \in [0 .. Len(s) -> StatusStates] :
           /\ G[0] = base
           /\ \A i \in 1 .. Len(s) : G[i] = ReadStatus(G[i - 1], s[i])
           /\ FoldLeft(ReadStatus, base, s) = G[Len(s)]
    BY DEF StatusFoldGoes
  <1>3. PICK H \in [0 .. Len(t) -> StatusStates] :
           /\ H[0] = base
           /\ \A i \in 1 .. Len(t) : H[i] = ReadStatus(H[i - 1], t[i])
           /\ FoldLeft(ReadStatus, base, t) = H[Len(t)]
    BY DEF StatusFoldGoes
  <1> DEFINE T == {i \in 0 .. Len(s) : H[i] = G[i]}
  <1>4. 0 \in T
    BY <1>1, <1>2, <1>3
  <1>5. ASSUME NEW i \in 1 .. Len(s), i - 1 \in T PROVE i \in T
    <2>1. i \in 0 .. Len(s) /\ i \in 1 .. Len(t) /\ t[i] = s[i] /\ H[i - 1] = G[i - 1]
      BY <1>1, <1>5
    <2>2. H[i] = ReadStatus(H[i - 1], t[i])
      BY <1>3, <2>1
    <2>3. G[i] = ReadStatus(G[i - 1], s[i])
      BY <1>2
    <2>4. H[i] = G[i]
      BY <2>1, <2>2, <2>3
    <2> QED
      BY <2>1, <2>4
  <1> HIDE DEF T
  <1>6. \A i \in 0 .. Len(s) : i \in T
    BY <1>1, <1>4, <1>5, Reaches
  <1>7. H[Len(s)] = G[Len(s)] /\ G[Len(s)] \in StatusStates
    BY <1>1, <1>2, <1>6 DEF T
  <1>8. Len(s) + 1 \in 1 .. Len(t) /\ (Len(s) + 1) - 1 = Len(s)
    BY <1>1
  <1>9. H[Len(s) + 1] = ReadStatus(H[Len(s)], x)
    BY <1>1, <1>3, <1>8
  <1>10. FoldLeft(ReadStatus, base, t) = ReadStatus(FoldLeft(ReadStatus, base, s), x)
    BY <1>1, <1>2, <1>3, <1>7, <1>9
  <1> QED
    BY <1>2, <1>7, <1>10 DEF t

LEMMA StatusFoldNone ==
    ASSUME NEW base \in StatusStates
    PROVE  FoldLeft(ReadStatus, base, <<>>) = base
  <1> StatusFoldGoes(base, <<>>)
    BY StatusFold, EmptySeq
  <1>1. Len(<<>>) = 0
    BY EmptySeq
  <1> QED
    BY <1>1 DEF StatusFoldGoes

LEMMA FieldsAre ==
    /\ \A k \in FieldKinds : /\ Field(k) \in StatusFields /\ Field(k) \in StatusChars
                             /\ Field(k) # Nul /\ Field(k).kind = k
                             /\ (Field(k) = NoField <=> k = "none")
    /\ Nul \in StatusChars /\ NoField \in StatusFields
  <1>1. \A k \in FieldKinds : Field(k).kind = k /\ Field(k) \in StatusFields /\ k # "nul"
    BY DEF Field, StatusFields, FieldKinds
  <1>2. Nul.kind = "nul" /\ NoField.kind = "none"
    BY DEF Nul, NoField, Field
  <1>3. NoField = Field("none") /\ "none" \in FieldKinds /\ Nul \in StatusChars
    BY DEF NoField, FieldKinds, StatusChars
  <1> QED
    BY <1>1, <1>2, <1>3 DEF StatusChars

GitShown       == {"changed", "renamed"}
ShownOf(ss, k) == Selected(First(ss, k), GitShown)

\* What has been read after k entries, and within the next one
AfterEntries(p, ss, k, t) ==
    /\ p \in StatusStates /\ p.open = NoField
    /\ \/ /\ p.mode = "record" /\ p.entries = ShownOf(ss, k) /\ Len(p.entries) <= MaxStatusEntries
          /\ p.truncated = t
          /\ (p.unsupported <=> \E i \in 1 .. k : ss[i] \in UnsupportedEntries)
       \/ /\ p.mode = "stop" /\ p.truncated /\ Len(p.entries) = MaxStatusEntries
          /\ \E j \in 0 .. k : p.entries = ShownOf(ss, j)
WithinEntry(p, ss, k, t) ==
    /\ p \in StatusStates /\ p.mode # "invalid" /\ Len(p.entries) <= MaxStatusEntries
    /\ t => p.truncated
    /\ \E j \in 0 .. k : p.entries = ShownOf(ss, j)

LEMMA AfterIsWithin ==
    ASSUME NEW p, NEW ss, NEW k \in Nat, NEW t, AfterEntries(p, ss, k, t)
    PROVE  WithinEntry(p, ss, k, t)
  <1>1. k \in 0 .. k /\ MaxStatusEntries <= MaxStatusEntries
    BY StatusAssumption
  <1> QED
    BY <1>1 DEF AfterEntries, WithinEntry

\* An entry that takes one field is read.
LEMMA PlainEntry ==
    ASSUME NEW ss \in Seq(GitStatuses), NEW k \in 1 .. Len(ss), NEW t \in BOOLEAN,
           NEW p, AfterEntries(p, ss, k - 1, t), ss[k] \notin Renames
    PROVE  LET p1 == ReadStatus(p, Field(ss[k]))
               p2 == ReadStatus(p1, Nul)
           IN  WithinEntry(p1, ss, k, t) /\ AfterEntries(p2, ss, k, t)
  <1> DEFINE e  == ss[k]
             p1 == [p EXCEPT !.open = Field(e)]
             p2 == [ReadField(p1, Field(e)) EXCEPT !.open = NoField]
  <1>1. e \in {"changed", "ignored", "unsupported"} /\ Len(ss) \in Nat
    BY ElementOfSeq, LenProperties DEF GitStatuses
  <1>0. e \in UnsupportedEntries <=> e = "unsupported"
    BY <1>1 DEF UnsupportedEntries
  <1>2. e \in FieldKinds
    BY <1>1 DEF FieldKinds
  <1> HIDE DEF e
  <1>3. /\ Field(e) \in StatusFields /\ Field(e) # Nul /\ Field(e).kind = e
        /\ NoField \in StatusFields
    BY <1>2, FieldsAre
  <1>4. p \in StatusStates
    BY DEF AfterEntries
  <1>5. p1 \in StatusStates /\ p1.open = Field(e) /\ p1.mode = p.mode /\ p1.entries = p.entries
        /\ p1.truncated = p.truncated /\ p1.unsupported = p.unsupported
    BY <1>3, <1>4 DEF StatusStates
  <1> HIDE DEF p1
  <1>6. ReadStatus(p, Field(e)) = p1
    BY <1>3 DEF ReadStatus, p1
  <1>7. ReadStatus(p1, Nul) = p2
    BY <1>5 DEF ReadStatus
  <1>8. k - 1 \in Nat /\ k \in Nat /\ \A j \in 0 .. k - 1 : j \in 0 .. k
    BY <1>1
  <1>9. WithinEntry(p, ss, k - 1, t)
    BY <1>8, AfterIsWithin
  <1>10. WithinEntry(p1, ss, k, t)
    BY <1>5, <1>8, <1>9 DEF WithinEntry
  <1>11. ShownOf(ss, k) = IF e \in GitShown THEN Append(ShownOf(ss, k - 1), e)
                          ELSE ShownOf(ss, k - 1)
    BY SelectedStep DEF ShownOf, e
  <1>12. (\E i \in 1 .. k : ss[i] \in UnsupportedEntries)
            <=> (\E i \in 1 .. k - 1 : ss[i] \in UnsupportedEntries) \/ e = "unsupported"
    <2>1. k \in 1 .. k /\ \A i \in 1 .. k : i = k \/ i \in 1 .. k - 1
      BY <1>8
    <2>2. \A i \in 1 .. k - 1 : i \in 1 .. k
      BY <1>8
    <2> QED
      BY <1>0, <2>1, <2>2 DEF e
  <1>13. AfterEntries(p2, ss, k, t)
    <2> DEFINE r == ReadField(p1, Field(e))
    <2>1. CASE p.mode = "stop"
      <3>1. r = p1
        BY <1>5, <2>1 DEF ReadField, AwaitsPrevious
      <3>2. p2 \in StatusStates /\ p2.open = NoField /\ p2.mode = p1.mode /\ p2.entries = p1.entries
            /\ p2.truncated = p1.truncated
        BY <1>3, <1>5, <3>1 DEF StatusStates
      <3> HIDE DEF p2
      <3> QED
        BY <1>5, <1>8, <2>1, <3>2 DEF AfterEntries
    <2>2. CASE p.mode = "record" /\ Len(p.entries) >= MaxStatusEntries
      <3>1. r = [p1 EXCEPT !.mode = "stop", !.truncated = TRUE]
        BY <1>5, <2>2 DEF ReadField, AwaitsPrevious
      <3>2. p2 \in StatusStates /\ p2.open = NoField /\ p2.mode = "stop" /\ p2.entries = p1.entries
            /\ p2.truncated
        BY <1>3, <1>5, <3>1 DEF StatusStates
      <3> HIDE DEF p2
      <3>3. Len(p.entries) = MaxStatusEntries
        <4>1. p.entries \in Seq(FieldKinds)
          BY <1>4 DEF StatusStates
        <4>2. Len(p.entries) \in Nat
          BY <4>1, LenProperties
        <4> QED
          BY <1>9, <2>2, <4>2, StatusAssumption DEF WithinEntry
      <3>4. p.entries = ShownOf(ss, k - 1) /\ k - 1 \in 0 .. k
        BY <1>8, <2>2 DEF AfterEntries
      <3> QED
        BY <1>5, <3>2, <3>3, <3>4 DEF AfterEntries
    <2>3. CASE p.mode = "record" /\ ~(Len(p.entries) >= MaxStatusEntries)
      <3>1. /\ p.entries = ShownOf(ss, k - 1) /\ p.truncated = t
            /\ (p.unsupported <=> \E i \in 1 .. k - 1 : ss[i] \in UnsupportedEntries)
        BY <2>3 DEF AfterEntries
      <3>2. r = CASE e = "ignored"     -> p1
                  [] e = "unsupported" -> [p1 EXCEPT !.unsupported = TRUE]
                  [] OTHER             -> [p1 EXCEPT !.entries = Append(@, e)]
        BY <1>1, <1>3, <1>5, <2>3 DEF ReadField, AwaitsPrevious
      <3>3. p1.entries \in Seq(FieldKinds)
        BY <1>5 DEF StatusStates
      <3>4. /\ Append(p1.entries, e) \in Seq(FieldKinds)
            /\ Len(Append(p1.entries, e)) = Len(p1.entries) + 1 /\ Len(p1.entries) \in Nat
        BY <1>2, <3>3, AppendProperties, LenProperties
      <3>5. Len(p1.entries) + 1 <= MaxStatusEntries /\ Len(p1.entries) <= MaxStatusEntries
        BY <1>5, <2>3, <3>4, StatusAssumption
      <3>6. /\ p2 \in StatusStates /\ p2.open = NoField /\ p2.mode = "record" /\ p2.truncated = t
            /\ p2.entries = (IF e = "changed" THEN Append(p1.entries, e) ELSE p1.entries)
            /\ p2.unsupported = (IF e = "unsupported" THEN TRUE ELSE p1.unsupported)
        <4>1. CASE e = "ignored"
          BY <1>3, <1>5, <2>3, <3>1, <3>2, <4>1 DEF StatusStates
        <4>2. CASE e = "unsupported"
          BY <1>3, <1>5, <2>3, <3>1, <3>2, <4>2 DEF StatusStates
        <4>3. CASE e = "changed"
          BY <1>3, <1>5, <2>3, <3>1, <3>2, <3>4, <4>3 DEF StatusStates
        <4> QED
          BY <1>1, <4>1, <4>2, <4>3
      <3> HIDE DEF p2, r
      <3>7. p2.entries = ShownOf(ss, k)
        BY <1>1, <1>5, <1>11, <3>1, <3>6 DEF GitShown
      <3>8. Len(p2.entries) <= MaxStatusEntries
        BY <3>4, <3>5, <3>6
      <3>9. p2.unsupported <=> \E i \in 1 .. k : ss[i] \in UnsupportedEntries
        BY <1>5, <1>12, <3>1, <3>6
      <3> QED
        BY <3>6, <3>7, <3>8, <3>9 DEF AfterEntries
    <2> QED
      BY <2>1, <2>2, <2>3 DEF AfterEntries
  <1> QED
    BY <1>6, <1>7, <1>10, <1>13 DEF e

\* An entry that takes two is read.
LEMMA RenamedEntry ==
    ASSUME NEW ss \in Seq(GitStatuses), NEW k \in 1 .. Len(ss), NEW t \in BOOLEAN,
           NEW p, AfterEntries(p, ss, k - 1, t), ss[k] \in Renames
    PROVE  LET p1 == ReadStatus(p, RenamedRecord(ss[k]))
               p2 == ReadStatus(p1, Nul)
               p3 == ReadStatus(p2, PreviousPath(ss[k]))
               p4 == ReadStatus(p3, Nul)
           IN  /\ WithinEntry(p1, ss, k, t) /\ WithinEntry(p2, ss, k, t)
               /\ WithinEntry(p3, ss, k, t)
               /\ AfterEntries(p4, ss, k, t)
  <1> DEFINE e  == ss[k]
             f  == RenamedRecord(e)
             g  == PreviousPath(e)
             p1 == [p EXCEPT !.open = f]
             p2 == [ReadField(p1, f) EXCEPT !.open = NoField]
             p3 == [p2 EXCEPT !.open = g]
             p4 == [ReadField(p3, g) EXCEPT !.open = NoField]
  <1>0. e \in Renames /\ (e = "renamed" <=> e \notin UnsupportedEntries)
        /\ (e = "renamed" <=> e \in GitShown)
    BY DEF Renames, UnsupportedEntries, GitShown
  <1> HIDE DEF e
  <1>1. /\ f \in StatusFields /\ f # Nul /\ f.kind \in {"renamed", "renamedTo"}
        /\ g \in StatusFields /\ g # Nul /\ g.kind \in {"previous", "badPrevious"}
        /\ NoField \in StatusFields
        /\ e = "renamed" <=> f.kind = "renamed" /\ g.kind = "previous"
    BY <1>0, FieldsAre DEF FieldKinds, RenamedRecord, PreviousPath, Renames
  <1> HIDE DEF f, g
  <1>2. Len(ss) \in Nat
    BY LenProperties
  <1>3. p \in StatusStates
    BY DEF AfterEntries
  <1>4. p1 \in StatusStates /\ p1.open = f /\ p1.mode = p.mode /\ p1.entries = p.entries
        /\ p1.truncated = p.truncated /\ p1.unsupported = p.unsupported
    BY <1>1, <1>3 DEF StatusStates
  <1> HIDE DEF p1
  <1>5. ReadStatus(p, f) = p1 /\ ReadStatus(p1, Nul) = p2
    BY <1>1, <1>4 DEF ReadStatus, p1
  <1>6. k - 1 \in Nat /\ k \in Nat /\ k - 1 \in 0 .. k /\ \A j \in 0 .. k - 1 : j \in 0 .. k
    BY <1>2
  <1>7. WithinEntry(p, ss, k - 1, t)
    BY <1>6, AfterIsWithin
  <1>8. WithinEntry(p, ss, k, t)
    BY <1>6, <1>7 DEF WithinEntry
  <1>9. ShownOf(ss, k) = IF e = "renamed" THEN Append(ShownOf(ss, k - 1), "renamed")
                         ELSE ShownOf(ss, k - 1)
    <2>1. ShownOf(ss, k) = IF e \in GitShown THEN Append(ShownOf(ss, k - 1), e)
                           ELSE ShownOf(ss, k - 1)
      BY SelectedStep DEF ShownOf, e
    <2> QED
      BY <1>0, <2>1
  <1>10. (\E i \in 1 .. k : ss[i] \in UnsupportedEntries)
            <=> (\E i \in 1 .. k - 1 : ss[i] \in UnsupportedEntries) \/ e # "renamed"
    <2>1. k \in 1 .. k /\ \A i \in 1 .. k : i = k \/ i \in 1 .. k - 1
      BY <1>6
    <2>2. \A i \in 1 .. k - 1 : i \in 1 .. k
      BY <1>6
    <2> QED
      BY <1>0, <2>1, <2>2 DEF e
  <1>11. p.entries \in Seq(FieldKinds) /\ Len(p.entries) \in Nat
    BY <1>3, LenProperties DEF StatusStates
  <1>12. /\ Append(p.entries, "renamed") \in Seq(FieldKinds)
         /\ Len(Append(p.entries, "renamed")) = Len(p.entries) + 1
    BY <1>11, AppendProperties DEF FieldKinds
  <1>13. CASE p.mode = "stop" \/ (p.mode = "record" /\ Len(p.entries) >= MaxStatusEntries)
    <2>1. /\ p2 \in StatusStates /\ p2.open = NoField /\ p2.mode = "stop" /\ p2.truncated
          /\ p2.entries = p.entries
      <3>1. CASE p.mode = "stop"
        <4>1. ReadField(p1, f) = p1
          BY <1>4, <3>1 DEF ReadField, AwaitsPrevious
        <4>2. p.truncated
          BY <3>1 DEF AfterEntries
        <4> QED
          BY <1>1, <1>4, <3>1, <4>1, <4>2 DEF StatusStates
      <3>2. CASE p.mode = "record" /\ Len(p.entries) >= MaxStatusEntries
        <4>1. ReadField(p1, f) = [p1 EXCEPT !.mode = "stop", !.truncated = TRUE]
          BY <1>4, <3>2 DEF ReadField, AwaitsPrevious
        <4> QED
          BY <1>1, <1>4, <4>1 DEF StatusStates
      <3> QED
        BY <1>13, <3>1, <3>2
    <2> HIDE DEF p2
    <2>2. /\ p3 \in StatusStates /\ p3.open = g /\ p3.mode = "stop" /\ p3.truncated
          /\ p3.entries = p.entries
      BY <1>1, <2>1 DEF StatusStates
    <2> HIDE DEF p3
    <2>3. ReadStatus(p2, g) = p3 /\ ReadStatus(p3, Nul) = p4
      BY <1>1, <2>2 DEF ReadStatus, p3
    <2>4. ReadField(p3, g) = p3
      BY <2>2 DEF ReadField, AwaitsPrevious
    <2>5. /\ p4 \in StatusStates /\ p4.open = NoField /\ p4.mode = "stop" /\ p4.truncated
          /\ p4.entries = p.entries
      BY <1>1, <2>2, <2>4 DEF StatusStates
    <2> HIDE DEF p4
    <2>6. Len(p.entries) = MaxStatusEntries
      BY <1>8, <1>11, <1>13, StatusAssumption DEF WithinEntry, AfterEntries
    <2>7. WithinEntry(p1, ss, k, t) /\ WithinEntry(p2, ss, k, t)
               /\ WithinEntry(p3, ss, k, t)
      BY <1>4, <1>8, <2>1, <2>2 DEF WithinEntry
    <2>8. AfterEntries(p4, ss, k, t)
      BY <1>8, <2>5, <2>6 DEF AfterEntries, WithinEntry
    <2> QED
      BY <1>5, <2>3, <2>7, <2>8 DEF f, g, e
  <1>14. CASE p.mode = "record" /\ ~(Len(p.entries) >= MaxStatusEntries)
    <2>1. /\ p.entries = ShownOf(ss, k - 1) /\ p.truncated = t
          /\ (p.unsupported <=> \E i \in 1 .. k - 1 : ss[i] \in UnsupportedEntries)
      BY <1>14 DEF AfterEntries
    <2> DEFINE next == IF f.kind = "renamed" THEN "previous" ELSE "dropped"
    <2>2. ReadField(p1, f) = [p1 EXCEPT !.mode = next]
      BY <1>1, <1>4, <1>14 DEF ReadField, AwaitsPrevious
    <2>3. /\ p2 \in StatusStates /\ p2.open = NoField /\ p2.mode = next /\ p2.truncated = t
          /\ p2.entries = p.entries /\ p2.unsupported = p.unsupported
      BY <1>1, <1>4, <2>1, <2>2 DEF StatusStates
    <2> HIDE DEF p2
    <2>4. /\ p3 \in StatusStates /\ p3.open = g /\ p3.mode = next /\ p3.truncated = t
          /\ p3.entries = p.entries /\ p3.unsupported = p.unsupported
      BY <1>1, <2>3 DEF StatusStates
    <2> HIDE DEF p3
    <2>5. ReadStatus(p2, g) = p3 /\ ReadStatus(p3, Nul) = p4
      BY <1>1, <2>4 DEF ReadStatus, p3
    <2>6. ReadField(p3, g)
            = IF e = "renamed"
              THEN [p3 EXCEPT !.mode = "record", !.entries = Append(@, "renamed")]
              ELSE [p3 EXCEPT !.mode = "record", !.unsupported = TRUE]
      BY <1>1, <2>4 DEF ReadField, AwaitsPrevious
    <2>7. /\ p4 \in StatusStates /\ p4.open = NoField /\ p4.mode = "record" /\ p4.truncated = t
          /\ p4.entries = (IF e = "renamed" THEN Append(p.entries, "renamed") ELSE p.entries)
          /\ p4.unsupported = (IF e = "renamed" THEN p.unsupported ELSE TRUE)
      <3>1. CASE e = "renamed"
        BY <1>1, <1>12, <2>4, <2>6, <3>1 DEF StatusStates
      <3>2. CASE e # "renamed"
        BY <1>1, <2>4, <2>6, <3>2 DEF StatusStates
      <3> QED
        BY <3>1, <3>2
    <2> HIDE DEF p4
    <2>8. WithinEntry(p1, ss, k, t) /\ WithinEntry(p2, ss, k, t)
               /\ WithinEntry(p3, ss, k, t)
      BY <1>4, <1>8, <2>3, <2>4 DEF WithinEntry
    <2>9. Len(p4.entries) <= MaxStatusEntries
      BY <1>11, <1>12, <1>14, <2>7, StatusAssumption
    <2>10. p4.entries = ShownOf(ss, k)
      BY <1>9, <2>1, <2>7
    <2>11. p4.unsupported <=> \E i \in 1 .. k : ss[i] \in UnsupportedEntries
      BY <1>10, <2>1, <2>7
    <2>12. AfterEntries(p4, ss, k, t)
      BY <2>7, <2>9, <2>10, <2>11 DEF AfterEntries
    <2> QED
      BY <1>5, <2>5, <2>8, <2>12 DEF f, g, e
  <1> QED
    BY <1>13, <1>14 DEF AfterEntries

\* What git prints, entry by entry
EntryFields(s) == IF s \in Renames THEN <<RenamedRecord(s), Nul, PreviousPath(s), Nul>>
                  ELSE <<Field(s), Nul>>
Printed(ss)   == [i \in 1 .. Len(ss) |-> EntryFields(ss[i])]

LEMMA EntryFieldsAre ==
    ASSUME NEW s \in GitStatuses
    PROVE  /\ EntryFields(s) \in Seq(StatusChars) /\ EntryFields(s)[2] = Nul
           /\ Len(EntryFields(s)) = (IF s \in Renames THEN 4 ELSE 2)
           /\ s \notin Renames => EntryFields(s)[1] = Field(s)
           /\ s \in Renames => /\ EntryFields(s)[1] = RenamedRecord(s)
                               /\ EntryFields(s)[3] = PreviousPath(s) /\ EntryFields(s)[4] = Nul
  <1>1. /\ Nul \in StatusChars /\ RenamedRecord(s) \in StatusChars /\ PreviousPath(s) \in StatusChars
        /\ s \notin Renames => Field(s) \in StatusChars
    BY FieldsAre DEF GitStatuses, FieldKinds, RenamedRecord, PreviousPath
  <1> DEFINE a == Field(s)
             b == Nul
             c == PreviousPath(s)
             r == RenamedRecord(s)
  <1>2. (s \notin Renames => a \in StatusChars) /\ b \in StatusChars /\ c \in StatusChars
        /\ r \in StatusChars
    BY <1>1
  <1> HIDE DEF a, b, c, r
  <1>3. s \notin Renames =>
        /\ <<a, b>> \in Seq(StatusChars) /\ <<a, b>>[1] = a /\ <<a, b>>[2] = b /\ Len(<<a, b>>) = 2
    BY <1>2
  <1>4. /\ <<r, b, c, b>> \in Seq(StatusChars) /\ <<r, b, c, b>>[1] = r /\ <<r, b, c, b>>[2] = b
        /\ <<r, b, c, b>>[3] = c /\ <<r, b, c, b>>[4] = b /\ Len(<<r, b, c, b>>) = 4
    BY <1>2
  <1> QED
    BY <1>3, <1>4 DEF EntryFields, a, b, c, r

\* What has been read after some characters
StateAfter(t, o) == FoldLeft(ReadStatus, StatusInit(t), o)

LEMMA InitIs == ASSUME NEW t \in BOOLEAN PROVE StatusInit(t) \in StatusStates
  BY FieldsAre, EmptySeq DEF StatusInit, StatusStates

ReadsOn(t, s, b, d) == StateAfter(t, s \o First(b, d))
                         = ReadStatus(StateAfter(t, s \o First(b, d - 1)), b[d])

LEMMA ReadOn ==
    ASSUME NEW t \in BOOLEAN, NEW s \in Seq(StatusChars), NEW b \in Seq(StatusChars),
           NEW d \in 1 .. Len(b)
    PROVE  ReadsOn(t, s, b, d)
  <1> DEFINE u == First(b, d - 1)
             v == s \o u
             base == StatusInit(t)
  <1>1. Len(b) \in Nat /\ d - 1 \in 0 .. Len(b) /\ b[d] \in StatusChars
    BY LenProperties, ElementOfSeq
  <1>2. u \in Seq(StatusChars)
    BY <1>1, FirstIs
  <1>3. First(b, d) = Append(u, b[d])
    BY FirstGrows
  <1> HIDE DEF u
  <1>4. AppendsTo(s, u, b[d])
    BY <1>1, <1>2, AppendToConcat
  <1>5. s \o First(b, d) = Append(v, b[d])
    BY <1>3, <1>4 DEF AppendsTo
  <1>6. v \in Seq(StatusChars)
    BY <1>2, ConcatProperties
  <1>7. base \in StatusStates
    BY InitIs
  <1> HIDE DEF v, base
  <1>8. FoldLeft(ReadStatus, base, Append(v, b[d])) =
           ReadStatus(FoldLeft(ReadStatus, base, v), b[d])
    BY <1>1, <1>6, <1>7, StatusFoldStep
  <1> QED
    BY <1>5, <1>8 DEF ReadsOn, StateAfter, base, v, u

\* Entry by entry, wherever it is cut
ReadUpTo(ss, k, t) ==
    /\ FlattenSeq(First(Printed(ss), k)) \in Seq(StatusChars)
    /\ AfterEntries(StateAfter(t, FlattenSeq(First(Printed(ss), k))), ss, k, t)

ReadWithin(ss, k, d, t) ==
    WithinEntry(StateAfter(t, FlattenSeq(First(Printed(ss), k - 1)) \o First(Printed(ss)[k], d)),
                ss, k, t)

LEMMA PrintedIs ==
    ASSUME NEW ss \in Seq(GitStatuses)
    PROVE  /\ Printed(ss) \in Seq(Seq(StatusChars)) /\ Len(Printed(ss)) = Len(ss)
           /\ FlattenSeq(Printed(ss)) = StatusOutput(ss)
           /\ \A i \in 1 .. Len(ss) : Printed(ss)[i] = EntryFields(ss[i])
  <1>1. Len(ss) \in Nat
    BY LenProperties
  <1>2. \A i \in 1 .. Len(ss) : EntryFields(ss[i]) \in Seq(StatusChars)
    BY ElementOfSeq, EntryFieldsAre
  <1>3. Printed(ss) \in [1 .. Len(ss) -> Seq(StatusChars)]
    BY <1>2 DEF Printed
  <1>4. Printed(ss) \in Seq(Seq(StatusChars)) /\ Len(Printed(ss)) = Len(ss)
    BY <1>1, <1>3
  <1>5. FlattenSeq(Printed(ss)) = StatusOutput(ss)
    BY DEF StatusOutput, Printed, EntryFields
  <1> QED
    BY <1>4, <1>5 DEF Printed

LEMMA EntryIsRead ==
    ASSUME NEW ss \in Seq(GitStatuses), NEW k \in 1 .. Len(ss), NEW t \in BOOLEAN,
           ReadUpTo(ss, k - 1, t)
    PROVE  /\ ReadUpTo(ss, k, t)
           /\ \A d \in 1 .. Len(Printed(ss)[k]) : ReadWithin(ss, k, d, t)
  <1> DEFINE e == ss[k]
             b == EntryFields(e)
             s == FlattenSeq(First(Printed(ss), k - 1))
             P(d) == StateAfter(t, s \o First(b, d))
  <1>1. /\ e \in GitStatuses /\ Len(ss) \in Nat /\ k \in Nat /\ Printed(ss)[k] = b
    BY ElementOfSeq, LenProperties, PrintedIs
  <1>2. s \in Seq(StatusChars) /\ AfterEntries(StateAfter(t, s), ss, k - 1, t)
    BY DEF ReadUpTo
  <1>3. FlattenSeq(First(Printed(ss), k)) = s \o b
    <2>1. Printed(ss) \in Seq(Seq(StatusChars)) /\ k \in 1 .. Len(Printed(ss))
      BY PrintedIs
    <2> QED
      BY <1>1, <2>1, FlattenStep
  <1> HIDE DEF s, b
  <1>4. /\ b \in Seq(StatusChars) /\ b[2] = Nul
        /\ Len(b) = (IF e \in Renames THEN 4 ELSE 2)
        /\ e \notin Renames => b[1] = Field(e)
        /\ e \in Renames => b[1] = RenamedRecord(e) /\ b[3] = PreviousPath(e) /\ b[4] = Nul
    BY <1>1, EntryFieldsAre DEF b
  <1> HIDE DEF e
  <1>5. s \o b \in Seq(StatusChars) /\ First(b, Len(b)) = b /\ First(b, 0) = <<>>
        /\ s \o <<>> = s
    BY <1>2, <1>4, ConcatProperties, ConcatEmptySeq, FirstGrows
  <1>6. P(0) = StateAfter(t, s)
    BY <1>5
  <1>7. ASSUME NEW d \in 1 .. Len(b) PROVE P(d) = ReadStatus(P(d - 1), b[d])
    <2>1. ReadsOn(t, s, b, d)
      BY <1>2, <1>4, ReadOn
    <2> QED
      BY <2>1 DEF ReadsOn
  <1>8. P(Len(b)) = StateAfter(t, s \o b)
    BY <1>5
  <1> HIDE DEF P
  <1>9. /\ \A d \in 1 .. Len(b) : WithinEntry(P(d), ss, k, t)
        /\ AfterEntries(P(Len(b)), ss, k, t)
    <2>1. CASE e \notin Renames
      <3>1. /\ Len(b) = 2 /\ 1 \in 1 .. Len(b) /\ 2 \in 1 .. Len(b) /\ 1 - 1 = 0 /\ 2 - 1 = 1
            /\ \A d \in 1 .. Len(b) : d = 1 \/ d = 2
        BY <1>4, <2>1
      <3>2. P(1) = ReadStatus(P(0), Field(e)) /\ P(2) = ReadStatus(P(1), Nul)
        BY <1>4, <1>7, <3>1
      <3>3. WithinEntry(P(1), ss, k, t) /\ AfterEntries(P(2), ss, k, t)
        BY <1>2, <1>6, <2>1, <3>2, PlainEntry DEF e
      <3>4. WithinEntry(P(2), ss, k, t)
        BY <1>1, <3>3, AfterIsWithin
      <3> QED
        BY <3>1, <3>3, <3>4
    <2>2. CASE e \in Renames
      <3>1. /\ Len(b) = 4 /\ 1 \in 1 .. Len(b) /\ 2 \in 1 .. Len(b) /\ 3 \in 1 .. Len(b)
            /\ 4 \in 1 .. Len(b) /\ 1 - 1 = 0 /\ 2 - 1 = 1 /\ 3 - 1 = 2 /\ 4 - 1 = 3
            /\ \A d \in 1 .. Len(b) : d = 1 \/ d = 2 \/ d = 3 \/ d = 4
        BY <1>4, <2>2
      <3>2. /\ P(1) = ReadStatus(P(0), RenamedRecord(e)) /\ P(2) = ReadStatus(P(1), Nul)
            /\ P(3) = ReadStatus(P(2), PreviousPath(e)) /\ P(4) = ReadStatus(P(3), Nul)
        BY <1>4, <1>7, <2>2, <3>1
      <3>3. /\ WithinEntry(P(1), ss, k, t) /\ WithinEntry(P(2), ss, k, t)
            /\ WithinEntry(P(3), ss, k, t)
            /\ AfterEntries(P(4), ss, k, t)
        BY <1>2, <1>6, <2>2, <3>2, RenamedEntry DEF e
      <3>4. WithinEntry(P(4), ss, k, t)
        BY <1>1, <3>3, AfterIsWithin
      <3> QED
        BY <3>1, <3>3, <3>4
    <2> QED
      BY <2>1, <2>2
  <1>10. ReadUpTo(ss, k, t)
    BY <1>3, <1>5, <1>8, <1>9 DEF ReadUpTo
  <1> QED
    BY <1>1, <1>9, <1>10 DEF ReadWithin, P, s

LEMMA AllIsRead ==
    ASSUME NEW ss \in Seq(GitStatuses), NEW t \in BOOLEAN
    PROVE  \A k \in 0 .. Len(ss) : ReadUpTo(ss, k, t)
  <1> DEFINE T == {k \in 0 .. Len(ss) : ReadUpTo(ss, k, t)}
  <1>1. Len(ss) \in Nat
    BY LenProperties
  <1>2. 0 \in T
    <2>1. FlattenSeq(First(Printed(ss), 0)) = <<>>
      BY PrintedIs, FlattenIs
    <2>2. StateAfter(t, <<>>) = StatusInit(t)
      <3> DEFINE base == StatusInit(t)
      <3>1. base \in StatusStates
        BY InitIs
      <3> HIDE DEF base
      <3>2. FoldLeft(ReadStatus, base, <<>>) = base
        BY <3>1, StatusFoldNone
      <3> QED
        BY <3>2 DEF StateAfter, base
    <2>3. ShownOf(ss, 0) = <<>>
      BY SelectedIs DEF ShownOf
    <2>4. AfterEntries(StatusInit(t), ss, 0, t)
      BY <2>3, InitIs, StatusAssumption, EmptySeq DEF AfterEntries, StatusInit
    <2> QED
      <3>1. <<>> \in Seq(StatusChars)
        BY EmptySeq
      <3>2. ReadUpTo(ss, 0, t)
        BY <2>1, <2>2, <2>4, <3>1 DEF ReadUpTo
      <3> QED
        BY <1>1, <3>2
  <1>3. ASSUME NEW k \in 1 .. Len(ss), k - 1 \in T PROVE k \in T
    BY <1>1, <1>3, EntryIsRead
  <1> HIDE DEF T
  <1>4. \A k \in 0 .. Len(ss) : k \in T
    BY <1>1, <1>2, <1>3, Reaches
  <1> QED
    BY <1>4 DEF T

\* What is shown of the first entries is the beginning of what is shown of all.
LEMMA ShownIsPrefix ==
    ASSUME NEW ss \in Seq(GitStatuses), NEW j \in 0 .. Len(ss)
    PROVE  IsPrefix(ShownOf(ss, j), ShownOf(ss, Len(ss)))
  <1> DEFINE n == Len(ss)
             T == {k \in 0 .. n : k >= j =>
                     \E c \in 0 .. Len(ShownOf(ss, k)) : First(ShownOf(ss, k), c) = ShownOf(ss, j)}
  <1>1. n \in Nat /\ \A k \in 0 .. n : ShownOf(ss, k) \in Seq(GitStatuses)
    BY LenProperties, SelectedIs DEF ShownOf
  <1>2. \A k \in 0 .. n : Len(ShownOf(ss, k)) \in Nat
    BY <1>1, LenProperties
  <1>3. j \in T
    <2>1. First(ShownOf(ss, j), Len(ShownOf(ss, j))) = ShownOf(ss, j)
      BY <1>1, FirstGrows
    <2>2. Len(ShownOf(ss, j)) \in 0 .. Len(ShownOf(ss, j))
      BY <1>2
    <2> QED
      BY <2>1, <2>2
  <1>4. 0 \in T
    <2>1. 0 >= j => j = 0
      BY <1>1
    <2> QED
      BY <1>1, <1>3, <2>1
  <1>5. ASSUME NEW k \in 1 .. n, k - 1 \in T PROVE k \in T
    <2>1. k \in 0 .. n /\ k - 1 \in 0 .. n
      BY <1>1
    <2>2. CASE k = j
      BY <1>3, <2>2
    <2>3. CASE k < j
      BY <1>1, <2>1, <2>3
    <2>4. CASE k > j
      <3>1. k - 1 >= j
        BY <1>1, <2>4
      <3>2. PICK c \in 0 .. Len(ShownOf(ss, k - 1)) : First(ShownOf(ss, k - 1), c) = ShownOf(ss, j)
        BY <1>5, <3>1
      <3>3. ShownOf(ss, k) = IF ss[k] \in GitShown THEN Append(ShownOf(ss, k - 1), ss[k])
                             ELSE ShownOf(ss, k - 1)
        BY SelectedStep DEF ShownOf
      <3>4. CASE ss[k] \notin GitShown
        BY <2>1, <3>2, <3>3, <3>4
      <3>5. CASE ss[k] \in GitShown
        <4> DEFINE a == ShownOf(ss, k - 1)
                   x == ss[k]
        <4>1. a \in Seq(GitStatuses) /\ <<x>> \in Seq(GitStatuses) /\ Append(a, x) = a \o <<x>>
              /\ Len(Append(a, x)) = Len(a) + 1 /\ Len(a) \in Nat
          <5>1. a \in Seq(GitStatuses) /\ x \in GitStatuses
            BY <1>1, <2>1, ElementOfSeq
          <5> HIDE DEF a, x
          <5> QED
            BY <5>1, AppendIsConcat, AppendProperties, LenProperties
        <4>2. First(a \o <<x>>, c) = First(a, c)
          <5> HIDE DEF a, x
          <5>1. \A d \in 0 .. Len(a) : First(a \o <<x>>, d) = First(a, d)
            BY <4>1, FirstOfConcat
          <5> QED
            BY <5>1 DEF a
        <4>3. c \in 0 .. Len(ShownOf(ss, k))
          BY <3>3, <3>5, <4>1
        <4> QED
          BY <2>1, <3>2, <3>3, <3>5, <4>1, <4>2, <4>3
      <3> QED
        BY <3>4, <3>5
    <2> QED
      BY <1>1, <2>2, <2>3, <2>4
  <1>6. n \in T
    <2> HIDE DEF T
    <2>1. \A k \in 0 .. n : k \in T
      BY <1>1, <1>4, <1>5, Reaches
    <2> QED
      BY <1>1, <2>1
  <1>7. PICK c \in 0 .. Len(ShownOf(ss, n)) : First(ShownOf(ss, n), c) = ShownOf(ss, j)
    BY <1>1, <1>6
  <1> DEFINE s == ShownOf(ss, j)
             u == ShownOf(ss, n)
  <1>8. s \in Seq(GitStatuses) /\ u \in Seq(GitStatuses) /\ Len(u) \in Nat
    <2>1. n \in 0 .. n
      BY <1>1
    <2> QED
      BY <1>1, <1>2, <2>1
  <1>9. Len(First(u, c)) = c /\ c <= Len(u)
    <2> HIDE DEF u
    <2>1. c \in 0 .. Len(u)
      BY DEF u
    <2> QED
      BY <1>8, <2>1, FirstIs
  <1>10. Len(s) = c /\ First(s, Len(s)) = s
    BY <1>7, <1>8, <1>9, FirstGrows
  <1> QED
    BY <1>7, <1>9, <1>10 DEF IsPrefix, First

\* The changes of a Project (src/runtime/e2b-changes.ts, src/runtime/git-changes.ts), of any
\* number of entries and wherever the output is cut: the first entries are shown, each one
\* whole, and it is said whenever some are missing.
THEOREM GitChangesCorrect ==
    ASSUME NEW ss \in Seq(GitStatuses), NEW cut \in 0 .. Len(StatusOutput(ss)),
           NEW exit \in {0, 128, 141}
    PROVE  ChangesAgree(ss, cut, exit)
  <1> DEFINE output == StatusOutput(ss)
             n      == Len(ss)
             t      == cut < Len(output)
             p      == StateAfter(t, First(output, cut))
             all    == Selected(ss, GitShown)
             result == ListChanges(output, cut, exit)
             whole  == cut = Len(output)
  <1>1. /\ Printed(ss) \in Seq(Seq(StatusChars)) /\ Len(Printed(ss)) = n /\ n \in Nat
        /\ output = FlattenSeq(Printed(ss)) /\ First(Printed(ss), n) = Printed(ss)
        /\ \A i \in 1 .. n : Printed(ss)[i] \in Seq(StatusChars)
    <2>1. Printed(ss) \in Seq(Seq(StatusChars)) /\ Len(Printed(ss)) = n
      BY PrintedIs
    <2>2. First(Printed(ss), n) = Printed(ss)
      BY <2>1, FirstGrows
    <2> QED
      BY <2>1, <2>2, PrintedIs, LenProperties, ElementOfSeq
  <1>2. t \in BOOLEAN
    OBVIOUS
  <1> HIDE DEF t, output
  <1>3. \A k \in 0 .. n : ReadUpTo(ss, k, t)
    BY <1>2, AllIsRead
  <1>4. /\ output \in Seq(StatusChars) /\ Len(output) \in Nat
        /\ AfterEntries(StateAfter(t, output), ss, n, t)
    <2>1. ReadUpTo(ss, n, t)
      BY <1>1, <1>3
    <2>2. output \in Seq(StatusChars)
      BY <1>1, <2>1 DEF ReadUpTo
    <2> QED
      BY <1>1, <2>1, <2>2, LenProperties DEF ReadUpTo
  <1>5. cut \in 0 .. Len(output)
    BY DEF output
  <1>6. all = ShownOf(ss, n)
    BY FirstGrows DEF ShownOf
  <1>7. WithinEntry(p, ss, n, t)
    <2>1. CASE cut = 0
      <3>1. ReadUpTo(ss, 0, t)
        BY <1>1, <1>3
      <3>2. FlattenSeq(First(Printed(ss), 0)) = <<>>
        BY <1>1, FlattenIs
      <3>3. First(output, 0) = <<>>
        BY <1>4, FirstGrows
      <3>4. WithinEntry(p, ss, 0, t)
        BY <2>1, <3>1, <3>2, <3>3, AfterIsWithin DEF ReadUpTo
      <3>5. \A j \in 0 .. 0 : j \in 0 .. n
        BY <1>1
      <3> HIDE DEF p
      <3> QED
        BY <3>4, <3>5 DEF WithinEntry
    <2>2. CASE cut # 0
      <3>1. cut \in 1 .. Len(output)
        BY <1>4, <1>5, <2>2
      <3>2. CutAt(Printed(ss), n, cut)
        BY <1>1, <3>1, CutIs
      <3>3. PICK k \in 1 .. n : \E d \in 1 .. Len(Printed(ss)[k]) :
               First(output, cut) =
                  FlattenSeq(First(Printed(ss), k - 1)) \o First(Printed(ss)[k], d)
        BY <1>1, <3>2 DEF CutAt
      <3>4. PICK d \in 1 .. Len(Printed(ss)[k]) :
               First(output, cut) =
                  FlattenSeq(First(Printed(ss), k - 1)) \o First(Printed(ss)[k], d)
        BY <3>3
      <3>5. ReadUpTo(ss, k - 1, t)
        <4>1. k - 1 \in 0 .. n
          BY <1>1
        <4> QED
          BY <1>3, <4>1
      <3>6. \A i \in 1 .. Len(Printed(ss)[k]) : ReadWithin(ss, k, i, t)
        BY <1>2, <3>5, EntryIsRead
      <3>7. WithinEntry(p, ss, k, t)
        BY <3>4, <3>6 DEF ReadWithin
      <3>8. \A j \in 0 .. k : j \in 0 .. n
        BY <1>1
      <3> HIDE DEF p
      <3> QED
        BY <3>7, <3>8 DEF WithinEntry
    <2> QED
      BY <2>1, <2>2
  <1>8. whole => p = StateAfter(t, output)
    BY <1>4, FirstGrows
  <1> HIDE DEF p, all
  <1>9. /\ p \in StatusStates /\ p.mode # "invalid" /\ Len(p.entries) <= MaxStatusEntries
        /\ t => p.truncated
        /\ \E j \in 0 .. n : p.entries = ShownOf(ss, j)
    BY <1>7 DEF WithinEntry
  <1>10. p.entries \in Seq(FieldKinds) /\ p.truncated \in BOOLEAN /\ p.unsupported \in BOOLEAN
    BY <1>9 DEF StatusStates
  <1>11. IsPrefix(p.entries, all)
    BY <1>6, <1>9, ShownIsPrefix
  <1>12. t <=> ~whole
    BY <1>4, <1>5 DEF t
  <1>13. First(output, cut) = SubSeq(output, 1, cut)
    BY DEF First
  <1>14. result = IF exit # 0 /\ ~(exit = 141 /\ t)
                  THEN [entries |-> <<>>, truncated |-> FALSE, unsupported |-> FALSE,
                        failed |-> TRUE]
                  ELSE [entries     |-> p.entries,
                        truncated   |-> p.truncated \/ p.open # NoField \/ AwaitsPrevious(p),
                        unsupported |-> p.unsupported,
                        failed      |-> p.mode = "invalid"]
    BY <1>13 DEF ListChanges, ParseGitStatusOutput, StateAfter, p, t
  <1> HIDE DEF result, whole
  <1>15. result.failed <=> (exit = 128 \/ (exit = 141 /\ whole))
    <2>5. ASSUME exit = 0 \/ (exit = 141 /\ t) PROVE ~result.failed
      <3>1. result.failed = (p.mode = "invalid")
        BY <1>14, <2>5
      <3> QED
        BY <1>9, <3>1
    <2>1. CASE exit = 0
      BY <2>1, <2>5
    <2>2. CASE exit = 128
      BY <1>14, <2>2
    <2>3. CASE exit = 141 /\ t
      BY <1>12, <2>3, <2>5
    <2>4. CASE exit = 141 /\ ~t
      BY <1>12, <1>14, <2>4
    <2> QED
      BY <2>1, <2>2, <2>3, <2>4
  <1>16. ASSUME ~result.failed
         PROVE  /\ result.entries = p.entries /\ result.unsupported = p.unsupported
                /\ result.truncated = (p.truncated \/ p.open # NoField \/ AwaitsPrevious(p))
    BY <1>14, <1>16
  <1>17. ASSUME whole
         PROVE  /\ Len(all) <= MaxStatusEntries => p.entries = all
                /\ ~p.truncated => /\ p.entries = all
                                   /\ (p.unsupported <=> \E i \in 1 .. n : ss[i] \in UnsupportedEntries)
    <2>1. AfterEntries(p, ss, n, t)
      BY <1>4, <1>8, <1>17
    <2>2. CASE p.mode = "record"
      BY <1>6, <2>1, <2>2 DEF AfterEntries
    <2>3. CASE p.mode # "record"
      <3>1. p.truncated /\ Len(p.entries) = MaxStatusEntries
        BY <2>1, <2>3 DEF AfterEntries
      <3>2. ASSUME Len(all) <= MaxStatusEntries PROVE p.entries = all
        <4>1. all \in Seq(GitStatuses) /\ p.entries \in Seq(FieldKinds)
          <5>1. n \in 0 .. n
            BY <1>1
          <5>2. ShownOf(ss, n) \in Seq(GitStatuses)
            BY <5>1, SelectedIs DEF ShownOf
          <5> QED
            BY <1>6, <1>10, <5>2
        <4>2. Len(all) \in Nat
          BY <4>1, LenProperties
        <4>3. Len(all) = Len(p.entries)
          BY <1>11, <3>1, <3>2, <4>2, StatusAssumption DEF IsPrefix
        <4>4. First(all, Len(all)) = all /\ First(p.entries, Len(p.entries)) = p.entries
          BY <4>1, FirstGrows
        <4> QED
          BY <1>11, <4>3, <4>4 DEF IsPrefix, First
      <3> QED
        BY <3>1, <3>2
    <2> QED
      BY <2>2, <2>3
  <1>18. ASSUME ~whole PROVE p.truncated
    <2>1. t
      BY <1>12, <1>18
    <2> QED
      BY <1>9, <2>1
  <1>19. DOMAIN ss = 1 .. n
    BY LenProperties
  <1> HIDE DEF n
  <1>20. ChangesAgree(ss, cut, exit) =
           /\ result.failed <=> (exit = 128 \/ (exit = 141 /\ whole))
           /\ ~result.failed =>
                 /\ IsPrefix(result.entries, all)
                 /\ Len(result.entries) <= MaxStatusEntries
                 /\ ~result.truncated => result.entries = all
                 /\ whole /\ Len(all) <= MaxStatusEntries => result.entries = all
                 /\ (whole /\ ~result.truncated) =>
                       (result.unsupported <=> \E i \in DOMAIN ss : ss[i] \in UnsupportedEntries)
    BY Zenon DEF ChangesAgree, all, result, whole, GitShown, output
  <1> QED
    BY <1>9, <1>11, <1>15, <1>16, <1>17, <1>18, <1>19, <1>20

-----------------------------------------------------------------------------
(* Conversation                                                            *)

ConvCalls(I, N)  == [id : I, name : N]
Turns(I, N)      == [role : {"system", "user", "assistant", "tool"}, content : {"text", "media"},
                     calls : Seq(ConvCalls(I, N)), answers : I]
ConvStates(I, N) == [refused : BOOLEAN, instructions : Seq({"text", "media"}),
                     messages : Seq(Turns(I, N)), calls : SUBSET ConvCalls(I, N)]

\* What has been taken after some calls of a message, or after some messages
CallsOn(c, s) == FoldLeft(AddCall, c, s)
TurnsOn(s)    == FoldLeft(AddToConversation, ConversationInit, s)

LEMMA RefusedIs ==
    ASSUME NEW I, NEW N
    PROVE  /\ Refused \in ConvStates(I, N) /\ Refused.refused /\ Refused.messages = <<>>
           /\ ~ConversationInit.refused
  <1>1. <<>> \in Seq({"text", "media"}) /\ <<>> \in Seq(Turns(I, N))
    BY EmptySeq
  <1> QED
    BY <1>1 DEF Refused, ConvStates, ConversationInit

CallFoldGoes(I, N, c, s) ==
    \E G \in [0 .. Len(s) -> ConvStates(I, N)] :
        /\ G[0] = c
        /\ \A i \in 1 .. Len(s) : G[i] = AddCall(G[i - 1], s[i])
        /\ CallsOn(c, s) = G[Len(s)]

\* Call by call
LEMMA CallFold ==
    ASSUME NEW I, NEW N, NEW c \in ConvStates(I, N), NEW s \in Seq(ConvCalls(I, N))
    PROVE  CallFoldGoes(I, N, c, s)
  <1> DEFINE f == [q \in ConvStates(I, N) \X ConvCalls(I, N) |-> AddCall(q[1], q[2])]
             Step(H) == [t \in SUBSET DOMAIN s |->
                           IF t = {} THEN c
                           ELSE AddCall(H[t \ {Max(t)}], s[Max(t)])]
             F == CHOOSE H : H = Step(H)
  <1>1. CallsOn(c, s) = F[DOMAIN s]
    BY DEF FoldLeft, MapThenFoldSet, CallsOn
  <1>2. ASSUME NEW r \in ConvStates(I, N), NEW x \in ConvCalls(I, N)
        PROVE  AddCall(r, x) \in ConvStates(I, N)
    <2>1. r.calls \cup {x} \in SUBSET ConvCalls(I, N)
      BY DEF ConvStates
    <2> QED
      BY <2>1, RefusedIs DEF AddCall, ConvStates
  <1>3. c \in ConvStates(I, N)
    OBVIOUS
  <1>4. \A r \in ConvStates(I, N), x \in ConvCalls(I, N) : f[<<r, x>>] = AddCall(r, x)
    OBVIOUS
  <1>5. Foldable(ConvStates(I, N), ConvCalls(I, N), f, c, s)
    BY <1>2, <1>3 DEF Foldable
  <1> HIDE DEF f
  <1>6. Len(s) \in Nat /\ DOMAIN s = 1 .. Len(s) /\ \A i \in 1 .. Len(s) : s[i] \in ConvCalls(I, N)
    BY LenProperties, ElementOfSeq
  <1>7. \A t \in SUBSET DOMAIN s :
           t # {} => s[Max(t)] \in ConvCalls(I, N) /\ t \ {Max(t)} \in SUBSET DOMAIN s
    BY <1>6, MaxIsIn
  <1>8. HasFold(ConvStates(I, N), f, c, s)
    BY <1>5, FoldExists
  <1>9. PICK K \in [SUBSET DOMAIN s -> ConvStates(I, N)] : K = Folds(K, f, c, s)
    BY <1>8 DEF HasFold
  <1>10. Step(K) = Folds(K, f, c, s)
    BY <1>4, <1>7 DEF Folds
  <1>11. F = Step(F)
    BY <1>9, <1>10
  <1> HIDE DEF F
  <1>12. F[{}] = c
    BY <1>11
  <1>13. IsFold(F, ConvStates(I, N), f, c, s)
    <2>1. ASSUME NEW t \in SUBSET DOMAIN s, t # {}, F[t \ {Max(t)}] \in ConvStates(I, N)
          PROVE  F[t] = f[<<F[t \ {Max(t)}], s[Max(t)]>>]
      <3>1. F[t] = AddCall(F[t \ {Max(t)}], s[Max(t)])
        BY <1>11, <2>1
      <3>2. s[Max(t)] \in ConvCalls(I, N)
        BY <1>7, <2>1
      <3> HIDE DEF Step
      <3> QED
        BY <1>4, <2>1, <3>1, <3>2
    <2> HIDE DEF Step
    <2> QED
      BY <1>12, <2>1 DEF IsFold
  <1>14. GivesAlong(F, ConvStates(I, N), f, c, s)
    BY <1>5, <1>13, FoldGives
  <1>15. PICK G \in [0 .. Len(s) -> ConvStates(I, N)] : Along(G, f, c, s) /\ F[DOMAIN s] = G[Len(s)]
    BY <1>14 DEF GivesAlong
  <1>16. \A i \in 1 .. Len(s) : G[i - 1] \in ConvStates(I, N)
    <2>1. \A i \in 1 .. Len(s) : i - 1 \in 0 .. Len(s)
      BY <1>6
    <2> QED
      BY <2>1
  <1>17. \A i \in 1 .. Len(s) : G[i] = AddCall(G[i - 1], s[i])
    BY <1>4, <1>6, <1>15, <1>16 DEF Along
  <1> QED
    BY <1>1, <1>15, <1>17 DEF Along, CallFoldGoes

LEMMA CallFoldStep ==
    ASSUME NEW I, NEW N, NEW c \in ConvStates(I, N), NEW s \in Seq(ConvCalls(I, N)),
           NEW x \in ConvCalls(I, N)
    PROVE  /\ CallsOn(c, s) \in ConvStates(I, N)
           /\ CallsOn(c, Append(s, x)) = AddCall(CallsOn(c, s), x)
  <1> DEFINE t == Append(s, x)
  <1>1. /\ t \in Seq(ConvCalls(I, N)) /\ Len(t) = Len(s) + 1 /\ t[Len(s) + 1] = x /\ Len(s) \in Nat
        /\ \A i \in 1 .. Len(s) : t[i] = s[i]
    BY AppendProperties, LenProperties
  <1> HIDE DEF t
  <1> CallFoldGoes(I, N, c, s)
    BY CallFold
  <1> CallFoldGoes(I, N, c, t)
    BY <1>1, CallFold
  <1>2. PICK G \in [0 .. Len(s) -> ConvStates(I, N)] :
           /\ G[0] = c
           /\ \A i \in 1 .. Len(s) : G[i] = AddCall(G[i - 1], s[i])
           /\ CallsOn(c, s) = G[Len(s)]
    BY DEF CallFoldGoes
  <1>3. PICK H \in [0 .. Len(t) -> ConvStates(I, N)] :
           /\ H[0] = c
           /\ \A i \in 1 .. Len(t) : H[i] = AddCall(H[i - 1], t[i])
           /\ CallsOn(c, t) = H[Len(t)]
    BY DEF CallFoldGoes
  <1> DEFINE T == {i \in 0 .. Len(s) : H[i] = G[i]}
  <1>4. 0 \in T
    BY <1>1, <1>2, <1>3
  <1>5. ASSUME NEW i \in 1 .. Len(s), i - 1 \in T PROVE i \in T
    <2>1. i \in 0 .. Len(s) /\ i \in 1 .. Len(t) /\ t[i] = s[i] /\ H[i - 1] = G[i - 1]
      BY <1>1, <1>5
    <2>2. H[i] = AddCall(H[i - 1], t[i])
      BY <1>3, <2>1
    <2>3. G[i] = AddCall(G[i - 1], s[i])
      BY <1>2
    <2>4. H[i] = G[i]
      BY <2>1, <2>2, <2>3
    <2> QED
      BY <2>1, <2>4
  <1> HIDE DEF T
  <1>6. \A i \in 0 .. Len(s) : i \in T
    BY <1>1, <1>4, <1>5, Reaches
  <1>7. H[Len(s)] = G[Len(s)] /\ G[Len(s)] \in ConvStates(I, N)
    BY <1>1, <1>2, <1>6 DEF T
  <1>8. Len(s) + 1 \in 1 .. Len(t) /\ (Len(s) + 1) - 1 = Len(s)
    BY <1>1
  <1>9. H[Len(s) + 1] = AddCall(H[Len(s)], x)
    BY <1>1, <1>3, <1>8
  <1>10. CallsOn(c, t) = AddCall(CallsOn(c, s), x)
    BY <1>1, <1>2, <1>3, <1>7, <1>9
  <1> QED
    BY <1>2, <1>7, <1>10 DEF t

LEMMA CallFoldNone == ASSUME NEW I, NEW N, NEW c \in ConvStates(I, N) PROVE CallsOn(c, <<>>) = c
  <1> CallFoldGoes(I, N, c, <<>>)
    BY CallFold, EmptySeq
  <1>1. Len(<<>>) = 0
    BY EmptySeq
  <1> QED
    BY <1>1 DEF CallFoldGoes

TurnFoldGoes(I, N, s) ==
    \E G \in [0 .. Len(s) -> ConvStates(I, N)] :
        /\ G[0] = ConversationInit
        /\ \A i \in 1 .. Len(s) : G[i] = AddToConversation(G[i - 1], s[i])
        /\ TurnsOn(s) = G[Len(s)]

\* Message by message
LEMMA TurnFold ==
    ASSUME NEW I, NEW N, NEW s \in Seq(Turns(I, N))
    PROVE  TurnFoldGoes(I, N, s)
  <1> DEFINE f == [q \in ConvStates(I, N) \X Turns(I, N) |-> AddToConversation(q[1], q[2])]
             Step(H) == [t \in SUBSET DOMAIN s |->
                           IF t = {} THEN ConversationInit
                           ELSE AddToConversation(H[t \ {Max(t)}], s[Max(t)])]
             F == CHOOSE H : H = Step(H)
  <1>1. TurnsOn(s) = F[DOMAIN s]
    BY DEF FoldLeft, MapThenFoldSet, TurnsOn
  <1>2. ASSUME NEW r \in ConvStates(I, N), NEW x \in Turns(I, N)
        PROVE  AddToConversation(r, x) \in ConvStates(I, N)
    <2> DEFINE a == CallsOn(r, x.calls)
               k == CHOOSE k \in r.calls : k.id = x.answers
               y == [x EXCEPT !.calls = <<k>>]
    <2>1. a \in ConvStates(I, N)
      <3>1. x.calls \in Seq(ConvCalls(I, N))
        BY DEF Turns
      <3>2. CallFoldGoes(I, N, r, x.calls)
        BY <3>1, CallFold
      <3>3. PICK G \in [0 .. Len(x.calls) -> ConvStates(I, N)] : a = G[Len(x.calls)]
        BY <3>2 DEF CallFoldGoes
      <3>4. Len(x.calls) \in 0 .. Len(x.calls)
        BY <3>1, LenProperties
      <3> QED
        BY <3>3, <3>4
    <2>2. ASSUME x.answers \in CallNames(r) PROVE k \in ConvCalls(I, N)
      <3>1. \E l \in r.calls : l.id = x.answers
        BY <2>2 DEF CallNames
      <3> HIDE DEF k
      <3>2. k \in r.calls
        BY <3>1 DEF k
      <3> QED
        BY <3>2 DEF ConvStates
    <2> HIDE DEF a, k
    <2>3. ASSUME x.answers \in CallNames(r) PROVE y \in Turns(I, N)
      <3>1. <<k>> \in Seq(ConvCalls(I, N))
        BY <2>2, <2>3
      <3> QED
        BY <3>1 DEF Turns
    <2> HIDE DEF y
    <2>4. /\ r.messages \in Seq(Turns(I, N)) /\ a.messages \in Seq(Turns(I, N))
          /\ r.instructions \in Seq({"text", "media"}) /\ x.content \in {"text", "media"}
      BY <2>1 DEF ConvStates, Turns
    <2>5. /\ Append(r.messages, x) \in Seq(Turns(I, N))
          /\ Append(a.messages, x) \in Seq(Turns(I, N))
          /\ Append(r.instructions, x.content) \in Seq({"text", "media"})
          /\ x.answers \in CallNames(r) => Append(r.messages, y) \in Seq(Turns(I, N))
      BY <2>3, <2>4, AppendProperties
    <2>6. [r EXCEPT !.instructions = Append(@, x.content)] \in ConvStates(I, N)
      BY <2>5 DEF ConvStates
    <2>7. [r EXCEPT !.messages = Append(@, x)] \in ConvStates(I, N)
      BY <2>5 DEF ConvStates
    <2>8. [a EXCEPT !.messages = Append(@, x)] \in ConvStates(I, N)
      BY <2>1, <2>5 DEF ConvStates
    <2>9. ASSUME x.answers \in CallNames(r)
          PROVE  [r EXCEPT !.messages = Append(@, y)] \in ConvStates(I, N)
      BY <2>5, <2>9 DEF ConvStates
    <2>10. Refused \in ConvStates(I, N)
      BY RefusedIs
    <2>11. x.role \in {"system", "user", "assistant", "tool"}
      BY DEF Turns
    <2>12. CASE x.role = "system"
      BY <2>6, <2>10, <2>12 DEF AddToConversation
    <2>13. CASE x.role = "user"
      BY <2>7, <2>10, <2>13 DEF AddToConversation
    <2>14. CASE x.role = "assistant"
      BY <2>8, <2>10, <2>14 DEF AddToConversation, CallsOn, a
    <2>15. CASE x.role = "tool"
      BY <2>9, <2>10, <2>15 DEF AddToConversation, k, y
    <2> QED
      BY <2>11, <2>12, <2>13, <2>14, <2>15
  <1>3. ConversationInit \in ConvStates(I, N)
    BY EmptySeq DEF ConversationInit, Refused, ConvStates
  <1>4. \A r \in ConvStates(I, N), x \in Turns(I, N) : f[<<r, x>>] = AddToConversation(r, x)
    OBVIOUS
  <1>5. Foldable(ConvStates(I, N), Turns(I, N), f, ConversationInit, s)
    BY <1>2, <1>3 DEF Foldable
  <1> HIDE DEF f
  <1>6. Len(s) \in Nat /\ DOMAIN s = 1 .. Len(s) /\ \A i \in 1 .. Len(s) : s[i] \in Turns(I, N)
    BY LenProperties, ElementOfSeq
  <1>7. \A t \in SUBSET DOMAIN s :
           t # {} => s[Max(t)] \in Turns(I, N) /\ t \ {Max(t)} \in SUBSET DOMAIN s
    BY <1>6, MaxIsIn
  <1>8. HasFold(ConvStates(I, N), f, ConversationInit, s)
    BY <1>5, FoldExists
  <1>9. PICK K \in [SUBSET DOMAIN s -> ConvStates(I, N)] : K = Folds(K, f, ConversationInit, s)
    BY <1>8 DEF HasFold
  <1>10. Step(K) = Folds(K, f, ConversationInit, s)
    BY <1>4, <1>7 DEF Folds
  <1>11. F = Step(F)
    BY <1>9, <1>10
  <1> HIDE DEF F
  <1>12. F[{}] = ConversationInit
    BY <1>11
  <1>13. IsFold(F, ConvStates(I, N), f, ConversationInit, s)
    <2>1. ASSUME NEW t \in SUBSET DOMAIN s, t # {}, F[t \ {Max(t)}] \in ConvStates(I, N)
          PROVE  F[t] = f[<<F[t \ {Max(t)}], s[Max(t)]>>]
      <3>1. F[t] = AddToConversation(F[t \ {Max(t)}], s[Max(t)])
        BY <1>11, <2>1
      <3>2. s[Max(t)] \in Turns(I, N)
        BY <1>7, <2>1
      <3> HIDE DEF Step
      <3> QED
        BY <1>4, <2>1, <3>1, <3>2
    <2> HIDE DEF Step
    <2> QED
      BY <1>12, <2>1 DEF IsFold
  <1>14. GivesAlong(F, ConvStates(I, N), f, ConversationInit, s)
    BY <1>5, <1>13, FoldGives
  <1>15. PICK G \in [0 .. Len(s) -> ConvStates(I, N)] :
           Along(G, f, ConversationInit, s) /\ F[DOMAIN s] = G[Len(s)]
    BY <1>14 DEF GivesAlong
  <1>16. \A i \in 1 .. Len(s) : G[i - 1] \in ConvStates(I, N)
    <2>1. \A i \in 1 .. Len(s) : i - 1 \in 0 .. Len(s)
      BY <1>6
    <2> QED
      BY <2>1
  <1>17. \A i \in 1 .. Len(s) : G[i] = AddToConversation(G[i - 1], s[i])
    BY <1>4, <1>6, <1>15, <1>16 DEF Along
  <1> QED
    BY <1>1, <1>15, <1>17 DEF Along, TurnFoldGoes

LEMMA TurnFoldStep ==
    ASSUME NEW I, NEW N, NEW s \in Seq(Turns(I, N)), NEW x \in Turns(I, N)
    PROVE  /\ TurnsOn(s) \in ConvStates(I, N)
           /\ TurnsOn(Append(s, x)) = AddToConversation(TurnsOn(s), x)
  <1> DEFINE t == Append(s, x)
  <1>1. /\ t \in Seq(Turns(I, N)) /\ Len(t) = Len(s) + 1 /\ t[Len(s) + 1] = x /\ Len(s) \in Nat
        /\ \A i \in 1 .. Len(s) : t[i] = s[i]
    BY AppendProperties, LenProperties
  <1> HIDE DEF t
  <1> TurnFoldGoes(I, N, s)
    BY TurnFold
  <1> TurnFoldGoes(I, N, t)
    BY <1>1, TurnFold
  <1>2. PICK G \in [0 .. Len(s) -> ConvStates(I, N)] :
           /\ G[0] = ConversationInit
           /\ \A i \in 1 .. Len(s) : G[i] = AddToConversation(G[i - 1], s[i])
           /\ TurnsOn(s) = G[Len(s)]
    BY DEF TurnFoldGoes
  <1>3. PICK H \in [0 .. Len(t) -> ConvStates(I, N)] :
           /\ H[0] = ConversationInit
           /\ \A i \in 1 .. Len(t) : H[i] = AddToConversation(H[i - 1], t[i])
           /\ TurnsOn(t) = H[Len(t)]
    BY DEF TurnFoldGoes
  <1> DEFINE T == {i \in 0 .. Len(s) : H[i] = G[i]}
  <1>4. 0 \in T
    BY <1>1, <1>2, <1>3
  <1>5. ASSUME NEW i \in 1 .. Len(s), i - 1 \in T PROVE i \in T
    <2>1. i \in 0 .. Len(s) /\ i \in 1 .. Len(t) /\ t[i] = s[i] /\ H[i - 1] = G[i - 1]
      BY <1>1, <1>5
    <2>2. H[i] = AddToConversation(H[i - 1], t[i])
      BY <1>3, <2>1
    <2>3. G[i] = AddToConversation(G[i - 1], s[i])
      BY <1>2
    <2>4. H[i] = G[i]
      BY <2>1, <2>2, <2>3
    <2> QED
      BY <2>1, <2>4
  <1> HIDE DEF T
  <1>6. \A i \in 0 .. Len(s) : i \in T
    BY <1>1, <1>4, <1>5, Reaches
  <1>7. H[Len(s)] = G[Len(s)] /\ G[Len(s)] \in ConvStates(I, N)
    BY <1>1, <1>2, <1>6 DEF T
  <1>8. Len(s) + 1 \in 1 .. Len(t) /\ (Len(s) + 1) - 1 = Len(s)
    BY <1>1
  <1>9. H[Len(s) + 1] = AddToConversation(H[Len(s)], x)
    BY <1>1, <1>3, <1>8
  <1>10. TurnsOn(t) = AddToConversation(TurnsOn(s), x)
    BY <1>1, <1>2, <1>3, <1>7, <1>9
  <1> QED
    BY <1>2, <1>7, <1>10 DEF t

LEMMA TurnFoldNone == ASSUME NEW I, NEW N PROVE TurnsOn(<<>>) = ConversationInit
  <1> TurnFoldGoes(I, N, <<>>)
    BY TurnFold, EmptySeq
  <1>1. Len(<<>>) = 0
    BY EmptySeq
  <1> QED
    BY <1>1 DEF TurnFoldGoes

\* Calls of which no two have the same id
Distinct(s) == \A i, j \in DOMAIN s : i # j => s[i].id # s[j].id

LEMMA DistinctAppend ==
    ASSUME NEW A, NEW s \in Seq(A), NEW x \in A
    PROVE  /\ Distinct(Append(s, x)) <=> (Distinct(s) /\ \A c \in ToSet(s) : c.id # x.id)
           /\ ToSet(Append(s, x)) = ToSet(s) \cup {x}
  <1> DEFINE t == Append(s, x)
             n == Len(s)
  <1>1. /\ t \in Seq(A) /\ Len(t) = n + 1 /\ t[n + 1] = x /\ n \in Nat
        /\ \A i \in 1 .. n : t[i] = s[i]
    BY AppendProperties, LenProperties
  <1>2. DOMAIN s = 1 .. n /\ DOMAIN t = 1 .. n + 1
    BY <1>1, LenProperties
  <1> HIDE DEF t, n
  <1>3. ToSet(t) = ToSet(s) \cup {x}
    <2>1. 1 .. n + 1 = (1 .. n) \cup {n + 1}
      BY <1>1
    <2> QED
      BY <1>1, <1>2, <2>1 DEF ToSet
  <1>4. ASSUME Distinct(t) PROVE Distinct(s) /\ \A c \in ToSet(s) : c.id # x.id
    <2>1. \A i \in 1 .. n : i \in 1 .. n + 1 /\ n + 1 \in 1 .. n + 1 /\ i # n + 1
      BY <1>1
    <2> QED
      BY <1>1, <1>2, <1>4, <2>1 DEF Distinct, ToSet
  <1>5. ASSUME Distinct(s), \A c \in ToSet(s) : c.id # x.id PROVE Distinct(t)
    <2>1. \A i \in 1 .. n + 1 : i \in 1 .. n \/ i = n + 1
      BY <1>1
    <2>2. \A i \in 1 .. n : s[i].id # x.id
      BY <1>2, <1>5 DEF ToSet
    <2> QED
      BY <1>1, <1>2, <1>5, <2>1, <2>2 DEF Distinct
  <1> QED
    BY <1>3, <1>4, <1>5 DEF t

LEMMA DistinctPart ==
    ASSUME NEW A, NEW s \in Seq(A), NEW t \in Seq(A), Distinct(s \o t)
    PROVE  Distinct(s)
  <1> DEFINE u == s \o t
  <1>1. /\ u \in Seq(A) /\ Len(u) = Len(s) + Len(t)
        /\ \A i \in 1 .. Len(s) + Len(t) : u[i] = IF i <= Len(s) THEN s[i] ELSE t[i - Len(s)]
        /\ Distinct(u)
    BY ConcatProperties
  <1>2. Len(s) \in Nat /\ Len(t) \in Nat /\ DOMAIN s = 1 .. Len(s) /\ DOMAIN u = 1 .. Len(u)
    BY <1>1, LenProperties
  <1> HIDE DEF u
  <1>3. \A i \in DOMAIN s : i \in DOMAIN u /\ u[i] = s[i]
    BY <1>1, <1>2
  <1> QED
    BY <1>1, <1>3 DEF Distinct

TakesCalls(r, s, t) ==
    LET a == CallsOn(r, t)
    IN  /\ a.refused <=> ~Distinct(s \o t)
        /\ Distinct(s \o t) => a = [r EXCEPT !.calls = ToSet(s \o t)]

\* The calls of one message are taken just when no id is taken twice.
LEMMA CallsTaken ==
    ASSUME NEW I, NEW N, NEW r \in ConvStates(I, N), NEW s \in Seq(ConvCalls(I, N)),
           NEW t \in Seq(ConvCalls(I, N)), ~r.refused, r.calls = ToSet(s), Distinct(s)
    PROVE  TakesCalls(r, s, t)
  <1> DEFINE n == Len(t)
             T == {d \in 0 .. n : TakesCalls(r, s, First(t, d))}
  <1>1. n \in Nat /\ First(t, 0) = <<>> /\ First(t, n) = t
    BY LenProperties, FirstGrows
  <1>2. 0 \in T
    <2>1. s \o <<>> = s
      BY ConcatEmptySeq
    <2>2. CallsOn(r, <<>>) = r
      BY CallFoldNone
    <2>3. r = [r EXCEPT !.calls = ToSet(s)]
      BY DEF ConvStates
    <2>4. TakesCalls(r, s, <<>>)
      <3> DEFINE u == s \o <<>>
                 a == CallsOn(r, <<>>)
      <3>1. u = s /\ a = r /\ ~a.refused /\ a = [r EXCEPT !.calls = ToSet(u)]
        BY <2>1, <2>2, <2>3
      <3> HIDE DEF u, a
      <3>2. Distinct(u)
        BY <3>1
      <3> QED
        BY <3>1, <3>2 DEF TakesCalls, u, a
    <2> QED
      BY <1>1, <2>4
  <1>3. ASSUME NEW d \in 1 .. n, d - 1 \in T PROVE d \in T
    <2> DEFINE p == First(t, d - 1)
               x == t[d]
               u == s \o p
               a == CallsOn(r, p)
               b == CallsOn(r, Append(p, x))
               v == Append(u, x)
    <2>1. d \in 0 .. n /\ d - 1 \in 0 .. n
      BY <1>1
    <2>2. p \in Seq(ConvCalls(I, N)) /\ x \in ConvCalls(I, N) /\ First(t, d) = Append(p, x)
      BY <2>1, FirstIs, FirstGrows, ElementOfSeq
    <2>3. TakesCalls(r, s, p)
      BY <1>3
    <2> HIDE DEF p, x
    <2>4. u \in Seq(ConvCalls(I, N)) /\ s \o Append(p, x) = v
      <3>1. AppendsTo(s, p, x)
        BY <2>2, AppendToConcat
      <3> QED
        BY <2>2, <3>1, ConcatProperties DEF AppendsTo
    <2>5. a \in ConvStates(I, N) /\ b = AddCall(a, x)
      BY <2>2, CallFoldStep
    <2>6. (a.refused <=> ~Distinct(u)) /\ (Distinct(u) => a = [r EXCEPT !.calls = ToSet(u)])
      BY <2>3 DEF TakesCalls
    <2> HIDE DEF u
    <2>7. (Distinct(v) <=> (Distinct(u) /\ \A c \in ToSet(u) : c.id # x.id))
          /\ ToSet(v) = ToSet(u) \cup {x}
      BY <2>2, <2>4, DistinctAppend
    <2> HIDE DEF a, b, v
    <2>8. CASE ~Distinct(u)
      <3>1. b = Refused
        BY <2>5, <2>6, <2>8 DEF AddCall
      <3>2. b.refused /\ ~Distinct(v)
        BY <2>7, <2>8, <3>1, RefusedIs
      <3> QED
        BY <2>1, <2>2, <2>4, <3>2 DEF TakesCalls, b
    <2>9. CASE Distinct(u)
      <3>1. a = [r EXCEPT !.calls = ToSet(u)] /\ ~a.refused
        BY <2>6, <2>9
      <3>2. CallNames(a) = {c.id : c \in ToSet(u)}
        BY <3>1 DEF CallNames, ConvStates
      <3>3. CASE \E c \in ToSet(u) : c.id = x.id
        <4>1. b = Refused
          BY <2>5, <3>2, <3>3 DEF AddCall
        <4>2. b.refused /\ ~Distinct(v)
          BY <2>7, <3>3, <4>1, RefusedIs
        <4> QED
          BY <2>1, <2>2, <2>4, <4>2 DEF TakesCalls, b
      <3>4. CASE ~\E c \in ToSet(u) : c.id = x.id
        <4>1. b = [a EXCEPT !.calls = @ \cup {x}]
          BY <2>5, <3>1, <3>2, <3>4 DEF AddCall
        <4>2. b = [r EXCEPT !.calls = ToSet(v)] /\ ~b.refused /\ Distinct(v)
          BY <2>7, <2>9, <3>1, <3>4, <4>1 DEF ConvStates
        <4> QED
          BY <2>1, <2>2, <2>4, <4>2 DEF TakesCalls, b
      <3> QED
        BY <3>3, <3>4
    <2> QED
      BY <2>8, <2>9
  <1> HIDE DEF T
  <1>4. \A d \in 0 .. n : d \in T
    BY <1>1, <1>2, <1>3, Reaches
  <1> QED
    BY <1>1, <1>4 DEF T

\* Up to a message: the calls made, and those an answer can be for; the messages that are not
\* instructions; what the gateway has; and whether what it has been given is sound
Called(ms)      == [i \in 1 .. Len(ms) |-> ms[i].calls]
CalledBy(ms, i) == FlattenSeq(First(Called(ms), i))
MadeBefore(ms, i)   == {c \in ToSet(CalledBy(ms, i - 1)) : c.id = ms[i].answers}
Spoken(ms)      == {m \in ToSet(ms) : m.role # "system"}
SaidBy(ms, i)   == Selected(First(ms, i), Spoken(ms))
Taken(ms, i)    == TurnsOn(First(ms, i))

Sound(ms, i) ==
    /\ \A j \in 1 .. i : ms[j].content # "media"
    /\ Distinct(CalledBy(ms, i))
    /\ \A j \in 1 .. i : ms[j].role = "tool" => MadeBefore(ms, j) # {}

\* An answer has the place of its message, and the call that it is for.
Answered(ms, j, messages) ==
    /\ Len(SaidBy(ms, j)) \in 1 .. Len(messages)
    /\ {messages[Len(SaidBy(ms, j))].calls[1]} = MadeBefore(ms, j)

Follows(ms, i) ==
    /\ Taken(ms, i).refused <=> ~Sound(ms, i)
    /\ Sound(ms, i) =>
         /\ Taken(ms, i).calls = ToSet(CalledBy(ms, i))
         /\ Len(Taken(ms, i).messages) = Len(SaidBy(ms, i))
         /\ \A j \in 1 .. i : ms[j].role = "tool" => Answered(ms, j, Taken(ms, i).messages)

TurnIs(I, N, ms, i) ==
    /\ ms[i] \in Turns(I, N) /\ ms[i] \in ToSet(ms)
    /\ Taken(ms, i - 1) \in ConvStates(I, N)
    /\ Taken(ms, i) = AddToConversation(Taken(ms, i - 1), ms[i])
    /\ CalledBy(ms, i - 1) \in Seq(ConvCalls(I, N)) /\ ms[i].calls \in Seq(ConvCalls(I, N))
    /\ CalledBy(ms, i) = CalledBy(ms, i - 1) \o ms[i].calls
    /\ Len(SaidBy(ms, i)) = Len(SaidBy(ms, i - 1)) + (IF ms[i].role = "system" THEN 0 ELSE 1)
    /\ Len(SaidBy(ms, i - 1)) \in Nat

LEMMA CalledIs ==
    ASSUME NEW I, NEW N, NEW ms \in Seq(Turns(I, N))
    PROVE  Called(ms) \in Seq(Seq(ConvCalls(I, N))) /\ Len(Called(ms)) = Len(ms)
  <1>1. \A i \in 1 .. Len(ms) : ms[i] \in Turns(I, N)
    BY ElementOfSeq
  <1>2. \A i \in 1 .. Len(ms) : ms[i].calls \in Seq(ConvCalls(I, N))
    BY <1>1 DEF Turns
  <1>3. Called(ms) \in [1 .. Len(ms) -> Seq(ConvCalls(I, N))]
    BY <1>2 DEF Called
  <1> QED
    BY <1>3, LenProperties

LEMMA TurnHolds ==
    ASSUME NEW I, NEW N, NEW ms \in Seq(Turns(I, N)), NEW i \in 1 .. Len(ms)
    PROVE  TurnIs(I, N, ms, i)
  <1> DEFINE p == First(ms, i - 1)
             m == ms[i]
             cs == Called(ms)
  <1>1. Len(ms) \in Nat /\ i - 1 \in 0 .. Len(ms) /\ i \in 0 .. Len(ms) /\ DOMAIN ms = 1 .. Len(ms)
    BY LenProperties
  <1>2. m \in Turns(I, N) /\ m \in ToSet(ms)
    BY <1>1, ElementOfSeq DEF ToSet
  <1>3. p \in Seq(Turns(I, N)) /\ First(ms, i) = Append(p, m)
    BY <1>1, FirstIs, FirstGrows
  <1> HIDE DEF p
  <1>4. Taken(ms, i - 1) \in ConvStates(I, N)
        /\ Taken(ms, i) = AddToConversation(Taken(ms, i - 1), m)
    BY <1>2, <1>3, TurnFoldStep DEF Taken, p
  <1>5. cs \in Seq(Seq(ConvCalls(I, N))) /\ Len(cs) = Len(ms) /\ cs[i] = m.calls
    BY CalledIs DEF Called
  <1>6. m.calls \in Seq(ConvCalls(I, N))
    BY <1>2 DEF Turns
  <1> HIDE DEF cs
  <1>7. CalledBy(ms, i - 1) \in Seq(ConvCalls(I, N))
    BY <1>1, <1>5, FlattenIs DEF CalledBy, cs
  <1>8. CalledBy(ms, i) = CalledBy(ms, i - 1) \o m.calls
    BY <1>5, FlattenStep DEF CalledBy, cs
  <1>9. /\ SaidBy(ms, i - 1) \in Seq(Turns(I, N))
        /\ SaidBy(ms, i) = IF m \in Spoken(ms) THEN Append(SaidBy(ms, i - 1), m)
                           ELSE SaidBy(ms, i - 1)
    BY <1>1, SelectedIs, SelectedStep DEF SaidBy
  <1>10. m \in Spoken(ms) <=> m.role # "system"
    BY <1>2 DEF Spoken
  <1> HIDE DEF m
  <1>11. Len(SaidBy(ms, i - 1)) \in Nat
         /\ Len(SaidBy(ms, i)) = Len(SaidBy(ms, i - 1)) + (IF m.role = "system" THEN 0 ELSE 1)
    BY <1>2, <1>9, <1>10, LenProperties, AppendProperties
  <1> QED
    BY <1>2, <1>4, <1>6, <1>7, <1>8, <1>11 DEF TurnIs, m

\* What the gateway has goes on being what it should, message by message.
LEMMA TurnFollows ==
    ASSUME NEW I, NEW N, NEW ms \in Seq(Turns(I, N)), NEW i \in 1 .. Len(ms),
           ms[i].role # "assistant" => ms[i].calls = <<>>, Follows(ms, i - 1)
    PROVE  Follows(ms, i)
  <1> DEFINE m == ms[i]
             c == Taken(ms, i - 1)
             d == Taken(ms, i)
             s == CalledBy(ms, i - 1)
             t == CalledBy(ms, i)
             n == Len(SaidBy(ms, i - 1))
             l == Len(SaidBy(ms, i))
             B == MadeBefore(ms, i)
  <1>1. /\ m \in Turns(I, N) /\ c \in ConvStates(I, N) /\ d = AddToConversation(c, m)
        /\ s \in Seq(ConvCalls(I, N)) /\ m.calls \in Seq(ConvCalls(I, N)) /\ t = s \o m.calls
        /\ n \in Nat /\ l = n + (IF m.role = "system" THEN 0 ELSE 1)
    <2>1. TurnIs(I, N, ms, i)
      BY TurnHolds
    <2> QED
      BY <2>1 DEF TurnIs
  <1>2. i \in Nat /\ i - 1 \in Nat /\ \A j \in 1 .. i : j \in 1 .. i - 1 \/ j = i
    BY LenProperties
  <1>3. Distinct(t) => Distinct(s)
    BY <1>1, DistinctPart
  <1>4. Sound(ms, i) <=> /\ Sound(ms, i - 1) /\ m.content # "media" /\ Distinct(t)
                         /\ m.role = "tool" => B # {}
    <2>1. \A j \in 1 .. i - 1 : j \in 1 .. i
      BY <1>2
    <2>2. i \in 1 .. i
      BY <1>2
    <2> HIDE DEF s, t, B, m
    <2> QED
      BY <1>2, <1>3, <2>1, <2>2 DEF Sound, s, t, B, m
  <1>5. /\ c.refused <=> ~Sound(ms, i - 1)
        /\ Sound(ms, i - 1) =>
             /\ c.calls = ToSet(s) /\ Len(c.messages) = n
             /\ \A j \in 1 .. i - 1 : ms[j].role = "tool" => Answered(ms, j, c.messages)
    BY DEF Follows
  <1> DEFINE Kept == /\ ~d.refused /\ d.calls = ToSet(t) /\ Len(d.messages) = l
                     /\ \A j \in 1 .. n : d.messages[j] = c.messages[j]
                     /\ m.role = "tool" => {d.messages[l].calls[1]} = B
  <1>6. ASSUME Sound(ms, i), Kept PROVE Follows(ms, i)
    <2>1. ASSUME NEW j \in 1 .. i, ms[j].role = "tool" PROVE Answered(ms, j, d.messages)
      <3>1. CASE j = i
        <4>1. l \in 1 .. l
          BY <1>1, <2>1, <3>1
        <4> QED
          BY <1>6, <2>1, <3>1, <4>1 DEF Answered
      <3>2. CASE j \in 1 .. i - 1
        <4>1. Answered(ms, j, c.messages) /\ Len(c.messages) = n
          BY <1>4, <1>5, <1>6, <2>1, <3>2
        <4> DEFINE k == Len(SaidBy(ms, j))
        <4>2. k \in 1 .. n /\ {c.messages[k].calls[1]} = MadeBefore(ms, j)
          BY <4>1 DEF Answered
        <4> HIDE DEF k
        <4>3. k \in 1 .. l
          BY <1>1, <4>2
        <4> QED
          BY <1>6, <4>2, <4>3 DEF Answered, k
      <3> QED
        BY <1>2, <3>1, <3>2
    <2> QED
      BY <1>6, <2>1 DEF Follows
  <1>7. ASSUME ~Sound(ms, i), d.refused PROVE Follows(ms, i)
    BY <1>7 DEF Follows
  <1> SUFFICES (Sound(ms, i) /\ Kept) \/ (~Sound(ms, i) /\ d.refused)
    BY <1>6, <1>7
  <1> HIDE DEF m, c, d, s, t, n, l, B
  <1>8. Refused.refused
    BY RefusedIs
  <1>9. CASE c.refused \/ m.content = "media"
    <2>1. d = Refused
      BY <1>1, <1>9 DEF AddToConversation
    <2> QED
      BY <1>4, <1>5, <1>8, <1>9, <2>1
  <1>10. CASE ~c.refused /\ m.content # "media"
    <2>1. Sound(ms, i - 1) /\ c.calls = ToSet(s) /\ Len(c.messages) = n
      BY <1>5, <1>10
    <2>2. Distinct(s)
      BY <2>1 DEF Sound, s
    <2>3. c.messages \in Seq(Turns(I, N)) /\ CallNames(c) = {k.id : k \in ToSet(s)}
      BY <1>1, <2>1 DEF ConvStates, CallNames
    <2>4. \A x \in Turns(I, N) :
             LET a == Append(c.messages, x)
             IN  Len(a) = n + 1 /\ a[n + 1] = x /\ \A j \in 1 .. n : a[j] = c.messages[j]
      BY <2>1, <2>3, AppendProperties
    <2>5. m.role # "assistant" => t = s
      <3>1. s \o <<>> = s
        BY <1>1, ConcatEmptySeq
      <3> QED
        BY <1>1, <3>1 DEF m
    <2>6. CASE m.role = "system"
      <3>1. d = [c EXCEPT !.instructions = Append(@, m.content)]
        BY <1>1, <1>10, <2>6 DEF AddToConversation
      <3>2. d.messages = c.messages /\ d.calls = c.calls /\ ~d.refused /\ l = n
        BY <1>1, <1>10, <2>6, <3>1 DEF ConvStates
      <3> QED
        BY <1>4, <1>10, <2>1, <2>2, <2>5, <2>6, <3>2
    <2>7. CASE m.role = "user"
      <3>1. d = [c EXCEPT !.messages = Append(@, m)]
        BY <1>1, <1>10, <2>7 DEF AddToConversation
      <3>2. d.messages = Append(c.messages, m) /\ d.calls = c.calls /\ ~d.refused /\ l = n + 1
        BY <1>1, <1>10, <2>7, <3>1 DEF ConvStates
      <3> QED
        BY <1>1, <1>4, <1>10, <2>1, <2>2, <2>4, <2>5, <2>7, <3>2
    <2>8. CASE m.role = "assistant"
      <3> DEFINE a == CallsOn(c, m.calls)
      <3>1. d = IF a.refused THEN Refused ELSE [a EXCEPT !.messages = Append(@, m)]
        BY <1>1, <1>10, <2>8 DEF AddToConversation, CallsOn
      <3>2. TakesCalls(c, s, m.calls)
        BY <1>1, <1>10, <2>1, <2>2, CallsTaken
      <3>3. (a.refused <=> ~Distinct(t)) /\ (Distinct(t) => a = [c EXCEPT !.calls = ToSet(t)])
        BY <1>1, <3>2 DEF TakesCalls
      <3> HIDE DEF a
      <3>4. CASE ~Distinct(t)
        BY <1>4, <1>8, <3>1, <3>3, <3>4
      <3>5. CASE Distinct(t)
        <4>1. d = [a EXCEPT !.messages = Append(@, m)] /\ a = [c EXCEPT !.calls = ToSet(t)]
          BY <3>1, <3>3, <3>5
        <4>2. d.messages = Append(c.messages, m) /\ d.calls = ToSet(t) /\ ~d.refused /\ l = n + 1
          BY <1>1, <1>10, <2>8, <4>1 DEF ConvStates
        <4> QED
          BY <1>1, <1>4, <1>10, <2>1, <2>4, <2>8, <3>5, <4>2
      <3> QED
        BY <3>4, <3>5
    <2>9. CASE m.role = "tool"
      <3>1. B = {k \in ToSet(s) : k.id = m.answers}
        BY DEF B, MadeBefore, s, m
      <3>2. m.answers \in CallNames(c) <=> B # {}
        BY <2>3, <3>1
      <3>3. CASE B = {}
        <4>1. d = Refused
          BY <1>1, <1>10, <2>9, <3>2, <3>3 DEF AddToConversation
        <4> QED
          BY <1>4, <1>8, <2>9, <3>3, <4>1
      <3>4. CASE B # {}
        <4> DEFINE k == CHOOSE k \in c.calls : k.id = m.answers
                   y == [m EXCEPT !.calls = <<k>>]
        <4>1. d = [c EXCEPT !.messages = Append(@, y)]
          BY <1>1, <1>10, <2>9, <3>2, <3>4 DEF AddToConversation
        <4>2. \E q \in c.calls : q.id = m.answers
          BY <2>1, <3>1, <3>4
        <4> HIDE DEF k
        <4>3. k \in c.calls /\ k.id = m.answers
          BY <4>2 DEF k
        <4>4. k \in B /\ k \in ConvCalls(I, N)
          BY <1>1, <2>1, <3>1, <4>3 DEF ConvStates
        <4>5. \A q \in B : q = k
          BY <2>2, <3>1, <4>4 DEF Distinct, ToSet
        <4>6. {k} = B
          BY <4>4, <4>5
        <4>7. y \in Turns(I, N) /\ y.calls = <<k>> /\ <<k>>[1] = k
          <5>1. <<k>> \in Seq(ConvCalls(I, N)) /\ <<k>>[1] = k
            BY <4>4
          <5> QED
            BY <1>1, <5>1 DEF Turns
        <4> HIDE DEF y
        <4>8. d.messages = Append(c.messages, y) /\ d.calls = c.calls /\ ~d.refused /\ l = n + 1
          BY <1>1, <1>10, <2>9, <4>1 DEF ConvStates
        <4>9. y.calls[1] = k
          BY <4>7
        <4>10. /\ Len(d.messages) = l /\ d.messages[l] = y
               /\ \A j \in 1 .. n : d.messages[j] = c.messages[j]
          BY <2>4, <4>7, <4>8
        <4> QED
          BY <1>4, <1>10, <2>1, <2>2, <2>5, <2>9, <3>4, <4>6, <4>8, <4>9, <4>10
      <3> QED
        BY <3>3, <3>4
    <2> QED
      BY <1>1, <2>6, <2>7, <2>8, <2>9 DEF Turns
  <1> QED
    BY <1>9, <1>10

LEMMA AllFollow ==
    ASSUME NEW I, NEW N, NEW ms \in Seq(Turns(I, N)),
           \A i \in 1 .. Len(ms) : ms[i].role # "assistant" => ms[i].calls = <<>>
    PROVE  Follows(ms, Len(ms))
  <1> DEFINE T == {i \in 0 .. Len(ms) : Follows(ms, i)}
  <1>1. Len(ms) \in Nat
    BY LenProperties
  <1>2. 0 \in T
    <2>1. Taken(ms, 0) = ConversationInit
      BY FirstGrows, TurnFoldNone DEF Taken
    <2>2. CalledBy(ms, 0) = <<>>
      BY CalledIs, FlattenIs DEF CalledBy
    <2>3. SaidBy(ms, 0) = <<>>
      BY SelectedIs DEF SaidBy
    <2>4. Len(<<>>) = 0 /\ DOMAIN <<>> = {} /\ ToSet(<<>>) = {}
      BY EmptySeq DEF ToSet
    <2>5. Distinct(<<>>)
      BY <2>4 DEF Distinct
    <2>6. /\ ~ConversationInit.refused /\ ConversationInit.messages = <<>>
          /\ ConversationInit.calls = {}
      BY DEF ConversationInit, Refused
    <2>7. Sound(ms, 0)
      BY <2>2, <2>5 DEF Sound
    <2> HIDE DEF T
    <2>8. \A j : j \notin 1 .. 0
      OBVIOUS
    <2>9. Follows(ms, 0)
      BY <2>1, <2>2, <2>3, <2>4, <2>6, <2>7, <2>8 DEF Follows
    <2> QED
      BY <1>1, <2>9 DEF T
  <1>3. ASSUME NEW i \in 1 .. Len(ms), i - 1 \in T PROVE i \in T
    <2>1. Follows(ms, i - 1) /\ i \in 0 .. Len(ms)
      BY <1>1, <1>3
    <2>2. Follows(ms, i)
      BY <2>1, TurnFollows
    <2> QED
      BY <2>1, <2>2
  <1> HIDE DEF T
  <1>4. \A i \in 0 .. Len(ms) : i \in T
    BY <1>1, <1>2, <1>3, Reaches
  <1> QED
    BY <1>1, <1>4 DEF T

LEMMA TurnsTyped ==
    ASSUME NEW I, NEW N, NEW ms \in Seq(Turns(I, N)) PROVE TurnsOn(ms) \in ConvStates(I, N)
  <1> TurnFoldGoes(I, N, ms)
    BY TurnFold
  <1>1. PICK G \in [0 .. Len(ms) -> ConvStates(I, N)] : TurnsOn(ms) = G[Len(ms)]
    BY DEF TurnFoldGoes
  <1>2. Len(ms) \in 0 .. Len(ms)
    BY LenProperties
  <1> QED
    BY <1>1, <1>2

LEMMA ToSetConcat ==
    ASSUME NEW A, NEW s \in Seq(A), NEW t \in Seq(A)
    PROVE  ToSet(s \o t) = ToSet(s) \cup ToSet(t)
  <1> DEFINE u == s \o t
             n == Len(s)
             m == Len(t)
  <1>1. /\ Len(u) = n + m /\ u \in Seq(A) /\ n \in Nat /\ m \in Nat
        /\ \A i \in 1 .. n + m : u[i] = IF i <= n THEN s[i] ELSE t[i - n]
    BY ConcatProperties, LenProperties
  <1>2. DOMAIN s = 1 .. n /\ DOMAIN t = 1 .. m /\ DOMAIN u = 1 .. n + m
    BY <1>1, LenProperties
  <1> HIDE DEF u, n, m
  <1>3. ToSet(u) \subseteq ToSet(s) \cup ToSet(t)
    <2>1. ASSUME NEW i \in 1 .. n + m PROVE u[i] \in ToSet(s) \cup ToSet(t)
      <3>1. i \in 1 .. n \/ i - n \in 1 .. m
        BY <1>1
      <3>2. i \in 1 .. n => i <= n
        BY <1>1
      <3>3. i - n \in 1 .. m => ~(i <= n)
        BY <1>1
      <3> QED
        BY <1>1, <1>2, <3>1, <3>2, <3>3 DEF ToSet
    <2> QED
      BY <1>2, <2>1 DEF ToSet
  <1>4. ToSet(s) \subseteq ToSet(u)
    <2>1. \A i \in 1 .. n : i \in 1 .. n + m /\ u[i] = s[i]
      BY <1>1
    <2> QED
      BY <1>2, <2>1 DEF ToSet
  <1>5. ToSet(t) \subseteq ToSet(u)
    <2>1. ASSUME NEW i \in 1 .. m PROVE n + i \in 1 .. n + m /\ u[n + i] = t[i]
      <3>1. n + i \in 1 .. n + m /\ ~(n + i <= n) /\ (n + i) - n = i
        BY <1>1
      <3> QED
        BY <1>1, <3>1
    <2> QED
      BY <1>2, <2>1 DEF ToSet
  <1> QED
    BY <1>3, <1>4, <1>5 DEF u

LEMMA CallsUpTo ==
    ASSUME NEW I, NEW N, NEW ms \in Seq(Turns(I, N))
    PROVE  \A i \in 0 .. Len(ms) : ToSet(CalledBy(ms, i))
             = UNION {{ms[j].calls[q] : q \in DOMAIN ms[j].calls} : j \in 1 .. i}
  <1> DEFINE U(i) == UNION {{ms[j].calls[q] : q \in DOMAIN ms[j].calls} : j \in 1 .. i}
             T == {i \in 0 .. Len(ms) : ToSet(CalledBy(ms, i)) = U(i)}
  <1>1. Len(ms) \in Nat
    BY LenProperties
  <1>2. 0 \in T
    <2>1. CalledBy(ms, 0) = <<>>
      BY CalledIs, FlattenIs DEF CalledBy
    <2>2. ToSet(<<>>) = {}
      BY EmptySeq DEF ToSet
    <2> QED
      BY <1>1, <2>1, <2>2
  <1>3. ASSUME NEW i \in 1 .. Len(ms), i - 1 \in T PROVE i \in T
    <2> TurnIs(I, N, ms, i)
      BY TurnHolds
    <2>1. ToSet(CalledBy(ms, i)) = ToSet(CalledBy(ms, i - 1)) \cup ToSet(ms[i].calls)
      BY ToSetConcat DEF TurnIs
    <2>2. U(i) = U(i - 1) \cup ToSet(ms[i].calls)
      <3>1. 1 .. i = (1 .. i - 1) \cup {i}
        BY <1>1
      <3> QED
        BY <3>1 DEF ToSet
    <2>3. i \in 0 .. Len(ms)
      BY <1>1
    <2> QED
      BY <1>3, <2>1, <2>2, <2>3
  <1> HIDE DEF T
  <1>4. \A i \in 0 .. Len(ms) : i \in T
    BY <1>1, <1>2, <1>3, Reaches
  <1> QED
    BY <1>4 DEF T

\* Every conversation is taken just when it is sound, each answer with the call it is for:
\* toSdkCompletionInput (model-gateway-ai-sdk.ts).
THEOREM ConversationCorrect ==
    ASSUME NEW I, NEW N, NEW ms \in Seq(Turns(I, N)),
           \A i \in 1 .. Len(ms) : ms[i].role # "assistant" => ms[i].calls = <<>>
    PROVE  ConversationAgrees(ms)
  <1> DEFINE n == Len(ms)
             c == Taken(ms, n)
             all == FlattenSeq([i \in 1 .. Len(ms) |-> ms[i].calls])
             before(i) == {k \in UNION {{ms[j].calls[q] : q \in DOMAIN ms[j].calls} :
                                         j \in 1 .. i - 1} : k.id = ms[i].answers}
             said == Selected(ms, Spoken(ms))
             good == /\ said # <<>>
                     /\ \A i \in DOMAIN ms : ms[i].content # "media"
                     /\ \A i, j \in DOMAIN all : i # j => all[i].id # all[j].id
                     /\ \A i \in DOMAIN ms : ms[i].role = "tool" => before(i) # {}
             result == ToSdkCompletionInput(ms)
  <1>1. n \in Nat /\ DOMAIN ms = 1 .. n /\ First(ms, n) = ms
    BY LenProperties, FirstGrows
  <1>2. Follows(ms, n)
    BY AllFollow
  <1>3. CalledBy(ms, n) = all
    <2>1. First(Called(ms), n) = Called(ms)
      BY CalledIs, FirstGrows
    <2> QED
      BY <2>1 DEF CalledBy, Called
  <1>4. SaidBy(ms, n) = said
    BY <1>1 DEF SaidBy
  <1>5. \A i \in 1 .. n : MadeBefore(ms, i) = before(i)
    <2>1. \A i \in 0 .. n : ToSet(CalledBy(ms, i))
                              = UNION {{ms[j].calls[q] : q \in DOMAIN ms[j].calls} : j \in 1 .. i}
      BY CallsUpTo
    <2>2. \A i \in 1 .. n : i - 1 \in 0 .. n
      BY <1>1
    <2> QED
      BY <2>1, <2>2 DEF MadeBefore
  <1>6. c \in ConvStates(I, N) /\ result = IF c.messages = <<>> THEN Refused ELSE c
    <2>1. c = TurnsOn(ms)
      BY <1>1 DEF Taken
    <2>2. c \in ConvStates(I, N)
      BY <2>1, TurnsTyped
    <2> QED
      BY <2>1, <2>2 DEF ToSdkCompletionInput, TurnsOn
  <1>7. said \in Seq(Turns(I, N))
    <2>1. n \in 0 .. n
      BY <1>1
    <2> QED
      BY <1>4, <2>1, SelectedIs DEF SaidBy
  <1> HIDE DEF all, before
  <1>8. good <=> said # <<>> /\ Sound(ms, n)
    <2>1. Distinct(all) <=> \A i, j \in DOMAIN all : i # j => all[i].id # all[j].id
      BY DEF Distinct
    <2> QED
      BY <1>1, <1>3, <1>5, <2>1 DEF Sound
  <1>9. (c.refused <=> ~Sound(ms, n)) /\ (Sound(ms, n) => Len(c.messages) = Len(said))
    BY <1>2, <1>4 DEF Follows
  <1>10. c.messages = <<>> <=> Len(c.messages) = 0
    BY <1>6, EmptySeq, LenProperties DEF ConvStates
  <1>11. said = <<>> <=> Len(said) = 0
    BY <1>7, EmptySeq, LenProperties
  <1>12. Refused.refused
    BY RefusedIs
  <1> HIDE DEF c, result, said
  <1>13. result.refused <=> ~good
    BY <1>6, <1>8, <1>9, <1>10, <1>11, <1>12
  <1>14. ASSUME good
         PROVE  /\ result = c /\ Len(result.messages) = Len(said)
                /\ \A i \in 1 .. n : ms[i].role = "tool" =>
                     {result.messages[Len(SaidBy(ms, i))].calls[1]} = before(i)
    <2>1. Sound(ms, n) /\ said # <<>>
      BY <1>8, <1>14
    <2>2. result = c /\ Len(result.messages) = Len(said)
      BY <1>6, <1>9, <1>10, <1>11, <2>1
    <2>3. \A i \in 1 .. n : ms[i].role = "tool" => Answered(ms, i, c.messages)
      BY <1>2, <2>1 DEF Follows, c
    <2> QED
      BY <1>5, <2>2, <2>3 DEF Answered
  <1> HIDE DEF good
  <1> DEFINE Fine == /\ result.refused <=> ~good
                     /\ good => /\ Len(result.messages) = Len(said)
                                /\ \A i \in DOMAIN ms : ms[i].role = "tool" =>
                                     LET place == Len(Selected(SubSeq(ms, 1, i), Spoken(ms)))
                                     IN  {result.messages[place].calls[1]} = before(i)
  <1>15. Fine
    <2>1. \A i : Len(Selected(SubSeq(ms, 1, i), Spoken(ms))) = Len(SaidBy(ms, i))
      BY DEF SaidBy, First
    <2> QED
      BY <1>1, <1>13, <1>14, <2>1
  <1> QED
    BY <1>15, Zenon DEF ConversationAgrees, good, all, before, said, result, Spoken

-----------------------------------------------------------------------------
(* ModelAnswer                                                             *)

AnswerCalls(I, N)    == [id : I, name : N, record : BOOLEAN, signed : BOOLEAN]
TextParts(X)         == [type : {"text"}, text : X]
CallParts(I, N)      == [type : {"call"}, call : AnswerCalls(I, N)]
AnswerParts(X, I, N) == TextParts(X) \cup CallParts(I, N)
Measurements         == [prompt : Int, candidates : Int, thoughts : Nat, total : Int]
Spent                == [input : Nat, output : Nat]
AnswerEvents(X, I, N, F) ==
    AnswerParts(X, I, N) \cup [type : {"error"}] \cup [type : {"step"}, raw : Measurements]
      \cup [type : {"finish"}, usage : Spent, finish : F]
AnswerStates(X, I, N, F) ==
    [kind : {"ok", "upstream_response"}, text : Seq(X), calls : Seq(ConvCalls(I, N)),
     signed : SUBSET I, raw : Measurements, usage : Spent, finish : F \cup {"none"}]

\* What the gateway has after some events
EventsOn(s, tools) == FoldLeft(LAMBDA a, event : TakeModelEvent(a, event, tools), NoAnswer, s)

LEMMA NotNegative == ASSUME NEW a \in Int PROVE Max({a, 0}) = (IF a < 0 THEN 0 ELSE a)
  <1> DEFINE S == {a, 0}
             m == IF a < 0 THEN 0 ELSE a
  <1>1. S \subseteq Int /\ m \in S /\ \A i \in S : i <= m
    OBVIOUS
  <1> HIDE DEF S, m
  <1>2. Max(S) = m
    BY <1>1, MaxIs
  <1> QED
    BY <1>2 DEF S, m

LEMMA SpentIs ==
    ASSUME NEW raw \in Measurements
    PROVE  /\ SdkUsage(raw) \in Spent
           /\ raw.prompt >= 0 => SdkUsage(raw).input = raw.prompt
           /\ raw.candidates >= 0 => SdkUsage(raw).output = raw.candidates + raw.thoughts
  <1>1. raw.prompt \in Int /\ raw.candidates \in Int /\ raw.thoughts \in Nat
    BY DEF Measurements
  <1>2. /\ Max({raw.prompt, 0}) = (IF raw.prompt < 0 THEN 0 ELSE raw.prompt)
        /\ Max({raw.candidates, 0}) = (IF raw.candidates < 0 THEN 0 ELSE raw.candidates)
    BY <1>1, NotNegative
  <1> QED
    BY <1>1, <1>2 DEF SdkUsage, Spent

LEMMA LeastOfThree ==
    ASSUME NEW a \in Int, NEW b \in Int, NEW c \in Int
    PROVE  Min({a, b, c}) \in Int
  <1> DEFINE S == {a, b, c}
             m == CHOOSE x \in S : \A y \in S : x =< y
  <1>1. \E x \in S : \A y \in S : x =< y
    OBVIOUS
  <1>2. m \in S
    BY <1>1
  <1>3. Min(S) = m
    BY DEF Min
  <1> HIDE DEF m
  <1> QED
    BY <1>2, <1>3

\* The counters are the provider's own just when they are there and add up.
LEMMA MeasuredIs ==
    ASSUME NEW raw \in Measurements
    PROVE  Measured(raw, SdkUsage(raw))
             <=> /\ raw.prompt >= 0 /\ raw.candidates >= 0
                 /\ raw.total >= raw.prompt + raw.candidates + raw.thoughts
  <1> DEFINE a == raw.prompt
             b == raw.candidates
             c == raw.total
             k == raw.thoughts
             u == SdkUsage(raw)
             m == Min({a, b, c})
  <1>1. a \in Int /\ b \in Int /\ c \in Int /\ k \in Nat
    BY DEF Measurements
  <1>2. m < 0 <=> a < 0 \/ b < 0 \/ c < 0
    BY <1>1, MinOfThree
  <1>3. m \in Int
    BY <1>1, LeastOfThree
  <1>4. /\ u.input \in Nat /\ u.output \in Nat
        /\ a >= 0 => u.input = a
        /\ b >= 0 => u.output = b + k
    BY SpentIs DEF Spent
  <1>5. Measured(raw, u) <=> m >= 0 /\ c >= u.input + u.output
    BY DEF Measured
  <1> HIDE DEF a, b, c, k, u, m
  <1>6. Measured(raw, u) <=> a >= 0 /\ b >= 0 /\ c >= a + b + k
    <2>1. m >= 0 <=> a >= 0 /\ b >= 0 /\ c >= 0
      BY <1>1, <1>2, <1>3
    <2>2. CASE a >= 0 /\ b >= 0
      BY <1>1, <1>4, <1>5, <2>1, <2>2
    <2>3. CASE ~(a >= 0 /\ b >= 0)
      BY <1>5, <2>1, <2>3
    <2> QED
      BY <2>2, <2>3
  <1> QED
    BY <1>6 DEF a, b, c, k, u

LEMMA NoAnswerTyped ==
    ASSUME NEW X, NEW I, NEW N, NEW F
    PROVE  NoAnswer \in AnswerStates(X, I, N, F)
  <1>1. NoCounters \in Measurements
    BY DEF NoCounters, Measurements
  <1>2. SdkUsage(NoCounters) \in Spent
    BY <1>1, SpentIs
  <1>3. <<>> \in Seq(X) /\ <<>> \in Seq(ConvCalls(I, N))
    BY EmptySeq
  <1> QED
    BY <1>1, <1>2, <1>3 DEF NoAnswer, AnswerStates

LEMMA AnswerTyped ==
    ASSUME NEW X, NEW I, NEW N, NEW F, NEW tools, NEW r \in AnswerStates(X, I, N, F),
           NEW x \in AnswerEvents(X, I, N, F)
    PROVE  TakeModelEvent(r, x, tools) \in AnswerStates(X, I, N, F)
  <1>1. r.text \in Seq(X) /\ r.calls \in Seq(ConvCalls(I, N))
    BY DEF AnswerStates
  <1>2. CASE r.kind # "ok"
    BY <1>2 DEF TakeModelEvent
  <1>3. CASE r.kind = "ok" /\ x \in TextParts(X)
    <2>1. x.type = "text" /\ x.text \in X
      BY <1>3 DEF TextParts
    <2>2. Append(r.text, x.text) \in Seq(X)
      BY <1>1, <2>1, AppendProperties
    <2> QED
      BY <1>3, <2>1, <2>2 DEF TakeModelEvent, AnswerStates
  <1>4. CASE r.kind = "ok" /\ x \in CallParts(I, N)
    <2> DEFINE q == x.call
               k == [id |-> q.id, name |-> q.name]
    <2>1. x.type = "call" /\ q \in AnswerCalls(I, N)
      BY <1>4 DEF CallParts
    <2>2. q.id \in I /\ k \in ConvCalls(I, N)
      BY <2>1 DEF AnswerCalls, ConvCalls
    <2>3. TakeModelEvent(r, x, tools) = AddAnswerCall(r, q, tools)
      BY <1>4, <2>1 DEF TakeModelEvent
    <2>4. Append(r.calls, k) \in Seq(ConvCalls(I, N))
      BY <1>1, <2>2, AppendProperties
    <2>5. (IF q.signed THEN r.signed \cup {q.id} ELSE r.signed) \in SUBSET I
      BY <2>2 DEF AnswerStates
    <2> HIDE DEF q
    <2> QED
      BY <2>3, <2>4, <2>5 DEF AddAnswerCall, AnswerStates
  <1>5. CASE r.kind = "ok" /\ x \in [type : {"error"}]
    BY <1>5 DEF TakeModelEvent, AnswerStates
  <1>6. CASE r.kind = "ok" /\ x \in [type : {"step"}, raw : Measurements]
    BY <1>6 DEF TakeModelEvent, AnswerStates
  <1>7. CASE r.kind = "ok" /\ x \in [type : {"finish"}, usage : Spent, finish : F]
    BY <1>7 DEF TakeModelEvent, AnswerStates
  <1> QED
    BY <1>2, <1>3, <1>4, <1>5, <1>6, <1>7 DEF AnswerEvents, AnswerParts, AnswerStates

TakesEvents(A, B, tools) ==
    NoAnswer \in A /\ \A r \in A, x \in B : TakeModelEvent(r, x, tools) \in A

EventFoldGoes(A, B, tools, s) ==
    \E G \in [0 .. Len(s) -> A] :
        /\ G[0] = NoAnswer
        /\ \A i \in 1 .. Len(s) : G[i] = TakeModelEvent(G[i - 1], s[i], tools)
        /\ EventsOn(s, tools) = G[Len(s)]

\* Event by event
LEMMA EventFold ==
    ASSUME NEW A, NEW B, NEW tools, TakesEvents(A, B, tools), NEW s \in Seq(B)
    PROVE  EventFoldGoes(A, B, tools, s)
  <1> DEFINE f == [q \in A \X B |-> TakeModelEvent(q[1], q[2], tools)]
             Step(H) == [t \in SUBSET DOMAIN s |->
                           IF t = {} THEN NoAnswer
                           ELSE TakeModelEvent(H[t \ {Max(t)}], s[Max(t)], tools)]
             F == CHOOSE H : H = Step(H)
  <1>1. EventsOn(s, tools) = F[DOMAIN s]
    BY DEF FoldLeft, MapThenFoldSet, EventsOn
  <1>2. \A r \in A, x \in B : TakeModelEvent(r, x, tools) \in A
    BY DEF TakesEvents
  <1>3. NoAnswer \in A
    BY DEF TakesEvents
  <1>4. \A r \in A, x \in B : f[<<r, x>>] = TakeModelEvent(r, x, tools)
    OBVIOUS
  <1>5. Foldable(A, B, f, NoAnswer, s)
    BY <1>2, <1>3 DEF Foldable
  <1> HIDE DEF f
  <1>6. Len(s) \in Nat /\ DOMAIN s = 1 .. Len(s) /\ \A i \in 1 .. Len(s) : s[i] \in B
    BY LenProperties, ElementOfSeq
  <1>7. \A t \in SUBSET DOMAIN s :
           t # {} => s[Max(t)] \in B /\ t \ {Max(t)} \in SUBSET DOMAIN s
    BY <1>6, MaxIsIn
  <1>8. HasFold(A, f, NoAnswer, s)
    BY <1>5, FoldExists
  <1>9. PICK K \in [SUBSET DOMAIN s -> A] : K = Folds(K, f, NoAnswer, s)
    BY <1>8 DEF HasFold
  <1>10. Step(K) = Folds(K, f, NoAnswer, s)
    BY <1>4, <1>7 DEF Folds
  <1>11. F = Step(F)
    BY <1>9, <1>10
  <1> HIDE DEF F
  <1>12. F[{}] = NoAnswer
    BY <1>11
  <1>13. IsFold(F, A, f, NoAnswer, s)
    <2>1. ASSUME NEW t \in SUBSET DOMAIN s, t # {}, F[t \ {Max(t)}] \in A
          PROVE  F[t] = f[<<F[t \ {Max(t)}], s[Max(t)]>>]
      <3>1. F[t] = TakeModelEvent(F[t \ {Max(t)}], s[Max(t)], tools)
        BY <1>11, <2>1
      <3>2. s[Max(t)] \in B
        BY <1>7, <2>1
      <3> HIDE DEF Step
      <3> QED
        BY <1>4, <2>1, <3>1, <3>2
    <2> HIDE DEF Step
    <2> QED
      BY <1>12, <2>1 DEF IsFold
  <1>14. GivesAlong(F, A, f, NoAnswer, s)
    BY <1>5, <1>13, FoldGives
  <1>15. PICK G \in [0 .. Len(s) -> A] : Along(G, f, NoAnswer, s) /\ F[DOMAIN s] = G[Len(s)]
    BY <1>14 DEF GivesAlong
  <1>16. \A i \in 1 .. Len(s) : G[i - 1] \in A
    <2>1. \A i \in 1 .. Len(s) : i - 1 \in 0 .. Len(s)
      BY <1>6
    <2> QED
      BY <2>1
  <1>17. \A i \in 1 .. Len(s) : G[i] = TakeModelEvent(G[i - 1], s[i], tools)
    BY <1>4, <1>6, <1>15, <1>16 DEF Along
  <1> QED
    BY <1>1, <1>15, <1>17 DEF Along, EventFoldGoes

LEMMA EventFoldStep ==
    ASSUME NEW A, NEW B, NEW tools, TakesEvents(A, B, tools), NEW s \in Seq(B), NEW x \in B
    PROVE  /\ EventsOn(s, tools) \in A
           /\ EventsOn(Append(s, x), tools) = TakeModelEvent(EventsOn(s, tools), x, tools)
  <1> DEFINE t == Append(s, x)
  <1>1. /\ t \in Seq(B) /\ Len(t) = Len(s) + 1 /\ t[Len(s) + 1] = x /\ Len(s) \in Nat
        /\ \A i \in 1 .. Len(s) : t[i] = s[i]
    BY AppendProperties, LenProperties
  <1> HIDE DEF t
  <1> EventFoldGoes(A, B, tools, s)
    BY EventFold
  <1> EventFoldGoes(A, B, tools, t)
    BY <1>1, EventFold
  <1>2. PICK G \in [0 .. Len(s) -> A] :
           /\ G[0] = NoAnswer
           /\ \A i \in 1 .. Len(s) : G[i] = TakeModelEvent(G[i - 1], s[i], tools)
           /\ EventsOn(s, tools) = G[Len(s)]
    BY DEF EventFoldGoes
  <1>3. PICK H \in [0 .. Len(t) -> A] :
           /\ H[0] = NoAnswer
           /\ \A i \in 1 .. Len(t) : H[i] = TakeModelEvent(H[i - 1], t[i], tools)
           /\ EventsOn(t, tools) = H[Len(t)]
    BY DEF EventFoldGoes
  <1> DEFINE T == {i \in 0 .. Len(s) : H[i] = G[i]}
  <1>4. 0 \in T
    BY <1>1, <1>2, <1>3
  <1>5. ASSUME NEW i \in 1 .. Len(s), i - 1 \in T PROVE i \in T
    <2>1. i \in 0 .. Len(s) /\ i \in 1 .. Len(t) /\ t[i] = s[i] /\ H[i - 1] = G[i - 1]
      BY <1>1, <1>5
    <2>2. H[i] = TakeModelEvent(H[i - 1], t[i], tools)
      BY <1>3, <2>1
    <2>3. G[i] = TakeModelEvent(G[i - 1], s[i], tools)
      BY <1>2
    <2>4. H[i] = G[i]
      BY <2>1, <2>2, <2>3
    <2> QED
      BY <2>1, <2>4
  <1> HIDE DEF T
  <1>6. \A i \in 0 .. Len(s) : i \in T
    BY <1>1, <1>4, <1>5, Reaches
  <1>7. H[Len(s)] = G[Len(s)] /\ G[Len(s)] \in A
    BY <1>1, <1>2, <1>6 DEF T
  <1>8. Len(s) + 1 \in 1 .. Len(t) /\ (Len(s) + 1) - 1 = Len(s)
    BY <1>1
  <1>9. H[Len(s) + 1] = TakeModelEvent(H[Len(s)], x, tools)
    BY <1>1, <1>3, <1>8
  <1>10. EventsOn(t, tools) = TakeModelEvent(EventsOn(s, tools), x, tools)
    BY <1>1, <1>2, <1>3, <1>7, <1>9
  <1> QED
    BY <1>2, <1>7, <1>10 DEF t

LEMMA EventFoldNone ==
    ASSUME NEW A, NEW B, NEW tools, TakesEvents(A, B, tools)
    PROVE  EventsOn(<<>>, tools) = NoAnswer
  <1> EventFoldGoes(A, B, tools, <<>>)
    BY EventFold, EmptySeq
  <1>1. Len(<<>>) = 0
    BY EmptySeq
  <1> QED
    BY <1>1 DEF EventFoldGoes

\* What the gateway has of the parts of an answer: its calls and texts, in their order
CallsOf(ps, d) == Selected(First(ps, d), {p \in ToSet(ps) : p.type = "call"})
TextsOf(ps, d) == Selected(First(ps, d), {p \in ToSet(ps) : p.type = "text"})

Apart(ps) == \A i, j \in 1 .. Len(ps) :
                i # j /\ ps[i].type = "call" /\ ps[j].type = "call" => ps[i].call.id # ps[j].call.id

CanBeMade(call, tools) == /\ call.id # 0 /\ call.record
                          /\ \E j \in DOMAIN tools : tools[j] = call.name

OfParts(cs, ts, ps, d) ==
    /\ Len(cs) + Len(ts) = d
    /\ \A i \in 1 .. Len(cs) : \E j \in 1 .. d : cs[i] = ps[j] /\ ps[j].type = "call"
    /\ \A i, k \in 1 .. Len(cs) : i # k => cs[i].call.id # cs[k].call.id

Holds(r, cs, ts) ==
    /\ r.finish = "none"
    /\ Len(r.text) = Len(ts) /\ \A i \in 1 .. Len(ts) : r.text[i] = ts[i].text
    /\ Len(r.calls) = Len(cs)
    /\ \A i \in 1 .. Len(cs) : r.calls[i] = [id |-> cs[i].call.id, name |-> cs[i].call.name]
    /\ r.signed = {cs[i].call.id : i \in {k \in 1 .. Len(cs) : cs[k].call.signed}}

TakenOf(r, cs, ts, ps, d, tools) ==
    /\ OfParts(cs, ts, ps, d)
    /\ r.kind = "ok" <=> \A i \in 1 .. Len(cs) : CanBeMade(cs[i].call, tools)
    /\ r.kind = "ok" => Holds(r, cs, ts)

LEMMA TextIsTaken ==
    ASSUME NEW X, NEW I, NEW N, NEW F, NEW tools, NEW r \in AnswerStates(X, I, N, F),
           NEW cs, NEW ts \in Seq(AnswerParts(X, I, N)), NEW ps, NEW d \in Nat \ {0},
           TakenOf(r, cs, ts, ps, d - 1, tools), NEW p \in TextParts(X), Len(cs) \in Nat
    PROVE  TakenOf(TakeModelEvent(r, p, tools), cs, Append(ts, p), ps, d, tools)
  <1> DEFINE q == TakeModelEvent(r, p, tools)
             us == Append(ts, p)
             n == Len(ts)
  <1>1. /\ n \in Nat /\ Len(us) = n + 1 /\ us[n + 1] = p /\ \A i \in 1 .. n : us[i] = ts[i]
    <2>1. p \in AnswerParts(X, I, N)
      BY DEF AnswerParts
    <2> QED
      BY <2>1, AppendProperties, LenProperties
  <1>2. p.type = "text" /\ p.text \in X
    BY DEF TextParts
  <1>3. q = IF r.kind # "ok" THEN r ELSE [r EXCEPT !.text = Append(@, p.text)]
    BY <1>2 DEF TakeModelEvent
  <1> HIDE DEF us, q
  <1>4. OfParts(cs, us, ps, d)
    <2>1. Len(cs) + Len(us) = d
      BY <1>1 DEF TakenOf, OfParts, n
    <2>2. \A j \in 1 .. d - 1 : j \in 1 .. d
      OBVIOUS
    <2> QED
      BY <2>1, <2>2 DEF TakenOf, OfParts
  <1>5. q.kind = r.kind
    BY <1>3 DEF AnswerStates
  <1>6. ASSUME r.kind = "ok" PROVE Holds(q, cs, us)
    <2>1. Holds(r, cs, ts) /\ r.text \in Seq(X)
      BY <1>6 DEF TakenOf, AnswerStates
    <2>2. /\ q.text = Append(r.text, p.text) /\ q.calls = r.calls /\ q.signed = r.signed
          /\ q.finish = r.finish
      BY <1>3, <1>6 DEF AnswerStates
    <2>3. /\ Len(q.text) = n + 1 /\ q.text[n + 1] = p.text
          /\ \A i \in 1 .. n : q.text[i] = r.text[i]
      BY <1>2, <2>1, <2>2, AppendProperties DEF Holds, n
    <2>4. \A i \in 1 .. n + 1 : i \in 1 .. n \/ i = n + 1
      BY <1>1
    <2> QED
      BY <1>1, <2>1, <2>2, <2>3, <2>4 DEF Holds, n
  <1> QED
    BY <1>4, <1>5, <1>6 DEF TakenOf, us, q

LEMMA CallIsTaken ==
    ASSUME NEW X, NEW I, NEW N, NEW F, NEW tools, NEW r \in AnswerStates(X, I, N, F),
           NEW cs \in Seq(AnswerParts(X, I, N)), NEW ts, NEW ps \in Seq(AnswerParts(X, I, N)),
           NEW d \in 1 .. Len(ps), Apart(ps),
           TakenOf(r, cs, ts, ps, d - 1, tools), ps[d] \in CallParts(I, N), Len(ts) \in Nat
    PROVE  TakenOf(TakeModelEvent(r, ps[d], tools), Append(cs, ps[d]), ts, ps, d, tools)
  <1> DEFINE p == ps[d]
             c == p.call
             q == TakeModelEvent(r, p, tools)
             us == Append(cs, p)
             n == Len(cs)
  <1>1. /\ n \in Nat /\ Len(us) = n + 1 /\ us[n + 1] = p /\ \A i \in 1 .. n : us[i] = cs[i]
    <2>1. p \in AnswerParts(X, I, N)
      BY DEF AnswerParts
    <2> QED
      BY <2>1, AppendProperties, LenProperties
  <1>2. /\ p.type = "call" /\ c.id \in I /\ c.name \in N /\ c.record \in BOOLEAN
        /\ c.signed \in BOOLEAN
    BY DEF CallParts, AnswerCalls
  <1>3. \A i \in 1 .. n + 1 : i \in 1 .. n \/ i = n + 1
    BY <1>1
  <1>4. n + 1 \in 1 .. n + 1 /\ \A i \in 1 .. n : i \in 1 .. n + 1 /\ i # n + 1
    BY <1>1
  <1>5. q = IF r.kind # "ok" THEN r ELSE AddAnswerCall(r, c, tools)
    BY <1>2 DEF TakeModelEvent
  <1>6. /\ Len(ps) \in Nat /\ d \in Nat /\ d \in 1 .. d
        /\ \A j \in 1 .. d - 1 : j \in 1 .. Len(ps) /\ j # d /\ j \in 1 .. d
    BY LenProperties
  <1> HIDE DEF us, q
  <1>7. OfParts(us, ts, ps, d)
    <2>1. OfParts(cs, ts, ps, d - 1)
      BY DEF TakenOf
    <2>2. Len(us) + Len(ts) = d
      BY <1>1, <1>6, <2>1 DEF OfParts, n
    <2>3. \A i \in 1 .. n + 1 : \E j \in 1 .. d : us[i] = ps[j] /\ ps[j].type = "call"
      <3>1. ASSUME NEW i \in 1 .. n PROVE \E j \in 1 .. d : us[i] = ps[j] /\ ps[j].type = "call"
        <4>1. us[i] = cs[i]
          BY <1>1
        <4>2. PICK j \in 1 .. d - 1 : cs[i] = ps[j] /\ ps[j].type = "call"
          BY <2>1 DEF OfParts, n
        <4> QED
          BY <1>6, <4>1, <4>2
      <3>2. us[n + 1] = ps[d] /\ ps[d].type = "call"
        BY <1>1, <1>2
      <3> HIDE DEF p, n
      <3> QED
        BY <1>3, <1>6, <3>1, <3>2
    <2>4. \A i \in 1 .. n : cs[i].call.id # c.id
      BY <1>2, <1>6, <2>1 DEF OfParts, Apart, n
    <2>5. \A i, k \in 1 .. n + 1 : i # k => us[i].call.id # us[k].call.id
      BY <1>1, <1>3, <2>1, <2>4 DEF OfParts, n
    <2> QED
      BY <1>1, <2>2, <2>3, <2>5 DEF OfParts
  <1>8. r.kind = "ok" <=> \A i \in 1 .. n : CanBeMade(cs[i].call, tools)
    BY DEF TakenOf, n
  <1>9. (\A i \in 1 .. n + 1 : CanBeMade(us[i].call, tools))
          <=> r.kind = "ok" /\ CanBeMade(c, tools)
    BY <1>1, <1>3, <1>4, <1>8
  <1>10. c.name \in ToSet(tools) <=> \E j \in DOMAIN tools : tools[j] = c.name
    BY DEF ToSet
  <1>11. CASE r.kind # "ok"
    BY <1>1, <1>5, <1>7, <1>9, <1>11 DEF TakenOf, us, q
  <1>12. CASE r.kind = "ok" /\ ~CanBeMade(c, tools)
    <2>1. q.kind # "ok"
      BY <1>5, <1>10, <1>12 DEF CanBeMade, AddAnswerCall, AnswerStates
    <2> QED
      BY <1>1, <1>7, <1>9, <1>12, <2>1 DEF TakenOf, us, q
  <1>13. CASE r.kind = "ok" /\ CanBeMade(c, tools)
    <2> DEFINE k == [id |-> c.id, name |-> c.name]
    <2>1. q = [r EXCEPT !.calls  = Append(@, [id |-> c.id, name |-> c.name]),
                        !.signed = IF c.signed THEN @ \cup {c.id} ELSE @]
      BY <1>5, <1>10, <1>13 DEF CanBeMade, AddAnswerCall
    <2>2. Holds(r, cs, ts) /\ r.calls \in Seq(ConvCalls(I, N)) /\ k \in ConvCalls(I, N)
      BY <1>2, <1>13 DEF TakenOf, AnswerStates, ConvCalls
    <2>3. /\ q.text = r.text /\ q.calls = Append(r.calls, k) /\ q.finish = r.finish
          /\ q.signed = (IF c.signed THEN r.signed \cup {c.id} ELSE r.signed) /\ q.kind = "ok"
      BY <1>13, <2>1 DEF AnswerStates
    <2> HIDE DEF k
    <2>4. Len(r.calls) = n
      BY <2>2 DEF Holds, n
    <2>5. /\ Len(q.calls) = n + 1 /\ q.calls[n + 1] = k
          /\ \A i \in 1 .. n : q.calls[i] = r.calls[i]
      BY <2>2, <2>3, <2>4, AppendProperties
    <2>6. \A i \in 1 .. n + 1 : q.calls[i] = [id |-> us[i].call.id, name |-> us[i].call.name]
      BY <1>1, <1>3, <2>2, <2>5 DEF Holds, n, k
    <2>7. q.signed = {us[i].call.id : i \in {j \in 1 .. n + 1 : us[j].call.signed}}
      <3> DEFINE B == {cs[i].call.id : i \in {j \in 1 .. n : cs[j].call.signed}}
      <3>1. r.signed = B
        BY <2>2 DEF Holds, n
      <3> DEFINE D == {us[i].call.id : i \in {j \in 1 .. n + 1 : us[j].call.signed}}
      <3> HIDE DEF n, c
      <3>2. D = IF c.signed THEN B \cup {c.id} ELSE B
        <4>1. us[n + 1].call = c
          BY <1>1 DEF c
        <4>2. B \subseteq D
          BY <1>1, <1>4
        <4>3. c.signed => c.id \in D
          BY <1>4, <4>1
        <4>4. ASSUME NEW i \in 1 .. n + 1, us[i].call.signed
              PROVE  us[i].call.id \in B \/ (c.signed /\ us[i].call.id = c.id)
          <5>1. CASE i \in 1 .. n
            BY <1>1, <4>4, <5>1
          <5>2. CASE i = n + 1
            BY <4>1, <4>4, <5>2
          <5> QED
            BY <1>3, <5>1, <5>2
        <4> QED
          BY <4>2, <4>3, <4>4
      <3> QED
        BY <2>3, <3>1, <3>2
    <2>8. Holds(q, us, ts)
      <3>1. Len(us) = n + 1
        BY <1>1
      <3> QED
        BY <2>2, <2>3, <2>5, <2>6, <2>7, <3>1 DEF Holds
    <2> QED
      BY <1>1, <1>7, <1>9, <1>13, <2>3, <2>8 DEF TakenOf, us, q
  <1> QED
    BY <1>11, <1>12, <1>13

PartsTaken(ps, d, tools) ==
    TakenOf(EventsOn(First(ps, d), tools), CallsOf(ps, d), TextsOf(ps, d), ps, d, tools)

LEMMA EventsTaken ==
    ASSUME NEW X, NEW I, NEW N, NEW F, NEW tools
    PROVE  TakesEvents(AnswerStates(X, I, N, F), AnswerEvents(X, I, N, F), tools)
  BY AnswerTyped, NoAnswerTyped DEF TakesEvents

LEMMA PartsAreTaken ==
    ASSUME NEW X, NEW I, NEW N, NEW tools, NEW ps \in Seq(AnswerParts(X, I, N)), Apart(ps)
    PROVE  PartsTaken(ps, Len(ps), tools)
  <1> DEFINE A == AnswerStates(X, I, N, {})
             B == AnswerEvents(X, I, N, {})
             C == {p \in ToSet(ps) : p.type = "call"}
             D == {p \in ToSet(ps) : p.type = "text"}
             T == {d \in 0 .. Len(ps) : PartsTaken(ps, d, tools)}
  <1>1. Len(ps) \in Nat /\ DOMAIN ps = 1 .. Len(ps)
    BY LenProperties
  <1>2. TakesEvents(A, B, tools)
    BY EventsTaken
  <1>3. ps \in Seq(B)
    <2>1. \A i \in 1 .. Len(ps) : ps[i] \in B
      BY ElementOfSeq DEF AnswerEvents
    <2> HIDE DEF B
    <2>2. ps \in [1 .. Len(ps) -> B]
      BY <1>1, <2>1, LenProperties
    <2> QED
      BY <1>1, <2>2
  <1>4. 0 \in T
    <2>1. First(ps, 0) = <<>>
      BY FirstGrows
    <2> HIDE DEF A, B
    <2>2. EventsOn(<<>>, tools) = NoAnswer
      BY <1>2, EventFoldNone
    <2>3. CallsOf(ps, 0) = <<>> /\ TextsOf(ps, 0) = <<>>
      BY SelectedIs DEF CallsOf, TextsOf
    <2>4. Len(<<>>) = 0
      BY EmptySeq
    <2>5. \A i : i \notin 1 .. 0
      OBVIOUS
    <2>6. /\ NoAnswer.kind = "ok" /\ NoAnswer.text = <<>> /\ NoAnswer.calls = <<>>
          /\ NoAnswer.signed = {} /\ NoAnswer.finish = "none"
      BY DEF NoAnswer
    <2>7. OfParts(<<>>, <<>>, ps, 0)
      BY <2>4, <2>5 DEF OfParts
    <2>8. Holds(NoAnswer, <<>>, <<>>)
      BY <2>4, <2>5, <2>6 DEF Holds
    <2>9. TakenOf(NoAnswer, <<>>, <<>>, ps, 0, tools)
      BY <2>4, <2>5, <2>6, <2>7, <2>8 DEF TakenOf
    <2> QED
      BY <1>1, <2>1, <2>2, <2>3, <2>9 DEF PartsTaken
  <1>5. ASSUME NEW d \in 1 .. Len(ps), d - 1 \in T PROVE d \in T
    <2> DEFINE p == ps[d]
               s == First(ps, d - 1)
               r == EventsOn(s, tools)
               cs == CallsOf(ps, d - 1)
               ts == TextsOf(ps, d - 1)
    <2>1. d \in 0 .. Len(ps) /\ d - 1 \in 0 .. Len(ps) /\ d \in Nat \ {0}
      BY <1>1
    <2>2. p \in AnswerParts(X, I, N) /\ p \in B /\ p \in ToSet(ps)
      BY <1>1, <1>3, ElementOfSeq DEF ToSet
    <2>3. s \in Seq(B) /\ First(ps, d) = Append(s, p)
      <3> HIDE DEF B
      <3> QED
        BY <1>3, <2>1, FirstIs, FirstGrows
    <2>4. r \in A /\ EventsOn(First(ps, d), tools) = TakeModelEvent(r, p, tools)
      <3> HIDE DEF A, B, s, p
      <3> QED
        BY <1>2, <2>2, <2>3, EventFoldStep
    <2>5. /\ cs \in Seq(AnswerParts(X, I, N)) /\ ts \in Seq(AnswerParts(X, I, N))
          /\ CallsOf(ps, d) = IF p \in C THEN Append(cs, p) ELSE cs
          /\ TextsOf(ps, d) = IF p \in D THEN Append(ts, p) ELSE ts
      <3> HIDE DEF C, D
      <3>1. /\ Selected(First(ps, d - 1), C) \in Seq(AnswerParts(X, I, N))
            /\ Selected(First(ps, d - 1), D) \in Seq(AnswerParts(X, I, N))
        BY <2>1, SelectedIs
      <3>2. Selected(First(ps, d), C) =
              IF ps[d] \in C THEN Append(Selected(First(ps, d - 1), C), ps[d])
                                        ELSE Selected(First(ps, d - 1), C)
        BY SelectedStep
      <3>3. Selected(First(ps, d), D) =
              IF ps[d] \in D THEN Append(Selected(First(ps, d - 1), D), ps[d])
                                        ELSE Selected(First(ps, d - 1), D)
        BY SelectedStep
      <3> QED
        BY <3>1, <3>2, <3>3 DEF CallsOf, TextsOf, C, D
    <2>6. TakenOf(r, cs, ts, ps, d - 1, tools)
      BY <1>5 DEF PartsTaken
    <2>7. Len(cs) \in Nat /\ Len(ts) \in Nat
      BY <2>5, LenProperties
    <2> HIDE DEF s, r, cs, ts
    <2>8. CASE p \in TextParts(X)
      <3>1. p \in D /\ p \notin C
        BY <2>2, <2>8 DEF TextParts
      <3>2. TakenOf(TakeModelEvent(r, p, tools), cs, Append(ts, p), ps, d, tools)
        BY <2>1, <2>4, <2>5, <2>6, <2>7, <2>8, TextIsTaken
      <3> QED
        BY <2>1, <2>4, <2>5, <3>1, <3>2 DEF PartsTaken
    <2>9. CASE p \in CallParts(I, N)
      <3>1. p \in C /\ p \notin D
        BY <2>2, <2>9 DEF CallParts
      <3>2. TakenOf(TakeModelEvent(r, p, tools), Append(cs, p), ts, ps, d, tools)
        BY <2>4, <2>5, <2>6, <2>7, <2>9, CallIsTaken
      <3> QED
        BY <2>1, <2>4, <2>5, <3>1, <3>2 DEF PartsTaken
    <2> QED
      BY <2>2, <2>8, <2>9 DEF AnswerParts
  <1> HIDE DEF T
  <1>6. \A d \in 0 .. Len(ps) : d \in T
    BY <1>1, <1>4, <1>5, Reaches
  <1> QED
    BY <1>1, <1>6 DEF T

\* What Pi sends next: what was asked, the answer with its calls, and a result for each
Turn(role, made, answers) ==
    [role |-> role, content |-> "text", calls |-> made, answers |-> answers]
NextOf(calls) == <<Turn("user", <<>>, 0), Turn("assistant", calls, 0)>>
                   \o [i \in DOMAIN calls |-> Turn("tool", <<>>, calls[i].id)]

NextHas(I, N, calls) ==
    LET n == Len(calls)
        next == NextOf(calls)
    IN  /\ n \in Nat /\ Len(next) = n + 2 /\ next \in Seq(Turns(I, N))
        /\ next[1] = Turn("user", <<>>, 0) /\ next[2] = Turn("assistant", calls, 0)
        /\ \A i \in 1 .. n : next[i + 2] = Turn("tool", <<>>, calls[i].id)

LEMMA NextIs ==
    ASSUME NEW I, NEW N, 0 \in I, NEW calls \in Seq(ConvCalls(I, N))
    PROVE  NextHas(I, N, calls)
  <1> DEFINE n == Len(calls)
             a == Turn("user", <<>>, 0)
             b == Turn("assistant", calls, 0)
             t == [i \in DOMAIN calls |-> Turn("tool", <<>>, calls[i].id)]
             s == <<a, b>>
             A == Turns(I, N)
  <1>1. n \in Nat /\ DOMAIN calls = 1 .. n /\ \A i \in 1 .. n : calls[i].id \in I
    <2>1. \A i \in 1 .. n : calls[i] \in ConvCalls(I, N)
      BY ElementOfSeq
    <2> QED
      BY <2>1, LenProperties DEF ConvCalls
  <1>2. a \in A /\ b \in A /\ \A k \in I : Turn("tool", <<>>, k) \in A
    <2>1. <<>> \in Seq(ConvCalls(I, N))
      BY EmptySeq
    <2> QED
      BY <2>1 DEF Turn, Turns
  <1> HIDE DEF A, a, b
  <1>3. t \in Seq(A) /\ Len(t) = n /\ \A i \in 1 .. n : t[i] = Turn("tool", <<>>, calls[i].id)
    <2>1. t \in [1 .. n -> A]
      BY <1>1, <1>2
    <2>2. t \in Seq(A) /\ Len(t) = n
      <3> HIDE DEF t
      <3> QED
        BY <1>1, <2>1, LenProperties
    <2> QED
      BY <1>1, <2>2
  <1>4. s \in Seq(A) /\ Len(s) = 2 /\ s[1] = a /\ s[2] = b
    BY <1>2
  <1> HIDE DEF s, t
  <1> DEFINE u == s \o t
  <1>5. /\ u \in Seq(A) /\ Len(u) = Len(s) + Len(t)
        /\ \A i \in 1 .. Len(s) + Len(t) : u[i] = IF i <= Len(s) THEN s[i] ELSE t[i - Len(s)]
    <2>1. s \in Seq(A) /\ t \in Seq(A)
      BY <1>3, <1>4
    <2> QED
      BY <2>1, ConcatProperties
  <1> HIDE DEF u
  <1>6. \A i \in 1 .. n : i + 2 \in 1 .. 2 + n /\ ~(i + 2 <= 2) /\ (i + 2) - 2 = i
    BY <1>1
  <1>7. 1 \in 1 .. 2 + n /\ 2 \in 1 .. 2 + n /\ 2 + n = n + 2
    BY <1>1
  <1>8. /\ n \in Nat /\ Len(u) = n + 2 /\ u \in Seq(A) /\ u[1] = a /\ u[2] = b
        /\ \A i \in 1 .. n : u[i + 2] = Turn("tool", <<>>, calls[i].id)
    BY <1>1, <1>3, <1>4, <1>5, <1>6, <1>7
  <1>9. u = NextOf(calls)
    BY DEF u, s, t, a, b, NextOf
  <1> QED
    BY <1>8, <1>9 DEF NextHas, A, a, b, n

\* A conversation is taken up again when an answer has calls with ids of their own.
LEMMA NextIsTaken ==
    ASSUME NEW I, NEW N, 0 \in I, NEW calls \in Seq(ConvCalls(I, N)), Distinct(calls)
    PROVE  ~ToSdkCompletionInput(NextOf(calls)).refused
  <1> DEFINE ms == NextOf(calls)
             n == Len(calls)
             l == n + 2
  <1>1. /\ n \in Nat /\ Len(ms) = l /\ ms \in Seq(Turns(I, N))
        /\ ms[1] = Turn("user", <<>>, 0) /\ ms[2] = Turn("assistant", calls, 0)
        /\ \A i \in 1 .. n : ms[i + 2] = Turn("tool", <<>>, calls[i].id)
    <2>1. NextHas(I, N, calls)
      BY NextIs
    <2> QED
      BY <2>1 DEF NextHas
  <1> HIDE DEF ms, n
  <1>2. \A i \in 1 .. l : i = 1 \/ i = 2 \/ (i - 2 \in 1 .. n /\ (i - 2) + 2 = i /\ i > 2)
    BY <1>1
  <1>3. \A i \in 1 .. l : /\ ms[i].role # "system" /\ ms[i].content # "media"
                          /\ ms[i].role # "assistant" => ms[i].calls = <<>>
                          /\ i = 2 => ms[i].calls = calls
                          /\ ms[i].role = "assistant" => i = 2
                          /\ ms[i].role = "tool" => i > 2
    <2> HIDE DEF l
    <2>1. ASSUME NEW i \in 1 .. l, i = 1
          PROVE  ms[i].role = "user" /\ ms[i].content = "text" /\ ms[i].calls = <<>>
      BY <1>1, <2>1 DEF Turn
    <2>2. ASSUME NEW i \in 1 .. l, i = 2
          PROVE  ms[i].role = "assistant" /\ ms[i].content = "text" /\ ms[i].calls = calls
      BY <1>1, <2>2 DEF Turn
    <2>3. ASSUME NEW i \in 1 .. l, i - 2 \in 1 .. n, (i - 2) + 2 = i
          PROVE  ms[i].role = "tool" /\ ms[i].content = "text" /\ ms[i].calls = <<>>
      <3> DEFINE j == i - 2
      <3>1. ms[j + 2] = Turn("tool", <<>>, calls[j].id)
        BY <1>1, <2>3
      <3> QED
        BY <2>3, <3>1 DEF Turn
    <2>4. \A i \in 1 .. l : (i = 1 => i # 2) /\ (i = 2 => i # 1) /\ (i > 2 => i # 2)
      OBVIOUS
    <2> QED
      BY <1>2, <2>1, <2>2, <2>3, <2>4
  <1>4. l \in Nat /\ l \in 0 .. l /\ 2 \in 1 .. l
    BY <1>1
  <1>5. Follows(ms, l)
    <2>1. \A i \in 1 .. Len(ms) : ms[i].role # "assistant" => ms[i].calls = <<>>
      BY <1>1, <1>3
    <2>2. Follows(ms, Len(ms))
      BY <1>1, <2>1, AllFollow
    <2> QED
      BY <1>1, <2>2
  <1> DEFINE T == {i \in 0 .. l : /\ Len(SaidBy(ms, i)) = i
                                  /\ CalledBy(ms, i) = IF i < 2 THEN <<>> ELSE calls}
  <1>6. 0 \in T
    <2>1. CalledBy(ms, 0) = <<>>
      BY <1>1, CalledIs, FlattenIs DEF CalledBy
    <2>2. SaidBy(ms, 0) = <<>>
      BY <1>1, SelectedIs DEF SaidBy
    <2> HIDE DEF l
    <2> QED
      BY <1>4, <2>1, <2>2, EmptySeq
  <1>7. ASSUME NEW i \in 1 .. l, i - 1 \in T PROVE i \in T
    <2> HIDE DEF l
    <2>1. i \in 0 .. l /\ i \in Nat /\ i >= 1
      BY <1>4
    <2>2. TurnIs(I, N, ms, i)
      BY <1>1, TurnHolds DEF l
    <2>3. Len(SaidBy(ms, i)) = Len(SaidBy(ms, i - 1)) + 1
      BY <1>3, <2>2 DEF TurnIs
    <2>4. CalledBy(ms, i) = CalledBy(ms, i - 1) \o ms[i].calls
      BY <2>2 DEF TurnIs
    <2>5. Len(SaidBy(ms, i)) = i
      BY <1>7, <2>1, <2>3
    <2>6. <<>> \o <<>> = <<>> /\ <<>> \o calls = calls /\ calls \o <<>> = calls
      BY ConcatEmptySeq, EmptySeq
    <2>7. CASE i = 1
      <3>1. CalledBy(ms, i - 1) = <<>> /\ ms[i].role # "assistant"
        BY <1>3, <1>7, <2>7
      <3>2. ms[i].calls = <<>>
        BY <1>3, <3>1
      <3> QED
        BY <2>1, <2>4, <2>5, <2>6, <2>7, <3>1, <3>2
    <2>8. CASE i = 2
      <3>1. CalledBy(ms, i - 1) = <<>> /\ ms[i].calls = calls
        BY <1>3, <1>7, <2>8
      <3> QED
        BY <2>1, <2>4, <2>5, <2>6, <2>8, <3>1
    <2>9. CASE i > 2
      <3>1. CalledBy(ms, i - 1) = calls /\ ms[i].role # "assistant"
        BY <1>3, <1>7, <2>1, <2>9
      <3>2. ms[i].calls = <<>>
        BY <1>3, <3>1
      <3>3. CalledBy(ms, i) = calls
        BY <2>4, <2>6, <3>1, <3>2
      <3> QED
        BY <2>1, <2>5, <2>9, <3>3
    <2> QED
      BY <2>1, <2>7, <2>8, <2>9
  <1> HIDE DEF T
  <1>8. \A i \in 0 .. l : i \in T
    BY <1>4, <1>6, <1>7, Reaches
  <1> HIDE DEF l
  <1>9. Sound(ms, l)
    <2>1. Distinct(CalledBy(ms, l))
      <3>1. l \in T /\ ~(l < 2)
        BY <1>1, <1>4, <1>8 DEF l
      <3> QED
        BY <3>1 DEF T
    <2>2. ASSUME NEW j \in 1 .. l, ms[j].role = "tool" PROVE MadeBefore(ms, j) # {}
      <3>1. j > 2 /\ j - 2 \in 1 .. n /\ (j - 2) + 2 = j /\ j - 1 \in 0 .. l /\ ~(j - 1 < 2)
        BY <1>2, <1>3, <1>4, <2>2
      <3>2. CalledBy(ms, j - 1) = calls
        BY <1>8, <3>1 DEF T
      <3>3. ms[j] = Turn("tool", <<>>, calls[j - 2].id)
        BY <1>1, <3>1
      <3>4. calls[j - 2] \in ToSet(calls)
        BY <3>1, LenProperties DEF ToSet, n
      <3>5. calls[j - 2].id = ms[j].answers
        BY <3>3 DEF Turn
      <3> QED
        BY <3>2, <3>4, <3>5 DEF MadeBefore
    <2> QED
      BY <1>3, <2>1, <2>2 DEF Sound
  <1>10. ~Taken(ms, l).refused /\ Len(Taken(ms, l).messages) = l
    BY <1>4, <1>5, <1>8, <1>9 DEF Follows, T
  <1>11. Taken(ms, l) = TurnsOn(ms)
    BY <1>1, FirstGrows DEF Taken
  <1>12. TurnsOn(ms).messages # <<>>
    BY <1>1, <1>10, <1>11, EmptySeq DEF l
  <1> QED
    BY <1>10, <1>11, <1>12 DEF ToSdkCompletionInput, TurnsOn, ms

\* The end of an answer
EndsAs(parts, end, raw, finish, tools) ==
    LET p == EventsOn(parts, tools)
        r == EventsOn(SdkEvents(parts, end, raw, finish), tools)
    IN  /\ end = "error" => r.kind # "ok"
        /\ end = "cut" => r = p
        /\ end = "done" => r = IF p.kind # "ok" THEN p
                               ELSE [p EXCEPT !.raw = raw,
                                              !.usage = SdkUsage(raw), !.finish = finish]

\* What comes from the SDK
Supplied(X, I, N, parts, end, raw) ==
    /\ parts \in Seq(AnswerParts(X, I, N)) /\ Apart(parts)
    /\ end \in {"done", "error", "cut"} /\ raw \in Measurements

EndsTyped(X, I, N, parts, finish, tools) ==
    EventsOn(parts, tools) \in AnswerStates(X, I, N, {finish})

LEMMA AnswerEnds ==
    ASSUME NEW X, NEW I, NEW N, NEW tools, NEW parts, NEW end, NEW raw, NEW finish,
           Supplied(X, I, N, parts, end, raw)
    PROVE  /\ EndsAs(parts, end, raw, finish, tools)
           /\ EndsTyped(X, I, N, parts, finish, tools)
  <1> /\ parts \in Seq(AnswerParts(X, I, N)) /\ Apart(parts)
      /\ end \in {"done", "error", "cut"} /\ raw \in Measurements
    BY DEF Supplied
  <1> DEFINE A == AnswerStates(X, I, N, {finish})
             B == AnswerEvents(X, I, N, {finish})
             x == [type |-> "error"]
             y == [type |-> "step", raw |-> raw]
             z == [type |-> "finish", usage |-> SdkUsage(raw), finish |-> finish]
             p == EventsOn(parts, tools)
             r == EventsOn(SdkEvents(parts, end, raw, finish), tools)
  <1>1. TakesEvents(A, B, tools)
    BY EventsTaken
  <1>2. x \in B /\ y \in B /\ z \in B
    BY SpentIs DEF AnswerEvents
  <1>3. parts \in Seq(B)
    <2>1. \A i \in 1 .. Len(parts) : parts[i] \in B
      BY ElementOfSeq DEF AnswerEvents
    <2> HIDE DEF B
    <2>2. parts \in [1 .. Len(parts) -> B] /\ Len(parts) \in Nat
      BY <2>1, LenProperties
    <2> QED
      BY <2>2
  <1> HIDE DEF A, B
  <1>4. /\ \A v \in B : Append(parts, v) \in Seq(B)
        /\ \A v \in B : parts \o <<v>> = Append(parts, v)
    BY <1>3, AppendProperties, AppendIsConcat
  <1>5. parts \o <<y, z>> = Append(Append(parts, y), z)
    <2> HIDE DEF y, z
    <2>1. <<y>> \in Seq(B) /\ <<y, z>> = Append(<<y>>, z)
      BY <1>2
    <2>2. AppendsTo(parts, <<y>>, z)
      BY <1>2, <1>3, <2>1, AppendToConcat
    <2> QED
      BY <1>2, <1>4, <2>1, <2>2 DEF AppendsTo
  <1>6. parts \o <<>> = parts
    BY <1>3, ConcatEmptySeq
  <1>7. /\ p \in A /\ EventsOn(Append(parts, x), tools) = TakeModelEvent(p, x, tools)
        /\ EventsOn(Append(parts, y), tools) = TakeModelEvent(p, y, tools)
    <2> HIDE DEF x, y
    <2>1. p \in A /\ EventsOn(Append(parts, x), tools) = TakeModelEvent(p, x, tools)
      BY <1>1, <1>2, <1>3, EventFoldStep
    <2>2. EventsOn(Append(parts, y), tools) = TakeModelEvent(p, y, tools)
      BY <1>1, <1>2, <1>3, EventFoldStep
    <2> QED
      BY <2>1, <2>2
  <1>8. EventsOn(Append(Append(parts, y), z), tools)
          = TakeModelEvent(EventsOn(Append(parts, y), tools), z, tools)
    <2> DEFINE s == Append(parts, y)
    <2>1. s \in Seq(B)
      BY <1>2, <1>4
    <2> HIDE DEF s, z
    <2>2. EventsOn(Append(s, z), tools) = TakeModelEvent(EventsOn(s, tools), z, tools)
      BY <1>1, <1>2, <2>1, EventFoldStep
    <2> QED
      BY <2>2 DEF s
  <1> DEFINE f == [p EXCEPT !.raw = raw, !.usage = SdkUsage(raw), !.finish = finish]
             v == SdkEvents(parts, end, raw, finish)
  <1>9. end = "error" => r.kind # "ok"
    <2> SUFFICES ASSUME end = "error" PROVE r.kind # "ok"
      OBVIOUS
    <2>1. v = Append(parts, x)
      BY <1>2, <1>4 DEF SdkEvents
    <2>2. TakeModelEvent(p, x, tools).kind # "ok"
      <3> HIDE DEF p
      <3> QED
        BY <1>7 DEF TakeModelEvent, A, AnswerStates
    <2> HIDE DEF p, v, x
    <2> QED
      BY <1>7, <2>1, <2>2 DEF v
  <1>10. end = "cut" => r = p
    <2> SUFFICES ASSUME end = "cut" PROVE r = p
      OBVIOUS
    <2>1. v = parts
      BY <1>6 DEF SdkEvents
    <2> HIDE DEF v
    <2> QED
      BY <2>1 DEF v
  <1>11. end = "done" => r = IF p.kind # "ok" THEN p ELSE f
    <2> SUFFICES ASSUME end = "done" PROVE r = IF p.kind # "ok" THEN p ELSE f
      OBVIOUS
    <2>1. v = Append(Append(parts, y), z)
      BY <1>5 DEF SdkEvents
    <2>2. TakeModelEvent(TakeModelEvent(p, y, tools), z, tools) = IF p.kind # "ok" THEN p ELSE f
      <3> HIDE DEF p
      <3> QED
        BY <1>7 DEF TakeModelEvent, A, AnswerStates
    <2> HIDE DEF p, v, y, z, f
    <2> QED
      BY <1>7, <1>8, <2>1, <2>2 DEF v
  <1>12. EndsAs(parts, end, raw, finish, tools)
    BY <1>9, <1>10, <1>11, Zenon DEF EndsAs
  <1> QED
    BY <1>7, <1>12 DEF EndsTyped, A, p

\* The usage that is written is read back as it is.
LEMMA WrittenIsRead ==
    ASSUME NEW r, PublicUsage(r) \in Counters,
           ToModelGatewayUsage(PublicUsage(r)) # NoUsage
    PROVE  ReadOpenAiUsage(WrittenEvents(r), FALSE) = PublicUsage(r)
  <1> DEFINE u == PublicUsage(r)
             x == [data |-> "json", usage |-> NoUsage]
             y == [data |-> "json", usage |-> u]
             z == [data |-> "none", usage |-> NoUsage]
             es == WrittenEvents(r)
             good == {i \in 1 .. 4 : es[i].data = "json"
                                       /\ ToModelGatewayUsage(es[i].usage) # NoUsage}
             v == ReadOpenAiUsage(es, FALSE)
  <1>1. es = <<x, x, y, z>>
    BY DEF WrittenEvents
  <1>2. NoUsage \in Counters
    BY DEF NoUsage, Counters
  <1>3. x \in UsageEvents /\ y \in UsageEvents /\ z \in UsageEvents
    BY <1>2 DEF UsageEvents
  <1>4. /\ x.data = "json" /\ x.usage = NoUsage /\ y.data = "json" /\ y.usage = u
        /\ z.data = "none"
    OBVIOUS
  <1> HIDE DEF x, y, z, es, u
  <1>5. es \in Seq(UsageEvents) /\ Len(es) = 4 /\ es[1] = x /\ es[2] = x /\ es[3] = y /\ es[4] = z
    BY <1>1, <1>3
  <1>6. ToModelGatewayUsage(NoUsage) = NoUsage
    BY <1>2, UsageOfEvent
  <1>7. \A i \in 1 .. 4 : i = 1 \/ i = 2 \/ i = 3 \/ i = 4
    OBVIOUS
  <1>8. good = {3}
    <2>1. 3 \in good
      BY <1>4, <1>5 DEF u
    <2>2. 1 \notin good /\ 2 \notin good /\ 4 \notin good
      BY <1>4, <1>5, <1>6
    <2> QED
      BY <1>7, <2>1, <2>2
  <1>9. \A i \in 1 .. 4 : es[i].data # "bad"
    BY <1>4, <1>5, <1>7
  <1>10. Max({3}) = 3
    <2> DEFINE S == {3}
    <2>1. S \subseteq Int /\ 3 \in S /\ \A i \in S : i <= 3
      OBVIOUS
    <2> HIDE DEF S
    <2>2. Max(S) = 3
      BY <2>1, MaxIs
    <2> QED
      BY <2>2 DEF S
  <1>11. UsageAgrees(es, FALSE)
    BY <1>5, ResponseUsageCorrect
  <1> HIDE DEF v
  <1>12. /\ v # NoUsage <=> good # {} /\ \A i \in 1 .. 4 : es[i].data # "bad"
         /\ v # NoUsage => v = es[Max(good)].usage
    <2>1. Len(es) - (IF FALSE /\ es # <<>> THEN 1 ELSE 0) = 4
      BY <1>5
    <2> QED
      BY <1>11, <2>1 DEF UsageAgrees, v
  <1> HIDE DEF good
  <1>13. v = u
    BY <1>4, <1>5, <1>8, <1>9, <1>10, <1>12
  <1> QED
    BY <1>13 DEF v, es, u

\* What is answered with is all of the answer, when it can be.
AnswerIs(upstream, parts, end, raw, finish, tools) ==
    LET p == EventsOn(parts, tools)
        answer == ModelResponse(upstream, SdkEvents(parts, end, raw, finish), tools)
    IN  /\ answer.kind = "ok" <=>
             /\ upstream = "read" /\ end = "done" /\ p.kind = "ok" /\ finish \in Finishes
             /\ Measured(raw, SdkUsage(raw)) /\ Len(p.text) + Len(p.calls) <= MaxAnswerSize
        /\ answer.kind = "ok" =>
             answer = [p EXCEPT !.raw = raw, !.usage = SdkUsage(raw), !.finish = finish]

LEMMA AnswerHolds ==
    ASSUME NEW X, NEW I, NEW N, NEW tools, NEW parts, NEW end, NEW raw, NEW finish,
           Supplied(X, I, N, parts, end, raw),
           NEW upstream \in {"unreached", "rejected", "unreadable", "read"}
    PROVE  AnswerIs(upstream, parts, end, raw, finish, tools)
  <1>0. EndsAs(parts, end, raw, finish, tools) /\ EndsTyped(X, I, N, parts, finish, tools)
    BY AnswerEnds
  <1> /\ parts \in Seq(AnswerParts(X, I, N)) /\ Apart(parts)
      /\ end \in {"done", "error", "cut"} /\ raw \in Measurements
    BY DEF Supplied
  <1> DEFINE events == SdkEvents(parts, end, raw, finish)
             p == EventsOn(parts, tools)
             r == EventsOn(events, tools)
             answer == ModelResponse(upstream, events, tools)
             q == [p EXCEPT !.raw = raw, !.usage = SdkUsage(raw), !.finish = finish]
             Fails(kind) == [NoAnswer EXCEPT !.kind = kind]
             Poor == r.kind # "ok" \/ ~Measured(r.raw, r.usage) \/ r.finish \notin Finishes
                       \/ Len(r.text) + Len(r.calls) > MaxAnswerSize
  <1>1. /\ end = "error" => r.kind # "ok"
        /\ end = "cut" => r = p
        /\ end = "done" => r = IF p.kind # "ok" THEN p ELSE q
        /\ p \in AnswerStates(X, I, N, {finish})
    BY <1>0 DEF EndsAs, EndsTyped
  <1>2. p.kind = "ok" => p.finish = "none"
    <2>1. PartsTaken(parts, Len(parts), tools)
      BY PartsAreTaken
    <2>2. First(parts, Len(parts)) = parts
      BY FirstGrows
    <2> QED
      BY <2>1, <2>2 DEF PartsTaken, TakenOf, Holds
  <1>3. answer = CASE upstream = "unreached"  -> Fails("upstream_fetch")
                   [] upstream = "rejected"   -> Fails("rejected")
                   [] upstream = "unreadable" -> Fails("upstream_response")
                   [] OTHER -> IF Poor THEN Fails("upstream_response") ELSE r
    BY DEF ModelResponse, EventsOn
  <1>4. /\ Fails("upstream_fetch").kind # "ok" /\ Fails("rejected").kind # "ok"
        /\ Fails("upstream_response").kind # "ok"
    BY DEF NoAnswer
  <1>5. /\ q.kind = p.kind /\ q.raw = raw /\ q.usage = SdkUsage(raw) /\ q.finish = finish
        /\ q.text = p.text /\ q.calls = p.calls
    BY <1>1 DEF AnswerStates
  <1>6. Len(p.text) \in Nat /\ Len(p.calls) \in Nat
    BY <1>1, LenProperties DEF AnswerStates
  <1> HIDE DEF p, r, answer, q, Poor, Fails
  <1>7. answer.kind = "ok" <=> upstream = "read" /\ ~Poor /\ r.kind = "ok"
    BY <1>3, <1>4 DEF Poor
  <1>8. answer.kind = "ok" => answer = r
    BY <1>3, <1>4
  <1>9. CASE end = "error"
    BY <1>1, <1>7, <1>9 DEF AnswerIs, p, answer
  <1>10. CASE end = "cut"
    <2>1. answer.kind # "ok"
      BY <1>1, <1>2, <1>7, <1>10 DEF Poor, Finishes
    <2> QED
      BY <1>10, <2>1 DEF AnswerIs, p, answer
  <1>11. CASE end = "done"
    <2>1. CASE p.kind # "ok"
      BY <1>1, <1>7, <1>11, <2>1 DEF AnswerIs, p, answer
    <2>2. CASE p.kind = "ok"
      <3>1. r = q /\ r.kind = "ok"
        BY <1>1, <1>5, <1>11, <2>2
      <3>2. ~Poor <=> /\ Measured(raw, SdkUsage(raw)) /\ finish \in Finishes
                      /\ Len(p.text) + Len(p.calls) <= MaxAnswerSize
        <4>1. /\ r.kind = "ok" /\ r.raw = raw /\ r.usage = SdkUsage(raw) /\ r.finish = finish
              /\ r.text = p.text /\ r.calls = p.calls
          BY <1>5, <3>1
        <4> DEFINE k == Len(p.text) + Len(p.calls)
        <4>2. k \in Int
          BY <1>6
        <4> HIDE DEF k
        <4>3. Len(r.text) + Len(r.calls) = k
          BY <4>1 DEF k
        <4>4. k > MaxAnswerSize <=> ~(k <= MaxAnswerSize)
          BY <4>2, AnswerAssumption
        <4> QED
          BY <4>1, <4>3, <4>4 DEF Poor, k
      <3>3. answer.kind = "ok" <=> /\ upstream = "read" /\ Measured(raw, SdkUsage(raw))
                                   /\ finish \in Finishes
                                   /\ Len(p.text) + Len(p.calls) <= MaxAnswerSize
        BY <1>7, <3>1, <3>2
      <3>4. answer.kind = "ok" => answer = q
        BY <1>8, <3>1
      <3> QED
        BY <1>11, <2>2, <3>3, <3>4 DEF AnswerIs, p, answer, q
    <2> QED
      BY <2>1, <2>2
  <1> QED
    BY <1>9, <1>10, <1>11

\* An answer of any length is passed on whole or not at all: its usage as it was measured, its
\* calls such that Pi can go on from them: createSdkCompletionResponse (model-gateway-ai-sdk.ts).
THEOREM AnswerCorrect ==
    ASSUME NEW X, NEW I, NEW N, 0 \in I, NEW tools, NEW parts, NEW end, NEW raw, NEW finish,
           Supplied(X, I, N, parts, end, raw),
           NEW upstream \in {"unreached", "rejected", "unreadable", "read"}
    PROVE  AnswerAgrees(upstream, parts, end, raw, finish, tools)
  <1>0. AnswerIs(upstream, parts, end, raw, finish, tools)
    BY AnswerHolds
  <1>3. EventsOn(parts, tools) \in AnswerStates(X, I, N, {finish})
    <2>1. EndsTyped(X, I, N, parts, finish, tools)
      BY AnswerEnds
    <2> QED
      BY <2>1 DEF EndsTyped
  <1> /\ parts \in Seq(AnswerParts(X, I, N)) /\ Apart(parts)
      /\ end \in {"done", "error", "cut"} /\ raw \in Measurements
    BY DEF Supplied
  <1> DEFINE events == SdkEvents(parts, end, raw, finish)
             answer == ModelResponse(upstream, events, tools)
             calls  == Selected(parts, {p \in ToSet(parts) : p.type = "call"})
             texts  == Selected(parts, {p \in ToSet(parts) : p.type = "text"})
             p == EventsOn(parts, tools)
             q == [p EXCEPT !.raw = raw, !.usage = SdkUsage(raw), !.finish = finish]
             Fine == \A i \in DOMAIN calls :
                        /\ calls[i].call.id # 0 /\ calls[i].call.record
                        /\ \E j \in DOMAIN tools : tools[j] = calls[i].call.name
             n == Len(calls)
             m == Len(texts)
  <1>1. First(parts, Len(parts)) = parts /\ Len(parts) \in 0 .. Len(parts)
    BY FirstGrows, LenProperties
  <1>2. TakenOf(p, calls, texts, parts, Len(parts), tools)
    <2>1. PartsTaken(parts, Len(parts), tools)
      BY PartsAreTaken
    <2> QED
      BY <1>1, <2>1 DEF PartsTaken, CallsOf, TextsOf
  <1>4. calls \in Seq(AnswerParts(X, I, N)) /\ texts \in Seq(AnswerParts(X, I, N))
    <2> DEFINE C == {x \in ToSet(parts) : x.type = "call"}
               D == {x \in ToSet(parts) : x.type = "text"}
    <2> HIDE DEF C, D
    <2>1. /\ Selected(First(parts, Len(parts)), C) \in Seq(AnswerParts(X, I, N))
          /\ Selected(First(parts, Len(parts)), D) \in Seq(AnswerParts(X, I, N))
      BY <1>1, SelectedIs
    <2> QED
      BY <1>1, <2>1 DEF C, D
  <1>5. n \in Nat /\ m \in Nat /\ DOMAIN calls = 1 .. n /\ DOMAIN texts = 1 .. m
    BY <1>4, LenProperties
  <1>6. /\ answer.kind = "ok" <=>
             /\ upstream = "read" /\ end = "done" /\ p.kind = "ok" /\ finish \in Finishes
             /\ Measured(raw, SdkUsage(raw)) /\ Len(p.text) + Len(p.calls) <= MaxAnswerSize
        /\ answer.kind = "ok" => answer = q
    BY <1>0 DEF AnswerIs
  <1>7. /\ q.kind = p.kind /\ q.raw = raw /\ q.usage = SdkUsage(raw) /\ q.finish = finish
        /\ q.text = p.text /\ q.calls = p.calls /\ q.signed = p.signed
    <2> HIDE DEF events, p
    <2> QED
      BY <1>3 DEF AnswerStates, p
  <1>8. Measured(raw, SdkUsage(raw))
             <=> /\ raw.prompt >= 0 /\ raw.candidates >= 0
                 /\ raw.total >= raw.prompt + raw.candidates + raw.thoughts
    BY MeasuredIs
  <1> HIDE DEF answer, calls, texts, p, q, n, m
  <1>9. p.kind = "ok" <=> Fine
    BY <1>2, <1>5 DEF TakenOf, CanBeMade, n
  <1>10. p.kind = "ok" => Holds(p, calls, texts) /\ Len(p.text) + Len(p.calls) = Len(parts)
    <2>1. OfParts(calls, texts, parts, Len(parts)) /\ (p.kind = "ok" => Holds(p, calls, texts))
      BY <1>2 DEF TakenOf
    <2>2. n + m = Len(parts)
      BY <2>1 DEF OfParts, n, m
    <2>3. Holds(p, calls, texts) => Len(p.calls) = n /\ Len(p.text) = m
      BY DEF Holds, n, m
    <2>4. n + m = m + n
      BY <1>5
    <2> HIDE DEF events
    <2> QED
      BY <2>1, <2>2, <2>3, <2>4
  <1> HIDE DEF Fine
  <1>11. answer.kind = "ok" <=>
              /\ upstream = "read" /\ end = "done" /\ finish \in Finishes /\ Fine
              /\ raw.prompt >= 0 /\ raw.candidates >= 0
              /\ raw.total >= raw.prompt + raw.candidates + raw.thoughts
              /\ Len(parts) <= MaxAnswerSize
    BY <1>6, <1>8, <1>9, <1>10
  <1>12. ASSUME answer.kind = "ok"
         PROVE  /\ answer.text = [i \in DOMAIN texts |-> texts[i].text]
                /\ Len(answer.calls) = Len(calls)
                /\ \A i \in DOMAIN calls :
                      /\ answer.calls[i].id = calls[i].call.id
                      /\ answer.calls[i].name = calls[i].call.name
                      /\ calls[i].call.signed <=> calls[i].call.id \in answer.signed
                /\ answer.calls \in Seq(ConvCalls(I, N)) /\ Distinct(answer.calls)
    <2>1. Holds(p, calls, texts) /\ answer = q
      BY <1>6, <1>10, <1>12
    <2>2. answer.text = p.text /\ answer.calls = p.calls /\ answer.signed = p.signed
      BY <1>7, <2>1
    <2>3. p.text \in Seq(X) /\ p.calls \in Seq(ConvCalls(I, N))
      BY <1>3 DEF AnswerStates, p
    <2>4. DOMAIN p.text = 1 .. m /\ DOMAIN p.calls = 1 .. n
      BY <2>1, <2>3, LenProperties DEF Holds, n, m
    <2>5. p.text = [i \in 1 .. m |-> texts[i].text]
      <3>1. p.text = [i \in 1 .. m |-> p.text[i]]
        <4>1. p.text \in [1 .. m -> X]
          BY <2>3, <2>4, ElementOfSeq, LenProperties
        <4> QED
          BY <4>1
      <3>2. \A i \in 1 .. m : p.text[i] = texts[i].text
        BY <2>1 DEF Holds, m
      <3> QED
        BY <3>1, <3>2
    <2>6. \A i \in 1 .. n : p.calls[i].id = calls[i].call.id /\ p.calls[i].name = calls[i].call.name
      <3>1. \A i \in 1 .. n : p.calls[i] = [id |-> calls[i].call.id, name |-> calls[i].call.name]
        BY <2>1 DEF Holds, n
      <3>2. ASSUME NEW i \in 1 .. n
            PROVE  p.calls[i].id = calls[i].call.id /\ p.calls[i].name = calls[i].call.name
        <4> DEFINE a == p.calls[i]
                   b == calls[i].call.id
                   c == calls[i].call.name
        <4>1. a = [id |-> b, name |-> c]
          BY <3>1
        <4> HIDE DEF a, b, c
        <4>2. a.id = b /\ a.name = c
          BY <4>1
        <4> QED
          BY <4>2 DEF a, b, c
      <3> QED
        BY <3>2
    <2>7. \A i, k \in 1 .. n : i # k => calls[i].call.id # calls[k].call.id
      BY <1>2 DEF TakenOf, OfParts, n
    <2>8. p.signed = {calls[i].call.id : i \in {k \in 1 .. n : calls[k].call.signed}}
      BY <2>1 DEF Holds, n
    <2>9. \A i \in 1 .. n : calls[i].call.signed <=> calls[i].call.id \in p.signed
      BY <2>7, <2>8
    <2>10. Distinct(p.calls)
      BY <2>4, <2>6, <2>7 DEF Distinct
    <2>11. Len(p.calls) = Len(calls)
      BY <2>1 DEF Holds
    <2> QED
      BY <1>5, <2>2, <2>3, <2>5, <2>6, <2>9, <2>10, <2>11
  <1>13. ASSUME answer.kind = "ok"
         PROVE  /\ ReadOpenAiUsage(WrittenEvents(answer), FALSE)
                     = [input |-> raw.prompt, output |-> raw.candidates, total |-> raw.total]
                /\ ToModelGatewayUsage(PublicUsage(answer)) # NoUsage
    <2> DEFINE u == [input |-> raw.prompt, output |-> raw.candidates, total |-> raw.total]
    <2>1. /\ raw.prompt \in Nat /\ raw.candidates \in Nat /\ raw.thoughts \in Nat
          /\ raw.total \in Int /\ raw.total >= raw.prompt + raw.candidates + raw.thoughts
      BY <1>11, <1>13 DEF Measurements
    <2>2. answer.raw = raw /\ answer.usage = SdkUsage(raw)
      BY <1>6, <1>7, <1>13
    <2>3. SdkUsage(raw).input = raw.prompt
      BY <2>1, SpentIs
    <2>4. PublicUsage(answer) = u
      BY <2>2, <2>3 DEF PublicUsage
    <2>5. u \in Counters /\ u # NoUsage
      BY <2>1 DEF Counters, NoUsage
    <2>6. ToModelGatewayUsage(u) = u
      <3>1. ~(Min({u.input, u.output, u.total}) < 0)
        <4>1. u.input \in Int /\ u.output \in Int /\ u.total \in Int
              /\ ~(u.input < 0) /\ ~(u.output < 0) /\ ~(u.total < 0)
          BY <2>1
        <4> HIDE DEF u
        <4> QED
          BY <4>1, MinOfThree
      <3>2. ~(u.total < u.input + u.output)
        BY <2>1
      <3> HIDE DEF u
      <3> QED
        BY <3>1, <3>2 DEF ToModelGatewayUsage
    <2> HIDE DEF u
    <2>7. ReadOpenAiUsage(WrittenEvents(answer), FALSE) = PublicUsage(answer)
      BY <2>4, <2>5, <2>6, WrittenIsRead
    <2> QED
      BY <2>4, <2>5, <2>6, <2>7 DEF u
  <1>14. ASSUME answer.kind = "ok"
         PROVE  ~ToSdkCompletionInput(NextOf(answer.calls)).refused
    BY <1>12, <1>14, NextIsTaken
  <1> QED
    BY <1>11, <1>12, <1>13, <1>14, Zenon
      DEF AnswerAgrees, NextOf, Turn, Fine, answer, calls, texts

-----------------------------------------------------------------------------
(* ProjectPaths                                                            *)

\* Of any finite set there is a ranking.
LEMMA LocaleRanks ==
    /\ LocaleRank \in [EntryNames -> 1 .. Cardinality(EntryNames)]
    /\ \A a, b \in EntryNames : LocaleRank[a] = LocaleRank[b] => a = b
    /\ Cardinality(EntryNames) \in Nat
  <1> DEFINE R == 1 .. Cardinality(EntryNames)
             Ranks(f) == f \in [EntryNames -> R] /\ IsInjective(f)
  <1>1. IsFiniteSet(EntryNames)
    BY PathsAssumption
  <1>2. Cardinality(EntryNames) \in Nat /\ ExistsBijection(R, EntryNames)
    BY <1>1, FS_CardinalityType
  <1>3. PICK f \in Bijection(EntryNames, R) : TRUE
    BY <1>2, Fun_ExistsBijSymmetric DEF ExistsBijection
  <1>4. f \in [EntryNames -> R] /\ IsInjective(f)
    BY <1>3 DEF Bijection, Injection
  <1>5. LocaleRank \in [EntryNames -> R] /\ IsInjective(LocaleRank)
    <2>1. LocaleRank = CHOOSE g \in [EntryNames -> R] : IsInjective(g)
      BY DEF LocaleRank
    <2> QED
      BY <1>4, <2>1
  <1> QED
    BY <1>2, <1>5 DEF IsInjective

\* A workspace: entries at paths of their own
Workspace(tree) ==
    /\ tree \in SUBSET [path : Seq(EntryNames), kind : EntryKinds]
    /\ IsFiniteSet(tree)
    /\ \A e \in tree : e.path # <<>>
    /\ \A e, f \in tree : e.path = f.path => e = f

LEMMA KindIs ==
    ASSUME NEW tree, Workspace(tree), NEW path
    PROVE  KindOf(tree, path) \in EntryKinds \cup {"absent"}
  <1>1. CASE \E e \in tree : e.path = path
    <2>1. (CHOOSE e \in tree : e.path = path) \in tree
      BY <1>1
    <2> QED
      BY <1>1, <2>1 DEF KindOf, Workspace
  <1>2. CASE ~\E e \in tree : e.path = path
    BY <1>2 DEF KindOf
  <1> QED
    BY <1>1, <1>2

\* The children of a directory are told apart by their names.
LEMMA ChildrenAre ==
    ASSUME NEW N, EntryNames \subseteq N, NEW segments \in Seq(N), NEW tree, Workspace(tree)
    PROVE  /\ IsFiniteSet(Visible(Children(tree, segments)))
           /\ \A e \in Visible(Children(tree, segments)) :
                 e.kind \in EntryKinds /\ Last(e.path) \in EntryNames
           /\ \A e, f \in Visible(Children(tree, segments)) :
                 Last(e.path) = Last(f.path) => e = f
  <1> DEFINE all == Visible(Children(tree, segments))
             l == Len(segments)
  <1>1. all \subseteq tree /\ IsFiniteSet(tree)
    BY DEF Visible, Children, Workspace
  <1>2. l \in Nat /\ segments \in Seq(N)
    BY LenProperties
  <1>3. ASSUME NEW e \in all
        PROVE  /\ e.path \in Seq(EntryNames) /\ e.path \in Seq(N) /\ Len(e.path) = l + 1
               /\ \A i \in 1 .. l : e.path[i] = segments[i]
               /\ e.kind \in EntryKinds /\ Last(e.path) = e.path[l + 1]
               /\ Last(e.path) \in EntryNames
    <2>1. e \in tree /\ Len(e.path) = l + 1 /\ IsPrefix(segments, e.path)
      BY DEF Visible, Children
    <2>2. e.path \in Seq(EntryNames) /\ e.kind \in EntryKinds
      BY <2>1 DEF Workspace
    <2>3. e.path \in Seq(N)
      BY <2>2
    <2>4. First(e.path, l) = First(segments, l)
      BY <2>1, <2>3, <1>2 DEF IsPrefix, First
    <2>5. l \in 0 .. Len(e.path) /\ l \in 0 .. Len(segments)
      BY <1>2, <2>1
    <2>6. \A i \in 1 .. l : First(e.path, l)[i] = e.path[i]
      BY <2>3, <2>5, FirstIs
    <2>7. \A i \in 1 .. l : First(segments, l)[i] = segments[i]
      BY <1>2, <2>5, FirstIs
    <2>8. Last(e.path) = e.path[l + 1]
      BY <2>1 DEF Last
    <2>9. e.path[l + 1] \in EntryNames
      <3>1. l + 1 \in 1 .. Len(e.path)
        BY <1>2, <2>1
      <3> QED
        BY <2>2, <3>1, ElementOfSeq
    <2> QED
      BY <2>1, <2>2, <2>3, <2>4, <2>6, <2>7, <2>8, <2>9
  <1>4. ASSUME NEW e \in all, NEW f \in all, Last(e.path) = Last(f.path) PROVE e = f
    <2>1. /\ e.path \in Seq(N) /\ Len(e.path) = l + 1 /\ Last(e.path) = e.path[l + 1]
          /\ \A i \in 1 .. l : e.path[i] = segments[i]
      BY <1>3
    <2>2. /\ f.path \in Seq(N) /\ Len(f.path) = l + 1 /\ Last(f.path) = f.path[l + 1]
          /\ \A i \in 1 .. l : f.path[i] = segments[i]
      BY <1>3
    <2> HIDE DEF all
    <2>3. \A i \in 1 .. Len(e.path) : e.path[i] = f.path[i]
      <3>1. \A i \in 1 .. Len(e.path) : i \in 1 .. l \/ i = l + 1
        BY <1>2, <2>1
      <3> QED
        BY <1>4, <2>1, <2>2, <3>1
    <2>4. e.path = f.path
      BY <2>1, <2>2, <2>3, SeqEqual
    <2> QED
      BY <1>1, <2>4 DEF Workspace
  <1>5. IsFiniteSet(all)
    BY <1>1, FS_Subset
  <1> QED
    BY <1>3, <1>4, <1>5

LEMMA KindsRank ==
    /\ \A k \in EntryKinds : KindRank[k] \in Nat
    /\ \A k, l \in EntryKinds : KindRank[k] = KindRank[l] => k = l
  <1>1. KindRank["directory"] = 1 /\ KindRank["file"] = 2 /\ KindRank["symlink"] = 3
    BY DEF KindRank, EntryKinds
  <1> QED
    BY <1>1 DEF EntryKinds

\* compareEntries puts them in an order.
LEMMA BeforeOrders ==
    ASSUME NEW S, \A e \in S : e.kind \in EntryKinds /\ Last(e.path) \in EntryNames,
           \A e, f \in S : Last(e.path) = Last(f.path) => e = f
    PROVE  StrictOrder(S, PairsOf(S, Before))
  <1> DEFINE k(e) == KindRank[e.kind]
             n(e) == LocaleRank[Last(e.path)]
  <1>1. ASSUME NEW e \in S PROVE k(e) \in Int /\ n(e) \in Int
    <2>1. KindRank[e.kind] \in Nat
      BY KindsRank
    <2>2. LocaleRank[Last(e.path)] \in 1 .. Cardinality(EntryNames)
      BY LocaleRanks
    <2> QED
      BY <2>1, <2>2
  <1>2. ASSUME NEW e \in S, NEW f \in S, n(e) = n(f) PROVE e = f
    BY <1>2, LocaleRanks
  <1>3. \A e, f \in S : <<e, f>> \in PairsOf(S, Before) <=>
                          k(e) < k(f) \/ (k(e) = k(f) /\ n(e) < n(f))
    BY DEF PairsOf, Before
  <1> HIDE DEF k, n
  <1>4. \A e \in S : <<e, e>> \notin PairsOf(S, Before)
    BY <1>1, <1>3
  <1>5. ASSUME NEW x \in S, NEW y \in S, NEW z \in S, <<x, y>> \in PairsOf(S, Before),
               <<y, z>> \in PairsOf(S, Before)
        PROVE  <<x, z>> \in PairsOf(S, Before)
    <2>1. /\ k(x) \in Int /\ k(y) \in Int /\ k(z) \in Int
          /\ n(x) \in Int /\ n(y) \in Int /\ n(z) \in Int
      BY <1>1
    <2>2. k(x) < k(y) \/ (k(x) = k(y) /\ n(x) < n(y))
      BY <1>3, <1>5
    <2>3. k(y) < k(z) \/ (k(y) = k(z) /\ n(y) < n(z))
      BY <1>3, <1>5
    <2>4. k(x) < k(z) \/ (k(x) = k(z) /\ n(x) < n(z))
      BY <2>1, <2>2, <2>3
    <2> QED
      BY <1>3, <2>4
  <1>6. ASSUME NEW x \in S, NEW y \in S
        PROVE  <<x, y>> \in PairsOf(S, Before) \/ <<y, x>> \in PairsOf(S, Before) \/ x = y
    <2>1. k(x) \in Int /\ k(y) \in Int /\ n(x) \in Int /\ n(y) \in Int
      BY <1>1
    <2>2. k(x) < k(y) \/ k(y) < k(x) \/ (k(x) = k(y) /\ (n(x) < n(y) \/ n(y) < n(x) \/ n(x) = n(y)))
      BY <2>1
    <2> QED
      BY <1>2, <1>3, <2>2
  <1> QED
    BY <1>4, <1>5, <1>6 DEF StrictOrder

\* What a sort makes of the members of a finite set that an order tells apart
SortedBy(S, R, s) ==
    /\ s \in [1 .. Cardinality(S) -> S]
    /\ \A m, n \in 1 .. Cardinality(S) : m < n => <<s[m], s[n]>> \in R

LEMMA CanBeSorted ==
    ASSUME NEW S, IsFiniteSet(S), NEW R, StrictOrder(S, R)
    PROVE  \E s : SortedBy(S, R, s)
  <1> DEFINE c == Cardinality(S)
             s == [n \in 1 .. c |-> CHOOSE x \in S : Cardinality(Ahead(S, R, x)) = n - 1]
  <1>1. c \in Nat
    BY RankIsPlace
  <1>2. s = [n \in 1 .. c |-> s[n]]
    OBVIOUS
  <1>3. ASSUME NEW n \in 1 .. c, NEW x \in S, Cardinality(Ahead(S, R, x)) = n - 1
        PROVE  s[n] \in S /\ Cardinality(Ahead(S, R, s[n])) = n - 1
    <2> DEFINE P(y) == Cardinality(Ahead(S, R, y)) = n - 1
    <2>1. \E y \in S : P(y)
      BY <1>3
    <2>2. s[n] = CHOOSE y \in S : P(y)
      OBVIOUS
    <2> HIDE DEF P, s, c
    <2>3. s[n] \in S /\ P(s[n])
      BY <2>1, <2>2
    <2> QED
      BY <2>3 DEF P
  <1> HIDE DEF s
  <1>4. s \in [1 .. c -> S] /\ \A m, n \in 1 .. c : m < n => <<s[m], s[n]>> \in R
    BY <1>2, <1>3, InOrderSorts
  <1> QED
    BY <1>4 DEF SortedBy

\* How many come before each
FirstOnes(s, k) == {s[j] : j \in 1 .. k}

LEMMA FirstOnesCount ==
    ASSUME NEW S, NEW c \in Nat, NEW s \in [1 .. c -> S],
           \A m, n \in 1 .. c : m < n => s[m] # s[n]
    PROVE  \A k \in 0 .. c : IsFiniteSet(FirstOnes(s, k)) /\ Cardinality(FirstOnes(s, k)) = k
  <1> DEFINE T == {k \in 0 .. c : IsFiniteSet(FirstOnes(s, k)) /\ Cardinality(FirstOnes(s, k)) = k}
  <1>1. 0 \in T
    <2>1. FirstOnes(s, 0) = {}
      <3>1. \A j : j \notin 1 .. 0
        OBVIOUS
      <3> QED
        BY <3>1 DEF FirstOnes
    <2> QED
      BY <2>1, FS_EmptySet
  <1>2. ASSUME NEW k \in 1 .. c, k - 1 \in T PROVE k \in T
    <2>1. FirstOnes(s, k) = FirstOnes(s, k - 1) \cup {s[k]}
      <3>1. \A j : j \in 1 .. k <=> j \in 1 .. k - 1 \/ j = k
        OBVIOUS
      <3> QED
        BY <3>1 DEF FirstOnes
    <2>2. s[k] \notin FirstOnes(s, k - 1)
      <3>1. \A j \in 1 .. k - 1 : j \in 1 .. c /\ j < k
        OBVIOUS
      <3> QED
        BY <3>1 DEF FirstOnes
    <2>3. IsFiniteSet(FirstOnes(s, k - 1)) /\ Cardinality(FirstOnes(s, k - 1)) = k - 1
      BY <1>2
    <2>4. /\ IsFiniteSet(FirstOnes(s, k - 1) \cup {s[k]})
          /\ Cardinality(FirstOnes(s, k - 1) \cup {s[k]}) = k - 1 + 1
      BY <2>2, <2>3, FS_AddElement
    <2>5. k - 1 + 1 = k /\ k \in 0 .. c
      OBVIOUS
    <2>6. IsFiniteSet(FirstOnes(s, k)) /\ Cardinality(FirstOnes(s, k)) = k
      BY <2>1, <2>4, <2>5
    <2> QED
      BY <2>5, <2>6
  <1> HIDE DEF T
  <1>3. \A k \in 0 .. c : k \in T
    BY <1>1, <1>2, Reaches
  <1> QED
    BY <1>3 DEF T

SortCounts(S, R, s) ==
    LET c == Cardinality(S) IN
    /\ c \in Nat
    /\ \A k \in 0 .. c : IsFiniteSet(FirstOnes(s, k)) /\ Cardinality(FirstOnes(s, k)) = k
    /\ FirstOnes(s, c) = S
    /\ \A i \in 1 .. c : {e \in S : <<e, s[i]>> \in R} = FirstOnes(s, i - 1)

LEMMA SortIs ==
    ASSUME NEW S, IsFiniteSet(S), NEW R, StrictOrder(S, R), NEW s, SortedBy(S, R, s)
    PROVE  SortCounts(S, R, s)
  <1> DEFINE c == Cardinality(S)
  <1>1. c \in Nat
    BY FS_CardinalityType
  <1>2. s \in [1 .. c -> S] /\ \A m, n \in 1 .. c : m < n => <<s[m], s[n]>> \in R
    BY DEF SortedBy
  <1>3. \A m, n \in 1 .. c : m < n => s[m] # s[n]
    BY <1>2 DEF StrictOrder
  <1> HIDE DEF c
  <1>4. \A k \in 0 .. c : IsFiniteSet(FirstOnes(s, k)) /\ Cardinality(FirstOnes(s, k)) = k
    BY <1>1, <1>2, <1>3, FirstOnesCount
  <1>5. FirstOnes(s, c) = S
    <2>1. FirstOnes(s, c) \in SUBSET S
      BY <1>2 DEF FirstOnes
    <2>2. Cardinality(FirstOnes(s, c)) = Cardinality(S)
      BY <1>1, <1>4 DEF c
    <2> QED
      BY <2>1, <2>2, FS_Subset
  <1>6. ASSUME NEW i \in 1 .. c PROVE {e \in S : <<e, s[i]>> \in R} = FirstOnes(s, i - 1)
    <2>1. ASSUME NEW e \in S, <<e, s[i]>> \in R PROVE e \in FirstOnes(s, i - 1)
      <3>1. PICK j \in 1 .. c : e = s[j]
        BY <1>5 DEF FirstOnes
      <3>2. ~(i < j) /\ i # j
        BY <1>2, <2>1, <3>1 DEF StrictOrder
      <3>3. j \in 1 .. i - 1
        BY <1>1, <3>2
      <3> QED
        BY <3>1, <3>3 DEF FirstOnes
    <2>2. ASSUME NEW j \in 1 .. i - 1 PROVE s[j] \in S /\ <<s[j], s[i]>> \in R
      <3>1. j \in 1 .. c /\ j < i
        BY <1>1
      <3> QED
        BY <1>2, <3>1
    <2> QED
      BY <2>1, <2>2 DEF FirstOnes
  <1> QED
    BY <1>1, <1>4, <1>5, <1>6 DEF SortCounts, c

\* Where the listing of each step leads
Outcomes == {"directory", "file", "path_not_found", "unsupported_path"}

KindAt(tree, segments, n) == KindOf(tree, SubSeq(segments, 1, n))

Looked(tree, segments, n) ==
    LET kind == KindAt(tree, segments, n)
    IN  CASE kind = "absent"  -> "path_not_found"
          [] kind = "symlink" -> "unsupported_path"
          [] kind = "file"    -> IF n < Len(segments) THEN "path_not_found" ELSE "file"
          [] OTHER            -> "directory"

InspectGoes(tree, segments) ==
    \E G \in [0 .. Len(segments) -> Outcomes] :
        /\ G[0] = "directory"
        /\ \A n \in 1 .. Len(segments) :
              G[n] = IF G[n - 1] # "directory" THEN G[n - 1] ELSE Looked(tree, segments, n)
        /\ InspectPath(tree, segments) = G[Len(segments)]

LEMMA LookedIs == \A tree, segments, n : Looked(tree, segments, n) \in Outcomes
  BY DEF Looked, Outcomes

LEMMA Inspected ==
    ASSUME NEW N, NEW tree, NEW segments \in Seq(N), Len(segments) > 0
    PROVE  InspectGoes(tree, segments)
  <1> DEFINE l == Len(segments)
             f == [q \in Outcomes \X (1 .. l) |->
                      IF q[1] # "directory" THEN q[1] ELSE Looked(tree, segments, q[2])]
             Next(h) == [n \in 1 .. l |-> IF n > 1 /\ h[n - 1] # "directory" THEN h[n - 1]
                                          ELSE Looked(tree, segments, n)]
             inspected == CHOOSE h : h = Next(h)
  <1>1. l \in Nat /\ l > 0
    BY LenProperties
  <1>2. Recursible(l, Outcomes, f, "directory")
    <2>1. \A q \in Outcomes \X (1 .. l) : f[q] \in Outcomes
      BY LookedIs
    <2>2. "directory" \in Outcomes
      BY DEF Outcomes
    <2>3. f \in [Outcomes \X (1 .. l) -> Outcomes]
      BY <2>1
    <2> HIDE DEF f
    <2> QED
      BY <1>1, <2>2, <2>3 DEF Recursible
  <1>3. PICK G \in [0 .. l -> Outcomes] :
           G[0] = "directory" /\ \A i \in 1 .. l : G[i] = f[<<G[i - 1], i>>]
    <2>1. Recurses(l, Outcomes, f, "directory")
      BY <1>2, Recursion
    <2> QED
      BY <2>1 DEF Recurses
  <1> DEFINE h == [n \in 1 .. l |-> G[n]]
  <1>4. h = Next(h)
    <2>1. ASSUME NEW n \in 1 .. l
          PROVE  G[n] = IF n > 1 /\ h[n - 1] # "directory" THEN h[n - 1]
                        ELSE Looked(tree, segments, n)
      <3>1. n - 1 \in 0 .. l /\ (n > 1 => n - 1 \in 1 .. l) /\ (~(n > 1) => n - 1 = 0)
        BY <1>1
      <3>2. G[n - 1] \in Outcomes
        BY <3>1
      <3>3. <<G[n - 1], n>> \in Outcomes \X (1 .. l)
        BY <3>2
      <3>4. f[<<G[n - 1], n>>] = IF G[n - 1] # "directory" THEN G[n - 1]
                                 ELSE Looked(tree, segments, n)
        BY <3>3
      <3>5. n > 1 => h[n - 1] = G[n - 1]
        BY <3>1
      <3> HIDE DEF h, f
      <3> QED
        BY <1>3, <3>1, <3>4, <3>5
    <2> QED
      BY <2>1
  <1> HIDE DEF h, f
  <1>5. inspected = Next(inspected)
    <2>1. \E g : g = Next(g)
      BY <1>4
    <2> HIDE DEF Next
    <2> QED
      BY <2>1
  <1>6. InspectPath(tree, segments) = inspected[l]
    BY DEF InspectPath, Looked, KindAt
  <1> HIDE DEF inspected
  <1>7. \A n \in 1 .. l : inspected[n] = IF n > 1 /\ inspected[n - 1] # "directory"
                                         THEN inspected[n - 1] ELSE Looked(tree, segments, n)
    BY <1>5
  <1> DEFINE T == {n \in 0 .. l : n > 0 => inspected[n] = G[n]}
  <1>8. 0 \in T
    BY <1>1
  <1>9. ASSUME NEW n \in 1 .. l, n - 1 \in T PROVE n \in T
    <2>1. n - 1 \in 0 .. l /\ n \in 0 .. l /\ (n > 1 => n - 1 > 0) /\ (~(n > 1) => n - 1 = 0)
      BY <1>1
    <2>2. n > 1 => inspected[n - 1] = G[n - 1]
      BY <1>9, <2>1
    <2>3. <<G[n - 1], n>> \in Outcomes \X (1 .. l)
      BY <1>3, <2>1
    <2>4. G[n] = IF G[n - 1] # "directory" THEN G[n - 1] ELSE Looked(tree, segments, n)
      BY <1>3, <2>3 DEF f
    <2>5. inspected[n] = G[n]
      BY <1>3, <1>7, <2>1, <2>2, <2>4
    <2> QED
      BY <2>1, <2>5
  <1> HIDE DEF T
  <1>10. l \in T
    <2>1. \A n \in 0 .. l : n \in T
      BY <1>1, <1>8, <1>9, Reaches
    <2> QED
      BY <1>1, <2>1
  <1>11. InspectPath(tree, segments) = G[l]
    BY <1>1, <1>6, <1>10 DEF T
  <1>12. \A n \in 1 .. l : G[n] = IF G[n - 1] # "directory" THEN G[n - 1]
                                  ELSE Looked(tree, segments, n)
    <2>1. ASSUME NEW n \in 1 .. l PROVE <<G[n - 1], n>> \in Outcomes \X (1 .. l)
      <3>1. n - 1 \in 0 .. l
        BY <1>1
      <3> QED
        BY <1>3, <3>1
    <2> QED
      BY <1>3, <2>1 DEF f
  <1> QED
    BY <1>3, <1>11, <1>12 DEF InspectGoes

\* What the loop of inspectPath finds
InspectTells(tree, segments) ==
    LET l == Len(segments)
        outcome == InspectPath(tree, segments)
    IN  /\ outcome = "directory" <=> \A n \in 1 .. l : KindAt(tree, segments, n) = "directory"
        /\ outcome = "path_not_found" =>
              \E n \in 1 .. l :
                  /\ \A m \in 1 .. n - 1 : KindAt(tree, segments, m) = "directory"
                  /\ \/ KindAt(tree, segments, n) = "absent"
                     \/ KindAt(tree, segments, n) = "file" /\ n < l

LEMMA InspectIs ==
    ASSUME NEW N, NEW tree, NEW segments \in Seq(N), Len(segments) > 0,
           \A n \in 1 .. Len(segments) :
               KindAt(tree, segments, n) \in EntryKinds \cup {"absent"}
    PROVE  InspectTells(tree, segments)
  <1> DEFINE l == Len(segments)
             k(n) == KindAt(tree, segments, n)
  <1>1. l \in Nat /\ l > 0
    BY LenProperties
  <1>2. PICK G \in [0 .. l -> Outcomes] :
           /\ G[0] = "directory"
           /\ \A n \in 1 .. l :
                 G[n] = IF G[n - 1] # "directory" THEN G[n - 1] ELSE Looked(tree, segments, n)
           /\ InspectPath(tree, segments) = G[l]
    <2>1. InspectGoes(tree, segments)
      BY Inspected
    <2> QED
      BY <2>1 DEF InspectGoes
  <1>3. ASSUME NEW n \in 1 .. l
        PROVE  /\ Looked(tree, segments, n) = "directory" <=> k(n) = "directory"
               /\ Looked(tree, segments, n) = "path_not_found" =>
                     k(n) = "absent" \/ (k(n) = "file" /\ n < l)
    <2>1. k(n) \in {"directory", "file", "symlink", "absent"}
      BY DEF EntryKinds
    <2> HIDE DEF l
    <2>2. Looked(tree, segments, n) =
             CASE k(n) = "absent" -> "path_not_found"
               [] k(n) = "symlink" -> "unsupported_path"
               [] k(n) = "file" -> IF n < l THEN "path_not_found" ELSE "file"
               [] OTHER -> "directory"
      BY DEF Looked, l
    <2> HIDE DEF k
    <2> QED
      BY <2>1, <2>2
  <1> HIDE DEF k
  <1> DEFINE Missing(n) == k(n) = "absent" \/ (k(n) = "file" /\ n < l)
             T == {n \in 0 .. l :
                     /\ G[n] = "directory" <=> \A m \in 1 .. n : k(m) = "directory"
                     /\ G[n] = "path_not_found" =>
                          \E i \in 1 .. n : /\ \A m \in 1 .. i - 1 : k(m) = "directory"
                                            /\ Missing(i)}
  <1>4. 0 \in T
    <2>1. \A m \in 1 .. 0 : FALSE
      OBVIOUS
    <2> QED
      BY <1>1, <1>2, <2>1
  <1>5. ASSUME NEW n \in 1 .. l, n - 1 \in T PROVE n \in T
    <2>1. n - 1 \in 0 .. l /\ n \in 0 .. l /\ n \in 1 .. n
      BY <1>1
    <2>2. /\ \A m \in 1 .. n : m = n \/ m \in 1 .. n - 1
          /\ \A m \in 1 .. n - 1 : m \in 1 .. n
      BY <2>1
    <2>3. G[n - 1] = "directory" <=> \A m \in 1 .. n - 1 : k(m) = "directory"
      BY <1>5
    <2>4. G[n - 1] = "path_not_found" =>
            \E i \in 1 .. n - 1 : (\A m \in 1 .. i - 1 : k(m) = "directory") /\ Missing(i)
      BY <1>5
    <2>5. G[n] = IF G[n - 1] # "directory" THEN G[n - 1] ELSE Looked(tree, segments, n)
      BY <1>2
    <2> HIDE DEF Missing
    <2>6. G[n] = "directory" <=> \A m \in 1 .. n : k(m) = "directory"
      BY <1>3, <2>1, <2>2, <2>3, <2>5
    <2>7. Looked(tree, segments, n) = "path_not_found" => Missing(n)
      BY <1>3 DEF Missing
    <2>8. ASSUME G[n] = "path_not_found"
          PROVE  \E i \in 1 .. n : (\A m \in 1 .. i - 1 : k(m) = "directory") /\ Missing(i)
      <3>1. CASE G[n - 1] = "directory"
        BY <2>1, <2>3, <2>5, <2>7, <2>8, <3>1
      <3>2. CASE G[n - 1] # "directory"
        BY <2>2, <2>4, <2>5, <2>8, <3>2
      <3> QED
        BY <3>1, <3>2
    <2> QED
      BY <2>1, <2>6, <2>8
  <1> HIDE DEF T
  <1>6. l \in T
    <2>1. \A n \in 0 .. l : n \in T
      BY <1>1, <1>4, <1>5, Reaches
    <2> QED
      BY <1>1, <2>1
  <1>7. /\ G[l] = "directory" <=> \A m \in 1 .. l : k(m) = "directory"
        /\ G[l] = "path_not_found" =>
              \E i \in 1 .. l : (\A m \in 1 .. i - 1 : k(m) = "directory") /\ Missing(i)
    BY <1>6 DEF T
  <1> QED
    BY <1>2, <1>7 DEF InspectTells, k

\* The entries of a directory, as listDirectory sorts them
LEMMA EntriesSorted ==
    ASSUME NEW S, IsFiniteSet(S), StrictOrder(S, PairsOf(S, Before))
    PROVE  SortedBy(S, PairsOf(S, Before), Sorted(S, Before))
  <1> DEFINE R == PairsOf(S, Before)
             c == Cardinality(S)
             Ok(s) == \A m, n \in 1 .. c : m < n => Before(s[m], s[n])
  <1>1. PICK s : SortedBy(S, R, s)
    BY CanBeSorted
  <1>2. s \in [1 .. c -> S] /\ Ok(s)
    <2>1. s \in [1 .. c -> S] /\ \A m, n \in 1 .. c : m < n => <<s[m], s[n]>> \in R
      BY <1>1 DEF SortedBy
    <2> QED
      BY <2>1 DEF PairsOf
  <1>3. Sorted(S, Before) = CHOOSE t \in [1 .. c -> S] : Ok(t)
    BY DEF Sorted
  <1> DEFINE t == Sorted(S, Before)
  <1> HIDE DEF Ok, c
  <1>4. t \in [1 .. c -> S] /\ Ok(t)
    BY <1>2, <1>3
  <1> HIDE DEF t
  <1>5. \A m, n \in 1 .. c : m < n => <<t[m], t[n]>> \in R
    BY <1>4 DEF Ok, PairsOf
  <1> QED
    BY <1>4, <1>5 DEF SortedBy, t, c

\* What is shown of them
Shown(entries) == SubSeq(entries, 1, IF Len(entries) > MaxDirectoryEntries
                                     THEN MaxDirectoryEntries ELSE Len(entries))

ShowsFirst(all, entries) ==
    /\ ToSet(Shown(entries)) \subseteq all
    /\ Cardinality(ToSet(Shown(entries))) = Len(Shown(entries))
    /\ \A i \in DOMAIN Shown(entries) :
          Cardinality({e \in all : Before(e, Shown(entries)[i])}) = i - 1
    /\ Len(entries) > MaxDirectoryEntries \/ ToSet(Shown(entries)) = all
    /\ Len(entries) > MaxDirectoryEntries =>
          Len(Shown(entries)) = MaxDirectoryEntries /\ Cardinality(all) > MaxDirectoryEntries

LEMMA ShownAreFirst ==
    ASSUME NEW S, IsFiniteSet(S), StrictOrder(S, PairsOf(S, Before)),
           NEW s, SortedBy(S, PairsOf(S, Before), s)
    PROVE  ShowsFirst(S, s)
  <1> DEFINE c == Cardinality(S)
             m == IF c > MaxDirectoryEntries THEN MaxDirectoryEntries ELSE c
  <1>1. SortCounts(S, PairsOf(S, Before), s)
    BY SortIs
  <1>2. /\ c \in Nat
        /\ \A k \in 0 .. c : IsFiniteSet(FirstOnes(s, k)) /\ Cardinality(FirstOnes(s, k)) = k
        /\ FirstOnes(s, c) = S
        /\ \A i \in 1 .. c : {e \in S : <<e, s[i]>> \in PairsOf(S, Before)} = FirstOnes(s, i - 1)
    BY <1>1 DEF SortCounts
  <1>3. s \in [1 .. c -> S]
    BY DEF SortedBy
  <1> HIDE DEF c
  <1>4. s \in Seq(S) /\ Len(s) = c
    <2>1. s \in Seq(S)
      BY <1>2, <1>3
    <2>2. DOMAIN s = 1 .. Len(s) /\ Len(s) \in Nat
      BY <2>1, LenProperties
    <2>3. DOMAIN s = 1 .. c
      BY <1>3
    <2>4. Len(s) = c
      <3> DEFINE d == Len(s)
      <3>1. d \in Nat /\ 1 .. d = 1 .. c
        BY <2>2, <2>3
      <3> HIDE DEF d
      <3>2. d = c
        BY <1>2, <3>1
      <3> QED
        BY <3>2 DEF d
    <2> QED
      BY <2>1, <2>4
  <1>5. MaxDirectoryEntries \in Nat
    BY PathsAssumption
  <1>6. m \in 0 .. c /\ m \in Nat
    BY <1>2, <1>5
  <1> DEFINE u == Shown(s)
  <1>7. u = First(s, m)
    BY <1>4 DEF Shown, First
  <1> HIDE DEF u
  <1>8. u \in Seq(S) /\ Len(u) = m /\ DOMAIN u = 1 .. m /\ \A j \in 1 .. m : u[j] = s[j]
    <2> HIDE DEF m
    <2>1. u \in Seq(S) /\ Len(u) = m /\ \A j \in 1 .. m : u[j] = s[j]
      BY <1>4, <1>6, <1>7, FirstIs
    <2> QED
      BY <2>1, LenProperties
  <1>9. ToSet(u) = FirstOnes(s, m)
    <2> HIDE DEF m
    <2>1. ToSet(u) = {u[j] : j \in 1 .. m}
      BY <1>8 DEF ToSet
    <2> QED
      BY <1>8, <2>1 DEF FirstOnes
  <1>10. ASSUME NEW i \in 1 .. m PROVE Cardinality({e \in S : Before(e, u[i])}) = i - 1
    <2>1. i \in 1 .. c /\ i - 1 \in 0 .. c
      BY <1>2, <1>6
    <2>2. u[i] = s[i] /\ s[i] \in S
      BY <1>3, <1>8, <2>1
    <2>3. {e \in S : Before(e, u[i])} = {e \in S : <<e, s[i]>> \in PairsOf(S, Before)}
      BY <2>2 DEF PairsOf
    <2> HIDE DEF m
    <2>4. {e \in S : <<e, s[i]>> \in PairsOf(S, Before)} = FirstOnes(s, i - 1)
      BY <1>2, <2>1
    <2> QED
      BY <1>2, <2>1, <2>3, <2>4
  <1>11. FirstOnes(s, m) \subseteq S /\ Cardinality(FirstOnes(s, m)) = m
    <2> HIDE DEF m
    <2>1. \A j \in 1 .. m : s[j] \in S
      BY <1>2, <1>3, <1>6
    <2> QED
      BY <1>2, <1>6, <2>1 DEF FirstOnes
  <1>12. c > MaxDirectoryEntries \/ m = c
    OBVIOUS
  <1>13. c > MaxDirectoryEntries => m = MaxDirectoryEntries
    OBVIOUS
  <1> HIDE DEF m
  <1>14. c > MaxDirectoryEntries \/ ToSet(u) = S
    BY <1>2, <1>9, <1>12
  <1>15. ToSet(u) \subseteq S /\ Cardinality(ToSet(u)) = Len(u)
    BY <1>8, <1>9, <1>11
  <1>16. \A i \in DOMAIN u : Cardinality({e \in S : Before(e, u[i])}) = i - 1
    BY <1>8, <1>10
  <1>17. c > MaxDirectoryEntries => Len(u) = MaxDirectoryEntries
    BY <1>8, <1>13
  <1>18. Len(s) = Cardinality(S)
    BY <1>4 DEF c
  <1> QED
    BY <1>4, <1>14, <1>15, <1>16, <1>17, <1>18 DEF ShowsFirst, u, c

\* list() shows a directory as it is, whatever the workspace holds and whatever is asked for:
\* it is one when every step to it is, and what is said to be missing is (project-files.ts).
THEOREM PathsCorrect ==
    ASSUME NEW N, EntryNames \subseteq N, NEW tree, Workspace(tree), NEW segments \in Seq(N)
    PROVE  PathsAgree(tree, segments)
  <1> DEFINE l == Len(segments)
             all == Visible(Children(tree, segments))
             entries == Sorted(all, Before)
             answer == ListDirectory(tree, segments)
             k(n) == KindAt(tree, segments, n)
             target == IF segments = <<>> THEN "directory" ELSE InspectPath(tree, segments)
             Missing(n) == k(n) = "absent" \/ (k(n) = "file" /\ n < l)
  <1>1. l \in Nat /\ (segments = <<>> <=> l = 0)
    BY LenProperties, EmptySeq
  <1>2. \A n : k(n) \in EntryKinds \cup {"absent"}
    BY KindIs DEF KindAt
  <1>3. ShowsFirst(all, entries)
    <2>1. /\ IsFiniteSet(all)
          /\ \A e \in all : e.kind \in EntryKinds /\ Last(e.path) \in EntryNames
          /\ \A e, f \in all : Last(e.path) = Last(f.path) => e = f
      BY ChildrenAre
    <2> HIDE DEF all
    <2>2. StrictOrder(all, PairsOf(all, Before))
      BY <2>1, BeforeOrders
    <2>3. SortedBy(all, PairsOf(all, Before), entries)
      BY <2>1, <2>2, EntriesSorted
    <2> HIDE DEF entries
    <2> QED
      BY <2>1, <2>2, <2>3, ShownAreFirst
  <1> HIDE DEF k
  <1>4. /\ target = "directory" <=> \A n \in 1 .. l : k(n) = "directory"
        /\ target = "path_not_found" =>
              \E n \in 1 .. l : (\A m \in 1 .. n - 1 : k(m) = "directory") /\ Missing(n)
    <2>1. CASE segments = <<>>
      <3>1. \A n : n \notin 1 .. 0
        OBVIOUS
      <3> QED
        BY <1>1, <2>1, <3>1
    <2>2. CASE segments # <<>>
      <3>1. l > 0
        BY <1>1, <2>2
      <3>2. \A n \in 1 .. l : KindAt(tree, segments, n) \in EntryKinds \cup {"absent"}
        BY <1>2 DEF k
      <3> HIDE DEF l
      <3>3. InspectTells(tree, segments)
        BY <3>1, <3>2, InspectIs DEF l
      <3> QED
        BY <2>2, <3>3 DEF InspectTells, l, k
    <2> QED
      BY <2>1, <2>2
  <1> HIDE DEF Missing, l
  <1>5. answer = IF ~ParsesAsPath(segments) \/ target = "file" THEN Refuses("unsupported_path")
                 ELSE IF target # "directory" THEN Refuses(target)
                 ELSE [kind |-> "ok", entries |-> Shown(entries),
                       truncated |-> Len(entries) > MaxDirectoryEntries]
    BY DEF ListDirectory, Shown
  <1> HIDE DEF entries, answer, all, target
  <1>6. \A kind : Refuses(kind).kind = kind
    BY DEF Refuses
  <1>7. answer.kind = "ok" <=> ParsesAsPath(segments) /\ target = "directory"
    <2>1. target # "ok"
      <3>1. CASE segments = <<>>
        BY <3>1 DEF target
      <3>2. CASE segments # <<>>
        <4>1. Len(segments) > 0
          BY <1>1, <3>2 DEF l
        <4>2. InspectGoes(tree, segments)
          BY <4>1, Inspected
        <4>3. PICK G \in [0 .. Len(segments) -> Outcomes] :
                 InspectPath(tree, segments) = G[Len(segments)]
          BY <4>2 DEF InspectGoes
        <4>4. Len(segments) \in 0 .. Len(segments)
          BY LenProperties
        <4>5. InspectPath(tree, segments) \in Outcomes
          BY <4>3, <4>4
        <4> QED
          BY <3>2, <4>5 DEF target, Outcomes
      <3> QED
        BY <3>1, <3>2
    <2> QED
      BY <1>5, <1>6, <2>1
  <1>8. answer.kind = "ok" => /\ answer.entries = Shown(entries)
                              /\ answer.truncated = (Len(entries) > MaxDirectoryEntries)
    BY <1>5, <1>7
  <1>9. answer.kind = "path_not_found" => target = "path_not_found"
    BY <1>5, <1>6
  <1> DEFINE Kinds == [n \in 1 .. l |-> k(n)]
  <1>10. /\ DOMAIN Kinds = 1 .. l /\ \A n \in 1 .. l : Kinds[n] = k(n)
         /\ ToSet(Kinds) \subseteq {"directory"} <=> \A n \in 1 .. l : k(n) = "directory"
    <2>1. DOMAIN Kinds = 1 .. l /\ \A n \in 1 .. l : Kinds[n] = k(n)
      OBVIOUS
    <2>2. ToSet(Kinds) = {k(n) : n \in 1 .. l}
      BY DEF ToSet
    <2> QED
      BY <2>1, <2>2
  <1>11. Kinds = [n \in 1 .. Len(segments) |-> KindOf(tree, SubSeq(segments, 1, n))]
    BY DEF l, k, KindAt
  <1> HIDE DEF Kinds
  <1>12. answer.kind = "ok" <=> ParsesAsPath(segments) /\ ToSet(Kinds) \subseteq {"directory"}
    BY <1>4, <1>7, <1>10
  <1>13. answer.kind = "ok" =>
              /\ ToSet(answer.entries) \subseteq all
              /\ Cardinality(ToSet(answer.entries)) = Len(answer.entries)
              /\ \A i \in DOMAIN answer.entries :
                    Cardinality({e \in all : Before(e, answer.entries[i])}) = i - 1
              /\ answer.truncated \/ ToSet(answer.entries) = all
              /\ answer.truncated => Len(answer.entries) = MaxDirectoryEntries
                                        /\ Cardinality(all) > MaxDirectoryEntries
    BY <1>3, <1>8 DEF ShowsFirst
  <1>14. answer.kind = "path_not_found" =>
              \E n \in DOMAIN Kinds :
                  /\ \A m \in 1 .. n - 1 : Kinds[m] = "directory"
                  /\ Kinds[n] = "absent" \/ (Kinds[n] = "file" /\ n < l)
    <2>1. SUFFICES ASSUME answer.kind = "path_not_found"
          PROVE  \E n \in DOMAIN Kinds :
                  /\ \A m \in 1 .. n - 1 : Kinds[m] = "directory"
                  /\ Kinds[n] = "absent" \/ (Kinds[n] = "file" /\ n < l)
      OBVIOUS
    <2>2. PICK n \in 1 .. l : (\A m \in 1 .. n - 1 : k(m) = "directory") /\ Missing(n)
      BY <1>4, <1>9, <2>1
    <2>3. \A m \in 1 .. n - 1 : m \in 1 .. l
      BY <1>1
    <2> QED
      BY <1>10, <2>2, <2>3 DEF Missing
  <1> QED
    BY <1>11, <1>12, <1>13, <1>14 DEF PathsAgree, answer, all, l

-----------------------------------------------------------------------------
(* PiAnswer                                                                *)

PiKinds      == {"start", "end", "toolUse", "settled", "rejected", "invalid", "huge", "other"}
PiRecords(X) == [kind : PiKinds, text : X]
PiAnswers(X) == [outcome : {"open", "answer", "error"}, finalText : X, successful : BOOLEAN]

\* A message may have no text.
Blank(X) == "" \in X

\* What a whole record does
FailAnswer(a)   == IF a.outcome = "open" THEN [a EXCEPT !.outcome = "error"] ELSE a
ReadWhole(a, r) == IF r.kind = "huge" THEN FailAnswer(a) ELSE ReadRecord(a, r)

LEMMA ReadWholeIs ==
    ASSUME NEW X, Blank(X), NEW a \in PiAnswers(X), NEW r \in PiRecords(X)
    PROVE  /\ ReadWhole(a, r) \in PiAnswers(X) /\ FailAnswer(a) \in PiAnswers(X)
           /\ r.kind # "huge" => ReadRecord(a, r) = ReadWhole(a, r)
           /\ a.outcome # "open" => ReadWhole(a, r) = a /\ FailAnswer(a) = a /\ ReadRecord(a, r) = a
           /\ a.outcome = "open" =>
                LET b == ReadWhole(a, r) IN
                /\ r.kind = "other" => b = a
                /\ r.kind \in {"start", "end", "toolUse"} =>
                     /\ b.outcome = "open" /\ b.successful = (r.kind = "end")
                     /\ r.kind = "end" => b.finalText = r.text
                /\ r.kind \in {"rejected", "invalid", "huge"} => b.outcome = "error"
                /\ r.kind = "settled" => b.outcome = (IF a.successful THEN "answer" ELSE "error")
                /\ r.kind = "settled" => b.finalText = a.finalText
  <1>1. FailAnswer(a) \in PiAnswers(X) /\ (a.outcome # "open" => FailAnswer(a) = a)
        /\ (a.outcome = "open" => FailAnswer(a).outcome = "error")
    BY DEF PiAnswers, FailAnswer
  <1>2. r.kind \in PiKinds /\ r.text \in X
    BY DEF PiRecords
  <1>3. a.outcome # "open" => ReadRecord(a, r) = a
    BY DEF ReadRecord
  <1>4. CASE r.kind = "huge"
    BY <1>1, <1>3, <1>4 DEF ReadWhole
  <1>5. CASE r.kind # "huge" /\ a.outcome # "open"
    BY <1>1, <1>3, <1>5 DEF ReadWhole
  <1>6. CASE r.kind # "huge" /\ a.outcome = "open"
    <2> DEFINE b == ReadRecord(a, r)
    <2>1. CASE r.kind = "start"
      <3>1. b = [a EXCEPT !.finalText = "", !.successful = FALSE]
        BY <1>6, <2>1 DEF ReadRecord
      <3>2. b \in PiAnswers(X) /\ b.outcome = "open" /\ b.successful = FALSE
        BY <1>6, <3>1 DEF PiAnswers, Blank
      <3> QED
        BY <1>1, <1>6, <2>1, <3>2 DEF ReadWhole
    <2>2. CASE r.kind = "end"
      <3>1. b = [a EXCEPT !.finalText = r.text, !.successful = TRUE]
        BY <1>6, <2>2 DEF ReadRecord
      <3>2. b \in PiAnswers(X) /\ b.outcome = "open" /\ b.successful = TRUE /\ b.finalText = r.text
        BY <1>2, <1>6, <3>1 DEF PiAnswers
      <3> QED
        BY <1>1, <1>6, <2>2, <3>2 DEF ReadWhole
    <2>3. CASE r.kind = "toolUse"
      <3>1. b = [a EXCEPT !.finalText = r.text, !.successful = FALSE]
        BY <1>6, <2>3 DEF ReadRecord
      <3>2. b \in PiAnswers(X) /\ b.outcome = "open" /\ b.successful = FALSE
        BY <1>2, <1>6, <3>1 DEF PiAnswers
      <3> QED
        BY <1>1, <1>6, <2>3, <3>2 DEF ReadWhole
    <2>4. CASE r.kind = "settled"
      <3>1. b = [a EXCEPT !.outcome = IF a.successful THEN "answer" ELSE "error"]
        BY <1>6, <2>4 DEF ReadRecord
      <3>2. b \in PiAnswers(X) /\ b.outcome = (IF a.successful THEN "answer" ELSE "error")
            /\ b.finalText = a.finalText
        BY <3>1 DEF PiAnswers
      <3> QED
        BY <1>1, <1>6, <2>4, <3>2 DEF ReadWhole
    <2>5. CASE r.kind \in {"rejected", "invalid"}
      <3>1. b = [a EXCEPT !.outcome = "error"]
        BY <1>6, <2>5 DEF ReadRecord
      <3>2. b \in PiAnswers(X) /\ b.outcome = "error"
        BY <3>1 DEF PiAnswers
      <3> QED
        BY <1>1, <1>6, <2>5, <3>2 DEF ReadWhole
    <2>6. CASE r.kind = "other"
      <3>1. b = a
        BY <1>6, <2>6 DEF ReadRecord
      <3> QED
        BY <1>1, <1>6, <2>6, <3>1 DEF ReadWhole
    <2> QED
      BY <1>2, <1>6, <2>1, <2>2, <2>3, <2>4, <2>5, <2>6 DEF PiKinds
  <1> QED
    BY <1>4, <1>5, <1>6

\* The answer after each of the records
AnswersOf(X, rs, G) ==
    /\ G \in [0 .. Len(rs) -> PiAnswers(X)]
    /\ G[0] = PiInit.answer
    /\ \A i \in 1 .. Len(rs) : G[i] = ReadWhole(G[i - 1], rs[i])

LEMMA AnswersExist ==
    ASSUME NEW X, Blank(X), NEW rs \in Seq(PiRecords(X))
    PROVE  \E G : AnswersOf(X, rs, G)
  <1> DEFINE n == Len(rs)
             A == PiAnswers(X)
             f == [q \in A \X (1 .. n) |-> ReadWhole(q[1], rs[q[2]])]
             base == PiInit.answer
  <1>1. n \in Nat
    BY LenProperties
  <1>2. base \in A
    BY DEF PiInit, PiAnswers, Blank
  <1>3. \A q \in A \X (1 .. n) : f[q] \in A
    <2>1. ASSUME NEW a \in A, NEW i \in 1 .. n PROVE ReadWhole(a, rs[i]) \in A
      <3>1. rs[i] \in PiRecords(X)
        BY ElementOfSeq
      <3> QED
        BY <3>1, ReadWholeIs
    <2> HIDE DEF A
    <2> QED
      BY <2>1
  <1> HIDE DEF base, A
  <1>4. Recursible(n, A, f, base)
    <2>1. f \in [A \X (1 .. n) -> A]
      BY <1>3
    <2> HIDE DEF f
    <2> QED
      BY <1>1, <1>2, <2>1 DEF Recursible
  <1> HIDE DEF f
  <1>5. Recurses(n, A, f, base)
    BY <1>4, Recursion
  <1>6. PICK G \in [0 .. n -> A] : G[0] = base /\ \A i \in 1 .. n : G[i] = f[<<G[i - 1], i>>]
    BY <1>5 DEF Recurses
  <1>7. ASSUME NEW i \in 1 .. n PROVE G[i] = ReadWhole(G[i - 1], rs[i])
    <2>1. i - 1 \in 0 .. n
      BY <1>1
    <2>2. <<G[i - 1], i>> \in A \X (1 .. n)
      BY <1>6, <2>1
    <2>3. G[i] = f[<<G[i - 1], i>>]
      BY <1>6
    <2>4. f[<<G[i - 1], i>>] = ReadWhole(G[i - 1], rs[i])
      BY <2>2 DEF f
    <2> QED
      BY <2>3, <2>4
  <1>8. AnswersOf(X, rs, G)
    BY <1>6, <1>7 DEF AnswersOf, base, A
  <1> QED
    BY <1>8

\* What decides, and what is said before
Deciding(rs, m)       == {i \in 1 .. m : rs[i].kind \in {"huge", "settled", "rejected", "invalid"}}
TurnsTo(rs, m)        == {i \in 1 .. m : rs[i].kind \in {"start", "end", "toolUse"}}
LatestTurn(rs, m, t)  == t \in TurnsTo(rs, m) /\ \A j \in TurnsTo(rs, m) : j <= t
EndsWith(rs, m, text) == \E t : LatestTurn(rs, m, t) /\ rs[t].kind = "end" /\ rs[t].text = text
EndsOtherwise(rs, m)  == \A t : LatestTurn(rs, m, t) => rs[t].kind # "end"

Undecided(rs, m, a) ==
    /\ Deciding(rs, m) = {}
    /\ IF a.successful THEN EndsWith(rs, m, a.finalText) ELSE EndsOtherwise(rs, m)

DecidedAt(rs, m, f, a) ==
    /\ f \in Deciding(rs, m) /\ \A j \in Deciding(rs, m) : f <= j
    /\ IF a.outcome = "answer" THEN rs[f].kind = "settled" /\ EndsWith(rs, f, a.finalText)
       ELSE rs[f].kind = "settled" => EndsOtherwise(rs, f)

Told(rs, m, a) ==
    IF a.outcome = "open" THEN Undecided(rs, m, a) ELSE \E f : DecidedAt(rs, m, f, a)

LEMMA ToldStep ==
    ASSUME NEW X, Blank(X), NEW rs \in Seq(PiRecords(X)), NEW i \in 1 .. Len(rs),
           NEW a \in PiAnswers(X), Told(rs, i - 1, a)
    PROVE  Told(rs, i, ReadWhole(a, rs[i]))
  <1> DEFINE r == rs[i]
             b == ReadWhole(a, r)
  <1>1. i \in Nat /\ i - 1 \in Nat /\ \A j : j \in 1 .. i <=> j \in 1 .. i - 1 \/ j = i
    BY LenProperties
  <1>2. r \in PiRecords(X)
    BY ElementOfSeq
  <1>3. r.kind \in PiKinds
    BY <1>2 DEF PiRecords
  <1> HIDE DEF r
  <1>4. Deciding(rs, i) = Deciding(rs, i - 1) \cup
            (IF r.kind \in {"huge", "settled", "rejected", "invalid"} THEN {i} ELSE {})
    BY <1>1 DEF Deciding, r
  <1>5. TurnsTo(rs, i) = TurnsTo(rs, i - 1) \cup
            (IF r.kind \in {"start", "end", "toolUse"} THEN {i} ELSE {})
    BY <1>1 DEF TurnsTo, r
  <1>6. \A j \in Deciding(rs, i - 1) \cup TurnsTo(rs, i - 1) : j \in Nat /\ j < i
    BY <1>1 DEF Deciding, TurnsTo
  <1>7. /\ a.outcome # "open" => b = a
        /\ a.outcome = "open" =>
                /\ r.kind = "other" => b = a
                /\ r.kind \in {"start", "end", "toolUse"} =>
                     /\ b.outcome = "open" /\ b.successful = (r.kind = "end")
                     /\ r.kind = "end" => b.finalText = r.text
                /\ r.kind \in {"rejected", "invalid", "huge"} => b.outcome = "error"
                /\ r.kind = "settled" => b.outcome = (IF a.successful THEN "answer" ELSE "error")
                /\ r.kind = "settled" => b.finalText = a.finalText
    BY <1>2, ReadWholeIs
  <1> HIDE DEF b
  <1>8. CASE a.outcome # "open"
    <2>1. PICK f : DecidedAt(rs, i - 1, f, a)
      BY <1>8 DEF Told
    <2>2. f \in Deciding(rs, i) /\ \A j \in Deciding(rs, i) : f <= j
      BY <1>1, <1>4, <1>6, <2>1 DEF DecidedAt
    <2>3. DecidedAt(rs, i, f, b)
      BY <1>7, <1>8, <2>1, <2>2 DEF DecidedAt
    <2> QED
      BY <1>7, <1>8, <2>3 DEF Told, b, r
  <1>9. CASE a.outcome = "open" /\ r.kind \in {"start", "end", "toolUse"}
    <2>1. Deciding(rs, i) = {}
      BY <1>4, <1>9 DEF Told, Undecided
    <2>2. \A t : LatestTurn(rs, i, t) <=> t = i
      <3>1. TurnsTo(rs, i) = TurnsTo(rs, i - 1) \cup {i}
        BY <1>5, <1>9
      <3>2. \A j \in TurnsTo(rs, i) : j <= i
        BY <1>1, <1>6, <3>1
      <3>3. \A t \in TurnsTo(rs, i - 1) : ~(i <= t)
        BY <1>1, <1>6
      <3> QED
        BY <3>1, <3>2, <3>3 DEF LatestTurn
    <2>3. IF b.successful THEN EndsWith(rs, i, b.finalText) ELSE EndsOtherwise(rs, i)
      BY <1>7, <1>9, <2>2 DEF EndsWith, EndsOtherwise, r
    <2> QED
      BY <1>7, <1>9, <2>1, <2>3 DEF Told, Undecided, b, r
  <1>10. CASE a.outcome = "open" /\ r.kind = "other"
    <2>1. Deciding(rs, i) = Deciding(rs, i - 1) /\ TurnsTo(rs, i) = TurnsTo(rs, i - 1) /\ b = a
      BY <1>4, <1>5, <1>7, <1>10
    <2>2. Told(rs, i, a)
      BY <1>10, <2>1 DEF Told, Undecided, EndsWith, EndsOtherwise, LatestTurn
    <2> QED
      BY <2>1, <2>2 DEF b, r
  <1>11. CASE a.outcome = "open" /\ r.kind \in {"huge", "settled", "rejected", "invalid"}
    <2>1. Deciding(rs, i) = {i} /\ TurnsTo(rs, i) = TurnsTo(rs, i - 1)
      BY <1>4, <1>5, <1>11 DEF Told, Undecided
    <2>2. IF a.successful THEN EndsWith(rs, i, a.finalText) ELSE EndsOtherwise(rs, i)
      BY <1>11, <2>1 DEF Told, Undecided, EndsWith, EndsOtherwise, LatestTurn
    <2>3. b.outcome # "open" /\ DecidedAt(rs, i, i, b)
      <3>1. i \in Deciding(rs, i) /\ \A j \in Deciding(rs, i) : i <= j
        BY <1>1, <2>1
      <3>2. CASE r.kind = "settled"
        BY <1>7, <1>11, <2>2, <3>1, <3>2 DEF DecidedAt, r
      <3>3. CASE r.kind # "settled"
        BY <1>7, <1>11, <3>1, <3>3 DEF DecidedAt, r
      <3> QED
        BY <3>2, <3>3
    <2> QED
      BY <2>3 DEF Told, b, r
  <1> QED
    BY <1>3, <1>8, <1>9, <1>10, <1>11 DEF PiKinds

LEMMA AnswersTell ==
    ASSUME NEW X, Blank(X), NEW rs \in Seq(PiRecords(X)), NEW G, AnswersOf(X, rs, G)
    PROVE  \A m \in 0 .. Len(rs) : Told(rs, m, G[m])
  <1> DEFINE n == Len(rs)
             T == {m \in 0 .. n : Told(rs, m, G[m])}
  <1>1. n \in Nat
    BY LenProperties
  <1>2. 0 \in T
    <2>1. \A j : j \notin 1 .. 0
      OBVIOUS
    <2>2. Deciding(rs, 0) = {} /\ TurnsTo(rs, 0) = {}
      BY <2>1 DEF Deciding, TurnsTo
    <2>3. G[0].outcome = "open" /\ G[0].successful = FALSE
      <3>1. PiInit.answer.outcome = "open" /\ PiInit.answer.successful = FALSE
        BY DEF PiInit
      <3>2. G[0] = PiInit.answer
        BY DEF AnswersOf
      <3> QED
        BY <3>1, <3>2
    <2>4. Told(rs, 0, G[0])
      BY <2>2, <2>3 DEF Told, Undecided, EndsOtherwise, LatestTurn
    <2> QED
      BY <1>1, <2>4
  <1>3. ASSUME NEW i \in 1 .. n, i - 1 \in T PROVE i \in T
    <2>1. i - 1 \in 0 .. n /\ i \in 0 .. n
      BY <1>1
    <2>2. G[i - 1] \in PiAnswers(X) /\ G[i] = ReadWhole(G[i - 1], rs[i])
      BY <2>1 DEF AnswersOf
    <2>3. Told(rs, i - 1, G[i - 1])
      BY <1>3
    <2>4. Told(rs, i, ReadWhole(G[i - 1], rs[i]))
      BY <2>2, <2>3, ToldStep
    <2> QED
      BY <2>1, <2>2, <2>4
  <1> HIDE DEF T
  <1>4. \A m \in 0 .. n : m \in T
    BY <1>1, <1>2, <1>3, Reaches
  <1> QED
    BY <1>4 DEF T

-----------------------------------------------------------------------------
(* PiAnswer: where the characters of its output are                        *)

Chars(X)  == PiRecords(X) \cup {Newline}
Width(r)  == IF r.kind = "huge" THEN MaxRecord + 1 ELSE MaxRecord

Lines(rs, terminated) ==
    [i \in 1 .. Len(rs) |->
        Characters(rs[i]) \o IF i < Len(rs) \/ terminated THEN <<Newline>> ELSE <<>>]

LineHas(X, rs, terminated, i) ==
    LET line == Lines(rs, terminated)[i] IN
    /\ line \in Seq(Chars(X)) /\ Width(rs[i]) \in Nat \ {0}
    /\ Len(line) = Width(rs[i]) + (IF i < Len(rs) \/ terminated THEN 1 ELSE 0)
    /\ \A d \in 1 .. Width(rs[i]) : line[d] = rs[i]
    /\ i < Len(rs) \/ terminated => line[Width(rs[i]) + 1] = Newline

LEMMA LineIs ==
    ASSUME NEW X, NEW rs \in Seq(PiRecords(X)), NEW terminated \in BOOLEAN,
           NEW i \in 1 .. Len(rs)
    PROVE  LineHas(X, rs, terminated, i)
  <1> DEFINE r == rs[i]
             C == Chars(X)
             w == Width(r)
             c == Characters(r)
  <1>1. r \in PiRecords(X)
    BY ElementOfSeq
  <1>2. r \in C /\ Newline \in C
    BY <1>1 DEF Chars
  <1>3. w \in Nat \ {0}
    BY RecordAssumption DEF Width
  <1>4. c = [d \in 1 .. w |-> r]
    BY DEF Characters, Width
  <1> HIDE DEF r, C, w, c
  <1>5. c \in Seq(C) /\ Len(c) = w /\ \A d \in 1 .. w : c[d] = r
    <2>1. c \in [1 .. w -> C]
      BY <1>2, <1>4
    <2>2. c \in Seq(C)
      BY <1>3, <2>1
    <2>3. DOMAIN c = 1 .. Len(c) /\ Len(c) \in Nat
      BY <2>2, LenProperties
    <2>4. Len(c) = w
      <3> DEFINE l == Len(c)
      <3>1. l \in Nat /\ 1 .. l = 1 .. w /\ w \in Nat
        BY <1>3, <1>4, <2>3
      <3> HIDE DEF l
      <3>2. l = w
        BY <3>1
      <3> QED
        BY <3>2 DEF l
    <2> QED
      BY <1>4, <2>2, <2>4
  <1> DEFINE e == IF i < Len(rs) \/ terminated THEN <<Newline>> ELSE <<>>
             line == Lines(rs, terminated)[i]
  <1>6. line = c \o e
    BY DEF Lines, c, r
  <1>7. e \in Seq(C) /\ Len(e) = (IF i < Len(rs) \/ terminated THEN 1 ELSE 0)
        /\ (i < Len(rs) \/ terminated => e[1] = Newline)
    BY <1>2, EmptySeq
  <1> HIDE DEF e, line
  <1>8. /\ line \in Seq(C) /\ Len(line) = w + Len(e)
        /\ \A d \in 1 .. w + Len(e) : line[d] = IF d <= w THEN c[d] ELSE e[d - w]
    BY <1>5, <1>6, <1>7, ConcatProperties
  <1>9. \A d \in 1 .. w : d \in 1 .. w + Len(e) /\ d <= w
    BY <1>3, <1>7
  <1>10. \A d \in 1 .. w : line[d] = r
    BY <1>5, <1>8, <1>9
  <1>11. i < Len(rs) \/ terminated => line[w + 1] = Newline
    <2>1. i < Len(rs) \/ terminated => w + 1 \in 1 .. w + Len(e) /\ ~(w + 1 <= w) /\ (w + 1) - w = 1
      BY <1>3, <1>7
    <2> QED
      BY <1>7, <1>8, <2>1
  <1> QED
    BY <1>3, <1>7, <1>8, <1>10, <1>11 DEF LineHas, r, C, w, line

LEMMA LinesAre ==
    ASSUME NEW X, NEW rs \in Seq(PiRecords(X)), NEW terminated \in BOOLEAN
    PROVE  /\ Lines(rs, terminated) \in Seq(Seq(Chars(X))) /\ Len(Lines(rs, terminated)) = Len(rs)
           /\ PiOutput(rs, terminated) = FlattenSeq(Lines(rs, terminated))
  <1> DEFINE L == Lines(rs, terminated)
             n == Len(rs)
             S == Seq(Chars(X))
  <1>1. n \in Nat
    BY LenProperties
  <1>2. DOMAIN L = 1 .. n /\ L = [i \in 1 .. n |-> L[i]]
    BY DEF Lines
  <1>3. \A i \in 1 .. n : L[i] \in S
    BY LineIs DEF LineHas
  <1> HIDE DEF L, n, S
  <1>4. L \in [1 .. n -> S]
    BY <1>2, <1>3
  <1>5. L \in Seq(S)
    BY <1>1, <1>4
  <1>6. DOMAIN L = 1 .. Len(L) /\ Len(L) \in Nat
    BY <1>5, LenProperties
  <1>7. Len(L) = n
    <2> DEFINE l == Len(L)
    <2>1. l \in Nat /\ 1 .. l = 1 .. n
      BY <1>2, <1>6
    <2> HIDE DEF l
    <2>2. l = n
      BY <1>1, <2>1
    <2> QED
      BY <2>2 DEF l
  <1>8. PiOutput(rs, terminated) = FlattenSeq(L)
    BY DEF PiOutput, Lines, L
  <1> QED
    BY <1>5, <1>7, <1>8 DEF L, n, S

\* After t characters i records have been read with their newlines, and d of the next.
Begun(rs, terminated, i) == Len(FlattenSeq(First(Lines(rs, terminated), i)))

At(rs, terminated, t, i, d) ==
    /\ i \in 0 .. Len(rs) /\ d \in Nat /\ t = Begun(rs, terminated, i) + d
    /\ i = Len(rs) => d = 0 /\ (terminated \/ Len(rs) = 0)
    /\ i < Len(rs) => d <= Width(rs[i + 1])

Advances(rs, terminated, t, i, d) ==
    LET c == PiOutput(rs, terminated)[t + 1] IN
    /\ i < Len(rs)
    /\ \/ /\ d < Width(rs[i + 1]) /\ c = rs[i + 1]
          /\ At(rs, terminated, t + 1, i, d + 1)
       \/ /\ d = Width(rs[i + 1]) /\ c = Newline
          /\ At(rs, terminated, t + 1, i + 1, 0)

BegunGrows(rs, terminated, i) ==
    LET line == Lines(rs, terminated)[i] IN
    /\ Begun(rs, terminated, i - 1) \in Nat
    /\ Begun(rs, terminated, i) = Begun(rs, terminated, i - 1) + Len(line)
    /\ Begun(rs, terminated, i) <= Len(PiOutput(rs, terminated))
    /\ \A j \in 1 .. Len(line) :
          PiOutput(rs, terminated)[Begun(rs, terminated, i - 1) + j] = line[j]

LEMMA BegunIs ==
    ASSUME NEW X, NEW rs \in Seq(PiRecords(X)), NEW terminated \in BOOLEAN
    PROVE  /\ Len(rs) \in Nat /\ Len(PiOutput(rs, terminated)) \in Nat
           /\ Begun(rs, terminated, 0) = 0
           /\ Begun(rs, terminated, Len(rs)) = Len(PiOutput(rs, terminated))
           /\ \A i \in 1 .. Len(rs) : BegunGrows(rs, terminated, i)
  <1> DEFINE L == Lines(rs, terminated)
             f == PiOutput(rs, terminated)
             C == Chars(X)
             n == Len(rs)
  <1>1. L \in Seq(Seq(C)) /\ Len(L) = n /\ f = FlattenSeq(L)
    BY LinesAre
  <1> HIDE DEF L, f, C
  <1>2. First(L, n) = L
    BY <1>1, FirstGrows
  <1>3. FlattenSeq(First(L, 0)) = <<>>
    BY <1>1, FlattenIs
  <1>4. n \in Nat /\ Len(f) \in Nat /\ Len(<<>>) = 0
    <2>1. n \in Nat /\ 0 \in 0 .. n
      BY LenProperties
    <2> QED
      BY <1>1, <2>1, FlattenKeeps, EmptySeq
  <1>5. ASSUME NEW i \in 1 .. n PROVE BegunGrows(rs, terminated, i)
    <2>1. i - 1 \in 0 .. n /\ i \in 0 .. n
      BY <1>4
    <2> DEFINE o == FlattenSeq(First(L, i - 1))
               p == FlattenSeq(First(L, i))
    <2>2. o \in Seq(C) /\ p = o \o L[i] /\ L[i] \in Seq(C)
      BY <1>1, <2>1, FlattenIs, FlattenStep, ElementOfSeq
    <2>3. Len(p) <= Len(f)
      BY <1>1, <2>1, FlattenKeeps
    <2>4. ASSUME NEW j \in 1 .. Len(L[i]) PROVE f[Len(o) + j] = L[i][j]
      <3>1. FlattensAt(L, i, j)
        BY <1>1, FlattenAt
      <3> QED
        BY <1>1, <3>1 DEF FlattensAt
    <2> HIDE DEF o, p
    <2>5. Len(p) = Len(o) + Len(L[i]) /\ Len(o) \in Nat
      BY <2>2, ConcatProperties, LenProperties
    <2> QED
      BY <2>3, <2>4, <2>5 DEF BegunGrows, Begun, L, f, o, p
  <1> QED
    BY <1>1, <1>2, <1>3, <1>4, <1>5 DEF Begun, L, f

LEMMA AtStep ==
    ASSUME NEW X, NEW rs \in Seq(PiRecords(X)), NEW terminated \in BOOLEAN,
           NEW t, NEW i, NEW d, At(rs, terminated, t, i, d), t < Len(PiOutput(rs, terminated))
    PROVE  Advances(rs, terminated, t, i, d)
  <1> DEFINE n == Len(rs)
             b == Begun(rs, terminated, i)
             f == PiOutput(rs, terminated)
             z == Len(f)
  <1>1. /\ n \in Nat /\ z \in Nat /\ Begun(rs, terminated, n) = z
        /\ \A k \in 1 .. n : BegunGrows(rs, terminated, k)
    BY BegunIs
  <1>2. /\ i \in 0 .. n /\ d \in Nat /\ t = b + d /\ t < z
        /\ i = n => d = 0
        /\ i < n => d <= Width(rs[i + 1])
    BY DEF At
  <1>3. i < n
    <2> SUFFICES ASSUME i = n PROVE FALSE
      BY <1>1, <1>2
    <2> QED
      BY <1>1, <1>2
  <1> DEFINE r == rs[i + 1]
             line == Lines(rs, terminated)[i + 1]
             w == Width(r)
             l == Len(line)
             more == i + 1 < n \/ terminated
  <1>4. i + 1 \in 1 .. n /\ (i + 1) - 1 = i /\ i + 1 \in 0 .. n
    BY <1>1, <1>2, <1>3
  <1>5. /\ w \in Nat \ {0} /\ l = w + (IF more THEN 1 ELSE 0)
        /\ \A k \in 1 .. w : line[k] = r
        /\ more => line[w + 1] = Newline
    BY <1>4, LineIs DEF LineHas
  <1>6. /\ b \in Nat /\ Begun(rs, terminated, i + 1) = b + l /\ b + l <= z
        /\ \A k \in 1 .. l : f[b + k] = line[k]
    <2>1. BegunGrows(rs, terminated, i + 1)
      BY <1>1, <1>4
    <2> QED
      BY <1>4, <2>1 DEF BegunGrows
  <1>7. d <= w
    BY <1>2, <1>3
  <1> HIDE DEF n, b, f, z, r, line, w, l, more
  <1>8. CASE d < w
    <2>1. d + 1 \in 1 .. w /\ d + 1 \in 1 .. l /\ t + 1 = b + (d + 1) /\ d + 1 \in Nat /\ d + 1 <= w
      BY <1>2, <1>5, <1>6, <1>8
    <2>2. f[t + 1] = r
      BY <1>5, <1>6, <2>1
    <2>3. At(rs, terminated, t + 1, i, d + 1)
      BY <1>2, <1>3, <2>1 DEF At, n, b, w, r
    <2> QED
      BY <1>3, <1>8, <2>2, <2>3 DEF Advances, f, r, w, n
  <1>9. CASE ~(d < w)
    <2>1. d = w
      BY <1>2, <1>5, <1>7, <1>9
    <2>2. more
      <3> SUFFICES ASSUME ~more PROVE FALSE
        OBVIOUS
      <3>1. l = w /\ i + 1 = n
        BY <1>1, <1>2, <1>3, <1>5 DEF more
      <3> QED
        BY <1>1, <1>2, <1>6, <2>1, <3>1
    <2>3. l = w + 1 /\ l \in 1 .. l /\ t + 1 = b + l /\ 0 \in Nat /\ b + l + 0 = b + l
      BY <1>2, <1>5, <1>6, <2>1, <2>2
    <2>4. f[t + 1] = Newline
      BY <1>5, <1>6, <2>2, <2>3
    <2>5. i + 1 = n => terminated
      BY <1>1, <1>4, <2>2 DEF more
    <2>6. i + 1 < n => 0 <= Width(rs[i + 1 + 1])
      <3> SUFFICES ASSUME i + 1 < n PROVE 0 <= Width(rs[i + 1 + 1])
        OBVIOUS
      <3>1. i + 1 + 1 \in 1 .. Len(rs)
        BY <1>1, <1>2, <1>4 DEF n
      <3>2. Width(rs[i + 1 + 1]) \in Nat
        BY <3>1, LineIs DEF LineHas
      <3> QED
        BY <3>2
    <2>7. At(rs, terminated, t + 1, i + 1, 0)
      BY <1>4, <1>6, <2>3, <2>5, <2>6 DEF At, n
    <2> QED
      BY <1>3, <2>1, <2>4, <2>7 DEF Advances, f, r, w, n
  <1> QED
    BY <1>8, <1>9

\* Where it ends
LEMMA AtEnd ==
    ASSUME NEW X, NEW rs \in Seq(PiRecords(X)), NEW terminated \in BOOLEAN, NEW i, NEW d,
           At(rs, terminated, Len(PiOutput(rs, terminated)), i, d)
    PROVE  \/ i = Len(rs) /\ d = 0 /\ (terminated \/ Len(rs) = 0)
           \/ i + 1 = Len(rs) /\ i < Len(rs) /\ d = Width(rs[i + 1]) /\ ~terminated /\ Len(rs) # 0
  <1> DEFINE n == Len(rs)
             b == Begun(rs, terminated, i)
             z == Len(PiOutput(rs, terminated))
  <1>1. n \in Nat /\ z \in Nat /\ \A k \in 1 .. n : BegunGrows(rs, terminated, k)
    BY BegunIs
  <1>2. /\ i \in 0 .. n /\ d \in Nat /\ z = b + d
        /\ i = n => d = 0 /\ (terminated \/ n = 0)
        /\ i < n => d <= Width(rs[i + 1])
    BY DEF At
  <1>3. CASE i = n
    BY <1>2, <1>3
  <1>4. CASE i # n
    <2> DEFINE line == Lines(rs, terminated)[i + 1]
               w == Width(rs[i + 1])
               l == Len(line)
               more == i + 1 < n \/ terminated
    <2>1. i < n /\ i + 1 \in 1 .. n /\ (i + 1) - 1 = i
      BY <1>1, <1>2, <1>4
    <2>2. w \in Nat \ {0} /\ l = w + (IF more THEN 1 ELSE 0)
      BY <2>1, LineIs DEF LineHas
    <2>3. b \in Nat /\ b + l <= z
      <3>1. BegunGrows(rs, terminated, i + 1)
        BY <1>1, <2>1
      <3> QED
        BY <2>1, <3>1 DEF BegunGrows
    <2>4. d <= w
      BY <1>2, <2>1
    <2> HIDE DEF b, z, line, w, l, more, n
    <2>5. ~more /\ d = w
      BY <1>2, <2>2, <2>3, <2>4
    <2>6. i + 1 = n /\ ~terminated /\ n # 0
      BY <1>1, <2>1, <2>5 DEF more
    <2> QED
      BY <2>1, <2>5, <2>6 DEF w, n
  <1> QED
    BY <1>3, <1>4

-----------------------------------------------------------------------------
(* PiAnswer: chunks                                                        *)

PiLines(X) == [remainder : Seq(PiRecords(X)), records : Seq(PiRecords(X)), failed : BOOLEAN]

Afresh(l)          == [l EXCEPT !.records = <<>>]
ReadRecords(a, rs) == FoldLeft(ReadRecord, a, rs)

TakesCharacters(A, B, l) == Afresh(l) \in A /\ \A r \in A, x \in B : ReadCharacter(r, x) \in A
TakesRecords(A, B, a)    == a \in A /\ \A r \in A, x \in B : ReadRecord(r, x) \in A

CharacterFoldGoes(A, B, l, s) ==
    \E G \in [0 .. Len(s) -> A] :
        /\ G[0] = Afresh(l)
        /\ \A i \in 1 .. Len(s) : G[i] = ReadCharacter(G[i - 1], s[i])
        /\ ReadChunk(l, s) = G[Len(s)]

\* A chunk, character by character
LEMMA CharacterFold ==
    ASSUME NEW A, NEW B, NEW l, TakesCharacters(A, B, l), NEW s \in Seq(B)
    PROVE  CharacterFoldGoes(A, B, l, s)
  <1> DEFINE f == [q \in A \X B |-> ReadCharacter(q[1], q[2])]
             Step(H) == [t \in SUBSET DOMAIN s |->
                           IF t = {} THEN Afresh(l)
                           ELSE ReadCharacter(H[t \ {Max(t)}], s[Max(t)])]
             F == CHOOSE H : H = Step(H)
  <1>1. ReadChunk(l, s) = F[DOMAIN s]
    BY DEF FoldLeft, MapThenFoldSet, ReadChunk, Afresh
  <1>2. \A r \in A, x \in B : ReadCharacter(r, x) \in A
    BY DEF TakesCharacters
  <1>3. Afresh(l) \in A
    BY DEF TakesCharacters
  <1>4. \A r \in A, x \in B : f[<<r, x>>] = ReadCharacter(r, x)
    OBVIOUS
  <1>5. Foldable(A, B, f, Afresh(l), s)
    BY <1>2, <1>3 DEF Foldable
  <1> HIDE DEF f
  <1>6. Len(s) \in Nat /\ DOMAIN s = 1 .. Len(s) /\ \A i \in 1 .. Len(s) : s[i] \in B
    BY LenProperties, ElementOfSeq
  <1>7. \A t \in SUBSET DOMAIN s :
           t # {} => s[Max(t)] \in B /\ t \ {Max(t)} \in SUBSET DOMAIN s
    BY <1>6, MaxIsIn
  <1>8. HasFold(A, f, Afresh(l), s)
    BY <1>5, FoldExists
  <1>9. PICK K \in [SUBSET DOMAIN s -> A] : K = Folds(K, f, Afresh(l), s)
    BY <1>8 DEF HasFold
  <1>10. Step(K) = Folds(K, f, Afresh(l), s)
    BY <1>4, <1>7 DEF Folds
  <1>11. F = Step(F)
    BY <1>9, <1>10
  <1> HIDE DEF F
  <1>12. F[{}] = Afresh(l)
    BY <1>11
  <1>13. IsFold(F, A, f, Afresh(l), s)
    <2>1. ASSUME NEW t \in SUBSET DOMAIN s, t # {}, F[t \ {Max(t)}] \in A
          PROVE  F[t] = f[<<F[t \ {Max(t)}], s[Max(t)]>>]
      <3>1. F[t] = ReadCharacter(F[t \ {Max(t)}], s[Max(t)])
        BY <1>11, <2>1
      <3>2. s[Max(t)] \in B
        BY <1>7, <2>1
      <3> HIDE DEF Step
      <3> QED
        BY <1>4, <2>1, <3>1, <3>2
    <2> HIDE DEF Step
    <2> QED
      BY <1>12, <2>1 DEF IsFold
  <1>14. GivesAlong(F, A, f, Afresh(l), s)
    BY <1>5, <1>13, FoldGives
  <1>15. PICK G \in [0 .. Len(s) -> A] : Along(G, f, Afresh(l), s) /\ F[DOMAIN s] = G[Len(s)]
    BY <1>14 DEF GivesAlong
  <1>16. \A i \in 1 .. Len(s) : G[i - 1] \in A
    <2>1. \A i \in 1 .. Len(s) : i - 1 \in 0 .. Len(s)
      BY <1>6
    <2> QED
      BY <2>1
  <1>17. \A i \in 1 .. Len(s) : G[i] = ReadCharacter(G[i - 1], s[i])
    BY <1>4, <1>6, <1>15, <1>16 DEF Along
  <1> QED
    BY <1>1, <1>15, <1>17 DEF Along, CharacterFoldGoes

RecordFoldGoes(A, B, a, s) ==
    \E G \in [0 .. Len(s) -> A] :
        /\ G[0] = a
        /\ \A i \in 1 .. Len(s) : G[i] = ReadRecord(G[i - 1], s[i])
        /\ ReadRecords(a, s) = G[Len(s)]

\* The records of a chunk, one by one
LEMMA RecordFold ==
    ASSUME NEW A, NEW B, NEW a, TakesRecords(A, B, a), NEW s \in Seq(B)
    PROVE  RecordFoldGoes(A, B, a, s)
  <1> DEFINE f == [q \in A \X B |-> ReadRecord(q[1], q[2])]
             Step(H) == [t \in SUBSET DOMAIN s |->
                           IF t = {} THEN a
                           ELSE ReadRecord(H[t \ {Max(t)}], s[Max(t)])]
             F == CHOOSE H : H = Step(H)
  <1>1. ReadRecords(a, s) = F[DOMAIN s]
    BY DEF FoldLeft, MapThenFoldSet, ReadRecords
  <1>2. \A r \in A, x \in B : ReadRecord(r, x) \in A
    BY DEF TakesRecords
  <1>3. a \in A
    BY DEF TakesRecords
  <1>4. \A r \in A, x \in B : f[<<r, x>>] = ReadRecord(r, x)
    OBVIOUS
  <1>5. Foldable(A, B, f, a, s)
    BY <1>2, <1>3 DEF Foldable
  <1> HIDE DEF f
  <1>6. Len(s) \in Nat /\ DOMAIN s = 1 .. Len(s) /\ \A i \in 1 .. Len(s) : s[i] \in B
    BY LenProperties, ElementOfSeq
  <1>7. \A t \in SUBSET DOMAIN s :
           t # {} => s[Max(t)] \in B /\ t \ {Max(t)} \in SUBSET DOMAIN s
    BY <1>6, MaxIsIn
  <1>8. HasFold(A, f, a, s)
    BY <1>5, FoldExists
  <1>9. PICK K \in [SUBSET DOMAIN s -> A] : K = Folds(K, f, a, s)
    BY <1>8 DEF HasFold
  <1>10. Step(K) = Folds(K, f, a, s)
    BY <1>4, <1>7 DEF Folds
  <1>11. F = Step(F)
    BY <1>9, <1>10
  <1> HIDE DEF F
  <1>12. F[{}] = a
    BY <1>11
  <1>13. IsFold(F, A, f, a, s)
    <2>1. ASSUME NEW t \in SUBSET DOMAIN s, t # {}, F[t \ {Max(t)}] \in A
          PROVE  F[t] = f[<<F[t \ {Max(t)}], s[Max(t)]>>]
      <3>1. F[t] = ReadRecord(F[t \ {Max(t)}], s[Max(t)])
        BY <1>11, <2>1
      <3>2. s[Max(t)] \in B
        BY <1>7, <2>1
      <3> HIDE DEF Step
      <3> QED
        BY <1>4, <2>1, <3>1, <3>2
    <2> HIDE DEF Step
    <2> QED
      BY <1>12, <2>1 DEF IsFold
  <1>14. GivesAlong(F, A, f, a, s)
    BY <1>5, <1>13, FoldGives
  <1>15. PICK G \in [0 .. Len(s) -> A] : Along(G, f, a, s) /\ F[DOMAIN s] = G[Len(s)]
    BY <1>14 DEF GivesAlong
  <1>16. \A i \in 1 .. Len(s) : G[i - 1] \in A
    <2>1. \A i \in 1 .. Len(s) : i - 1 \in 0 .. Len(s)
      BY <1>6
    <2> QED
      BY <2>1
  <1>17. \A i \in 1 .. Len(s) : G[i] = ReadRecord(G[i - 1], s[i])
    BY <1>4, <1>6, <1>15, <1>16 DEF Along
  <1> QED
    BY <1>1, <1>15, <1>17 DEF Along, RecordFoldGoes

LEMMA RecordFoldStep ==
    ASSUME NEW A, NEW B, NEW a, TakesRecords(A, B, a), NEW s \in Seq(B), NEW x \in B
    PROVE  /\ ReadRecords(a, s) \in A
           /\ ReadRecords(a, Append(s, x)) = ReadRecord(ReadRecords(a, s), x)
  <1> DEFINE t == Append(s, x)
  <1>1. /\ t \in Seq(B) /\ Len(t) = Len(s) + 1 /\ t[Len(s) + 1] = x /\ Len(s) \in Nat
        /\ \A i \in 1 .. Len(s) : t[i] = s[i]
    BY AppendProperties, LenProperties
  <1> HIDE DEF t
  <1> RecordFoldGoes(A, B, a, s)
    BY RecordFold
  <1> RecordFoldGoes(A, B, a, t)
    BY <1>1, RecordFold
  <1>2. PICK G \in [0 .. Len(s) -> A] :
           /\ G[0] = a
           /\ \A i \in 1 .. Len(s) : G[i] = ReadRecord(G[i - 1], s[i])
           /\ ReadRecords(a, s) = G[Len(s)]
    BY DEF RecordFoldGoes
  <1>3. PICK H \in [0 .. Len(t) -> A] :
           /\ H[0] = a
           /\ \A i \in 1 .. Len(t) : H[i] = ReadRecord(H[i - 1], t[i])
           /\ ReadRecords(a, t) = H[Len(t)]
    BY DEF RecordFoldGoes
  <1> DEFINE T == {i \in 0 .. Len(s) : H[i] = G[i]}
  <1>4. 0 \in T
    BY <1>1, <1>2, <1>3
  <1>5. ASSUME NEW i \in 1 .. Len(s), i - 1 \in T PROVE i \in T
    <2>1. i \in 0 .. Len(s) /\ i \in 1 .. Len(t) /\ t[i] = s[i] /\ H[i - 1] = G[i - 1]
      BY <1>1, <1>5
    <2>2. H[i] = ReadRecord(H[i - 1], t[i])
      BY <1>3, <2>1
    <2>3. G[i] = ReadRecord(G[i - 1], s[i])
      BY <1>2
    <2>4. H[i] = G[i]
      BY <2>1, <2>2, <2>3
    <2> QED
      BY <2>1, <2>4
  <1> HIDE DEF T
  <1>6. \A i \in 0 .. Len(s) : i \in T
    BY <1>1, <1>4, <1>5, Reaches
  <1>7. H[Len(s)] = G[Len(s)] /\ G[Len(s)] \in A
    BY <1>1, <1>2, <1>6 DEF T
  <1>8. Len(s) + 1 \in 1 .. Len(t) /\ (Len(s) + 1) - 1 = Len(s)
    BY <1>1
  <1>9. H[Len(s) + 1] = ReadRecord(H[Len(s)], x)
    BY <1>1, <1>3, <1>8
  <1>10. ReadRecords(a, t) = ReadRecord(ReadRecords(a, s), x)
    BY <1>1, <1>2, <1>3, <1>7, <1>9
  <1> QED
    BY <1>2, <1>7, <1>10 DEF t

LEMMA RecordFoldNone ==
    ASSUME NEW A, NEW B, NEW a, TakesRecords(A, B, a)
    PROVE  ReadRecords(a, <<>>) = a
  <1> RecordFoldGoes(A, B, a, <<>>)
    BY RecordFold, EmptySeq
  <1>1. Len(<<>>) = 0
    BY EmptySeq
  <1> QED
    BY <1>1 DEF RecordFoldGoes

\* What a chunk that has been read so far makes of the answer there was before it
SoFar(l, a) == IF l.failed THEN FailAnswer(ReadRecords(a, l.records)) ELSE ReadRecords(a, l.records)

LEMMA ReadRecordTyped ==
    ASSUME NEW X, Blank(X), NEW a \in PiAnswers(X), NEW r \in PiRecords(X)
    PROVE  ReadRecord(a, r) \in PiAnswers(X)
  <1>1. CASE r.kind # "huge"
    BY <1>1, ReadWholeIs
  <1>2. CASE r.kind = "huge"
    BY <1>2 DEF ReadRecord
  <1> QED
    BY <1>1, <1>2

\* A further record
LEMMA FurtherRecord ==
    ASSUME NEW X, Blank(X), NEW a \in PiAnswers(X), NEW rs \in Seq(PiRecords(X)),
           NEW r \in PiRecords(X)
    PROVE  /\ ReadRecords(a, rs) \in PiAnswers(X)
           /\ ReadRecords(a, Append(rs, r)) = ReadRecord(ReadRecords(a, rs), r)
           /\ ReadRecords(a, <<>>) = a
  <1>1. TakesRecords(PiAnswers(X), PiRecords(X), a)
    BY ReadRecordTyped DEF TakesRecords
  <1> QED
    BY <1>1, RecordFoldStep, RecordFoldNone

LEMMA CharacterIs ==
    ASSUME NEW X, NEW l \in PiLines(X), NEW c \in Chars(X)
    PROVE  /\ ReadCharacter(l, c) \in PiLines(X)
           /\ l.failed => ReadCharacter(l, c) = l
           /\ ~l.failed /\ c # Newline /\ Len(l.remainder) >= MaxRecord =>
                ReadCharacter(l, c).failed /\ ReadCharacter(l, c).records = l.records
           /\ ~l.failed /\ c # Newline /\ ~(Len(l.remainder) >= MaxRecord) =>
                /\ ~ReadCharacter(l, c).failed /\ ReadCharacter(l, c).records = l.records
                /\ ReadCharacter(l, c).remainder = Append(l.remainder, c)
           /\ ~l.failed /\ c = Newline /\ l.remainder = <<>> => ReadCharacter(l, c) = l
           /\ ~l.failed /\ c = Newline /\ l.remainder # <<>> =>
                /\ ~ReadCharacter(l, c).failed /\ ReadCharacter(l, c).remainder = <<>>
                /\ l.remainder[1] \in PiRecords(X)
                /\ ReadCharacter(l, c).records = Append(l.records, l.remainder[1])
  <1>1. /\ l.remainder \in Seq(PiRecords(X)) /\ l.records \in Seq(PiRecords(X))
        /\ l.failed \in BOOLEAN /\ l = [l EXCEPT !.failed = l.failed]
    BY DEF PiLines
  <1>2. CASE l.failed
    BY <1>2 DEF ReadCharacter
  <1>3. CASE ~l.failed /\ c # Newline /\ Len(l.remainder) >= MaxRecord
    <2>1. ReadCharacter(l, c) = [l EXCEPT !.failed = TRUE]
      BY <1>3 DEF ReadCharacter
    <2> QED
      BY <1>3, <2>1 DEF PiLines
  <1>4. CASE ~l.failed /\ c # Newline /\ ~(Len(l.remainder) >= MaxRecord)
    <2> DEFINE s == Append(l.remainder, c)
    <2>1. ReadCharacter(l, c) = [l EXCEPT !.remainder = s]
      BY <1>4 DEF ReadCharacter
    <2>2. c \in PiRecords(X)
      BY <1>4 DEF Chars
    <2>3. s \in Seq(PiRecords(X))
      BY <1>1, <2>2, AppendProperties
    <2> HIDE DEF s
    <2>4. /\ [l EXCEPT !.remainder = s] \in PiLines(X)
          /\ [l EXCEPT !.remainder = s].failed = l.failed
          /\ [l EXCEPT !.remainder = s].records = l.records
          /\ [l EXCEPT !.remainder = s].remainder = s
      BY <2>3 DEF PiLines
    <2> QED
      BY <1>4, <2>1, <2>4 DEF s
  <1>5. CASE ~l.failed /\ c = Newline /\ l.remainder = <<>>
    BY <1>5 DEF ReadCharacter
  <1>6. CASE ~l.failed /\ c = Newline /\ l.remainder # <<>>
    <2> DEFINE s == Append(l.records, l.remainder[1])
    <2>1. ReadCharacter(l, c) = [l EXCEPT !.remainder = <<>>, !.records = s]
      BY <1>6 DEF ReadCharacter
    <2>2. 1 \in 1 .. Len(l.remainder)
      <3>1. Len(l.remainder) \in Nat /\ Len(l.remainder) # 0
        BY <1>1, <1>6, LenProperties, EmptySeq
      <3> QED
        BY <3>1
    <2>3. l.remainder[1] \in PiRecords(X)
      BY <1>1, <2>2, ElementOfSeq
    <2>4. s \in Seq(PiRecords(X)) /\ <<>> \in Seq(PiRecords(X))
      BY <1>1, <2>3, AppendProperties, EmptySeq
    <2> DEFINE e == <<>>
               k == [l EXCEPT !.remainder = e, !.records = s]
    <2> HIDE DEF s, e
    <2>5. k \in PiLines(X) /\ k.failed = l.failed /\ k.remainder = e /\ k.records = s
      BY <2>4 DEF PiLines, e
    <2> QED
      BY <1>6, <2>1, <2>3, <2>5 DEF s, e
  <1> QED
    BY <1>2, <1>3, <1>4, <1>5, <1>6

\* The answer there is after i records and d characters of the next
AnswerAt(rs, G, i, d) ==
    IF i < Len(rs) /\ rs[i + 1].kind = "huge" /\ d > MaxRecord THEN FailAnswer(G[i]) ELSE G[i]

Holding(X, rs, G, i, d, l, a) ==
    /\ l \in PiLines(X) /\ a = AnswerAt(rs, G, i, d)
    /\ a.outcome = "open" => /\ ~l.failed /\ Len(l.remainder) = d
                             /\ \A j \in 1 .. d : l.remainder[j] = rs[i + 1]

AnswerKept(rs, G, i, d) ==
    LET a == AnswerAt(rs, G, i, d) IN
    /\ d < Width(rs[i + 1]) => AnswerAt(rs, G, i, d + 1) = a
    /\ d = Width(rs[i + 1]) => AnswerAt(rs, G, i + 1, 0) = a

\* An answer that has been decided stays.
LEMMA AnswerKeeps ==
    ASSUME NEW X, Blank(X), NEW rs \in Seq(PiRecords(X)), NEW G, AnswersOf(X, rs, G),
           NEW i \in 0 .. Len(rs), i < Len(rs), NEW d \in Nat,
           AnswerAt(rs, G, i, d).outcome # "open"
    PROVE  AnswerKept(rs, G, i, d)
  <1> DEFINE r == rs[i + 1]
             g == G[i]
  <1>1. i + 1 \in 1 .. Len(rs) /\ (i + 1) - 1 = i /\ Len(rs) \in Nat /\ i \in 0 .. Len(rs)
    BY LenProperties
  <1>2. r \in PiRecords(X) /\ g \in PiAnswers(X) /\ G[i + 1] = ReadWhole(g, r)
    BY <1>1, ElementOfSeq DEF AnswersOf
  <1>3. AnswerAt(rs, G, i + 1, 0) = G[i + 1]
    BY RecordAssumption DEF AnswerAt
  <1>4. /\ g.outcome # "open" => ReadWhole(g, r) = g /\ FailAnswer(g) = g
        /\ r.kind = "huge" => ReadWhole(g, r) = FailAnswer(g)
    <2> HIDE DEF r, g
    <2>1. g.outcome # "open" => ReadWhole(g, r) = g /\ FailAnswer(g) = g
      BY <1>2, ReadWholeIs
    <2>2. r.kind = "huge" => ReadWhole(g, r) = FailAnswer(g)
      BY DEF ReadWhole
    <2> QED
      BY <2>1, <2>2
  <1>5. MaxRecord \in Nat /\ Width(r) = IF r.kind = "huge" THEN MaxRecord + 1 ELSE MaxRecord
    BY RecordAssumption DEF Width
  <1>6. /\ AnswerAt(rs, G, i, d) = IF r.kind = "huge" /\ d > MaxRecord THEN FailAnswer(g) ELSE g
        /\ AnswerAt(rs, G, i, d + 1)
             = IF r.kind = "huge" /\ d + 1 > MaxRecord THEN FailAnswer(g) ELSE g
    BY DEF AnswerAt
  <1> HIDE DEF r, g
  <1>7. CASE r.kind = "huge" /\ d > MaxRecord
    <2>1. AnswerAt(rs, G, i, d) = FailAnswer(g) /\ d + 1 > MaxRecord
      BY <1>5, <1>6, <1>7
    <2> QED
      BY <1>2, <1>3, <1>4, <1>6, <1>7, <2>1 DEF AnswerKept
  <1>8. CASE ~(r.kind = "huge" /\ d > MaxRecord)
    <2>1. AnswerAt(rs, G, i, d) = g /\ g.outcome # "open"
      BY <1>6, <1>8
    <2> QED
      BY <1>2, <1>3, <1>4, <1>6, <2>1 DEF AnswerKept
  <1> QED
    BY <1>7, <1>8

LEMMA SoFarKeeps ==
    ASSUME NEW X, Blank(X), NEW l \in PiLines(X), NEW a \in PiAnswers(X), NEW c \in Chars(X),
           SoFar(l, a).outcome # "open"
    PROVE  SoFar(ReadCharacter(l, c), a) = SoFar(l, a)
  <1> DEFINE f == ReadRecords(a, l.records)
             k == ReadCharacter(l, c)
  <1>1. l.records \in Seq(PiRecords(X)) /\ l.failed \in BOOLEAN
    BY DEF PiLines
  <1>2. \A r \in PiRecords(X) : ReadRecords(a, Append(l.records, r)) = ReadRecord(f, r)
    BY <1>1, FurtherRecord
  <1>3. CASE l.failed
    <2>1. k = l
      BY <1>3, CharacterIs
    <2> QED
      BY <2>1
  <1>4. CASE ~l.failed
    <2>1. f.outcome # "open" /\ SoFar(l, a) = f
      BY <1>4 DEF SoFar
    <2>2. FailAnswer(f) = f /\ \A r : ReadRecord(f, r) = f
      BY <2>1 DEF FailAnswer, ReadRecord
    <2>3. \/ k.records = l.records
          \/ l.remainder[1] \in PiRecords(X) /\ k.records = Append(l.records, l.remainder[1])
      BY <1>4, CharacterIs
    <2> HIDE DEF f, k
    <2>4. ReadRecords(a, k.records) = f
      BY <1>2, <2>2, <2>3 DEF f
    <2> QED
      BY <2>1, <2>2, <2>4 DEF SoFar, k
  <1> QED
    BY <1>3, <1>4

\* A character of a record, and the newline after it
HoldsOn(X, rs, G, i, d, l, a, c) ==
    LET k == ReadCharacter(l, c) IN
    /\ d < Width(rs[i + 1]) /\ c = rs[i + 1] => Holding(X, rs, G, i, d + 1, k, SoFar(k, a))
    /\ d = Width(rs[i + 1]) /\ c = Newline   => Holding(X, rs, G, i + 1, 0, k, SoFar(k, a))

LEMMA CharacterHolds ==
    ASSUME NEW X, Blank(X), NEW rs \in Seq(PiRecords(X)), NEW G, AnswersOf(X, rs, G),
           NEW i \in 0 .. Len(rs), i < Len(rs), NEW d \in Nat, d <= Width(rs[i + 1]),
           NEW l, NEW a \in PiAnswers(X), Holding(X, rs, G, i, d, l, SoFar(l, a)),
           NEW c \in Chars(X)
    PROVE  HoldsOn(X, rs, G, i, d, l, a, c)
  <1> DEFINE r == rs[i + 1]
             g == G[i]
             f == ReadRecords(a, l.records)
             k == ReadCharacter(l, c)
  <1>1. i + 1 \in 1 .. Len(rs) /\ (i + 1) - 1 = i /\ Len(rs) \in Nat /\ i \in 0 .. Len(rs)
    BY LenProperties
  <1>2. r \in PiRecords(X) /\ g \in PiAnswers(X) /\ G[i + 1] = ReadWhole(g, r)
    BY <1>1, ElementOfSeq DEF AnswersOf
  <1>3. l \in PiLines(X) /\ k \in PiLines(X)
    BY CharacterIs DEF Holding
  <1>4. MaxRecord \in Nat \ {0} /\ Width(r) = IF r.kind = "huge" THEN MaxRecord + 1 ELSE MaxRecord
    BY RecordAssumption DEF Width
  <1>5. SoFar(l, a) = AnswerAt(rs, G, i, d)
    BY DEF Holding
  <1>6. r # Newline
    <2>1. r.kind \in PiKinds
      BY <1>2 DEF PiRecords
    <2>2. Newline.kind \notin PiKinds
      BY DEF PiKinds, Newline
    <2> QED
      BY <2>1, <2>2
  <1>7. CASE SoFar(l, a).outcome # "open"
    <2>1. SoFar(k, a) = SoFar(l, a)
      BY <1>3, <1>7, SoFarKeeps
    <2>2. AnswerKept(rs, G, i, d)
      BY <1>5, <1>7, AnswerKeeps
    <2> HIDE DEF k
    <2> QED
      BY <1>3, <1>5, <1>7, <2>1, <2>2 DEF HoldsOn, Holding, AnswerKept, k
  <1>8. CASE SoFar(l, a).outcome = "open"
    <2>1. /\ ~l.failed /\ Len(l.remainder) = d
          /\ \A j \in 1 .. d : l.remainder[j] = r
      BY <1>8 DEF Holding
    <2>2. SoFar(l, a) = f
      BY <2>1 DEF SoFar
    <2>3. ~(r.kind = "huge" /\ d > MaxRecord) /\ f = g
      <3>1. FailAnswer(g).outcome # "open"
        BY <1>2 DEF FailAnswer, PiAnswers
      <3>2. AnswerAt(rs, G, i, d) = IF r.kind = "huge" /\ d > MaxRecord THEN FailAnswer(g) ELSE g
        BY DEF AnswerAt
      <3> HIDE DEF f, g, r
      <3> QED
        BY <1>5, <1>8, <2>2, <3>1, <3>2
    <2>4. d <= MaxRecord
      BY <1>4, <2>3
    <2>5. l.remainder \in Seq(PiRecords(X)) /\ l.records \in Seq(PiRecords(X))
      BY <1>3 DEF PiLines
    <2>6. /\ AnswerAt(rs, G, i, d + 1)
               = IF r.kind = "huge" /\ d + 1 > MaxRecord THEN FailAnswer(g) ELSE g
          /\ AnswerAt(rs, G, i + 1, 0) = G[i + 1]
      BY <1>4 DEF AnswerAt
    <2>7. ASSUME d < Width(r), c = r PROVE Holding(X, rs, G, i, d + 1, k, SoFar(k, a))
      <3>1. CASE d >= MaxRecord
        <4>1. k.failed /\ k.records = l.records
          BY <1>3, <1>6, <2>1, <2>7, <3>1, CharacterIs
        <4>2. SoFar(k, a) = FailAnswer(g)
          BY <2>3, <4>1 DEF SoFar
        <4>3. r.kind = "huge" /\ d + 1 > MaxRecord
          BY <1>4, <2>4, <2>7, <3>1
        <4>4. FailAnswer(g).outcome # "open"
          BY <1>2 DEF FailAnswer, PiAnswers
        <4> HIDE DEF k, r, g
        <4>5. SoFar(k, a) = AnswerAt(rs, G, i, d + 1)
          BY <2>6, <4>2, <4>3
        <4> QED
          BY <1>3, <4>2, <4>4, <4>5 DEF Holding
      <3>2. CASE ~(d >= MaxRecord)
        <4>1. ~k.failed /\ k.records = l.records /\ k.remainder = Append(l.remainder, c)
          BY <1>3, <1>6, <2>1, <2>7, <3>2, CharacterIs
        <4>2. SoFar(k, a) = g
          BY <2>3, <4>1 DEF SoFar
        <4>3. ~(d + 1 > MaxRecord)
          BY <1>4, <3>2
        <4>4. SoFar(k, a) = AnswerAt(rs, G, i, d + 1)
          BY <2>6, <4>2, <4>3
        <4>5. /\ Len(k.remainder) = d + 1 /\ k.remainder[d + 1] = r
              /\ \A j \in 1 .. d : k.remainder[j] = l.remainder[j]
          BY <1>2, <2>1, <2>5, <2>7, <4>1, AppendProperties
        <4>6. \A j \in 1 .. d + 1 : j \in 1 .. d \/ j = d + 1
          OBVIOUS
        <4> HIDE DEF k, r
        <4>7. \A j \in 1 .. d + 1 : k.remainder[j] = r
          BY <2>1, <4>5, <4>6
        <4> QED
          BY <1>3, <4>1, <4>4, <4>5, <4>7 DEF Holding, r
      <3> QED
        BY <3>1, <3>2
    <2>8. ASSUME d = Width(r), c = Newline PROVE Holding(X, rs, G, i + 1, 0, k, SoFar(k, a))
      <3>1. d = MaxRecord /\ r.kind # "huge" /\ d # 0 /\ 1 \in 1 .. d
        BY <1>4, <2>4, <2>8
      <3>2. l.remainder # <<>> /\ l.remainder[1] = r
        BY <2>1, <3>1, EmptySeq
      <3>3. ~k.failed /\ k.remainder = <<>> /\ k.records = Append(l.records, r)
        BY <1>3, <2>1, <2>8, <3>2, CharacterIs
      <3>4. ReadRecords(a, k.records) = ReadRecord(f, r)
        BY <1>2, <2>5, <3>3, FurtherRecord
      <3>5. ReadRecord(g, r) = ReadWhole(g, r)
        BY <3>1 DEF ReadWhole
      <3>6. SoFar(k, a) = AnswerAt(rs, G, i + 1, 0)
        BY <1>2, <2>3, <2>6, <3>3, <3>4, <3>5 DEF SoFar
      <3>7. Len(k.remainder) = 0 /\ \A j : j \notin 1 .. 0
        BY <3>3, EmptySeq
      <3> HIDE DEF k
      <3> QED
        BY <1>3, <3>3, <3>6, <3>7 DEF Holding
    <2> QED
      BY <2>7, <2>8 DEF HoldsOn
  <1> QED
    BY <1>7, <1>8

-----------------------------------------------------------------------------
(* PiAnswer: all of the output                                             *)

PiStates(X)       == [lines : PiLines(X), answer : PiAnswers(X)]
ReadAll(chunks)   == FoldLeft(ReadOutput, PiInit, chunks)
TakesChunks(A, B) == PiInit \in A /\ \A r \in A, x \in B : ReadOutput(r, x) \in A

ChunkFoldGoes(A, B, s) ==
    \E G \in [0 .. Len(s) -> A] :
        /\ G[0] = PiInit
        /\ \A i \in 1 .. Len(s) : G[i] = ReadOutput(G[i - 1], s[i])
        /\ ReadAll(s) = G[Len(s)]

\* Chunk by chunk
LEMMA ChunkFold ==
    ASSUME NEW A, NEW B, TakesChunks(A, B), NEW s \in Seq(B)
    PROVE  ChunkFoldGoes(A, B, s)
  <1> DEFINE f == [q \in A \X B |-> ReadOutput(q[1], q[2])]
             Step(H) == [t \in SUBSET DOMAIN s |->
                           IF t = {} THEN PiInit
                           ELSE ReadOutput(H[t \ {Max(t)}], s[Max(t)])]
             F == CHOOSE H : H = Step(H)
  <1>1. ReadAll(s) = F[DOMAIN s]
    BY DEF FoldLeft, MapThenFoldSet, ReadAll
  <1>2. \A r \in A, x \in B : ReadOutput(r, x) \in A
    BY DEF TakesChunks
  <1>3. PiInit \in A
    BY DEF TakesChunks
  <1>4. \A r \in A, x \in B : f[<<r, x>>] = ReadOutput(r, x)
    OBVIOUS
  <1>5. Foldable(A, B, f, PiInit, s)
    BY <1>2, <1>3 DEF Foldable
  <1> HIDE DEF f
  <1>6. Len(s) \in Nat /\ DOMAIN s = 1 .. Len(s) /\ \A i \in 1 .. Len(s) : s[i] \in B
    BY LenProperties, ElementOfSeq
  <1>7. \A t \in SUBSET DOMAIN s :
           t # {} => s[Max(t)] \in B /\ t \ {Max(t)} \in SUBSET DOMAIN s
    BY <1>6, MaxIsIn
  <1>8. HasFold(A, f, PiInit, s)
    BY <1>5, FoldExists
  <1>9. PICK K \in [SUBSET DOMAIN s -> A] : K = Folds(K, f, PiInit, s)
    BY <1>8 DEF HasFold
  <1>10. Step(K) = Folds(K, f, PiInit, s)
    BY <1>4, <1>7 DEF Folds
  <1>11. F = Step(F)
    BY <1>9, <1>10
  <1> HIDE DEF F
  <1>12. F[{}] = PiInit
    BY <1>11
  <1>13. IsFold(F, A, f, PiInit, s)
    <2>1. ASSUME NEW t \in SUBSET DOMAIN s, t # {}, F[t \ {Max(t)}] \in A
          PROVE  F[t] = f[<<F[t \ {Max(t)}], s[Max(t)]>>]
      <3>1. F[t] = ReadOutput(F[t \ {Max(t)}], s[Max(t)])
        BY <1>11, <2>1
      <3>2. s[Max(t)] \in B
        BY <1>7, <2>1
      <3> HIDE DEF Step
      <3> QED
        BY <1>4, <2>1, <3>1, <3>2
    <2> HIDE DEF Step
    <2> QED
      BY <1>12, <2>1 DEF IsFold
  <1>14. GivesAlong(F, A, f, PiInit, s)
    BY <1>5, <1>13, FoldGives
  <1>15. PICK G \in [0 .. Len(s) -> A] : Along(G, f, PiInit, s) /\ F[DOMAIN s] = G[Len(s)]
    BY <1>14 DEF GivesAlong
  <1>16. \A i \in 1 .. Len(s) : G[i - 1] \in A
    <2>1. \A i \in 1 .. Len(s) : i - 1 \in 0 .. Len(s)
      BY <1>6
    <2> QED
      BY <2>1
  <1>17. \A i \in 1 .. Len(s) : G[i] = ReadOutput(G[i - 1], s[i])
    BY <1>4, <1>6, <1>15, <1>16 DEF Along
  <1> QED
    BY <1>1, <1>15, <1>17 DEF Along, ChunkFoldGoes

LEMMA AfreshIs ==
    ASSUME NEW X, Blank(X), NEW l \in PiLines(X), NEW a \in PiAnswers(X)
    PROVE  /\ Afresh(l) \in PiLines(X) /\ Afresh(l).remainder = l.remainder
           /\ Afresh(l).failed = l.failed
           /\ ~l.failed => SoFar(Afresh(l), a) = a
  <1> DEFINE e == <<>>
             k == [l EXCEPT !.records = e]
  <1>1. e \in Seq(PiRecords(X))
    BY EmptySeq
  <1>2. Afresh(l) = k
    BY DEF Afresh
  <1>3. ReadRecords(a, e) = a
    <2>1. <<>> \in Seq(PiRecords(X)) /\ \E r : r \in PiRecords(X)
      <3>1. [kind |-> "other", text |-> ""] \in PiRecords(X)
        BY DEF PiRecords, PiKinds, Blank
      <3> QED
        BY <1>1, <3>1
    <2> QED
      BY <2>1, FurtherRecord
  <1> HIDE DEF e
  <1>4. k \in PiLines(X) /\ k.remainder = l.remainder /\ k.failed = l.failed /\ k.records = e
    BY <1>1 DEF PiLines
  <1> HIDE DEF k
  <1> QED
    BY <1>2, <1>3, <1>4 DEF SoFar

LEMMA SoFarTyped ==
    ASSUME NEW X, Blank(X), NEW l \in PiLines(X), NEW a \in PiAnswers(X)
    PROVE  SoFar(l, a) \in PiAnswers(X)
  <1> DEFINE f == ReadRecords(a, l.records)
  <1>1. [kind |-> "other", text |-> ""] \in PiRecords(X)
    BY DEF PiRecords, PiKinds, Blank
  <1>2. l.records \in Seq(PiRecords(X))
    BY DEF PiLines
  <1>3. f \in PiAnswers(X)
    BY <1>1, <1>2, FurtherRecord
  <1> HIDE DEF f
  <1>4. FailAnswer(f) \in PiAnswers(X)
    BY <1>3 DEF FailAnswer, PiAnswers
  <1> QED
    BY <1>3, <1>4 DEF SoFar, f

LEMMA ReadsCharacters ==
    ASSUME NEW X, Blank(X), NEW l \in PiLines(X), NEW chunk \in Seq(Chars(X))
    PROVE  CharacterFoldGoes(PiLines(X), Chars(X), l, chunk)
  <1>1. TakesCharacters(PiLines(X), Chars(X), l)
    <2>1. Afresh(l) \in PiLines(X)
      <3> DEFINE e == <<>>
      <3>1. e \in Seq(PiRecords(X))
        BY EmptySeq
      <3> HIDE DEF e
      <3>2. [l EXCEPT !.records = e] \in PiLines(X)
        BY <3>1 DEF PiLines
      <3> QED
        BY <3>2 DEF Afresh, e
    <2> QED
      BY <2>1, CharacterIs DEF TakesCharacters
  <1> QED
    BY <1>1, CharacterFold

ReadsOutput(s, chunk) ==
    /\ s.answer.outcome # "open" => ReadOutput(s, chunk) = s
    /\ s.answer.outcome = "open" =>
         /\ ReadOutput(s, chunk).lines = ReadChunk(s.lines, chunk)
         /\ ReadOutput(s, chunk).answer = SoFar(ReadChunk(s.lines, chunk), s.answer)

LEMMA OutputIs ==
    ASSUME NEW X, Blank(X), NEW s \in PiStates(X), NEW chunk \in Seq(Chars(X))
    PROVE  ReadOutput(s, chunk) \in PiStates(X) /\ ReadsOutput(s, chunk)
  <1> DEFINE l == ReadChunk(s.lines, chunk)
             f == ReadRecords(s.answer, l.records)
  <1>1. s.lines \in PiLines(X) /\ s.answer \in PiAnswers(X)
    BY DEF PiStates
  <1>2. CharacterFoldGoes(PiLines(X), Chars(X), s.lines, chunk)
    BY <1>1, ReadsCharacters
  <1>3. l \in PiLines(X)
    <2>1. PICK G \in [0 .. Len(chunk) -> PiLines(X)] : l = G[Len(chunk)]
      BY <1>2 DEF CharacterFoldGoes
    <2>2. Len(chunk) \in 0 .. Len(chunk)
      BY LenProperties
    <2> HIDE DEF l
    <2> QED
      BY <2>1, <2>2
  <1>4. SoFar(l, s.answer) \in PiAnswers(X)
    BY <1>1, <1>3, SoFarTyped
  <1>5. CASE s.answer.outcome # "open"
    BY <1>5 DEF ReadOutput, ReadsOutput
  <1>6. CASE s.answer.outcome = "open"
    <2>1. ReadOutput(s, chunk) =
             [lines |-> l, answer |-> IF l.failed /\ f.outcome = "open"
                                      THEN [f EXCEPT !.outcome = "error"] ELSE f]
      BY <1>6 DEF ReadOutput, ReadRecords
    <2> HIDE DEF l, f
    <2>2. ReadOutput(s, chunk) = [lines |-> l, answer |-> SoFar(l, s.answer)]
      BY <2>1 DEF SoFar, FailAnswer, f
    <2> QED
      BY <1>3, <1>4, <1>6, <2>2 DEF PiStates, ReadsOutput, l
  <1> QED
    BY <1>5, <1>6

\* After t characters
Reading(X, rs, terminated, G, t, l, a) ==
    \E i, d : At(rs, terminated, t, i, d) /\ Holding(X, rs, G, i, d, l, a)

PiGiven(X, rs, terminated, G) ==
    /\ Blank(X) /\ rs \in Seq(PiRecords(X)) /\ terminated \in BOOLEAN /\ AnswersOf(X, rs, G)

LEMMA CharacterRead ==
    ASSUME NEW X, NEW rs, NEW terminated, NEW G, PiGiven(X, rs, terminated, G), NEW t,
           t < Len(PiOutput(rs, terminated)), NEW l, NEW a \in PiAnswers(X),
           Reading(X, rs, terminated, G, t, l, SoFar(l, a))
    PROVE  LET k == ReadCharacter(l, PiOutput(rs, terminated)[t + 1]) IN
           Reading(X, rs, terminated, G, t + 1, k, SoFar(k, a))
  <1> DEFINE c == PiOutput(rs, terminated)[t + 1]
             k == ReadCharacter(l, c)
  <1>1. /\ Blank(X) /\ rs \in Seq(PiRecords(X)) /\ terminated \in BOOLEAN /\ AnswersOf(X, rs, G)
    BY DEF PiGiven
  <1>2. PICK i, d : At(rs, terminated, t, i, d) /\ Holding(X, rs, G, i, d, l, SoFar(l, a))
    BY DEF Reading
  <1>3. Advances(rs, terminated, t, i, d)
    BY <1>1, <1>2, AtStep
  <1>4. i \in 0 .. Len(rs) /\ i < Len(rs) /\ d \in Nat /\ d <= Width(rs[i + 1])
    BY <1>2, <1>3 DEF At, Advances
  <1>5. rs[i + 1] \in PiRecords(X)
    <2>1. i + 1 \in 1 .. Len(rs)
      BY <1>1, <1>4, LenProperties
    <2> QED
      BY <1>1, <2>1, ElementOfSeq
  <1>6. c \in Chars(X)
    BY <1>3, <1>5 DEF Advances, Chars
  <1> HIDE DEF c, k
  <1>7. HoldsOn(X, rs, G, i, d, l, a, c)
    BY <1>1, <1>2, <1>4, <1>6, CharacterHolds
  <1>8. \/ d < Width(rs[i + 1]) /\ c = rs[i + 1] /\ At(rs, terminated, t + 1, i, d + 1)
        \/ d = Width(rs[i + 1]) /\ c = Newline /\ At(rs, terminated, t + 1, i + 1, 0)
    BY <1>3 DEF Advances, c
  <1>9. Reading(X, rs, terminated, G, t + 1, k, SoFar(k, a))
    BY <1>7, <1>8 DEF HoldsOn, Reading, k
  <1> QED
    BY <1>9 DEF k, c

LEMMA DecidedRead ==
    ASSUME NEW X, NEW rs, NEW terminated, NEW G, PiGiven(X, rs, terminated, G), NEW t,
           t < Len(PiOutput(rs, terminated)), NEW l, NEW a, a.outcome # "open",
           Reading(X, rs, terminated, G, t, l, a)
    PROVE  Reading(X, rs, terminated, G, t + 1, l, a)
  <1>1. /\ Blank(X) /\ rs \in Seq(PiRecords(X)) /\ terminated \in BOOLEAN /\ AnswersOf(X, rs, G)
    BY DEF PiGiven
  <1>2. PICK i, d : At(rs, terminated, t, i, d) /\ Holding(X, rs, G, i, d, l, a)
    BY DEF Reading
  <1>3. Advances(rs, terminated, t, i, d)
    BY <1>1, <1>2, AtStep
  <1>4. i \in 0 .. Len(rs) /\ i < Len(rs) /\ d \in Nat
    BY <1>2, <1>3 DEF At, Advances
  <1>5. l \in PiLines(X) /\ a = AnswerAt(rs, G, i, d)
    BY <1>2 DEF Holding
  <1>6. AnswerKept(rs, G, i, d)
    BY <1>1, <1>4, <1>5, AnswerKeeps
  <1>7. \/ d < Width(rs[i + 1]) /\ At(rs, terminated, t + 1, i, d + 1)
        \/ d = Width(rs[i + 1]) /\ At(rs, terminated, t + 1, i + 1, 0)
    BY <1>3 DEF Advances
  <1> QED
    BY <1>5, <1>6, <1>7 DEF Reading, Holding, AnswerKept

\* A chunk
IsNext(rs, terminated, t, chunk) ==
    /\ t \in Nat /\ t + Len(chunk) <= Len(PiOutput(rs, terminated))
    /\ \A j \in 1 .. Len(chunk) : chunk[j] = PiOutput(rs, terminated)[t + j]

LEMMA ChunkRead ==
    ASSUME NEW X, NEW rs, NEW terminated, NEW G, PiGiven(X, rs, terminated, G), NEW t,
           NEW chunk \in Seq(Chars(X)), IsNext(rs, terminated, t, chunk), NEW s \in PiStates(X),
           Reading(X, rs, terminated, G, t, s.lines, s.answer)
    PROVE  Reading(X, rs, terminated, G, t + Len(chunk), ReadOutput(s, chunk).lines,
                   ReadOutput(s, chunk).answer)
  <1> DEFINE n == Len(chunk)
             z == Len(PiOutput(rs, terminated))
             Rd(p, l, a) == Reading(X, rs, terminated, G, p, l, a)
  <1>1. /\ Blank(X) /\ rs \in Seq(PiRecords(X)) /\ terminated \in BOOLEAN /\ AnswersOf(X, rs, G)
    BY DEF PiGiven
  <1>2. s.lines \in PiLines(X) /\ s.answer \in PiAnswers(X)
    BY DEF PiStates
  <1>3. n \in Nat /\ z \in Nat /\ t \in Nat /\ t + n <= z
        /\ \A j \in 1 .. n : chunk[j] = PiOutput(rs, terminated)[t + j]
    BY <1>1, LenProperties, BegunIs DEF IsNext
  <1>4. ReadsOutput(s, chunk)
    BY <1>1, OutputIs
  <1> HIDE DEF n, z, Rd
  <1>5. \A j \in 1 .. n : t + (j - 1) < z /\ (t + (j - 1)) + 1 = t + j /\ j - 1 \in 0 .. n
    BY <1>3
  <1>6. t + 0 = t
    BY <1>3
  <1>7. CASE s.answer.outcome # "open"
    <2> DEFINE T == {j \in 0 .. n : Rd(t + j, s.lines, s.answer)}
    <2>1. 0 \in T
      BY <1>3, <1>6 DEF Rd
    <2>2. ASSUME NEW j \in 1 .. n, j - 1 \in T PROVE j \in T
      <3>1. Rd(t + (j - 1), s.lines, s.answer)
        BY <2>2
      <3>2. Rd((t + (j - 1)) + 1, s.lines, s.answer)
        BY <1>5, <1>7, <3>1, DecidedRead DEF Rd, z
      <3>3. Rd(t + j, s.lines, s.answer) /\ j \in 0 .. n
        BY <1>3, <1>5, <3>2
      <3> QED
        BY <3>3
    <2> HIDE DEF T
    <2>3. \A j \in 0 .. n : j \in T
      BY <1>3, <2>1, <2>2, Reaches
    <2>4. Rd(t + n, s.lines, s.answer)
      <3>1. n \in 0 .. n
        BY <1>3
      <3> QED
        BY <2>3, <3>1 DEF T
    <2> QED
      BY <1>4, <1>7, <2>4 DEF ReadsOutput, Rd, n
  <1>8. CASE s.answer.outcome = "open"
    <2> DEFINE a == s.answer
               l == Afresh(s.lines)
    <2>1. ~s.lines.failed
      BY <1>8 DEF Reading, Holding
    <2>2. /\ l \in PiLines(X) /\ l.remainder = s.lines.remainder
          /\ ~l.failed /\ SoFar(l, a) = a
      BY <1>1, <1>2, <2>1, AfreshIs
    <2> HIDE DEF l
    <2>3. Rd(t, l, SoFar(l, a))
      BY <2>2 DEF Rd, Reading, Holding
    <2>4. CharacterFoldGoes(PiLines(X), Chars(X), s.lines, chunk)
      BY <1>1, <1>2, ReadsCharacters
    <2>5. PICK H \in [0 .. n -> PiLines(X)] :
             /\ H[0] = l
             /\ \A j \in 1 .. n : H[j] = ReadCharacter(H[j - 1], chunk[j])
             /\ ReadChunk(s.lines, chunk) = H[n]
      BY <2>4 DEF CharacterFoldGoes, l, n
    <2> DEFINE T == {j \in 0 .. n : Rd(t + j, H[j], SoFar(H[j], a))}
    <2>6. 0 \in T
      <3>1. Rd(t + 0, H[0], SoFar(H[0], a)) /\ 0 \in 0 .. n
        BY <1>3, <1>6, <2>3, <2>5
      <3> QED
        BY <3>1
    <2>7. ASSUME NEW j \in 1 .. n, j - 1 \in T PROVE j \in T
      <3>1. Rd(t + (j - 1), H[j - 1], SoFar(H[j - 1], a))
        BY <2>7
      <3> DEFINE p == t + (j - 1)
                 k == ReadCharacter(H[j - 1], PiOutput(rs, terminated)[p + 1])
      <3>2. p < z /\ p + 1 = t + j
        BY <1>5
      <3> HIDE DEF p
      <3>3. Rd(p + 1, k, SoFar(k, a))
        <4> HIDE DEF k
        <4>1. Reading(X, rs, terminated, G, p, H[j - 1], SoFar(H[j - 1], a))
          BY <3>1 DEF Rd, p
        <4>2. p < Len(PiOutput(rs, terminated))
          BY <3>2 DEF z
        <4> QED
          BY <1>2, <4>1, <4>2, CharacterRead DEF Rd, k
      <3>4. k = H[j]
        BY <1>3, <2>5, <3>2
      <3> HIDE DEF k
      <3>5. Rd(t + j, H[j], SoFar(H[j], a)) /\ j \in 0 .. n
        BY <1>3, <3>2, <3>3, <3>4
      <3> QED
        BY <3>5
    <2> HIDE DEF T
    <2>8. \A j \in 0 .. n : j \in T
      BY <1>3, <2>6, <2>7, Reaches
    <2>9. Rd(t + n, H[n], SoFar(H[n], a))
      <3>1. n \in 0 .. n
        BY <1>3
      <3> QED
        BY <2>8, <3>1 DEF T
    <2> QED
      BY <1>4, <1>8, <2>5, <2>9 DEF ReadsOutput, Rd, n
  <1> QED
    BY <1>7, <1>8

\* However the output is cut
LEMMA ChunksRead ==
    ASSUME NEW X, NEW rs, NEW terminated, NEW G, PiGiven(X, rs, terminated, G),
           NEW chunks \in Seq(Seq(Chars(X))), FlattenSeq(chunks) = PiOutput(rs, terminated)
    PROVE  /\ ReadAll(chunks) \in PiStates(X)
           /\ Reading(X, rs, terminated, G, Len(PiOutput(rs, terminated)),
                      ReadAll(chunks).lines, ReadAll(chunks).answer)
  <1> DEFINE n == Len(chunks)
             f == PiOutput(rs, terminated)
             O(k) == FlattenSeq(First(chunks, k))
             Rd(t, s) == Reading(X, rs, terminated, G, t, s.lines, s.answer)
  <1>1. /\ Blank(X) /\ rs \in Seq(PiRecords(X)) /\ terminated \in BOOLEAN /\ AnswersOf(X, rs, G)
    BY DEF PiGiven
  <1>2. PiInit.lines \in PiLines(X) /\ PiInit.answer \in PiAnswers(X) /\ PiInit \in PiStates(X)
        /\ ~PiInit.lines.failed /\ PiInit.lines.remainder = <<>>
    <2>1. <<>> \in Seq(PiRecords(X))
      BY EmptySeq
    <2> QED
      BY <1>1, <2>1 DEF PiInit, PiStates, PiLines, PiAnswers, Blank
  <1>3. TakesChunks(PiStates(X), Seq(Chars(X)))
    BY <1>1, <1>2, OutputIs DEF TakesChunks
  <1>4. ChunkFoldGoes(PiStates(X), Seq(Chars(X)), chunks)
    BY <1>3, ChunkFold
  <1>5. PICK H \in [0 .. n -> PiStates(X)] :
           /\ H[0] = PiInit
           /\ \A k \in 1 .. n : H[k] = ReadOutput(H[k - 1], chunks[k])
           /\ ReadAll(chunks) = H[n]
    BY <1>4 DEF ChunkFoldGoes
  <1>6. n \in Nat /\ O(n) = f /\ O(0) = <<>> /\ \A k \in 1 .. n : chunks[k] \in Seq(Chars(X))
    BY LenProperties, FirstGrows, FlattenIs, ElementOfSeq
  <1>7. ASSUME NEW k \in 1 .. n
        PROVE  /\ Len(O(k)) = Len(O(k - 1)) + Len(chunks[k])
               /\ IsNext(rs, terminated, Len(O(k - 1)), chunks[k])
    <2>1. k - 1 \in 0 .. n /\ k \in 0 .. n
      BY <1>6
    <2>2. O(k - 1) \in Seq(Chars(X)) /\ O(k) = O(k - 1) \o chunks[k] /\ chunks[k] \in Seq(Chars(X))
      BY <1>6, <2>1, FlattenIs, FlattenStep
    <2>3. Len(O(k)) <= Len(f)
      <3>1. Len(O(k)) <= Len(FlattenSeq(chunks))
        BY <2>1, FlattenKeeps
      <3> QED
        BY <3>1
    <2>4. ASSUME NEW j \in 1 .. Len(chunks[k]) PROVE f[Len(O(k - 1)) + j] = chunks[k][j]
      <3>1. FlattensAt(chunks, k, j)
        BY FlattenAt
      <3> QED
        BY <3>1 DEF FlattensAt
    <2> HIDE DEF f, O
    <2>5. Len(O(k)) = Len(O(k - 1)) + Len(chunks[k]) /\ Len(O(k - 1)) \in Nat
      BY <2>2, ConcatProperties, LenProperties
    <2> QED
      BY <2>3, <2>4, <2>5 DEF IsNext, f
  <1> HIDE DEF f, O
  <1> DEFINE T == {k \in 0 .. n : Rd(Len(O(k)), H[k])}
  <1>8. 0 \in T
    <2>1. Len(O(0)) = 0 /\ Len(<<>>) = 0
      BY <1>6, EmptySeq
    <2>2. At(rs, terminated, 0, 0, 0)
      <3>1. Begun(rs, terminated, 0) = 0 /\ Len(rs) \in Nat
        BY <1>1, BegunIs
      <3>2. 0 < Len(rs) => 0 <= Width(rs[0 + 1])
        <4> SUFFICES ASSUME 0 < Len(rs) PROVE 0 <= Width(rs[0 + 1])
          OBVIOUS
        <4>1. 0 + 1 \in 1 .. Len(rs)
          BY <3>1
        <4>2. Width(rs[0 + 1]) \in Nat
          BY <1>1, <4>1, LineIs DEF LineHas
        <4> QED
          BY <4>2
      <3> QED
        BY <3>1, <3>2 DEF At
    <2>3. AnswerAt(rs, G, 0, 0) = PiInit.answer
      <3>1. ~(0 > MaxRecord)
        BY RecordAssumption
      <3> QED
        BY <1>1, <3>1 DEF AnswerAt, AnswersOf
    <2>4. \A j : j \notin 1 .. 0
      OBVIOUS
    <2>5. Holding(X, rs, G, 0, 0, PiInit.lines, PiInit.answer)
      BY <1>2, <2>1, <2>3, <2>4 DEF Holding
    <2>6. Rd(0, PiInit)
      BY <2>2, <2>5 DEF Reading
    <2> HIDE DEF Rd
    <2>7. Rd(Len(O(0)), H[0]) /\ 0 \in 0 .. n
      BY <1>5, <1>6, <2>1, <2>6
    <2> QED
      BY <2>7
  <1>9. ASSUME NEW k \in 1 .. n, k - 1 \in T PROVE k \in T
    <2>1. k - 1 \in 0 .. n /\ k \in 0 .. n
      BY <1>6
    <2>2. Rd(Len(O(k - 1)), H[k - 1])
      BY <1>9
    <2>3. H[k - 1] \in PiStates(X)
      BY <1>5, <2>1
    <2>4. Rd(Len(O(k - 1)) + Len(chunks[k]), ReadOutput(H[k - 1], chunks[k]))
      BY <1>6, <1>7, <2>2, <2>3, ChunkRead
    <2> HIDE DEF Rd
    <2>5. Rd(Len(O(k)), H[k])
      BY <1>5, <1>7, <2>4
    <2> QED
      BY <2>1, <2>5
  <1> HIDE DEF T
  <1>10. n \in T
    <2>1. \A k \in 0 .. n : k \in T
      BY <1>6, <1>8, <1>9, Reaches
    <2> QED
      BY <1>6, <2>1
  <1>11. n \in 0 .. n
    BY <1>6
  <1>12. Rd(Len(O(n)), H[n])
    BY <1>10 DEF T
  <1> QED
    BY <1>5, <1>6, <1>11, <1>12 DEF f

\* The newline that process.completed adds
LEMMA NewlineRead ==
    ASSUME NEW X, Blank(X), NEW s \in PiStates(X), s.answer.outcome = "open", ~s.lines.failed
    PROVE  LET k == ReadCharacter(Afresh(s.lines), Newline) IN
           ReadOutput(s, <<Newline>>).answer = SoFar(k, s.answer)
  <1> DEFINE chunk == <<Newline>>
  <1>1. chunk \in Seq(Chars(X)) /\ Len(chunk) = 1 /\ chunk[1] = Newline
    <2>1. Newline \in Chars(X)
      BY DEF Chars
    <2> QED
      BY <2>1
  <1>2. s.lines \in PiLines(X)
    BY DEF PiStates
  <1> HIDE DEF chunk
  <1>3. ReadsOutput(s, chunk)
    BY <1>1, OutputIs
  <1>4. CharacterFoldGoes(PiLines(X), Chars(X), s.lines, chunk)
    BY <1>1, <1>2, ReadsCharacters
  <1>5. PICK H \in [0 .. Len(chunk) -> PiLines(X)] :
           /\ H[0] = Afresh(s.lines)
           /\ \A j \in 1 .. Len(chunk) : H[j] = ReadCharacter(H[j - 1], chunk[j])
           /\ ReadChunk(s.lines, chunk) = H[Len(chunk)]
    BY <1>4 DEF CharacterFoldGoes
  <1>6. 1 \in 1 .. Len(chunk) /\ 1 - 1 = 0
    BY <1>1
  <1>7. H[1] = ReadCharacter(H[1 - 1], chunk[1])
    BY <1>5, <1>6
  <1>8. ReadChunk(s.lines, chunk) = ReadCharacter(Afresh(s.lines), Newline)
    BY <1>1, <1>5, <1>6, <1>7
  <1> QED
    BY <1>3, <1>8 DEF ReadsOutput, chunk

LEMMA CompletedRead ==
    ASSUME NEW X, NEW rs, NEW terminated, NEW G, PiGiven(X, rs, terminated, G),
           NEW s \in PiStates(X),
           Reading(X, rs, terminated, G, Len(PiOutput(rs, terminated)), s.lines, s.answer)
    PROVE  ReadOutput(s, <<Newline>>).answer = G[Len(rs)]
  <1> DEFINE n == Len(rs)
             t == Len(PiOutput(rs, terminated))
             a == s.answer
             l == Afresh(s.lines)
             k == ReadCharacter(l, Newline)
             u == ReadOutput(s, <<Newline>>)
  <1>1. /\ Blank(X) /\ rs \in Seq(PiRecords(X)) /\ terminated \in BOOLEAN /\ AnswersOf(X, rs, G)
    BY DEF PiGiven
  <1>2. s.lines \in PiLines(X) /\ a \in PiAnswers(X)
    BY DEF PiStates
  <1>3. PICK i, d : At(rs, terminated, t, i, d) /\ Holding(X, rs, G, i, d, s.lines, a)
    BY DEF Reading
  <1>4. \/ i = n /\ d = 0
        \/ i + 1 = n /\ i < n /\ d = Width(rs[i + 1])
    BY <1>1, <1>3, AtEnd
  <1>5. i \in 0 .. n /\ d \in Nat /\ (i < n => d <= Width(rs[i + 1]))
    BY <1>3 DEF At
  <1>6. a = AnswerAt(rs, G, i, d)
    BY <1>3 DEF Holding
  <1>7. AnswerAt(rs, G, n, 0) = G[n]
    <2>1. ~(0 > MaxRecord)
      BY RecordAssumption
    <2> QED
      BY <2>1 DEF AnswerAt
  <1>8. CASE a.outcome # "open"
    <2>1. u = s
      BY <1>8 DEF ReadOutput
    <2>2. CASE i = n /\ d = 0
      BY <1>6, <1>7, <2>1, <2>2
    <2>3. CASE i + 1 = n /\ i < n /\ d = Width(rs[i + 1])
      <3>1. AnswerKept(rs, G, i, d)
        BY <1>1, <1>5, <1>6, <1>8, <2>3, AnswerKeeps
      <3>2. AnswerAt(rs, G, i + 1, 0) = a
        BY <1>6, <2>3, <3>1 DEF AnswerKept
      <3> QED
        BY <1>7, <2>1, <2>3, <3>2
    <2> QED
      BY <1>4, <2>2, <2>3
  <1>9. CASE a.outcome = "open"
    <2>1. ~s.lines.failed /\ Len(s.lines.remainder) = d
      BY <1>3, <1>9 DEF Holding
    <2>2. u.answer = SoFar(k, a)
      BY <1>1, <1>9, <2>1, NewlineRead
    <2>3. /\ l \in PiLines(X) /\ l.remainder = s.lines.remainder /\ ~l.failed /\ SoFar(l, a) = a
      BY <1>1, <1>2, <2>1, AfreshIs
    <2> HIDE DEF u, l
    <2>4. CASE i = n /\ d = 0
      <3>1. l.remainder = <<>>
        <4>1. l.remainder \in Seq(PiRecords(X)) /\ Len(l.remainder) = 0
          BY <2>1, <2>3, <2>4 DEF PiLines
        <4> QED
          BY <4>1, EmptySeq
      <3>2. k = l
        BY <2>3, <3>1 DEF ReadCharacter
      <3> QED
        BY <1>6, <1>7, <2>2, <2>3, <2>4, <3>2 DEF u
    <2>5. CASE i + 1 = n /\ i < n /\ d = Width(rs[i + 1])
      <3>1. Holding(X, rs, G, i, d, l, SoFar(l, a))
        BY <1>3, <2>3 DEF Holding
      <3>2. Newline \in Chars(X)
        BY DEF Chars
      <3>3. HoldsOn(X, rs, G, i, d, l, a, Newline)
        BY <1>1, <1>2, <1>5, <2>5, <3>1, <3>2, CharacterHolds
      <3>4. Holding(X, rs, G, i + 1, 0, k, SoFar(k, a))
        BY <2>5, <3>3 DEF HoldsOn
      <3>5. SoFar(k, a) = AnswerAt(rs, G, i + 1, 0)
        BY <3>4 DEF Holding
      <3> QED
        BY <1>7, <2>2, <2>5, <3>5 DEF u
    <2> QED
      BY <1>4, <2>4, <2>5
  <1> QED
    BY <1>8, <1>9

\* What is not there to be read without a newline
LEMMA CutShortRead ==
    ASSUME NEW X, NEW rs, NEW terminated, NEW G, PiGiven(X, rs, terminated, G),
           NEW s \in PiStates(X),
           Reading(X, rs, terminated, G, Len(PiOutput(rs, terminated)), s.lines, s.answer)
    PROVE  s.answer = IF terminated \/ Len(rs) = 0 \/ rs[Len(rs)].kind = "huge"
                      THEN G[Len(rs)] ELSE G[Len(rs) - 1]
  <1> DEFINE n == Len(rs)
             t == Len(PiOutput(rs, terminated))
             a == s.answer
  <1>1. /\ Blank(X) /\ rs \in Seq(PiRecords(X)) /\ terminated \in BOOLEAN /\ AnswersOf(X, rs, G)
    BY DEF PiGiven
  <1>2. PICK i, d : At(rs, terminated, t, i, d) /\ Holding(X, rs, G, i, d, s.lines, a)
    BY DEF Reading
  <1>3. \/ i = n /\ d = 0 /\ (terminated \/ n = 0)
        \/ i + 1 = n /\ i < n /\ d = Width(rs[i + 1]) /\ ~terminated /\ n # 0
    BY <1>1, <1>2, AtEnd
  <1>4. i \in 0 .. n /\ d \in Nat /\ n \in Nat
    BY <1>1, <1>2, LenProperties DEF At
  <1>5. a = AnswerAt(rs, G, i, d)
    BY <1>2 DEF Holding
  <1>6. MaxRecord \in Nat
    BY RecordAssumption
  <1>7. CASE i = n /\ d = 0 /\ (terminated \/ n = 0)
    BY <1>4, <1>5, <1>7 DEF AnswerAt
  <1>8. CASE i + 1 = n /\ i < n /\ d = Width(rs[i + 1]) /\ ~terminated /\ n # 0
    <2>1. i = n - 1
      BY <1>4, <1>8
    <2>2. CASE rs[n].kind = "huge"
      <3>1. a = FailAnswer(G[i])
        <4>1. d = MaxRecord + 1
          BY <1>8, <2>2 DEF Width
        <4>2. d > MaxRecord
          BY <1>6, <4>1
        <4> QED
          BY <1>5, <1>8, <2>2, <4>2 DEF AnswerAt
      <3>2. n \in 1 .. n
        BY <1>4, <1>8
      <3>3. G[n] = ReadWhole(G[n - 1], rs[n])
        BY <1>1, <3>2 DEF AnswersOf
      <3>4. G[n] = FailAnswer(G[i])
        BY <2>1, <2>2, <3>3 DEF ReadWhole
      <3> QED
        BY <2>2, <3>1, <3>4
    <2>3. CASE rs[n].kind # "huge"
      <3>1. a = G[i]
        BY <1>5, <1>8, <2>3 DEF AnswerAt
      <3> QED
        BY <1>8, <2>1, <2>3, <3>1
    <2> QED
      BY <2>2, <2>3
  <1> QED
    BY <1>3, <1>7, <1>8

\* However the output of Pi is cut into chunks, and whatever its records: the reply of a Run is
\* the text of the last assistant message before Pi settles, if that message ended well and a
\* Pi that still ran then could be terminated (pi-runtime.ts, json-lines.ts).
THEOREM PiAnswerCorrect ==
    ASSUME NEW X, Blank(X), NEW rs \in Seq(PiRecords(X)), NEW terminated \in BOOLEAN,
           NEW completed \in BOOLEAN, NEW terminates \in BOOLEAN,
           NEW chunks \in Seq(Seq(Chars(X))), FlattenSeq(chunks) = PiOutput(rs, terminated)
    PROVE  PiAnswerAgrees(rs, terminated, chunks, completed, terminates)
  <1> DEFINE n      == Len(rs)
             seen   == IF terminated \/ completed THEN n ELSE n - 1
             s      == ReadAll(chunks)
             t      == IF completed THEN ReadOutput(s, <<Newline>>) ELSE s
             m      == IF terminated \/ completed \/ n = 0 \/ rs[n].kind = "huge" THEN n ELSE n - 1
             decide == {i \in 1 .. n :
                          \/ rs[i].kind = "huge"
                          \/ i <= seen /\ rs[i].kind \in {"settled", "rejected", "invalid"}}
             first  == CHOOSE i \in decide : \A j \in decide : i <= j
             turns  == {i \in 1 .. first : rs[i].kind \in {"start", "end", "toolUse"}}
             latest == CHOOSE i \in turns : \A j \in turns : j <= i
             answered == /\ decide # {} /\ rs[first].kind = "settled"
                         /\ turns # {} /\ rs[latest].kind = "end"
  <1>1. PICK G : AnswersOf(X, rs, G)
    BY AnswersExist
  <1>2. PiGiven(X, rs, terminated, G)
    BY <1>1 DEF PiGiven
  <1>3. /\ s \in PiStates(X)
        /\ Reading(X, rs, terminated, G, Len(PiOutput(rs, terminated)), s.lines, s.answer)
    BY <1>2, ChunksRead
  <1>4. n \in Nat
    BY LenProperties
  <1> HIDE DEF s
  <1>5. m \in 0 .. n /\ (m = n \/ (m = n - 1 /\ n # 0))
    <2>1. m = n \/ (m = n - 1 /\ n # 0)
      OBVIOUS
    <2> HIDE DEF m, n
    <2> QED
      BY <1>4, <2>1
  <1>6. t.answer = G[m]
    <2>1. CASE completed
      BY <1>2, <1>3, <2>1, CompletedRead
    <2>2. CASE ~completed
      BY <1>2, <1>3, <2>2, CutShortRead
    <2> QED
      BY <2>1, <2>2
  <1>7. decide = Deciding(rs, m)
    <2>1. \A i \in 1 .. n : i <= n /\ (i <= n - 1 <=> i # n) /\ i \in Nat
      BY <1>4
    <2>2. CASE terminated \/ completed
      BY <2>1, <2>2 DEF Deciding
    <2>3. CASE ~(terminated \/ completed) /\ n = 0
      <3>1. \A i : i \notin 1 .. 0
        OBVIOUS
      <3> QED
        BY <2>3, <3>1 DEF Deciding
    <2>4. CASE ~(terminated \/ completed) /\ n # 0 /\ rs[n].kind = "huge"
      <3>1. m = n /\ seen = n - 1
        BY <2>4
      <3> HIDE DEF m, seen
      <3>2. \A i \in 1 .. n :
               (\/ rs[i].kind = "huge"
                \/ i <= seen /\ rs[i].kind \in {"settled", "rejected", "invalid"})
                 <=> rs[i].kind \in {"huge", "settled", "rejected", "invalid"}
        BY <2>1, <2>4, <3>1
      <3> QED
        BY <3>1, <3>2 DEF Deciding
    <2>5. CASE ~(terminated \/ completed) /\ n # 0 /\ rs[n].kind # "huge"
      <3>1. m = n - 1 /\ seen = n - 1 /\ \A i : i \in 1 .. n - 1 <=> i \in 1 .. n /\ i # n
        BY <1>4, <2>5
      <3> HIDE DEF m, seen
      <3> QED
        BY <2>1, <2>5, <3>1 DEF Deciding
    <2> QED
      BY <2>2, <2>3, <2>4, <2>5
  <1> DEFINE a == G[m]
  <1>8. Told(rs, m, a)
    BY <1>1, <1>5, AnswersTell
  <1>9. a \in PiAnswers(X)
    BY <1>1, <1>5 DEF AnswersOf
  <1> HIDE DEF m, decide, seen
  <1>10. a.outcome \in {"open", "answer", "error"}
    BY <1>9 DEF PiAnswers
  <1> HIDE DEF a
  <1>11. CASE a.outcome = "open"
    <2>1. decide = {}
      BY <1>7, <1>8, <1>11 DEF Told, Undecided
    <2>2. PiEvents(chunks, completed, terminates) =
             IF completed THEN Record("exited", "") ELSE Record("error", "")
      BY <1>6, <1>11 DEF PiEvents, s, ReadAll, a
    <2> QED
      BY <2>1, <2>2 DEF PiAnswerAgrees, decide, seen
  <1>12. CASE a.outcome # "open"
    <2>1. PICK f : DecidedAt(rs, m, f, a)
      BY <1>8, <1>12 DEF Told
    <2>2. f \in decide /\ \A j \in decide : f <= j
      BY <1>7, <2>1 DEF DecidedAt
    <2>3. first = f
      <3>1. first \in decide /\ \A j \in decide : first <= j
        BY <2>2
      <3>2. \A i \in decide : i \in Nat
        BY <1>4 DEF decide
      <3> HIDE DEF first
      <3>3. f \in Nat /\ first \in Nat /\ first <= f /\ f <= first
        BY <2>2, <3>1, <3>2
      <3> QED
        BY <3>3
    <2> HIDE DEF first
    <2>4. turns = TurnsTo(rs, f)
      BY <2>3 DEF TurnsTo
    <2>5. ASSUME NEW u, LatestTurn(rs, f, u) PROVE turns # {} /\ latest = u
      <3>1. u \in turns /\ \A j \in turns : j <= u
        BY <2>4, <2>5 DEF LatestTurn
      <3>2. latest \in turns /\ \A j \in turns : j <= latest
        BY <3>1
      <3>3. \A i \in turns : i \in Nat
        BY <2>4 DEF TurnsTo
      <3> HIDE DEF latest, turns
      <3>4. u \in Nat /\ latest \in Nat /\ u <= latest /\ latest <= u
        BY <3>1, <3>2, <3>3
      <3> QED
        BY <3>1, <3>4
    <2>6. ASSUME turns # {} PROVE LatestTurn(rs, f, latest)
      <3>1. f \in Nat /\ turns \subseteq 1 .. f
        BY <1>4, <2>2, <2>3 DEF decide
      <3> DEFINE b == Max(turns)
      <3> HIDE DEF turns
      <3>2. b \in turns /\ \A i \in turns : i <= b
        BY <2>6, <3>1, MaxIsIn
      <3> HIDE DEF b
      <3>3. LatestTurn(rs, f, b)
        BY <2>4, <3>2 DEF LatestTurn
      <3>4. latest = b
        BY <2>5, <3>3
      <3> QED
        BY <3>3, <3>4
    <2> HIDE DEF latest, turns
    <2>7. CASE a.outcome = "answer"
      <3>1. rs[f].kind = "settled" /\ EndsWith(rs, f, a.finalText)
        BY <2>1, <2>7 DEF DecidedAt
      <3>2. PICK u : LatestTurn(rs, f, u) /\ rs[u].kind = "end" /\ rs[u].text = a.finalText
        BY <3>1 DEF EndsWith
      <3>3. turns # {} /\ latest = u
        BY <2>5, <3>2
      <3>4. answered /\ rs[latest].text = a.finalText
        BY <2>2, <2>3, <3>1, <3>2, <3>3
      <3>5. PiEvents(chunks, completed, terminates) =
               IF terminates THEN Record("completed", a.finalText) ELSE Record("error", "")
        BY <1>6, <2>7 DEF PiEvents, s, ReadAll, a
      <3>6. decide # {}
        BY <2>2
      <3> QED
        BY <3>4, <3>5, <3>6 DEF PiAnswerAgrees, decide, seen, first, turns, latest
    <2>8. CASE a.outcome = "error"
      <3>1. ~answered
        <4> SUFFICES ASSUME answered PROVE FALSE
          OBVIOUS
        <4>1. EndsOtherwise(rs, f)
          BY <2>1, <2>3, <2>8 DEF DecidedAt
        <4>2. LatestTurn(rs, f, latest)
          BY <2>6
        <4> QED
          BY <4>1, <4>2 DEF EndsOtherwise
      <3>2. PiEvents(chunks, completed, terminates) = Record("error", "")
        BY <1>6, <2>8 DEF PiEvents, s, ReadAll, a
      <3>3. decide # {}
        BY <2>2
      <3> QED
        BY <3>1, <3>2, <3>3 DEF PiAnswerAgrees, decide, seen, first, turns, latest
    <2> QED
      BY <1>10, <1>12, <2>7, <2>8
  <1> QED
    BY <1>11, <1>12

-----------------------------------------------------------------------------
(* The samples                                                             *)

Agrees(s) ==
    /\ s.of = "pi" => PiAnswerAgrees(s.records, s.terminated, s.chunks, s.completed,
                                     s.terminates)
    /\ s.of = "context" => ContextAgrees(s.messages)
    /\ s.of = "changes" => ChangesAgree(s.statuses, s.cut, s.exit)
    /\ s.of = "conversation" => ConversationAgrees(s.messages)
    /\ s.of = "path" => PathsAgree(s.tree, s.segments)
    /\ s.of = "body" => BodyAgrees(s.declared, s.chunks, s.end, s.decodes, s.wrong, s.messages)
    /\ s.of = "usage" => UsageAgrees(s.events, s.cut)
    /\ s.of = "answer" => AnswerAgrees(s.upstream, s.parts, s.end, s.raw, s.finish, s.tools)
    /\ s.of = "tools" => ToolsAgree(s.tools, s.choice, s.sequential)
    /\ s.of = "capability" => CapabilityAgrees(s.input, s.instant, s.run)
    /\ s.of = "link" => UrlsAgree(s.answer)

\* A sample is a sequence of what its elements are among.
LEMMA SampleIs ==
    ASSUME NEW bound \in Nat, NEW n \in 0 .. bound, NEW S, NEW W, S \subseteq W,
           NEW s \in [1 .. n -> S]
    PROVE  s \in Seq(W) /\ Len(s) = n /\ \A i \in 1 .. n : s[i] \in S
  <1>1. n \in Nat /\ s \in [1 .. n -> W]
    OBVIOUS
  <1>2. s \in Seq(W)
    BY <1>1
  <1>3. Len(s) = n
    BY <1>1, <1>2, LenProperties
  <1> QED
    BY <1>2, <1>3

\* A text is its first part and the rest of it.
LEMMA InTwo ==
    ASSUME NEW A, NEW s \in Seq(A), NEW cut \in 0 .. Len(s)
    PROVE  LET two == <<SubSeq(s, 1, cut), SubSeq(s, cut + 1, Len(s))>>
           IN  two \in Seq(Seq(A)) /\ FlattenSeq(two) = s
  <1> DEFINE u == SubSeq(s, 1, cut)
             v == SubSeq(s, cut + 1, Len(s))
             two == <<u, v>>
  <1>1. Len(s) \in Nat /\ DOMAIN s = 1 .. Len(s) /\ cut \in Nat
    BY LenProperties
  <1>2. /\ u \in Seq(A) /\ Len(u) = cut /\ \A i \in 1 .. cut : u[i] = s[i]
        /\ v \in Seq(A) /\ Len(v) = Len(s) - cut
        /\ \A i \in 1 .. Len(s) - cut : v[i] = s[cut + i]
    <2>1. /\ 1 \in 1 .. Len(s) + 1 /\ cut \in 1 - 1 .. Len(s)
          /\ cut + 1 \in 1 .. Len(s) + 1 /\ Len(s) \in cut + 1 - 1 .. Len(s)
      BY <1>1
    <2>2. /\ u \in Seq(A) /\ Len(u) = cut - 1 + 1 /\ \A i \in 1 .. cut - 1 + 1 : u[i] = s[1 + i - 1]
      BY <2>1, PartIs
    <2>3. /\ v \in Seq(A) /\ Len(v) = Len(s) - (cut + 1) + 1
          /\ \A i \in 1 .. Len(s) - (cut + 1) + 1 : v[i] = s[(cut + 1) + i - 1]
      BY <2>1, PartIs
    <2>4. /\ cut - 1 + 1 = cut /\ Len(s) - (cut + 1) + 1 = Len(s) - cut
          /\ \A i \in 1 .. cut : 1 + i - 1 = i
          /\ \A i \in 1 .. Len(s) - cut : (cut + 1) + i - 1 = cut + i
      BY <1>1
    <2> HIDE DEF u, v
    <2> QED
      BY <2>2, <2>3, <2>4
  <1> HIDE DEF u, v
  <1>3. u \o v = s
    <2>1. /\ u \o v \in Seq(A) /\ Len(u \o v) = Len(u) + Len(v)
          /\ \A i \in 1 .. Len(u) + Len(v) :
                (u \o v)[i] = IF i <= Len(u) THEN u[i] ELSE v[i - Len(u)]
      BY <1>2, ConcatProperties
    <2>2. Len(u \o v) = Len(s)
      BY <1>1, <1>2, <2>1
    <2>3. ASSUME NEW i \in 1 .. Len(s) PROVE (u \o v)[i] = s[i]
      <3>1. /\ i <= cut => i \in 1 .. cut
            /\ ~(i <= cut) => i - cut \in 1 .. Len(s) - cut /\ cut + (i - cut) = i
            /\ cut + (Len(s) - cut) = Len(s)
        BY <1>1
      <3> QED
        BY <1>1, <1>2, <2>1, <3>1
    <2> QED
      BY <2>1, <2>2, <2>3, SeqEqual
  <1>4. two \in Seq(Seq(A)) /\ Len(two) = 2 /\ two[1] = u /\ two[2] = v
    BY <1>2
  <1> HIDE DEF two
  <1>5. /\ First(two, 0) = <<>> /\ First(two, Len(two)) = two
        /\ FlattenSeq(First(two, 0)) = <<>>
    BY <1>4, FirstGrows, FlattenIs
  <1>6. FlattenSeq(First(two, 1)) = <<>> \o u
    <2>1. 1 \in 1 .. Len(two) /\ 1 - 1 = 0
      BY <1>4
    <2> QED
      BY <1>4, <1>5, <2>1, FlattenStep
  <1>7. FlattenSeq(First(two, 2)) = FlattenSeq(First(two, 1)) \o v
    <2>1. 2 \in 1 .. Len(two) /\ 2 - 1 = 1
      BY <1>4
    <2> QED
      BY <1>4, <2>1, FlattenStep
  <1>8. <<>> \o u = u
    BY <1>2, ConcatEmptySeq
  <1> QED
    BY <1>3, <1>4, <1>5, <1>6, <1>7, <1>8 DEF two, u, v

LEMMA PiSamples == TakePi => Agrees(sample')
  <1> SUFFICES ASSUME TakePi PROVE Agrees(sample')
    OBVIOUS
  <1> DEFINE X == {"", "a", "b"}
  <1> DEFINE Given(rs, terminated, completed, terminates, cut) ==
               [of |-> "pi", records |-> rs, terminated |-> terminated,
                chunks |-> <<SubSeq(PiOutput(rs, terminated), 1, cut),
                             SubSeq(PiOutput(rs, terminated), cut + 1,
                                    Len(PiOutput(rs, terminated)))>>,
                completed |-> completed, terminates |-> terminates]
  <1>0. PICK n \in 0 .. MaxRecords, terminated \in BOOLEAN, completed \in BOOLEAN,
             terminates \in BOOLEAN :
          \E rs \in [1 .. n -> SampleRecords] :
            \E cut \in 0 .. Len(PiOutput(rs, terminated)) :
              sample' = Given(rs, terminated, completed, terminates, cut)
    BY ZenonT(60) DEF TakePi
  <1>1. PICK rs \in [1 .. n -> SampleRecords] :
          \E cut \in 0 .. Len(PiOutput(rs, terminated)) :
            sample' = Given(rs, terminated, completed, terminates, cut)
    BY <1>0
  <1>cut. PICK cut \in 0 .. Len(PiOutput(rs, terminated)) :
            sample' = Given(rs, terminated, completed, terminates, cut)
    BY <1>1
  <1>2. ASSUME NEW r \in SampleRecords PROVE r \in PiRecords(X)
    <2>1. PICK kind, text : r = [kind |-> kind, text |-> text] /\ kind \in PiKinds /\ text \in X
      BY DEF SampleRecords, PiKinds, Record
    <2> QED
      BY <2>1 DEF PiRecords
  <1>3. rs \in Seq(PiRecords(X))
    <2>1. MaxRecords \in Nat /\ SampleRecords \subseteq PiRecords(X)
      BY <1>2, SamplesAssumption
    <2> HIDE DEF X
    <2> QED
      BY <1>1, <2>1, SampleIs
  <1>4. Blank(X)
    BY DEF Blank
  <1> HIDE DEF X
  <1> DEFINE output == PiOutput(rs, terminated)
             chunks == <<SubSeq(output, 1, cut), SubSeq(output, cut + 1, Len(output))>>
  <1>5. output \in Seq(Chars(X))
    <2>1. Lines(rs, terminated) \in Seq(Seq(Chars(X))) /\ output = FlattenSeq(Lines(rs, terminated))
      BY <1>1, <1>3, LinesAre
    <2>2. Len(Lines(rs, terminated)) \in 0 .. Len(Lines(rs, terminated))
      BY <2>1, LenProperties
    <2> QED
      BY <2>1, <2>2, FlattenIs, FirstGrows
  <1>6. chunks \in Seq(Seq(Chars(X))) /\ FlattenSeq(chunks) = output
    BY <1>1, <1>5, InTwo
  <1> HIDE DEF chunks
  <1>7. PiAnswerAgrees(rs, terminated, chunks, completed, terminates)
    BY <1>1, <1>3, <1>4, <1>6, PiAnswerCorrect
  <1>8. sample' = [of |-> "pi", records |-> rs, terminated |-> terminated,
                   chunks |-> chunks, completed |-> completed, terminates |-> terminates]
    BY <1>cut DEF chunks
  <1> QED
    BY <1>7, <1>8 DEF Agrees

LEMMA ContextSamples == TakeContext => Agrees(sample')
  <1> SUFFICES ASSUME TakeContext PROVE Agrees(sample')
    OBVIOUS
  <1> DEFINE S == [role : {"user", "assistant"}, size : {0, 3, MaxHistoryBytes + 2}]
  <1>1. PICK n, ms : /\ n \in 0 .. MaxHistory /\ ms \in [1 .. n -> S]
                     /\ sample' = [of |-> "context", messages |-> ms]
    BY Zenon DEF TakeContext
  <1>2. S \subseteq Messages /\ MaxHistory \in Nat
    BY ContextAssumption, SamplesAssumption DEF Messages
  <1> HIDE DEF S
  <1>3. ms \in Seq(Messages)
    BY <1>1, <1>2, SampleIs
  <1> QED
    BY <1>1, <1>3, ContextCorrect DEF Agrees

LEMMA StatusSamples == TakeStatus => Agrees(sample')
  <1> SUFFICES ASSUME TakeStatus PROVE Agrees(sample')
    OBVIOUS
  <1> DEFINE Takes(ss, cut, exit) ==
                sample' = [of |-> "changes", statuses |-> ss, cut |-> cut, exit |-> exit]
  <1>1. PICK n, ss, cut, exit :
           /\ n \in 0 .. MaxStatuses /\ ss \in [1 .. n -> GitStatuses]
           /\ cut \in 0 .. Len(StatusOutput(ss)) /\ exit \in {0, 128, 141}
           /\ Takes(ss, cut, exit)
    <2>1. \E n \in 0 .. MaxStatuses : \E ss \in [1 .. n -> GitStatuses] :
          \E cut \in 0 .. Len(StatusOutput(ss)) : \E exit \in {0, 128, 141} : Takes(ss, cut, exit)
      BY Zenon DEF TakeStatus
    <2> HIDE DEF Takes
    <2> QED
      BY <2>1
  <1>2. ss \in Seq(GitStatuses)
    BY <1>1, SampleIs, SamplesAssumption
  <1>3. ChangesAgree(ss, cut, exit)
    BY <1>1, <1>2, GitChangesCorrect
  <1> QED
    BY <1>1, <1>3 DEF Agrees

LEMMA ConversationSamples == TakeConversation => Agrees(sample')
  <1> SUFFICES ASSUME TakeConversation PROVE Agrees(sample')
    OBVIOUS
  <1> DEFINE I == {0, 1, 2}
             N == {"n1", "n2"}
  <1>1. PICK n, ms : /\ n \in 0 .. MaxTurns /\ ms \in [1 .. n -> SampleTurns]
                     /\ sample' = [of |-> "conversation", messages |-> ms]
    BY Zenon DEF TakeConversation
  <1>2. ASSUME NEW t \in SampleTurns
        PROVE  t \in Turns(I, N) /\ (t.role # "assistant" => t.calls = <<>>)
    <2> DEFINE Calls == {<<>>} \cup {<<c>> : c \in SampleCalls}
                          \cup {<<[id |-> 1, name |-> "n1"], [id |-> i, name |-> "n2"]>> :
                                  i \in {1, 2}}
    <2>1. <<>> \in Seq(ConvCalls(I, N)) /\ SampleCalls \subseteq ConvCalls(I, N)
      BY EmptySeq DEF SampleCalls, ConvCalls
    <2>2. ASSUME NEW i \in {1, 2}
          PROVE  /\ [id |-> 1, name |-> "n1"] \in ConvCalls(I, N)
                 /\ [id |-> i, name |-> "n2"] \in ConvCalls(I, N)
      BY DEF ConvCalls
    <2> HIDE DEF I, N
    <2>3. \A s \in Calls : s \in Seq(ConvCalls(I, N))
      <3>1. ASSUME NEW c \in SampleCalls PROVE <<c>> \in Seq(ConvCalls(I, N))
        BY <2>1
      <3>2. ASSUME NEW i \in {1, 2}
            PROVE  <<[id |-> 1, name |-> "n1"], [id |-> i, name |-> "n2"]>> \in Seq(ConvCalls(I, N))
        <4> DEFINE c == [id |-> 1, name |-> "n1"]
                   d == [id |-> i, name |-> "n2"]
        <4>1. c \in ConvCalls(I, N) /\ d \in ConvCalls(I, N)
          BY <2>2
        <4> HIDE DEF c, d
        <4>2. <<c, d>> \in Seq(ConvCalls(I, N))
          BY <4>1
        <4> QED
          BY <4>2 DEF c, d
      <3> QED
        BY <2>1, <3>1, <3>2, Zenon
    <2>4. /\ 0 \in I /\ \A i \in {1, 2} : i \in I
      BY DEF I
    <2>5. CASE t \in [role : {"system", "user"}, content : {"text"}, calls : {<<>>}, answers : {0}]
      BY <2>1, <2>4, <2>5 DEF Turns
    <2>6. CASE t \in [role : {"user"}, content : {"media"}, calls : {<<>>}, answers : {0}]
      BY <2>1, <2>4, <2>6 DEF Turns
    <2>7. CASE t \in [role : {"tool"}, content : {"text"}, calls : {<<>>}, answers : {1, 2}]
      BY <2>1, <2>4, <2>7 DEF Turns
    <2>8. CASE t \in [role : {"assistant"}, content : {"text"}, answers : {0}, calls : Calls]
      <3> HIDE DEF Calls
      <3> QED
        BY <2>3, <2>4, <2>8 DEF Turns
    <2> QED
      BY <2>5, <2>6, <2>7, <2>8 DEF SampleTurns
  <1> HIDE DEF I, N
  <1>3. /\ ms \in Seq(Turns(I, N))
        /\ \A i \in 1 .. Len(ms) : ms[i].role # "assistant" => ms[i].calls = <<>>
    <2>1. SampleTurns \subseteq Turns(I, N) /\ MaxTurns \in Nat
      BY <1>2, SamplesAssumption
    <2>2. ms \in Seq(Turns(I, N)) /\ Len(ms) = n /\ \A i \in 1 .. n : ms[i] \in SampleTurns
      BY <1>1, <2>1, SampleIs
    <2> QED
      BY <1>2, <2>2
  <1>4. ConversationAgrees(ms)
    BY <1>3, ConversationCorrect
  <1> QED
    BY <1>1, <1>4 DEF Agrees

LEMMA PathSamples == TakePath => Agrees(sample')
  <1> SUFFICES ASSUME TakePath PROVE Agrees(sample')
    OBVIOUS
  <1> DEFINE N == EntryNames \cup {".."}
             All(a, b, aa, ab, git) ==
                {[path |-> <<"a">>, kind |-> a], [path |-> <<"b">>, kind |-> b],
                 [path |-> <<".git">>, kind |-> git],
                 [path |-> <<"a", "a">>, kind |-> aa], [path |-> <<"a", "b">>, kind |-> ab]}
             Kinds == EntryKinds \cup {"absent"}
  <1> DEFINE Takes(a, b, aa, ab, git, segments) ==
                sample' = [of |-> "path", segments |-> segments,
                           tree |-> {e \in All(a, b, aa, ab, git) : e.kind # "absent"}]
  <1>1. PICK a, b, aa, ab, git, n, segments :
           /\ a \in Kinds /\ b \in Kinds /\ aa \in Kinds /\ ab \in Kinds /\ git \in Kinds
           /\ n \in 0 .. MaxPathDepth + 1 /\ segments \in [1 .. n -> {"a", "b", ".."}]
           /\ Takes(a, b, aa, ab, git, segments)
    <2> DEFINE Open(a, aa, ab) == a \in {"absent", "file"} => aa = "absent" /\ ab = "absent"
    <2>1. \E a, b, aa, ab \in Kinds, git \in {"absent", "directory"} :
          \E n \in 0 .. MaxPathDepth + 1 : \E segments \in [1 .. n -> {"a", "b", ".."}] :
             Open(a, aa, ab) /\ Takes(a, b, aa, ab, git, segments)
      BY Zenon DEF TakePath
    <2>2. \A k \in {"absent", "directory"} : k \in Kinds
      BY DEF EntryKinds
    <2> HIDE DEF Takes, Kinds, Open
    <2> QED
      BY <2>1, <2>2
  <1> DEFINE all == All(a, b, aa, ab, git)
             tree == {e \in all : e.kind # "absent"}
  <1>2. segments \in Seq(N)
    <2>1. {"a", "b", ".."} \subseteq N /\ MaxPathDepth + 1 \in Nat
      BY SamplesAssumption
    <2> HIDE DEF N
    <2> QED
      BY <1>1, <2>1, SampleIs
  <1>3. Workspace(tree)
    <2>1. \A e \in all : e \in [path : Seq(EntryNames), kind : Kinds] /\ e.path # <<>>
      <3>1. "a" \in EntryNames /\ "b" \in EntryNames /\ ".git" \in EntryNames
        BY SamplesAssumption
      <3>2. /\ <<"a">> \in Seq(EntryNames) /\ <<"b">> \in Seq(EntryNames)
            /\ <<".git">> \in Seq(EntryNames) /\ <<"a", "a">> \in Seq(EntryNames)
            /\ <<"a", "b">> \in Seq(EntryNames)
        BY <3>1
      <3>3. /\ <<"a">> # <<>> /\ <<"b">> # <<>> /\ <<".git">> # <<>>
            /\ <<"a", "a">> # <<>> /\ <<"a", "b">> # <<>>
        OBVIOUS
      <3> HIDE DEF Kinds
      <3> DEFINE p == <<"a">>
                 q == <<"b">>
                 r == <<".git">>
                 u == <<"a", "a">>
                 v == <<"a", "b">>
      <3>5. all = {[path |-> p, kind |-> a], [path |-> q, kind |-> b], [path |-> r, kind |-> git],
                   [path |-> u, kind |-> aa], [path |-> v, kind |-> ab]}
        OBVIOUS
      <3> HIDE DEF all
      <3>6. {p, q, r, u, v} \subseteq Seq(EntryNames) /\ <<>> \notin {p, q, r, u, v}
        BY <3>2, <3>3
      <3> HIDE DEF p, q, r, u, v
      <3> QED
        BY <1>1, <3>5, <3>6
    <2>2. \A e, f \in all : e.path = f.path => e = f
      <3>1. /\ <<"a">> # <<"b">> /\ <<"a">> # <<".git">> /\ <<"b">> # <<".git">>
            /\ <<"a", "a">> # <<"a", "b">>
            /\ \A x, y, z : <<x, y>> # <<z>>
        OBVIOUS
      <3> DEFINE p == <<"a">>
                 q == <<"b">>
                 r == <<".git">>
                 u == <<"a", "a">>
                 v == <<"a", "b">>
      <3>2. /\ p # q /\ p # r /\ p # u /\ p # v /\ q # r /\ q # u /\ q # v
            /\ r # u /\ r # v /\ u # v
        BY <3>1
      <3>3. all = {[path |-> p, kind |-> a], [path |-> q, kind |-> b], [path |-> r, kind |-> git],
                   [path |-> u, kind |-> aa], [path |-> v, kind |-> ab]}
        OBVIOUS
      <3> HIDE DEF all, p, q, r, u, v
      <3> QED
        BY <3>2, <3>3
    <2>3. IsFiniteSet(tree)
      <3>1. IsFiniteSet(all)
        <4> DEFINE e1 == [path |-> <<"a">>, kind |-> a]
                   e2 == [path |-> <<"b">>, kind |-> b]
                   e3 == [path |-> <<".git">>, kind |-> git]
                   e4 == [path |-> <<"a", "a">>, kind |-> aa]
                   e5 == [path |-> <<"a", "b">>, kind |-> ab]
        <4>1. all = {e1} \cup ({e2} \cup ({e3} \cup ({e4} \cup {e5})))
          OBVIOUS
        <4> HIDE DEF e1, e2, e3, e4, e5, all
        <4>2. /\ IsFiniteSet({e1}) /\ IsFiniteSet({e2}) /\ IsFiniteSet({e3})
              /\ IsFiniteSet({e4}) /\ IsFiniteSet({e5})
          BY FS_Singleton
        <4> QED
          BY <4>1, <4>2, FS_Union
      <3>2. tree \subseteq all
        OBVIOUS
      <3> QED
        BY <3>1, <3>2, FS_Subset
    <2> HIDE DEF all
    <2>4. \A e \in tree : e \in all /\ e.kind # "absent"
      OBVIOUS
    <2>5. \A e \in tree : e \in [path : Seq(EntryNames), kind : EntryKinds]
      BY <2>1, <2>4
    <2> HIDE DEF tree
    <2> QED
      BY <2>1, <2>2, <2>3, <2>4, <2>5 DEF Workspace
  <1>4. EntryNames \subseteq N
    OBVIOUS
  <1> HIDE DEF N, all
  <1>5. PathsAgree(tree, segments)
    <2> HIDE DEF tree
    <2> QED
      BY <1>2, <1>3, <1>4, PathsCorrect
  <1>6. sample' = [of |-> "path", segments |-> segments, tree |-> tree]
    BY <1>1 DEF all
  <1> HIDE DEF tree
  <1> QED
    BY <1>5, <1>6 DEF Agrees

LEMMA BodySamples == TakeBody => Agrees(sample')
  <1> SUFFICES ASSUME TakeBody PROVE Agrees(sample')
    OBVIOUS
  <1> DEFINE M == SUBSET {"role"}
  <1>1. PICK n, chunks, declared, end, decodes, wrong, messages :
           /\ n \in 0 .. MaxChunkCount /\ chunks \in [1 .. n -> 1 .. MaxBodyBytes]
           /\ declared \in {-1, MaxBodyBytes, MaxBodyBytes + 1} /\ end \in {"done", "error"}
           /\ decodes \in BOOLEAN /\ messages \in {<<>>, <<{}>>, <<{}, {"role"}>>}
           /\ sample' = [of |-> "body", declared |-> declared, chunks |-> chunks, end |-> end,
                         decodes |-> decodes, wrong |-> wrong, messages |-> messages]
    BY Zenon DEF TakeBody
  <1>2. declared \in Int
    BY <1>1, BodyAssumption
  <1>3. chunks \in Seq(Nat)
    <2>1. 1 .. MaxBodyBytes \subseteq Nat /\ MaxChunkCount \in Nat
      BY BodyAssumption, SamplesAssumption
    <2> QED
      BY <1>1, <2>1, SampleIs
  <1>4. messages \in Seq(M)
    <2>1. {} \in M /\ {"role"} \in M
      OBVIOUS
    <2> HIDE DEF M
    <2>2. <<>> \in Seq(M) /\ <<{}>> \in Seq(M) /\ <<{}, {"role"}>> \in Seq(M)
      BY <2>1
    <2> QED
      BY <1>1, <2>2
  <1> HIDE DEF M
  <1>5. BodyAgrees(declared, chunks, end, decodes, wrong, messages)
    BY <1>1, <1>2, <1>3, <1>4, BodyCorrect
  <1> QED
    BY <1>1, <1>5 DEF Agrees

LEMMA UsageSamples == TakeUsage => Agrees(sample')
  <1> SUFFICES ASSUME TakeUsage PROVE Agrees(sample')
    OBVIOUS
  <1> DEFINE S == [data : {"none", "bad"}, usage : {NoUsage}] \cup
                  [data : {"json"}, usage : [input : {0, 1}, output : {1}, total : {-1, 1, 2}]]
  <1>1. PICK n, cut, events :
           /\ n \in 0 .. MaxUsageEvents /\ cut \in BOOLEAN /\ events \in [1 .. n -> S]
           /\ sample' = [of |-> "usage", events |-> events, cut |-> cut]
    BY Zenon DEF TakeUsage
  <1>2. S \subseteq UsageEvents
    <2>1. NoUsage \in Counters
      BY DEF NoUsage, Counters
    <2>2. [input : {0, 1}, output : {1}, total : {-1, 1, 2}] \subseteq Counters
      BY DEF Counters
    <2> HIDE DEF NoUsage
    <2> QED
      BY <2>1, <2>2 DEF UsageEvents
  <1> HIDE DEF S
  <1>3. events \in Seq(UsageEvents)
    BY <1>1, <1>2, SampleIs, SamplesAssumption
  <1>4. UsageAgrees(events, cut)
    BY <1>1, <1>3, ResponseUsageCorrect
  <1> QED
    BY <1>1, <1>4 DEF Agrees

LEMMA CapabilitySamples == TakeCapability => Agrees(sample')
  <1> SUFFICES ASSUME TakeCapability PROVE Agrees(sample')
    OBVIOUS
  <1> DEFINE Takes(issuedAt, expiresAt, instant, tokens, status, model, id) ==
                sample' = [of |-> "capability", instant |-> instant,
                           run |-> [id |-> id, model |-> model, status |-> status],
                           input |-> [run |-> "r1", model |-> "m1", tokens |-> tokens,
                                      issuedAt |-> issuedAt, expiresAt |-> expiresAt]]
  <1>1. PICK issuedAt, expiresAt, instant, tokens, status, model, id :
           /\ issuedAt \in 0 .. MaxInstant /\ expiresAt \in 0 .. MaxInstant
           /\ instant \in 0 .. MaxInstant /\ tokens \in {0, 1, MaxOutputTokens + 1}
           /\ Takes(issuedAt, expiresAt, instant, tokens, status, model, id)
    <2>1. \E issuedAt, expiresAt, instant \in 0 .. MaxInstant,
             tokens \in {0, 1, MaxOutputTokens + 1} :
          \E status \in {"queued", "starting", "running", "cancelling"}, model \in {"m1", "m2"} :
          \E id \in {"r1", "r2"} : Takes(issuedAt, expiresAt, instant, tokens, status, model, id)
      BY Zenon DEF TakeCapability
    <2> HIDE DEF Takes
    <2> QED
      BY <2>1
  <1> DEFINE input == [run |-> "r1", model |-> "m1", tokens |-> tokens,
                       issuedAt |-> issuedAt, expiresAt |-> expiresAt]
             run == [id |-> id, model |-> model, status |-> status]
  <1>2. /\ issuedAt \in Nat /\ expiresAt \in Nat /\ instant \in Nat /\ tokens \in Int
    BY <1>1, SamplesAssumption, CapabilityAssumption
  <1>3. input \in CapabilityInputs({"r1", "m1"})
    BY <1>2 DEF CapabilityInputs
  <1>4. sample' = [of |-> "capability", instant |-> instant, run |-> run, input |-> input]
    BY <1>1
  <1> HIDE DEF input, run
  <1>5. CapabilityAgrees(input, instant, run)
    BY <1>2, <1>3, CapabilityCorrect
  <1> QED
    BY <1>4, <1>5 DEF Agrees

LEMMA AnswerSamples == TakeAnswer => Agrees(sample')
  <1> SUFFICES ASSUME TakeAnswer PROVE Agrees(sample')
    OBVIOUS
  <1> DEFINE X == {"a", "b"}
             I == {0, 1, 2}
             N == {"n1", "n2"}
             Raws == [prompt : {-1, 1}, candidates : {-1, 1}, thoughts : {0, 1}, total : 2 .. 3]
             IdsDiffer(ps, n) ==
                \A i, j \in 1 .. n :
                   i # j /\ ps[i].type = "call" /\ ps[j].type = "call"
                      => ps[i].call.id # ps[j].call.id
  <1> DEFINE Takes(parts, upstream, end, finish, raw, tools) ==
                sample' = [of |-> "answer", upstream |-> upstream, parts |-> parts, end |-> end,
                           raw |-> raw, finish |-> finish, tools |-> tools]
  <1>1. PICK n, parts, upstream, end, finish, raw, tools :
           /\ n \in 0 .. MaxParts /\ parts \in [1 .. n -> SampleParts]
           /\ upstream \in {"unreached", "rejected", "unreadable", "read"}
           /\ end \in {"done", "error", "cut"} /\ raw \in Raws /\ IdsDiffer(parts, n)
           /\ Takes(parts, upstream, end, finish, raw, tools)
    <2>1. \E n \in 0 .. MaxParts : \E parts \in [1 .. n -> SampleParts] :
          \E upstream \in {"unreached", "rejected", "unreadable", "read"} :
          \E end \in {"done", "error", "cut"}, finish \in {"stop", "other"} :
          \E raw \in Raws, tools \in {<<"n1">>, <<"n1", "n2">>} :
             /\ upstream = "read" \/ n = 0
             /\ end = "done" \/ (finish = "stop" /\ raw.prompt = 1)
             /\ IdsDiffer(parts, n)
             /\ Takes(parts, upstream, end, finish, raw, tools)
      BY Zenon DEF TakeAnswer
    <2> HIDE DEF Takes, Raws, IdsDiffer
    <2> QED
      BY <2>1
  <1>2. ASSUME NEW p \in SampleParts PROVE p \in AnswerParts(X, I, N)
    <2>1. CASE p \in {[type |-> "text", text |-> t] : t \in X}
      BY <2>1 DEF AnswerParts, TextParts
    <2> DEFINE Calls == [id : {0, 1, 2}, name : {"n1"}, record : {TRUE}, signed : {FALSE}]
                          \cup {[id |-> 1, name |-> "n2", record |-> TRUE, signed |-> TRUE],
                                [id |-> 1, name |-> "n1", record |-> FALSE, signed |-> FALSE]}
    <2>2. CASE p \in [type : {"call"}, call : Calls]
      <3>1. ASSUME NEW c \in Calls PROVE c \in AnswerCalls(I, N)
        <4>1. PICK id, name, record, signed :
                 /\ c = [id |-> id, name |-> name, record |-> record, signed |-> signed]
                 /\ id \in I /\ name \in N /\ record \in BOOLEAN /\ signed \in BOOLEAN
          OBVIOUS
        <4> HIDE DEF I, N
        <4> QED
          BY <4>1 DEF AnswerCalls
      <3> HIDE DEF Calls, I, N
      <3> QED
        BY <2>2, <3>1 DEF AnswerParts, CallParts
    <2> QED
      BY <2>1, <2>2 DEF SampleParts
  <1>3. raw \in Measurements
    BY <1>1 DEF Measurements
  <1>4. 0 \in I
    OBVIOUS
  <1> HIDE DEF X, I, N
  <1>5. parts \in Seq(AnswerParts(X, I, N)) /\ Len(parts) = n
    <2>1. SampleParts \subseteq AnswerParts(X, I, N) /\ MaxParts \in Nat
      BY <1>2, SamplesAssumption
    <2> QED
      BY <1>1, <2>1, SampleIs
  <1>6. Supplied(X, I, N, parts, end, raw)
    BY <1>1, <1>3, <1>5 DEF Supplied, Apart
  <1>7. AnswerAgrees(upstream, parts, end, raw, finish, tools)
    BY <1>1, <1>4, <1>6, AnswerCorrect
  <1> QED
    BY <1>1, <1>7 DEF Agrees

LEMMA ToolsSamples == TakeTools => Agrees(sample')
  <1> SUFFICES ASSUME TakeTools PROVE Agrees(sample')
    OBVIOUS
  <1> DEFINE N == {"n1", "n2", "bad"}
  <1>1. PICK n, tools, choice, sequential :
           /\ n \in 0 .. 2 /\ tools \in [1 .. n -> N] /\ sequential \in BOOLEAN
           /\ sample' = [of |-> "tools", tools |-> tools, choice |-> choice,
                         sequential |-> sequential]
    BY Zenon DEF TakeTools
  <1> HIDE DEF N
  <1>2. tools \in Seq(N)
    BY <1>1, SampleIs
  <1>3. ToolsAgree(tools, choice, sequential)
    BY <1>1, <1>2, ToolsCorrect
  <1> QED
    BY <1>1, <1>3 DEF Agrees

LEMMA LinkSamples == TakeLink => Agrees(sample')
  <1> SUFFICES ASSUME TakeLink PROVE Agrees(sample')
    OBVIOUS
  <1> DEFINE V == {"a", "client", ".", ".."}
             Takes(path, form, kind, element) ==
                sample' = [of |-> "link", answer |-> [kind |-> kind, element |-> element,
                                                     link |-> Link(form, path)]]
  <1>1. PICK n, path, form, kind, element :
           /\ n \in 0 .. MaxLink /\ path \in [1 .. n -> V]
           /\ form \in {"absolute", "host", "rooted", "based", "relative"}
           /\ kind \in {"redirect", "html", "other"} /\ element \in {"a", "script"}
           /\ Takes(path, form, kind, element)
    <2>1. \E n \in 0 .. MaxLink : \E path \in [1 .. n -> V] :
          \E form \in {"absolute", "host", "rooted", "based", "relative"} :
          \E kind \in {"redirect", "html", "other"}, element \in {"a", "script"} :
             Takes(path, form, kind, element)
      BY Zenon DEF TakeLink
    <2> HIDE DEF Takes, V
    <2> QED
      BY <2>1
  <1> HIDE DEF V
  <1>2. path \in Seq(V)
    BY <1>1, SampleIs, SamplesAssumption
  <1> DEFINE answer == [kind |-> kind, element |-> element, link |-> Link(form, path)]
  <1>3. answer \in PreviewAnswers(V)
    BY <1>1, <1>2 DEF PreviewAnswers, Links, Link
  <1>4. sample' = [of |-> "link", answer |-> answer]
    BY <1>1
  <1> HIDE DEF answer
  <1>5. UrlsAgree(answer)
    BY <1>3, PreviewUrlsCorrect
  <1> QED
    BY <1>4, <1>5 DEF Agrees

\* Whatever sample the model takes, the algorithm that it is for agrees with its reference: what
\* is checked for the samples within some bounds, for all bounds.
THEOREM AlgorithmsCorrect == AlgorithmsSpec => []AlgorithmsAgree
  <1>1. AlgorithmsInit => Agrees(sample)
    BY DEF AlgorithmsInit, NoSample, Agrees
  <1>2. Agrees(sample) /\ [AlgorithmsNext]_sample => Agrees(sample')
    BY PiSamples, ContextSamples, StatusSamples, ConversationSamples, PathSamples, BodySamples,
       UsageSamples, CapabilitySamples, AnswerSamples, ToolsSamples, LinkSamples, Zenon
       DEF AlgorithmsNext
  <1>3. Agrees(sample) = AlgorithmsAgree /\ Agrees(sample') = AlgorithmsAgree'
    BY DEF Agrees, AlgorithmsAgree
  <1>4. AlgorithmsInit => AlgorithmsAgree
    BY <1>1, <1>3
  <1>5. AlgorithmsAgree /\ [AlgorithmsNext]_sample => AlgorithmsAgree'
    BY <1>2, <1>3
  <1> QED
    BY <1>4, <1>5, PTL DEF AlgorithmsSpec
=============================================================================
