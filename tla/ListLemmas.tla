------------------------------- MODULE ListLemmas -------------------------------
(***************************************************************************)
(* What proofs about more than one module need to know of numbers, of      *)
(* sequences and their parts, of folds along them and of orders: induction *)
(* over numbers is by the least number that something does not hold for.   *)
(***************************************************************************)
EXTENDS SequencesExt, FiniteSetTheorems, FunctionTheorems, SequenceTheorems,
        WellFoundedInduction, TLAPS

-----------------------------------------------------------------------------
(* Numbers, and folds along a sequence.  A fold of the community modules   *)
(* is a recursive function on sets of positions.  It is shown once that    *)
(* there is one; for each algorithm then what a fold over 1 .. i gives.    *)

Less == {q \in Nat \X Nat : q[1] < q[2]}

LEMMA LessIsWellFounded == IsWellFoundedOn(Less, Nat)
  BY NatLessThanWellFounded DEF OpToRel, Less

\* What holds at 0 and is handed on from each number to the next holds up to n.
LEMMA Reaches ==
    ASSUME NEW n \in Nat, NEW S, 0 \in S, \A i \in 1 .. n : i - 1 \in S => i \in S
    PROVE  \A i \in 0 .. n : i \in S
  <1> DEFINE T == {i \in 0 .. n : i \notin S}
  <1> SUFFICES ASSUME T # {} PROVE FALSE
    OBVIOUS
  <1>1. T \subseteq Nat
    OBVIOUS
  <1> HIDE DEF T
  <1>2. PICK m \in T : \A k \in T : <<k, m>> \notin Less
    BY <1>1, LessIsWellFounded, WFMin
  <1> USE DEF T
  <1>3. m \in 1 .. n /\ m - 1 \in 0 .. n /\ m \notin S
    OBVIOUS
  <1>4. m - 1 \notin T
    <2>1. <<m - 1, m>> \in Less
      BY <1>3 DEF Less
    <2> QED
      BY <1>2, <2>1
  <1> QED
    BY <1>3, <1>4

\* The greatest of a set of numbers is found by Max.
LEMMA MaxIs ==
    ASSUME NEW S, S \subseteq Int, NEW m \in S, \A i \in S : i <= m
    PROVE  Max(S) = m
  <1> DEFINE c == CHOOSE x \in S : \A y \in S : x >= y
  <1>1. c \in S /\ \A y \in S : c >= y
    <2>1. \A y \in S : m >= y
      OBVIOUS
    <2> QED
      BY <2>1
  <1>2. c = m
    <2> HIDE DEF c
    <2>1. c >= m /\ c <= m /\ c \in Int /\ m \in Int
      BY <1>1
    <2> QED
      BY <2>1
  <1> QED
    BY <1>2 DEF Max

LEMMA MaxOfFirst == ASSUME NEW n \in Nat, n > 0 PROVE Max(1 .. n) = n /\ (1 .. n) \ {n} = 1 .. n - 1
  <1> DEFINE S == 1 .. n
  <1>1. n \in S /\ (\A i \in S : i <= n) /\ S \subseteq Int
    OBVIOUS
  <1>2. S \ {n} = 1 .. n - 1
    OBVIOUS
  <1> HIDE DEF S
  <1>3. Max(S) = n
    BY <1>1, MaxIs
  <1> QED
    BY <1>2, <1>3 DEF S

\* A finite set of numbers that has a member has a greatest one.
LEMMA MaxIsIn ==
    ASSUME NEW n \in Nat, NEW S, S \subseteq 1 .. n, S # {}
    PROVE  Max(S) \in S /\ \A i \in S : i <= Max(S)
  <1> DEFINE T == {i \in 0 .. n : (\E j \in S : j <= i) =>
                                 \E m \in S : \A j \in S : j <= i => j <= m}
  <1>1. 0 \in T
    OBVIOUS
  <1>2. ASSUME NEW i \in 1 .. n, i - 1 \in T PROVE i \in T
    <2>1. CASE i \in S
      BY <2>1
    <2>2. CASE i \notin S
      BY <1>2, <2>2
    <2> QED
      BY <2>1, <2>2
  <1> HIDE DEF T
  <1>3. n \in T
    BY <1>1, <1>2, Reaches
  <1>4. \A j \in S : j <= n /\ j \in Int
    OBVIOUS
  <1>5. PICK m \in S : \A j \in S : j <= m
    BY <1>3, <1>4 DEF T
  <1>6. S \subseteq Int
    BY <1>4
  <1>7. Max(S) = m
    BY <1>5, <1>6, MaxIs
  <1> QED
    BY <1>5, <1>7

\* One round of a fold of f along s, a function of sets of positions.
Folds(H, f, base, s) ==
    [t \in SUBSET DOMAIN s |-> IF t = {} THEN base ELSE f[<<H[t \ {Max(t)}], s[Max(t)]>>]]

Foldable(A, B, f, base, s) == f \in [A \X B -> A] /\ base \in A /\ s \in Seq(B)

HasFold(A, f, base, s) == \E H \in [SUBSET DOMAIN s -> A] : H = Folds(H, f, base, s)

\* A fold comes to an end.
LEMMA FoldExists ==
    ASSUME NEW A, NEW B, NEW f, NEW base, NEW s, Foldable(A, B, f, base, s)
    PROVE  HasFold(A, f, base, s)
  <1> USE DEF Foldable
  <1> DEFINE n == Len(s)
             Upto(i) == SUBSET (1 .. i)
             T == {i \in 0 .. n : \E H \in [Upto(i) -> A] :
                      \A t \in Upto(i) : H[t] = IF t = {} THEN base
                                                ELSE f[<<H[t \ {Max(t)}], s[Max(t)]>>]}
  <1>1. n \in Nat /\ DOMAIN s = 1 .. n /\ \A i \in 1 .. n : s[i] \in B
    BY LenProperties, ElementOfSeq
  <1> HIDE DEF n
  <1>2. 0 \in T
    <2> DEFINE H == [t \in Upto(0) |-> base]
    <2>1. \A t \in Upto(0) : t = {}
      OBVIOUS
    <2>2. H \in [Upto(0) -> A] /\ \A t \in Upto(0) : H[t] = base
      OBVIOUS
    <2>3. \A t \in Upto(0) : H[t] = IF t = {} THEN base ELSE f[<<H[t \ {Max(t)}], s[Max(t)]>>]
      BY <2>1, <2>2
    <2>4. 0 \in 0 .. n
      BY <1>1
    <2> HIDE DEF H
    <2> QED
      BY <2>2, <2>3, <2>4
  <1>3. ASSUME NEW i \in 1 .. n, i - 1 \in T PROVE i \in T
    <2>1. PICK H \in [Upto(i - 1) -> A] :
             \A t \in Upto(i - 1) : H[t] = IF t = {} THEN base
                                           ELSE f[<<H[t \ {Max(t)}], s[Max(t)]>>]
      BY <1>3
    <2> DEFINE G == [t \in Upto(i) |-> IF i \in t THEN f[<<H[t \ {i}], s[i]>>] ELSE H[t]]
    <2>2. \A t \in Upto(i) : /\ t \ {i} \in Upto(i - 1) /\ (i \notin t => t \in Upto(i - 1))
                             /\ t \subseteq 1 .. n
      BY <1>1
    <2>3. G \in [Upto(i) -> A]
      <3>1. ASSUME NEW t \in Upto(i) PROVE G[t] \in A
        <4>1. i \in t => <<H[t \ {i}], s[i]>> \in A \X B
          BY <1>1, <2>2
        <4>2. i \notin t => H[t] \in A
          BY <2>2
        <4> QED
          BY <4>1, <4>2
      <3> HIDE DEF G
      <3> QED
        BY <3>1 DEF G
    <2>4. ASSUME NEW t \in Upto(i)
          PROVE  G[t] = IF t = {} THEN base ELSE f[<<G[t \ {Max(t)}], s[Max(t)]>>]
      <3>1. CASE i \in t
        <4>1. Max(t) = i
          <5>1. t \subseteq Int /\ \A j \in t : j <= i
            BY <1>1
          <5> QED
            BY <3>1, <5>1, MaxIs
        <4>2. t \ {i} \in Upto(i) /\ i \notin t \ {i}
          OBVIOUS
        <4>3. G[t \ {i}] = H[t \ {i}] /\ G[t] = f[<<H[t \ {i}], s[i]>>] /\ t # {}
          BY <3>1, <4>2
        <4> HIDE DEF G
        <4> QED
          BY <4>1, <4>3
      <3>2. CASE i \notin t /\ t # {}
        <4>1. Max(t) \in t
          BY <1>1, <2>2, <3>2, MaxIsIn
        <4>2. t \in Upto(i - 1) /\ t \ {Max(t)} \in Upto(i) /\ i \notin t \ {Max(t)}
          BY <2>2, <3>2
        <4>3. G[t] = H[t] /\ G[t \ {Max(t)}] = H[t \ {Max(t)}]
          BY <3>2, <4>2
        <4> HIDE DEF G
        <4> QED
          BY <2>1, <3>2, <4>2, <4>3
      <3>3. CASE t = {}
        <4>1. G[t] = H[t] /\ t \in Upto(i - 1)
          BY <3>3
        <4> HIDE DEF G
        <4> QED
          BY <2>1, <3>3, <4>1
      <3> QED
        BY <3>1, <3>2, <3>3
    <2>5. i \in 0 .. n
      BY <1>1
    <2> HIDE DEF G
    <2> QED
      BY <2>3, <2>4, <2>5
  <1> HIDE DEF T
  <1>4. n \in T
    <2>1. \A i \in 0 .. n : i \in T
      BY <1>1, <1>2, <1>3, Reaches
    <2> QED
      BY <1>1, <2>1
  <1>5. PICK H \in [SUBSET DOMAIN s -> A] :
           \A t \in SUBSET DOMAIN s : H[t] = IF t = {} THEN base
                                             ELSE f[<<H[t \ {Max(t)}], s[Max(t)]>>]
    BY <1>1, <1>4 DEF T
  <1>6. H = [t \in SUBSET DOMAIN s |-> H[t]]
    OBVIOUS
  <1> QED
    BY <1>5, <1>6 DEF Folds, HasFold

\* What a fold gives along the positions: of none of them base, and then from each to the next.
Along(G, f, base, s) ==
    /\ G[0] = base
    /\ \A i \in 1 .. Len(s) : G[i] = f[<<G[i - 1], s[i]>>]

IsFold(F, A, f, base, s) ==
    /\ F[{}] = base
    /\ \A t \in SUBSET DOMAIN s :
          t # {} /\ F[t \ {Max(t)}] \in A => F[t] = f[<<F[t \ {Max(t)}], s[Max(t)]>>]

GivesAlong(F, A, f, base, s) ==
    \E G \in [0 .. Len(s) -> A] : Along(G, f, base, s) /\ F[DOMAIN s] = G[Len(s)]
\* A fold of f, however it is written, gives its values one after the other.
LEMMA FoldGives ==
    ASSUME NEW A, NEW B, NEW f, NEW base, NEW s, Foldable(A, B, f, base, s),
           NEW F, IsFold(F, A, f, base, s)
    PROVE  GivesAlong(F, A, f, base, s)
  <1> USE DEF Foldable, IsFold
  <1> DEFINE n == Len(s)
             G == [i \in 0 .. n |-> F[1 .. i]]
             T == {i \in 0 .. n : F[1 .. i] \in A}
  <1>1. n \in Nat /\ DOMAIN s = 1 .. n /\ \A i \in 1 .. n : s[i] \in B
    BY LenProperties, ElementOfSeq
  <1> HIDE DEF n
  <1>2. F[1 .. 0] = base
    <2>1. 1 .. 0 = {}
      OBVIOUS
    <2> QED
      BY <2>1
  <1>3. ASSUME NEW i \in 1 .. n, F[1 .. i - 1] \in A
        PROVE  F[1 .. i] = f[<<F[1 .. i - 1], s[i]>>] /\ F[1 .. i] \in A
    <2>1. Max(1 .. i) = i /\ (1 .. i) \ {i} = 1 .. i - 1
      BY <1>1, MaxOfFirst
    <2>2. 1 .. i \in SUBSET DOMAIN s /\ 1 .. i # {}
      <3>1. \A j \in 1 .. i : j \in 1 .. n
        BY <1>1
      <3>2. i \in 1 .. i
        BY <1>1
      <3> QED
        BY <1>1, <3>1, <3>2
    <2>3. F[1 .. i] = f[<<F[1 .. i - 1], s[i]>>]
      BY <1>3, <2>1, <2>2
    <2>4. <<F[1 .. i - 1], s[i]>> \in A \X B
      BY <1>1, <1>3
    <2> QED
      BY <2>3, <2>4
  <1>4. \A i \in 0 .. n : i \in T
    <2>1. 0 \in T
      BY <1>1, <1>2
    <2>2. \A i \in 1 .. n : i - 1 \in T => i \in T
      <3>1. ASSUME NEW i \in 1 .. n, i - 1 \in T PROVE i \in T
        <4>1. F[1 .. i - 1] \in A /\ i \in 0 .. n
          BY <1>1, <3>1
        <4> HIDE DEF T
        <4>2. F[1 .. i] \in A
          BY <1>3, <4>1
        <4> QED
          BY <4>1, <4>2 DEF T
      <3> QED
        BY <3>1
    <2> HIDE DEF T
    <2> QED
      BY <1>1, <2>1, <2>2, Reaches
  <1>5. G \in [0 .. n -> A]
    BY <1>4
  <1>6. G[0] = base /\ G[n] = F[DOMAIN s]
    BY <1>1, <1>2
  <1>7. ASSUME NEW i \in 1 .. n PROVE G[i] = f[<<G[i - 1], s[i]>>]
    <2>1. i - 1 \in 0 .. n /\ i \in 0 .. n
      BY <1>1
    <2>2. G[i] = F[1 .. i] /\ G[i - 1] = F[1 .. i - 1]
      BY <2>1
    <2> HIDE DEF G
    <2> QED
      BY <1>3, <1>4, <2>1, <2>2
  <1> HIDE DEF G
  <1> QED
    BY <1>5, <1>6, <1>7 DEF Along, GivesAlong, n

-----------------------------------------------------------------------------
(* Sequences                                                               *)

\* What a part of a sequence is.
LEMMA PartIs ==
    ASSUME NEW S, NEW s \in Seq(S), NEW a \in 1 .. Len(s) + 1, NEW b \in a - 1 .. Len(s)
    PROVE  /\ SubSeq(s, a, b) \in Seq(S) /\ Len(SubSeq(s, a, b)) = b - a + 1
           /\ \A i \in 1 .. b - a + 1 : SubSeq(s, a, b)[i] = s[a + i - 1]
  <1>1. Len(s) \in Nat /\ a \in Int /\ b \in Int
    BY LenProperties
  <1>2. \A i \in a .. b : s[i] \in S
    BY <1>1, ElementOfSeq
  <1>3. /\ SubSeq(s, a, b) \in Seq(S)
        /\ Len(SubSeq(s, a, b)) = IF a <= b THEN b - a + 1 ELSE 0
        /\ \A i \in 1 .. b - a + 1 : SubSeq(s, a, b)[i] = s[a + i - 1]
    BY <1>1, <1>2, SubSeqProperties
  <1> QED
    BY <1>1, <1>3

-----------------------------------------------------------------------------
(* Parts of sequences                                                      *)

\* The first elements of a sequence
First(s, i) == SubSeq(s, 1, i)

LEMMA FirstIs ==
    ASSUME NEW A, NEW s \in Seq(A), NEW i \in 0 .. Len(s)
    PROVE  /\ First(s, i) \in Seq(A) /\ Len(First(s, i)) = i
           /\ \A j \in 1 .. i : First(s, i)[j] = s[j]
  <1>1. Len(s) \in Nat /\ 1 \in 1 .. Len(s) + 1 /\ i \in 1 - 1 .. Len(s) /\ i - 1 + 1 = i
        /\ \A j \in 1 .. i : 1 + j - 1 = j
    BY LenProperties
  <1>2. /\ SubSeq(s, 1, i) \in Seq(A) /\ Len(SubSeq(s, 1, i)) = i - 1 + 1
        /\ \A j \in 1 .. i - 1 + 1 : SubSeq(s, 1, i)[j] = s[1 + j - 1]
    BY <1>1, PartIs
  <1> QED
    BY <1>1, <1>2 DEF First

LEMMA FirstGrows ==
    ASSUME NEW A, NEW s \in Seq(A)
    PROVE  /\ First(s, 0) = <<>> /\ First(s, Len(s)) = s
           /\ \A i \in 1 .. Len(s) : First(s, i) = Append(First(s, i - 1), s[i])
  <1>1. Len(s) \in Nat
    BY LenProperties
  <1>2. First(s, 0) = <<>>
    BY SubSeqEmpty DEF First
  <1>3. First(s, Len(s)) = s
    BY SubSeqFull DEF First
  <1>4. ASSUME NEW i \in 1 .. Len(s) PROVE First(s, i) = Append(First(s, i - 1), s[i])
    <2>1. 1 \in 1 .. Len(s) /\ i \in 1 .. Len(s) /\ i - 1 \in 0 .. Len(s)
      BY <1>1
    <2>2. First(s, i) = First(s, i - 1) \o <<s[i]>>
      BY <2>1, SubSeqRecursiveSecond DEF First
    <2>3. s[i] \in A /\ First(s, i - 1) \in Seq(A)
      BY <2>1, ElementOfSeq, FirstIs
    <2> QED
      BY <2>2, <2>3, AppendIsConcat
  <1> QED
    BY <1>2, <1>3, <1>4

AppendsTo(s, t, x) == Append(s \o t, x) = s \o Append(t, x)

LEMMA AppendToConcat ==
    ASSUME NEW A, NEW s \in Seq(A), NEW t \in Seq(A), NEW x \in A
    PROVE  AppendsTo(s, t, x)
  <1>1. s \o t \in Seq(A) /\ <<x>> \in Seq(A)
    BY ConcatProperties
  <1>2. (s \o t) \o <<x>> = s \o (t \o <<x>>)
    BY <1>1, ConcatAssociative
  <1> QED
    BY <1>1, <1>2, AppendIsConcat DEF AppendsTo

-----------------------------------------------------------------------------
(* Concatenations                                                          *)

\* What is made of numbers one after the other
Recursible(n, A, f, base) == n \in Nat /\ base \in A /\ f \in [A \X (1 .. n) -> A]

Recurses(n, A, f, base) ==
    \E G \in [0 .. n -> A] : G[0] = base /\ \A i \in 1 .. n : G[i] = f[<<G[i - 1], i>>]

LEMMA Recursion ==
    ASSUME NEW n, NEW A, NEW f, NEW base, Recursible(n, A, f, base)
    PROVE  Recurses(n, A, f, base)
  <1> USE DEF Recursible
  <1> DEFINE T == {i \in 0 .. n : \E G \in [0 .. i -> A] :
                                    G[0] = base /\ \A j \in 1 .. i : G[j] = f[<<G[j - 1], j>>]}
  <1>1. 0 \in T
    <2> DEFINE G == [j \in 0 .. 0 |-> base]
    <2>1. G \in [0 .. 0 -> A] /\ G[0] = base /\ 0 \in 0 .. n
      OBVIOUS
    <2>2. \A j \in 1 .. 0 : G[j] = f[<<G[j - 1], j>>]
      OBVIOUS
    <2> HIDE DEF G
    <2> QED
      BY <2>1, <2>2
  <1>2. ASSUME NEW i \in 1 .. n, i - 1 \in T PROVE i \in T
    <2>1. PICK H \in [0 .. i - 1 -> A] :
             H[0] = base /\ \A j \in 1 .. i - 1 : H[j] = f[<<H[j - 1], j>>]
      BY <1>2
    <2> DEFINE G == [j \in 0 .. i |-> IF j = i THEN f[<<H[i - 1], i>>] ELSE H[j]]
    <2>2. H[i - 1] \in A
      BY <2>1
    <2>3. <<H[i - 1], i>> \in A \X (1 .. n)
      BY <2>2
    <2>4. f[<<H[i - 1], i>>] \in A
      BY <2>3
    <2>5. G \in [0 .. i -> A]
      BY <2>1, <2>4
    <2>6. G[0] = base /\ G[i] = f[<<G[i - 1], i>>]
      <3>1. 0 \in 0 .. i /\ i \in 0 .. i /\ i - 1 \in 0 .. i /\ 0 # i /\ i - 1 # i
        OBVIOUS
      <3>2. G[0] = H[0] /\ G[i] = f[<<H[i - 1], i>>] /\ G[i - 1] = H[i - 1]
        BY <3>1
      <3> HIDE DEF G
      <3> QED
        BY <2>1, <3>2
    <2>7. ASSUME NEW j \in 1 .. i - 1 PROVE G[j] = f[<<G[j - 1], j>>]
      <3>1. j \in 0 .. i /\ j - 1 \in 0 .. i /\ j # i /\ j - 1 # i
        OBVIOUS
      <3>2. G[j] = H[j] /\ G[j - 1] = H[j - 1]
        BY <3>1
      <3> HIDE DEF G
      <3> QED
        BY <2>1, <3>2
    <2> HIDE DEF G
    <2>8. \A j \in 1 .. i : G[j] = f[<<G[j - 1], j>>]
      <3>1. \A j \in 1 .. i : j = i \/ j \in 1 .. i - 1
        OBVIOUS
      <3> QED
        BY <2>6, <2>7, <3>1
    <2> QED
      BY <2>5, <2>6, <2>8
  <1> HIDE DEF T
  <1>3. \A i \in 0 .. n : i \in T
    BY <1>1, <1>2, Reaches
  <1> QED
    BY <1>3 DEF T, Recurses

FlattensStepwise(A, ss) ==
    /\ FlattenSeq(First(ss, 0)) = <<>>
    /\ \A i \in 0 .. Len(ss) : FlattenSeq(First(ss, i)) \in Seq(A)
    /\ \A i \in 1 .. Len(ss) : FlattenSeq(First(ss, i)) = FlattenSeq(First(ss, i - 1)) \o ss[i]

\* A concatenation, one sequence after the other
LEMMA FlattensStep == ASSUME NEW A, NEW ss \in Seq(Seq(A)) PROVE FlattensStepwise(A, ss)
  <1> DEFINE n == Len(ss)
             f == [q \in Seq(A) \X (1 .. n) |-> q[1] \o ss[q[2]]]
  <1>1. n \in Nat /\ \A i \in 1 .. n : ss[i] \in Seq(A)
    BY LenProperties, ElementOfSeq
  <1> HIDE DEF n
  <1>2. f \in [Seq(A) \X (1 .. n) -> Seq(A)] /\ <<>> \in Seq(A)
    <2>1. ASSUME NEW q \in Seq(A) \X (1 .. n) PROVE q[1] \o ss[q[2]] \in Seq(A)
      <3>1. q[1] \in Seq(A) /\ ss[q[2]] \in Seq(A)
        BY <1>1
      <3> QED
        BY <3>1, ConcatProperties
    <2> QED
      BY <2>1, EmptySeq
  <1>3. \A r \in Seq(A), i \in 1 .. n : f[<<r, i>>] = r \o ss[i]
    OBVIOUS
  <1> HIDE DEF f
  <1> Recursible(n, Seq(A), f, <<>>)
    BY <1>1, <1>2 DEF Recursible
  <1> Recurses(n, Seq(A), f, <<>>)
    BY Recursion
  <1>4. PICK G \in [0 .. n -> Seq(A)] :
           G[0] = <<>> /\ \A i \in 1 .. n : G[i] = f[<<G[i - 1], i>>]
    BY DEF Recurses
  <1>5. \A i \in 1 .. n : G[i] = G[i - 1] \o ss[i]
    <2>1. \A i \in 1 .. n : i - 1 \in 0 .. n
      BY <1>1
    <2>2. \A i \in 1 .. n : G[i - 1] \in Seq(A)
      BY <2>1
    <2> QED
      BY <1>3, <1>4, <2>2
  <1>6. ASSUME NEW m \in 0 .. n PROVE FlattenSeq(First(ss, m)) = G[m]
    <2> DEFINE t == First(ss, m)
               Step(h) == [i \in 1 .. Len(t) |-> IF i = 1 THEN t[i] ELSE h[i - 1] \o t[i]]
               h == CHOOSE g : g = Step(g)
    <2>1. t \in Seq(Seq(A)) /\ Len(t) = m /\ \A j \in 1 .. m : t[j] = ss[j]
      BY FirstIs DEF n
    <2> HIDE DEF t
    <2>2. CASE m = 0
      <3>1. t = <<>>
        BY <2>1, <2>2, EmptySeq
      <3> QED
        BY <1>4, <2>1, <2>2, <3>1 DEF FlattenSeq, t
    <2>3. CASE m # 0
      <3>1. FlattenSeq(t) = h[m]
        BY <2>1, <2>3 DEF FlattenSeq
      <3> DEFINE K == [i \in 1 .. m |-> G[i]]
      <3>2. \A i \in 1 .. m : i \in 1 .. n /\ i \in 0 .. n /\ (i # 1 => i - 1 \in 1 .. m)
        BY <1>1
      <3>3. \A i \in 1 .. m : G[i] = IF i = 1 THEN t[i] ELSE G[i - 1] \o t[i]
        <4>1. ASSUME NEW i \in 1 .. m, i = 1 PROVE G[i] = t[i]
          <5>1. G[1] = G[0] \o ss[1] /\ ss[1] \in Seq(A) /\ t[1] = ss[1]
            <6>1. 1 \in 1 .. n /\ 1 \in 1 .. m /\ 1 - 1 = 0
              BY <3>2, <4>1
            <6> QED
              BY <1>1, <1>5, <2>1, <6>1
          <5> QED
            BY <1>4, <4>1, <5>1, ConcatEmptySeq
        <4> QED
          BY <1>5, <2>1, <3>2, <4>1
      <3>4. K = Step(K)
        <4>1. ASSUME NEW i \in 1 .. m PROVE K[i] = IF i = 1 THEN t[i] ELSE K[i - 1] \o t[i]
          <5>1. K[i] = G[i] /\ (i # 1 => K[i - 1] = G[i - 1])
            BY <3>2
          <5> HIDE DEF K
          <5> QED
            BY <3>3, <5>1
        <4>2. K = [i \in 1 .. m |-> K[i]]
          OBVIOUS
        <4> HIDE DEF K
        <4> QED
          BY <2>1, <4>1, <4>2
      <3>5. h = Step(h)
        <4> HIDE DEF K, Step
        <4> QED
          BY <3>4
      <3> HIDE DEF h
      <3>6. \A i \in 1 .. m : h[i] = IF i = 1 THEN t[i] ELSE h[i - 1] \o t[i]
        BY <2>1, <3>5
      <3> DEFINE T == {i \in 0 .. m : i # 0 => h[i] = G[i]}
      <3>7. m \in Nat
        BY <1>1
      <3>8. 0 \in T
        BY <3>7
      <3>9. ASSUME NEW i \in 1 .. m, i - 1 \in T PROVE i \in T
        <4>1. h[i] = G[i]
          <5>1. CASE i = 1
            BY <3>3, <3>6, <5>1
          <5>2. CASE i # 1
            <6>1. h[i - 1] = G[i - 1]
              BY <3>9, <5>2
            <6> HIDE DEF T
            <6>2. h[i] = h[i - 1] \o t[i] /\ G[i] = G[i - 1] \o t[i]
              BY <3>3, <3>6, <5>2
            <6> QED
              BY <6>1, <6>2
          <5> QED
            BY <5>1, <5>2
        <4> QED
          BY <3>7, <4>1
      <3> HIDE DEF T
      <3>10. \A i \in 0 .. m : i \in T
        BY <3>7, <3>8, <3>9, Reaches
      <3>11. m \in T
        BY <3>7, <3>10
      <3> QED
        BY <2>3, <3>1, <3>11 DEF T, t
    <2> QED
      BY <2>2, <2>3
  <1>7. 0 \in 0 .. n /\ \A i \in 1 .. n : i \in 0 .. n /\ i - 1 \in 0 .. n
    BY <1>1
  <1> USE DEF n
  <1>8. FlattenSeq(First(ss, 0)) = <<>>
    BY <1>4, <1>6, <1>7
  <1>9. \A i \in 0 .. Len(ss) : FlattenSeq(First(ss, i)) \in Seq(A)
    BY <1>6
  <1>10. ASSUME NEW i \in 1 .. Len(ss)
         PROVE  FlattenSeq(First(ss, i)) = FlattenSeq(First(ss, i - 1)) \o ss[i]
    <2>1. FlattenSeq(First(ss, i)) = G[i] /\ FlattenSeq(First(ss, i - 1)) = G[i - 1]
      BY <1>6, <1>7
    <2> QED
      BY <1>5, <2>1
  <1> QED
    BY <1>8, <1>9, <1>10 DEF FlattensStepwise

LEMMA FlattenIs ==
    ASSUME NEW A, NEW ss \in Seq(Seq(A))
    PROVE  /\ FlattenSeq(First(ss, 0)) = <<>>
           /\ \A i \in 0 .. Len(ss) : FlattenSeq(First(ss, i)) \in Seq(A)
  <1>1. FlattensStepwise(A, ss)
    BY FlattensStep
  <1> QED
    BY <1>1 DEF FlattensStepwise

LEMMA FlattenStep ==
    ASSUME NEW A, NEW ss \in Seq(Seq(A)), NEW i \in 1 .. Len(ss)
    PROVE  FlattenSeq(First(ss, i)) = FlattenSeq(First(ss, i - 1)) \o ss[i]
  <1>1. FlattensStepwise(A, ss)
    BY FlattensStep
  <1> QED
    BY <1>1 DEF FlattensStepwise

\* The first elements of a concatenation of two
LEMMA FirstOfConcat ==
    ASSUME NEW A, NEW s \in Seq(A), NEW t \in Seq(A)
    PROVE  /\ \A c \in 0 .. Len(s) : First(s \o t, c) = First(s, c)
           /\ \A c \in 0 .. Len(t) : First(s \o t, Len(s) + c) = s \o First(t, c)
  <1> DEFINE u == s \o t
  <1>1. /\ u \in Seq(A) /\ Len(u) = Len(s) + Len(t)
        /\ \A i \in 1 .. Len(s) + Len(t) : u[i] = IF i <= Len(s) THEN s[i] ELSE t[i - Len(s)]
    BY ConcatProperties
  <1>2. Len(s) \in Nat /\ Len(t) \in Nat
    BY LenProperties
  <1> HIDE DEF u
  <1>3. ASSUME NEW c \in 0 .. Len(s) PROVE First(u, c) = First(s, c)
    <2>1. c \in 0 .. Len(u)
      BY <1>1, <1>2
    <2>2. First(u, c) \in Seq(A) /\ Len(First(u, c)) = c /\ \A j \in 1 .. c : First(u, c)[j] = u[j]
      BY <1>1, <2>1, FirstIs
    <2>3. First(s, c) \in Seq(A) /\ Len(First(s, c)) = c /\ \A j \in 1 .. c : First(s, c)[j] = s[j]
      BY FirstIs
    <2>4. \A j \in 1 .. c : u[j] = s[j]
      BY <1>1, <1>2
    <2> QED
      BY <2>2, <2>3, <2>4, SeqEqual
  <1>4. ASSUME NEW c \in 0 .. Len(t) PROVE First(u, Len(s) + c) = s \o First(t, c)
    <2> DEFINE m == Len(s) + c
               v == s \o First(t, c)
    <2>1. m \in 0 .. Len(u) /\ m \in Nat
      BY <1>1, <1>2
    <2>2. First(u, m) \in Seq(A) /\ Len(First(u, m)) = m /\ \A j \in 1 .. m : First(u, m)[j] = u[j]
      BY <1>1, <2>1, FirstIs
    <2>3. First(t, c) \in Seq(A) /\ Len(First(t, c)) = c /\ \A j \in 1 .. c : First(t, c)[j] = t[j]
      BY FirstIs
    <2>4. /\ v \in Seq(A) /\ Len(v) = Len(s) + c
          /\ \A i \in 1 .. Len(s) + c : v[i] = IF i <= Len(s) THEN s[i] ELSE First(t, c)[i - Len(s)]
      BY <2>3, ConcatProperties
    <2> HIDE DEF v
    <2>5. ASSUME NEW j \in 1 .. m PROVE u[j] = v[j]
      <3>1. j \in 1 .. Len(s) + Len(t) /\ (~(j <= Len(s)) => j - Len(s) \in 1 .. c)
        BY <1>2
      <3> QED
        BY <1>1, <2>3, <2>4, <3>1
    <2> HIDE DEF m
    <2>6. First(u, m) = v
      BY <2>2, <2>4, <2>5, SeqEqual DEF m
    <2> QED
      BY <2>6 DEF m, v
  <1> QED
    BY <1>3, <1>4 DEF u

CutsSecond(s, t, c) == First(s \o t, Len(s) + c) = s \o First(t, c)

LEMMA FirstOfSecond ==
    ASSUME NEW A, NEW s \in Seq(A), NEW t \in Seq(A), NEW c \in 0 .. Len(t)
    PROVE  CutsSecond(s, t, c)
  <1>1. \A d \in 0 .. Len(t) : First(s \o t, Len(s) + d) = s \o First(t, d)
    BY FirstOfConcat
  <1> QED
    BY <1>1 DEF CutsSecond

CutAt(ss, k, c) ==
    \E i \in 1 .. k : \E d \in 1 .. Len(ss[i]) :
        First(FlattenSeq(First(ss, k)), c) = FlattenSeq(First(ss, i - 1)) \o First(ss[i], d)

\* Where a concatenation can be cut: within one of its sequences, or after it
LEMMA CutIs ==
    ASSUME NEW A, NEW ss \in Seq(Seq(A))
    PROVE  \A c \in 1 .. Len(FlattenSeq(ss)) : CutAt(ss, Len(ss), c)
  <1> DEFINE n == Len(ss)
             O(k) == FlattenSeq(First(ss, k))
             T == {k \in 0 .. n : \A c \in 1 .. Len(O(k)) : CutAt(ss, k, c)}
  <1>1. n \in Nat /\ (\A k \in 0 .. n : O(k) \in Seq(A)) /\ O(0) = <<>>
        /\ \A k \in 1 .. n : O(k) = O(k - 1) \o ss[k] /\ ss[k] \in Seq(A)
    BY LenProperties, FlattenIs, FlattenStep, ElementOfSeq
  <1> HIDE DEF O
  <1>2. 0 \in T
    <2>1. Len(O(0)) = 0
      BY <1>1, EmptySeq
    <2> QED
      BY <1>1, <2>1
  <1>3. ASSUME NEW k \in 1 .. n, k - 1 \in T PROVE k \in T
    <2>1. k - 1 \in 0 .. n /\ k \in 0 .. n
      BY <1>1
    <2>2. O(k - 1) \in Seq(A) /\ ss[k] \in Seq(A) /\ O(k) = O(k - 1) \o ss[k]
      BY <1>1, <2>1
    <2>3. Len(O(k)) = Len(O(k - 1)) + Len(ss[k]) /\ Len(O(k - 1)) \in Nat /\ Len(ss[k]) \in Nat
      BY <2>2, ConcatProperties, LenProperties
    <2>4. ASSUME NEW c \in 1 .. Len(O(k)) PROVE CutAt(ss, k, c)
      <3>1. CASE c <= Len(O(k - 1))
        <4>1. c \in 0 .. Len(O(k - 1)) /\ c \in 1 .. Len(O(k - 1))
          BY <2>3, <3>1
        <4>2. First(O(k), c) = First(O(k - 1), c)
          BY <2>2, <4>1, FirstOfConcat
        <4>3. CutAt(ss, k - 1, c)
          BY <1>3, <4>1
        <4>4. PICK i \in 1 .. k - 1 : \E d \in 1 .. Len(ss[i]) :
                 First(O(k - 1), c) = FlattenSeq(First(ss, i - 1)) \o First(ss[i], d)
          BY <4>3 DEF CutAt, O
        <4>5. i \in 1 .. k
          BY <1>1
        <4> QED
          BY <4>2, <4>4, <4>5 DEF CutAt, O
      <3>2. CASE ~(c <= Len(O(k - 1)))
        <4> DEFINE d == c - Len(O(k - 1))
        <4> HIDE DEF T
        <4>1. d \in 0 .. Len(ss[k]) /\ d \in 1 .. Len(ss[k]) /\ c = Len(O(k - 1)) + d
          <5> DEFINE l == Len(O(k - 1))
                     m == Len(ss[k])
          <5>1. l \in Nat /\ m \in Nat /\ c \in 1 .. l + m /\ ~(c <= l)
            BY <2>3, <3>2
          <5> HIDE DEF l, m
          <5>2. c - l \in 0 .. m /\ c - l \in 1 .. m /\ c = l + (c - l)
            BY <5>1
          <5> QED
            BY <5>2 DEF l, m
        <4> HIDE DEF d
        <4>2. First(O(k), c) = O(k - 1) \o First(ss[k], d)
          <5>1. First(O(k - 1) \o ss[k], Len(O(k - 1)) + d) = O(k - 1) \o First(ss[k], d)
            <6>1. CutsSecond(O(k - 1), ss[k], d)
              BY <2>2, <4>1, FirstOfSecond
            <6> QED
              BY <6>1 DEF CutsSecond
          <5> QED
            BY <2>2, <4>1, <5>1
        <4>3. k \in 1 .. k
          BY <1>1
        <4> QED
          BY <4>1, <4>2, <4>3 DEF CutAt, O
      <3> QED
        BY <3>1, <3>2
    <2> QED
      BY <2>1, <2>4
  <1> HIDE DEF T
  <1>4. n \in T
    <2>1. \A k \in 0 .. n : k \in T
      BY <1>1, <1>2, <1>3, Reaches
    <2> QED
      BY <1>1, <2>1
  <1>5. First(ss, n) = ss
    BY FirstGrows
  <1> QED
    BY <1>4, <1>5 DEF T, O

\* Where the elements of a concatenation are
FlattensAt(ss, i, j) ==
    /\ Len(FlattenSeq(First(ss, i - 1))) + j <= Len(FlattenSeq(ss))
    /\ FlattenSeq(ss)[Len(FlattenSeq(First(ss, i - 1))) + j] = ss[i][j]

LEMMA FlattenKeeps ==
    ASSUME NEW A, NEW ss \in Seq(Seq(A)), NEW i \in 0 .. Len(ss)
    PROVE  LET o == FlattenSeq(First(ss, i)) IN
           /\ Len(o) <= Len(FlattenSeq(ss)) /\ Len(o) \in Nat /\ Len(FlattenSeq(ss)) \in Nat
           /\ \A j \in 1 .. Len(o) : FlattenSeq(ss)[j] = o[j]
  <1> DEFINE n == Len(ss)
             O(k) == FlattenSeq(First(ss, k))
             T == {k \in 0 .. n : k >= i => /\ Len(O(i)) <= Len(O(k))
                                            /\ \A j \in 1 .. Len(O(i)) : O(k)[j] = O(i)[j]}
  <1>1. n \in Nat /\ (\A k \in 0 .. n : O(k) \in Seq(A) /\ Len(O(k)) \in Nat)
        /\ \A k \in 1 .. n : O(k) = O(k - 1) \o ss[k] /\ ss[k] \in Seq(A)
    BY LenProperties, FlattenIs, FlattenStep, ElementOfSeq
  <1>2. O(n) = FlattenSeq(ss)
    BY FirstGrows
  <1> HIDE DEF O
  <1>3. 0 \in T
    <2>1. 0 \in 0 .. n /\ (0 >= i => i = 0)
      BY <1>1
    <2> QED
      BY <1>1, <2>1
  <1>4. ASSUME NEW k \in 1 .. n, k - 1 \in T PROVE k \in T
    <2>1. k - 1 \in 0 .. n /\ k \in 0 .. n
      BY <1>1
    <2>2. CASE k = i
      BY <1>1, <2>1, <2>2
    <2>3. CASE k # i
      <3> SUFFICES ASSUME k >= i PROVE /\ Len(O(i)) <= Len(O(k))
                                       /\ \A j \in 1 .. Len(O(i)) : O(k)[j] = O(i)[j]
        BY <2>1
      <3>1. k - 1 >= i
        BY <1>1, <2>3
      <3>2. Len(O(i)) <= Len(O(k - 1)) /\ \A j \in 1 .. Len(O(i)) : O(k - 1)[j] = O(i)[j]
        BY <1>4, <3>1
      <3>3. O(k - 1) \in Seq(A) /\ ss[k] \in Seq(A) /\ O(k) = O(k - 1) \o ss[k]
        BY <1>1, <2>1
      <3>4. /\ Len(O(k)) = Len(O(k - 1)) + Len(ss[k]) /\ Len(ss[k]) \in Nat
            /\ \A j \in 1 .. Len(O(k - 1)) + Len(ss[k]) :
                  O(k)[j] = IF j <= Len(O(k - 1)) THEN O(k - 1)[j] ELSE ss[k][j - Len(O(k - 1))]
        <4> HIDE DEF T
        <4>1. /\ Len(O(k - 1) \o ss[k]) = Len(O(k - 1)) + Len(ss[k])
              /\ \A j \in 1 .. Len(O(k - 1)) + Len(ss[k]) :
                    (O(k - 1) \o ss[k])[j] =
                        IF j <= Len(O(k - 1)) THEN O(k - 1)[j] ELSE ss[k][j - Len(O(k - 1))]
          BY <3>3, ConcatProperties
        <4>2. Len(ss[k]) \in Nat
          BY <3>3, LenProperties
        <4> QED
          BY <3>3, <4>1, <4>2
      <3> DEFINE a == Len(O(i))
                 b == Len(O(k - 1))
                 c == Len(ss[k])
      <3>5. a \in Nat /\ b \in Nat /\ c \in Nat /\ a <= b
        BY <1>1, <2>1, <3>2, <3>4
      <3> HIDE DEF a, b, c, T
      <3>6. a <= b + c /\ \A j \in 1 .. a : j \in 1 .. b + c /\ j <= b
        BY <3>5
      <3>7. Len(O(i)) <= Len(O(k))
        BY <3>4, <3>6 DEF a, b, c
      <3>8. \A j \in 1 .. a : O(k)[j] = O(k - 1)[j]
        BY <3>4, <3>6 DEF b, c
      <3> QED
        BY <3>2, <3>7, <3>8 DEF a
    <2> QED
      BY <2>2, <2>3
  <1> HIDE DEF T
  <1>5. n \in T
    <2>1. \A k \in 0 .. n : k \in T
      BY <1>1, <1>3, <1>4, Reaches
    <2> QED
      BY <1>1, <2>1
  <1>6. n >= i /\ n \in 0 .. n
    BY <1>1
  <1>7. Len(O(i)) <= Len(O(n)) /\ \A j \in 1 .. Len(O(i)) : O(n)[j] = O(i)[j]
    BY <1>5, <1>6 DEF T
  <1>8. Len(O(i)) \in Nat /\ Len(O(n)) \in Nat
    BY <1>1, <1>6
  <1> QED
    BY <1>2, <1>7, <1>8 DEF O

LEMMA FlattenAt ==
    ASSUME NEW A, NEW ss \in Seq(Seq(A)), NEW i \in 1 .. Len(ss), NEW j \in 1 .. Len(ss[i])
    PROVE  FlattensAt(ss, i, j)
  <1> DEFINE o == FlattenSeq(First(ss, i - 1))
             p == FlattenSeq(First(ss, i))
             f == FlattenSeq(ss)
  <1>1. Len(ss) \in Nat /\ i - 1 \in 0 .. Len(ss) /\ i \in 0 .. Len(ss) /\ ss[i] \in Seq(A)
    BY LenProperties, ElementOfSeq
  <1>2. o \in Seq(A) /\ p = o \o ss[i]
    BY <1>1, FlattenIs, FlattenStep
  <1>3. Len(p) <= Len(f) /\ Len(p) \in Nat /\ Len(f) \in Nat
        /\ \A k \in 1 .. Len(p) : f[k] = p[k]
    BY <1>1, FlattenKeeps
  <1> HIDE DEF o, p, f
  <1>4. /\ Len(p) = Len(o) + Len(ss[i]) /\ Len(o) \in Nat /\ Len(ss[i]) \in Nat
        /\ \A k \in 1 .. Len(o) + Len(ss[i]) :
              p[k] = IF k <= Len(o) THEN o[k] ELSE ss[i][k - Len(o)]
    BY <1>1, <1>2, ConcatProperties, LenProperties
  <1> DEFINE a == Len(o)
             b == Len(ss[i])
             c == Len(f)
  <1>5. a \in Nat /\ b \in Nat /\ c \in Nat /\ a + b <= c /\ j \in 1 .. b
    BY <1>3, <1>4
  <1> HIDE DEF a, b, c
  <1>6. a + j <= c /\ a + j \in 1 .. a + b /\ ~(a + j <= a) /\ (a + j) - a = j
    BY <1>5
  <1>7. p[a + j] = ss[i][j]
    BY <1>4, <1>6 DEF a, b
  <1>8. f[a + j] = p[a + j]
    BY <1>3, <1>4, <1>6 DEF a, b
  <1>9. a + j <= c /\ f[a + j] = ss[i][j]
    BY <1>6, <1>7, <1>8
  <1> QED
    BY <1>9 DEF FlattensAt, a, c, o, f

-----------------------------------------------------------------------------
(* Orders.  An order is given as the set of its pairs, as in a lemma that  *)
(* is used for several of them.                                            *)

PairsOf(S, Precedes(_, _)) == {q \in S \X S : Precedes(q[1], q[2])}
Ahead(S, R, x)             == {y \in S : <<y, x>> \in R}

StrictOrder(S, R) ==
    /\ \A x \in S : <<x, x>> \notin R
    /\ \A x, y, z \in S : <<x, y>> \in R /\ <<y, z>> \in R => <<x, z>> \in R
    /\ \A x, y \in S : <<x, y>> \in R \/ <<y, x>> \in R \/ x = y

\* More rows come before a row than before one that comes before it.
LEMMA RankGrows ==
    ASSUME NEW S, IsFiniteSet(S), NEW R, StrictOrder(S, R), NEW a \in S, NEW b \in S,
           <<a, b>> \in R
    PROVE  Cardinality(Ahead(S, R, a)) < Cardinality(Ahead(S, R, b))
  <1>1. IsFiniteSet(Ahead(S, R, a)) /\ IsFiniteSet(Ahead(S, R, b))
    <2>1. Ahead(S, R, a) \in SUBSET S /\ Ahead(S, R, b) \in SUBSET S
      BY DEF Ahead
    <2> QED
      BY <2>1, FS_Subset
  <1>2. Ahead(S, R, a) \in SUBSET Ahead(S, R, b)
    BY DEF Ahead, StrictOrder
  <1>3. a \in Ahead(S, R, b) /\ a \notin Ahead(S, R, a)
    BY DEF Ahead, StrictOrder
  <1>4. Ahead(S, R, a) # Ahead(S, R, b)
    BY <1>3
  <1>5. /\ Cardinality(Ahead(S, R, a)) <= Cardinality(Ahead(S, R, b))
        /\ Cardinality(Ahead(S, R, a)) # Cardinality(Ahead(S, R, b))
    BY <1>1, <1>2, <1>4, FS_Subset
  <1>6. Cardinality(Ahead(S, R, a)) \in Nat /\ Cardinality(Ahead(S, R, b)) \in Nat
    BY <1>1, FS_CardinalityType
  <1> QED
    BY <1>5, <1>6

\* Every place in the order is that of one row.
LEMMA RankIsPlace ==
    ASSUME NEW S, IsFiniteSet(S), NEW R, StrictOrder(S, R)
    PROVE  /\ Cardinality(S) \in Nat
           /\ \A x \in S : Cardinality(Ahead(S, R, x)) \in 0 .. Cardinality(S) - 1
           /\ \A n \in 0 .. Cardinality(S) - 1 : \E x \in S : Cardinality(Ahead(S, R, x)) = n
  <1> DEFINE c == Cardinality(S)
             T == 0 .. c - 1
             rank == [x \in S |-> Cardinality(Ahead(S, R, x))]
  <1>1. c \in Nat
    BY FS_CardinalityType
  <1>2. IsFiniteSet(T) /\ Cardinality(T) = c
    <2>1. /\ IsFiniteSet(0 .. c - 1)
          /\ Cardinality(0 .. c - 1) = IF 0 > c - 1 THEN 0 ELSE c - 1 - 0 + 1
      <3>1. c - 1 \in Int
        BY <1>1
      <3> HIDE DEF c
      <3> QED
        BY <3>1, FS_Interval
    <2> QED
      BY <1>1, <2>1
  <1>3. ASSUME NEW x \in S PROVE rank[x] \in T
    <2>1. Ahead(S, R, x) \in SUBSET S /\ x \notin Ahead(S, R, x)
      BY DEF Ahead, StrictOrder
    <2>2. /\ Cardinality(Ahead(S, R, x)) <= c /\ IsFiniteSet(Ahead(S, R, x))
          /\ Cardinality(Ahead(S, R, x)) # c
      BY <2>1, FS_Subset
    <2>3. Cardinality(Ahead(S, R, x)) \in Nat
      BY <2>2, FS_CardinalityType
    <2> QED
      BY <1>1, <2>2, <2>3
  <1>4. rank \in Injection(S, T)
    <2>1. ASSUME NEW a \in S, NEW b \in S, rank[a] = rank[b] PROVE a = b
      <3>1. <<a, b>> \in R \/ <<b, a>> \in R \/ a = b
        BY DEF StrictOrder
      <3>2. Cardinality(Ahead(S, R, a)) = Cardinality(Ahead(S, R, b))
        BY <2>1
      <3>3. Cardinality(Ahead(S, R, a)) \in Int
        BY <1>1, <1>3
      <3> HIDE DEF rank, T, c
      <3>4. /\ ~(Cardinality(Ahead(S, R, a)) < Cardinality(Ahead(S, R, b)))
            /\ ~(Cardinality(Ahead(S, R, b)) < Cardinality(Ahead(S, R, a)))
        BY <3>2, <3>3
      <3>5. <<a, b>> \notin R /\ <<b, a>> \notin R
        BY <3>4, RankGrows
      <3> QED
        BY <3>1, <3>5
    <2>2. rank \in [S -> T]
      BY <1>3
    <2> HIDE DEF rank, T
    <2> QED
      BY <2>1, <2>2 DEF Injection, IsInjective
  <1>5. rank \in Surjection(S, T)
    <2> HIDE DEF rank, T, c
    <2> QED
      BY <1>2, <1>4, FS_Injection DEF c
  <1>6. \A n \in T : \E x \in S : rank[x] = n
    <2> HIDE DEF rank, T
    <2> QED
      BY <1>5 DEF Surjection
  <1> QED
    BY <1>1, <1>3, <1>6

\* A sequence in which each row has its place has every row once, each before those that it
\* comes before.
LEMMA InOrderSorts ==
    ASSUME NEW S, IsFiniteSet(S), NEW R, StrictOrder(S, R), NEW s,
           s = [n \in 1 .. Cardinality(S) |-> s[n]],
           \A n \in 1 .. Cardinality(S) : \A x \in S :
               Cardinality(Ahead(S, R, x)) = n - 1 =>
                   s[n] \in S /\ Cardinality(Ahead(S, R, s[n])) = n - 1
    PROVE  /\ s \in [1 .. Cardinality(S) -> S] /\ Cardinality(S) \in Nat
           /\ \A x \in S : \E n \in 1 .. Cardinality(S) : s[n] = x
           /\ \A m, n \in 1 .. Cardinality(S) : m < n => <<s[m], s[n]>> \in R
  <1> DEFINE c == Cardinality(S)
  <1>1. c \in Nat
    BY RankIsPlace
  <1>2. ASSUME NEW n \in 1 .. c
        PROVE  s[n] \in S /\ Cardinality(Ahead(S, R, s[n])) = n - 1
    <2>1. n - 1 \in 0 .. c - 1
      BY <1>1
    <2>2. \E x \in S : Cardinality(Ahead(S, R, x)) = n - 1
      BY <2>1, RankIsPlace
    <2> QED
      BY <2>2
  <1>3. s \in [1 .. c -> S]
    BY <1>2
  <1>4. ASSUME NEW m \in 1 .. c, NEW n \in 1 .. c, m < n PROVE <<s[m], s[n]>> \in R
    <2>1. <<s[m], s[n]>> \in R \/ <<s[n], s[m]>> \in R \/ s[m] = s[n]
      BY <1>2 DEF StrictOrder
    <2>2. s[m] # s[n]
      BY <1>2, <1>4, <1>1
    <2>3. <<s[n], s[m]>> \notin R
      BY <1>1, <1>2, <1>4, RankGrows
    <2> QED
      BY <2>1, <2>2, <2>3
  <1>5. ASSUME NEW x \in S PROVE \E n \in 1 .. c : s[n] = x
    <2> DEFINE n == Cardinality(Ahead(S, R, x)) + 1
    <2>1. n \in 1 .. c /\ Cardinality(Ahead(S, R, x)) = n - 1
      BY <1>1, RankIsPlace
    <2>2. s[n] \in S /\ Cardinality(Ahead(S, R, s[n])) = n - 1
      BY <1>2, <2>1
    <2>3. <<s[n], x>> \notin R /\ <<x, s[n]>> \notin R
      <3> HIDE DEF n
      <3>1. n \in Int
        BY <2>1
      <3> QED
        BY <2>1, <2>2, <3>1, RankGrows
    <2> QED
      BY <2>1, <2>2, <2>3 DEF StrictOrder
  <1> QED
    BY <1>1, <1>3, <1>4, <1>5
=============================================================================
