------------------------------- MODULE Selections -------------------------------
(***************************************************************************)
(* What a filter keeps of a list, in its order, and what a sort makes of   *)
(* the members of a set                                                    *)
(***************************************************************************)
EXTENDS SequencesExt, FiniteSets, Naturals

Selected(s, S) == FoldLeft(LAMBDA kept, x : IF x \in S THEN Append(kept, x) ELSE kept, <<>>, s)

Sorted(S, Before(_, _)) ==
    CHOOSE s \in [1 .. Cardinality(S) -> S] :
        \A m, n \in 1 .. Cardinality(S) : m < n => Before(s[m], s[n])
=============================================================================
