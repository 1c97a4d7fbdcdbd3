------------------------------- MODULE GitChanges -------------------------------
(***************************************************************************)
(* The changes of a Project's repository: listE2BChanges                   *)
(* (src/runtime/e2b-changes.ts) bounds the output of `git status -z', and  *)
(* parseGitStatusOutput (src/runtime/git-changes.ts) reads what is left.   *)
(*                                                                         *)
(* The output is a sequence of fields, each followed by Nul.  A field is   *)
(* the record of an entry, or the previous path after a renamed one.       *)
(***************************************************************************)
EXTENDS Naturals, Sequences, SequencesExt, Selections

CONSTANT MaxStatusEntries \* maxGitStatusEntries

ASSUME StatusAssumption == MaxStatusEntries \in Nat

Nul      == [kind |-> "nul"]
Field(s) == [kind |-> s]
NoField  == Field("none")

\* What a status line can say of an entry: a path can be unsupported, and of a renamed entry
\* the new one ("To"), the previous one ("From") or both.
Renames            == {"renamed", "renamedTo", "renamedFrom", "renamedBoth"}
GitStatuses        == {"changed", "ignored", "unsupported"} \cup Renames
UnsupportedEntries == {"unsupported", "renamedTo", "renamedFrom", "renamedBoth"}

\* The two fields of a renamed entry
RenamedRecord(s) == Field(IF s \in {"renamed", "renamedFrom"} THEN "renamed" ELSE "renamedTo")
PreviousPath(s)  == Field(IF s \in {"renamed", "renamedTo"} THEN "previous" ELSE "badPrevious")

\* What git prints
StatusOutput(ss) ==
    FlattenSeq([i \in 1 .. Len(ss) |->
                  IF ss[i] \in Renames THEN <<RenamedRecord(ss[i]), Nul, PreviousPath(ss[i]), Nul>>
                  ELSE <<Field(ss[i]), Nul>>])

\* The previous path of a renamed entry is awaited at "previous", or at "dropped" if its path
\* is unsupported.
StatusInit(truncated) ==
    [entries |-> <<>>, truncated |-> truncated, unsupported |-> FALSE, mode |-> "record",
     open |-> NoField]

AwaitsPrevious(p) == p.mode \in {"previous", "dropped"}

\* Mutant: only the new path of a renamed entry is tested.
ReadFieldTestingPath(p, f) ==
    CASE p.mode \in {"stop", "invalid"} -> p
      [] p.mode = "previous" -> [p EXCEPT !.mode = "record", !.entries = Append(@, "renamed")]
      [] p.mode = "dropped"  -> [p EXCEPT !.mode = "record", !.unsupported = TRUE]
      [] p.mode = "record" /\ Len(p.entries) >= MaxStatusEntries ->
            [p EXCEPT !.mode = "stop", !.truncated = TRUE]
      [] OTHER ->
            CASE f.kind = "renamed"     -> [p EXCEPT !.mode = "previous"]
              [] f.kind = "renamedTo"   -> [p EXCEPT !.mode = "dropped"]
              [] f.kind = "ignored"     -> p
              [] f.kind = "unsupported" -> [p EXCEPT !.unsupported = TRUE]
              [] OTHER                  -> [p EXCEPT !.entries = Append(@, f.kind)]

\* One turn of the loop, for a field that has its Nul.  A renamed entry is added, or skipped,
\* when its previous path is known.
ReadField(p, f) ==
    CASE p.mode \in {"stop", "invalid"} -> p
      [] AwaitsPrevious(p) ->
            IF p.mode = "dropped" \/ f.kind = "badPrevious"
            THEN [p EXCEPT !.mode = "record", !.unsupported = TRUE]
            ELSE [p EXCEPT !.mode = "record", !.entries = Append(@, "renamed")]
      [] p.mode = "record" /\ Len(p.entries) >= MaxStatusEntries ->
            [p EXCEPT !.mode = "stop", !.truncated = TRUE]
      [] OTHER ->
            CASE f.kind = "renamed"     -> [p EXCEPT !.mode = "previous"]
              [] f.kind = "renamedTo"   -> [p EXCEPT !.mode = "dropped"]
              [] f.kind = "ignored"     -> p
              [] f.kind = "unsupported" -> [p EXCEPT !.unsupported = TRUE]
              [] f.kind \in {"previous", "badPrevious", "none"} -> [p EXCEPT !.mode = "invalid"]
              [] OTHER                  -> [p EXCEPT !.entries = Append(@, f.kind)]

\* A character of the output: Nul ends the field; at the end of the output a field without
\* one, or a renamed entry without its previous path, is what was cut off.
ReadStatus(p, c) ==
    IF c # Nul THEN [p EXCEPT !.open = c]
    ELSE [ReadField(p, p.open) EXCEPT !.open = NoField]

ParseGitStatusOutput(output, truncated) ==
    LET p == FoldLeft(ReadStatus, StatusInit(truncated), output)
    IN  [entries     |-> p.entries,
         truncated   |-> p.truncated \/ p.open # NoField \/ AwaitsPrevious(p),
         unsupported |-> p.unsupported,
         failed      |-> p.mode = "invalid"]

\* The output is cut after some character; git then ends by SIGPIPE, or had written it all.
ListChanges(output, cut, exit) ==
    LET truncated == cut < Len(output)
    IN  IF exit # 0 /\ ~(exit = 141 /\ truncated)
        THEN [entries |-> <<>>, truncated |-> FALSE, unsupported |-> FALSE, failed |-> TRUE]
        ELSE ParseGitStatusOutput(SubSeq(output, 1, cut), truncated)

-----------------------------------------------------------------------------
\* Wherever the output is cut, what is shown are the first entries whose paths are supported,
\* each one whole, and it is said whenever some are missing; no good output is refused.
ChangesAgree(ss, cut, exit) ==
    LET all    == Selected(ss, {"changed", "renamed"})
        result == ListChanges(StatusOutput(ss), cut, exit)
        whole  == cut = Len(StatusOutput(ss))
    IN  /\ result.failed <=> (exit = 128 \/ (exit = 141 /\ whole))
        /\ ~result.failed =>
              /\ IsPrefix(result.entries, all)
              /\ Len(result.entries) <= MaxStatusEntries
              /\ ~result.truncated => result.entries = all
              /\ whole /\ Len(all) <= MaxStatusEntries => result.entries = all
              /\ (whole /\ ~result.truncated) =>
                    (result.unsupported <=> \E i \in DOMAIN ss : ss[i] \in UnsupportedEntries)
=============================================================================
