------------------------------ MODULE ProjectPaths ------------------------------
(***************************************************************************)
(* Directories of a Project as list() shows them                           *)
(* (src/application/project-files.ts): the path is parsed, every step of   *)
(* it looked up in the listing of its parent, and the last one listed.     *)
(* The workspace is external: a set of entries [path, kind].  What lies    *)
(* behind a symlink to a directory can be listed too.                      *)
(***************************************************************************)
EXTENDS Naturals, Sequences, SequencesExt, FiniteSets, Selections

CONSTANTS EntryNames,          \* the names that entries have
          MaxPathDepth,        \* maxPathDepth
          MaxDirectoryEntries  \* maxDirectoryEntries

ASSUME PathsAssumption == IsFiniteSet(EntryNames) /\ MaxDirectoryEntries \in Nat

\* How kinds are ranked, and names: in the order of localeCompare, which is any; where it does
\* not tell two names apart, the sort leaves them as the Provider listed them.
EntryKinds   == {"directory", "file", "symlink"}
KindRank     == [kind \in EntryKinds |-> CASE kind = "directory" -> 1
                                           [] kind = "file" -> 2 [] OTHER -> 3]
LocaleRank   == CHOOSE f \in [EntryNames -> 1 .. Cardinality(EntryNames)] : IsInjective(f)

\* parseProjectPath
ParsesAsPath(segments) ==
    Len(segments) <= MaxPathDepth /\ ToSet(segments) \cap {"", ".", "..", ".git"} = {}

KindOf(tree, path) ==
    IF \E e \in tree : e.path = path THEN (CHOOSE e \in tree : e.path = path).kind ELSE "absent"

\* inspectPath: the loop ends with the first step that is not a directory.
InspectPath(tree, segments) ==
    LET inspected[n \in 1 .. Len(segments)] ==
          LET kind == KindOf(tree, SubSeq(segments, 1, n))
          IN  IF n > 1 /\ inspected[n - 1] # "directory" THEN inspected[n - 1]
              ELSE CASE kind = "absent"  -> "path_not_found"
                     [] kind = "symlink" -> "unsupported_path"
                     [] kind = "file"    -> IF n < Len(segments) THEN "path_not_found"
                                            ELSE "file"
                     [] OTHER            -> "directory"
    IN  inspected[Len(segments)]

\* listDirectory, and what isSafeEntry lets through
Children(tree, path) == {e \in tree : Len(e.path) = Len(path) + 1 /\ IsPrefix(path, e.path)}
Visible(entries)     == {e \in entries : Last(e.path) # ".git"}

\* compareEntries
Before(e, f) ==
    LET k == KindRank[e.kind]  l == KindRank[f.kind] IN
    k < l \/ (k = l /\ LocaleRank[Last(e.path)] < LocaleRank[Last(f.path)])

Refuses(kind) == [kind |-> kind, entries |-> <<>>, truncated |-> FALSE]

ListDirectory(tree, segments) ==
    LET entries == Sorted(Visible(Children(tree, segments)), Before)
        target  == IF segments = <<>> THEN "directory" ELSE InspectPath(tree, segments)
    IN  IF ~ParsesAsPath(segments) \/ target = "file" THEN Refuses("unsupported_path")
        ELSE IF target # "directory" THEN Refuses(target)
        ELSE [kind      |-> "ok",
              entries   |-> SubSeq(entries, 1, IF Len(entries) > MaxDirectoryEntries
                                               THEN MaxDirectoryEntries ELSE Len(entries)),
              truncated |-> Len(entries) > MaxDirectoryEntries]

-----------------------------------------------------------------------------
\* A directory is listed when every step to it is a directory itself, and never through a
\* symlink; its first entries are shown, directories first, each once, and it is said whether
\* there are more.  Nothing that is missing is told from a file on the way.
PathsAgree(tree, segments) ==
    LET answer == ListDirectory(tree, segments)
        Kinds  == [n \in 1 .. Len(segments) |-> KindOf(tree, SubSeq(segments, 1, n))]
        all    == Visible(Children(tree, segments))
    IN  /\ answer.kind = "ok" <=>
              ParsesAsPath(segments) /\ ToSet(Kinds) \subseteq {"directory"}
        /\ answer.kind = "ok" =>
              /\ ToSet(answer.entries) \subseteq all
              /\ Cardinality(ToSet(answer.entries)) = Len(answer.entries)
              /\ \A i \in DOMAIN answer.entries :
                    Cardinality({e \in all : Before(e, answer.entries[i])}) = i - 1
              /\ answer.truncated \/ ToSet(answer.entries) = all
              /\ answer.truncated => Len(answer.entries) = MaxDirectoryEntries
                                        /\ Cardinality(all) > MaxDirectoryEntries
        /\ answer.kind = "path_not_found" =>
              \E n \in DOMAIN Kinds :
                  /\ \A m \in 1 .. n - 1 : Kinds[m] = "directory"
                  /\ Kinds[n] = "absent" \/ (Kinds[n] = "file" /\ n < Len(segments))
=============================================================================
