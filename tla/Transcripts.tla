---------------------------- MODULE Transcripts ----------------------------
(***************************************************************************)
(* Transcripts of object_store.rs and the diff of two of them in           *)
(* file_sync.rs.                                                           *)
(*                                                                         *)
(* A transcript has one line for every file, sorted by path, so it is a    *)
(* function from paths to what the line says of the file; its sha256, the  *)
(* snapshot id, is the transcript itself.  A line is split at every '|'    *)
(* when it is read back, and dropped unless it has six parts: files with a *)
(* '|' or a line break in their path are in the transcript and its id, but *)
(* not in what is parsed from it.  One kind of path is left out: after a   *)
(* line break it goes on with "F|", and its rest is read back as the line  *)
(* of another file.                                                        *)
(***************************************************************************)
EXTENDS FiniteSets

CONSTANTS
    Paths,
    Parsable,   \* the paths whose line can be read back
    Hashes,     \* sha256 of contents
    Metas       \* size, mode and mtime

ASSUME ParsableAssumption == Parsable \subseteq Paths

TranscriptEntry == [sha256 : Hashes, meta : Metas]

NoFile == [sha256 |-> "none"]
ASSUME NoFileAssumption == "none" \notin Hashes

Tree == [Paths -> TranscriptEntry \cup {NoFile}]
EmptyTree == [f \in Paths |-> NoFile]

Files(tree) == {f \in Paths : tree[f] # NoFile}
Objects(tree) == {tree[f].sha256 : f \in Files(tree)}

parse_transcript(tree) == [f \in Paths |-> IF f \in Parsable THEN tree[f] ELSE NoFile]

-----------------------------------------------------------------------------

\* compute_diff on what is parsed: the entries by path, matched by path and
\* compared by their hash.
compute_diff(old, new) ==
    LET was == parse_transcript(old)
        is == parse_transcript(new)
    IN  [added    |-> {<<f, is[f]>> : f \in Files(is) \ Files(was)},
         removed  |-> {<<f, was[f]>> : f \in Files(was) \ Files(is)},
         modified |-> {<<f, was[f], is[f]>> :
                          f \in {g \in Files(was) \cap Files(is) : was[g].sha256 # is[g].sha256}}]

is_empty(diff) == diff.added = {} /\ diff.removed = {} /\ diff.modified = {}

required_objects(diff) ==
    {e[2].sha256 : e \in diff.added} \cup {e[3].sha256 : e \in diff.modified}

-----------------------------------------------------------------------------

\* The tree that results when diff is applied to tree.
Patched(tree, diff) ==
    [f \in Paths |->
        IF \E e \in diff.added : e[1] = f
        THEN (CHOOSE e \in diff.added : e[1] = f)[2]
        ELSE IF \E e \in diff.modified : e[1] = f
        THEN (CHOOSE e \in diff.modified : e[1] = f)[3]
        ELSE IF \E e \in diff.removed : e[1] = f THEN NoFile ELSE tree[f]]

\* The same files with the same contents.
SameContents(s, t) == \A f \in Paths : s[f].sha256 = t[f].sha256
=============================================================================
