----------------------------- MODULE ChecksumTags -----------------------------
(***************************************************************************)
(* The tags of a command or response pattern: which orders of checksum tags *)
(* are legal, what the payload of a checksum is, and what can be rendered.  *)
(*                                                                          *)
(* A pattern is a sequence of tokens.  A token is a tag with an index: "x"  *)
(* for data, "start", "end" and "point" for checksums; or, with index 0,    *)
(* "text", or "group" for a capture group written out in the pattern.       *)
(***************************************************************************)
EXTENDS Naturals, Sequences, FiniteSets, SequencesExt

ChecksumTag == {"start", "end", "point"}
Token == [tag : ChecksumTag \cup {"x", "text", "group"}, n : Nat]

\* Position of a tag that does not occur.
NotFound == 0

\* Where a tag stands; of a tag that is repeated only the last one counts.
TagPosition(pattern, tag, k) ==
  LET at == {i \in DOMAIN pattern : pattern[i] = [tag |-> tag, n |-> k]}
  IN IF at = {} THEN NotFound ELSE Max(at)

ChecksumIndices(pattern) == {token.n : token \in {t \in ToSet(pattern) : t.tag \in ChecksumTag}}

parsePattern(pattern) ==
  [k \in ChecksumIndices(pattern) |->
     [tag \in ChecksumTag |-> TagPosition(pattern, tag, k)]]

-----------------------------------------------------------------------------
(* Validation of the map from an index to the positions of its tags *)

HasGaps(map) == DOMAIN map # 0..(Cardinality(DOMAIN map) - 1)

HasIncompleteEntries(map) == \E k \in DOMAIN map : \E tag \in ChecksumTag : map[k][tag] = NotFound

HasEndsBeforeStarts(map) == \E k \in DOMAIN map : map[k]["start"] >= map[k]["end"]

IsInside(position, entry) == entry["start"] <= position /\ position <= entry["end"]

\* A checksum that would be part of its own payload.
HasInfiniteLoops(map) == \E k \in DOMAIN map : IsInside(map[k]["point"], map[k])

\* Mutant: only checksums that contain each other are looked for.
HasNestingOrOverlaps_NotPoints(map) ==
  \E i, j \in DOMAIN map : i < j /\ \E tag \in {"start", "end"} : IsInside(map[j][tag], map[i])

\* Tags inside the payload of a checksum with a smaller index; the opposite,
\* a smaller index inside a greater one, is not looked for.
HasNestingOrOverlaps(map) ==
  \E i, j \in DOMAIN map : i < j /\ \E tag \in ChecksumTag : IsInside(map[j][tag], map[i])

\* Patterns for which validateChecksumPattern does not throw.
IsValidChecksumPattern(pattern) ==
  LET map == parsePattern(pattern) IN
    /\ ~HasGaps(map)
    /\ ~HasIncompleteEntries(map)
    /\ ~HasEndsBeforeStarts(map)
    /\ ~HasInfiniteLoops(map)
    /\ ~HasNestingOrOverlaps(map)

getNChecksums(pattern) == Cardinality(ChecksumIndices(pattern))

getChecksumPayloadSnippets(pattern) ==
  LET map == parsePattern(pattern)
  IN [i \in 1..getNChecksums(pattern) |->
        SubSeq(pattern, map[i - 1]["start"] + 1, map[i - 1]["end"] - 1)]

-----------------------------------------------------------------------------
(* Rendering by inja, which throws for a value it does not have *)

\* Can a pattern be rendered with values for n elements and nChecksums checksums?
IsRenderable(pattern, n, nChecksums) ==
  \A token \in ToSet(pattern) :
    /\ token.tag = "x" => token.n < n
    /\ token.tag \in ChecksumTag => token.n < nChecksums

\* doPreWrite computes the checksums in the order of their indices: the payload
\* of each is rendered with the values of those before it.
ArePayloadsRenderable(payloads, n) ==
  \A i \in DOMAIN payloads : IsRenderable(payloads[i], n, i - 1)

TagCount(pattern, tag) == Cardinality({i \in DOMAIN pattern : pattern[i].tag = tag})

\* Start tags rendered as "(" and end tags as ")" make a regular expression.
IsBalanced(pattern) ==
  /\ TagCount(pattern, "start") = TagCount(pattern, "end")
  /\ \A i \in DOMAIN pattern :
       TagCount(SubSeq(pattern, 1, i), "start") >= TagCount(SubSeq(pattern, 1, i), "end")

HasRepeatedTags(pattern) ==
  \E i, j \in DOMAIN pattern : i # j /\ pattern[i] = pattern[j] /\ pattern[i].tag \in ChecksumTag

=============================================================================
