------------------------------ MODULE RangeSet ------------------------------
(***************************************************************************)
(* otautil/rangeset.cpp.  A RangeSet is a sequence of ranges <<first,      *)
(* second>>, with second not in the range; <<>> is the one that Parse      *)
(* returns for errors.                                                     *)
(***************************************************************************)
EXTENDS Integers, Sequences

\* The members of ss, one after another.
Concat(ss) ==
  LET upTo[n \in 0 .. Len(ss)] == IF n = 0 THEN <<>> ELSE upTo[n - 1] \o ss[n]
  IN  upTo[Len(ss)]

RangeBlocks(r) == r[2] - r[1]
RangeList(r) == [j \in 1 .. RangeBlocks(r) |-> r[1] + j - 1]

\* blocks(), which PushBack counts, and the blocks one by one.
BlockCount(rs) ==
  LET upTo[n \in 0 .. Len(rs)] == IF n = 0 THEN 0 ELSE upTo[n - 1] + RangeBlocks(rs[n])
  IN  upTo[Len(rs)]
BlockList(rs) == Concat([j \in DOMAIN rs |-> RangeList(rs[j])])

\* The constructor: no pair, or an empty or a negative one, clears the set.
MakeRangeSet(pairs) == IF \A j \in DOMAIN pairs : RangeBlocks(pairs[j]) > 0 THEN pairs ELSE <<>>

\* One turn of the loop that fills a group from the ranges that are left: all of the next
\* range, or the part of it that is needed.
FillTurn(s) ==
  LET r == Head(s.rest)
      cut == r[1] + s.needed
  IN  IF s.needed = 0 THEN s
      ELSE IF RangeBlocks(r) > s.needed
      THEN [buffer |-> Append(s.buffer, <<r[1], cut>>), rest |-> <<<<cut, r[2]>>>> \o Tail(s.rest),
            needed |-> 0]
      ELSE [buffer |-> Append(s.buffer, r), rest |-> Tail(s.rest),
            needed |-> s.needed - RangeBlocks(r)]

Fill(rest, needed) ==
  LET turn[n \in 0 .. Len(rest)] ==
        IF n = 0 THEN [buffer |-> <<>>, rest |-> rest, needed |-> needed] ELSE FillTurn(turn[n - 1])
  IN  turn[Len(rest)]

\* Mutant: the last group takes what is left.
GroupBlocksRest(blocks, n, g) == blocks \div n + (IF g = n THEN blocks % n ELSE 0)

\* blocks_per_group: evenly, the first groups have one more.
GroupBlocks(blocks, n, g) == blocks \div n + (IF g <= blocks % n THEN 1 ELSE 0)

\* The g-th group is filled from what the ones before it left.
FillGroup(s, needed) ==
  LET f == Fill(s.rest, needed)
  IN  [result |-> Append(s.result, f.buffer), rest |-> f.rest]

Split(rs, groups) ==
  LET n == IF BlockCount(rs) < groups THEN BlockCount(rs) ELSE groups
      fill[g \in 0 .. n] ==
        IF g = 0 THEN [result |-> <<>>, rest |-> rs]
        ELSE FillGroup(fill[g - 1], GroupBlocks(BlockCount(rs), n, g))
  IN  IF rs = <<>> \/ groups = 0 THEN <<>> ELSE fill[n].result

=============================================================================
