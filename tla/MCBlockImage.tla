---------------------------- MODULE MCBlockImage ----------------------------
(***************************************************************************)
(* Small transfer lists over a partition of five blocks, for TLC.          *)
(***************************************************************************)
EXTENDS BlockImageVerify

MCBlocks == 0 .. 4

MCContents == {"A", "B", "C", "D", "E", "X", "Y", "N", "0", "junk"}

MCSource == [b \in MCBlocks |-> <<"A", "B", "C", "D", "E">>[b + 1]]

\* At place p of the buffer, block k of stash id.
From(p, id, k) == [q \in {p} |-> [id |-> id, at |-> k]]

Move(t, s, u, h) ==
  [op |-> "move", tgt |-> t, tgthash |-> h, src |-> s, use |-> u, srchash |-> h]

Diff(t, th, s, u, h) ==
  [op |-> "diff", tgt |-> t, tgthash |-> th, src |-> s, use |-> u, srchash |-> h]

StashCmd(id, s) ==
  [op |-> "stash", tgt |-> <<>>, tgthash |-> <<>>, src |-> s, use |-> <<>>, srchash |-> id]

Free(id) ==
  [op |-> "free", tgt |-> <<>>, tgthash |-> <<>>, src |-> <<>>,
   use |-> [k \in DOMAIN id |-> [id |-> id, at |-> k]], srchash |-> id]

Fill(op, t, th) ==
  [op |-> op, tgt |-> t, tgthash |-> th, src |-> <<>>, use |-> <<>>, srchash |-> <<>>]

\* A file of two blocks moves up by one over a block that a patch needs.
ShiftUp ==
  [total |-> 4, maxstash |-> 3, cmds |->
    << Fill("erase", <<4>>, <<"junk">>),
       StashCmd(<<"C">>, <<2>>),
       Move(<<1, 2>>, <<0, 1>>, <<>>, <<"A", "B">>),
       Diff(<<0>>, <<"X">>, <<>>, From(1, <<"C">>, 1), <<"C">>),
       Free(<<"C">>),
       Fill("new", <<3>>, <<"N">>) >>]

\* A patch from a stash and from a block it overwrites, into two ranges.
PatchMixed ==
  [total |-> 4, maxstash |-> 3, cmds |->
    << StashCmd(<<"B">>, <<1>>),
       Fill("zero", <<1>>, <<"0">>),
       Diff(<<3, 0>>, <<"X", "Y">>, [p \in {2} |-> 3], From(1, <<"B">>, 1), <<"B", "D">>),
       Free(<<"B">>),
       Move(<<4>>, <<2>>, <<>>, <<"C">>) >>]

\* Two blocks change places, without a command that overlaps itself.
Swap ==
  [total |-> 3, maxstash |-> 1, cmds |->
    << StashCmd(<<"A">>, <<0>>),
       Move(<<0>>, <<1>>, <<>>, <<"B">>),
       Move(<<1>>, <<>>, From(1, <<"A">>, 1), <<"A">>),
       Free(<<"A">>),
       Fill("new", <<2>>, <<"N">>) >>]

\* Two stashes, of which the list keeps only one at a time.
TwoStashes ==
  [total |-> 3, maxstash |-> 1, cmds |->
    << StashCmd(<<"A">>, <<0>>),
       Move(<<3>>, <<>>, From(1, <<"A">>, 1), <<"A">>),
       Free(<<"A">>),
       StashCmd(<<"B">>, <<1>>),
       Fill("new", <<1>>, <<"N">>),
       Move(<<4>>, <<>>, From(1, <<"B">>, 1), <<"B">>),
       Free(<<"B">>) >>]

\* Nothing to write: the call returns before it looks at the commands.
Nothing == [total |-> 0, maxstash |-> 0, cmds |-> <<StashCmd(<<"A">>, <<0>>), Free(<<"A">>)>>]

AllLists == {ShiftUp, PatchMixed, Swap, Nothing}
NonOverlapping == {Swap, TwoStashes, Nothing}
WithOverlap == {ShiftUp, PatchMixed}

SourceOnly == {MCSource}
NoStash == {{}}

\* Any mixture of the old, new and damaged blocks of WithOverlap, and any of
\* its stash files.
NewContents == << {"X", "Y"}, {"A", "0"}, {"B"}, {"X", "N"}, {"C"} >>
AnyImage == {f \in [MCBlocks -> MCContents] :
               \A b \in MCBlocks : f[b] \in {MCSource[b], "junk"} \cup NewContents[b + 1]}
AnyStash == SUBSET {<<"B">>, <<"C">>, <<"A", "B">>, <<"B", "D">>}

ASSUME (\A l \in TransferLists : WellFormed(l)) /\ NoReuse
=============================================================================
