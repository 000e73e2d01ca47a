--------------------------- MODULE MCUpdateVerifier -------------------------
(* Care maps for TLC: two partitions (blocks 0 .. 4 and 10 .. 12), and the files that *)
(* verify_image lets pass or refuses.                                                 *)
EXTENDS UpdateVerifier

Lines(pairs) == [legacy |-> FALSE, pairs |-> pairs]
Legacy == [legacy |-> TRUE, pairs |-> <<<<0, 2>>>>]

File(parts) == [file |-> TRUE, parts |-> parts]
NoFile == [file |-> FALSE, parts |-> <<>>]

MCCareMaps ==
  {NoFile, File(<<>>), File(<<Legacy>>), File(<<Lines(<<<<3, 3>>>>)>>),
   File(<<Lines(<<<<0, 2>>, <<3, 5>>, <<2, 3>>>>), Lines(<<<<10, 13>>>>)>>),
   File(<<Lines(<<<<0, 1>>>>), Legacy>>)}

MCBlocks == (0 .. 4) \cup (10 .. 12)
=============================================================================
