----------------------------- MODULE MCUncrypt ------------------------------
(* Packages that fill the window and leave it again, in one piece and in     *)
(* pieces, one that fits in it, and an empty one.  Commands that fit the     *)
(* control block and one that does not, with all kinds of wipe packages.     *)
EXTENDS Uncrypt

MCLayouts ==
  {<<>>, <<4, 5>>, <<7, 8, 2, 3, 4, 9>>}

MCCommands ==
  {[options |-> 1, wipe |-> "full"], [options |-> 3, wipe |-> "empty"],
   [options |-> 2, wipe |-> "unreadable"]}

=============================================================================
