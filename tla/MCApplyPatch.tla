---------------------------- MODULE MCApplyPatch ----------------------------
(***************************************************************************)
(* Three patches over three partitions: one from a partition to another,   *)
(* then two in place, the first of which overwrites the source of the one  *)
(* before; and a flash.  There is room for one copy on /cache, and the   *)
(* first file that is deleted makes too little for a second.               *)
(***************************************************************************)
EXTENDS ApplyPatch

MCPartitions == {"boot", "recovery", "system", "radio"}
MCImages == {"b1", "b2", "r1", "r2", "s1", "s2", "m1", "m2"}
MCInitialImage == [p \in MCPartitions |->
  CASE p = "boot" -> "b1" [] p = "recovery" -> "r1" [] p = "system" -> "s1"
       [] p = "radio" -> "m1"]

MCLitter == <<2, 1, 1>>

MCPatches ==
  << [op |-> "patch", src |-> "boot", tgt |-> "recovery", from |-> "b1", to |-> "r2"],
     [op |-> "patch", src |-> "boot", tgt |-> "boot", from |-> "b1", to |-> "b2"],
     [op |-> "patch", src |-> "system", tgt |-> "system", from |-> "s1", to |-> "s2"],
     [op |-> "flash", src |-> "radio", tgt |-> "radio", from |-> "m1", to |-> "m2"] >>

=============================================================================
