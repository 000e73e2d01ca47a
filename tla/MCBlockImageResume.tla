------------------------- MODULE MCBlockImageResume -------------------------
(***************************************************************************)
(* The lists of MCBlockImage meet the assumptions of BlockImageResume, and *)
(* the updater is compared with Installation.                              *)
(***************************************************************************)
EXTENDS MCBlockImage, BlockImageResume, BlockImageInstall
=============================================================================
