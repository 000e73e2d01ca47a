---------------------------- MODULE Installation ----------------------------
(***************************************************************************)
(* What the installation of a transfer list promises, without the stash,   *)
(* the commands and the page cache: pieces of the new image reach the      *)
(* flash in attempts that may stop at any time.  A piece that was copied   *)
(* or patched never leaves the flash again, whatever stops the attempt; a  *)
(* piece that is filled from the package may be discarded and written      *)
(* again.  Success is reported only when every piece is there.             *)
(***************************************************************************)
VARIABLES
  copies, fills, \* the pieces, by how they are made
  flash,         \* the pieces that are on the flash
  phase          \* "stopped", "running" or "installed"

vars == <<copies, fills, flash, phase>>

Pieces == copies \cup fills

Init ==
  /\ copies \cap fills = {}
  /\ flash \subseteq Pieces
  /\ phase = "stopped"

\* Pieces come, and only pieces that are filled go.
Change == flash' \subseteq Pieces /\ flash \cap copies \subseteq flash'

Attempt == phase # "running" /\ phase' = "running" /\ UNCHANGED flash

Progress == phase = "running" /\ phase' = "running" /\ Change

Stop == phase' = "stopped" /\ Change

Complete == phase = "running" /\ phase' = "installed" /\ flash = Pieces /\ UNCHANGED flash

Next == (Attempt \/ Progress \/ Stop \/ Complete) /\ UNCHANGED <<copies, fills>>

Spec == Init /\ [][Next]_vars

=============================================================================
