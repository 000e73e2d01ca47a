------------------------- MODULE BlockImageInstall --------------------------
(***************************************************************************)
(* The block-image updater implements Installation.  The pieces are the    *)
(* commands of the list that give blocks new contents, and one is on the   *)
(* flash when all of its target is.                                        *)
(***************************************************************************)
EXTENDS BlockImage

OnFlash(c) == \A k \in DOMAIN c.tgt : disk[c.tgt[k]] = c.tgthash[k]

PiecesOf(ops) == {i \in DOMAIN list.cmds : list.total > 0 /\ list.cmds[i].op \in ops}

copies == PiecesOf({"move", "diff"})
fills  == PiecesOf({"zero", "new"})
flash  == {i \in copies \cup fills : OnFlash(list.cmds[i])}
phase  == IF pc # "exited" THEN "running" ELSE IF Installed THEN "installed" ELSE "stopped"

I == INSTANCE Installation
       WITH copies <- copies, fills <- fills, flash <- flash, phase <- phase

\* block_image_update keeps the promise of Installation through I/O errors, deaths
\* of the updater, losses of power and rotten stash files: what a move or a patch
\* has brought to the flash stays there through every later attempt, and "t" is
\* returned only when the whole list is on the flash.
InstallsImage == I!Spec

-----------------------------------------------------------------------------
(* Why: the strengthening that every step preserves, for lists that keep   *)
(* the creator's guarantees.                                                *)

ASSUME InstallAssumption == \A l \in TransferLists : WellFormed(l)

(* The command gives blocks new contents; the command is complete, in the   *)
(* page cache and on the flash.                                             *)
Makes(c)    == c.op \in {"move", "diff", "zero", "new"}
Complete(c) == TargetDone(c) /\ OnFlash(c)

AllComplete == \A i \in DOMAIN list.cmds : Makes(list.cmds[i]) => Complete(list.cmds[i])

(* A copy that is on the flash is not being changed in the page cache. *)
FlashStays ==
  \A i \in DOMAIN list.cmds :
    Copies(list.cmds[i]) /\ OnFlash(list.cmds[i]) => TargetDone(list.cmds[i])

(* A copy that fills its target has its source, and was not complete. *)
SourceInBuffer ==
  pc \in {"dirsync", "seek", "write"} /\ Copies(Cmd) => buffer = Cmd.srchash /\ ~OnFlash(Cmd)

(* The target is filled up to wpos, and then altogether. *)
FilledSoFar ==
  /\ pc \in {"seek", "write"} /\ Makes(Cmd) =>
       \A k \in 1 .. wpos - 1 : dev[Cmd.tgt[k]] = Cmd.tgthash[k]
  /\ canwrite /\ pc \in {"free", "end"} /\ Makes(Cmd) => TargetDone(Cmd)
  /\ pc = "dirsync" => wpos = 1 \/ Cmd.op = "stash"
  /\ pc \in {"seek", "write", "free"} => Cmd.op \in {"move", "diff", "zero", "new", "erase"}

(* The commands before the one at hand are complete. *)
CompleteBefore ==
  canwrite /\ pc \in Running =>
    \A i \in DOMAIN list.cmds : i < pos /\ Makes(list.cmds[i]) => Complete(list.cmds[i])

(* The result is 0 only when all are. *)
ResultEarned ==
  /\ pc \in Running => rc = -1 /\ list.total > 0 /\ ~isunresumable
  /\ canwrite /\ rc = 0 /\ list.total > 0 /\ pc \in {"delete", "pbiudone", "exited"} =>
       AllComplete /\ ~isunresumable
  /\ canwrite /\ rc = 0 /\ list.total > 0 /\ pc \in {"pbiudone", "exited"} =>
       stash = {} /\ ~stashDir

InstallInv ==
  TypeOK /\ FlashStays /\ SourceInBuffer /\ FilledSoFar /\ CompleteBefore /\ ResultEarned

=============================================================================
