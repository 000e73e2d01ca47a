----------------------------- MODULE BlockImage -----------------------------
(***************************************************************************)
(* The block-image updater (updater/blockimg.cpp): one partition, the      *)
(* transfer list that turns its old contents into the new ones, the stash  *)
(* files under /cache/recovery/<base> that make the transfer resumable,    *)
(* and the faults an update meets: I/O errors, the death of the updater,   *)
(* loss of power, stash files that rot or cannot be read for a while.      *)
(*                                                                         *)
(* SHA-1 is taken to be free of collisions, so a hash IS the contents it   *)
(* stands for: a sequence of block contents, one per 4096-byte block.  A   *)
(* stash file is named by the hash of what it holds, so its name is also   *)
(* such a sequence.                                                        *)
(*                                                                         *)
(* dev is what read() returns (the page cache), disk what has reached the  *)
(* flash; likewise stash and stashDisk for the stash directory.            *)
(***************************************************************************)
EXTENDS Integers, Sequences, FiniteSetsExt

CONSTANTS
  Blocks,         \* block numbers of the partition
  Contents,       \* contents a block can have
  Zero,           \* the contents of a zeroed block
  Junk,           \* a block that was discarded, torn or never loaded
  Source,         \* the image the package was made for: [Blocks -> Contents]
  TransferLists,  \* the transfer lists considered
  InitialImages,  \* the partition contents an installation may start from
  InitialStashes, \* the stash files an installation may start from
  CacheBlocks,    \* room for stash files on /cache, in blocks
  Faults,         \* which of "io", "kill", "power", "rot", "read" can happen
  MaxFaults       \* bound: how many faults a behaviour contains

Ops == {"move", "diff", "stash", "free", "zero", "new", "erase"}

(***************************************************************************)
(* A command of the transfer list.  tgt is the sequence of blocks of its   *)
(* target RangeSet and tgthash what they shall hold.  The source buffer    *)
(* has one place per element of srchash: src gives the places loaded from  *)
(* the partition and use the places loaded from a stash (which stash, and  *)
(* which block of it).  For stash and free, srchash is the stash id.       *)
(* bsdiff and imgdiff are both "diff".                                     *)
(***************************************************************************)
IsCommand(c) ==
  /\ c.op \in Ops
  /\ c.tgt \in Seq(Blocks)
  /\ c.tgthash \in Seq(Contents)
  /\ Len(c.tgt) = Len(c.tgthash)
  /\ (c.op \in {"move", "diff", "zero", "new", "erase"}) <=> (Len(c.tgt) > 0)
  /\ c.srchash \in Seq(Contents)
  /\ c.op = "move" => Len(c.srchash) = Len(c.tgt)
  /\ DOMAIN c.src \subseteq DOMAIN c.srchash
  /\ \A k \in DOMAIN c.src : c.src[k] \in Blocks
  /\ DOMAIN c.use = DOMAIN c.srchash \ DOMAIN c.src
  /\ \A k \in DOMAIN c.use :
       c.use[k].id \in Seq(Contents) /\ c.use[k].at \in DOMAIN c.use[k].id

(***************************************************************************)
(* A transfer list: the total of blocks to be written, the most blocks     *)
(* stashed at one time, and the commands.                                  *)
(***************************************************************************)
IsTransferList(l) ==
  /\ l.total \in Nat
  /\ l.maxstash \in Nat
  /\ \A i \in DOMAIN l.cmds : IsCommand(l.cmds[i])
  /\ l.cmds \in Seq({l.cmds[i] : i \in DOMAIN l.cmds})

ASSUME DataAssumption ==
  /\ Blocks \subseteq Nat
  /\ {Zero, Junk} \subseteq Contents
  /\ Source \in [Blocks -> Contents]
  /\ InitialImages \subseteq [Blocks -> Contents]
  /\ InitialStashes \subseteq SUBSET Seq(Contents)

\* A directory has finitely many files.
ASSUME StashAssumption == \A files \in InitialStashes : IsFiniteSet(files)

ASSUME ListAssumption == \A l \in TransferLists : IsTransferList(l)

ASSUME BoundAssumption == CacheBlocks \in Nat /\ MaxFaults \in Nat

-----------------------------------------------------------------------------
VARIABLES
  list,           \* the transfer list of the package being installed
  dev, disk,      \* the partition: as read, and as on flash
  stashDir,       \* the stash directory exists
  stash,          \* ids of the stash files in it
  stashDisk,      \* ids of the stash files the directory on flash has
  partial,        \* ids of the .partial files in it
  bad,            \* ids of the stash files whose contents rotted
  unreadable,     \* ids whose stat, open or read in LoadStash fails at present
  overlooked,     \* a stash that was there has been taken for missing (history)
  pc,             \* where the updater process is
  step,           \* how far the edify script is: begin, recover, verified
  is_retry,       \* the updater was started with "retry"
  stash_map,      \* id -> source blocks, static in the updater
  canwrite, createdstash, freestash, isunresumable, buffer, \* CommandParameters
  pos,            \* index of the command being executed
  wpos,           \* index in its target of the block to be written next
  rc,             \* return code of PerformBlockImageUpdate
  cause,          \* why the last call failed
  faults          \* faults so far

partition == <<dev, disk>>
cache     == <<stashDir, stash, stashDisk, partial, bad>>
reading   == <<unreadable, overlooked>>
process   == <<step, is_retry, stash_map>>
params    == <<canwrite, createdstash, freestash, isunresumable, buffer, pos, wpos>>
vars      == <<list, reading, partition, cache, pc, process, params, rc, cause, faults>>

Cmd == list.cmds[pos]

Reads(c)  == Range(c.src)
Writes(c) == Range(c.tgt)

\* RangeSet::Overlaps of the source and the target range.
Overlap(c) == Reads(c) \cap Writes(c) # {}

-----------------------------------------------------------------------------
(* Faults *)

Fault(f) ==
  /\ f \in Faults
  /\ faults < MaxFaults
  /\ faults' = faults + 1

(* A command function returns -1, or the fsync after it fails: goto pbiudone. *)
Abort(why) ==
  /\ pc' = "pbiudone"
  /\ cause' = why
  /\ UNCHANGED rc

-----------------------------------------------------------------------------
(* The stash *)

Size(ids) == MapThenSumSet(Len, ids)

(* CacheSizeCheck: /cache has room for n more blocks beside the files. *)
CacheSizeCheck(files, n) == Size(files) + Size(partial) + n =< CacheBlocks

\* Mutant: the source blocks are not verified.
MapVerifiesAlways(id) == id \in DOMAIN stash_map

(* VerifyBlocks(id, ...) on the blocks stash_map gives for the id. *)
MapVerifies(id) == [k \in DOMAIN stash_map[id] |-> dev[stash_map[id][k]]] = id

\* Mutant: a stash file is taken as it is.
LoadStashUnverified(id, verify) ==
  /\ id \notin unreadable
  /\ IF ~canwrite /\ id \in DOMAIN stash_map THEN MapVerifies(id) ELSE id \in stash

(* Whether LoadStash returns 0.  In verify mode an id of stash_map is read  *)
(* from its source blocks, and the stash file is not looked at.  A stash    *)
(* that cannot be read is as good as none.                                  *)
LoadStash(id, verify) ==
  /\ id \notin unreadable
  /\ IF ~canwrite /\ id \in DOMAIN stash_map
     THEN MapVerifies(id)
     ELSE id \in stash /\ (verify => id \notin bad)

(* LoadStash deletes a file whose verification fails. *)
StashAfterLoad(id) ==
  IF (canwrite \/ id \notin DOMAIN stash_map) /\ id \in bad \ unreadable
  THEN stash \ {id}
  ELSE stash

(* The block at place k of what a successful LoadStash put in the buffer. *)
StashBlock(id, k) ==
  IF (canwrite \/ id \notin DOMAIN stash_map) /\ id \in bad THEN Junk ELSE id[k]

(* WriteStash of an id beside the files of the directory, up to the rename: *)
(* .partial, fsync, rename.  The directory is fsynced at pc = "dirsync".    *)
(* An error leaves the .partial file.                                       *)
WriteStashDone(files, id) ==
  /\ CacheSizeCheck(files, Len(id))
  /\ pc' = "dirsync"
  /\ stash' = files \cup {id}
  /\ bad' = bad \ {id}
  /\ UNCHANGED <<stashDir, stashDisk, partial, rc, cause, faults>>

WriteStashNoSpace(files, id, checkspace) ==
  /\ ~CacheSizeCheck(files, Len(id))
  /\ Abort("space")
  /\ stash' = files
  /\ bad' = bad \cap files
  /\ partial' = IF checkspace THEN partial ELSE partial \cup {id}
  /\ UNCHANGED <<stashDir, stashDisk, faults>>

WriteStashError(files, id) ==
  /\ CacheSizeCheck(files, Len(id))
  /\ Fault("io")
  /\ Abort("io")
  /\ stash' = files
  /\ bad' = bad \cap files
  /\ partial' = partial \cup {id}
  /\ UNCHANGED <<stashDir, stashDisk>>

(* FreeStash: an unlink that no fsync of the directory follows. *)
FreeStash(id) ==
  /\ stash' = stash \ {id}
  /\ bad' = bad \ {id}
  /\ UNCHANGED <<stashDir, stashDisk, partial>>

-----------------------------------------------------------------------------
(* The command functions.  A command is at pc = "cmd" when its function is  *)
(* called, at "dirsync" inside WriteStash, at "seek" and "write" while it   *)
(* fills its target, at "free" when it has done so, and at "end" when its   *)
(* function has returned 0.                                                 *)

\* Mutant: only the first block is compared.
TargetDoneFirst(c) == c.tgt # <<>> /\ dev[c.tgt[1]] = c.tgthash[1]

\* Mutant: a command is done again whenever its source is there.
TargetDoneNever(c) == c.tgt = <<>>

(* The target already has the contents the command would give it. *)
TargetDone(c) == \A k \in DOMAIN c.tgt : dev[c.tgt[k]] = c.tgthash[k]

(* The buffer LoadSourceBlocks fills from the partition and from stashes.   *)
(* A stash that cannot be loaded is skipped; the caller's hash check finds  *)
(* the places it should have filled.                                        *)
LoadSourceBlocks(c) ==
  [k \in DOMAIN c.srchash |->
     IF k \in DOMAIN c.src
     THEN dev[c.src[k]]
     ELSE IF LoadStash(c.use[k].id, FALSE)
          THEN StashBlock(c.use[k].id, c.use[k].at)
          ELSE Junk]

(* LoadSrcTgtVersion3 returned 0: write in update mode, only note it in     *)
(* verify mode.                                                             *)
Proceed ==
  /\ pc' = IF canwrite THEN "seek" ELSE "free"
  /\ UNCHANGED <<cache, freestash, rc, cause, faults>>

(* Stashing the source of a command that overwrites it.  The space is       *)
(* checked before it is known whether the file exists already.              *)
StashOverlapping(id) ==
  \/ /\ CacheSizeCheck(stash, Len(id))
     /\ id \in stash
     /\ Proceed
  \/ /\ id \notin stash
     /\ WriteStashDone(stash, id)
     /\ freestash' = id
  \/ /\ WriteStashNoSpace(stash, id, TRUE)
     /\ UNCHANGED freestash
  \/ /\ id \notin stash
     /\ WriteStashError(stash, id)
     /\ UNCHANGED freestash

Uses(c) == {c.use[k].id : k \in DOMAIN c.use}

(* Valid source data is not available: the update cannot be resumed.  It    *)
(* makes no difference whether a stash is missing or could not be read.     *)
Unresumable(c) ==
  /\ isunresumable' = TRUE
  /\ overlooked' = (overlooked \/ unreadable \cap (Uses(c) \cup {c.srchash}) # {})
  /\ Abort("source")
  /\ stash' = IF Overlap(c) THEN StashAfterLoad(c.srchash) ELSE stash
  /\ bad' = bad \cap stash'
  /\ UNCHANGED <<stashDir, stashDisk, partial, freestash, faults>>

LoadSrcTgtVersion3(c) ==
  /\ \/ /\ TargetDone(c)
        /\ pc' = "free"
        /\ UNCHANGED <<overlooked, cache, freestash, isunresumable, buffer, rc, cause, faults>>
     \/ /\ ~TargetDone(c)
        /\ LoadSourceBlocks(c) = c.srchash
        /\ buffer' = LoadSourceBlocks(c)
        /\ IF Overlap(c) /\ canwrite THEN StashOverlapping(c.srchash) ELSE Proceed
        /\ UNCHANGED <<overlooked, isunresumable>>
     \/ /\ ~TargetDone(c)
        /\ LoadSourceBlocks(c) # c.srchash
        /\ Overlap(c) /\ LoadStash(c.srchash, TRUE)
        /\ buffer' = [k \in DOMAIN c.srchash |-> StashBlock(c.srchash, k)]
        /\ Proceed
        /\ UNCHANGED <<overlooked, isunresumable>>
     \/ /\ ~TargetDone(c)
        /\ LoadSourceBlocks(c) # c.srchash
        /\ ~(Overlap(c) /\ LoadStash(c.srchash, TRUE))
        /\ Unresumable(c)
        /\ UNCHANGED buffer
     \/ /\ Fault("io")
        /\ Abort("io")
        /\ UNCHANGED <<overlooked, cache, freestash, isunresumable, buffer>>
  /\ wpos' = 1
  /\ UNCHANGED <<list, unreadable, partition, process, canwrite, createdstash, pos>>

PerformCommandMove ==
  /\ pc = "cmd" /\ pos \in DOMAIN list.cmds /\ Cmd.op = "move"
  /\ LoadSrcTgtVersion3(Cmd)

PerformCommandDiff ==
  /\ pc = "cmd" /\ pos \in DOMAIN list.cmds /\ Cmd.op = "diff"
  /\ LoadSrcTgtVersion3(Cmd)

(* A stash whose source has unexpected contents is tolerated: the command   *)
(* that needs it may have completed in an earlier attempt.  A stash file    *)
(* that cannot be read is written again; a verification will look for it in *)
(* the source blocks from then on.                                          *)
PerformCommandStash ==
  LET id    == Cmd.srchash
      files == StashAfterLoad(id)
      data  == [k \in DOMAIN Cmd.src |-> dev[Cmd.src[k]]]
      remembered == [i \in DOMAIN stash_map \cup {id} |->
                       IF i = id THEN Cmd.src ELSE stash_map[i]]
  IN
  /\ pc = "cmd" /\ pos \in DOMAIN list.cmds /\ Cmd.op = "stash"
  /\ \/ /\ LoadStash(id, TRUE)
        /\ pc' = "end"
        /\ UNCHANGED <<overlooked, cache, stash_map, rc, cause, faults>>
     \/ /\ ~LoadStash(id, TRUE)
        /\ overlooked' = (overlooked \/ (~canwrite /\ id \in unreadable))
        /\ stash_map' = remembered
        /\ IF data = id /\ canwrite
           THEN \/ WriteStashDone(files, id)
                \/ WriteStashNoSpace(files, id, FALSE)
                \/ WriteStashError(files, id)
           ELSE /\ pc' = "end"
                /\ stash' = files
                /\ bad' = bad \cap files
                /\ UNCHANGED <<stashDir, stashDisk, partial, rc, cause, faults>>
     \/ /\ Fault("io")
        /\ Abort("io")
        /\ UNCHANGED <<overlooked, cache, stash_map>>
  /\ UNCHANGED <<list, unreadable, partition, step, is_retry, params>>

(* The fsync of the stash directory that ends WriteStash. *)
SyncStashDirectory ==
  /\ pc = "dirsync"
  /\ \/ /\ stashDisk' = stash
        /\ pc' = IF Cmd.op = "stash" THEN "end" ELSE "seek"
        /\ UNCHANGED <<rc, cause, faults>>
     \/ /\ Fault("io")
        /\ Abort("io")
        /\ UNCHANGED stashDisk
  /\ UNCHANGED <<list, reading, partition, stashDir, stash, partial, bad, process, params>>

\* Mutant: verification frees stashes too.
PerformCommandFreeAlways ==
  /\ pc = "cmd" /\ pos \in DOMAIN list.cmds /\ Cmd.op = "free"
  /\ stash_map' = [i \in DOMAIN stash_map \ {Cmd.srchash} |-> stash_map[i]]
  /\ FreeStash(Cmd.srchash)
  /\ pc' = "end"
  /\ UNCHANGED <<list, reading, partition, step, is_retry, params, rc, cause, faults>>

PerformCommandFree ==
  LET id == Cmd.srchash IN
  /\ pc = "cmd" /\ pos \in DOMAIN list.cmds /\ Cmd.op = "free"
  /\ stash_map' = [i \in DOMAIN stash_map \ {id} |-> stash_map[i]]
  /\ IF createdstash \/ canwrite THEN FreeStash(id) ELSE UNCHANGED cache
  /\ pc' = "end"
  /\ UNCHANGED <<list, reading, partition, step, is_retry, params, rc, cause, faults>>

(* zero, new and erase begin to fill their target in update mode; verify    *)
(* mode has no function for them.                                           *)
PerformCommandZeroNewErase ==
  /\ pc = "cmd" /\ pos \in DOMAIN list.cmds /\ Cmd.op \in {"zero", "new", "erase"}
  /\ pc' = IF canwrite THEN "seek" ELSE "end"
  /\ wpos' = 1
  /\ UNCHANGED <<list, reading, partition, cache, process, canwrite, createdstash,
                 freestash, isunresumable, buffer, pos, rc, cause, faults>>

-----------------------------------------------------------------------------
(* Filling the target, a block at a time: WriteBlocks, RangeSinkWriter and  *)
(* the loops of zero and erase.                                             *)

(* Places of the target from k to the end of the range that k is in. *)
RangeFrom(c, k) ==
  {m \in k .. Len(c.tgt) : \A j \in (k + 1) .. m : c.tgt[j] = c.tgt[j - 1] + 1}

(* A patch applied to anything but its source gives nothing useful. *)
Output(c, k) ==
  CASE c.op = "move" -> buffer[k]
    [] c.op = "diff" -> IF buffer = c.srchash THEN c.tgthash[k] ELSE Junk
    [] c.op = "zero" -> Zero
    [] OTHER         -> c.tgthash[k]

\* Mutant: off by one.
FilledPastEnd(c, next) ==
  pc' = IF next =< Len(c.tgt) + 1 THEN "seek" ELSE "free"

Filled(c, next) ==
  pc' = IF next =< Len(c.tgt)
        THEN IF next \in RangeFrom(c, next - 1) /\ c.op # "erase" THEN "write" ELSE "seek"
        ELSE "free"

(* At the start of a range: discard_blocks (only in a retry, but always for *)
(* erase), then seek.                                                       *)
SeekToOutputRange ==
  LET range == RangeFrom(Cmd, wpos) IN
  /\ pc = "seek"
  /\ \/ /\ dev' = IF is_retry \/ Cmd.op = "erase"
                  THEN [b \in Blocks |-> IF \E m \in range : Cmd.tgt[m] = b THEN Junk ELSE dev[b]]
                  ELSE dev
        /\ IF Cmd.op = "erase"
           THEN \E last \in range :
                  last + 1 \notin range /\ wpos' = last + 1 /\ Filled(Cmd, last + 1)
           ELSE pc' = "write" /\ UNCHANGED wpos
        /\ UNCHANGED <<rc, cause, faults>>
     \/ /\ Fault("io")
        /\ Abort("io")
        /\ UNCHANGED <<dev, wpos>>
  /\ UNCHANGED <<list, reading, disk, cache, process, canwrite, createdstash, freestash,
                 isunresumable, buffer, pos>>

WriteBlock ==
  /\ pc = "write"
  /\ \/ /\ dev' = [dev EXCEPT ![Cmd.tgt[wpos]] = Output(Cmd, wpos)]
        /\ wpos' = wpos + 1
        /\ Filled(Cmd, wpos + 1)
        /\ UNCHANGED <<rc, cause, faults>>
     \/ /\ Fault("io")
        /\ Abort("io")
        /\ \E part \in {dev[Cmd.tgt[wpos]], Junk} : dev' = [dev EXCEPT ![Cmd.tgt[wpos]] = part]
        /\ UNCHANGED wpos
  /\ UNCHANGED <<list, reading, disk, cache, process, canwrite, createdstash, freestash,
                 isunresumable, buffer, pos>>

(* The end of PerformCommandMove and PerformCommandDiff. *)
FreeOverlapping ==
  /\ pc = "free"
  /\ pc' = "end"
  /\ IF freestash # <<>> THEN FreeStash(freestash) ELSE UNCHANGED cache
  /\ freestash' = <<>>
  /\ UNCHANGED <<list, reading, partition, process, canwrite, createdstash, isunresumable,
                 buffer, pos, wpos, rc, cause, faults>>

\* Mutant: no fsync after the command.
EndCommandNoSync ==
  /\ pc = "end"
  /\ pc' = "cmd"
  /\ pos' = pos + 1
  /\ UNCHANGED <<list, reading, partition, cache, process, canwrite, createdstash, freestash,
                 isunresumable, buffer, wpos, rc, cause, faults>>

(* The fsync of the partition after every command of an update. *)
EndCommand ==
  /\ pc = "end"
  /\ \/ /\ disk' = IF canwrite THEN dev ELSE disk
        /\ pc' = "cmd"
        /\ pos' = pos + 1
        /\ UNCHANGED <<rc, cause, faults>>
     \/ /\ canwrite
        /\ Fault("io")
        /\ Abort("io")
        /\ UNCHANGED <<disk, pos>>
  /\ UNCHANGED <<list, reading, dev, cache, process, canwrite, createdstash, freestash,
                 isunresumable, buffer, wpos>>

-----------------------------------------------------------------------------
(* PerformBlockImageUpdate, and the script and the recovery that call it.   *)
(* The generated script verifies first (and once more after                 *)
(* block_image_recover) or goes straight to the update; a failed update     *)
(* ends the updater process.                                                *)

Return(write, code) ==
  IF write
  THEN pc' = "exited" /\ UNCHANGED step
  ELSE CASE code = 0                   -> pc' = "idle"   /\ step' = "verified"
         [] code # 0 /\ step = "begin" -> pc' = "idle"   /\ step' = "recover"
         [] OTHER                      -> pc' = "exited" /\ UNCHANGED step

\* Mutant: the .partial files of an interrupted run stay.
CreateStashKeepsPartial(dryrun) ==
  /\ stashDir' = TRUE
  /\ createdstash' = ~stashDir
  /\ rc' = -1
  /\ pc' = "cmd"
  /\ cause' = "none"
  /\ UNCHANGED <<step, stash, stashDisk, partial, bad>>

(* CreateStash deletes the .partial files and asks for the room that the    *)
(* existing stash files do not take already.                                *)
CreateStash(dryrun) ==
  LET needed == list.maxstash - Size(stash)
      room   == needed =< 0 \/ Size(stash) + needed =< CacheBlocks
  IN
  /\ stashDir' = TRUE
  /\ partial' = {}
  /\ createdstash' = ~stashDir
  /\ rc' = -1
  /\ IF room
     THEN pc' = "cmd" /\ cause' = "none" /\ UNCHANGED step
     ELSE Return(~dryrun, -1) /\ cause' = "space"
  /\ UNCHANGED <<stash, stashDisk, bad>>

(* The partition cannot be opened, or the stash directory not be made. *)
CannotBegin(dryrun) ==
  /\ Fault("io")
  /\ rc' = -1
  /\ cause' = "io"
  /\ createdstash' = FALSE
  /\ Return(~dryrun, -1)
  /\ UNCHANGED cache

PerformBlockImageUpdate(dryrun) ==
  /\ pc = "idle"
  /\ canwrite' = ~dryrun
  /\ freestash' = <<>>
  /\ isunresumable' = FALSE
  /\ buffer' = <<>>
  /\ pos' = 1
  /\ wpos' = 1
  /\ \/ /\ list.total = 0
        /\ rc' = 0
        /\ cause' = "none"
        /\ createdstash' = FALSE
        /\ Return(~dryrun, 0)
        /\ UNCHANGED <<cache, faults>>
     \/ list.total > 0 /\ CreateStash(dryrun) /\ UNCHANGED faults
     \/ CannotBegin(dryrun)
  /\ UNCHANGED <<list, reading, partition, is_retry, stash_map>>

BlockImageVerifyFn == step \in {"begin", "recover"} /\ PerformBlockImageUpdate(TRUE)

BlockImageUpdateFn == step \in {"begin", "verified"} /\ PerformBlockImageUpdate(FALSE)

(* The list is done: an update joins the thread and deletes the stash. *)
CommandsDone ==
  /\ pc = "cmd" /\ pos \notin DOMAIN list.cmds
  /\ pc' = IF canwrite THEN "delete" ELSE "pbiudone"
  /\ rc' = 0
  /\ UNCHANGED <<list, reading, partition, cache, process, params, cause, faults>>

(* DeleteStash, a file at a time and then the directory.  It is called when *)
(* the update is complete, before the final fsync, or at the very end.      *)
DeleteStash ==
  /\ pc = "delete"
  /\ \/ /\ \E id \in stash : FreeStash(id)
        /\ UNCHANGED <<pc, step>>
     \/ /\ stash = {}
        /\ stashDir' = FALSE
        /\ partial' = {}
        /\ IF canwrite /\ rc = 0 THEN pc' = "pbiudone" /\ UNCHANGED step ELSE Return(canwrite, rc)
        /\ UNCHANGED <<stash, stashDisk, bad>>
  /\ UNCHANGED <<list, reading, partition, is_retry, stash_map, params, rc, cause, faults>>

\* Mutant: the stash is deleted whatever the outcome.
PbiudoneDeletes ==
  /\ pc = "pbiudone"
  /\ disk' = dev
  /\ pc' = "delete"
  /\ UNCHANGED <<list, reading, dev, cache, process, params, rc, cause, faults>>

(* An error of this last fsync is only logged. *)
Pbiudone ==
  /\ pc = "pbiudone"
  /\ \/ disk' = dev /\ UNCHANGED faults
     \/ Fault("io") /\ UNCHANGED disk
  /\ IF isunresumable \/ (~canwrite /\ createdstash)
     THEN pc' = "delete" /\ UNCHANGED step
     ELSE Return(canwrite, rc)
  /\ UNCHANGED <<list, reading, dev, cache, is_retry, stash_map, params, rc, cause>>

(* Recovery starts the updater, again after it ended or died; "retry" is    *)
(* passed when the installation failed before.                              *)
StartUpdater ==
  /\ pc = "exited"
  /\ pc' = "idle"
  /\ step' = "begin"
  /\ is_retry' \in {FALSE, cause # "none"}
  /\ stash_map' = <<>>
  /\ UNCHANGED <<list, reading, partition, cache, params, rc, cause, faults>>

(* What the step at hand will stash: until the rename it is a .partial file. *)
Stashing ==
  {id \in {c.srchash : c \in Range(list.cmds)} :
     /\ pc = "cmd" /\ pos \in DOMAIN list.cmds /\ canwrite /\ id = Cmd.srchash
     /\ \/ Cmd.op = "stash"
        \/ Cmd.op \in {"move", "diff"} /\ Overlap(Cmd) /\ ~TargetDone(Cmd)
     /\ LoadSourceBlocks(Cmd) = id
     /\ id \notin stash \/ (Cmd.op = "stash" /\ id \in bad \cup unreadable)
     /\ CacheSizeCheck(stash, Len(id))}

(* The updater process dies; the page cache and /cache stay as they are. *)
Kill ==
  /\ pc # "exited"
  /\ Fault("kill")
  /\ pc' = "exited"
  /\ rc' = -1
  /\ cause' = "kill"
  /\ partial' \in {partial, partial \cup Stashing}
  /\ UNCHANGED <<list, reading, partition, stashDir, stash, stashDisk, bad, process, params>>

(* Of what was not yet fsynced, any part may have reached the flash; a      *)
(* block may be torn.  An unlinked stash file may be there again, and one   *)
(* that was renamed may be a .partial file again.                           *)
PowerLoss ==
  /\ Fault("power")
  /\ pc' = "exited"
  /\ rc' = -1
  /\ cause' = "power"
  /\ \E kept \in [{b \in Blocks : dev[b] # disk[b]} -> {"old", "new", "torn"}] :
       dev' = [b \in Blocks |->
                 IF b \notin DOMAIN kept \/ kept[b] = "new" THEN dev[b]
                 ELSE IF kept[b] = "old" THEN disk[b] ELSE Junk]
  /\ disk' = dev'
  /\ \E files \in SUBSET (stash \cup stashDisk) :
       /\ stash \cap stashDisk \subseteq files
       /\ stash' = files
  /\ stashDisk' = stash'
  /\ stashDir' = (stashDir \/ stash' # {})
  /\ bad' = bad \cap stash'
  /\ \E left \in SUBSET (Stashing \cup ((stash \ stashDisk) \ stash')) :
       partial' = partial \cup left
  /\ UNCHANGED <<list, reading, process, params>>

(* A stash file on /cache rots. *)
Rot ==
  /\ Fault("rot")
  /\ \E id \in stash : bad' = bad \cup {id}
  /\ UNCHANGED <<list, reading, partition, stashDir, stash, stashDisk, partial, pc, process,
                 params, rc, cause>>

(* Stashes become unreadable, or those that were can be read again. *)
Unreadable ==
  /\ \/ /\ Fault("read")
        /\ unreadable' \in SUBSET (stash \cup DOMAIN stash_map) \ {{}}
     \/ /\ unreadable # {}
        /\ unreadable' = {}
        /\ UNCHANGED faults
  /\ UNCHANGED <<list, overlooked, partition, cache, pc, process, params, rc, cause>>

Init ==
  /\ list \in TransferLists
  /\ dev \in InitialImages
  /\ disk = dev
  /\ stash \in InitialStashes
  /\ stashDisk = stash
  /\ stashDir = (stash # {})
  /\ partial = {}
  /\ bad = {}
  /\ unreadable = {}
  /\ overlooked = FALSE
  /\ pc = "exited"
  /\ step = "begin"
  /\ is_retry = FALSE
  /\ stash_map = <<>>
  /\ canwrite = FALSE
  /\ createdstash = FALSE
  /\ freestash = <<>>
  /\ isunresumable = FALSE
  /\ buffer = <<>>
  /\ pos = 1
  /\ wpos = 1
  /\ rc = -1
  /\ cause = "none"
  /\ faults = 0

Command ==
  \/ PerformCommandMove \/ PerformCommandDiff \/ PerformCommandStash
  \/ SyncStashDirectory \/ PerformCommandFree \/ PerformCommandZeroNewErase
  \/ SeekToOutputRange \/ WriteBlock \/ FreeOverlapping \/ EndCommand

Updater ==
  \/ BlockImageVerifyFn \/ BlockImageUpdateFn \/ Command
  \/ CommandsDone \/ DeleteStash \/ Pbiudone

Next == StartUpdater \/ Updater \/ Kill \/ PowerLoss \/ Rot \/ Unreadable

Spec == Init /\ [][Next]_vars

(* Recovery starts the updater again, and a live updater makes progress. *)
FairSpec == Spec /\ WF_vars(StartUpdater) /\ WF_vars(Updater)

-----------------------------------------------------------------------------
(* What the creator of a transfer list guarantees (comment before           *)
(* BlockImageVerifyFn), and what its hashes say about the source image.     *)

\* The command copies or patches, and can be skipped when it is complete.
Copies(c) == c.op \in {"move", "diff"}

Needs(c, id) ==
  \/ c.op = "stash" /\ c.srchash = id
  \/ Copies(c) /\ Overlap(c) /\ c.srchash = id
  \/ Copies(c) /\ \E k \in DOMAIN c.use : c.use[k].id = id

Frees(c, id) == c.op = "free" /\ c.srchash = id

(* No block is read after it has been written, none is written twice. *)
NoReadAfterWrite(cmds) ==
  \A i, j \in DOMAIN cmds :
    i < j => Writes(cmds[i]) \cap (Reads(cmds[j]) \cup Writes(cmds[j])) = {}

(* The hashes are those of the source image; a move writes what it reads. *)
HashesMatchSource(cmds) ==
  \A i \in DOMAIN cmds : LET c == cmds[i] IN
    /\ c.op \in {"move", "diff", "stash"} =>
         \A k \in DOMAIN c.srchash :
           c.srchash[k] = IF k \in DOMAIN c.src THEN Source[c.src[k]] ELSE c.use[k].id[c.use[k].at]
    /\ c.op = "stash" => DOMAIN c.src = DOMAIN c.srchash
    /\ c.op = "move" => c.tgthash = c.srchash
    /\ c.op = "zero" => \A k \in DOMAIN c.tgt : c.tgthash[k] = Zero
    /\ IsInjective(c.tgt)

(* A stash is loaded before it is used, and freed only after its last use. *)
StashedBeforeUse(cmds) ==
  \A i \in DOMAIN cmds : Copies(cmds[i]) =>
    \A k \in DOMAIN cmds[i].use :
      \E j \in 1 .. i - 1 :
        /\ cmds[j].op = "stash" /\ cmds[j].srchash = cmds[i].use[k].id
        /\ \A m \in j .. i - 1 : ~Frees(cmds[m], cmds[i].use[k].id)

(* Beyond what the comment says: an id that was freed is not needed again,  *)
(* neither by an explicit stash nor as the hash of an overlapping source.   *)
NoIdReuse(cmds) ==
  \A i, j \in DOMAIN cmds :
    (i < j /\ cmds[i].op = "free") => ~Needs(cmds[j], cmds[i].srchash)

WellFormed(l) ==
  /\ NoReadAfterWrite(l.cmds)
  /\ HashesMatchSource(l.cmds)
  /\ StashedBeforeUse(l.cmds)

-----------------------------------------------------------------------------
(* Properties *)

Installed == pc = "exited" /\ canwrite /\ rc = 0

Running == {"cmd", "dirsync", "seek", "write", "free", "end"}

(* What the control state says about the position in the list and in the    *)
(* target, and about the stash directory.                                   *)
ControlOK ==
  /\ pc \in Running \ {"cmd"} => pos \in DOMAIN list.cmds
  /\ pc \in {"seek", "write"} => wpos \in DOMAIN Cmd.tgt /\ canwrite
  /\ pc = "dirsync" =>
       /\ canwrite
       /\ Cmd.op = "stash" \/ (Cmd.op \in {"move", "diff"} /\ wpos \in DOMAIN Cmd.tgt)
  /\ pc \in {"dirsync", "seek", "write"} /\ Cmd.op = "move" => DOMAIN buffer = DOMAIN Cmd.tgt
  /\ pc \in Running => stashDir
  /\ ~stashDir => stash = {}

PartitionOK ==
  /\ list \in TransferLists
  /\ dev \in [Blocks -> Contents]
  /\ disk \in [Blocks -> Contents]

CacheOK ==
  /\ stashDir \in BOOLEAN
  /\ stash \subseteq Seq(Contents)
  /\ stashDisk \subseteq Seq(Contents)
  /\ partial \subseteq Seq(Contents)
  /\ bad \subseteq stash

ReadingOK ==
  /\ unreadable \subseteq Seq(Contents)
  /\ overlooked \in BOOLEAN

ProcessOK ==
  /\ pc \in Running \cup {"exited", "idle", "delete", "pbiudone"}
  /\ step \in {"begin", "recover", "verified"}
  /\ is_retry \in BOOLEAN
  /\ \A id \in DOMAIN stash_map :
       /\ id \in Seq(Contents)
       /\ \A k \in DOMAIN stash_map[id] : stash_map[id][k] \in Blocks

ParamsOK ==
  /\ canwrite \in BOOLEAN
  /\ createdstash \in BOOLEAN
  /\ freestash \in Seq(Contents)
  /\ isunresumable \in BOOLEAN
  /\ buffer \in Seq(Contents)
  /\ pos \in Nat \ {0}
  /\ wpos \in Nat \ {0}

OutcomeOK ==
  /\ rc \in {-1, 0}
  /\ cause \in {"none", "io", "space", "source", "kill", "power"}
  /\ faults \in 0 .. MaxFaults

(* The types of the variables, and the control state. *)
TypeOK ==
  PartitionOK /\ CacheOK /\ ReadingOK /\ ProcessOK /\ ParamsOK /\ OutcomeOK /\ ControlOK

(* Whatever interrupted an installation, the next attempt finds valid       *)
(* source data for every command that is not complete: LoadSrcTgtVersion3   *)
(* never has to declare the update unresumable.  The one exception is a     *)
(* stash that is there and is taken for missing, because a copy or a        *)
(* verification could not read it.                                          *)
Resumable == isunresumable => overlooked

(* When block_image_update returns "t", every block the list produces has   *)
(* its new contents on the flash itself, and no stash is left.              *)
SuccessMeansTarget ==
  Installed /\ list.total > 0 =>
    /\ \A i \in DOMAIN list.cmds : LET c == list.cmds[i] IN
         c.op # "erase" => \A k \in DOMAIN c.tgt : disk[c.tgt[k]] = c.tgthash[k]
    /\ stash = {}
    /\ ~stashDir

(* If block_image_verify returned "t" then the block_image_update that the  *)
(* script goes on to does not find the partition's contents unexpected,     *)
(* unless a fault came in between.                                          *)
VerifyPredicts == step = "verified" /\ canwrite /\ isunresumable => faults > 0

(* Data that was not verified is never written: whatever is in the source   *)
(* buffer when a command starts to fill its target, a stash file that was   *)
(* read without verification included, gives the target its new contents.   *)
OnlyVerifiedData ==
  pc \in {"seek", "write"} =>
    \A k \in DOMAIN Cmd.tgt : Output(Cmd, k) = Cmd.tgthash[k]

(* A move or a patch that is complete stays complete while the installation *)
(* is interrupted and started again: no later command and no retry (which   *)
(* discards ranges before it writes them) touches what it produced.  Only a *)
(* loss of power takes it back.  A command that is being written may happen *)
(* to have the right blocks in the page cache before it is through; it is   *)
(* complete if they are on the flash as well.                               *)
CompletedStays ==
  [][\A i \in DOMAIN list.cmds : LET c == list.cmds[i] IN
       /\ Copies(c) /\ cause' # "power"
       /\ \A k \in DOMAIN c.tgt : dev[c.tgt[k]] = c.tgthash[k]
       /\ i = pos /\ pc \in {"seek", "write"} =>
            \A k \in DOMAIN c.tgt : disk[c.tgt[k]] = c.tgthash[k]
       => \A k \in DOMAIN c.tgt : dev'[c.tgt[k]] = c.tgthash[k]]_vars

\* The stashes that the commands of the list make.
StashIds ==
  {c.srchash : c \in {c \in Range(list.cmds) : c.op = "stash" \/ (Copies(c) /\ Overlap(c))}}

\* /cache has room for all of them together, beside the files found at first, and
\* once more for the source of an overlapping command or for a stash that may be
\* there and unreadable.
RoomForAll ==
  \A files \in InitialStashes : LET needed == Size(files \cup StashIds) IN
    /\ needed =< CacheBlocks
    /\ \A c \in Range(list.cmds) :
         (Copies(c) /\ Overlap(c)) \/ (c.op = "stash" /\ "read" \in Faults) =>
           needed + Len(c.srchash) =< CacheBlocks

(* CreateStash asks for the most blocks that the list stashes at one time.  *)
(* An interrupted run may leave files that the list keeps at other times    *)
(* only, CacheSizeCheck counts a source that is stashed already again, and  *)
(* a stash that cannot be read is written beside its old file.              *)
(* With room for all of that no stash file ever fails to be written for     *)
(* lack of space, however often the update is interrupted.                  *)
SpaceSuffices == RoomForAll => ~(pc = "pbiudone" /\ cause = "space")

(* A verification run writes no block, and deletes a sound stash file only  *)
(* when it has found that the update cannot be resumed.                     *)
VerifyReadOnly ==
  [][(pc \notin {"exited", "idle"} /\ ~canwrite /\ faults' = faults) =>
       /\ dev' = dev
       /\ (~isunresumable) => stash \ bad \subseteq stash']_vars

(* Once the faults stop, an installation that is started again and again    *)
(* completes, unless a stash was taken for missing.                         *)
EventuallyInstalled == <>(Installed \/ overlooked)

=============================================================================
