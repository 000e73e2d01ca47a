----------------------------- MODULE ApplyPatch -----------------------------
(***************************************************************************)
(* applypatch/applypatch.cpp: an update script patches whole partitions,   *)
(* one after another.  Each source image is saved in cache_temp_source     *)
(* before its partition is overwritten, so that an interrupted update can  *)
(* be started again.  There is one such file for all the partitions, and   *)
(* freecache.cpp deletes other files of /cache to make room for it.  The   *)
(* applypatch tool can also flash an image that is a file.                 *)
(*                                                                         *)
(* A partition is a few chunks, each with the part of an image or junk in  *)
(* it, in the page cache (dev) and on the flash (disk).  SHA-1 tells an    *)
(* image from everything else.  /cache is a journaling file system: fsync  *)
(* of a new file makes its name durable too, an unlink needs no fsync to   *)
(* be visible but may be undone by a loss of power.  A partition fits in   *)
(* Chunks units of /cache.                                                 *)
(***************************************************************************)
EXTENDS Naturals, Sequences, FiniteSetsExt

CONSTANTS
  Partitions,
  Images,       \* the images the partitions hold before and after
  Junk,
  Patches,      \* the calls of the script or the tool: [op, src, tgt, from, to]
  Chunks,       \* chunks of a partition
  Sha1s,        \* whether the script gives apply_patch_check the hashes once more
  InitialImage, \* the image of each partition before the update
  Room,         \* the size of /cache
  Litter,       \* the sizes of the files in /cache that nobody has open, by name
  Faults,       \* which of "io", "flash", "patch", "kill" and "power" happen
  MaxFaults     \* bound: how many of them

\* A script patches a partition once, and after the patches that read it.
ASSUME ApplyPatchAssumption ==
  /\ Junk \notin Images
  /\ Patches \in Seq([op : {"patch", "flash"}, src : Partitions, tgt : Partitions,
                    from : Images, to : Images])
  /\ Chunks \in Nat \ {0} /\ Sha1s \in BOOLEAN
  /\ InitialImage \in [Partitions -> Images]
  /\ \A k \in DOMAIN Patches :
       Patches[k].from # Patches[k].to /\ InitialImage[Patches[k].src] = Patches[k].from
  /\ Patches # <<>>
  /\ \A i, j \in DOMAIN Patches : i < j =>
       /\ Patches[i].tgt # Patches[j].tgt
       /\ Patches[j].op = "patch" => Patches[i].tgt # Patches[j].src
  /\ Room \in Nat /\ Litter \in Seq(Nat)
  /\ Faults \subseteq {"io", "flash", "patch", "kill", "power"}
  /\ MaxFaults \in Nat

VARIABLES
  dev, disk,      \* the chunks of the partitions
  copy, copyDisk, \* cache_temp_source: the image saved in it, and how much of it
  litter,         \* the other files that are still there
  pc,
  k,              \* the patch at hand
  start, attempt, \* of WriteToPartition
  result,         \* of the script
  faults

partitions == <<dev, disk>>
cache == <<copy, copyDisk, litter>>
locals == <<k, start, attempt>>
vars == <<partitions, cache, pc, locals, result, faults>>

NoCopy == [of |-> Junk, len |-> 0]
Saved(v, n) == [of |-> v, len |-> n]

P == Patches[k]

\* LoadPartitionContents finds image v by its hash, LoadFileContents the copy.
Holds(p, v) == \A i \in 1 .. Chunks : dev[p][i] = v
CopyIs(v) == copy = Saved(v, Chunks)

\* The patch was already applied; its source is there, or a copy of it.  The source
\* of a flash is a file that nothing here changes.
Done(q) == Holds(q.tgt, q.to)
Source(q) == q.op = "flash" \/ Holds(q.src, q.from) \/ CopyIs(q.from)

Fault(f) == f \in Faults /\ faults < MaxFaults /\ faults' = faults + 1

Init ==
  /\ dev = [p \in Partitions |-> [i \in 1 .. Chunks |-> InitialImage[p]]]
  /\ disk = dev
  /\ copy = NoCopy /\ copyDisk = NoCopy /\ litter = DOMAIN Litter
  /\ pc = "exited" /\ k = 1 /\ start = 1 /\ attempt = 0 /\ result = "none"
  /\ faults = 0

-----------------------------------------------------------------------------
(* freecache.cpp *)

FreeSpace(files) == Room - (copy.len + MapThenSumSet(LAMBDA f : Litter[f], files))

\* The loop unlinks the files in the order of their names, until one is gone and
\* there is still too little room.
Unlinked(need) ==
  {f \in litter : \A g \in litter : g < f => FreeSpace({h \in litter : h > g}) >= need}

\* Mutant: the copy of the source is as good a file as any.
MakeFreeSpaceOnCacheCopyToo(need) ==
  IF FreeSpace(litter) >= need THEN UNCHANGED cache
  ELSE litter' = litter \ Unlinked(need) /\ copy' = NoCopy /\ copyDisk' = NoCopy

MakeFreeSpaceOnCache(need) ==
  /\ litter' = IF FreeSpace(litter) >= need THEN litter ELSE litter \ Unlinked(need)
  /\ UNCHANGED <<copy, copyDisk>>

-----------------------------------------------------------------------------
\* Recovery runs the script, for the first time or once more.
StartUpdater ==
  /\ pc = "exited"
  /\ pc' = "check" /\ k' = 1 /\ result' = "none"
  /\ UNCHANGED <<partitions, cache, start, attempt, faults>>

\* The script ends, because a function returned "" or because all is done.
Return(value) == pc' = "exited" /\ result' = value

\* Mutant: the copy is not looked for.
CheckedWithoutCopy(q) == Holds(q.tgt, q.from) \/ Holds(q.tgt, q.to)

\* apply_patch_check: the partition or the copy has an expected hash.  The hashes
\* in the partition's name are not looked at for the copy.
Checked(q) ==
  \/ Holds(q.tgt, q.from) \/ Holds(q.tgt, q.to)
  \/ Sha1s /\ (CopyIs(q.from) \/ CopyIs(q.to))

InPlace(q) == q.op = "patch" /\ q.src = q.tgt

\* The script asserts it for every partition that it patches in place.
ApplyPatchCheck ==
  /\ pc = "check"
  /\ \/ /\ IF \A i \in DOMAIN Patches : InPlace(Patches[i]) => Checked(Patches[i])
           THEN pc' = "space" /\ UNCHANGED result
           ELSE Return("")
        /\ UNCHANGED faults
     \/ Fault("io") /\ Return("")
  /\ UNCHANGED <<partitions, cache, locals>>

\* Room for one source is made and checked, or /proc cannot be read.
MakeRoom(to) ==
  \/ /\ MakeFreeSpaceOnCache(Chunks)
     /\ IF FreeSpace(litter') >= Chunks THEN pc' = to /\ UNCHANGED result ELSE Return("")
     /\ UNCHANGED faults
  \/ Fault("io") /\ Return("") /\ UNCHANGED cache

\* The script asserts apply_patch_space before it changes anything.
ApplyPatchSpace ==
  /\ pc = "space" /\ MakeRoom("apply")
  /\ UNCHANGED <<partitions, locals>>

\* The next patch, if there is one.
NextPatch ==
  IF k = Len(Patches) THEN Return("t") /\ UNCHANGED k
                      ELSE pc' = "apply" /\ k' = k + 1 /\ UNCHANGED result

\* applypatch: nothing to do; or, also when the target cannot be read, GenerateTarget
\* with the source or its copy; or no source.
ApplyPatch ==
  /\ pc = "apply" /\ P.op = "patch"
  /\ \/ Done(P) /\ NextPatch /\ UNCHANGED faults
     \/ /\ (~Done(P) /\ UNCHANGED faults) \/ Fault("io")
        /\ IF Source(P) THEN pc' = "room" /\ UNCHANGED result ELSE Return("")
        /\ UNCHANGED k
     \/ Fault("io") /\ Return("") /\ UNCHANGED k
  /\ UNCHANGED <<partitions, cache, start, attempt>>

\* applypatch_flash: nothing to do; or, also when the target cannot be read, the
\* image is written.  An image that cannot be read leaves source_file empty, and
\* the first write of WriteToPartition from its null pointer fails.
ApplyPatchFlash ==
  /\ pc = "apply" /\ P.op = "flash"
  /\ \/ Done(P) /\ NextPatch /\ UNCHANGED <<start, attempt, faults>>
     \/ /\ (~Done(P) /\ UNCHANGED faults) \/ Fault("io")
        /\ pc' = "write" /\ start' = 1 /\ attempt' = 1 /\ UNCHANGED <<k, result>>
     \/ ~Done(P) /\ Fault("io") /\ Return("") /\ UNCHANGED locals
  /\ UNCHANGED <<partitions, cache>>

\* GenerateTarget makes room for the copy, beside the one it may have read.
GenerateTargetRoom ==
  /\ pc = "room" /\ MakeRoom("open")
  /\ UNCHANGED <<partitions, locals>>

\* SaveFileContents truncates the file, whatever is in it...
SaveOpens ==
  /\ pc = "open"
  /\ \/ copy' = Saved(P.from, 0) /\ pc' = "save" /\ UNCHANGED <<result, faults>>
     \/ Fault("io") /\ Return("") /\ UNCHANGED copy
  /\ UNCHANGED <<partitions, copyDisk, litter, locals>>

\* ...and writes the source into it, with O_SYNC.
SaveWrites ==
  /\ pc = "save"
  /\ \/ /\ copy' = [copy EXCEPT !.len = @ + 1] /\ copyDisk' = copy'
        /\ pc' = (IF copy'.len = Chunks THEN "patch" ELSE "save")
        /\ UNCHANGED <<result, faults>>
     \/ Fault("io") /\ Return("") /\ UNCHANGED <<copy, copyDisk>>
  /\ UNCHANGED <<partitions, litter, locals>>

\* The patch is applied in memory, and its result has the target's hash or not.
GenerateTarget ==
  /\ pc = "patch"
  /\ \/ pc' = "write" /\ start' = 1 /\ attempt' = 1 /\ UNCHANGED <<result, faults>>
     \/ Fault("patch") /\ Return("") /\ UNCHANGED <<start, attempt>>
  /\ UNCHANGED <<partitions, cache, k>>

\* WriteToPartition, one chunk; a write that fails may have done something.
WriteChunk ==
  /\ pc = "write"
  /\ \/ /\ dev' = [dev EXCEPT ![P.tgt][start] = P.to]
        /\ start' = start + 1
        /\ pc' = (IF start = Chunks THEN "sync" ELSE "write")
        /\ UNCHANGED <<result, faults>>
     \/ /\ Fault("io") /\ Return("")
        /\ \E c \in {dev[P.tgt][start], Junk} : dev' = [dev EXCEPT ![P.tgt][start] = c]
        /\ UNCHANGED start
  /\ UNCHANGED <<disk, cache, k, attempt>>

\* fsync, close, and the caches dropped: what is read now is what is on the
\* flash, and that may be wrong.
SyncPartition ==
  /\ pc = "sync"
  /\ \/ disk' = dev /\ dev' = dev /\ pc' = "verify" /\ UNCHANGED <<result, faults>>
     \/ /\ Fault("flash")
        /\ \E i \in 1 .. Chunks : disk' = [dev EXCEPT ![P.tgt][i] = Junk]
        /\ dev' = disk' /\ pc' = "verify" /\ UNCHANGED result
     \/ Fault("io") /\ Return("") /\ UNCHANGED partitions
  /\ UNCHANGED <<cache, locals>>

Wrong == {i \in 1 .. Chunks : dev[P.tgt][i] # P.to}

\* Mutant: the partition is not read again.
VerifyNothing ==
  /\ pc = "verify"
  /\ pc' = "unlink"
  /\ UNCHANGED <<partitions, cache, locals, result, faults>>

\* The partition is read again; there is a second attempt from the first
\* difference on.
Verify ==
  /\ pc = "verify"
  /\ \/ Wrong = {} /\ pc' = "unlink" /\ UNCHANGED <<start, attempt, result, faults>>
     \/ /\ Wrong # {}
        /\ start' = Min(Wrong) /\ attempt' = attempt + 1
        /\ IF attempt = 1 THEN pc' = "write" /\ UNCHANGED result ELSE Return("")
        /\ UNCHANGED faults
     \/ Fault("io") /\ Return("") /\ UNCHANGED <<start, attempt>>
  /\ UNCHANGED <<partitions, cache, k>>

\* The backup goes; nobody looks whether it does.  A flash has none.
UnlinkCopy ==
  /\ pc = "unlink"
  /\ \/ P.op = "patch" /\ copy' = NoCopy /\ UNCHANGED faults
     \/ P.op = "patch" /\ Fault("io") /\ UNCHANGED copy
     \/ P.op = "flash" /\ UNCHANGED <<copy, faults>>
  /\ NextPatch
  /\ UNCHANGED <<partitions, copyDisk, litter, start, attempt>>

-----------------------------------------------------------------------------
\* The updater dies.
Kill ==
  /\ pc # "exited" /\ Fault("kill")
  /\ Return("")
  /\ UNCHANGED <<partitions, cache, locals>>

\* Of what was not synced, any part may be on the flash.
PowerLoss ==
  /\ Fault("power")
  /\ Return("")
  /\ \E kept \in [1 .. Chunks -> {"old", "new", "torn"}] :
       dev' = [p \in Partitions |-> [i \in 1 .. Chunks |->
                 IF dev[p][i] = disk[p][i] \/ kept[i] = "new" THEN dev[p][i]
                 ELSE IF kept[i] = "old" THEN disk[p][i] ELSE Junk]]
  /\ disk' = dev'
  /\ copy' \in {copy, copyDisk} /\ copyDisk' = copy'
  /\ UNCHANGED <<litter, locals>>

Updater ==
  \/ ApplyPatchCheck \/ ApplyPatchSpace \/ ApplyPatch \/ ApplyPatchFlash
  \/ GenerateTargetRoom \/ SaveOpens \/ SaveWrites \/ GenerateTarget
  \/ WriteChunk \/ SyncPartition \/ Verify \/ UnlinkCopy

Next == StartUpdater \/ Updater \/ Kill \/ PowerLoss

\* Recovery starts the updater again, and a live updater makes progress.
Spec == Init /\ [][Next]_vars /\ WF_vars(StartUpdater) /\ WF_vars(Updater)

-----------------------------------------------------------------------------
Copies == {NoCopy} \cup [of : Images, len : 0 .. Chunks]

TypeOK ==
  /\ dev \in [Partitions -> [1 .. Chunks -> Images \cup {Junk}]]
  /\ disk \in [Partitions -> [1 .. Chunks -> Images \cup {Junk}]]
  /\ copy \in Copies /\ copyDisk \in Copies /\ litter \subseteq DOMAIN Litter
  /\ pc \in {"exited", "check", "space", "apply", "room", "open", "save", "patch", "write", "sync", "verify",
             "unlink"}
  /\ k \in DOMAIN Patches
  /\ start \in 1 .. Chunks + 1 /\ attempt \in 0 .. 3
  /\ result \in {"none", "t", ""}
  /\ faults \in 0 .. MaxFaults

\* "it will not be left in an unrecoverable intermediate state ... a copy exists
\* in the cache partition so restarting the update can successfully update the
\* file": whenever the updater has stopped, each patch is done or has its source,
\* although there is one file for the copies of all the partitions.
Recoverable == pc = "exited" => \A i \in DOMAIN Patches : Done(Patches[i]) \/ Source(Patches[i])

\* When the script succeeds, every partition reads as its target, also if the
\* flash failed on the way (WriteToPartition drops the caches and reads back).
SuccessMeansTarget == result = "t" => \A i \in DOMAIN Patches : Done(Patches[i])

\* Once the faults stop, an update that is started again and again succeeds, also if
\* attempts fail on the way because MakeFreeSpaceOnCache gives up after one file.
EventuallyPatched == <>(result = "t")

=============================================================================
