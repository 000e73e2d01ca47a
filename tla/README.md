# A TLA+ model of the recovery's update path

This directory models the parts of the recovery that must survive being
interrupted or interleaved: the block-image updater and its new-data thread, the
whole-partition patcher, the boot loop of the recovery, `uncrypt`, sideloading,
the installation of a package with the keys pressed meanwhile, and the A/B slots
with `update_verifier`. TLC checks the models on small instances; TLAPS proves
thirty-one theorems for every instance: all safety invariants and action
properties of the runs, and that the block-image updater implements an abstract
installation.

Everything is translated from the sources; `PROJECT.json` maps each definition
to its lines.

## 1. The system

An update starts in the main system, which leaves a request for the recovery in
`/cache/recovery/command` or, through `uncrypt`, in the bootloader control block
(BCB) on the misc partition. `uncrypt` also lists the blocks of a package on
`/data`, so that recovery can read it without the file system. The bootloader
starts the recovery. It copies the request to the BCB, so that every boot leads
back to it, and does the work: usually it extracts an update binary from the
package and runs it as a child process, which reports through a pipe. The
updater interprets an edify script, whose functions of consequence are
`block_image_update` (system, vendor) and `apply_patch` (boot and similar). At
the end the recovery clears the BCB and the command file and reboots. A package
may also come over adb or from an sdcard; a child process then serves it as a
FUSE file. Devices with two slots are updated by the update engine while the
main system runs; there `update_verifier` decides in the next boot whether the
new slot stays.

`Android.mk` builds `pterodon.cpp` as the `recovery` program. `recovery.cpp`,
from which it descends, is in the tree and holds the logic of retries and wipes.
`RecoveryBoot` models `recovery.cpp`, `PterodonBoot` puts `pterodon.cpp` in its
place.

| Part | State it owns | Operations | What makes it hard |
|---|---|---|---|
| Block-image updater (`updater/blockimg.cpp`) | the partition, the stash directory under `/cache/recovery/<sha1>`, `stash_map`, the command parameters | verify, update; move, diff, stash, free, zero, new, erase | interruption at any block, resume from a half-written partition, durability of files and blocks, limited /cache |
| New-data thread (same file) | `NewThreadInfo` under a mutex and a condition variable | receive (raw, Brotli), hand-over by `new`, join | two threads, ownership of the writer, end of data, failure on either side |
| applypatch (`applypatch/applypatch.cpp`, `freecache.cpp`) | whole partitions, one backup file on /cache, other files there | check, make room, patch, save, write, read back, unlink, flash | interruption, one backup for all partitions, bad flash |
| Recovery boot (`recovery.cpp`, `bootloader_message/`) | the BCB, the command file | read arguments, install, retry, wipe, menu, finish | loss of power between any two writes, bounded retries |
| Pterodon entry (`pterodon.cpp`, `bootloader.cpp`) | the BCB, the command file, a property | clear, parse arguments, reboot | order of clearing and parsing, restarts of the program |
| uncrypt (`uncrypt/uncrypt.cpp`) | raw device, window of buffers, block map, BCB, socket | uncrypt, set up BCB, clear BCB | order of syncs, partial failure, both ends waiting |
| Sideload (`fuse_sideload.cpp`, `adb_install.cpp`, `minadbd/`) | one cached block, hash per block, child process, mount | read, poll, kill, shut down | stale cache, timeouts, a child that ends early |
| Installation (`install.cpp`) | pipe to the update binary, temperature thread | run it, read its commands | end of the pipe, notification of a thread |
| Keys (`ui.cpp`) | key queue, timers, screensaver, reboot switch | press, release, time, enqueue, wait | timers of earlier presses, full queue, switch read early |
| A/B slots (`boot_control/`, `update_verifier/`) | slot metadata on misc | mark successful, set active, set unbootable, verify | tries running out, marks that outlive an image, threads |
| Range sets (`otautil/rangeset.cpp`) | none | split | blocks lost or doubled at a boundary |

What has to be right, most important first:

1. an interrupted block-image update can always be resumed, and success means
   that the partition on flash is the new image;
2. unverified data is never written to a partition;
3. a request to the recovery is neither lost nor repeated for ever, and a
   factory reset is not repeated unasked;
4. a device with slots always has one it can boot, and trusts only what was read;
5. the two threads of `block_image_update` neither hang nor mix up data;
6. what `uncrypt` and sideload hand to recovery is the package;
7. an interrupted `apply_patch` can be repeated;
8. an installation reports what the update binary said, and no key press cuts
   it short.

## 2. Modules

| Module | Models | Used by |
|---|---|---|
| `BlockImage` | stash, resume and commands of `blockimg.cpp` | `MCBlockImage` (lists for TLC), the modules below |
| `BlockImageResume` | the inductive invariant behind `Resumable` | `MCBlockImageResume`, `BlockImageResumeProofs` |
| `Installation` | what an installation promises (abstract) | `BlockImageInstall` |
| `BlockImageInstall` | the refinement mapping to `Installation`, and its invariant | `MCBlockImageResume`, `BlockImageProofs` |
| `BlockImageVerify` | the inductive invariants behind `VerifyPredicts` and `SpaceSuffices` | `MCBlockImage`, `BlockImageVerifyProofs` |
| `NewData` | the two threads of `blockimg.cpp` | `MCNewData`, `UpdaterProofs` |
| `ApplyPatch` | `applypatch.cpp` and `freecache.cpp` as a script uses them | `MCApplyPatch`, `UpdaterProofs` |
| `RecoveryBoot` | `recovery.cpp` with the BCB | `PterodonBoot` |
| `PterodonBoot` | `pterodon.cpp` in the same surroundings | (checked itself), `PterodonBootProofs` |
| `Uncrypt` | the three services of `uncrypt.cpp`, and the reader of the map | `MCUncrypt`, `UncryptProofs` |
| `Sideload` | `fuse_sideload.cpp` with its two parents | (checked itself), `InstallProofs` |
| `RecoveryUI` | keys and screensaver of `ui.cpp` | `InstallPackage` |
| `InstallPackage` | `install.cpp` composed with `RecoveryUI` | `MCInstallPackage`, `InstallProofs` |
| `RangeSet` | the constructor and `Split` of `rangeset.cpp` | `UpdateVerifier`, `UpdateVerifierProofs` |
| `BootControl` | `boot_control.cpp`, with bootloader and update engine (external) | `UpdateVerifier` |
| `UpdateVerifier` | `update_verifier.cpp` composed with `BootControl` | `MCUpdateVerifier`, `UpdateVerifierProofs` |

Definitions named in a comment as *Mutant* are altered forms of the definition
that follows them. They are part of no specification; replacing the original by
one shows that a property depends on it.

### BlockImage

*State.* `dev` is what a read of the partition returns (the page cache), `disk`
what has reached the flash. `stash` and `stashDisk` are the same for the stash
directory; a stash file is named by the SHA-1 of its contents, and since SHA-1
is taken to be free of collisions the name *is* the contents, a sequence of
block contents. `partial` has the `.partial` files, `bad` the stash files that
rotted, `unreadable` those that cannot be read at present, and
`overlooked` is history: a stash that was there has been taken for missing.
`pos` is the command at hand, `wpos` the block of its target to be
written next, the other variables are those of `CommandParameters` and the
process-wide `stash_map` and `is_retry`.

*Actions.* One per stage of `PerformBlockImageUpdate`: `PerformBlockImageUpdate`
(with `CreateStash`), one per command, `SyncStashDirectory`, `SeekToOutputRange`
(which discards on a retry), `WriteBlock`, `FreeOverlapping`, `EndCommand` (the
fsync), `CommandsDone`, `DeleteStash`, `Pbiudone`. The script is the usual one:
update on success of a verification, or update alone; a failed verification is
followed by `block_image_recover`, which repairs nothing here, and another
verification. `Kill` stops the updater at any step and leaves the page cache as
it is; `PowerLoss` keeps any part of what was not synced, block by block and
file by file; `Rot` damages a stash file; `Unreadable` makes stat, open or read
of stashes fail for a while, which `LoadStash` treats like files that do not
exist; every other system call that can fail does, as fault `"io"`.

*Transfer lists* are a constant. `WellFormed` states what the comment before
`BlockImageVerifyFn` says the creator guarantees. `NoIdReuse` is one more
condition, without which the code is not resumable (section 5).

### Installation and BlockImageInstall

`Installation` forgets the stash, the commands and the page cache. Pieces of an
image reach the flash in attempts that may stop at any time; a piece that was
copied or patched never leaves again, a piece that is filled from the package
may be discarded and rewritten; success needs all pieces. `BlockImageInstall`
maps the commands of the list to pieces and the flash to the set of pieces whose
target blocks are all on it. `InstallsImage` is `Installation`'s specification
under this mapping.

### NewData

The main thread and the unzip thread, with a step for each stretch of code under
the mutex. `waiting` is the set of threads in `pthread_cond_wait`; a broadcast
empties it and `SpuriousWakeup` may take a thread out. Data units are numbered,
so that `image` shows what was written where, and are smaller than a block, so
that entries may end inside one. A unit of Brotli input yields any small number
of output units, and the decoder stops short of its input only when the output
buffer is full. `nti` is a local variable of the function; the model follows the
unzip thread only until the function returns.

### RecoveryBoot and PterodonBoot

A step ends wherever flash changes. `bcb` has the command and the options,
cut to what the field holds; `command_file` the options of the file. `owed`,
`done`, `tries` and `reset` are history: the request not yet settled, whether
its work was completed, the attempts that ended in `INSTALL_RETRY`, and whether
the last factory reset that was asked for succeeded. Formatting, unlinking and
rebooting may fail. A write of the BCB is one synced write of one structure and
is taken to be atomic; it may fail and leave what was there, and a read of the
BCB or of the command file may fail and give nothing. The code logs either and
goes on, and has no second place for a request: `lapse`, history too, says that
such a failure has hidden the pending request or kept the BCB from holding what
it should. The properties except `ResetOnlyWhenOwed` speak of behaviours without
a lapse; it ends with the next request.

`pterodon.cpp` removes the command file and clears the BCB before it parses
them, so a request it finds is dropped, and what it parses it never acts on; the
properties about requests are those of `recovery.cpp`. The model follows
`already_booted` (the property, gone with the boot), the removal, the parsing,
which writes `boot-recovery` to the BCB, deaths and restarts of the program, and
`RebootDevice`. `BootsWhereAsked` is what it promises.

### ApplyPatch

A script of several `apply_patch` calls with the `apply_patch_check` and
`apply_patch_space` that precede them, and a flash as the `applypatch` tool does
it. A partition is a few chunks, each with part of an image or junk; `copy` is
`cache_temp_source`, `litter` the files of /cache that nobody has open.
`MakeFreeSpaceOnCache` deletes them in the order of their names, and stops when
one is gone and there is still too little room, as the code does.
`SyncPartition` stands for fsync, sync and the dropping of the caches (whose
failure, only logged by the code, is not modelled), after which a read gives
what is on the flash. `Sha1s` says whether the script passes explicit hashes to
`apply_patch_check`; without them `applypatch_check` compares the copy with an
empty list and rejects it, so only scripts that pass them can be restarted. A
resumed patch needs room for a second copy beside the one it resumes from.
`ApplyPatchAssumption` says what a script for a device is: it has at least one
patch, each changes its partition, none is patched twice, and a partition is
read as a source before it is patched. Nothing in the code enforces this, and
without it the second of two patches would undo the first.

### Uncrypt

*State.* `raw` and `rawDisk` are the blocks of the package on the raw device, in
the page cache and on the flash: what dm-crypt wrote, the plain text of the
block, or something that cannot be told. `map`, `tmp` and their `Disk` twins are
`block.map` and `block.map.tmp` as sequences of lines; `head`, `tail` and
`buffers` the window of `produce_block_map`. *Actions*: one per stage of
`produce_block_map` (one turn of its loop each), of `setup_bcb` and `clear_bcb`;
`Call`, `ReadStatus` and `ClientDies` for the client of the socket. A `.tmp`
file is opened without `O_TRUNC`, so `Over` keeps the tail of an older one.
`Accepts` and `Mapped` are what `MapBlockFile` makes of the text. `command` is
what the client of `setup_bcb` asks for: as many options as one wants, of which
`Message` keeps what the field has `Room` for (`strlcat`), and a wipe package
that is full, empty or cannot be read; an empty one is not written, and what
the last wipe left stays. A package
whose blocks an earlier call had already replaced is decrypted once too often
(`touched`); the properties about its contents stop there.

### Sideload

`recovery` has the variables of `apply_from_adb` and `apply_from_sdcard`, which
differ in when they notice that the child has ended; `child` and `mount` the
process and what it serves; `curr_block`, `block_data` and `hashes` are
`fuse_data`. A block's data is a pair of its number and the version of the file
it was read from, and the hash of a block is its version. `HandleRead` reads
within a block or over a boundary, each fetch answered or not. A block that has
changed since it was first read is refused, and reading goes on; `failed` says
that `read_block` itself has failed. `AwaitsHost` is the wait of `read_block_adb`
for a host that need not answer. The product `block * block_size` is taken
modulo `Word`.

The definitions that every specification has are called `SideloadInit`,
`SideloadNext` and `SideloadSpec` here, so that one module can have the proofs
about both halves of an installation, where the package comes from and how it is
run. Likewise `NewDataInit`, `NewDataNext` and `NewDataSpec` of `NewData`, whose
proofs are in one module with those about `ApplyPatch`.

### RecoveryUI and InstallPackage

Three kinds of threads: the input thread (`ProcessKey` in the stages between
which it holds no mutex), one timer per press (`TimeKey`), and the main thread,
which waits for keys or installs a package. `during` remembers where the main
thread was when the key at hand was released. The update binary is whatever a
package brings: it writes any commands, runs programs that inherit the pipe, and
exits or is killed at any time. The logger's `wait_for` has no predicate, so any
wakeup ends it, and a notification is lost on a thread that does not wait.

### RangeSet, BootControl and UpdateVerifier

`BootControl` has the metadata on misc, the HAL's calls as operators on them,
and around it what is not in the repository: the bootloader (as the comments and
`bootloader_message.h` have it), the update engine, which marks the slot it
fills unbootable first, and loss of the metadata. A call is one step: the
service handles one at a time, and the metadata are one sector. `UpdateVerifier`
adds the program: the modes of dm-verity, every kind of care map that
`verify_image` tells apart, the threads of `read_blocks` reading block by block,
the join, the mark, and the restart. The HAL may fail to load the metadata when
it starts, and then answers no query (`started`, `initialized`): `NoService` and
`CannotTell` are the paths on which the program cannot judge the slot, by a
restart and by an exit. `checked` is history: how a slot's present
image came to be trusted.

## 3. Runs

| Run | Bounds | Shows |
|---|---|---|
| `blockimage_resume` | four lists over five blocks with every command; I/O errors, deaths and unreadable stashes, two in all; fair | `Resumable`, `SuccessMeansTarget`, `CompletedStays`, `EventuallyInstalled`, `InstallsImage`, `TypeOK` |
| `blockimage_power` | the lists without overlapping commands, one of which makes two stashes one after the other; three losses of power; a /cache of two blocks, as much as the stashes of that list together | `Resumable`, `SpaceSuffices` |
| `blockimage_verify` | any mixture of old, new and damaged blocks and any subset of the stash files at the start; one stash file rots or the updater dies | `VerifyPredicts`, `OnlyVerifiedData`, `VerifyReadOnly` |
| `newdata_handshake` | every list of up to three commands of up to two units; every raw entry of up to three chunks, every Brotli entry of up to two; all failures | `NoLostWakeup`, `OwnsWriter`, `SectionsInOrder`, `SuccessMeansJoined`, `ShortTerminates` |
| `recoveryboot_faults` | either program; `RETRY_LIMIT` = 4 as in the code, two losses of power, two requests of any kind; all failures, any number of times | `JobSurvives`, `TriesBounded`, `NothingDropped`, `ResetOnlyWhenOwed`, `Settles`, `BootsWhereAsked` |
| `applypatch_once` | three patches and a flash over four partitions of three chunks, one patch from one partition to another; room for two copies at most, after three other files are deleted; any one fault | `Recoverable`, `SuccessMeansTarget`, `EventuallyPatched` |
| `uncrypt_calls` | a window of five as in the code; packages of none, two and six blocks; commands with and without room for them, full, empty and unreadable wipe packages; three calls or new packages; one I/O error, death of the client or loss of power | `PlainText`, `MapRight`, `DoneMeansDone`, `Answered` |
| `sideload_sessions` | a file of two and a half blocks, three polls, four reads, two sessions; two faults | `StableReads`, `NothingLeft`, `Returns` |
| `updateverifier_slots` | two slots, two updates, two threads; care maps of two partitions and all special ones; all modes of dm-verity; three faults | `VerifiedOnly`, `FallBack`, `SplitRight`, `ReachesGood` |
| `installpackage_keys` | one installation, one command, a pipe of one line, two presses of two keys after five presses of the power key, a queue of one; two kinds of devices | `LongPressRight`, `RebootAllowed`, `ResultRight`, `InstallReturns` |

Why the bounds are enough. In a resume what matters is which command was
interrupted, whether it overlaps its source, uses a stash, or comes after a
`free`: the lists have every such command, and a second fault interrupts the
resumed run itself. Two kinds of lists are left out because the code does not
survive them (section 5): lists that need a freed id again, everywhere, and
lists with an overlapping command, in `blockimage_power`. The latter therefore
shows `SpaceSuffices` for lists without one; the theorem has no such limit. Five
blocks allow a command with two ranges, an overlapping one, and bystanders. In
the handshake three commands allow a `new` before and after another, and chunks
that end before, at and after the end of a section. In `recoveryboot_faults` two
losses of power cover one in an attempt and one in its repetition, or between
the two clearing steps of `finish_recovery`, and the second request meets what
the first one left. With three patches the backup file is written, removed and
reused. A package of six blocks fills the window of `uncrypt` and moves it on;
the second call meets what the first one left, the third what a new package did.
Two sessions show what one leaves for the next; `Word` exceeds the file there,
as 4 GiB exceeds most packages (with a wrap the last block cannot be read at
all). The second update of a slot writes over one that was marked. Two presses
are what a timer has to tell apart, and a full queue, a full pipe and the
seventh power key are reached. Where a bound matters to a safety property, a
theorem of section 4 removes it.

Two runs show a disagreement between the code and what its comments or tests
say, each found while modelling and each recorded as a finding:

| Run | What happens |
|---|---|
| `newdata_surplus` | with new data left over, the unzip thread waits for a writer and the main thread for the unzip thread, for ever |
| `applypatch_twice` | a patch resumed from the backup truncates the backup to write it again; a second death there leaves neither |

`applypatch_once` therefore has one fault.

Deadlock is checked where the system never stops (`BlockImage`, `ApplyPatch`,
`PterodonBoot`). The other systems may stop: `NewData` when the function has
returned, or with data left over as `newdata_surplus` shows (`ShortTerminates`
says that no other entry does), the rest when the bounded calls, sessions,
updates and presses are used up, or the device has rebooted; their liveness
properties say that nothing stops before.

Each module states the types of its variables as `TypeOK`. `BlockImage`'s is an
invariant of `blockimage_resume` and proved; the others are there for the reader,
and hold in the configurations above when added as an `INVARIANT`.

### Fairness

- `BlockImage`, `ApplyPatch`: weak fairness of the updater (a runnable process)
  and of its start. Recovery starts an interrupted update again because the BCB
  still asks for it, up to `RETRY_LIMIT` times by itself and then on request;
  the liveness properties say what happens if it is started often enough. Faults
  are never fair, and bounded.
- `NewData`: weak fairness of each thread; none of wakeups.
- `RecoveryBoot`: weak fairness of the recovery except where it waits for the
  user (the menu, the question of `prompt_and_wipe_data`) or for a sideload
  (`Waits`), and of the boot after the device went off.
- `Uncrypt`: the service runs, and a client that waits reads its socket.
- `Sideload`: the parent runs, and a child that is leaving gets to its end.
  Nothing is assumed of the host, which need neither connect nor answer: while
  an installation reads through adb (`AwaitsHost`) no step is fair, since
  `read_block_adb` has no timeout, and `Returns` excepts a behaviour that stays
  there for ever.
- `InstallPackage`: the main thread and the logger run, and a timed wait ends;
  nothing is assumed of the update binary, the user or the timers.
- `UpdateVerifier`: the device boots when it is off, init starts the service and
  the program, and the program's threads run. Each thread makes progress because
  all of them together do and their work is finite. Nobody is assumed to restart
  a device whose `update_verifier` has given up.

## 4. Proofs

Each proof module `EXTENDS` the module it is about and `TLAPS`, has its
inductive invariant at the top and one lemma per action or group of actions. All
constants are arbitrary within the assumptions of the modules, which TLC
evaluates in the runs.

| Theorem | States |
|---|---|
| `BlockImageProofs!TypeCorrect` | `TypeOK`, for all lists, initial states and faults |
| `BlockImageProofs!WritesOnlyVerified`, `SuccessIsComplete` | `OnlyVerifiedData`, `SuccessMeansTarget`, for all faults |
| `BlockImageProofs!ImplementsInstallation` | `InstallsImage`, for all faults |
| `BlockImageProofs!CompletedCopiesStay`, `VerifyChangesNothing` | `CompletedStays`, `VerifyReadOnly` (action properties), for all faults |
| `BlockImageVerifyProofs!VerificationPredicts` | `VerifyPredicts`, for all initial images and stash files and for lists that satisfy `NoIdReuse` |
| `BlockImageVerifyProofs!RoomForAllSuffices` | `SpaceSuffices`, for all lists, overlapping commands included, and all faults |
| `BlockImageResumeProofs!ResumableAlways` | `Resumable`, for any number of I/O errors, deaths and unreadable stashes |
| `UpdaterProofs!NoWakeupIsLost`, `ReceiverOwnsWriter`, `SuccessIsJoined` | `NoLostWakeup`, `OwnsWriter`, `SuccessMeansJoined` |
| `UpdaterProofs!SectionsStayInOrder` | `SectionsInOrder`, for all sizes of sections, chunks and buffers |
| `PterodonBootProofs!RequestSurvives`, `TriesAreBounded`, `BootsWhereTheUserAsks` | `JobSurvives`, `TriesBounded`, `BootsWhereAsked` |
| `PterodonBootProofs!NoRequestDropped`, `ResetNotRepeated` | `NothingDropped`, `ResetOnlyWhenOwed` (action properties) |
| `UpdaterProofs!SuccessIsTarget` | `SuccessMeansTarget`, for all faults |
| `UpdaterProofs!OneCopySuffices` | `Recoverable`, until the second fault |
| `UncryptProofs!WindowKeepsBlocks`, `MapListsPackage`, `StatusIsTrue` | `PlainText`, `MapRight`, `DoneMeansDone` |
| `UpdateVerifierProofs!MarksOnlyVerified`, `AlwaysFallsBack` | `VerifiedOnly`, `FallBack` |
| `UpdateVerifierProofs!SplitsRight` | `SplitRight`, for all care maps and numbers of threads |
| `InstallProofs!ResultFollowsLines`, `NoRebootUnderUpdate`, `LongPressIsLong` | `ResultRight`, `RebootAllowed`, `LongPressRight` |
| `InstallProofs!ReadsAreStable`, `NothingIsLeft` | `StableReads`, `NothingLeft` |

Most leaves go to the SMT solver, which is the default; those that cite `Zenon`
are the ones that need no arithmetic and that the SMT encoding makes slow.

**TypeCorrect.** From `DataAssumption`, `ListAssumption` and `BoundAssumption`
(constants have their types). `TypeOK` includes `ControlOK`: a step that writes
is at a block of its command's target, a move has a buffer as long as its
target, a running call has its stash directory. It is inductive.

**ResumableAlways.** From `ResumeAssumption`: every list is `WellFormed` and
satisfies `NoIdReuse`, the installation starts from the source image, and faults
are I/O errors, deaths and stash files that cannot be read, in any number (not
loss of power, not rot). The stash directory may hold any files the initial
state allows. `Resumable` says only that no command ever found its source
missing, except one that took an unreadable stash for missing (`overlooked`),
and is far from inductive.
`ResumeInv` adds a *frontier* `h`, the command up to which the list has ever
been executed:

- every copy before `h` is complete (`DoneBefore`), and stays so because no
  later command writes a block that an earlier one wrote;
- every block that no command up to `h` writes is as in the source image
  (`UntouchedAfter`);
- if command `h` overwrites its own source, the source is intact or in the
  stash (`FrontierCovered`);
- every stash that an incomplete copy uses is on /cache and not about to be
  freed, or will be made, from untouched blocks, by a stash command still to
  come (`Available`). This is where `NoIdReuse` is needed;
- a verification can load the same through `stash_map` (`VerifyLoads`).

A resumed run has `pos < h` and finds every copy complete until it is back at
the frontier; only there does it write, and only then does `h` move.
`SourceFound` draws the conclusion: at a command that is not complete, the
source blocks or a stash have the right contents.

**WritesOnlyVerified, SuccessIsComplete and ImplementsInstallation** need only
that lists are `WellFormed` (`InstallAssumption`); loss of power and rot are
included. `InstallInv` says that a copy that is on the flash is not being
changed in the page cache (`FlashStays`, so no loss of power can mix it with
anything), that a command that fills its target has the right source in its
buffer (`SourceInBuffer`, from the hash checks alone), that the target is filled
up to `wpos` (`FilledSoFar`), that the commands before the one at hand are
complete in cache and on flash (`CompleteBefore`, which is what the fsync after
each command is for), and that the result is 0 only when all are
(`ResultEarned`). From it every step of `BlockImage` maps to a step of
`Installation` or a stutter.

**CompletedCopiesStay** uses the same invariant: a command writes only its own
target, no other command has a block of it (`TargetsApart`), and a copy that is
complete on the flash is never filled again (`SourceInBuffer`). A command that
is being written is left out unless its target is on the flash: its blocks may
be right in the page cache by chance before the command is through.

**VerifyChangesNothing.** No step of a run without `canwrite` has a primed `dev`.
That no sound stash file goes needs `VerifyInv`: such a run never fills
`freestash`, a directory it has created is empty, and it gets to `DeleteStash`
only after it created the directory or found the update unresumable.

**VerificationPredicts.** Verification judges a list through `stash_map` and
the files it finds; the update through files that it makes and deletes on the
way. `PredictInv` relates both to what the partition and the stash directory
hold. A copy is `Promised` if it is complete, or finds its source: its source
blocks are right and each stash it uses is a file or will be made, by a command
before it, from blocks that hold it.

- Until the verification fails or ends, it can load exactly the stashes that the
  update will have at that command (`Sound`): `stash_map` has only what a
  command before has put there, and each stash that such a command could make
  and none has freed is loaded. So a copy that it passes is promised, and one at
  which it fails is not (`Doomed`).
- A second verification, after `block_image_recover`, begins with the
  `stash_map` that the first one left. It fails at the doomed copy again if not
  before (`Knows`): all entries come from commands before that copy, so what it
  loads through them the update could have made.
- An update that follows a success begins with every copy promised
  (`AllPromised`) and keeps the promise for the commands it has not reached
  (`VerifiedUpdate`). The blocks a command writes are read by no later command
  (`WellFormed`), a stash it made is a file from then on, and a stash it frees
  is not needed again. This is where `NoReuse` is needed, the hypothesis that
  every list satisfies `NoIdReuse`.

**RoomForAllSuffices.** From `StashAssumption` too (a directory has finitely
many files). `SpaceInv`: every stash file, on the flash or not, was there at
first or is one that a command of the list makes, and a running call has no
`.partial` file, because `CreateStash` deletes those of interrupted ones and an
error that leaves one ends the call. So the files never take more than
`RoomForAll` provides. That a set of files takes no more than a larger set
(`SizeMonotone`) needs the sum that `Size` computes, which is a fold that picks
the files in an order of its own. `SizeAdds` shows that there is exactly one
function that adds up the subsets of a finite set of files in that order and
that `Size` is its value; `SizeWithout`, that leaving out any file leaves out
its length, is induction over the subsets (`SubsetInduction`, by the least
cardinality at which it fails).

**UpdaterProofs, NewData.** `HandshakeInv`: the sections before the command at
hand are full and the later ones empty (`ImageInv`); there is a writer only
while the main thread is in `PerformCommandNew`, with the room the section still
misses, and only a receiver at the end of a section leaves it without room
(`WriterInv`); a sleeping thread's condition is false (`SleepInv`). For
`SectionsStayInOrder`, `OrderInv` says that the i-th unit of a section is the
i-th of the entry after the place `Sums(list)[k - 1]` where the section begins,
and that the receiver has taken, from all sections, exactly the units before the
place where it writes. That is so because it leaves a section only when it is
full. The sums are an induction over the list.

**UncryptProofs.** `WindowInv`: with `n = pos - head_block` blocks in the
window, `n < WINDOW_SIZE`, `tail` is `n` places after `head`, the i-th buffer
after `head` holds block `head_block + i`, and no block from `head_block` on has
been written. The lemmas `SlotNext`, `RingFacts` and `RingMoves` take the ring
arithmetic out of the way. `FilesInv` follows the text of the map. While the
loop runs, the ranges expand to the first `head_block` blocks of the layout
(`AddBlock` adds one block, whether it lengthens the last range or starts
another); after it the `.tmp` file is `Right`, that is, refused or the map of
this package, and refused only if it was written over a longer file; it is on
the flash before it is renamed (`MapInv`), and the plain text is before that
(`RawInv`). A `map` that differs from `mapDisk` is the synced `.tmp`, so a loss
of power leaves one of two texts that are right. `StatusInv` says that 100 is
sent only with `Done`, which none of the steps that remain can undo. What
`Expand` makes of an appended range is induction over the length of a sequence:
it is proved by looking at the least length at which it fails.

**PterodonBootProofs.** The theorems are about `PSpec`, in which either program
runs. What `get_args` can ever find is one of finitely many shapes: nothing, a
request as it was made, or `Marked(n)`, an update with the count `n` behind `n`
names of the program. `RoomAssumption`, that the field holds the longest of
them, is what keeps `Message` from cutting anything off; `WithoutCount` turns
the arguments of `Marked(n)` into the front of `Marked(n + 1)` (`NextMark`).
Over these shapes `RInv` says, of behaviours without a lapse, where the request
that is owed is (`OwedInv`),
that a request that counts as a success was carried out (`DoneInv`), that no
trace of a settled reset is left in the control block or the command file
(`ResetInv`, which needs no such condition: the file goes with `/cache`, which
is erased before), and how the
tries compare with the count in the control block (`TriesInv`): a try that is
not counted yet is on its way there, is the last one, or was cut off by a loss of
power.

**UpdaterProofs, ApplyPatch.** From `ApplyPatchAssumption`. For `SuccessIsTarget`,
`ScriptInv`: the patches before the one at hand are done, and that one when its
copy is removed, which is what the read-back is for. `OneCopySuffices` needs
`RecoverInv`, which says more the fewer faults there were. Before the first,
partitions are untouched or done, the cache and the flash agree, and whoever
writes has a complete copy of its source (`BeforeFault`). Before the second,
patches are applied in order, a patch whose partition is spoiled has its source
in the copy unless it is at hand and holds it in memory (`CopyKept`), and no
other patch is in that state (`Alone`), so that the single file serves them all.
`applypatch_twice` shows that a second fault breaks this.

**UpdateVerifierProofs.** `VerifierInv`: a slot marked successful has a try left
and the engine fills only a slot that is not marked and does not run
(`BootInv`); what is marked was checked, and a slot whose blocks were read has
none that is bad (`CheckInv`); while a part is read, each of its bad blocks is
still ahead of some thread, or its thread has failed, and a joined thread that
failed has left `ret` false (`ReadInv`). That every block
is in some group is `GroupsCover`, from what is proved of `Split`. One turn of
the loop moves blocks from the front of the ranges that are left to the end of
the group and changes neither their order nor their sum (`FillTurnKeeps`); after
as many turns as there are ranges a group has what it needed, if there was as
much; the sums of the groups' sizes end at the number of blocks
(`Taken`). These are inductions over the definitions by recursive functions of
`RangeSet`. They need no induction theorem: `RecursionExists` and `SameSteps`
give a function by its steps, and each statement is proved by looking at the
least step at which it fails (`UpTo`).

**InstallProofs, Sideload.** `ReadInv`: until `read_block` fails the buffer has
the block that `curr_block` names, as its hash says, and all that was read is
still what the hashes say. A block that is refused for its hash leaves no block
named (`FetchRefused`). `ChildInv`: a child that was waited for is gone, a live
mount has a live child, and no path to the return misses the wait.

**InstallProofs, InstallPackage.** `ResultInv`: a command that was written is in
the pipe or has been taken down, and after the end of the file the pipe is empty
and the writer gone. `RebootInv`: while the switch is off, only the update
binary has turned it on again, and a key released meanwhile has seen no more
than that. `PressInv`: a long press was set by the timer of the last press.

Only model-checked:

- the liveness properties (`EventuallyInstalled`, `ShortTerminates`, `Settles`,
  `EventuallyPatched`, `Answered`, `Returns`, `ReachesGood`, `InstallReturns`)
  and everything about `ENABLED`, which the prover does not handle.

## 5. Known limits of the code

Met while modelling, and among the hazards of `PROJECT.json`. Where a property
leaves a case out, it is because of one of these.

- The stash of an overlapping command is unlinked before the partition is
  fsynced (`blockimg.cpp:1113`, `1586`); a loss of power in between makes the
  update unresumable. `blockimage_power` has no overlapping command.
- A resumed overlapping command asks for room for its stash although the file
  exists (`blockimg.cpp:712`), and may fail on a /cache that `CreateStash` had
  accepted. So may a resumed run without such a command: it makes again a stash
  that the interrupted run had freed, while the file of a later stash is still
  there, and the list's maximum counts them one at a time. `SpaceSuffices`
  therefore asks for room for all of these (`RoomForAll`), which is more than
  `CreateStash` asks for.
- A resumed run repeats a `free`, and deletes the stash of the interrupted
  command if both have the same hash (`blockimg.cpp:1172`). `NoIdReuse` excludes
  such lists.
- If the fsync of the stash directory fails, or the updater dies there, the next
  attempt uses the renamed file without syncing it (`blockimg.cpp:765`).
- A stash that exists and cannot be read for a moment counts as missing
  (`blockimg.cpp:661`): the update that needs it is given up as unresumable and
  the stash directory deleted. `Resumable` and `EventuallyInstalled` except an
  installation that has `overlooked` a stash.
- A failed write of the BCB is only logged (`recovery.cpp:378`), and a BCB or
  command file that cannot be read counts as empty (`:321`, `:357`); the request
  may then be dropped by `finish_recovery`. The properties of `RecoveryBoot` but
  `ResetOnlyWhenOwed`, and `BootsWhereAsked`, end with such a `lapse`.
- Each retry adds a line to the options in the BCB (`recovery.cpp:1346`), and
  what does not fit is cut off. `RoomAssumption` says that all retries fit.
- A failing write to `drop_caches` leaves the read-back of `applypatch` to the
  page cache (`applypatch.cpp:268`); the model always drops the caches.
- `setup_bcb` returns without a status when the wipe package cannot be read
  (`uncrypt.cpp:588`); client and service then wait for each other. `Answered`
  leaves this case out. It reports 100 for a command that was cut to the field
  (`bootloader_message.cpp:187`) and for an empty wipe package, which it does not
  write.
- A `.tmp` file of an earlier call that was longer makes a map that recovery
  refuses (`uncrypt.cpp:262`), which `DoneMeansDone` allows; and a second
  `UNCRYPT` of the same package reads plain text through dm-crypt.
- After a `read_block` that fails half way, `curr_block` still names what the
  buffer no longer has (`fuse_sideload.cpp:247`). `StableReads` ends there.
  Offsets are products of 32 bits (`:240`), so that the last partial block of a
  file of more than 4 GiB cannot be read; no property forbids that.
- `read_block_adb` waits without a timeout (`fuse_adb_provider.cpp:30`): a host
  that connects and stops answering holds the recovery for ever. A child that
  ends early leaves a dead mount, at which the next session ends if it polls
  before its child has unmounted it.
- `update_verifier` exits when it cannot tell whether its slot is marked
  (`update_verifier.cpp:264`), or when the restart fails (`:241`), and the device
  keeps running in a slot that nobody verified. `ReachesGood` excepts a device
  that is never restarted from there.
- A key that is being handled when an installation begins has already read
  `reboot_enabled` and may reboot the device under it (`ui.cpp`, `ProcessKey`).

## 6. Not modelled

- *Vendored libraries*, by far the most lines of the tree: `ntfs-3g`, the font,
  shaping, image and compression libraries under `gui/libaroma`, `libtar`, flash
  utilities. They are third-party code without the recovery's logic; modelling
  them line by line would say nothing about updates, and so the modelled share
  of the tree is small although most of what changes persistent state during an
  update is modelled.
- *The graphical interface* (`gui/`, `screen_ui.cpp`, `minui/`): drawing. The
  user's choices are nondeterministic.
- *Cryptography and formats*: package signatures, ASN.1, bsdiff and imgdiff,
  edify's parser. A patch gives its target or an error, a signature verifies or
  not.
- *Single system calls*: mounts, properties, sysfs, settings files, the
  updater's simple functions, log rotation.
- *Within the modelled parts*: `block_image_recover` (FEC), the early returns
  that leave the unzip thread on a dead `nti`, the `convert_fbe` marker of
  `erase_volume`, a failing `drop_caches` or `statfs`, touch gestures, lines
  longer than the reader's buffer.

## 7. What is abstracted everywhere

Hashes do not collide. A patch gives its target or an error. Messages, logs,
progress, locale and UI text are left out. `/cache` is a journaling file system:
renames and unlinks are atomic and reach the flash in any order until the
directory is synced; an fsync of a newly created file (the backup of
`applypatch`) makes its name durable too. Names of constants, and the bounds on
faults and inputs (`MaxFaults`, `MaxPower`, `MaxRequests`, `MaxCalls`,
`MaxSessions`, `MaxReads`, `MaxUpdates`, `MaxPresses`, `MaxLines`,
`MaxInstalls`), are given in the configurations.

To repeat a check: `tlc -config BlockImage_resume.cfg MCBlockImageResume`, and
`tlapm BlockImageResumeProofs.tla`.
