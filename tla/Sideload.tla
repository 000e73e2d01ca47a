------------------------------ MODULE Sideload ------------------------------
(***************************************************************************)
(* A package that is read through /sideload: recovery forks a child that   *)
(* mounts a FUSE file system, waits for the package to appear, installs    *)
(* it, has the child shut down and waits for it.  With "adb" the child is  *)
(* minadbd, which mounts when the host connects (adb_install.cpp,          *)
(* minadbd/); with "sdcard" it serves a file that the user has chosen      *)
(* (recovery.cpp, fuse_sdcard_provider.cpp).  fuse_sideload.cpp answers    *)
(* the reads of the package and keeps the block it read last.              *)
(*                                                                         *)
(* A block's data is <<b, v>>, version v of block b: the file may change   *)
(* on the host while it is sent.                                           *)
(***************************************************************************)
EXTENDS Integers, Sequences, FiniteSets

CONSTANTS
  BlockSize, FileSize, \* of the package, in units
  Word,                \* an uint32_t goes up to Word - 1; 2^32 scaled down with the sizes
  TIMEOUT,             \* ADB_INSTALL_TIMEOUT or SDCARD_INSTALL_TIMEOUT polls
  Versions,
  Faults,      \* which of "fetch", "change", "mount" and "exit" happen
  MaxFaults,   \* bound: how many of them
  MaxReads,    \* bound: reads of one installation
  MaxSessions  \* bound: packages that the user asks for

ASSUME SideloadAssumption ==
  /\ BlockSize \in Nat \ {0} /\ FileSize \in Nat /\ Word \in Nat \ {0}
  /\ TIMEOUT \in Nat \ {0} /\ Versions \subseteq Nat \ {0} /\ 1 \in Versions
  /\ MaxFaults \in Nat /\ MaxReads \in Nat /\ MaxSessions \in Nat

VARIABLES
  via, pc,           \* recovery: what it waits for, and where
  i, waited, reaped, \* apply_from_adb, apply_from_sdcard; waitpid has had the child
  result,
  reads,             \* of this installation
  child,             \* "none", "starting", "mounting", "serving", "closing", "exited"
  mount,             \* /sideload: "none", "live", or "dead" when its child is gone
  version,           \* of the file on the host
  curr_block, block_data, hashes, \* fuse_data; 0 is no hash
  got,               \* history: the data each block was read as, in this session
  failed,            \* history: read_block failed in this session
  faults, sessions

recovery == <<via, pc, i, waited, reaped, result, reads>>
fuse     == <<curr_block, block_data, hashes>>
history  == <<got, failed>>
sideload == <<recovery, child, mount, version, fuse, history, faults, sessions>>

file_blocks == IF FileSize = 0 THEN 0 ELSE (FileSize - 1) \div BlockSize + 1

Zeros == <<"zeros">>
Torn  == <<"torn">>  \* neither what it was nor what it should become
NoBlock == -1

Fault(f) == f \in Faults /\ faults < MaxFaults /\ faults' = faults + 1

SideloadInit ==
  /\ via = "adb" /\ pc = "idle" /\ i = 0 /\ waited = FALSE /\ reaped = TRUE
  /\ result = "none" /\ reads = 0
  /\ child = "none" /\ mount = "none" /\ version = 1
  /\ curr_block = NoBlock /\ block_data = Torn /\ hashes = [b \in 0 .. file_blocks - 1 |-> 0]
  /\ got = [b \in 0 .. file_blocks |-> {}] /\ failed = FALSE
  /\ faults = 0 /\ sessions = 0

-----------------------------------------------------------------------------
(* The child *)

Alive == child \notin {"none", "exited"}

\* The host connects, or the file is opened: run_fuse_sideload removes what is
\* mounted and prepares its buffers, or something of that fails.
Connect ==
  /\ child = "starting"
  /\ \/ child' = "mounting" /\ UNCHANGED faults
     \/ Fault("mount") /\ child' = "closing"
  /\ mount' = "none"
  /\ curr_block' = NoBlock /\ block_data' = Torn /\ hashes' = [b \in 0 .. file_blocks - 1 |-> 0]
  /\ UNCHANGED <<recovery, version, history, sessions>>

Mount ==
  /\ child = "mounting"
  /\ \/ child' = "serving" /\ mount' = "live" /\ UNCHANGED faults
     \/ Fault("mount") /\ child' = "closing" /\ UNCHANGED mount
  /\ UNCHANGED <<recovery, version, fuse, history, sessions>>

\* The end of run_fuse_sideload, and of the process.
Close ==
  /\ child = "closing"
  /\ child' = "exited" /\ mount' = "none"
  /\ UNCHANGED <<recovery, version, fuse, history, faults, sessions>>

\* minadbd ends at once when it is asked for a service it does not have any more, and
\* start_sdcard_fuse returns when it cannot open the file: what is mounted stays.
ChildExits ==
  /\ Alive /\ (via = "adb" \/ child = "starting") /\ Fault("exit")
  /\ child' = "exited"
  /\ mount' = IF mount = "live" THEN "dead" ELSE mount
  /\ UNCHANGED <<recovery, version, fuse, history, sessions>>

FileChanges ==
  /\ Fault("change") /\ version' \in Versions \ {version}
  /\ UNCHANGED <<recovery, child, mount, fuse, history, sessions>>

-----------------------------------------------------------------------------
(* fetch_block: what a fetch makes of the state s *)

Remaining(b) == FileSize - b * BlockSize

\* The size that is asked of the provider; the product is an uint32_t.
FetchSize(b) ==
  LET start == (b * BlockSize) % Word
  IN  IF start + BlockSize > FileSize THEN FileSize - start ELSE BlockSize

\* The provider has that many units from there on, unless it fails.
Short(b) == FetchSize(b) > Remaining(b)

Fuse == [curr |-> curr_block, data |-> block_data, hashes |-> hashes, rc |-> 0]

\* Mutant: a block that is refused keeps its number, and the next read finds it.
FetchKeepsNumber(s, b, answer) ==
  IF b = s.curr THEN s
  ELSE IF b >= file_blocks THEN [s EXCEPT !.curr = b, !.data = Zeros]
  ELSE IF answer = "fails" \/ Short(b) THEN [s EXCEPT !.data = Torn, !.rc = -1]
  ELSE IF s.hashes[b] \in {0, version}
       THEN [s EXCEPT !.curr = b, !.data = <<b, version>>, !.hashes[b] = version]
       ELSE [s EXCEPT !.curr = b, !.data = <<b, version>>, !.rc = -1]

\* A block that is at hand; a block past the end; a provider that fails and leaves
\* the buffer half filled under its old number; a first or an equal block; another.
Fetch(s, b, answer) ==
  IF b = s.curr THEN s
  ELSE IF b >= file_blocks THEN [s EXCEPT !.curr = b, !.data = Zeros]
  ELSE IF answer = "fails" \/ Short(b) THEN [s EXCEPT !.data = Torn, !.rc = -1]
  ELSE IF s.hashes[b] \in {0, version}
       THEN [s EXCEPT !.curr = b, !.data = <<b, version>>, !.hashes[b] = version]
       ELSE [s EXCEPT !.curr = NoBlock, !.data = <<b, version>>, !.rc = -1]

\* handle_read of a range in block b, or at the end of b and the start of b + 1.
\* The first answer is kept in extra_block while the second is fetched.
HandleRead(b, spills, answers) ==
  LET one == Fetch(Fuse, b, answers[1])
      two == IF spills /\ one.rc = 0 THEN Fetch(one, b + 1, answers[2]) ELSE one
  IN  /\ curr_block' = two.curr /\ block_data' = two.data /\ hashes' = two.hashes
      /\ IF two.rc # 0
         THEN UNCHANGED got
         ELSE got' = [c \in DOMAIN got |->
                        IF c = b THEN got[c] \cup {one.data}
                        ELSE IF spills /\ c = b + 1 THEN got[c] \cup {two.data} ELSE got[c]]
      /\ failed' = (failed \/ (two.rc # 0 /\ two.data = Torn))

-----------------------------------------------------------------------------
(* recovery *)

\* The user asks for a package; the child is forked.
Start(from) ==
  /\ pc = "idle" /\ sessions < MaxSessions
  /\ sessions' = sessions + 1
  /\ via' = from /\ pc' = "wait" /\ i' = 0 /\ waited' = FALSE /\ reaped' = FALSE
  /\ result' = "error" /\ reads' = 0
  /\ child' = "starting"
  /\ got' = [b \in 0 .. file_blocks |-> {}] /\ failed' = FALSE
  /\ UNCHANGED <<mount, version, fuse, faults>>

\* waitpid with WNOHANG.  apply_from_adb stops at any answer but 0; apply_from_sdcard
\* stops at -1, which the poll after the one that reaped the child gets.
PollChild ==
  /\ pc = "wait"
  /\ reaped' = (reaped \/ child = "exited")
  /\ waited' = IF via = "adb" THEN reaped' ELSE reaped
  /\ pc' = IF waited' THEN "return" ELSE "stat"
  /\ UNCHANGED <<via, i, result, reads, child, mount, version, fuse, history, faults, sessions>>

\* stat of the package: it is there; or not yet, and there is time left; or the time
\* is over, or the mount is dead.
PollPackage ==
  /\ pc = "stat"
  /\ pc' = CASE mount = "live" -> "install"
             [] mount = "none" /\ i < TIMEOUT - 1 -> "wait"
             [] OTHER -> "kill"
  /\ i' = IF pc' = "wait" THEN i + 1 ELSE i
  /\ UNCHANGED <<via, waited, reaped, result, reads, child, mount, version, fuse, history,
                 faults, sessions>>

Kill ==
  /\ pc = "kill"
  /\ child' = IF Alive THEN "exited" ELSE child
  /\ mount' = IF Alive /\ mount = "live" THEN "dead" ELSE mount
  /\ pc' = "exit"
  /\ UNCHANGED <<via, i, waited, reaped, result, reads, version, fuse, history, faults, sessions>>

\* install_package reads the package here and there, before and while it runs the
\* updater; an error of the file system or of the provider ends it.
InstallReads ==
  /\ pc = "install" /\ reads < MaxReads /\ child = "serving"
  /\ reads' = reads + 1
  /\ \E b \in 0 .. file_blocks - 1, spills \in BOOLEAN :
       \/ HandleRead(b, spills, <<"answers", "answers">>) /\ UNCHANGED faults
       \/ Fault("fetch") /\ HandleRead(b, spills, <<"fails", "fails">>)
       \/ spills /\ Fault("fetch") /\ HandleRead(b, spills, <<"answers", "fails">>)
  /\ UNCHANGED <<via, pc, i, waited, reaped, result, child, mount, version, sessions>>

InstallEnds ==
  /\ pc = "install"
  /\ result' \in IF child = "serving" THEN {"success", "error"} ELSE {"error"}
  /\ pc' = "exit"
  /\ UNCHANGED <<via, i, waited, reaped, reads, child, mount, version, fuse, history, faults,
                 sessions>>

\* Mutant: the child is not told.
StatExitNot ==
  /\ pc = "exit" /\ pc' = "reap"
  /\ UNCHANGED <<via, i, waited, reaped, result, reads, child, mount, version, fuse, history,
                 faults, sessions>>

\* Mutant: the return goes the short way after a kill too.
StatExitReturns ==
  /\ pc = "exit"
  /\ child' = IF child = "serving" THEN "closing" ELSE child
  /\ pc' = IF child = "serving" THEN "reap" ELSE "return"
  /\ UNCHANGED <<via, i, waited, reaped, result, reads, mount, version, fuse, history, faults,
                 sessions>>

\* stat of /sideload/exit, which the child answers and leaves its loop.
StatExit ==
  /\ pc = "exit"
  /\ child' = IF child = "serving" THEN "closing" ELSE child
  /\ pc' = "reap"
  /\ UNCHANGED <<via, i, waited, reaped, result, reads, mount, version, fuse, history, faults,
                 sessions>>

\* waitpid, until the child is gone; at once if there is none.
ReapChild ==
  /\ pc = "reap" /\ (child = "exited" \/ reaped)
  /\ reaped' = TRUE /\ pc' = "return"
  /\ UNCHANGED <<via, i, waited, result, reads, child, mount, version, fuse, history, faults,
                 sessions>>

Return ==
  /\ pc = "return" /\ pc' = "idle"
  /\ UNCHANGED <<via, i, waited, reaped, result, reads, child, mount, version, fuse, history,
                 faults, sessions>>

Recovery ==
  \/ PollChild \/ PollPackage \/ Kill \/ InstallReads \/ InstallEnds \/ StatExit \/ ReapChild \/ Return

SideloadNext ==
  \/ \E from \in {"adb", "sdcard"} : Start(from)
  \/ Recovery \/ Connect \/ Mount \/ Close \/ ChildExits \/ FileChanges

\* install_package waits for the child, which waits in read_block_adb for the host:
\* there is no timeout.
AwaitsHost == pc = "install" /\ via = "adb" /\ child = "serving"

\* Recovery runs where the host does not keep it waiting, and so does a child that is
\* leaving; the host need neither connect nor answer.
SideloadSpec ==
  /\ SideloadInit /\ [][SideloadNext]_sideload
  /\ WF_sideload(Recovery /\ ~AwaitsHost) /\ WF_sideload(Close)

-----------------------------------------------------------------------------
(* Properties *)

Data == {Zeros, Torn} \cup (0 .. file_blocks - 1) \X Versions

SideloadTypeOK ==
  /\ via \in {"adb", "sdcard"}
  /\ pc \in {"idle", "wait", "stat", "kill", "install", "exit", "reap", "return"}
  /\ i \in 0 .. TIMEOUT - 1 /\ waited \in BOOLEAN /\ reaped \in BOOLEAN
  /\ result \in {"none", "success", "error"} /\ reads \in 0 .. MaxReads
  /\ child \in {"none", "starting", "mounting", "serving", "closing", "exited"}
  /\ mount \in {"none", "live", "dead"} /\ version \in Versions
  /\ curr_block \in NoBlock .. file_blocks /\ block_data \in Data
  /\ hashes \in [0 .. file_blocks - 1 -> {0} \cup Versions]
  /\ got \in [0 .. file_blocks -> SUBSET Data] /\ failed \in BOOLEAN
  /\ faults \in 0 .. MaxFaults /\ sessions \in 0 .. MaxSessions

\* "each read of a given position returns the same data as the first read at that
\* position", and it is data of that position, although the file may change on the
\* host, blocks are refused for it and read again, and one buffer serves all blocks: as
\* long as read_block has not failed.  After a failure half way, curr_block still names
\* what the buffer no longer has.
StableReads ==
  ~failed => \A b \in 0 .. file_blocks : \A x, y \in got[b] :
    x = y /\ x \in IF b = file_blocks THEN {Zeros} ELSE {b} \X Versions

\* When apply_from_adb or apply_from_sdcard returns, its child has ended and waitpid
\* has had it, on every path, and nobody serves /sideload any more.
NothingLeft == pc = "idle" => reaped /\ ~Alive /\ mount # "live"

\* Both return, whether the host connects or never does, and whether the child mounts,
\* fails or ends early, unless the host stops answering in the installation itself:
\* then, and only then, recovery waits for ever.
Returns == (pc # "idle") ~> (pc = "idle" \/ []AwaitsHost)

=============================================================================
