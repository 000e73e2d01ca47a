------------------------------ MODULE Uncrypt -------------------------------
(***************************************************************************)
(* uncrypt (uncrypt/uncrypt.cpp), the service that prepares an update while *)
(* the main system runs.  UNCRYPT finds the blocks of a package on /data,   *)
(* writes them decrypted to the raw device and lists them in a block map;   *)
(* SETUP_BCB and CLEAR_BCB write the bootloader control block.  A client    *)
(* calls it over a socket, waits for the final status and acknowledges it.  *)
(* Recovery reads the map back with MemMapping::MapBlockFile.               *)
(*                                                                          *)
(* A variable and its Disk twin are a file as read and as on flash.  A line *)
(* of the map is a tuple, and all lines are taken to be of one length.      *)
(***************************************************************************)
EXTENDS Integers, Sequences, FiniteSets

CONSTANTS
  WINDOW_SIZE,
  Layouts,    \* the block numbers a package may occupy, in the order of the file
  Commands,   \* the commands for SETUP_BCB: how many options they have, and whether the
              \* wipe package that one of them may name is "full", "empty" or "unreadable"
  Room,       \* the options that fit the recovery field of the BCB
  Faults,     \* which of "io", "client" and "power" can happen
  MaxFaults,  \* bound: how many of them
  MaxCalls    \* bound: calls of the client, and new packages

ASSUME UncryptAssumption ==
  /\ WINDOW_SIZE \in Nat /\ WINDOW_SIZE > 1
  /\ \A l \in Layouts : l \in Seq(Nat \ {0}) /\ \A i, j \in DOMAIN l : i # j => l[i] # l[j]
  /\ Commands # {} /\ Commands \subseteq [options : Nat, wipe : {"full", "empty", "unreadable"}]
  /\ Room \in Nat /\ MaxFaults \in Nat /\ MaxCalls \in Nat

VARIABLES
  encrypted,           \* /data is encrypted
  layout, ondata,      \* the package: where FIBMAP finds its blocks, is it on /data
  raw, rawDisk,        \* what the raw device has at its k-th block: 0 what dm-crypt
                       \* wrote, k the plain text, -1 what cannot be told
  map, mapDisk,        \* block.map; <<>> is no file
  tmp, tmpDisk,        \* block.map.tmp
  renamed,             \* block.map is the .tmp file, but not yet on flash
  bcb, wipe_package,   \* on /misc: what the BCB asks for and how many of the options it
                       \* has; is there a wipe package
  pc, service,         \* uncrypt: where it is, what it was started for
  command,             \* what the client sends to SETUP_BCB
  pos, head_block, head, tail, buffers, ranges, \* produce_block_map
  sent,                \* the final status written to the socket, 0 is none
  client,              \* "idle", "wait" for the final status, "answered", "gone"
  status,              \* the final status the client has read for its last call
  placed,              \* history: a map of this package was put in place
  touched, leftover,   \* history: the call found raw blocks an earlier call had
                       \* written; it found a .tmp file of an earlier call
  faults, calls

package == <<encrypted, layout, ondata>>
device  == <<raw, rawDisk>>
maps    == <<map, mapDisk, tmp, tmpDisk, renamed>>
misc    == <<bcb, wipe_package, command>>
window  == <<pos, head_block, head, tail, buffers, ranges>>
socket  == <<sent, client, status>>
history == <<placed, touched, leftover>>
vars    == <<package, device, maps, misc, pc, service, window, socket, history, faults, calls>>

N == Len(layout)

-----------------------------------------------------------------------------
(* The block map *)

\* add_block_to_ranges: extend the last range, or begin one.
AddBlock(rs, b) ==
  IF rs # <<>> /\ rs[Len(rs)][2] = b
  THEN [rs EXCEPT ![Len(rs)][2] = b + 1]
  ELSE Append(rs, <<b, b + 1>>)

Header(n)  == <<<<"device">>, <<"size", n>>>>
Text(n, rs) == Header(n) \o <<<<"count", Len(rs)>>>> \o rs

\* Writing from the start of a file that was opened without O_TRUNC.
Over(text, old) == text \o SubSeq(old, Len(text) + 1, Len(old))

\* The blocks of a range, and of the ranges in their order.
BlocksOf(r) == [i \in 1 .. r[2] - r[1] |-> r[1] + i - 1]

Expand(rs) ==
  LET upTo[n \in 0 .. Len(rs)] == IF n = 0 THEN <<>> ELSE upTo[n - 1] \o BlocksOf(rs[n])
  IN  upTo[Len(rs)]

\* MapBlockFile accepts the text: a size, a count, that many ranges and no line
\* more, none empty, and together as long as the file.
Accepts(text) ==
  /\ Len(text) >= 4
  /\ text[2][2] > 0
  /\ text[3][1] = "count" /\ text[3][2] > 0 /\ Len(text) = 3 + text[3][2]
  /\ \A i \in 4 .. Len(text) : text[i][1] < text[i][2]
  /\ Len(Expand(SubSeq(text, 4, Len(text)))) = text[2][2]

Mapped(text) == Expand(SubSeq(text, 4, Len(text)))

-----------------------------------------------------------------------------
\* update_bootloader_message_in_struct: strlcat cuts what does not fit.
Message(s, options) ==
  [asks |-> s, options |-> IF options <= Room THEN options ELSE Room]

NoMessage == [asks |-> "none", options |-> 0]

Fault(f) == f \in Faults /\ faults < MaxFaults /\ faults' = faults + 1

Init ==
  /\ encrypted \in BOOLEAN /\ layout \in Layouts /\ ondata = TRUE
  /\ raw = [k \in 1 .. N |-> IF encrypted THEN 0 ELSE k] /\ rawDisk = raw
  /\ map = <<>> /\ mapDisk = <<>> /\ tmp = <<>> /\ tmpDisk = <<>> /\ renamed = FALSE
  /\ bcb = NoMessage /\ wipe_package = FALSE /\ command \in Commands
  /\ pc = "none" /\ service = "uncrypt"
  /\ pos = 0 /\ head_block = 0 /\ head = 0 /\ tail = 0 /\ ranges = <<>>
  /\ buffers = [i \in 0 .. WINDOW_SIZE - 1 |-> -1]
  /\ sent = 0 /\ client = "idle" /\ status = 0
  /\ placed = FALSE /\ touched = FALSE /\ leftover = FALSE
  /\ faults = 0 /\ calls = 0

-----------------------------------------------------------------------------
(* The client *)

\* init starts uncrypt for one of its services, and the client connects.
Call(s) ==
  /\ pc = "none" /\ client = "idle" /\ calls < MaxCalls
  /\ calls' = calls + 1
  /\ service' = s /\ pc' = "start"
  /\ IF s \in {"setup", "setup_wipe"} THEN command' \in Commands ELSE UNCHANGED command
  /\ client' = "wait" /\ sent' = 0 /\ status' = 0
  /\ UNCHANGED <<package, device, maps, bcb, wipe_package, window, history, faults>>

\* The main system downloads another package.
NewPackage ==
  /\ pc = "none" /\ client = "idle" /\ calls < MaxCalls
  /\ calls' = calls + 1
  /\ layout' \in Layouts /\ ondata' \in BOOLEAN
  /\ raw' = [k \in 1 .. Len(layout') |-> IF encrypted THEN 0 ELSE k] /\ rawDisk' = raw'
  /\ placed' = FALSE /\ status' = 0
  /\ UNCHANGED <<encrypted, maps, misc, pc, service, window, sent, client, touched, leftover, faults>>

\* The client reads the final status and acknowledges it.
ReadStatus ==
  /\ client = "wait" /\ sent # 0
  /\ status' = sent /\ sent' = 0 /\ client' = "answered"
  /\ UNCHANGED <<package, device, maps, misc, pc, service, window, history, faults, calls>>

ClientDies ==
  /\ client = "wait" /\ Fault("client")
  /\ client' = "gone" /\ sent' = 0
  /\ UNCHANGED <<package, device, maps, misc, pc, service, window, status, history, calls>>

-----------------------------------------------------------------------------
(* UNCRYPT *)

\* A step ends with the final status on the socket, and main() waits for the
\* client's code.
Final(code) ==
  /\ pc' = "ack"
  /\ sent' = IF client = "wait" THEN code ELSE 0
  /\ UNCHANGED <<client, status>>

\* Mutant: the failure is not reported.
ErrorSilent == Fault("io") /\ pc' = "ack" /\ UNCHANGED socket

\* produce_block_map or a write to /misc fails at this point.
Error == Fault("io") /\ Final(-1)

Goes(to) == pc' = to /\ UNCHANGED <<socket, faults>>

\* uncrypt_wrapper and uncrypt: the package cannot be found, or is not on /data.
NothingToMap ==
  /\ pc = "start" /\ service = "uncrypt"
  /\ \/ Error
     \/ ~ondata /\ Final(100) /\ UNCHANGED faults
  /\ UNCHANGED <<package, device, maps, misc, service, window, history, calls>>

\* The unlink of the old map, the .tmp file with its first two lines, and the
\* status 0 that tries the socket.
BeginMap ==
  /\ pc = "start" /\ service = "uncrypt" /\ ondata
  /\ pos' = 0 /\ head_block' = 0 /\ head' = 0 /\ tail' = 0 /\ ranges' = <<>>
  /\ buffers' = [i \in 0 .. WINDOW_SIZE - 1 |-> -1]
  /\ placed' = FALSE
  /\ touched' = (encrypted /\ \E k \in 1 .. N : raw[k] # 0)
  /\ leftover' = (tmp # <<>>)
  /\ map' = <<>>
  /\ \E kept \in {FALSE, renamed} :
       /\ mapDisk' = IF kept THEN tmpDisk ELSE mapDisk
       /\ tmpDisk' = IF kept THEN <<>> ELSE tmpDisk
  /\ renamed' = FALSE
  /\ \/ tmp' = Over(Header(N), tmp) /\ client = "wait" /\ Goes("loop")
     \/ UNCHANGED tmp /\ client # "wait" /\ Final(-1) /\ UNCHANGED faults
     \/ UNCHANGED tmp /\ Error
  /\ UNCHANGED <<package, device, misc, service, calls>>

Slot(i) == i % WINDOW_SIZE

\* The head buffer goes to the block that FIBMAP gives for it.
WriteHead ==
  /\ ranges' = AddBlock(ranges, layout[head_block + 1])
  /\ raw' = IF encrypted THEN [raw EXCEPT ![head_block + 1] = buffers[head]] ELSE raw
  /\ head' = Slot(head + 1)
  /\ head_block' = head_block + 1

\* The next block is read to the tail.  A block whose raw contents an earlier call
\* has replaced comes from the page cache or is decrypted once too often.
ReadTail ==
  /\ buffers' = IF encrypted
                THEN [buffers EXCEPT ![tail] = IF raw[pos + 1] = 0 THEN pos + 1 ELSE -1]
                ELSE buffers
  /\ pos' = pos + 1
  /\ tail' = Slot(tail + 1)

\* Mutant: the window is taken to be full when it is empty.
LoopEmpty ==
  /\ pc = "loop" /\ pos < N
  /\ IF tail = head THEN WriteHead ELSE UNCHANGED <<ranges, raw, head, head_block>>
  /\ ReadTail
  /\ Goes("loop")
  /\ UNCHANGED <<package, rawDisk, maps, misc, service, history, calls>>

\* One turn of the loop over the file.
Loop ==
  /\ pc = "loop" /\ pos < N
  /\ \/ /\ IF Slot(tail + 1) = head THEN WriteHead ELSE UNCHANGED <<ranges, raw, head, head_block>>
        /\ ReadTail
        /\ Goes("loop")
     \/ Error /\ UNCHANGED <<window, raw>>
  /\ UNCHANGED <<package, rawDisk, maps, misc, service, history, calls>>

\* One turn of the loop over what is left in the window.
Drain ==
  /\ pc = "loop" /\ pos = N /\ head # tail
  /\ \/ WriteHead /\ Goes("loop")
     \/ Error /\ UNCHANGED <<ranges, raw, head, head_block>>
  /\ UNCHANGED <<package, rawDisk, maps, misc, service, history, calls, pos, tail, buffers>>

\* The count and the ranges; an error may come after some of the lines.
WriteRanges ==
  /\ pc = "loop" /\ pos = N /\ head = tail
  /\ \/ tmp' = Over(Text(N, ranges), tmp) /\ Goes("sync_map")
     \/ Error /\ \E k \in 2 .. 2 + Len(ranges) : tmp' = Over(SubSeq(Text(N, ranges), 1, k), tmp)
  /\ UNCHANGED <<package, device, map, mapDisk, tmpDisk, renamed, misc, service, window, history, calls>>

SyncMap ==
  /\ pc = "sync_map"
  /\ \/ tmpDisk' = tmp /\ Goes("sync_device")
     \/ UNCHANGED tmpDisk /\ Error
  /\ UNCHANGED <<package, device, map, mapDisk, tmp, renamed, misc, service, window, history, calls>>

\* Mutant: the raw device is closed without fsync.
SyncDeviceNot ==
  /\ pc = "sync_device" /\ Goes("rename")
  /\ UNCHANGED <<package, device, maps, misc, service, window, history, calls>>

SyncDevice ==
  /\ pc = "sync_device"
  /\ \/ rawDisk' = raw /\ Goes("rename")
     \/ encrypted /\ UNCHANGED rawDisk /\ Error
  /\ UNCHANGED <<package, raw, maps, misc, service, window, history, calls>>

Rename ==
  /\ pc = "rename"
  /\ \/ map' = tmp /\ tmp' = <<>> /\ renamed' = TRUE /\ placed' = TRUE /\ Goes("sync_dir")
     \/ UNCHANGED <<map, tmp, renamed, placed>> /\ Error
  /\ UNCHANGED <<package, device, mapDisk, tmpDisk, misc, service, window, touched, leftover, calls>>

\* Mutant: success is reported without fsync of the directory.
SyncDirNot ==
  /\ pc = "sync_dir" /\ Final(100)
  /\ UNCHANGED <<package, device, maps, misc, service, window, history, faults, calls>>

SyncDir ==
  /\ pc = "sync_dir"
  /\ \/ /\ mapDisk' = tmpDisk /\ tmpDisk' = <<>> /\ renamed' = FALSE
        /\ Final(100) /\ UNCHANGED faults
     \/ UNCHANGED <<mapDisk, tmpDisk, renamed>> /\ Error
  /\ UNCHANGED <<package, device, map, tmp, misc, service, window, history, calls>>

-----------------------------------------------------------------------------
(* SETUP_BCB and CLEAR_BCB *)

\* A step that returns without a status.
NoStatus == pc' = "ack" /\ UNCHANGED socket

\* The command is received, and the wipe package it names is read.
ReceiveCommand ==
  /\ pc = "start" /\ service \in {"setup", "setup_wipe"}
  /\ IF client = "wait" /\ ~(service = "setup_wipe" /\ command.wipe = "unreadable")
     THEN Goes("write_bcb") ELSE NoStatus /\ UNCHANGED faults
  /\ UNCHANGED <<package, device, maps, misc, service, window, history, calls>>

WriteBcb ==
  /\ pc = "write_bcb"
  /\ LET message == Message(service, command.options)
     IN  \/ bcb' = message /\ Goes("write_wipe_package")
         \/ bcb' \in {bcb, message} /\ Error
  /\ UNCHANGED <<package, device, maps, wipe_package, command, service, window, history, calls>>

\* A wipe package that is empty is not written, and the old one stays.
WriteWipePackage ==
  /\ pc = "write_wipe_package"
  /\ LET writes == service = "setup_wipe" /\ command.wipe # "empty"
     IN  \/ /\ wipe_package' = (wipe_package \/ writes)
            /\ Final(100) /\ UNCHANGED faults
         \/ writes /\ wipe_package' = FALSE /\ Error
  /\ UNCHANGED <<package, device, maps, bcb, command, service, window, history, calls>>

ClearBcb ==
  /\ pc = "start" /\ service = "clear"
  /\ \/ bcb' = NoMessage /\ Final(100) /\ UNCHANGED faults
     \/ bcb' \in {bcb, NoMessage} /\ Error
  /\ UNCHANGED <<package, device, maps, wipe_package, command, service, window, history, calls>>

-----------------------------------------------------------------------------
\* main() has the client's code, or the client is gone; the socket is destroyed.
Exit ==
  /\ pc = "ack" /\ client \in {"answered", "gone"}
  /\ pc' = "none" /\ client' = "idle"
  /\ UNCHANGED <<package, device, maps, misc, service, window, sent, status, history, faults, calls>>

\* A write to the socket of a client that is gone may end the process.
Killed ==
  /\ pc # "none" /\ client = "gone"
  /\ pc' = "none" /\ client' = "idle"
  /\ UNCHANGED <<package, device, maps, misc, service, window, sent, status, history, faults, calls>>

\* What was not synced may be lost, each file and each block for itself.
PowerLoss ==
  /\ Fault("power")
  /\ \E on \in {TRUE, FALSE} :
       /\ map' = IF renamed THEN (IF on THEN tmpDisk ELSE mapDisk) ELSE (IF on THEN map ELSE mapDisk)
       /\ tmp' \in IF renamed THEN {IF on THEN <<>> ELSE tmpDisk} ELSE {tmp, tmpDisk}
  /\ mapDisk' = map' /\ tmpDisk' = tmp' /\ renamed' = FALSE
  /\ \E lost \in SUBSET {k \in 1 .. N : raw[k] # rawDisk[k]} :
       raw' = [k \in 1 .. N |-> IF k \in lost THEN rawDisk[k] ELSE raw[k]]
  /\ rawDisk' = raw'
  /\ pc' = "none" /\ client' = "idle" /\ sent' = 0
  /\ UNCHANGED <<package, misc, service, window, status, history, calls>>

Services == {"uncrypt", "setup", "setup_wipe", "clear"}

Uncrypt ==
  \/ NothingToMap \/ BeginMap \/ Loop \/ Drain \/ WriteRanges
  \/ SyncMap \/ SyncDevice \/ Rename \/ SyncDir
  \/ ReceiveCommand \/ WriteBcb \/ WriteWipePackage \/ ClearBcb \/ Exit

Next ==
  \/ \E s \in Services : Call(s)
  \/ NewPackage \/ ReadStatus \/ ClientDies
  \/ Uncrypt \/ Killed \/ PowerLoss

\* uncrypt runs, and a client that waits reads its socket.
Spec == Init /\ [][Next]_vars /\ WF_vars(Uncrypt) /\ WF_vars(ReadStatus)

-----------------------------------------------------------------------------
(* Properties *)

TypeOK ==
  /\ encrypted \in BOOLEAN /\ layout \in Layouts /\ ondata \in BOOLEAN
  /\ raw \in [1 .. N -> -1 .. N] /\ rawDisk \in [1 .. N -> -1 .. N]
  /\ renamed \in BOOLEAN /\ bcb \in [asks : {"none", "setup", "setup_wipe"}, options : 0 .. Room]
  /\ wipe_package \in BOOLEAN /\ command \in Commands
  /\ pc \in {"none", "start", "loop", "sync_map", "sync_device", "rename", "sync_dir",
             "write_bcb", "write_wipe_package", "ack"}
  /\ service \in Services
  /\ pos \in Nat /\ head_block \in 0 .. pos
  /\ head \in 0 .. WINDOW_SIZE - 1 /\ tail \in 0 .. WINDOW_SIZE - 1
  /\ buffers \in [0 .. WINDOW_SIZE - 1 -> Int]
  /\ sent \in {-1, 0, 100} /\ status \in {-1, 0, 100}
  /\ client \in {"idle", "wait", "answered", "gone"}
  /\ placed \in BOOLEAN /\ touched \in BOOLEAN /\ leftover \in BOOLEAN
  /\ faults \in 0 .. MaxFaults /\ calls \in 0 .. MaxCalls

\* Until a call begins on blocks that an earlier call had already replaced, the raw
\* device has under every block of the package what dm-crypt wrote or that block's
\* own plain text: the window of produce_block_map never mixes blocks up.
PlainText ==
  ~touched => \A k \in 1 .. N : raw[k] \in {0, k} /\ rawDisk[k] \in {0, k}

\* A block map that recovery accepts lists all blocks of a package in order, and
\* never half of one, whatever fails and whenever power is lost; and when the map is
\* that of the package at hand, the plain text is on the flash before the map is.
MapRight ==
  /\ \A m \in {map, mapDisk} : Accepts(m) => Mapped(m) \in Layouts
  /\ placed /\ ~touched /\ Accepts(mapDisk) /\ Mapped(mapDisk) = layout =>
       \A k \in 1 .. N : rawDisk[k] = k

\* The status 100 is the truth, also after a loss of power.  The map of the package is
\* on the flash and recovery accepts it, except that of an empty package; one written
\* over a longer .tmp file of an earlier call may be refused but is never wrong.  The
\* BCB has the command, all of it if there is room, and the wipe package is there if it
\* is not empty; or the BCB is clear.  That a command is cut, or that the package of the
\* last wipe is still there in the place of an empty one, the status does not tell.
DoneMeansDone ==
  status = 100 =>
    /\ service = "uncrypt" /\ ondata =>
         /\ N > 0 /\ ~leftover => Accepts(mapDisk)
         /\ Accepts(mapDisk) => Mapped(mapDisk) = layout
    /\ service \in {"setup", "setup_wipe"} =>
         /\ bcb.asks = service
         /\ command.options <= Room => bcb.options = command.options
    /\ service = "setup_wipe" /\ command.wipe = "full" => wipe_package
    /\ service = "clear" => bcb = NoMessage

\* A client that waits gets a final status: every error path of produce_block_map,
\* setup_bcb and clear_bcb reports one, but for that of a wipe package that cannot be
\* read, after which client and service wait for each other.
Answered ==
  (client = "wait" /\ ~(service = "setup_wipe" /\ command.wipe = "unreadable"))
      ~> (client # "wait")

=============================================================================
