--------------------------- MODULE UpdateVerifier ---------------------------
(***************************************************************************)
(* update_verifier (update_verifier/update_verifier.cpp) on top of the     *)
(* boot control HAL: it runs once in every boot and, in a slot that is not *)
(* marked successful yet, reads every block of the care map through        *)
(* dm-verity, in threads, before it marks the slot.                        *)
(***************************************************************************)
EXTENDS BootControl, RangeSet, Functions

CONSTANTS
  CareMaps,   \* [file : BOOLEAN, parts : sequences of [legacy : BOOLEAN, pairs : ranges]]
  Modes,      \* of dm-verity: "enforcing", "eio", "skip" or "unexpected"
  thread_num  \* hardware_concurrency, or 4

\* The blocks of one pair of lines of a care map.
BlocksOf(lines) == UNION {r[1] .. r[2] - 1 : r \in Range(lines.pairs)}

ASSUME UpdateVerifierAssumption ==
  /\ thread_num \in Nat \ {0}
  /\ \A m \in CareMaps : m.parts \in Seq([legacy : BOOLEAN, pairs : Seq(Nat \X Nat)])

VARIABLES
  verity_mode, care_map, \* what the device has
  pc,                    \* of update_verifier
  part,                  \* the pair of lines of the care map that is read
  threads, bad,          \* per group the blocks that are left; the groups that failed
  joined, ret,           \* the threads that were waited for, their results so far
  checked                \* per slot: "no", "blocks" or "taken" (marked without a check)

boot == <<hal, running, image, engine, target, reset, faults, updates>>
verifier == <<part, threads, bad, joined, ret, checked>>
vars == <<boot, verity_mode, care_map, pc, verifier>>

Parts == DOMAIN care_map.parts

Init ==
  /\ \E t \in {1, kActiveTries} :
       slot_info = [s \in Slots |-> IF s = 0 THEN Entry(kActivePriority, t, 0) ELSE Entry(0, 0, 0)]
  /\ valid = TRUE /\ started = FALSE /\ initialized = FALSE /\ running = Off
  /\ image = [s \in Slots |-> IF s = 0 THEN {} ELSE Blocks]
  /\ engine = "idle" /\ target = 0 /\ reset = FALSE
  /\ faults = 0 /\ updates = 0
  /\ verity_mode \in Modes /\ care_map \in CareMaps
  /\ pc = "off" /\ part = 1 /\ threads = <<>> /\ bad = {} /\ joined = 0 /\ ret = TRUE
  /\ checked = [s \in Slots |-> "no"]

Fixed == UNCHANGED <<verity_mode, care_map>>

-----------------------------------------------------------------------------
(* The device around it *)

Boot ==
  /\ \E s \in Slots : BootsInto(s)
  /\ pc' = "start" /\ part' = 1 /\ threads' = <<>> /\ bad' = {} /\ joined' = 0 /\ ret' = TRUE
  /\ Fixed /\ UNCHANGED checked

StartHal == BootControl_init /\ Fixed /\ UNCHANGED <<pc, verifier>>

Down ==
  /\ GoesDown /\ pc' = "off"
  /\ Fixed /\ UNCHANGED <<slot_info, valid, image, target, reset, updates, verifier>>

\* The power goes; or the user restarts, into the slot that waits for it or out of one
\* that should have been left.
PowerLoss == running # Off /\ Fault("power") /\ Down
Restart ==
  /\ \/ pc = "left" /\ engine = "idle" /\ running \notin Candidates
     \/ pc \in {"gaveup", "unjudged"}
  /\ Down /\ UNCHANGED faults

Damage == Wiped /\ Fixed /\ UNCHANGED <<pc, verifier>>

\* A slot that the engine begins to fill has not been checked.
Update ==
  /\ Engine
  /\ checked' = [s \in Slots |-> IF image'[s] # image[s] THEN "no" ELSE checked[s]]
  /\ Fixed /\ UNCHANGED <<pc, part, threads, bad, joined, ret>>

-----------------------------------------------------------------------------
(* update_verifier *)

Goes(to) == pc' = to /\ Fixed /\ UNCHANGED boot

\* The same with a fault.
Turns(to) ==
  pc' = to /\ Fixed /\ UNCHANGED <<hal, running, image, engine, target, reset, updates, verifier>>

\* Mutant: a failure is only logged.
RebootDeviceNot ==
  /\ pc = "reboot"
  /\ Goes("left") /\ UNCHANGED verifier

\* reboot_device: when it fails the boot goes on in this slot.
RebootDevice ==
  /\ pc = "reboot"
  /\ \/ Down /\ UNCHANGED faults
     \/ Fault("reboot") /\ Turns("gaveup")

\* There is no bootctrl module.
NoService == pc = "start" /\ Fault("service") /\ Turns("reboot")

\* isSlotMarkedSuccessful returns -1, without slots or when the metadata cannot be
\* read.  That is not FALSE, and update_verifier leaves as if the slot were marked.
CannotTell ==
  /\ pc = "start" /\ started
  /\ \/ ~initialized /\ UNCHANGED faults
     \/ initialized /\ Fault("read")
  /\ Turns("unjudged")

\* Is there anything to verify?
Start ==
  /\ pc = "start" /\ initialized
  /\ Goes(IF MarkedSuccessful(running) THEN "left"
          ELSE CASE verity_mode = "unexpected" -> "reboot"
                 [] verity_mode = "skip" -> "mark"
                 [] OTHER -> "verify")
  /\ checked' = IF MarkedSuccessful(running) \/ verity_mode # "skip" THEN checked
                ELSE [checked EXCEPT ![running] = "taken"]
  /\ UNCHANGED <<part, threads, bad, joined, ret>>

\* verify_image: no care map, or one of an old release, is no error.
Verdict ==
  CASE ~care_map.file -> "taken"
    [] care_map.file /\ Len(care_map.parts) \notin 1 .. 3 -> "failed"
    [] OTHER -> IF part > Len(care_map.parts) THEN "blocks"
                ELSE IF care_map.parts[part].legacy THEN "taken"
                ELSE IF MakeRangeSet(care_map.parts[part].pairs) = <<>> THEN "failed" ELSE "read"

VerifyImage ==
  /\ pc = "verify"
  /\ Goes(CASE Verdict \in {"taken", "blocks"} -> "mark"
            [] Verdict = "failed" -> "reboot"
            [] Verdict = "read" -> "split")
  /\ checked' = IF Verdict \in {"taken", "blocks"} THEN [checked EXCEPT ![running] = Verdict]
                ELSE checked
  /\ UNCHANGED <<part, threads, bad, joined, ret>>

\* read_blocks: one thread for every group of the ranges.
Groups ==
  [m \in CareMaps |-> [p \in DOMAIN m.parts |->
     Split(MakeRangeSet(m.parts[p].pairs), thread_num)]]

SplitBlocks ==
  /\ pc = "split"
  /\ LET groups == Groups[care_map][part]
     IN  threads' = [g \in DOMAIN groups |-> BlockList(groups[g])]
  /\ bad' = {} /\ joined' = 0 /\ ret' = TRUE
  /\ Goes("join") /\ UNCHANGED <<part, checked>>

\* A thread reads its next block.  dm-verity refuses a bad one: the read fails, or
\* the kernel restarts the device.
ReadBlock(g) ==
  /\ pc = "join" /\ g \in DOMAIN threads /\ threads[g] # <<>>
  /\ \/ /\ Head(threads[g]) \notin image[running]
        /\ threads' = [threads EXCEPT ![g] = Tail(@)] /\ bad' = bad
        /\ Goes("join") /\ UNCHANGED <<part, joined, ret, checked>>
     \/ /\ Head(threads[g]) \in image[running] /\ verity_mode = "eio"
        /\ threads' = [threads EXCEPT ![g] = <<>>] /\ bad' = bad \cup {g}
        /\ Goes("join") /\ UNCHANGED <<part, joined, ret, checked>>
     \/ /\ Head(threads[g]) \in image[running] /\ verity_mode = "enforcing"
        /\ Down /\ UNCHANGED faults

Join ==
  /\ pc = "join" /\ joined < Len(threads) /\ threads[joined + 1] = <<>>
  /\ joined' = joined + 1 /\ ret' = (joined + 1 \notin bad /\ ret)
  /\ Goes("join") /\ UNCHANGED <<part, threads, bad, checked>>

Joined ==
  /\ pc = "join" /\ joined = Len(threads)
  /\ part' = part + 1
  /\ Goes(IF ret THEN "verify" ELSE "reboot") /\ UNCHANGED <<threads, bad, joined, ret, checked>>

MarkSuccessful ==
  /\ pc = "mark"
  /\ \/ UpdateAndSave(MarkBootSuccessful(running)) /\ pc' = "left"
     \/ SaveFails /\ pc' = "reboot"
  /\ Fixed
  /\ UNCHANGED <<started, initialized, running, image, engine, target, reset, updates, verifier>>

Verifier ==
  \/ NoService \/ CannotTell \/ Start \/ VerifyImage \/ SplitBlocks \/ Join \/ Joined \/ MarkSuccessful
  \/ RebootDevice \/ \E g \in 1 .. thread_num : ReadBlock(g)

Next == Boot \/ StartHal \/ PowerLoss \/ Restart \/ Damage \/ Update \/ Verifier

\* The device boots when it is off, init starts the service and update_verifier.
Spec == Init /\ [][Next]_vars /\ WF_vars(Boot) /\ WF_vars(StartHal) /\ WF_vars(Verifier)

-----------------------------------------------------------------------------
(* Properties *)

TypeOK ==
  /\ slot_info \in [Slots -> [priority : 0 .. 15, tries_remaining : 0 .. 7,
                              successful_boot : 0 .. 1]]
  /\ valid \in BOOLEAN /\ started \in BOOLEAN /\ initialized \in BOOLEAN /\ reset \in BOOLEAN
  /\ running \in Slots \cup {Off} /\ target \in Slots
  /\ image \in [Slots -> SUBSET Blocks]
  /\ engine \in {"idle", "writing", "written"}
  /\ faults \in 0 .. MaxFaults /\ updates \in 0 .. MaxUpdates
  /\ verity_mode \in Modes /\ care_map \in CareMaps
  /\ pc \in {"off", "start", "verify", "split", "join", "mark", "reboot", "left", "gaveup",
            "unjudged"}
  /\ (pc = "off") = (running = Off)
  /\ part \in 1 .. Len(care_map.parts) + 1
  /\ Len(threads) <= thread_num /\ joined \in 0 .. Len(threads) /\ ret \in BOOLEAN
  /\ threads \in Seq(Seq(Nat)) /\ bad \subseteq DOMAIN threads
  /\ checked \in [Slots -> {"no", "blocks", "taken"}]

\* The blocks of the care map, and a slot in which all of them are right.
Cared == UNION {BlocksOf(care_map.parts[p]) : p \in Parts}
Good(s) == image[s] \cap Cared = {}

\* A slot is marked as booted successfully only when every block of the care map
\* was read in that very image: through whatever order the threads end in, updates
\* that write the slot anew, canceled updates, lost power and failed writes.  (But
\* for metadata that were lost, and for the boots that verify_image lets pass.)
VerifiedOnly ==
  \A s \in Slots : ~reset /\ MarkedSuccessful(s) =>
    checked[s] # "no" /\ (checked[s] = "blocks" => Good(s))

\* Once a slot has booted successfully there is always one that the bootloader may
\* boot and whose image is right, whatever the update does to the others: "make
\* sure we mark the current slot as bootable if it succeeds in the last attempt".
FallBack ==
  ~reset /\ (\E s \in Slots : slot_info[s].successful_boot = 1) =>
    \E s \in Slots :
      slot_info[s].tries_remaining > 0 /\ (Good(s) \/ checked[s] = "taken")

\* The threads of read_blocks read the blocks of the care map, each one once and in
\* order, in as many groups as there are threads or blocks, and no group has two
\* blocks more than another one.
SplitRight ==
  pc = "split" => \A n \in 1 .. BlockCount(care_map.parts[part].pairs) + 1 :
    LET rs == MakeRangeSet(care_map.parts[part].pairs)
        groups == Split(rs, n)
        size(g) == BlockCount(groups[g])
    IN  /\ Concat([g \in DOMAIN groups |-> BlockList(groups[g])]) = BlockList(rs)
        /\ Len(groups) = (IF BlockCount(rs) < n THEN BlockCount(rs) ELSE n)
        /\ \A g, h \in DOMAIN groups : size(g) <= size(h) + 1

\* A device that has a successful slot comes back, again and again, to one whose image is
\* right: an update that is not is tried, refused and left again, also when restarts fail
\* or the HAL cannot be asked on the way.  It may stay in a bad slot only where
\* update_verifier has given up, its restart failing, or could not tell whether the slot
\* is marked, and nobody restarts the device.
ReachesGood ==
  \/ <>reset
  \/ <>[](pc \in {"gaveup", "unjudged"})
  \/ []<>((\E s \in Slots : MarkedSuccessful(s)) =>
            running # Off /\ (Good(running) \/ checked[running] = "taken"))

=============================================================================
