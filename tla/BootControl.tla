---------------------------- MODULE BootControl -----------------------------
(***************************************************************************)
(* The boot control HAL (boot_control/boot_control.cpp), which keeps the   *)
(* slots' metadata on /misc, between the bootloader that picks a slot and  *)
(* the update engine that fills the other one; both are not part of the    *)
(* repository.  UpdateVerifier adds the one who marks a slot.              *)
(*                                                                         *)
(* The service serves one call at a time, and the metadata fit in one      *)
(* sector of an O_SYNC write: a call is one step.  verity_corrupted is     *)
(* left out, nothing here reads it.  A slot's image is the set of the      *)
(* blocks that dm-verity would refuse.                                     *)
(***************************************************************************)
EXTENDS Integers, FiniteSets

CONSTANTS
  Slots,      \* the slots whose boot partition exists, from 0 on
  Blocks,     \* of an image
  Faults,     \* which of "power", "service", "read", "write", "reboot", "misc" and "image"
  MaxFaults,  \* bound: how many of them
  MaxUpdates  \* bound: updates that the engine begins

ASSUME BootControlAssumption ==
  /\ Slots # {} /\ Slots \subseteq 0 .. 3 /\ \A s \in Slots : 0 .. s \subseteq Slots
  /\ MaxFaults \in Nat /\ MaxUpdates \in Nat

VARIABLES
  slot_info, valid, \* on /misc, and whether the CRC is right
  started,          \* the HAL's service, since the last boot
  initialized,      \* its module
  running,          \* the slot that runs, Off in between
  image,            \* per slot
  engine,           \* "idle", "writing" or "written"
  target,           \* the slot that the engine fills
  reset,            \* history: the metadata were lost
  faults, updates

hal == <<slot_info, valid, started, initialized>>

Off == -1
kDefaultBootAttempts == 7
kActivePriority == 15
kActiveTries == 6

Fault(f) == f \in Faults /\ faults < MaxFaults /\ faults' = faults + 1

Entry(p, t, s) == [priority |-> p, tries_remaining |-> t, successful_boot |-> s]

-----------------------------------------------------------------------------
(* The HAL *)

\* InitDefaultBootloaderControl: every slot gets its tries, and the current one is
\* taken to be successful.
DefaultInfo(current) ==
  [s \in Slots |-> Entry(7, kDefaultBootAttempts, IF s = current THEN 1 ELSE 0)]

MarkedSuccessful(s) == slot_info[s].successful_boot = 1 /\ slot_info[s].tries_remaining > 0

\* A call writes what it has made of the metadata it read, with a CRC that fits.
UpdateAndSave(info) == slot_info' = info /\ valid' = TRUE /\ UNCHANGED faults
SaveFails           == Fault("write") /\ UNCHANGED <<slot_info, valid>>

\* BootControl_lazyInitialization, when the service starts.  A device that is not
\* found, or metadata that cannot be read, leave the module without slots until the
\* next boot.  Whether the default was written is not looked at.
BootControl_init ==
  /\ running # Off /\ ~started
  /\ started' = TRUE
  /\ \/ initialized' = FALSE /\ Fault("read") /\ UNCHANGED <<slot_info, valid>>
     \/ initialized' = TRUE /\ valid /\ UNCHANGED <<slot_info, valid, faults>>
     \/ initialized' = TRUE /\ ~valid /\ (UpdateAndSave(DefaultInfo(running)) \/ SaveFails)
  /\ UNCHANGED <<running, image, engine, target, reset, updates>>

\* Mutant: a success in the last attempt leaves no attempt.
MarkBootSuccessfulOnly(s) == [slot_info EXCEPT ![s].successful_boot = 1]

MarkBootSuccessful(s) ==
  [slot_info EXCEPT ![s].successful_boot = 1, ![s].tries_remaining = 1]

SetActiveBootSlot(slot) ==
  [s \in Slots |->
    IF s = slot THEN Entry(kActivePriority, kActiveTries, slot_info[s].successful_boot)
    ELSE IF slot_info[s].priority >= kActivePriority
         THEN [slot_info[s] EXCEPT !.priority = kActivePriority - 1]
         ELSE slot_info[s]]

\* Mutant: the slot stays marked as successful.
SetSlotAsUnbootableTries(slot) == [slot_info EXCEPT ![slot].tries_remaining = 0]

SetSlotAsUnbootable(slot) ==
  [slot_info EXCEPT ![slot].successful_boot = 0, ![slot].tries_remaining = 0]

-----------------------------------------------------------------------------
(* The bootloader, as boot_control.cpp and bootloader_message.h have it: the highest *)
(* priority among the slots with tries left; a try is spent, except in a slot that   *)
(* has booted successfully.  Lost metadata it makes anew.                            *)

Repaired == IF valid THEN slot_info ELSE DefaultInfo(Off)

Candidates ==
  LET able == {s \in Slots : Repaired[s].tries_remaining > 0}
  IN  {s \in able : \A r \in able : Repaired[r].priority <= Repaired[s].priority}

BootsInto(s) ==
  /\ running = Off /\ s \in Candidates
  /\ running' = s
  /\ slot_info' = IF Repaired[s].successful_boot = 1 THEN Repaired
                  ELSE [Repaired EXCEPT ![s].tries_remaining = @ - 1]
  /\ valid' = TRUE
  /\ UNCHANGED <<started, initialized, image, engine, target, reset, faults, updates>>

\* /misc is wiped while the system runs.
Wiped ==
  /\ running # Off /\ valid /\ Fault("misc")
  /\ slot_info' = [s \in Slots |-> Entry(0, 0, 0)] /\ valid' = FALSE /\ reset' = TRUE
  /\ UNCHANGED <<started, initialized, running, image, engine, target, updates>>

GoesDown == running' = Off /\ started' = FALSE /\ initialized' = FALSE /\ engine' = "idle"

-----------------------------------------------------------------------------
(* The update engine *)

\* It begins when the current slot is known to be good; from then on the other slot
\* must not be booted.
BeginUpdate(slot) ==
  /\ initialized /\ engine = "idle" /\ updates < MaxUpdates
  /\ slot \in Slots \ {running} /\ MarkedSuccessful(running)
  /\ \/ /\ UpdateAndSave(SetSlotAsUnbootable(slot))
        /\ engine' = "writing" /\ target' = slot
        /\ image' = [image EXCEPT ![slot] = Blocks]
     \/ SaveFails /\ UNCHANGED <<engine, target, image>>
  /\ updates' = updates + 1
  /\ UNCHANGED <<started, initialized, running, reset>>

\* The new image is whole, or a block of it is not what it should be.
WriteImage ==
  /\ engine = "writing"
  /\ \/ image' = [image EXCEPT ![target] = {}] /\ UNCHANGED faults
     \/ Fault("image") /\ \E b \in Blocks : image' = [image EXCEPT ![target] = {b}]
  /\ engine' = "written"
  /\ UNCHANGED <<hal, running, target, reset, updates>>

Activate ==
  /\ engine = "written"
  /\ UpdateAndSave(SetActiveBootSlot(target)) \/ SaveFails
  /\ engine' = "idle"
  /\ UNCHANGED <<started, initialized, running, image, target, reset, updates>>

\* An update that waits for its reboot is called off.
Cancel ==
  /\ initialized /\ engine = "idle" /\ MarkedSuccessful(running)
  /\ \E s \in Slots : slot_info[s].priority > slot_info[running].priority
  /\ UpdateAndSave(SetActiveBootSlot(running)) \/ SaveFails
  /\ UNCHANGED <<started, initialized, running, image, engine, target, reset, updates>>

Engine == (\E slot \in Slots : BeginUpdate(slot)) \/ WriteImage \/ Activate \/ Cancel

=============================================================================
