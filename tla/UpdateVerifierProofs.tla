------------------------ MODULE UpdateVerifierProofs ------------------------
(***************************************************************************)
(* Proofs about update_verifier and the boot control HAL, for every number *)
(* of slots, blocks, threads, updates and faults: a slot is marked only    *)
(* when its image was read, and what is marked can be booted.              *)
(***************************************************************************)
EXTENDS UpdateVerifier, SequenceTheorems, WellFoundedInduction, TLAPS

SlotInfos == [Slots -> [priority : Nat, tries_remaining : Nat, successful_boot : {0, 1}]]

\* The metadata are as the HAL and the bootloader write them, a slot that has booted
\* successfully has an attempt left, and the engine fills a slot that does not run
\* and is not marked.
BootInv ==
  /\ slot_info \in SlotInfos /\ valid \in BOOLEAN /\ reset \in BOOLEAN
  /\ running \in Slots \cup {Off} /\ target \in Slots
  /\ image \in [Slots -> SUBSET Blocks]
  /\ ~reset => valid
  /\ initialized => running # Off
  /\ ~reset => \A s \in Slots : slot_info[s].successful_boot = 1 => slot_info[s].tries_remaining > 0
  /\ engine # "idle" =>
       /\ running # Off /\ target # running
       /\ ~reset => slot_info[target].successful_boot = 0

\* A marked slot was checked, a slot that was read has no bad block, and the slot that
\* is about to be marked was checked.
CheckInv ==
  /\ checked \in [Slots -> {"no", "blocks", "taken"}] /\ care_map \in CareMaps
  /\ (pc = "off") <=> (running = Off)
  /\ \A s \in Slots : ~reset /\ slot_info[s].successful_boot = 1 => checked[s] # "no"
  /\ \A s \in Slots : checked[s] = "blocks" => Good(s)
  /\ pc = "mark" => checked[running] # "no"

Clean(p) == BlocksOf(care_map.parts[p]) \cap image[running] = {}

\* The parts before this one are clean; of this one a bad block is still to be read,
\* or its thread has failed.
ReadInv ==
  /\ part \in Nat \ {0}
  /\ pc = "start" => part = 1
  /\ pc \in {"verify", "split", "join"} => \A p \in Parts : p < part => Clean(p)
  /\ pc \in {"split", "join"} => part \in Parts /\ MakeRangeSet(care_map.parts[part].pairs) # <<>>
  /\ pc = "join" =>
       /\ threads \in Seq(Seq(Nat)) /\ joined \in 0 .. Len(threads)
       /\ \A g \in 1 .. joined : threads[g] = <<>> /\ (ret => g \notin bad)
       /\ \A b \in BlocksOf(care_map.parts[part]) \cap image[running] :
            \E g \in DOMAIN threads : b \in Range(threads[g]) \/ g \in bad

VerifierInv == BootInv /\ CheckInv /\ ReadInv

-----------------------------------------------------------------------------
(* The HAL's operations *)

LEMMA OffNoSlot == Off \notin Slots
BY BootControlAssumption DEF BootControlAssumption, Off

LEMMA MarkFacts ==
  ASSUME slot_info \in SlotInfos, NEW s \in Slots, NEW info, info = MarkBootSuccessful(s)
  PROVE  /\ info \in SlotInfos
         /\ \A r \in Slots : r # s => info[r] = slot_info[r]
         /\ info[s].successful_boot = 1 /\ info[s].tries_remaining = 1
BY Zenon DEF MarkBootSuccessful, SlotInfos

LEMMA UnbootableFacts ==
  ASSUME slot_info \in SlotInfos, NEW s \in Slots, NEW info, info = SetSlotAsUnbootable(s)
  PROVE  /\ info \in SlotInfos
         /\ \A r \in Slots : r # s => info[r] = slot_info[r]
         /\ info[s].successful_boot = 0
BY Zenon DEF SetSlotAsUnbootable, SlotInfos

LEMMA ActiveFacts ==
  ASSUME slot_info \in SlotInfos, NEW s \in Slots, NEW info, info = SetActiveBootSlot(s)
  PROVE  /\ info \in SlotInfos
         /\ \A r \in Slots :
              /\ info[r].successful_boot = slot_info[r].successful_boot
              /\ info[r].tries_remaining = slot_info[r].tries_remaining \/ info[r].tries_remaining > 0
<1> USE DEF SlotInfos, Entry, kActivePriority, kActiveTries
<1>1. ASSUME NEW r \in Slots
      PROVE  /\ info[r] \in [priority : Nat, tries_remaining : Nat, successful_boot : {0, 1}]
             /\ info[r].successful_boot = slot_info[r].successful_boot
             /\ info[r].tries_remaining = slot_info[r].tries_remaining \/ info[r].tries_remaining > 0
  <2>1. CASE r = s
    <3>1. info[r] = [priority |-> 15, tries_remaining |-> 6, successful_boot |-> slot_info[r].successful_boot]
      BY <2>1 DEF SetActiveBootSlot
    <3> QED BY <3>1
  <2>2. CASE r # s
    <3>1. info[r] = [slot_info[r] EXCEPT !.priority = 14] \/ info[r] = slot_info[r]
      BY <2>2 DEF SetActiveBootSlot
    <3> QED BY <3>1
  <2> QED BY <2>1, <2>2
<1>2. info = [r \in Slots |-> info[r]]
  BY DEF SetActiveBootSlot
<1> QED BY <1>1, <1>2

LEMMA DefaultFacts ==
  ASSUME NEW current
  PROVE  DefaultInfo(current) \in SlotInfos
BY DEF DefaultInfo, Entry, SlotInfos, kDefaultBootAttempts

\* The bootloader spends a try only where there is no success.
LEMMA BootsFacts ==
  ASSUME BootInv, NEW s \in Slots, BootsInto(s)
  PROVE  /\ slot_info' \in SlotInfos
         /\ ~reset => \A r \in Slots :
              /\ slot_info'[r].successful_boot = slot_info[r].successful_boot
              /\ slot_info'[r].successful_boot = 1 => slot_info'[r].tries_remaining > 0
<1>1. Repaired \in SlotInfos /\ (~reset => Repaired = slot_info)
  BY DefaultFacts DEF Repaired, BootInv
<1>2. Repaired[s].tries_remaining > 0
  BY DEF BootsInto, Candidates
<1>3. CASE Repaired[s].successful_boot = 1
  BY <1>1, <1>3 DEF BootsInto, BootInv
<1>4. CASE Repaired[s].successful_boot # 1
  <2>1. slot_info' = [Repaired EXCEPT ![s].tries_remaining = @ - 1]
    BY <1>4 DEF BootsInto
  <2>2. slot_info' \in SlotInfos
    BY <1>1, <1>2, <2>1 DEF SlotInfos
  <2>3. \A r \in Slots : /\ slot_info'[r].successful_boot = Repaired[r].successful_boot
                         /\ r # s => slot_info'[r] = Repaired[r]
    BY <1>1, <2>1 DEF SlotInfos
  <2> QED BY <1>1, <1>4, <2>2, <2>3 DEF BootInv
<1> QED BY <1>3, <1>4

-----------------------------------------------------------------------------
(* The metadata *)

LEMMA VerifierSteps ==
  ASSUME Verifier
  PROVE  \/ Start \/ VerifyImage \/ SplitBlocks \/ Join \/ Joined \/ MarkSuccessful
         \/ \E g \in 1 .. thread_num : ReadBlock(g) /\ Goes("join")
         \/ Down
         \/ /\ pc \in {"start", "reboot"}
            /\ \E to \in {"reboot", "gaveup", "unjudged"} : Turns(to)
BY DEF Verifier, NoService, CannotTell, RebootDevice, ReadBlock

LEMMA BootStays ==
  ASSUME BootInv, UNCHANGED <<hal, running, image, engine, target, reset>>
  PROVE  BootInv'
BY DEF BootInv, hal

LEMMA BootDown ==
  ASSUME BootInv, Down
  PROVE  BootInv'
BY DEF BootInv, Down, GoesDown

LEMMA BootUpdate ==
  ASSUME BootInv, Engine
  PROVE  BootInv'
<1>1. ASSUME NEW slot \in Slots, BeginUpdate(slot) PROVE BootInv'
  <2>1. /\ initialized /\ slot \in Slots \ {running} /\ UNCHANGED <<started, initialized, running, reset>>
        /\ running # Off
    BY <1>1 DEF BeginUpdate, BootInv
  <2>2. CASE UpdateAndSave(SetSlotAsUnbootable(slot)) /\ target' = slot /\ image' = [image EXCEPT ![slot] = Blocks]
    <3>1. slot_info' = SetSlotAsUnbootable(slot) /\ valid' = TRUE
      BY <2>2 DEF UpdateAndSave
    <3>2. /\ slot_info' \in SlotInfos
          /\ \A r \in Slots : r # slot => slot_info'[r] = slot_info[r]
          /\ slot_info'[slot].successful_boot = 0
      BY <3>1, UnbootableFacts DEF BootInv
    <3> QED BY <2>1, <2>2, <3>1, <3>2 DEF BootInv
  <2>3. CASE UNCHANGED <<slot_info, valid, engine, target, image>>
    BY <2>1, <2>3, BootStays DEF hal
  <2> QED BY <1>1, <2>2, <2>3 DEF BeginUpdate, SaveFails
<1>2. CASE WriteImage
  <2>1. image' \in [Slots -> SUBSET Blocks]
    BY <1>2 DEF WriteImage, BootInv
  <2> QED BY <1>2, <2>1 DEF WriteImage, BootInv, hal
<1>3. ASSUME NEW slot \in Slots, UpdateAndSave(SetActiveBootSlot(slot)),
             UNCHANGED <<initialized, running, image, target, reset>>, engine' = "idle"
      PROVE  BootInv'
  <2>1. slot_info' = SetActiveBootSlot(slot) /\ valid' = TRUE
    BY <1>3 DEF UpdateAndSave
  <2>2. /\ slot_info' \in SlotInfos
        /\ \A r \in Slots :
             /\ slot_info'[r].successful_boot = slot_info[r].successful_boot
             /\ slot_info'[r].tries_remaining = slot_info[r].tries_remaining
                \/ slot_info'[r].tries_remaining > 0
    BY <2>1, ActiveFacts DEF BootInv
  <2> QED BY <1>3, <2>1, <2>2 DEF BootInv
<1>4. CASE Activate
  <2>1. engine' = "idle" /\ UNCHANGED <<initialized, running, image, target, reset>>
    BY <1>4 DEF Activate
  <2>2. CASE UpdateAndSave(SetActiveBootSlot(target))
    BY <1>3, <2>1, <2>2 DEF BootInv
  <2>3. CASE UNCHANGED <<slot_info, valid>>
    BY <2>1, <2>3 DEF BootInv
  <2> QED BY <1>4, <2>2, <2>3 DEF Activate, SaveFails
<1>5. CASE Cancel
  <2>1. /\ engine = "idle" /\ UNCHANGED <<engine, initialized, running, image, target, reset>>
        /\ running \in Slots
    BY <1>5 DEF Cancel, BootInv
  <2>2. CASE UpdateAndSave(SetActiveBootSlot(running))
    BY <1>3, <2>1, <2>2
  <2>3. CASE UNCHANGED <<slot_info, valid>>
    BY <2>1, <2>3 DEF BootInv
  <2> QED BY <1>5, <2>2, <2>3 DEF Cancel, SaveFails
<1> QED BY <1>1, <1>2, <1>4, <1>5 DEF Engine

LEMMA BootMark ==
  ASSUME BootInv, MarkSuccessful, running # Off
  PROVE  BootInv'
<1>1. UNCHANGED <<started, initialized, running, image, engine, target, reset>> /\ running \in Slots
  BY DEF MarkSuccessful, BootInv
<1>2. CASE UpdateAndSave(MarkBootSuccessful(running))
  <2>1. slot_info' = MarkBootSuccessful(running) /\ valid' = TRUE
    BY <1>2 DEF UpdateAndSave
  <2>2. /\ slot_info' \in SlotInfos
        /\ \A r \in Slots : r # running => slot_info'[r] = slot_info[r]
        /\ slot_info'[running].successful_boot = 1 /\ slot_info'[running].tries_remaining = 1
    BY <1>1, <2>1, MarkFacts DEF BootInv
  <2> QED BY <1>1, <2>1, <2>2 DEF BootInv
<1>3. CASE UNCHANGED <<slot_info, valid>>
  BY <1>1, <1>3, BootStays DEF hal
<1> QED BY <1>2, <1>3 DEF MarkSuccessful, SaveFails

LEMMA NextBoot == BootInv /\ CheckInv /\ [Next]_vars => BootInv'
<1> SUFFICES ASSUME BootInv, CheckInv, [Next]_vars PROVE BootInv'
  OBVIOUS
<1>1. CASE Boot
  <2>1. PICK s \in Slots : BootsInto(s)
    BY <1>1 DEF Boot
  <2>2. /\ running = Off /\ running' = s /\ valid' = TRUE
        /\ UNCHANGED <<initialized, image, engine, target, reset>>
    BY <2>1 DEF BootsInto
  <2> QED BY <2>1, <2>2, BootsFacts, OffNoSlot DEF BootInv
<1>2. CASE StartHal
  <2>1. running # Off /\ UNCHANGED <<running, image, engine, target, reset>>
    BY <1>2 DEF StartHal, BootControl_init
  <2>2. CASE UNCHANGED <<slot_info, valid>>
    BY <2>1, <2>2 DEF BootInv
  <2>3. CASE ~valid /\ UpdateAndSave(DefaultInfo(running))
    <3>1. slot_info' \in SlotInfos /\ valid' = TRUE /\ reset
      BY <2>3, DefaultFacts DEF UpdateAndSave, BootInv
    <3> QED BY <2>1, <3>1 DEF BootInv
  <2> QED BY <1>2, <2>2, <2>3 DEF StartHal, BootControl_init, SaveFails
<1>3. CASE PowerLoss \/ Restart
  BY <1>3, BootDown DEF PowerLoss, Restart
<1>4. CASE Damage
  <2>1. /\ reset' = TRUE /\ valid' = FALSE /\ UNCHANGED <<initialized, running, image, engine, target>>
        /\ slot_info' = [s \in Slots |-> Entry(0, 0, 0)]
    BY <1>4 DEF Damage, Wiped
  <2>2. slot_info' \in SlotInfos
    BY <2>1 DEF Entry, SlotInfos
  <2> QED BY <2>1, <2>2, Zenon DEF BootInv
<1>5. CASE Update
  BY <1>5, BootUpdate DEF Update
<1>6. CASE Verifier
  <2>1. CASE UNCHANGED <<hal, running, image, engine, target, reset>>
    BY <2>1, BootStays
  <2>2. CASE MarkSuccessful
    <3>1. running # Off
      BY <2>2 DEF MarkSuccessful, CheckInv
    <3> QED BY <2>2, <3>1, BootMark
  <2>3. CASE Down
    BY <2>3, BootDown
  <2> QED BY <1>6, <2>1, <2>2, <2>3, VerifierSteps, Zenon
          DEF Start, VerifyImage, SplitBlocks, Join, Joined, Goes, Turns, boot
<1>7. CASE UNCHANGED vars
  <2>1. UNCHANGED <<hal, running, image, engine, target, reset>>
    BY <1>7 DEF vars, boot
  <2> QED BY <2>1, BootStays
<1> QED BY <1>1, <1>2, <1>3, <1>4, <1>5, <1>6, <1>7 DEF Next

-----------------------------------------------------------------------------
(* The checks *)

\* The steps that neither mark nor check a slot.
LEMMA CheckStays ==
  ASSUME CheckInv, UNCHANGED <<checked, care_map, image>>, reset => reset',
         (pc' = "off") <=> (running' = Off),
         pc' = "mark" => pc = "mark" /\ running' = running,
         ~reset' => \A s \in Slots : slot_info'[s].successful_boot = 1 => slot_info[s].successful_boot = 1
  PROVE  CheckInv'
BY DEF CheckInv, Good, Cared, Parts, BlocksOf

\* verify_image has come to the end of the care map only when all of it is clean.
LEMMA AllClean ==
  ASSUME VerifierInv, pc = "verify", Verdict = "blocks"
  PROVE  Good(running)
<1>1. care_map.parts \in Seq([legacy : BOOLEAN, pairs : Seq(Nat \X Nat)])
  BY UpdateVerifierAssumption DEF UpdateVerifierAssumption, VerifierInv, CheckInv
<1>2. part > Len(care_map.parts)
  BY DEF Verdict
<1>3. \A p \in Parts : Clean(p)
  BY <1>1, <1>2 DEF VerifierInv, ReadInv, Parts
<1> QED BY <1>3 DEF Good, Cared, Clean

LEMMA VerdictSet == Verdict \in {"taken", "failed", "blocks", "read"}
BY DEF Verdict

LEMMA CheckVerify ==
  ASSUME VerifierInv, VerifyImage
  PROVE  CheckInv'
<1>1. /\ pc = "verify" /\ UNCHANGED <<slot_info, running, image, reset, care_map>>
      /\ running \in Slots
  BY OffNoSlot DEF VerifyImage, Goes, boot, hal, Fixed, VerifierInv, BootInv, CheckInv
<1>2. pc' \in {"mark", "reboot", "split"} /\ (pc' = "mark" => Verdict \in {"taken", "blocks"})
  BY VerdictSet DEF VerifyImage, Goes
<1>3. CASE Verdict \in {"taken", "blocks"}
  <2>1. checked' = [checked EXCEPT ![running] = Verdict]
    BY <1>3 DEF VerifyImage
  <2>2. Verdict = "blocks" => Good(running)
    BY <1>1, AllClean
  <2> QED BY <1>1, <1>2, <1>3, <2>1, <2>2
          DEF VerifierInv, CheckInv, Good, Cared, Parts, BlocksOf
<1>4. CASE Verdict \notin {"taken", "blocks"}
  <2>1. checked' = checked
    BY <1>4 DEF VerifyImage
  <2> QED BY <1>1, <1>2, <1>4, <2>1, CheckStays DEF VerifierInv, CheckInv
<1> QED BY <1>3, <1>4

LEMMA CheckStart ==
  ASSUME VerifierInv, Start
  PROVE  CheckInv'
<1>1. /\ pc = "start" /\ UNCHANGED <<slot_info, running, image, reset, care_map>>
      /\ running \in Slots
  BY OffNoSlot DEF Start, Goes, boot, hal, Fixed, VerifierInv, BootInv, CheckInv
<1>2. /\ pc' \in {"left", "mark", "reboot", "verify"}
      /\ pc' = "mark" => ~MarkedSuccessful(running) /\ verity_mode = "skip"
  BY DEF Start, Goes
<1>3. CASE MarkedSuccessful(running) \/ verity_mode # "skip"
  <2>1. checked' = checked
    BY <1>3 DEF Start
  <2> QED BY <1>1, <1>2, <1>3, <2>1, CheckStays DEF VerifierInv, CheckInv
<1>4. CASE ~(MarkedSuccessful(running) \/ verity_mode # "skip")
  <2>1. checked' = [checked EXCEPT ![running] = "taken"]
    BY <1>4 DEF Start
  <2> QED BY <1>1, <1>2, <2>1 DEF VerifierInv, CheckInv, Good, Cared, Parts, BlocksOf
<1> QED BY <1>3, <1>4

\* The engine unmarks the slot before it fills it, and never fills the one that runs.
LEMMA CheckUpdate ==
  ASSUME VerifierInv, Update
  PROVE  CheckInv'
<1>1. /\ UNCHANGED <<pc, running, reset, care_map>>
      /\ checked' = [s \in Slots |-> IF image'[s] # image[s] THEN "no" ELSE checked[s]]
  BY DEF Update, Engine, Fixed, BeginUpdate, WriteImage, Activate, Cancel
<1>2. ASSUME running \in Slots => image'[running] = image[running],
             ~reset => \A s \in Slots : slot_info'[s].successful_boot = 1 =>
                         slot_info[s].successful_boot = 1 /\ image'[s] = image[s]
      PROVE  CheckInv'
  <2>1. \A s \in Slots : checked'[s] = "blocks" => checked[s] = "blocks" /\ image'[s] = image[s]
    BY <1>1
  <2>2. \A s \in Slots : checked'[s] = "blocks" => Good(s)'
    BY <1>1, <2>1 DEF VerifierInv, CheckInv, Good, Cared, Parts, BlocksOf
  <2>3. checked' \in [Slots -> {"no", "blocks", "taken"}]
    BY <1>1 DEF VerifierInv, CheckInv
  <2>4. \A s \in Slots : ~reset' /\ slot_info'[s].successful_boot = 1 => checked'[s] # "no"
    BY <1>1, <1>2 DEF VerifierInv, CheckInv
  <2>5. pc' = "mark" => checked'[running'] # "no"
    BY <1>1, <1>2 DEF VerifierInv, CheckInv, BootInv
  <2> QED BY <1>1, <2>2, <2>3, <2>4, <2>5 DEF VerifierInv, CheckInv
<1>3. ASSUME NEW slot \in Slots, BeginUpdate(slot) PROVE CheckInv'
  <2>1. CASE UpdateAndSave(SetSlotAsUnbootable(slot)) /\ image' = [image EXCEPT ![slot] = Blocks]
    <3>1. /\ \A r \in Slots : r # slot => slot_info'[r] = slot_info[r]
          /\ slot_info'[slot].successful_boot = 0 /\ slot # running
      BY <1>3, <2>1, UnbootableFacts DEF UpdateAndSave, VerifierInv, BootInv, BeginUpdate
    <3>2. \A r \in Slots : r # slot => image'[r] = image[r]
      BY <2>1 DEF VerifierInv, BootInv
    <3> QED BY <1>2, <3>1, <3>2
  <2>2. CASE UNCHANGED <<slot_info, image>>
    BY <1>2, <2>2
  <2> QED BY <1>3, <2>1, <2>2 DEF BeginUpdate, SaveFails
<1>4. CASE WriteImage
  <2>1. target # running /\ (~reset => slot_info[target].successful_boot = 0) /\ UNCHANGED slot_info
    BY <1>4 DEF WriteImage, hal, VerifierInv, BootInv
  <2>2. \A r \in Slots : r # target => image'[r] = image[r]
    BY <1>4 DEF WriteImage, VerifierInv, BootInv
  <2> QED BY <1>2, <2>1, <2>2
<1>5. CASE Activate \/ Cancel
  <2>1. UNCHANGED image
    BY <1>5 DEF Activate, Cancel
  <2>2. PICK slot \in Slots : UNCHANGED slot_info \/ slot_info' = SetActiveBootSlot(slot)
    <3>1. CASE Activate
      BY <3>1 DEF Activate, UpdateAndSave, SaveFails, VerifierInv, BootInv
    <3>2. CASE Cancel
      <4>1. running \in Slots
        BY <3>2 DEF Cancel, VerifierInv, BootInv
      <4> QED BY <3>2, <4>1 DEF Cancel, UpdateAndSave, SaveFails
    <3> QED BY <1>5, <3>1, <3>2
  <2>3. \A r \in Slots : slot_info'[r].successful_boot = slot_info[r].successful_boot
    BY <2>2, ActiveFacts DEF VerifierInv, BootInv
  <2> QED BY <1>2, <2>1, <2>3
<1> QED BY <1>3, <1>4, <1>5 DEF Update, Engine

LEMMA NextCheck == VerifierInv /\ [Next]_vars => CheckInv'
<1> SUFFICES ASSUME VerifierInv, [Next]_vars PROVE CheckInv'
  OBVIOUS
<1>0. CheckInv /\ BootInv
  BY DEF VerifierInv
<1>1. CASE Boot
  <2>1. PICK s \in Slots : BootsInto(s)
    BY <1>1 DEF Boot
  <2>2. /\ running' = s /\ UNCHANGED <<image, reset>> /\ pc' = "start"
        /\ UNCHANGED <<checked, care_map>>
    BY <1>1, <2>1 DEF BootsInto, Boot, Fixed
  <2>3. ~reset => \A r \in Slots : slot_info'[r].successful_boot = slot_info[r].successful_boot
    BY <1>0, <2>1, BootsFacts
  <2> QED BY <1>0, <2>2, <2>3, OffNoSlot, CheckStays
<1>2. CASE StartHal
  <2>1. UNCHANGED <<pc, running, image, checked, care_map, reset>>
    BY <1>2 DEF StartHal, BootControl_init, Fixed, verifier
  <2>2. ~reset => UNCHANGED slot_info
    <3>1. ~reset => valid
      BY <1>0 DEF BootInv
    <3> QED BY <1>2, <3>1, Zenon DEF StartHal, BootControl_init
  <2> QED BY <1>0, <2>1, <2>2, CheckStays DEF CheckInv
<1>3. CASE Down
  <2>1. /\ running' = Off /\ pc' = "off"
        /\ UNCHANGED <<slot_info, image, checked, care_map, reset>>
    BY <1>3 DEF Down, GoesDown, Fixed, verifier
  <2> QED BY <1>0, <2>1, CheckStays
<1>4. CASE Damage
  <2>1. /\ reset' = TRUE /\ UNCHANGED <<pc, running, image, checked, care_map>>
    BY <1>4 DEF Damage, Wiped, Fixed, verifier
  <2> QED BY <1>0, <2>1, CheckStays DEF CheckInv
<1>5. CASE Update
  BY <1>5, CheckUpdate
<1>6. CASE Verifier
  <2>1. CASE Start
    BY <2>1, CheckStart
  <2>2. CASE VerifyImage
    BY <2>2, CheckVerify
  <2>3. CASE MarkSuccessful
    <3>1. /\ pc = "mark" /\ pc' \in {"left", "reboot"} /\ running \in Slots
          /\ UNCHANGED <<running, image, reset, checked, care_map>>
      BY <1>0, <2>3 DEF MarkSuccessful, Fixed, verifier, CheckInv, BootInv
    <3>2. \A s \in Slots : s # running => slot_info'[s] = slot_info[s]
      BY <1>0, <2>3, <3>1, MarkFacts DEF MarkSuccessful, UpdateAndSave, SaveFails, BootInv
    <3> QED BY <1>0, <3>1, <3>2 DEF CheckInv, Good, Cared, Parts, BlocksOf
  <2>4. CASE \/ SplitBlocks \/ Join \/ Joined
             \/ \E g \in 1 .. thread_num : ReadBlock(g) /\ Goes("join")
             \/ /\ pc \in {"start", "reboot"}
                /\ \E to \in {"reboot", "gaveup", "unjudged"} : Turns(to)
    <3>1. /\ UNCHANGED <<slot_info, running, image, reset, care_map>>
          /\ pc # "off" /\ pc' \notin {"off", "mark"}
      BY <2>4 DEF SplitBlocks, Join, Joined, ReadBlock, Goes, Turns, boot, hal, Fixed
    <3>2. UNCHANGED checked
      BY <2>4, Zenon DEF SplitBlocks, Join, Joined, ReadBlock, Goes, Turns, verifier, Down
    <3> QED BY <1>0, <3>1, <3>2, CheckStays DEF CheckInv
  <2> QED BY <1>3, <1>6, <2>1, <2>2, <2>3, <2>4, VerifierSteps
<1>7. CASE UNCHANGED vars
  <2>1. UNCHANGED <<pc, running, slot_info, image, checked, care_map, reset>>
    BY <1>7 DEF vars, boot, hal, verifier
  <2> QED BY <1>0, <2>1, CheckStays DEF CheckInv
<1> QED BY <1>1, <1>2, <1>3, <1>4, <1>5, <1>6, <1>7 DEF Next, PowerLoss, Restart

-----------------------------------------------------------------------------
(* The threads *)

LEMMA ReadStays ==
  ASSUME ReadInv, UNCHANGED <<part, threads, bad, joined, ret, care_map, running>>,
         pc' = pc,
         pc \in {"verify", "split", "join"} => image'[running] = image[running]
  PROVE  ReadInv'
BY Zenon DEF ReadInv, Clean, Parts, BlocksOf

\* Outside of verify_image only the first part matters.
LEMMA ReadAway ==
  ASSUME ReadInv, part' \in Nat \ {0}, pc' \notin {"start", "verify", "split", "join"}
  PROVE  ReadInv'
BY DEF ReadInv

\* No part comes before the first.
LEMMA ReadBegins ==
  ASSUME part' = 1, pc' = "verify", \A p \in Parts' : ~(p < part')
  PROVE  ReadInv'
<1>1. pc' # "start" /\ pc' # "split" /\ pc' # "join"
  OBVIOUS
<1>2. \A p \in Parts' : p < part' => Clean(p)'
  OBVIOUS
<1>3. part' \in Nat \ {0}
  OBVIOUS
<1> QED BY ONLY <1>1, <1>2, <1>3 DEF ReadInv

LEMMA ReadVerify ==
  ASSUME VerifierInv, VerifyImage
  PROVE  ReadInv'
<1>1. /\ pc = "verify" /\ UNCHANGED <<part, threads, bad, joined, ret, care_map, running, image>>
  BY DEF VerifyImage, Goes, boot, Fixed
<1>2. pc' \in {"mark", "reboot", "split"} /\ (pc' = "split" => Verdict = "read")
  BY VerdictSet DEF VerifyImage, Goes
<1>3. CASE Verdict = "read"
  <2>1. care_map.parts \in Seq([legacy : BOOLEAN, pairs : Seq(Nat \X Nat)])
    BY UpdateVerifierAssumption DEF UpdateVerifierAssumption, VerifierInv, CheckInv
  <2>2. ~(part > Len(care_map.parts)) /\ MakeRangeSet(care_map.parts[part].pairs) # <<>>
    BY <1>3 DEF Verdict
  <2>3. part \in Parts
    BY <2>1, <2>2 DEF VerifierInv, ReadInv, Parts
  <2> QED BY <1>1, <1>2, <2>2, <2>3 DEF VerifierInv, ReadInv, Clean, Parts, BlocksOf
<1>4. CASE Verdict # "read"
  BY <1>1, <1>2, <1>4, ReadAway DEF VerifierInv, ReadInv
<1> QED BY <1>3, <1>4

LEMMA RangeHeadTail ==
  ASSUME NEW s \in Seq(Nat), s # <<>>
  PROVE  Tail(s) \in Seq(Nat) /\ Range(s) = {Head(s)} \cup Range(Tail(s))
<1>1. Len(s) \in Nat \ {0} /\ Tail(s) \in Seq(Nat) /\ Len(Tail(s)) = Len(s) - 1
  OBVIOUS
<1>2. \A i \in 1 .. Len(s) - 1 : Tail(s)[i] = s[i + 1]
  OBVIOUS
<1>3. ASSUME NEW x \in Range(s) PROVE x = Head(s) \/ x \in Range(Tail(s))
  <2>1. PICK i \in 1 .. Len(s) : x = s[i]
    BY <1>3 DEF Range
  <2>2. CASE i = 1
    BY <2>1, <2>2
  <2>3. CASE i # 1
    <3>1. i - 1 \in 1 .. Len(s) - 1 /\ Tail(s)[i - 1] = x
      BY <1>1, <1>2, <2>1, <2>3
    <3>2. i - 1 \in DOMAIN Tail(s)
      BY <1>1, <3>1
    <3> QED BY <3>1, <3>2, Zenon DEF Range
  <2> QED BY <2>2, <2>3
<1>4. ASSUME NEW x \in Range(Tail(s)) PROVE x \in Range(s)
  <2>1. PICK i \in 1 .. Len(s) - 1 : x = Tail(s)[i]
    BY <1>1 DEF Range
  <2>2. i + 1 \in 1 .. Len(s) /\ s[i + 1] = x
    BY <1>1, <1>2, <2>1
  <2> QED BY <2>2 DEF Range
<1>5. Head(s) \in Range(s)
  BY <1>1 DEF Range
<1> QED BY <1>1, <1>3, <1>4, <1>5

\* A block that is read and right was not a bad one; a thread that meets a bad one has
\* failed, and is waited for after that.
LEMMA ReadReadBlock ==
  ASSUME VerifierInv, NEW g, ReadBlock(g), Goes("join")
  PROVE  ReadInv'
<1>1. /\ pc = "join" /\ pc' = "join" /\ g \in DOMAIN threads /\ threads[g] # <<>>
      /\ UNCHANGED <<care_map, running, image>>
  BY DEF ReadBlock, Goes, boot, Fixed
<1>2. UNCHANGED <<part, joined, ret>>
  BY DEF ReadBlock, Down, verifier
<1>3. /\ threads \in Seq(Seq(Nat)) /\ joined \in 0 .. Len(threads)
      /\ \A h \in 1 .. joined : threads[h] = <<>> /\ (ret => h \notin bad)
      /\ \A b \in BlocksOf(care_map.parts[part]) \cap image[running] :
           \E h \in DOMAIN threads : b \in Range(threads[h]) \/ h \in bad
  BY <1>1 DEF VerifierInv, ReadInv
<1>4. g \notin 1 .. joined /\ threads[g] \in Seq(Nat)
  BY <1>1, <1>3
<1>5. ASSUME threads' \in Seq(Seq(Nat)), DOMAIN threads' = DOMAIN threads,
             \A h \in DOMAIN threads : h # g => threads'[h] = threads[h],
             bad' \subseteq bad \cup {g}, bad \subseteq bad',
             \A b \in image[running] : b \in Range(threads[g]) => b \in Range(threads'[g]) \/ g \in bad'
      PROVE  ReadInv'
  <2>1. Len(threads') = Len(threads) /\ 1 .. joined \subseteq DOMAIN threads
    BY <1>3, <1>5
  <2>2. \A h \in 1 .. joined' : threads'[h] = <<>> /\ (ret' => h \notin bad')
    BY <1>2, <1>3, <1>4, <1>5, <2>1, Zenon
  <2>3. \A b \in BlocksOf(care_map.parts[part]) \cap image[running] :
          \E h \in DOMAIN threads' : b \in Range(threads'[h]) \/ h \in bad'
    BY <1>1, <1>3, <1>5, Zenon
  <2>4. joined' \in 0 .. Len(threads')
    BY <1>2, <1>3, <2>1
  <2>5. /\ part' \in Nat \ {0}
        /\ \A p \in Parts' : p < part' => Clean(p)'
        /\ part' \in Parts' /\ MakeRangeSet(care_map'.parts[part'].pairs) # <<>>
    BY <1>1, <1>2 DEF VerifierInv, ReadInv, Clean, Parts, BlocksOf
  <2>6. \A b \in BlocksOf(care_map.parts[part])' \cap image'[running'] :
          \E h \in DOMAIN threads' : b \in Range(threads'[h]) \/ h \in bad'
    BY <1>1, <1>2, <2>3 DEF BlocksOf
  <2> QED BY <1>1, <1>5, <2>2, <2>4, <2>5, <2>6 DEF ReadInv
<1>6. CASE Head(threads[g]) \notin image[running] /\ threads' = [threads EXCEPT ![g] = Tail(@)] /\ bad' = bad
  <2>1. Tail(threads[g]) \in Seq(Nat) /\ Range(threads[g]) = {Head(threads[g])} \cup Range(Tail(threads[g]))
    BY <1>1, <1>4, RangeHeadTail
  <2>2. /\ threads' \in Seq(Seq(Nat)) /\ DOMAIN threads' = DOMAIN threads
        /\ threads'[g] = Tail(threads[g])
        /\ \A h \in DOMAIN threads : h # g => threads'[h] = threads[h]
    BY <1>1, <1>3, <1>6, <2>1
  <2> QED BY <1>5, <1>6, <2>1, <2>2
<1>7. CASE threads' = [threads EXCEPT ![g] = <<>>] /\ bad' = bad \cup {g}
  <2>1. /\ threads' \in Seq(Seq(Nat)) /\ DOMAIN threads' = DOMAIN threads
        /\ \A h \in DOMAIN threads : h # g => threads'[h] = threads[h]
    BY <1>1, <1>3, <1>7
  <2> QED BY <1>5, <1>7, <2>1
<1> QED BY <1>1, <1>6, <1>7 DEF ReadBlock, Down

LEMMA ReadJoin ==
  ASSUME VerifierInv, Join
  PROVE  ReadInv'
<1>1. /\ pc = "join" /\ pc' = "join" /\ joined < Len(threads) /\ threads[joined + 1] = <<>>
      /\ joined' = joined + 1 /\ (ret' => joined + 1 \notin bad /\ ret)
      /\ UNCHANGED <<part, threads, bad, care_map, running, image>>
  BY Zenon DEF Join, Goes, boot, Fixed
<1>2. threads \in Seq(Seq(Nat)) /\ joined \in 0 .. Len(threads)
      /\ \A g \in 1 .. joined : threads[g] = <<>> /\ (ret => g \notin bad)
  BY <1>1 DEF VerifierInv, ReadInv
<1>3. joined' \in 0 .. Len(threads')
  BY <1>1, <1>2
<1>4. \A g \in 1 .. joined' : threads'[g] = <<>> /\ (ret' => g \notin bad')
  <2> SUFFICES ASSUME NEW g \in 1 .. joined' PROVE threads[g] = <<>> /\ (ret' => g \notin bad)
    BY <1>1
  <2>1. g \in 1 .. joined \/ g = joined + 1
    BY <1>1, <1>2
  <2> QED BY <1>1, <1>2, <2>1
<1> QED BY <1>1, <1>3, <1>4, Zenon DEF VerifierInv, ReadInv, Clean, Parts, BlocksOf

\* Every thread has come to its end and none has failed: the part is clean.
LEMMA ReadJoined ==
  ASSUME VerifierInv, Joined
  PROVE  ReadInv'
<1>1. /\ pc = "join" /\ joined = Len(threads) /\ part' = part + 1
      /\ pc' \in {"verify", "reboot"} /\ (pc' = "verify" => ret)
      /\ UNCHANGED <<threads, bad, joined, ret, care_map, running, image>>
  BY DEF Joined, Goes, boot, Fixed
<1>2. part' \in Nat \ {0} /\ part \in Nat \ {0}
  BY <1>1 DEF VerifierInv, ReadInv
<1>3. CASE pc' = "reboot"
  BY <1>2, <1>3, ReadAway DEF VerifierInv
<1>4. CASE pc' = "verify"
  <2>1. threads \in Seq(Seq(Nat)) /\ \A g \in 1 .. joined : threads[g] = <<>> /\ g \notin bad
    BY <1>1, <1>4 DEF VerifierInv, ReadInv
  <2>2. \A g \in DOMAIN threads : threads[g] = <<>> /\ g \notin bad
    BY <1>1, <2>1
  <2>3. \A b : b \notin Range(<<>>)
    BY DEF Range
  <2>4. Clean(part)
    BY <1>1, <2>2, <2>3 DEF VerifierInv, ReadInv, Clean
  <2>5. \A p \in Parts : p < part => Clean(p)
    BY <1>1 DEF VerifierInv, ReadInv
  <2>6. care_map.parts \in Seq([legacy : BOOLEAN, pairs : Seq(Nat \X Nat)])
    BY UpdateVerifierAssumption DEF UpdateVerifierAssumption, VerifierInv, CheckInv
  <2>7. \A p \in Parts : p < part' => Clean(p)
    BY <1>1, <1>2, <2>4, <2>5, <2>6 DEF Parts
  <2> QED BY <1>1, <1>2, <1>4, <2>7 DEF ReadInv, Clean, Parts, BlocksOf
<1> QED BY <1>1, <1>3, <1>4

-----------------------------------------------------------------------------
(* Range sets.  Their operators are defined by recursion over a position;    *)
(* facts about them are proved by the least position for which they would    *)
(* fail.                                                                     *)

LEMMA LeastNat ==
  ASSUME NEW T, T \subseteq Nat, T # {}
  PROVE  \E x \in T : \A y \in T : x =< y
<1> DEFINE R == OpToRel(<, Nat)
<1>1. IsWellFoundedOn(R, Nat)
  BY NatLessThanWellFounded, Zenon
<1>2. \A y, x \in Nat : y < x => <<y, x>> \in R
  BY DEF OpToRel
<1> HIDE DEF R
<1>3. PICK x \in T : \A y \in T : ~(<<y, x>> \in R)
  BY <1>1, WFMin, Zenon
<1>4. \A y \in T : ~(y < x)
  BY <1>2, <1>3, Zenon
<1>5. \A y \in T : x =< y
  BY <1>4
<1> QED BY <1>5

\* What holds at 0 and goes on from each position to the next one holds up to k.
LEMMA UpTo ==
  ASSUME NEW k \in Nat, NEW G, 0 \in G, \A n \in 1 .. k : n - 1 \in G => n \in G
  PROVE  0 .. k \subseteq G
<1> DEFINE T == {n \in 0 .. k : n \notin G}
<1> SUFFICES ASSUME T # {} PROVE FALSE
  OBVIOUS
<1>0. T \subseteq Nat
  OBVIOUS
<1>1. PICK x \in T : \A y \in T : x =< y
  BY <1>0, LeastNat, Zenon
<1>2. x # 0
  BY <1>1
<1>3. x \in 1 .. k /\ x - 1 \in 0 .. k /\ ~(x =< x - 1)
  BY <1>1, <1>2
<1>4. x - 1 \in G
  BY <1>1, <1>3
<1> QED BY <1>1, <1>3, <1>4

\* h goes from base by step, and is in S[n] at n.
Follows(h, k, S, base, step) ==
  /\ h = [n \in 0 .. k |-> h[n]] /\ h[0] = base
  /\ \A n \in 1 .. k : h[n] = step[<<h[n - 1], n>>]
  /\ \A n \in 0 .. k : h[n] \in S[n]

LEMMA RecursionExists ==
  ASSUME NEW k \in Nat, NEW S, NEW base \in S[0], NEW step,
         \A n \in 1 .. k : \A x \in S[n - 1] : step[<<x, n>>] \in S[n]
  PROVE  \E h : Follows(h, k, S, base, step)
<1> DEFINE G == {m \in 0 .. k : \E h : Follows(h, m, S, base, step)}
<1>1. 0 \in G
  <2> DEFINE h == [n \in 0 .. 0 |-> base]
  <2>1. Follows(h, 0, S, base, step)
    BY DEF Follows
  <2>2. 0 \in 0 .. k
    OBVIOUS
  <2> QED BY <2>1, <2>2, Zenon
<1>2. ASSUME NEW m \in 1 .. k, m - 1 \in G PROVE m \in G
  <2>1. PICK f : Follows(f, m - 1, S, base, step)
    BY <1>2, Zenon
  <2>2. /\ m \in 0 .. k /\ m - 1 \in 0 .. m - 1 /\ 0 \in 0 .. m /\ 0 # m
        /\ \A n \in 0 .. m : n # m => n \in 0 .. m - 1
        /\ \A n \in 1 .. m : n - 1 \in 0 .. m /\ n \in 0 .. m /\ n - 1 # m
        /\ \A n \in 1 .. m : n # m => n \in 1 .. m - 1
    OBVIOUS
  <2> DEFINE h == [n \in 0 .. m |-> IF n = m THEN step[<<f[m - 1], m>>] ELSE f[n]]
  <2>3. h[m] = step[<<f[m - 1], m>>] /\ h[m] \in S[m]
    <3>1. f[m - 1] \in S[m - 1]
      BY <2>1, <2>2, Zenon DEF Follows
    <3>2. m \in 0 .. m
      OBVIOUS
    <3> QED BY <3>1, <3>2, Zenon
  <2>4. \A n \in 0 .. m : n # m => h[n] = f[n]
    BY Zenon
  <2>5. h = [n \in 0 .. m |-> h[n]]
    BY Zenon
  <2> HIDE DEF h
  <2>6. h[0] = base
    BY <2>1, <2>2, <2>4, Zenon DEF Follows
  <2>7. ASSUME NEW n \in 1 .. m PROVE h[n] = step[<<h[n - 1], n>>]
    <3>1. h[n - 1] = f[n - 1]
      BY <2>2, <2>4, Zenon
    <3>2. CASE n = m
      BY <2>3, <3>1, <3>2, Zenon
    <3>3. CASE n # m
      <4>1. f[n] = step[<<f[n - 1], n>>]
        BY <2>1, <2>2, <3>3, Zenon DEF Follows
      <4>2. h[n] = f[n]
        BY <2>2, <2>4, <3>3, Zenon
      <4> QED BY <3>1, <4>1, <4>2, Zenon
    <3> QED BY <3>2, <3>3, Zenon
  <2>8. ASSUME NEW n \in 0 .. m PROVE h[n] \in S[n]
    <3>1. CASE n = m
      BY <2>3, <3>1, Zenon
    <3>2. CASE n # m
      BY <2>1, <2>2, <2>4, <3>2, Zenon DEF Follows
    <3> QED BY <3>1, <3>2, Zenon
  <2>9. Follows(h, m, S, base, step)
    BY <2>5, <2>6, <2>7, <2>8, Zenon DEF Follows
  <2> QED BY <2>2, <2>9, Zenon
<1>3. 0 .. k \subseteq G
  <2> HIDE DEF G
  <2> QED BY <1>1, <1>2, UpTo, Zenon
<1>4. k \in 0 .. k
  OBVIOUS
<1> QED BY <1>3, <1>4, Zenon

\* Two functions that begin alike and go on alike are alike.
Alike(f, h, k) == f[0] = h[0] /\ \A n \in 1 .. k : f[n - 1] = h[n - 1] => f[n] = h[n]

Same(f, h, k) == \A n \in 0 .. k : f[n] = h[n]

LEMMA SameSteps ==
  ASSUME NEW k \in Nat, NEW f, NEW h, Alike(f, h, k)
  PROVE  Same(f, h, k)
<1> DEFINE G == {n \in 0 .. k : f[n] = h[n]}
<1>1. 0 \in G /\ \A n \in 1 .. k : n \in 0 .. k
  BY DEF Alike
<1>2. \A n \in 1 .. k : n - 1 \in G => n \in G
  BY <1>1, Zenon DEF Alike
<1>3. 0 .. k \subseteq G
  <2> HIDE DEF G
  <2> QED BY <1>1, <1>2, UpTo, Zenon
<1> QED BY <1>3, Zenon DEF Same

\* Concat is the last of the concatenations of the first members.
Begins(f, T, ss) ==
  /\ f \in [0 .. Len(ss) -> Seq(T)] /\ f[0] = <<>>
  /\ \A n \in 1 .. Len(ss) : f[n] = f[n - 1] \o ss[n]

LEMMA ConcatIs ==
  ASSUME NEW T, NEW ss \in Seq(Seq(T))
  PROVE  \E f : Begins(f, T, ss) /\ Concat(ss) = f[Len(ss)]
<1> DEFINE k == Len(ss)
           S == [n \in 0 .. k |-> Seq(T)]
           step == [p \in Seq(T) \X (1 .. k) |-> p[1] \o ss[p[2]]]
           D(f) == [n \in 0 .. k |-> IF n = 0 THEN <<>> ELSE f[n - 1] \o ss[n]]
           F == CHOOSE f : f = D(f)
<1>1. k \in Nat /\ <<>> \in Seq(T) /\ \A n \in 1 .. k : ss[n] \in Seq(T)
  BY Zenon, LenProperties, EmptySeq, ElementOfSeq
<1>2. \A n \in 1 .. k : \A x \in Seq(T) : step[<<x, n>>] = x \o ss[n] /\ x \o ss[n] \in Seq(T)
  <2>1. ASSUME NEW n \in 1 .. k, NEW x \in Seq(T) PROVE x \o ss[n] \in Seq(T)
    BY <1>1, ConcatProperties, Zenon
  <2> QED BY <2>1, Zenon
<1>3. PICK h : Follows(h, k, S, <<>>, step)
  <2>1. <<>> \in S[0] /\ \A n \in 1 .. k : \A x \in S[n - 1] : step[<<x, n>>] \in S[n]
    <3>1. 0 \in 0 .. k /\ \A n \in 1 .. k : n \in 0 .. k /\ n - 1 \in 0 .. k
      BY <1>1
    <3> HIDE DEF step, k
    <3> QED BY <1>1, <1>2, <3>1, Zenon
  <2> HIDE DEF S, step, k
  <2> QED BY <1>1, <2>1, RecursionExists, Zenon
<1>4. Begins(h, T, ss)
  <2>1. h = [n \in 0 .. k |-> h[n]] /\ h[0] = <<>> /\ \A n \in 0 .. k : h[n] \in Seq(T)
    BY <1>3, Zenon DEF Follows
  <2>2. ASSUME NEW n \in 1 .. k PROVE h[n] = h[n - 1] \o ss[n]
    <3>1. n - 1 \in 0 .. k
      BY <1>1
    <3>2. h[n] = step[<<h[n - 1], n>>] /\ h[n - 1] \in Seq(T)
      BY <1>3, <2>1, <3>1, Zenon DEF Follows
    <3> HIDE DEF step
    <3> QED BY <1>2, <3>2, Zenon
  <2>3. h \in [0 .. k -> Seq(T)]
    BY <2>1, Zenon
  <2> QED BY <2>1, <2>2, <2>3, Zenon DEF Begins
<1>5. h = D(h)
  <2>1. ASSUME NEW n \in 0 .. k PROVE h[n] = IF n = 0 THEN <<>> ELSE h[n - 1] \o ss[n]
    <3>1. n # 0 => n \in 1 .. k
      BY <1>1
    <3> QED BY <1>4, <3>1, Zenon DEF Begins
  <2>2. h = [n \in 0 .. k |-> h[n]]
    BY <1>3, Zenon DEF Follows
  <2> QED BY <2>1, <2>2, Zenon
<1>6. F = D(F)
  BY <1>5, Zenon
<1>7. Concat(ss) = F[k]
  BY DEF Concat
<1>8. \A n \in 0 .. k : F[n] = h[n]
  <2> HIDE DEF F
  <2>1. \A n \in 0 .. k : F[n] = IF n = 0 THEN <<>> ELSE F[n - 1] \o ss[n]
    BY <1>6, Zenon
  <2>2. 0 \in 0 .. k /\ \A n \in 1 .. k : n # 0 /\ n \in 0 .. k
    BY <1>1
  <2>3. Alike(F, h, k)
    BY <1>4, <2>1, <2>2, Zenon DEF Begins, Alike
  <2>4. Same(F, h, k)
    BY <1>1, <2>3, SameSteps, Zenon
  <2> QED BY <2>4, Zenon DEF Same
<1>9. k \in 0 .. k
  BY <1>1
<1> QED BY <1>4, <1>7, <1>8, <1>9, Zenon

LEMMA ConcatType ==
  ASSUME NEW T, NEW ss \in Seq(Seq(T))
  PROVE  Concat(ss) \in Seq(T)
<1>1. PICK f : Begins(f, T, ss) /\ Concat(ss) = f[Len(ss)]
  BY ConcatIs, Zenon
<1>2. Len(ss) \in 0 .. Len(ss)
  OBVIOUS
<1> QED BY <1>1, <1>2, Zenon DEF Begins

LEMMA ConcatEmpty == Concat(<<>>) = <<>>
<1>1. <<>> \in Seq(Seq({}))
  BY EmptySeq, Zenon
<1>2. PICK f : Begins(f, {}, <<>>) /\ Concat(<<>>) = f[Len(<<>>)]
  BY <1>1, ConcatIs, Zenon
<1>3. Len(<<>>) = 0
  BY EmptySeq, Zenon
<1> QED BY <1>2, <1>3, Zenon DEF Begins

LEMMA ConcatAppend ==
  ASSUME NEW T, NEW ss \in Seq(Seq(T)), NEW s \in Seq(T)
  PROVE  Concat(Append(ss, s)) = Concat(ss) \o s
<1> DEFINE tt == Append(ss, s)
           k == Len(ss)
<1>1. /\ tt \in Seq(Seq(T)) /\ Len(tt) = k + 1 /\ tt[k + 1] = s /\ \A n \in 1 .. k : tt[n] = ss[n]
      /\ k \in Nat
  BY AppendProperties, LenProperties
<1> HIDE DEF tt, k
<1>2. PICK f : Begins(f, T, ss) /\ Concat(ss) = f[k]
  BY ConcatIs, Zenon DEF k
<1>3. PICK h : Begins(h, T, tt) /\ Concat(tt) = h[k + 1]
  BY <1>1, ConcatIs, Zenon
<1>4. \A n \in 0 .. k : f[n] = h[n]
  <2>1. \A n \in 1 .. k : n \in 1 .. k + 1
    BY <1>1
  <2>2. f[0] = h[0] /\ \A n \in 1 .. k : f[n] = f[n - 1] \o ss[n] /\ h[n] = h[n - 1] \o ss[n]
    BY <1>1, <1>2, <1>3, <2>1, Zenon DEF Begins, k
  <2>3. Alike(f, h, k)
    BY <2>2, Zenon DEF Alike
  <2>4. k \in Nat
    BY <1>1
  <2>5. Same(f, h, k)
    BY <2>3, <2>4, SameSteps, Zenon
  <2> QED BY <2>5, Zenon DEF Same
<1>5. k \in 0 .. k /\ k + 1 \in 1 .. k + 1 /\ (k + 1) - 1 = k
  BY <1>1
<1>6. h[k + 1] = h[k] \o s
  BY <1>1, <1>3, <1>5, Zenon DEF Begins
<1> QED BY <1>2, <1>3, <1>4, <1>5, <1>6, Zenon DEF tt

\* A sequence that is not empty is a shorter one and a last member.
LEMMA FrontAndLast ==
  ASSUME NEW T, NEW n \in Nat, NEW s \in Seq(T), Len(s) = n + 1
  PROVE  \E front \in Seq(T), x \in T : s = Append(front, x) /\ Len(front) = n
<1>1. s # <<>>
  BY EmptySeq
<1>2. PICK front \in Seq(T), x \in T : s = Append(front, x)
  BY <1>1, SequenceEmptyOrAppend, Zenon
<1>3. Len(s) = Len(front) + 1 /\ Len(front) \in Nat
  BY <1>2, AppendProperties, LenProperties, Zenon
<1>4. Len(front) = n
  BY <1>3
<1> QED BY <1>2, <1>4, Zenon

Regroups(p, q, r) == (p \o q) \o r = p \o (q \o r)

LEMMA Regrouping ==
  ASSUME NEW T, NEW p \in Seq(T), NEW q \in Seq(T), NEW r \in Seq(T)
  PROVE  Regroups(p, q, r)
BY ConcatAssociative DEF Regroups

LEMMA ConcatOfAppend ==
  ASSUME NEW T, NEW a \in Seq(T), NEW b \in Seq(T), NEW x \in T
  PROVE  a \o Append(b, x) = Append(a \o b, x) /\ a \o b \in Seq(T)
<1>1. <<x>> \in Seq(T)
  OBVIOUS
<1>2. Append(b, x) = b \o <<x>>
  BY AppendIsConcat, Zenon
<1>3. a \o b \in Seq(T)
  BY ConcatProperties, Zenon
<1>4. Append(a \o b, x) = (a \o b) \o <<x>>
  BY <1>3, AppendIsConcat, Zenon
<1>5. (a \o b) \o <<x>> = a \o (b \o <<x>>)
  BY <1>1, ConcatAssociative
<1> QED BY <1>2, <1>3, <1>4, <1>5, Zenon

\* What two lists of sequences make together.
LEMMA ConcatTwo ==
  ASSUME NEW T, NEW a \in Seq(Seq(T)), NEW b \in Seq(Seq(T))
  PROVE  Concat(a \o b) = Concat(a) \o Concat(b)
<1> DEFINE G == {n \in Nat : \A c \in Seq(Seq(T)) : Len(c) = n => Concat(a \o c) = Concat(a) \o Concat(c)}
<1>0. Concat(a) \in Seq(T) /\ Len(b) \in Nat /\ Len(b) \in 0 .. Len(b)
  <2>1. Concat(a) \in Seq(T)
    BY ConcatType, Zenon
  <2> QED BY <2>1
<1>1. 0 \in G
  <2>1. ASSUME NEW c \in Seq(Seq(T)), Len(c) = 0 PROVE Concat(a \o c) = Concat(a) \o Concat(c)
    <3>1. c = <<>>
      BY <2>1
    <3>2. a \o <<>> = a
      BY ConcatEmptySeq, Zenon
    <3>3. Concat(a) \o <<>> = Concat(a)
      BY <1>0, ConcatEmptySeq, Zenon
    <3> QED BY <3>1, <3>2, <3>3, ConcatEmpty, Zenon
  <2> QED BY <2>1
<1>2. ASSUME NEW n \in 1 .. Len(b), n - 1 \in G PROVE n \in G
  <2>1. ASSUME NEW c \in Seq(Seq(T)), Len(c) = n PROVE Concat(a \o c) = Concat(a) \o Concat(c)
    <3>1. n - 1 \in Nat /\ Len(c) = (n - 1) + 1
      BY <2>1
    <3>2. PICK front \in Seq(Seq(T)), x \in Seq(T) : c = Append(front, x) /\ Len(front) = n - 1
      BY <3>1, FrontAndLast, Zenon
    <3>3. Concat(a \o front) = Concat(a) \o Concat(front) /\ Concat(front) \in Seq(T)
      BY <1>2, <3>2, ConcatType, Zenon
    <3>4. a \o Append(front, x) = Append(a \o front, x) /\ a \o front \in Seq(Seq(T))
      BY ONLY a \in Seq(Seq(T)), front \in Seq(Seq(T)), x \in Seq(T), ConcatOfAppend, Zenon
    <3>5. Concat(a \o c) = Concat(a \o front) \o x /\ Concat(c) = Concat(front) \o x
      BY <3>2, <3>4, ConcatAppend, Zenon
    <3>6. Concat(a \o c) = (Concat(a) \o Concat(front)) \o x
      BY <3>3, <3>5, Zenon
    <3>7. Regroups(Concat(a), Concat(front), x)
      BY <1>0, <3>3, Regrouping, Zenon
    <3> QED BY <3>5, <3>6, <3>7, Zenon DEF Regroups
  <2>2. n \in Nat
    OBVIOUS
  <2> QED BY <2>1, <2>2, Zenon
<1>3. 0 .. Len(b) \subseteq G
  <2> HIDE DEF G
  <2> QED BY <1>0, <1>1, <1>2, UpTo, Zenon
<1> QED BY <1>0, <1>3, Zenon

\* Nothing else is in it than what is in its members.
LEMMA ConcatRange ==
  ASSUME NEW T, NEW ss \in Seq(Seq(T))
  PROVE  Range(Concat(ss)) = UNION {Range(ss[j]) : j \in 1 .. Len(ss)}
<1>1. PICK f : Begins(f, T, ss) /\ Concat(ss) = f[Len(ss)]
  BY ConcatIs, Zenon
<1> DEFINE k == Len(ss)
           G == {n \in 0 .. k : Range(f[n]) = UNION {Range(ss[j]) : j \in 1 .. n}}
<1>2. k \in Nat /\ \A n \in 1 .. k : ss[n] \in Seq(T)
  BY LenProperties, ElementOfSeq, Zenon
<1>3. 0 \in G
  <2>1. f[0] = <<>> /\ 1 .. 0 = {} /\ 0 \in 0 .. k
    BY <1>1, <1>2 DEF Begins
  <2>2. Range(<<>>) = {}
    BY DEF Range
  <2> QED BY <2>1, <2>2, Zenon
<1>4. ASSUME NEW n \in 1 .. k, n - 1 \in G PROVE n \in G
  <2>1. /\ n \in 0 .. k /\ n - 1 \in 0 .. k /\ n \in 1 .. n
        /\ \A j \in 1 .. n : j = n \/ j \in 1 .. n - 1
        /\ \A j \in 1 .. n - 1 : j \in 1 .. n
    BY <1>2
  <2>2. f[n] = f[n - 1] \o ss[n] /\ f[n - 1] \in Seq(T)
    BY <1>1, <2>1, Zenon DEF Begins
  <2>3. Range(f[n]) = Range(f[n - 1]) \cup Range(ss[n])
    BY <1>2, <2>2, RangeConcatenation
  <2>4. Range(f[n - 1]) = UNION {Range(ss[j]) : j \in 1 .. n - 1}
    BY <1>4, Zenon
  <2>5. Range(f[n]) = UNION {Range(ss[j]) : j \in 1 .. n}
    BY <2>1, <2>3, <2>4, Zenon
  <2> QED BY <2>1, <2>5, Zenon
<1>5. 0 .. k \subseteq G
  <2> HIDE DEF G, k
  <2> QED BY <1>2, <1>3, <1>4, UpTo, Zenon
<1>6. k \in 0 .. k
  BY <1>2
<1> QED BY <1>1, <1>5, <1>6, Zenon


-----------------------------------------------------------------------------
Ranges == {r \in Nat \X Nat : r[1] < r[2]}
Lists(rs) == [j \in DOMAIN rs |-> RangeList(rs[j])]

LEMMA RangeListType ==
  ASSUME NEW r \in Ranges
  PROVE  /\ RangeList(r) \in Seq(Nat) /\ Len(RangeList(r)) = RangeBlocks(r)
         /\ RangeBlocks(r) \in Nat /\ RangeBlocks(r) > 0
<1>1. r[1] \in Nat /\ r[2] \in Nat /\ r[1] < r[2]
  BY DEF Ranges
<1>2. RangeBlocks(r) \in Nat /\ RangeBlocks(r) > 0
  BY <1>1 DEF RangeBlocks
<1>3. \A j \in 1 .. RangeBlocks(r) : r[1] + j - 1 \in Nat
  BY <1>1, <1>2
<1>4. RangeList(r) \in Seq(Nat) /\ Len(RangeList(r)) = RangeBlocks(r)
  BY <1>2, <1>3, IsASeq DEF RangeList
<1> QED BY <1>2, <1>4

\* A range is what is before a cut and what is after it.
Cuts(a, b, c) == RangeList(<<a, c>>) = RangeList(<<a, b>>) \o RangeList(<<b, c>>)

LEMMA RangeCut ==
  ASSUME NEW a \in Nat, NEW b \in Nat, NEW c \in Nat, a < b, b < c
  PROVE  Cuts(a, b, c)
<1> DEFINE x == RangeList(<<a, b>>)
           y == RangeList(<<b, c>>)
           z == RangeList(<<a, c>>)
<1>1. <<a, b>> \in Ranges /\ <<b, c>> \in Ranges /\ <<a, c>> \in Ranges
  BY DEF Ranges
<1>2. /\ x \in Seq(Nat) /\ Len(x) = b - a /\ y \in Seq(Nat) /\ Len(y) = c - b
      /\ z \in Seq(Nat) /\ Len(z) = c - a
  BY <1>1, RangeListType, Zenon DEF RangeBlocks
<1>3. /\ \A j \in 1 .. b - a : x[j] = a + j - 1
      /\ \A j \in 1 .. c - b : y[j] = b + j - 1
      /\ \A j \in 1 .. c - a : z[j] = a + j - 1
  BY DEF RangeList, RangeBlocks
<1> HIDE DEF x, y, z
<1>4. /\ x \o y \in Seq(Nat) /\ Len(x \o y) = Len(x) + Len(y)
      /\ \A i \in 1 .. Len(x) + Len(y) : (x \o y)[i] = IF i <= Len(x) THEN x[i] ELSE y[i - Len(x)]
  BY <1>2, ConcatProperties, Zenon
<1>5. Len(x \o y) = Len(z) /\ \A i \in 1 .. Len(z) : (x \o y)[i] = z[i]
  <2>1. (b - a) + (c - b) = c - a
    OBVIOUS
  <2>2. Len(x \o y) = c - a
    BY <1>2, <1>4, <2>1, Zenon
  <2>3. ASSUME NEW i \in 1 .. c - a PROVE (x \o y)[i] = z[i]
    <3>1. (x \o y)[i] = IF i <= b - a THEN x[i] ELSE y[i - (b - a)]
      BY <1>2, <1>4, <2>1, Zenon
    <3>2. z[i] = a + i - 1
      BY <1>3, Zenon
    <3>3. CASE i <= b - a
      <4>1. i \in 1 .. b - a
        BY <3>3
      <4> QED BY <1>3, <3>1, <3>2, <3>3, <4>1, Zenon
    <3>4. CASE ~(i <= b - a)
      <4>1. i - (b - a) \in 1 .. c - b /\ b + (i - (b - a)) - 1 = a + i - 1
        BY <3>4
      <4> QED BY <1>3, <3>1, <3>2, <3>4, <4>1, Zenon
    <3> QED BY <3>3, <3>4, Zenon
  <2> QED BY <1>2, <2>2, <2>3, Zenon
<1>6. x \o y = z
  BY <1>2, <1>4, <1>5, SeqEqual, Zenon
<1> QED BY <1>6, Zenon DEF Cuts, x, y, z

LEMMA ListsType ==
  ASSUME NEW rs \in Seq(Ranges)
  PROVE  /\ Lists(rs) \in Seq(Seq(Nat)) /\ Len(Lists(rs)) = Len(rs)
         /\ \A j \in 1 .. Len(rs) : Lists(rs)[j] = RangeList(rs[j])
<1>1. Len(rs) \in Nat /\ DOMAIN rs = 1 .. Len(rs)
  BY LenProperties, Zenon
<1>2. \A j \in 1 .. Len(rs) : RangeList(rs[j]) \in Seq(Nat)
  BY ElementOfSeq, RangeListType, Zenon
<1>3. Lists(rs) = [j \in 1 .. Len(rs) |-> RangeList(rs[j])]
  BY <1>1, Zenon DEF Lists
<1>4. \A j \in 1 .. Len(rs) : Lists(rs)[j] = RangeList(rs[j])
  BY <1>3, Zenon
<1>5. Lists(rs) \in Seq(Seq(Nat)) /\ Len(Lists(rs)) = Len(rs)
  BY <1>1, <1>2, <1>3, IsASeq
<1> QED BY <1>4, <1>5

LEMMA BlockListIs ==
  ASSUME NEW rs
  PROVE  BlockList(rs) = Concat(Lists(rs))
BY Zenon DEF BlockList, Lists

LEMMA BlockListType ==
  ASSUME NEW rs \in Seq(Ranges)
  PROVE  BlockList(rs) \in Seq(Nat) /\ Len(BlockList(rs)) \in Nat
<1>1. BlockList(rs) \in Seq(Nat)
  BY ListsType, BlockListIs, ConcatType, Zenon
<1> QED BY <1>1, LenProperties, Zenon

LEMMA BlockListEmpty == BlockList(<<>>) = <<>>
<1>1. Lists(<<>>) = <<>>
  BY DEF Lists
<1> QED BY <1>1, BlockListIs, ConcatEmpty, Zenon

LEMMA BlockListAppend ==
  ASSUME NEW rs \in Seq(Ranges), NEW r \in Ranges
  PROVE  BlockList(Append(rs, r)) = BlockList(rs) \o RangeList(r)
<1> DEFINE t == Append(rs, r)
           k == Len(rs)
           u == Append(Lists(rs), RangeList(r))
<1>1. t \in Seq(Ranges) /\ Len(t) = k + 1 /\ t[k + 1] = r /\ \A n \in 1 .. k : t[n] = rs[n]
  BY AppendProperties
<1>2. /\ Lists(rs) \in Seq(Seq(Nat)) /\ Len(Lists(rs)) = k
      /\ \A j \in 1 .. k : Lists(rs)[j] = RangeList(rs[j])
  BY ListsType, Zenon
<1>3. RangeList(r) \in Seq(Nat) /\ k \in Nat
  BY RangeListType, LenProperties, Zenon
<1>4. /\ u \in Seq(Seq(Nat)) /\ Len(u) = k + 1 /\ u[k + 1] = RangeList(r)
      /\ \A n \in 1 .. k : u[n] = Lists(rs)[n]
  BY ONLY <1>2, <1>3, AppendProperties
<1> HIDE DEF t, u
<1>5. /\ Lists(t) \in Seq(Seq(Nat)) /\ Len(Lists(t)) = k + 1
      /\ \A j \in 1 .. k + 1 : Lists(t)[j] = RangeList(t[j])
  BY <1>1, ListsType, Zenon
<1>6. \A j \in 1 .. k + 1 : j = k + 1 \/ j \in 1 .. k
  BY <1>3
<1>7. \A j \in 1 .. k + 1 : Lists(t)[j] = u[j]
  BY <1>1, <1>2, <1>4, <1>5, <1>6, Zenon
<1>8. Lists(t) = u
  BY <1>4, <1>5, <1>7, SeqEqual, Zenon
<1>9. Concat(u) = Concat(Lists(rs)) \o RangeList(r)
  BY <1>2, <1>3, ConcatAppend, Zenon DEF u
<1> QED BY <1>8, <1>9, BlockListIs, Zenon DEF t

LEMMA BlockListTwo ==
  ASSUME NEW a \in Seq(Ranges), NEW b \in Seq(Ranges)
  PROVE  BlockList(a \o b) = BlockList(a) \o BlockList(b)
<1> DEFINE t == a \o b
           u == Lists(a) \o Lists(b)
           k == Len(a)
           l == Len(b)
<1>1. /\ t \in Seq(Ranges) /\ Len(t) = k + l
      /\ \A i \in 1 .. k + l : t[i] = IF i <= k THEN a[i] ELSE b[i - k]
  BY ConcatProperties, Zenon
<1>2. /\ Lists(a) \in Seq(Seq(Nat)) /\ Len(Lists(a)) = k
      /\ \A j \in 1 .. k : Lists(a)[j] = RangeList(a[j])
      /\ Lists(b) \in Seq(Seq(Nat)) /\ Len(Lists(b)) = l
      /\ \A j \in 1 .. l : Lists(b)[j] = RangeList(b[j])
  BY ListsType, Zenon
<1>3. k \in Nat /\ l \in Nat
  BY LenProperties, Zenon
<1>4. /\ u \in Seq(Seq(Nat)) /\ Len(u) = k + l
      /\ \A i \in 1 .. k + l : u[i] = IF i <= k THEN Lists(a)[i] ELSE Lists(b)[i - k]
  <2> DEFINE p == Lists(a)
             q == Lists(b)
  <2>1. p \in Seq(Seq(Nat)) /\ q \in Seq(Seq(Nat)) /\ Len(p) = k /\ Len(q) = l /\ u = p \o q
    BY <1>2, Zenon
  <2> HIDE DEF p, q, u, k, l
  <2>2. /\ p \o q \in Seq(Seq(Nat)) /\ Len(p \o q) = Len(p) + Len(q)
        /\ \A i \in 1 .. Len(p) + Len(q) : (p \o q)[i] = IF i <= Len(p) THEN p[i] ELSE q[i - Len(p)]
    BY <2>1, ConcatProperties, Zenon
  <2>3. /\ u \in Seq(Seq(Nat)) /\ Len(u) = k + l
        /\ \A i \in 1 .. k + l : u[i] = IF i <= k THEN p[i] ELSE q[i - k]
    BY <2>1, <2>2, Zenon
  <2> QED BY <2>3, Zenon DEF p, q
<1> HIDE DEF t, u
<1>5. /\ Lists(t) \in Seq(Seq(Nat)) /\ Len(Lists(t)) = k + l
      /\ \A j \in 1 .. k + l : Lists(t)[j] = RangeList(t[j])
  BY <1>1, ListsType, Zenon
<1>6. \A j \in 1 .. k + l : (j <= k => j \in 1 .. k) /\ (~(j <= k) => j - k \in 1 .. l)
  BY <1>3
<1>7. \A j \in 1 .. k + l : Lists(t)[j] = u[j]
  BY <1>1, <1>2, <1>4, <1>5, <1>6, Zenon
<1>8. Lists(t) = u
  BY <1>4, <1>5, <1>7, SeqEqual, Zenon
<1>9. Concat(u) = Concat(Lists(a)) \o Concat(Lists(b))
  BY <1>2, ConcatTwo, Zenon DEF u
<1> QED BY <1>8, <1>9, BlockListIs, Zenon DEF t

LEMMA BlockListOne ==
  ASSUME NEW r \in Ranges
  PROVE  <<r>> \in Seq(Ranges) /\ BlockList(<<r>>) = RangeList(r)
<1>1. <<>> \in Seq(Ranges) /\ Append(<<>>, r) = <<r>> /\ <<r>> \in Seq(Ranges)
  OBVIOUS
<1>2. RangeList(r) \in Seq(Nat)
  BY RangeListType, Zenon
<1>3. <<>> \o RangeList(r) = RangeList(r)
  BY <1>2, ConcatEmptySeq, Zenon
<1> QED BY <1>1, <1>3, BlockListAppend, BlockListEmpty, Zenon

LEMMA BlockListHead ==
  ASSUME NEW rs \in Seq(Ranges), rs # <<>>
  PROVE  /\ Head(rs) \in Ranges /\ Tail(rs) \in Seq(Ranges) /\ Len(Tail(rs)) = Len(rs) - 1
         /\ BlockList(rs) = RangeList(Head(rs)) \o BlockList(Tail(rs))
<1>1. Head(rs) \in Ranges /\ Tail(rs) \in Seq(Ranges) /\ Len(Tail(rs)) = Len(rs) - 1
  BY HeadTailProperties
<1>2. rs = <<Head(rs)>> \o Tail(rs)
  <2> DEFINE u == <<Head(rs)>> \o Tail(rs)
  <2>1. <<Head(rs)>> \in Seq(Ranges) /\ Len(<<Head(rs)>>) = 1 /\ <<Head(rs)>>[1] = Head(rs)
    BY <1>1
  <2>2. /\ u \in Seq(Ranges) /\ Len(u) = 1 + Len(Tail(rs))
        /\ \A i \in 1 .. 1 + Len(Tail(rs)) : u[i] = IF i <= 1 THEN <<Head(rs)>>[i] ELSE Tail(rs)[i - 1]
    BY <1>1, <2>1, ConcatProperties, Zenon
  <2>3. Len(rs) \in Nat /\ Len(rs) # 0 /\ Head(rs) = rs[1]
    BY LenProperties, EmptySeq
  <2>4. \A i \in 1 .. Len(rs) - 1 : Tail(rs)[i] = rs[i + 1]
    BY <2>3, HeadTailProperties
  <2> HIDE DEF u
  <2>5. Len(u) = Len(rs) /\ \A i \in 1 .. Len(rs) : u[i] = rs[i]
    BY <1>1, <2>1, <2>2, <2>3, <2>4
  <2> QED BY <2>2, <2>5, SeqEqual, Zenon DEF u
<1>3. <<Head(rs)>> \in Seq(Ranges) /\ BlockList(<<Head(rs)>>) = RangeList(Head(rs))
  BY <1>1, BlockListOne, Zenon
<1>4. BlockList(<<Head(rs)>> \o Tail(rs)) = BlockList(<<Head(rs)>>) \o BlockList(Tail(rs))
  BY <1>1, <1>3, BlockListTwo, Zenon
<1>5. BlockList(rs) = RangeList(Head(rs)) \o BlockList(Tail(rs))
  BY <1>2, <1>3, <1>4, Zenon
<1> QED BY <1>1, <1>5, Zenon

LEMMA LenConcat ==
  ASSUME NEW T, NEW a \in Seq(T), NEW b \in Seq(T)
  PROVE  a \o b \in Seq(T) /\ Len(a \o b) = Len(a) + Len(b)
BY ConcatProperties, Zenon

\* blocks() counts the blocks.
LEMMA BlockCountIs ==
  ASSUME NEW rs \in Seq(Ranges)
  PROVE  BlockCount(rs) = Len(BlockList(rs))
<1> DEFINE k == Len(rs)
           D(h) == [n \in 0 .. k |-> IF n = 0 THEN 0 ELSE h[n - 1] + RangeBlocks(rs[n])]
           F == CHOOSE h : h = D(h)
<1>1. /\ Lists(rs) \in Seq(Seq(Nat)) /\ Len(Lists(rs)) = k /\ k \in Nat
      /\ \A j \in 1 .. k : Lists(rs)[j] = RangeList(rs[j])
  BY ListsType, LenProperties, Zenon
<1>2. PICK f : Begins(f, Nat, Lists(rs)) /\ Concat(Lists(rs)) = f[k]
  BY <1>1, ConcatIs, Zenon
<1>3. /\ f \in [0 .. k -> Seq(Nat)] /\ f[0] = <<>>
      /\ \A n \in 1 .. k : f[n] = f[n - 1] \o RangeList(rs[n])
  BY <1>1, <1>2, Zenon DEF Begins
<1> DEFINE h == [n \in 0 .. k |-> Len(f[n])]
<1>4. ASSUME NEW n \in 1 .. k PROVE h[n] = h[n - 1] + RangeBlocks(rs[n])
  <2>1. n - 1 \in 0 .. k /\ n \in 0 .. k
    BY <1>1
  <2>2. f[n - 1] \in Seq(Nat)
    BY <1>3, <2>1, Zenon
  <2>3. rs[n] \in Ranges
    BY ElementOfSeq, Zenon
  <2>4. RangeList(rs[n]) \in Seq(Nat) /\ Len(RangeList(rs[n])) = RangeBlocks(rs[n])
    BY <2>3, RangeListType, Zenon
  <2>5. Len(f[n - 1] \o RangeList(rs[n])) = Len(f[n - 1]) + Len(RangeList(rs[n]))
    BY <2>2, <2>4, LenConcat, Zenon
  <2>6. Len(f[n]) = Len(f[n - 1]) + RangeBlocks(rs[n])
    BY <1>3, <2>4, <2>5, Zenon
  <2> QED BY <2>1, <2>6, Zenon
<1>5. 0 \in 0 .. k /\ k \in 0 .. k /\ \A n \in 0 .. k : n # 0 => n \in 1 .. k
  BY <1>1
<1>6. h[0] = 0
  BY <1>3, <1>5, EmptySeq, Zenon
<1>7. h = [n \in 0 .. k |-> h[n]]
  BY Zenon
<1>8. h[k] = Len(BlockList(rs))
  BY <1>2, <1>5, BlockListIs, Zenon
<1> HIDE DEF h
<1>9. h = D(h)
  <2>1. \A n \in 0 .. k : h[n] = IF n = 0 THEN 0 ELSE h[n - 1] + RangeBlocks(rs[n])
    BY <1>4, <1>5, <1>6, Zenon
  <2> QED BY <1>7, <2>1, Zenon
<1>10. F = D(F)
  BY <1>9, Zenon
<1>11. BlockCount(rs) = F[k]
  BY DEF BlockCount
<1>12. \A n \in 0 .. k : F[n] = h[n]
  <2> HIDE DEF F
  <2>1. \A n \in 0 .. k : F[n] = IF n = 0 THEN 0 ELSE F[n - 1] + RangeBlocks(rs[n])
    BY <1>10, Zenon
  <2>2. \A n \in 1 .. k : n # 0 /\ n \in 0 .. k
    BY <1>1
  <2>3. Alike(F, h, k)
    BY <1>4, <1>5, <1>6, <2>1, <2>2, Zenon DEF Alike
  <2>4. Same(F, h, k)
    BY <1>1, <2>3, SameSteps, Zenon
  <2> QED BY <2>4, Zenon DEF Same
<1> QED BY <1>5, <1>8, <1>11, <1>12, Zenon

-----------------------------------------------------------------------------
Fillings == [buffer : Seq(Ranges), rest : Seq(Ranges), needed : Nat]

\* What a turn of the loop keeps: no block is lost or moved, and there are enough left.
Filling(s, n, rest, needed) ==
  /\ BlockList(s.buffer) \o BlockList(s.rest) = BlockList(rest)
  /\ Len(BlockList(s.buffer)) + s.needed = needed
  /\ s.needed <= Len(BlockList(s.rest))
  /\ s.needed = 0 \/ Len(s.rest) = Len(rest) - n

LEMMA WholeRange ==
  ASSUME NEW s \in Fillings, NEW n \in Nat \ {0}, NEW rest \in Seq(Ranges), NEW needed \in Nat,
         Filling(s, n - 1, rest, needed), s.needed # 0, s.rest # <<>>,
         ~(RangeBlocks(Head(s.rest)) > s.needed)
  PROVE  FillTurn(s) \in Fillings /\ Filling(FillTurn(s), n, rest, needed)
<1> DEFINE r == Head(s.rest)
           t == FillTurn(s)
           b == BlockList(s.buffer)
           x == RangeList(r)
           y == BlockList(Tail(s.rest))
<1>1. s.buffer \in Seq(Ranges) /\ s.rest \in Seq(Ranges) /\ s.needed \in Nat
  BY Zenon DEF Fillings
<1>2. /\ r \in Ranges /\ Tail(s.rest) \in Seq(Ranges) /\ Len(Tail(s.rest)) = Len(s.rest) - 1
      /\ BlockList(s.rest) = x \o y
  BY <1>1, BlockListHead, Zenon
<1>3. x \in Seq(Nat) /\ Len(x) = RangeBlocks(r) /\ RangeBlocks(r) \in Nat
  BY <1>2, RangeListType, Zenon
<1>4. b \in Seq(Nat) /\ Len(b) \in Nat /\ y \in Seq(Nat) /\ Len(y) \in Nat
  BY <1>1, <1>2, BlockListType, Zenon
<1>5. t = [buffer |-> Append(s.buffer, r), rest |-> Tail(s.rest), needed |-> s.needed - RangeBlocks(r)]
  BY DEF FillTurn
<1>6. /\ t.buffer = Append(s.buffer, r) /\ t.rest = Tail(s.rest)
      /\ t.needed = s.needed - RangeBlocks(r)
  BY <1>5
<1>7. Append(s.buffer, r) \in Seq(Ranges)
  BY <1>1, <1>2, AppendProperties, Zenon
<1>8. BlockList(t.buffer) = b \o x
  BY <1>1, <1>2, <1>6, BlockListAppend, Zenon
<1>9. Regroups(b, x, y)
  BY <1>3, <1>4, Regrouping, Zenon
<1>10. Len(b \o x) = Len(b) + RangeBlocks(r) /\ Len(x \o y) = RangeBlocks(r) + Len(y)
  BY <1>3, <1>4, LenConcat, Zenon
<1>11. /\ b \o (x \o y) = BlockList(rest) /\ Len(b) + s.needed = needed /\ s.needed <= Len(x \o y)
       /\ Len(s.rest) = Len(rest) - (n - 1)
  BY <1>2, Zenon DEF Filling
<1>12. s.needed - RangeBlocks(r) \in Nat
  BY <1>1, <1>3
<1>13. t \in Fillings
  BY <1>2, <1>5, <1>7, <1>12 DEF Fillings
<1>14. /\ Len(b) + RangeBlocks(r) + (s.needed - RangeBlocks(r)) = needed
       /\ s.needed - RangeBlocks(r) <= Len(y) 
       /\ Len(s.rest) - 1 = Len(rest) - n
  <2>1. Len(s.rest) \in Nat /\ Len(rest) \in Nat
    BY <1>1, LenProperties, Zenon
  <2> HIDE DEF r, t, b, x, y
  <2>2. s.needed <= RangeBlocks(r) + Len(y)
    BY <1>10, <1>11, Zenon
  <2> QED BY ONLY <1>1, <1>3, <1>4, <1>11, <2>1, <2>2, needed \in Nat, n \in Nat \ {0}
<1>15. Filling(t, n, rest, needed)
  <2> HIDE DEF t
  <2>1. BlockList(t.buffer) \o BlockList(t.rest) = BlockList(rest)
    BY <1>6, <1>8, <1>9, <1>11, Zenon DEF Regroups
  <2>2. Len(BlockList(t.buffer)) + t.needed = needed
    BY <1>6, <1>8, <1>10, <1>14, Zenon
  <2>3. t.needed <= Len(BlockList(t.rest)) /\ Len(t.rest) = Len(rest) - n
    BY <1>2, <1>6, <1>14, Zenon
  <2> QED BY <2>1, <2>2, <2>3, Zenon DEF Filling
<1> QED BY <1>13, <1>15, Zenon

LEMMA PartOfRange ==
  ASSUME NEW s \in Fillings, NEW n \in Nat, NEW m \in Nat, NEW rest \in Seq(Ranges), NEW needed \in Nat,
         Filling(s, m, rest, needed), s.needed # 0, s.rest # <<>>,
         RangeBlocks(Head(s.rest)) > s.needed
  PROVE  FillTurn(s) \in Fillings /\ Filling(FillTurn(s), n, rest, needed)
<1> DEFINE r == Head(s.rest)
           t == FillTurn(s)
           cut == r[1] + s.needed
           b == BlockList(s.buffer)
           x == RangeList(<<r[1], cut>>)
           y == RangeList(<<cut, r[2]>>)
           z == BlockList(Tail(s.rest))
<1>1. s.buffer \in Seq(Ranges) /\ s.rest \in Seq(Ranges) /\ s.needed \in Nat
  BY Zenon DEF Fillings
<1>2. /\ r \in Ranges /\ Tail(s.rest) \in Seq(Ranges)
      /\ BlockList(s.rest) = RangeList(r) \o z
  BY <1>1, BlockListHead, Zenon
<1>3. /\ r[1] \in Nat /\ r[2] \in Nat /\ cut \in Nat /\ r[1] < cut /\ cut < r[2]
      /\ r = <<r[1], r[2]>> /\ cut - r[1] = s.needed
  <2> HIDE DEF r
  <2>1. r[1] \in Nat /\ r[2] \in Nat /\ r = <<r[1], r[2]>>
    BY <1>2 DEF Ranges
  <2>2. r[2] - r[1] > s.needed
    BY Zenon DEF RangeBlocks, r
  <2>3. /\ r[1] + s.needed \in Nat /\ r[1] < r[1] + s.needed /\ r[1] + s.needed < r[2]
        /\ (r[1] + s.needed) - r[1] = s.needed
    BY ONLY <1>1, <2>1, <2>2, s.needed # 0
  <2> QED BY <2>1, <2>3
<1>4. <<r[1], cut>> \in Ranges /\ <<cut, r[2]>> \in Ranges /\ RangeList(r) = x \o y
  <2> HIDE DEF r, cut
  <2>1. <<r[1], cut>> \in Ranges /\ <<cut, r[2]>> \in Ranges
    BY <1>3 DEF Ranges
  <2>2. RangeList(<<r[1], r[2]>>) = x \o y
    <3>1. Cuts(r[1], cut, r[2])
      BY <1>3, RangeCut, Zenon
    <3> QED BY <3>1, Zenon DEF Cuts
  <2> QED BY <1>3, <2>1, <2>2, Zenon
<1>5. x \in Seq(Nat) /\ Len(x) = s.needed /\ y \in Seq(Nat)
  <2>1. RangeBlocks(<<r[1], cut>>) = s.needed
    BY <1>3 DEF RangeBlocks
  <2> QED BY <1>4, <2>1, RangeListType, Zenon
<1>6. b \in Seq(Nat) /\ Len(b) \in Nat /\ z \in Seq(Nat)
  BY <1>1, <1>2, BlockListType, Zenon
<1> DEFINE left == <<<<cut, r[2]>>>> \o Tail(s.rest)
<1>7. t = [buffer |-> Append(s.buffer, <<r[1], cut>>), rest |-> left, needed |-> 0]
  BY DEF FillTurn
<1>8. <<<<cut, r[2]>>>> \in Seq(Ranges) /\ BlockList(<<<<cut, r[2]>>>>) = y
  BY <1>4, BlockListOne, Zenon
<1>9. left \in Seq(Ranges) /\ BlockList(left) = y \o z
  BY <1>2, <1>8, LenConcat, BlockListTwo, Zenon
<1> HIDE DEF left, t
<1>10. Append(s.buffer, <<r[1], cut>>) \in Seq(Ranges) /\ BlockList(Append(s.buffer, <<r[1], cut>>)) = b \o x
  BY <1>1, <1>4, AppendProperties, BlockListAppend, Zenon
<1> HIDE DEF r, cut, b, x, y, z
<1>11. t.buffer = Append(s.buffer, <<r[1], cut>>) /\ t.rest = left /\ t.needed = 0
  BY <1>7, Zenon
<1>12. t \in Fillings
  BY <1>7, <1>9, <1>10 DEF Fillings
<1>13. b \o ((x \o y) \o z) = BlockList(rest) /\ Len(b) + s.needed = needed
  BY <1>2, <1>4, Zenon DEF Filling, b
<1>14. (b \o x) \o (y \o z) = BlockList(rest)
  <2>1. y \o z \in Seq(Nat)
    BY <1>5, <1>6, LenConcat, Zenon
  <2>2. Regroups(b, x, y \o z) /\ Regroups(x, y, z)
    BY <1>5, <1>6, <2>1, Regrouping, Zenon
  <2> QED BY <1>13, <2>2, Zenon DEF Regroups
<1>15. Len(b \o x) = needed
  BY <1>5, <1>6, <1>13, LenConcat, Zenon
<1>16. Filling(t, n, rest, needed)
  <2>1. BlockList(t.buffer) \o BlockList(t.rest) = BlockList(rest)
    BY <1>9, <1>10, <1>11, <1>14, Zenon
  <2>2. Len(BlockList(t.buffer)) + t.needed = needed
    <3>1. needed + 0 = needed
      OBVIOUS
    <3> QED BY <1>10, <1>11, <1>15, <3>1, Zenon
  <2>3. t.needed <= Len(BlockList(t.rest))
    <3>1. Len(BlockList(left)) \in Nat
      BY <1>9, BlockListType, Zenon
    <3>2. 0 <= Len(BlockList(left))
      BY <3>1
    <3> QED BY <1>11, <3>2, Zenon
  <2> QED BY <1>11, <2>1, <2>2, <2>3, Zenon DEF Filling
<1> QED BY <1>12, <1>16, Zenon DEF t

LEMMA FillTurnKeeps ==
  ASSUME NEW rest \in Seq(Ranges), NEW needed \in Nat, NEW n \in 1 .. Len(rest), NEW s \in Fillings,
         Filling(s, n - 1, rest, needed)
  PROVE  FillTurn(s) \in Fillings /\ Filling(FillTurn(s), n, rest, needed)
<1>0. Len(rest) \in Nat
  BY LenProperties, Zenon
<1>1. n \in Nat \ {0} /\ n \in Nat /\ n - 1 \in Nat
  BY <1>0
<1>2. CASE s.needed = 0
  <2>1. FillTurn(s) = s
    BY <1>2, Zenon DEF FillTurn
  <2> QED BY <1>2, <2>1, Zenon DEF Filling
<1>3. CASE s.needed # 0
  <2>1. s.rest # <<>>
    <3>1. s.needed \in Nat /\ s.needed <= Len(BlockList(s.rest))
      BY Zenon DEF Fillings, Filling
    <3>2. ~(s.needed <= 0)
      BY <1>3, <3>1
    <3>3. Len(BlockList(<<>>)) = 0
      BY BlockListEmpty, EmptySeq, Zenon
    <3> QED BY <3>1, <3>2, <3>3, Zenon
  <2>2. CASE RangeBlocks(Head(s.rest)) > s.needed
    BY <1>1, <1>3, <2>1, <2>2, PartOfRange, Zenon
  <2>3. CASE ~(RangeBlocks(Head(s.rest)) > s.needed)
    BY <1>1, <1>3, <2>1, <2>3, WholeRange, Zenon
  <2> QED BY <2>2, <2>3, Zenon
<1> QED BY <1>2, <1>3, Zenon

\* A group gets the blocks that it needs, the ones that come first.
LEMMA FillIs ==
  ASSUME NEW rest \in Seq(Ranges), NEW needed \in Nat, needed <= Len(BlockList(rest))
  PROVE  /\ Fill(rest, needed).buffer \in Seq(Ranges) /\ Fill(rest, needed).rest \in Seq(Ranges)
         /\ BlockList(Fill(rest, needed).buffer) \o BlockList(Fill(rest, needed).rest) = BlockList(rest)
         /\ Len(BlockList(Fill(rest, needed).buffer)) = needed
<1> DEFINE k == Len(rest)
           base == [buffer |-> <<>>, rest |-> rest, needed |-> needed]
           S == [n \in 0 .. k |-> {s \in Fillings : Filling(s, n, rest, needed)}]
           step == [p \in Fillings \X (1 .. k) |-> FillTurn(p[1])]
           D(f) == [n \in 0 .. k |-> IF n = 0 THEN base ELSE FillTurn(f[n - 1])]
           F == CHOOSE f : f = D(f)
<1>1. k \in Nat
  BY LenProperties, Zenon
<1>2. base \in Fillings /\ Filling(base, 0, rest, needed)
  <2>1. <<>> \in Seq(Ranges)
    BY EmptySeq, Zenon
  <2>2. base \in Fillings /\ base.buffer = <<>> /\ base.rest = rest /\ base.needed = needed
    BY <2>1 DEF Fillings
  <2>3. BlockList(rest) \in Seq(Nat)
    BY BlockListType, Zenon
  <2>4. <<>> \o BlockList(rest) = BlockList(rest) /\ Len(<<>>) = 0
    BY <2>3, ConcatEmptySeq, EmptySeq, Zenon
  <2>5. 0 + needed = needed /\ Len(rest) = Len(rest) - 0
    BY <1>1
  <2> HIDE DEF base
  <2> QED BY <2>2, <2>4, <2>5, BlockListEmpty, Zenon DEF Filling
<1>3. \A n \in 1 .. k : \A x \in Fillings : step[<<x, n>>] = FillTurn(x)
  OBVIOUS
<1>4. PICK h : Follows(h, k, S, base, step)
  <2>1. 0 \in 0 .. k /\ \A n \in 1 .. k : n \in 0 .. k /\ n - 1 \in 0 .. k
    BY <1>1
  <2>2. base \in S[0]
    BY <1>2, <2>1, Zenon
  <2>3. ASSUME NEW n \in 1 .. k, NEW x \in S[n - 1] PROVE step[<<x, n>>] \in S[n]
    <3> HIDE DEF step
    <3>1. x \in Fillings /\ Filling(x, n - 1, rest, needed)
      BY <2>1, Zenon
    <3>2. FillTurn(x) \in Fillings /\ Filling(FillTurn(x), n, rest, needed)
      BY <3>1, FillTurnKeeps, Zenon
    <3> QED BY <1>3, <2>1, <3>1, <3>2, Zenon
  <2> HIDE DEF S, step, k, base
  <2> QED BY <1>1, <2>2, <2>3, RecursionExists, Zenon
<1>5. h = [n \in 0 .. k |-> h[n]] /\ h[0] = base
  BY <1>4, Zenon DEF Follows
<1>6. ASSUME NEW n \in 0 .. k PROVE h[n] \in Fillings /\ Filling(h[n], n, rest, needed)
  <2>1. h[n] \in S[n]
    BY <1>4, Zenon DEF Follows
  <2> QED BY <2>1, Zenon
<1>7. ASSUME NEW n \in 1 .. k PROVE h[n] = FillTurn(h[n - 1])
  <2>1. n - 1 \in 0 .. k
    BY <1>1
  <2>2. h[n] = step[<<h[n - 1], n>>] /\ h[n - 1] \in Fillings
    BY <1>4, <1>6, <2>1, Zenon DEF Follows
  <2> HIDE DEF step
  <2> QED BY <1>3, <2>2, Zenon
<1> HIDE DEF base
<1>8. h = D(h)
  <2>1. ASSUME NEW n \in 0 .. k PROVE h[n] = IF n = 0 THEN base ELSE FillTurn(h[n - 1])
    <3>1. n # 0 => n \in 1 .. k
      BY <1>1
    <3> QED BY <1>5, <1>7, <3>1, Zenon
  <2> QED BY <1>5, <2>1, Zenon
<1>9. F = D(F)
  BY <1>8, Zenon
<1>10. Fill(rest, needed) = F[k]
  BY Zenon DEF Fill, base
<1>11. \A n \in 0 .. k : F[n] = h[n]
  <2> HIDE DEF F
  <2>1. \A n \in 0 .. k : F[n] = IF n = 0 THEN base ELSE FillTurn(F[n - 1])
    BY <1>9, Zenon
  <2>2. 0 \in 0 .. k /\ \A n \in 1 .. k : n # 0 /\ n \in 0 .. k
    BY <1>1
  <2>3. Alike(F, h, k)
    BY <1>5, <1>7, <2>1, <2>2, Zenon DEF Alike
  <2> HIDE DEF k
  <2>4. Same(F, h, k)
    BY <1>1, <2>3, SameSteps, Zenon
  <2> QED BY <2>4, Zenon DEF Same
<1>12. k \in 0 .. k
  BY <1>1
<1> DEFINE f == Fill(rest, needed)
<1>13. f \in Fillings /\ Filling(f, k, rest, needed)
  <2> HIDE DEF F
  <2> QED BY <1>6, <1>10, <1>11, <1>12, Zenon
<1> HIDE DEF f, F
<1>14. f.buffer \in Seq(Ranges) /\ f.rest \in Seq(Ranges) /\ f.needed \in Nat
  BY <1>13, Zenon DEF Fillings
<1>15. f.needed = 0
  <2>1. f.needed <= Len(BlockList(f.rest)) /\ (f.needed = 0 \/ Len(f.rest) = k - k)
    BY <1>13, Zenon DEF Filling
  <2>2. CASE Len(f.rest) = k - k
    <3>1. f.rest = <<>>
      BY <1>1, <1>14, <2>2, EmptySeq
    <3>2. f.needed <= 0
      BY <2>1, <3>1, BlockListEmpty, EmptySeq, Zenon
    <3> QED BY <1>14, <3>2
  <2> QED BY <2>1, <2>2, Zenon
<1>16. Len(BlockList(f.buffer)) = needed
  <2>1. Len(BlockList(f.buffer)) + 0 = needed /\ Len(BlockList(f.buffer)) \in Nat
    BY <1>13, <1>14, <1>15, BlockListType, Zenon DEF Filling
  <2> QED BY <2>1
<1> QED BY <1>13, <1>14, <1>16, Zenon DEF f, Filling

-----------------------------------------------------------------------------
\* The blocks that the first g groups take.
Taken(blocks, n, g) ==
  g * (blocks \div n) + (IF g <= blocks % n THEN g ELSE (blocks % n))

LEMMA DivMod ==
  ASSUME NEW b \in Nat, NEW n \in Nat, n # 0
  PROVE  /\ b \div n \in Nat /\ b % n \in Nat /\ b % n < n
         /\ b = n * (b \div n) + (b % n)
OBVIOUS

LEMMA OneTimesMore ==
  ASSUME NEW q \in Nat, NEW g \in Nat, g # 0
  PROVE  g * q = (g - 1) * q + q /\ (g - 1) * q \in Nat /\ g * q \in Nat /\ 0 * q = 0
OBVIOUS

LEMMA TakesNotLess ==
  ASSUME NEW q \in Nat, NEW g \in Nat, NEW n \in Nat, g <= n
  PROVE  g * q <= n * q /\ g * q \in Nat /\ n * q \in Nat
OBVIOUS

LEMMA TakenIs ==
  ASSUME NEW b \in Nat, NEW n \in Nat, n # 0
  PROVE  /\ Taken(b, n, 0) = 0 /\ Taken(b, n, n) = b
         /\ \A g \in 1 .. n : /\ Taken(b, n, g) = Taken(b, n, g - 1) + GroupBlocks(b, n, g)
                              /\ Taken(b, n, g - 1) \in Nat /\ GroupBlocks(b, n, g) \in Nat
                              /\ Taken(b, n, g) <= b
<1> DEFINE q == b \div n
           r == b % n
<1>1. q \in Nat /\ r \in Nat /\ r < n /\ b = n * q + r
  BY DivMod
<1>2. /\ \A g \in Nat : Taken(b, n, g) = g * q + (IF g <= r THEN g ELSE r)
      /\ \A g \in Nat : GroupBlocks(b, n, g) = q + (IF g <= r THEN 1 ELSE 0)
  BY Zenon DEF Taken, GroupBlocks
<1> HIDE DEF q, r
<1>3. Taken(b, n, 0) = 0
  <2>1. 0 * q = 0 /\ 0 <= r /\ 0 \in Nat
    BY <1>1
  <2>2. Taken(b, n, 0) = 0 + 0
    BY <1>2, <2>1, Zenon
  <2> QED BY <2>2
<1>4. Taken(b, n, n) = b
  <2>1. ~(n <= r)
    BY <1>1
  <2> QED BY <1>1, <1>2, <2>1, Zenon
<1>5. ASSUME NEW g \in 1 .. n
      PROVE  /\ Taken(b, n, g) = Taken(b, n, g - 1) + GroupBlocks(b, n, g)
             /\ Taken(b, n, g - 1) \in Nat /\ GroupBlocks(b, n, g) \in Nat
             /\ Taken(b, n, g) <= b
  <2>0. g \in Nat /\ g - 1 \in Nat /\ g # 0 /\ g <= n
    OBVIOUS
  <2>1. g * q = (g - 1) * q + q /\ (g - 1) * q \in Nat /\ g * q \in Nat
    BY <1>1, <2>0, OneTimesMore, Zenon
  <2>2. g * q <= n * q /\ n * q \in Nat
    BY <1>1, <2>0, TakesNotLess, Zenon
  <2>3. /\ Taken(b, n, g) = g * q + (IF g <= r THEN g ELSE r)
        /\ Taken(b, n, g - 1) = (g - 1) * q + (IF g - 1 <= r THEN g - 1 ELSE r)
        /\ GroupBlocks(b, n, g) = q + (IF g <= r THEN 1 ELSE 0)
    BY <1>2, <2>0, Zenon
  <2> DEFINE x == g * q
             y == (g - 1) * q
             z == n * q
  <2>4. /\ x = y + q /\ x \in Nat /\ y \in Nat /\ x <= z /\ z \in Nat
        /\ Taken(b, n, g) = x + (IF g <= r THEN g ELSE r)
        /\ Taken(b, n, g - 1) = y + (IF g - 1 <= r THEN g - 1 ELSE r)
        /\ b = z + r
    BY <1>1, <2>1, <2>2, <2>3, Zenon
  <2> HIDE DEF x, y, z
  <2> QED BY ONLY <1>1, <2>0, <2>3, <2>4
<1> QED BY <1>3, <1>4, <1>5, Zenon

BlockLists(groups) == [g \in DOMAIN groups |-> BlockList(groups[g])]

LEMMA BlockListsType ==
  ASSUME NEW groups \in Seq(Seq(Ranges))
  PROVE  /\ BlockLists(groups) \in Seq(Seq(Nat)) /\ Len(BlockLists(groups)) = Len(groups)
         /\ \A j \in 1 .. Len(groups) : BlockLists(groups)[j] = BlockList(groups[j])
<1>1. Len(groups) \in Nat /\ DOMAIN groups = 1 .. Len(groups)
  BY LenProperties, Zenon
<1>2. \A j \in 1 .. Len(groups) : BlockList(groups[j]) \in Seq(Nat)
  BY ElementOfSeq, BlockListType, Zenon
<1>3. BlockLists(groups) = [j \in 1 .. Len(groups) |-> BlockList(groups[j])]
  BY <1>1, Zenon DEF BlockLists
<1>4. \A j \in 1 .. Len(groups) : BlockLists(groups)[j] = BlockList(groups[j])
  BY <1>3, Zenon
<1>5. BlockLists(groups) \in Seq(Seq(Nat)) /\ Len(BlockLists(groups)) = Len(groups)
  BY <1>1, <1>2, <1>3, IsASeq
<1> QED BY <1>4, <1>5

LEMMA BlockListsAppend ==
  ASSUME NEW groups \in Seq(Seq(Ranges)), NEW r \in Seq(Ranges)
  PROVE  Concat(BlockLists(Append(groups, r))) = Concat(BlockLists(groups)) \o BlockList(r)
<1> DEFINE t == Append(groups, r)
           k == Len(groups)
           p == BlockLists(groups)
           u == Append(p, BlockList(r))
<1>1. t \in Seq(Seq(Ranges)) /\ Len(t) = k + 1 /\ t[k + 1] = r /\ \A n \in 1 .. k : t[n] = groups[n]
  BY AppendProperties
<1>2. /\ p \in Seq(Seq(Nat)) /\ Len(p) = k
      /\ \A j \in 1 .. k : p[j] = BlockList(groups[j])
  BY BlockListsType, Zenon
<1>3. BlockList(r) \in Seq(Nat) /\ k \in Nat
  BY BlockListType, LenProperties, Zenon
<1> HIDE DEF p
<1>4. /\ u \in Seq(Seq(Nat)) /\ Len(u) = k + 1 /\ u[k + 1] = BlockList(r)
      /\ \A n \in 1 .. k : u[n] = p[n]
  BY ONLY <1>2, <1>3, AppendProperties
<1> HIDE DEF t, u
<1>5. /\ BlockLists(t) \in Seq(Seq(Nat)) /\ Len(BlockLists(t)) = k + 1
      /\ \A j \in 1 .. k + 1 : BlockLists(t)[j] = BlockList(t[j])
  BY <1>1, BlockListsType, Zenon
<1>6. \A j \in 1 .. k + 1 : j = k + 1 \/ j \in 1 .. k
  BY <1>3
<1>7. \A j \in 1 .. k + 1 : BlockLists(t)[j] = u[j]
  BY <1>1, <1>2, <1>4, <1>5, <1>6, Zenon
<1>8. BlockLists(t) = u
  BY <1>4, <1>5, <1>7, SeqEqual, Zenon
<1>9. Concat(u) = Concat(p) \o BlockList(r)
  BY <1>2, <1>3, ConcatAppend, Zenon DEF u
<1> QED BY <1>8, <1>9, Zenon DEF t, p

Splittings == [result : Seq(Seq(Ranges)), rest : Seq(Ranges)]

\* What the loop over the groups keeps.
Splitting(s, g, rs, n) ==
  /\ Len(s.result) = g
  /\ Concat(BlockLists(s.result)) \o BlockList(s.rest) = BlockList(rs)
  /\ Len(BlockList(s.rest)) + Taken(BlockCount(rs), n, g) = BlockCount(rs)
  /\ \A i \in 1 .. g : BlockCount(s.result[i]) = GroupBlocks(BlockCount(rs), n, i)

LEMMA FillGroupKeeps ==
  ASSUME NEW rs \in Seq(Ranges), NEW n \in Nat, n # 0, NEW g \in 1 .. n, NEW s \in Splittings,
         Splitting(s, g - 1, rs, n)
  PROVE  /\ FillGroup(s, GroupBlocks(BlockCount(rs), n, g)) \in Splittings
         /\ Splitting(FillGroup(s, GroupBlocks(BlockCount(rs), n, g)), g, rs, n)
<1> DEFINE blocks == BlockCount(rs)
           needed == GroupBlocks(blocks, n, g)
           f == Fill(s.rest, needed)
           t == FillGroup(s, needed)
           c == Concat(BlockLists(s.result))
           x == BlockList(f.buffer)
           y == BlockList(f.rest)
<1>1. s.result \in Seq(Seq(Ranges)) /\ s.rest \in Seq(Ranges)
  BY Zenon DEF Splittings
<1>2. blocks \in Nat
  BY BlockCountIs, BlockListType, Zenon
<1> HIDE DEF blocks
<1>3. /\ Taken(blocks, n, g) = Taken(blocks, n, g - 1) + needed
      /\ Taken(blocks, n, g - 1) \in Nat /\ needed \in Nat /\ Taken(blocks, n, g) <= blocks
  BY <1>2, TakenIs, Zenon
<1>4. /\ Len(s.result) = g - 1
      /\ c \o BlockList(s.rest) = BlockList(rs)
      /\ Len(BlockList(s.rest)) + Taken(blocks, n, g - 1) = blocks
      /\ \A i \in 1 .. g - 1 : BlockCount(s.result[i]) = GroupBlocks(blocks, n, i)
  BY Zenon DEF Splitting, blocks
<1>5. Len(BlockList(s.rest)) \in Nat
  BY <1>1, BlockListType, Zenon
<1> HIDE DEF needed
<1>6. needed <= Len(BlockList(s.rest))
  BY <1>2, <1>3, <1>4, <1>5
<1>7. /\ f.buffer \in Seq(Ranges) /\ f.rest \in Seq(Ranges)
      /\ x \o y = BlockList(s.rest) /\ Len(x) = needed
  BY <1>1, <1>3, <1>6, FillIs, Zenon
<1>8. t = [result |-> Append(s.result, f.buffer), rest |-> f.rest]
  BY Zenon DEF FillGroup
<1> HIDE DEF f, t
<1>9. /\ Append(s.result, f.buffer) \in Seq(Seq(Ranges)) /\ Len(Append(s.result, f.buffer)) = Len(s.result) + 1
      /\ \A i \in 1 .. Len(s.result) : Append(s.result, f.buffer)[i] = s.result[i]
      /\ Append(s.result, f.buffer)[Len(s.result) + 1] = f.buffer
  BY <1>1, <1>7, AppendProperties
<1>10. t \in Splittings /\ t.result = Append(s.result, f.buffer) /\ t.rest = f.rest
  BY <1>7, <1>8, <1>9, Zenon DEF Splittings
<1>11. (g - 1) + 1 = g /\ \A i \in 1 .. g : i = g \/ i \in 1 .. g - 1
  OBVIOUS
<1>12. Len(t.result) = g
  BY <1>4, <1>9, <1>10, <1>11, Zenon
<1>13. x \in Seq(Nat) /\ y \in Seq(Nat) /\ c \in Seq(Nat) /\ Len(y) \in Nat
  BY <1>1, <1>7, BlockListType, BlockListsType, ConcatType, Zenon
<1>14. Concat(BlockLists(t.result)) = c \o x
  BY <1>1, <1>7, <1>10, BlockListsAppend, Zenon
<1>15. Concat(BlockLists(t.result)) \o BlockList(t.rest) = BlockList(rs)
  <2> HIDE DEF c, x
  <2>1. Regroups(c, x, y)
    BY <1>13, Regrouping, Zenon
  <2>2. (c \o x) \o y = BlockList(rs)
    BY <1>4, <1>7, <2>1, Zenon DEF Regroups
  <2> QED BY <1>10, <1>14, <2>2, Zenon
<1>16. Len(y) + Taken(blocks, n, g) = blocks
  <2> HIDE DEF x, y
  <2>1. Len(x \o y) = Len(x) + Len(y)
    BY <1>13, LenConcat, Zenon
  <2>2. Len(BlockList(s.rest)) = needed + Len(y)
    BY <1>7, <2>1, Zenon
  <2> QED BY ONLY <1>2, <1>3, <1>4, <1>5, <1>13, <2>2
<1>17. \A i \in 1 .. g : BlockCount(t.result[i]) = GroupBlocks(blocks, n, i)
  <2>1. BlockCount(f.buffer) = needed
    BY <1>7, BlockCountIs, Zenon
  <2>2. t.result[g] = f.buffer /\ \A i \in 1 .. g - 1 : t.result[i] = s.result[i]
    BY <1>4, <1>9, <1>10, <1>11, Zenon
  <2> QED BY <1>4, <1>11, <2>1, <2>2, Zenon DEF needed
<1>18. Splitting(t, g, rs, n)
  BY <1>10, <1>12, <1>15, <1>16, <1>17, Zenon DEF Splitting, blocks
<1> QED BY <1>10, <1>18, Zenon DEF t, needed, blocks

\* RangeSet::Split: the blocks one after another, in as many groups as were asked for or
\* as there are blocks.
SplitsInto(groups, rs, n) ==
  /\ groups \in Seq(Seq(Ranges)) /\ Len(groups) = n /\ n \in Nat /\ n # 0
  /\ Concat(BlockLists(groups)) = BlockList(rs)
  /\ \A i \in 1 .. n : BlockCount(groups[i]) = GroupBlocks(BlockCount(rs), n, i)

Splits(rs, count) ==
  SplitsInto(Split(rs, count), rs, IF BlockCount(rs) < count THEN BlockCount(rs) ELSE count)

LEMMA SplitIs ==
  ASSUME NEW rs \in Seq(Ranges), rs # <<>>, NEW count \in Nat, count # 0
  PROVE  Splits(rs, count)
<1> DEFINE blocks == BlockCount(rs)
           n == IF blocks < count THEN blocks ELSE count
           base == [result |-> <<>>, rest |-> rs]
           S == [g \in 0 .. n |-> {s \in Splittings : Splitting(s, g, rs, n)}]
           step == [p \in Splittings \X (1 .. n) |-> FillGroup(p[1], GroupBlocks(blocks, n, p[2]))]
           D(f) == [g \in 0 .. n |-> IF g = 0 THEN base ELSE FillGroup(f[g - 1], GroupBlocks(blocks, n, g))]
           F == CHOOSE f : f = D(f)
<1>1. blocks \in Nat /\ blocks # 0 /\ blocks = Len(BlockList(rs))
  <2>1. Head(rs) \in Ranges /\ Tail(rs) \in Seq(Ranges) /\ BlockList(rs) = RangeList(Head(rs)) \o BlockList(Tail(rs))
    BY BlockListHead, Zenon
  <2>2. RangeList(Head(rs)) \in Seq(Nat) /\ Len(RangeList(Head(rs))) \in Nat /\ Len(RangeList(Head(rs))) > 0
    BY <2>1, RangeListType, Zenon
  <2>3. BlockList(Tail(rs)) \in Seq(Nat) /\ Len(BlockList(Tail(rs))) \in Nat
    BY <2>1, BlockListType, Zenon
  <2>4. Len(BlockList(rs)) = Len(RangeList(Head(rs))) + Len(BlockList(Tail(rs)))
    BY <2>1, <2>2, <2>3, LenConcat, Zenon
  <2>5. Len(BlockList(rs)) \in Nat /\ Len(BlockList(rs)) # 0
    BY <2>2, <2>3, <2>4
  <2> QED BY <2>5, BlockCountIs, Zenon
<1>2. n \in Nat /\ n # 0
  BY <1>1, Zenon
<1> HIDE DEF n
<1>3. base \in Splittings /\ Splitting(base, 0, rs, n)
  <2>1. <<>> \in Seq(Seq(Ranges)) /\ Len(<<>>) = 0
    BY EmptySeq, Zenon
  <2>2. base \in Splittings /\ base.result = <<>> /\ base.rest = rs
    BY <2>1, Zenon DEF Splittings
  <2>3. BlockList(rs) \in Seq(Nat)
    BY BlockListType, Zenon
  <2>4. <<>> \o BlockList(rs) = BlockList(rs)
    BY <2>3, ConcatEmptySeq, Zenon
  <2>5. BlockLists(<<>>) = <<>>
    BY DEF BlockLists
  <2>6. Len(BlockList(rs)) + Taken(blocks, n, 0) = blocks
    <3>1. Taken(blocks, n, 0) = 0
      BY <1>1, <1>2, TakenIs, Zenon
    <3> QED BY <1>1, <3>1
  <2>7. 1 .. 0 = {}
    OBVIOUS
  <2> HIDE DEF base
  <2> QED BY <2>1, <2>2, <2>4, <2>5, <2>6, <2>7, ConcatEmpty, Zenon DEF Splitting
<1>4. \A g \in 1 .. n : \A x \in Splittings : step[<<x, g>>] = FillGroup(x, GroupBlocks(blocks, n, g))
  OBVIOUS
<1>5. PICK h : Follows(h, n, S, base, step)
  <2>1. 0 \in 0 .. n /\ \A g \in 1 .. n : g \in 0 .. n /\ g - 1 \in 0 .. n
    BY <1>2
  <2>2. base \in S[0]
    BY <1>3, <2>1, Zenon
  <2>3. ASSUME NEW g \in 1 .. n, NEW x \in S[g - 1] PROVE step[<<x, g>>] \in S[g]
    <3> HIDE DEF step
    <3>1. x \in Splittings /\ Splitting(x, g - 1, rs, n)
      BY <2>1, Zenon
    <3>2. /\ FillGroup(x, GroupBlocks(blocks, n, g)) \in Splittings
          /\ Splitting(FillGroup(x, GroupBlocks(blocks, n, g)), g, rs, n)
      BY <1>2, <3>1, FillGroupKeeps, Zenon
    <3> QED BY <1>4, <2>1, <3>1, <3>2, Zenon
  <2> HIDE DEF S, step, base
  <2> QED BY <1>2, <2>2, <2>3, RecursionExists, Zenon
<1>6. h = [g \in 0 .. n |-> h[g]] /\ h[0] = base
  BY <1>5, Zenon DEF Follows
<1>7. ASSUME NEW g \in 0 .. n PROVE h[g] \in Splittings /\ Splitting(h[g], g, rs, n)
  <2>1. h[g] \in S[g]
    BY <1>5, Zenon DEF Follows
  <2> QED BY <2>1, Zenon
<1>8. ASSUME NEW g \in 1 .. n PROVE h[g] = FillGroup(h[g - 1], GroupBlocks(blocks, n, g))
  <2>1. g - 1 \in 0 .. n
    BY <1>2
  <2>2. h[g] = step[<<h[g - 1], g>>] /\ h[g - 1] \in Splittings
    BY <1>5, <1>7, <2>1, Zenon DEF Follows
  <2> HIDE DEF step
  <2> QED BY <1>4, <2>2, Zenon
<1> HIDE DEF base
<1>9. h = D(h)
  <2>1. ASSUME NEW g \in 0 .. n PROVE h[g] = IF g = 0 THEN base ELSE FillGroup(h[g - 1], GroupBlocks(blocks, n, g))
    <3>1. g # 0 => g \in 1 .. n
      BY <1>2
    <3> QED BY <1>6, <1>8, <3>1, Zenon
  <2> QED BY <1>6, <2>1, Zenon
<1>10. F = D(F)
  BY <1>9, Zenon
<1>11. Split(rs, count) = F[n].result
  BY Zenon DEF Split, base, n
<1>12. \A g \in 0 .. n : F[g] = h[g]
  <2> HIDE DEF F
  <2>1. \A g \in 0 .. n : F[g] = IF g = 0 THEN base ELSE FillGroup(F[g - 1], GroupBlocks(blocks, n, g))
    BY <1>10, Zenon
  <2>2. 0 \in 0 .. n /\ \A g \in 1 .. n : g # 0 /\ g \in 0 .. n
    BY <1>2
  <2>3. Alike(F, h, n)
    BY <1>6, <1>8, <2>1, <2>2, Zenon DEF Alike
  <2>4. Same(F, h, n)
    BY <1>2, <2>3, SameSteps, Zenon
  <2> QED BY <2>4, Zenon DEF Same
<1>13. n \in 0 .. n
  BY <1>2
<1> HIDE DEF F
<1> DEFINE s == h[n]
<1>14. s \in Splittings /\ Splitting(s, n, rs, n) /\ Split(rs, count) = s.result
  BY <1>7, <1>11, <1>12, <1>13, Zenon
<1> HIDE DEF s, blocks
<1>15. s.result \in Seq(Seq(Ranges)) /\ s.rest \in Seq(Ranges)
  BY <1>14, Zenon DEF Splittings
<1>16. BlockList(s.rest) = <<>>
  <2>1. Len(BlockList(s.rest)) + Taken(blocks, n, n) = blocks
    BY <1>14, Zenon DEF Splitting, blocks
  <2>2. Taken(blocks, n, n) = blocks
    BY <1>1, <1>2, TakenIs, Zenon
  <2>3. BlockList(s.rest) \in Seq(Nat) /\ Len(BlockList(s.rest)) \in Nat
    BY <1>15, BlockListType, Zenon
  <2>4. Len(BlockList(s.rest)) = 0
    BY <1>1, <2>1, <2>2, <2>3
  <2> QED BY <2>3, <2>4, EmptySeq, Zenon
<1>17. Concat(BlockLists(s.result)) = BlockList(rs)
  <2>1. Concat(BlockLists(s.result)) \in Seq(Nat)
    BY <1>15, BlockListsType, ConcatType, Zenon
  <2>2. Concat(BlockLists(s.result)) \o <<>> = Concat(BlockLists(s.result))
    BY <2>1, ConcatEmptySeq, Zenon
  <2> QED BY <1>14, <1>16, <2>2, Zenon DEF Splitting
<1>18. SplitsInto(Split(rs, count), rs, n)
  BY <1>2, <1>14, <1>15, <1>17, Zenon DEF Splitting, SplitsInto
<1> QED BY <1>18, Zenon DEF Splits, n, blocks

\* No group has two blocks more than another one.
LEMMA GroupsEven ==
  ASSUME NEW blocks \in Nat, NEW n \in Nat, n # 0, NEW g \in 1 .. n, NEW h \in 1 .. n
  PROVE  GroupBlocks(blocks, n, g) <= GroupBlocks(blocks, n, h) + 1
<1>1. blocks \div n \in Nat
  BY DivMod, Zenon
<1> QED BY <1>1 DEF GroupBlocks

\* A set that the constructor does not clear has only ranges with blocks.
LEMMA MadeRangeSet ==
  ASSUME NEW pairs \in Seq(Nat \X Nat), MakeRangeSet(pairs) # <<>>
  PROVE  pairs \in Seq(Ranges) /\ MakeRangeSet(pairs) = pairs /\ pairs # <<>>
<1>1. MakeRangeSet(pairs) = pairs /\ \A j \in DOMAIN pairs : RangeBlocks(pairs[j]) > 0
  BY Zenon DEF MakeRangeSet
<1>2. Len(pairs) \in Nat /\ DOMAIN pairs = 1 .. Len(pairs)
  BY LenProperties, Zenon
<1>3. ASSUME NEW j \in 1 .. Len(pairs) PROVE pairs[j] \in Ranges
  <2>1. pairs[j] \in Nat \X Nat /\ pairs[j][2] - pairs[j][1] > 0
    BY <1>1, <1>2, ElementOfSeq, Zenon DEF RangeBlocks
  <2> DEFINE r == pairs[j]
  <2> HIDE DEF r
  <2>2. r \in Nat \X Nat /\ r[2] - r[1] > 0
    BY <2>1, Zenon DEF r
  <2>3. r \in Ranges
    BY ONLY <2>2 DEF Ranges
  <2> QED BY <2>3, Zenon DEF r
<1>4. pairs \in Seq(Ranges)
  BY <1>2, <1>3
<1> QED BY <1>1, <1>4, Zenon

\* Every block of the ranges is in some group.
LEMMA GroupsCover ==
  ASSUME NEW rs \in Seq(Ranges), NEW groups, NEW n, SplitsInto(groups, rs, n),
         NEW r \in Range(rs), NEW b \in r[1] .. r[2] - 1
  PROVE  \E g \in DOMAIN groups : b \in Range(BlockList(groups[g]))
<1>1. PICK j \in 1 .. Len(rs) : r = rs[j]
  <2>1. PICK j \in DOMAIN rs : r = rs[j]
    BY Zenon DEF Range
  <2> QED BY <2>1, LenProperties, Zenon
<1>2. r \in Ranges
  BY <1>1, ElementOfSeq, Zenon
<1>3. b \in Range(RangeList(r))
  <2>1. r[1] \in Nat /\ r[2] \in Nat
    BY <1>2 DEF Ranges
  <2>2. b - r[1] + 1 \in 1 .. RangeBlocks(r) /\ r[1] + (b - r[1] + 1) - 1 = b
    BY <2>1 DEF RangeBlocks
  <2>3. RangeList(r)[b - r[1] + 1] = b /\ DOMAIN RangeList(r) = 1 .. RangeBlocks(r)
    BY <2>2, Zenon DEF RangeList
  <2> QED BY <2>2, <2>3, Zenon DEF Range
<1>4. /\ Lists(rs) \in Seq(Seq(Nat)) /\ Len(Lists(rs)) = Len(rs) /\ Lists(rs)[j] = RangeList(r)
  BY <1>1, ListsType, Zenon
<1>5. b \in Range(BlockList(rs))
  <2>1. Range(Concat(Lists(rs))) = UNION {Range(Lists(rs)[i]) : i \in 1 .. Len(Lists(rs))}
    BY <1>4, ConcatRange, Zenon
  <2>2. b \in UNION {Range(Lists(rs)[i]) : i \in 1 .. Len(Lists(rs))}
    BY <1>3, <1>4, Zenon
  <2> QED BY <2>1, <2>2, BlockListIs, Zenon
<1>6. groups \in Seq(Seq(Ranges)) /\ Concat(BlockLists(groups)) = BlockList(rs)
  BY Zenon DEF SplitsInto
<1> DEFINE k == Len(groups)
<1>7. /\ BlockLists(groups) \in Seq(Seq(Nat)) /\ Len(BlockLists(groups)) = k
      /\ \A i \in 1 .. k : BlockLists(groups)[i] = BlockList(groups[i])
  BY <1>6, BlockListsType, Zenon
<1>8. PICK i \in 1 .. k : b \in Range(BlockLists(groups)[i])
  <2>1. Range(Concat(BlockLists(groups))) = UNION {Range(BlockLists(groups)[i]) : i \in 1 .. k}
    BY <1>7, ConcatRange, Zenon
  <2>2. b \in UNION {Range(BlockLists(groups)[i]) : i \in 1 .. k}
    BY <1>5, <1>6, <2>1, Zenon
  <2> QED BY <2>2, Zenon
<1>9. DOMAIN groups = 1 .. k
  BY <1>6, LenProperties, Zenon
<1> QED BY <1>7, <1>8, <1>9, Zenon

-----------------------------------------------------------------------------
\* read_blocks: the ranges of a part that verify_image lets pass are split.
LEMMA PartSplits ==
  ASSUME VerifierInv, pc = "split", NEW n \in Nat, n # 0
  PROVE  LET rs == care_map.parts[part].pairs
         IN  /\ part \in DOMAIN care_map.parts /\ rs \in Seq(Ranges) /\ MakeRangeSet(rs) = rs
             /\ Splits(rs, n)
<1> DEFINE rs == care_map.parts[part].pairs
<1>1. care_map \in CareMaps /\ part \in DOMAIN care_map.parts /\ MakeRangeSet(rs) # <<>>
  BY DEF VerifierInv, CheckInv, ReadInv, Parts
<1>2. care_map.parts \in Seq([legacy : BOOLEAN, pairs : Seq(Nat \X Nat)])
  BY <1>1, UpdateVerifierAssumption, Zenon DEF UpdateVerifierAssumption
<1>3. rs \in Seq(Nat \X Nat)
  <2>1. part \in 1 .. Len(care_map.parts)
    BY <1>1, <1>2, LenProperties, Zenon
  <2>2. care_map.parts[part] \in [legacy : BOOLEAN, pairs : Seq(Nat \X Nat)]
    BY <1>2, <2>1, ElementOfSeq, Zenon
  <2> QED BY <2>2, Zenon
<1> HIDE DEF rs
<1>4. rs \in Seq(Ranges) /\ MakeRangeSet(rs) = rs /\ rs # <<>>
  BY <1>1, <1>3, MadeRangeSet, Zenon
<1>5. Splits(rs, n)
  BY <1>4, SplitIs, Zenon
<1> QED BY <1>1, <1>4, <1>5, Zenon DEF rs

\* Every block of the part is in some group.
LEMMA ReadSplit ==
  ASSUME VerifierInv, SplitBlocks
  PROVE  ReadInv'
<1> DEFINE rs == care_map.parts[part].pairs
           groups == Split(rs, thread_num)
<1>0. pc = "split" /\ thread_num \in Nat /\ thread_num # 0
  BY UpdateVerifierAssumption DEF SplitBlocks, UpdateVerifierAssumption
<1>1. PICK n : /\ part \in DOMAIN care_map.parts /\ rs \in Seq(Ranges) /\ MakeRangeSet(rs) = rs
               /\ SplitsInto(groups, rs, n)
  BY <1>0, PartSplits, Zenon DEF Splits
<1>2. Groups[care_map][part] = groups
  <2>1. care_map \in CareMaps
    BY DEF VerifierInv, CheckInv
  <2> QED BY <1>1, <2>1, Zenon DEF Groups
<1>3. /\ pc' = "join" /\ UNCHANGED <<part, care_map, running, image>>
      /\ threads' = [g \in DOMAIN groups |-> BlockList(groups[g])]
      /\ bad' = {} /\ joined' = 0 /\ ret' = TRUE
  <2> HIDE DEF groups
  <2> QED BY <1>2, Zenon DEF SplitBlocks, Goes, boot, Fixed
<1>4. groups \in Seq(Seq(Ranges))
  BY <1>1, Zenon DEF SplitsInto
<1>5. \A b \in BlocksOf(care_map.parts[part]) : \E g \in DOMAIN groups : b \in Range(BlockList(groups[g]))
  <2> SUFFICES ASSUME NEW b \in BlocksOf(care_map.parts[part])
               PROVE  \E g \in DOMAIN groups : b \in Range(BlockList(groups[g]))
    OBVIOUS
  <2>1. PICK r \in Range(rs) : b \in r[1] .. r[2] - 1
    BY Zenon DEF BlocksOf
  <2> HIDE DEF groups, rs
  <2> QED BY <1>1, <2>1, GroupsCover, Zenon
<1> HIDE DEF groups, rs
<1>6. threads' = BlockLists(groups) /\ threads' \in Seq(Seq(Nat)) /\ DOMAIN threads' = DOMAIN groups
  <2>1. threads' = BlockLists(groups) /\ DOMAIN threads' = DOMAIN groups
    BY <1>3, Zenon DEF BlockLists
  <2> QED BY <1>4, <2>1, BlockListsType, Zenon
<1>7. \A b \in BlocksOf(care_map.parts[part]) : \E g \in DOMAIN threads' : b \in Range(threads'[g])
  BY <1>3, <1>5, <1>6, Zenon
<1>8. joined' \in 0 .. Len(threads') /\ 1 .. joined' = {}
  BY <1>3, <1>6
<1> QED BY <1>0, <1>3, <1>6, <1>7, <1>8, Zenon DEF VerifierInv, ReadInv, Clean, Parts, BlocksOf

LEMMA NextRead == VerifierInv /\ [Next]_vars => ReadInv'
<1> SUFFICES ASSUME VerifierInv, [Next]_vars PROVE ReadInv'
  OBVIOUS
<1>0. ReadInv /\ BootInv /\ CheckInv
  BY DEF VerifierInv
<1>1. CASE Boot
  BY <1>1 DEF Boot, ReadInv
<1>2. CASE StartHal \/ Damage
  <2>1. UNCHANGED <<pc, part, threads, bad, joined, ret, care_map, running, image>>
    BY <1>2, Zenon DEF StartHal, BootControl_init, Damage, Wiped, Fixed, verifier
  <2> QED BY <1>0, <2>1, ReadStays, Zenon
<1>3. CASE Down
  <2>1. pc' = "off" /\ UNCHANGED part
    BY <1>3, Zenon DEF Down, verifier
  <2> QED BY <1>0, <2>1, ReadAway, Zenon DEF ReadInv
<1>4. CASE Update
  <2>1. UNCHANGED <<pc, part, threads, bad, joined, ret, care_map, running>>
    BY <1>4, Zenon DEF Update, Engine, Fixed, BeginUpdate, WriteImage, Activate, Cancel
  <2>2. running # Off => image'[running] = image[running]
    BY <1>0, <1>4 DEF Update, Engine, BeginUpdate, WriteImage, Activate, Cancel, BootInv
  <2> QED BY <1>0, <2>1, <2>2, ReadStays, Zenon DEF CheckInv
<1>5. CASE Verifier
  <2>1. CASE Start
    <3>1. /\ pc = "start" /\ UNCHANGED <<part, care_map>>
          /\ pc' \in {"left", "mark", "reboot", "verify"}
      BY <2>1, Zenon DEF Start, Goes, Fixed
    <3>2. part' = 1
      BY <1>0, <3>1 DEF ReadInv
    <3>3. care_map.parts \in Seq([legacy : BOOLEAN, pairs : Seq(Nat \X Nat)])
      BY <1>0, UpdateVerifierAssumption DEF UpdateVerifierAssumption, CheckInv
    <3>4. \A p \in Parts' : ~(p < part')
      BY <3>1, <3>2, <3>3 DEF Parts
    <3>5. CASE pc' = "verify"
      BY ONLY <3>2, <3>4, <3>5, ReadBegins
    <3>6. CASE pc' # "verify"
      <4>1. pc' \notin {"start", "verify", "split", "join"} /\ part' \in Nat \ {0}
        BY <3>1, <3>2, <3>6
      <4> QED BY <1>0, <4>1, ReadAway
    <3> QED BY <3>5, <3>6
  <2>2. CASE MarkSuccessful \/ \E to \in {"reboot", "gaveup", "unjudged"} : Turns(to)
    <3>1. pc' \in {"left", "reboot", "gaveup", "unjudged"} /\ UNCHANGED part
      BY <2>2 DEF MarkSuccessful, Turns, verifier
    <3> QED BY <1>0, <3>1, ReadAway, Zenon DEF ReadInv
  <2>3. CASE \E g \in 1 .. thread_num : ReadBlock(g) /\ Goes("join")
    BY <2>3, ReadReadBlock, Zenon
  <2> QED BY <1>3, <1>5, <2>1, <2>2, <2>3, VerifierSteps, ReadVerify, ReadSplit, ReadJoin, ReadJoined, Zenon
<1>6. CASE UNCHANGED vars
  <2>1. UNCHANGED <<pc, part, threads, bad, joined, ret, care_map, running, image>>
    BY <1>6 DEF vars, boot, verifier
  <2> QED BY <1>0, <2>1, ReadStays
<1> QED BY <1>1, <1>2, <1>3, <1>4, <1>5, <1>6 DEF Next, PowerLoss, Restart

-----------------------------------------------------------------------------
(* The theorems *)

LEMMA InitVerifier == Init => VerifierInv
<1> SUFFICES ASSUME Init PROVE VerifierInv
  OBVIOUS
<1>1. 0 \in Slots
  <2>1. PICK s \in Slots : s \in 0 .. 3
    BY BootControlAssumption, Zenon DEF BootControlAssumption
  <2>2. 0 .. s \subseteq Slots
    BY BootControlAssumption DEF BootControlAssumption
  <2>3. 0 \in 0 .. s
    BY <2>1
  <2> QED BY <2>2, <2>3
<1>2. /\ slot_info \in SlotInfos
      /\ \A s \in Slots : slot_info[s].successful_boot = 0
  BY DEF Init, Entry, SlotInfos, kActivePriority, kActiveTries
<1>3. BootInv
  BY <1>1, <1>2 DEF BootInv, Init
<1>4. CheckInv
  BY <1>2 DEF CheckInv, Init
<1>5. ReadInv
  BY DEF ReadInv, Init
<1> QED BY <1>3, <1>4, <1>5 DEF VerifierInv

LEMMA NextVerifier == VerifierInv /\ [Next]_vars => VerifierInv'
BY NextBoot, NextCheck, NextRead DEF VerifierInv

\* update_verifier marks a slot only when every thread of read_blocks has read every
\* block of the care map in the image that the slot still has, or verify_image had
\* nothing to verify: for any care map, any number of threads and slots, and any faults.
THEOREM MarksOnlyVerified == Spec => []VerifiedOnly
<1>1. VerifierInv => VerifiedOnly
  BY DEF VerifierInv, CheckInv, VerifiedOnly, MarkedSuccessful
<1> QED BY <1>1, InitVerifier, NextVerifier, PTL DEF Spec

\* The bootloader always has a slot to go back to, of which update_verifier has read
\* the image, from the first successful boot on.
THEOREM AlwaysFallsBack == Spec => []FallBack
<1>1. VerifierInv => FallBack
  <2> SUFFICES ASSUME VerifierInv, ~reset, NEW s \in Slots, slot_info[s].successful_boot = 1
      PROVE  slot_info[s].tries_remaining > 0 /\ (Good(s) \/ checked[s] = "taken")
    BY DEF FallBack
  <2> QED BY DEF VerifierInv, BootInv, CheckInv
<1> QED BY <1>1, InitVerifier, NextVerifier, PTL DEF Spec

\* RangeSet::Split, for any care map and any number of threads: the threads of read_blocks
\* read the blocks of the part, each one once and in order, in as many groups as there are
\* threads or blocks, and no group has two blocks more than another one.
THEOREM SplitsRight == Spec => []SplitRight
<1>1. ASSUME VerifierInv PROVE SplitRight
  <2> DEFINE pairs == care_map.parts[part].pairs
  <2>0. CASE pc # "split"
    BY <2>0, Zenon DEF SplitRight
  <2>1. CASE pc = "split"
    <3>1. pairs \in Seq(Ranges) /\ MakeRangeSet(pairs) = pairs
      <4>1. 1 \in Nat /\ 1 # 0
        OBVIOUS
      <4> QED BY <1>1, <2>1, <4>1, PartSplits, Zenon
    <3>2. BlockCount(pairs) \in Nat
      BY <3>1, BlockCountIs, BlockListType, Zenon
    <3>3. ASSUME NEW n \in 1 .. BlockCount(pairs) + 1
          PROVE  LET rs == MakeRangeSet(pairs)
                     groups == Split(rs, n)
                     size(g) == BlockCount(groups[g])
                 IN  /\ Concat([g \in DOMAIN groups |-> BlockList(groups[g])]) = BlockList(rs)
                     /\ Len(groups) = (IF BlockCount(rs) < n THEN BlockCount(rs) ELSE n)
                     /\ \A g, h \in DOMAIN groups : size(g) <= size(h) + 1
      <4> DEFINE groups == Split(pairs, n)
                 m == IF BlockCount(pairs) < n THEN BlockCount(pairs) ELSE n
      <4>1. n \in Nat /\ n # 0
        BY <3>2
      <4>2. SplitsInto(groups, pairs, m)
        BY <1>1, <2>1, <4>1, PartSplits, Zenon DEF Splits
      <4> HIDE DEF groups, m, pairs
      <4>3. /\ groups \in Seq(Seq(Ranges)) /\ Len(groups) = m /\ m \in Nat /\ m # 0
            /\ Concat(BlockLists(groups)) = BlockList(pairs)
            /\ \A i \in 1 .. m : BlockCount(groups[i]) = GroupBlocks(BlockCount(pairs), m, i)
        BY <4>2, Zenon DEF SplitsInto
      <4>4. DOMAIN groups = 1 .. m
        BY <4>3, LenProperties, Zenon
      <4>5. ASSUME NEW g \in DOMAIN groups, NEW h \in DOMAIN groups
            PROVE  BlockCount(groups[g]) <= BlockCount(groups[h]) + 1
        <5>1. g \in 1 .. m /\ h \in 1 .. m
          BY <4>4, Zenon
        <5>2. GroupBlocks(BlockCount(pairs), m, g) <= GroupBlocks(BlockCount(pairs), m, h) + 1
          BY <3>2, <4>3, <5>1, GroupsEven, Zenon
        <5> QED BY <4>3, <5>1, <5>2, Zenon
      <4> QED BY <3>1, <4>3, <4>5, Zenon DEF BlockLists, groups, m
    <3> QED BY <3>3, Zenon DEF SplitRight
  <2> QED BY <2>0, <2>1, Zenon
<1> QED BY <1>1, InitVerifier, NextVerifier, PTL DEF Spec

=============================================================================
