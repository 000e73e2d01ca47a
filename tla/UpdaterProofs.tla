---------------------------- MODULE UpdaterProofs ---------------------------
(***************************************************************************)
(* Proofs about two functions of the updater.  ApplyPatch: success means   *)
(* that every partition is its target, whatever went wrong before; and     *)
(* after one fault the update can be started again.  NewData, the two      *)
(* threads of block_image_update: for every transfer list, entry, buffer   *)
(* size and combination of failures no wakeup is lost and every section    *)
(* gets its own data.                                                      *)
(***************************************************************************)
EXTENDS NewData, ApplyPatch, WellFoundedInduction, TLAPS

\* A set of natural numbers has a least member.
LEMMA LeastNat ==
  ASSUME NEW T, T \subseteq Nat, T # {}
  PROVE  \E x \in T : \A y \in T : x =< y
<1> DEFINE R == OpToRel(<, Nat)
<1>1. IsWellFoundedOn(R, Nat)
  BY NatLessThanWellFounded, Zenon
<1>2. \A y, x \in Nat : y < x => <<y, x>> \in R
  BY DEF OpToRel
<1> HIDE DEF R
<1>3. PICK x \in T : \A y \in T : ~(<<y, x>> \in R)
  BY <1>1, WFMin, Zenon
<1>4. \A y \in T : ~(y < x)
  BY <1>2, <1>3, Zenon
<1>5. \A y \in T : x =< y
  BY <1>4
<1> QED BY <1>5

-----------------------------------------------------------------------------
(* ApplyPatch *)

\* A patch is at hand, from applypatch's first look at its target to the unlink.
Busy == {"room", "open", "save", "patch", "write", "sync", "verify", "unlink"}

\* The control state of WriteToPartition and of SaveFileContents.
ControlInv ==
  /\ pc = "save" => copy.of = P.from /\ copy.len \in 0 .. Chunks - 1
  /\ pc = "write" => start \in 1 .. Chunks
  /\ pc \in {"write", "sync", "verify"} => attempt \in {1, 2}
  /\ pc \in {"room", "open", "save", "patch"} => P.op = "patch"
  /\ pc \in {"check", "space"} => k = 1

\* The patches before the one at hand are done, and that one when its copy goes.
DoneSoFar ==
  /\ pc \in Busy \cup {"apply"} => \A i \in 1 .. k - 1 : Done(Patches[i])
  /\ pc = "unlink" => Done(P)
  /\ result = "t" => pc = "exited" /\ \A i \in DOMAIN Patches : Done(Patches[i])

ScriptInv == TypeOK /\ ControlInv /\ DoneSoFar

-----------------------------------------------------------------------------
Orig(p) == Holds(p, InitialImage[p])

\* Nothing but the copy can bring the patch to its end.
NeedsCopy(q) == q.op = "patch" /\ ~Done(q) /\ ~Holds(q.src, q.from)

\* Up to the first fault: the partitions are untouched or done, apart from the one that
\* is being written; and that one has a copy of its source.
BeforeFault ==
  /\ \A p \in Partitions : dev[p] = disk[p] \/ (p = P.tgt /\ pc \in {"write", "sync"})
  /\ \A j \in DOMAIN Patches :
       Orig(Patches[j].tgt) \/ Done(Patches[j]) \/ (j = k /\ pc \in {"write", "sync"})
  /\ pc \in Busy => \A j \in DOMAIN Patches : j > k => Orig(Patches[j].tgt)
  /\ pc \in {"patch", "write", "sync", "verify"} /\ P.op = "patch" => CopyIs(P.from) /\ copyDisk = copy
  /\ pc \in {"write", "sync", "verify"} => attempt = 1
  /\ pc = "verify" => Done(P)

\* Up to the second: patches are applied in order...
InOrder ==
  /\ \A p \in Partitions : (\A j \in DOMAIN Patches : Patches[j].tgt # p) => Orig(p)
  /\ \A j \in DOMAIN Patches : ~Orig(Patches[j].tgt) => \A i \in 1 .. j - 1 : Done(Patches[i])

\* ...one that needs the copy has it, or is at hand and has read it...
CopyKept ==
  \A i \in DOMAIN Patches : NeedsCopy(Patches[i]) =>
    CopyIs(Patches[i].from) \/ (i = k /\ pc \in {"save", "patch", "write", "sync", "verify"})

\* ...so that no other patch takes the copy's place...
Alone == \A i \in DOMAIN Patches : i # k => ~NeedsCopy(Patches[i])

\* ...and WriteToPartition has written what it passed.
Written ==
  /\ pc = "write" => \A c \in 1 .. start - 1 : dev[P.tgt][c] = P.to
  /\ pc = "sync" => Done(P)
  /\ pc = "verify" /\ attempt = 2 => Done(P)

BeforeSecond == InOrder /\ CopyKept /\ (pc \in Busy => Alone) /\ Written

RecoverInv ==
  ScriptInv /\ (faults = 0 => BeforeFault) /\ (faults =< 1 => BeforeSecond)

-----------------------------------------------------------------------------
(* The script *)

LEMMA Numbers == Chunks \in Nat \ {0} /\ MaxFaults \in Nat
BY ApplyPatchAssumption DEF ApplyPatchAssumption

LEMMA PatchFacts ==
  /\ Len(Patches) \in Nat \ {0} /\ DOMAIN Patches = 1 .. Len(Patches)
  /\ Chunks \in Nat \ {0} /\ MaxFaults \in Nat
  /\ \A i \in DOMAIN Patches :
       /\ Patches[i].op \in {"patch", "flash"}
       /\ Patches[i].src \in Partitions /\ Patches[i].tgt \in Partitions
       /\ Patches[i].from \in Images /\ Patches[i].to \in Images
       /\ InitialImage[Patches[i].src] = Patches[i].from
  /\ \A i, j \in DOMAIN Patches : i # j => Patches[i].tgt # Patches[j].tgt
  /\ \A i, j \in DOMAIN Patches : Patches[j].op = "patch" /\ i < j => Patches[i].tgt # Patches[j].src
<1> DEFINE R == [op : {"patch", "flash"}, src : Partitions, tgt : Partitions, from : Images, to : Images]
<1>1. Patches \in Seq(R) /\ Patches # <<>> /\ Chunks \in Nat \ {0} /\ MaxFaults \in Nat
  BY ApplyPatchAssumption DEF ApplyPatchAssumption
<1>2. Len(Patches) \in Nat \ {0} /\ DOMAIN Patches = 1 .. Len(Patches)
  BY <1>1
<1>3. \A i \in DOMAIN Patches : Patches[i] \in R
  <2> HIDE DEF R
  <2> QED BY <1>1, <1>2
<1>4. \A i \in DOMAIN Patches :
       /\ Patches[i].op \in {"patch", "flash"}
       /\ Patches[i].src \in Partitions /\ Patches[i].tgt \in Partitions
       /\ Patches[i].from \in Images /\ Patches[i].to \in Images
  BY <1>3
<1>5. \A i \in DOMAIN Patches : InitialImage[Patches[i].src] = Patches[i].from
  BY ApplyPatchAssumption DEF ApplyPatchAssumption
<1>6. \A i, j \in DOMAIN Patches : i < j =>
       /\ Patches[i].tgt # Patches[j].tgt
       /\ Patches[j].op = "patch" => Patches[i].tgt # Patches[j].src
  BY ApplyPatchAssumption DEF ApplyPatchAssumption
<1>7. \A i, j \in DOMAIN Patches : i # j => Patches[i].tgt # Patches[j].tgt
  <2> SUFFICES ASSUME NEW i \in DOMAIN Patches, NEW j \in DOMAIN Patches, i # j
               PROVE  Patches[i].tgt # Patches[j].tgt
    OBVIOUS
  <2>1. i < j \/ j < i
    BY <1>2
  <2> QED BY <1>6, <2>1
<1> QED BY <1>1, <1>2, <1>4, <1>5, <1>6, <1>7

\* What the patch at hand is.
LEMMA AtHand ==
  ASSUME TypeOK
  PROVE  /\ k \in DOMAIN Patches /\ k \in Nat /\ k >= 1
         /\ P.op \in {"patch", "flash"} /\ P.src \in Partitions /\ P.tgt \in Partitions
         /\ P.from \in Images /\ P.to \in Images
         /\ \A i \in 1 .. k - 1 : i \in DOMAIN Patches
<1>1. k \in DOMAIN Patches
  BY Zenon DEF TypeOK
<1>2. k \in Nat /\ k >= 1 /\ \A i \in 1 .. k - 1 : i \in DOMAIN Patches
  BY <1>1, PatchFacts
<1> QED BY <1>1, <1>2, PatchFacts DEF P

LEMMA OneMore ==
  ASSUME NEW n \in Nat, NEW x \in 1 .. n, x # n
  PROVE  x + 1 \in 1 .. n /\ (x + 1) - 1 = x
OBVIOUS

LEMMA NoneBefore == \A i \in 1 .. 1 - 1 : FALSE
OBVIOUS

LEMMA DevStays == ASSUME dev' = dev, NEW q PROVE Done(q)' <=> Done(q)
BY DEF Done, Holds

\* A step that leaves the partitions and the patch at hand.
LEMMA ScriptStays ==
  ASSUME ScriptInv, UNCHANGED <<dev, disk, k>>,
         copy' \in Copies, copyDisk' \in Copies, litter' \subseteq DOMAIN Litter,
         start' \in 1 .. Chunks + 1, attempt' \in 0 .. 3,
         faults' \in 0 .. MaxFaults,
         \/ pc' = "exited" /\ result' \in {"none", ""}
         \/ /\ result' = result /\ pc # "exited"
            /\ pc' \in {"space", "apply"} \cup Busy
            /\ pc = "check" => pc' = "space"
            /\ pc' = "space" => pc = "check"
            /\ pc' = "unlink" => Done(P)
            /\ pc' = "save" => copy'.of = P.from /\ copy'.len \in 0 .. Chunks - 1
            /\ pc' = "write" => start' \in 1 .. Chunks
            /\ pc' \in {"write", "sync", "verify"} => attempt' \in {1, 2}
            /\ pc' \in {"room", "open", "save", "patch"} => P.op = "patch"
  PROVE  ScriptInv'
<1>1. P' = P /\ \A q : Done(q)' <=> Done(q)
  BY DevStays, Zenon DEF P
<1>2. TypeOK'
  BY Zenon DEF ScriptInv, TypeOK, Busy
<1>3. CASE pc' = "exited" /\ result' \in {"none", ""}
  <2>1. ControlInv' /\ DoneSoFar'
    BY <1>3, Zenon DEF ControlInv, DoneSoFar, Busy
  <2> QED BY <1>2, <2>1, Zenon DEF ScriptInv
<1>4. CASE ~(pc' = "exited" /\ result' \in {"none", ""})
  <2>1. ControlInv'
    BY <1>1, <1>4, Zenon DEF ScriptInv, ControlInv, Busy
  <2>2. DoneSoFar'
    <3>1. result # "t"
      BY <1>4, Zenon DEF ScriptInv, DoneSoFar
    <3>2. pc' \in Busy \cup {"apply"} => \A i \in 1 .. k' - 1 : Done(Patches[i])'
      <4>1. CASE pc \in Busy \cup {"apply"}
        BY <1>1, <4>1, Zenon DEF ScriptInv, DoneSoFar
      <4>2. CASE pc \notin Busy \cup {"apply"}
        <5>1. pc' \in Busy \cup {"apply"} => pc = "space"
          BY <1>4, <4>2, Zenon DEF ScriptInv, TypeOK, Busy
        <5>2. pc = "space" => k = 1
          BY Zenon DEF ScriptInv, ControlInv
        <5>3. k = 1 => \A i \in 1 .. k' - 1 : FALSE
          BY NoneBefore, Zenon
        <5> QED BY <5>1, <5>2, <5>3, Zenon
      <4> QED BY <4>1, <4>2, Zenon
    <3>3. pc' = "unlink" => Done(P)'
      BY <1>1, <1>4
    <3> QED BY <1>4, <3>1, <3>2, <3>3, Zenon DEF DoneSoFar
  <2> QED BY <1>2, <2>1, <2>2, Zenon DEF ScriptInv
<1> QED BY <1>3, <1>4, Zenon

LEMMA FaultType ==
  ASSUME TypeOK, NEW f, Fault(f)
  PROVE  faults \in Nat /\ faults' = faults + 1 /\ faults' \in 0 .. MaxFaults
<1>1. faults \in 0 .. MaxFaults
  BY Zenon DEF TypeOK
<1>2. faults < MaxFaults /\ faults' = faults + 1
  BY DEF Fault
<1> QED BY <1>1, <1>2, Numbers

\* A function failed, without a change of the partitions.
LEMMA ScriptFails ==
  ASSUME ScriptInv, UNCHANGED <<dev, disk, k, start, attempt>>, Return(""),
         copy' \in Copies, copyDisk' \in Copies, litter' \subseteq DOMAIN Litter,
         faults' = faults \/ \E f \in {"io", "patch", "kill"} : Fault(f)
  PROVE  ScriptInv'
<1>1. faults' \in 0 .. MaxFaults
  BY FaultType, Zenon DEF ScriptInv, TypeOK
<1>2. pc' = "exited" /\ result' = ""
  BY Zenon DEF Return
<1>3. start' \in 1 .. Chunks + 1 /\ attempt' \in 0 .. 3
  BY Zenon DEF ScriptInv, TypeOK
<1> QED BY <1>1, <1>2, <1>3, ScriptStays, Zenon

LEMMA CheckScript ==
  ASSUME ScriptInv, StartUpdater \/ ApplyPatchCheck \/ Kill
  PROVE  ScriptInv'
<1>1. /\ UNCHANGED <<dev, disk, copy, copyDisk, litter, start, attempt>>
      /\ copy' \in Copies /\ copyDisk' \in Copies /\ litter' \subseteq DOMAIN Litter
      /\ start' \in 1 .. Chunks + 1 /\ attempt' \in 0 .. 3
  BY Zenon DEF StartUpdater, ApplyPatchCheck, Kill, partitions, cache, locals, ScriptInv, TypeOK
<1>2. CASE StartUpdater
  <2>1. pc' = "check" /\ k' = 1 /\ result' = "none" /\ faults' = faults
    BY <1>2 DEF StartUpdater
  <2>2. 1 \in DOMAIN Patches
    BY PatchFacts
  <2>3. TypeOK'
    BY <1>1, <2>1, <2>2, Zenon DEF ScriptInv, TypeOK
  <2>4. ControlInv' /\ DoneSoFar'
    BY <2>1 DEF ControlInv, DoneSoFar, Busy
  <2> QED BY <2>3, <2>4 DEF ScriptInv
<1>3. CASE (ApplyPatchCheck \/ Kill) /\ Return("")
  <2>1. k' = k /\ (faults' = faults \/ \E f \in {"io", "patch", "kill"} : Fault(f))
    BY <1>3, Zenon DEF ApplyPatchCheck, Kill, locals
  <2> QED BY <1>1, <1>3, <2>1, ScriptFails, Zenon
<1>4. CASE ApplyPatchCheck /\ ~Return("")
  <2>1. pc = "check" /\ pc' = "space" /\ UNCHANGED <<result, faults, k>>
    BY <1>4, Zenon DEF ApplyPatchCheck, locals
  <2>2. faults' \in 0 .. MaxFaults
    BY <2>1, Zenon DEF ScriptInv, TypeOK
  <2> QED BY <1>1, <2>1, <2>2, ScriptStays
<1> QED BY <1>2, <1>3, <1>4, Zenon DEF Kill

LEMMA RoomScript ==
  ASSUME ScriptInv, ApplyPatchSpace \/ GenerateTargetRoom
  PROVE  ScriptInv'
<1>1. /\ UNCHANGED <<dev, disk, k, start, attempt, copy, copyDisk>>
      /\ copy' \in Copies /\ copyDisk' \in Copies /\ litter' \subseteq DOMAIN Litter
      /\ start' \in 1 .. Chunks + 1 /\ attempt' \in 0 .. 3
  BY Zenon DEF ApplyPatchSpace, GenerateTargetRoom, MakeRoom, MakeFreeSpaceOnCache, partitions, cache, locals,
         ScriptInv, TypeOK
<1>2. CASE Return("")
  <2>1. faults' = faults \/ \E f \in {"io", "patch", "kill"} : Fault(f)
    BY Zenon DEF ApplyPatchSpace, GenerateTargetRoom, MakeRoom
  <2> QED BY <1>1, <1>2, <2>1, ScriptFails, Zenon
<1>3. CASE ~Return("")
  <2>1. /\ (pc = "space" /\ pc' = "apply") \/ (pc = "room" /\ pc' = "open")
        /\ UNCHANGED <<result, faults>>
    BY <1>3, Zenon DEF ApplyPatchSpace, GenerateTargetRoom, MakeRoom
  <2>2. faults' \in 0 .. MaxFaults
    BY <2>1, Zenon DEF ScriptInv, TypeOK
  <2>3. pc = "room" => P.op = "patch"
    BY DEF ScriptInv, ControlInv
  <2> QED BY <1>1, <2>1, <2>2, <2>3, ScriptStays, Zenon DEF Busy
<1> QED BY <1>2, <1>3, Zenon

LEMMA SaveScript ==
  ASSUME ScriptInv, SaveOpens \/ SaveWrites \/ GenerateTarget
  PROVE  ScriptInv'
<1>1. /\ UNCHANGED <<dev, disk, k, litter>> /\ litter' \subseteq DOMAIN Litter
      /\ P.op = "patch" /\ P.from \in Images
  BY AtHand, Zenon DEF SaveOpens, SaveWrites, GenerateTarget, partitions, cache, locals, ScriptInv, ControlInv, TypeOK
<1>2. CASE Return("")
  <2>1. UNCHANGED <<copyDisk, start, attempt>> \/ SaveWrites
    BY <1>2, Zenon DEF SaveOpens, GenerateTarget, cache, locals, Return
  <2>2. UNCHANGED <<copy, copyDisk, start, attempt>>
    BY <1>2, <2>1, Zenon DEF SaveOpens, SaveWrites, GenerateTarget, cache, locals, Return
  <2>3. copy' \in Copies /\ copyDisk' \in Copies
    BY <2>2, Zenon DEF ScriptInv, TypeOK
  <2>4. faults' = faults \/ \E f \in {"io", "patch", "kill"} : Fault(f)
    BY Zenon DEF SaveOpens, SaveWrites, GenerateTarget
  <2> QED BY <1>1, <1>2, <2>2, <2>3, <2>4, ScriptFails, Zenon
<1>3. CASE SaveOpens /\ ~Return("")
  <2>1. /\ pc = "open" /\ pc' = "save" /\ copy' = Saved(P.from, 0)
        /\ UNCHANGED <<copyDisk, start, attempt, result, faults>>
    BY <1>3, Zenon DEF SaveOpens, locals
  <2>2. copy' \in Copies /\ copy'.of = P.from /\ copy'.len \in 0 .. Chunks - 1
    BY <1>1, <2>1, Numbers DEF Saved, Copies
  <2>3. /\ copyDisk' \in Copies /\ start' \in 1 .. Chunks + 1 /\ attempt' \in 0 .. 3
        /\ faults' \in 0 .. MaxFaults
    BY <2>1, Zenon DEF ScriptInv, TypeOK
  <2> QED BY <1>1, <2>1, <2>2, <2>3, ScriptStays DEF Busy
<1>4. CASE SaveWrites /\ ~Return("")
  <2>1. /\ pc = "save" /\ pc' \in {"patch", "save"} /\ copy' = [copy EXCEPT !.len = @ + 1]
        /\ copyDisk' = copy' /\ (pc' = "save" => copy'.len # Chunks)
        /\ UNCHANGED <<start, attempt, result, faults>>
    BY <1>4, Zenon DEF SaveWrites, locals
  <2>2. copy \in Copies /\ copy.of = P.from /\ copy.len \in 0 .. Chunks - 1
    BY <2>1, Zenon DEF ScriptInv, ControlInv, TypeOK
  <2>3. copy'.of = P.from /\ copy'.len = copy.len + 1 /\ copy' = [of |-> P.from, len |-> copy.len + 1]
    BY <2>1, <2>2 DEF Copies, NoCopy
  <2>4. copy' \in Copies /\ (pc' = "save" => copy'.len \in 0 .. Chunks - 1)
    <3>1. copy.len + 1 \in 0 .. Chunks
      BY <2>2, Numbers
    <3>2. copy' \in Copies
      BY <1>1, <2>3, <3>1 DEF Copies
    <3> QED BY <2>1, <2>2, <2>3, <3>1, <3>2, Numbers
  <2>5. /\ start' \in 1 .. Chunks + 1 /\ attempt' \in 0 .. 3 /\ faults' \in 0 .. MaxFaults
    BY <2>1, Zenon DEF ScriptInv, TypeOK
  <2> QED BY <1>1, <2>1, <2>3, <2>4, <2>5, ScriptStays, Zenon DEF Busy
<1>5. CASE GenerateTarget /\ ~Return("")
  <2>1. /\ pc = "patch" /\ pc' = "write" /\ start' = 1 /\ attempt' = 1
        /\ UNCHANGED <<copy, copyDisk, result, faults>>
    BY <1>5, Zenon DEF GenerateTarget, cache
  <2>2. copy' \in Copies /\ copyDisk' \in Copies /\ faults' \in 0 .. MaxFaults
    BY <2>1, Zenon DEF ScriptInv, TypeOK
  <2>3. start' \in 1 .. Chunks /\ start' \in 1 .. Chunks + 1 /\ attempt' \in {1, 2} /\ attempt' \in 0 .. 3
    BY <2>1, Numbers
  <2> QED BY <1>1, <2>1, <2>2, <2>3, ScriptStays DEF Busy
<1> QED BY <1>2, <1>3, <1>4, <1>5, Zenon

\* The step to the next patch, when the one at hand is done.
LEMMA NextScript ==
  ASSUME ScriptInv, pc \in {"apply", "unlink"}, Done(P), NextPatch,
         UNCHANGED <<dev, disk, copyDisk, litter, start, attempt>>, copy' \in Copies,
         faults' \in 0 .. MaxFaults
  PROVE  ScriptInv'
<1>1. /\ TypeOK /\ k \in 1 .. Len(Patches) /\ Len(Patches) \in Nat /\ DOMAIN Patches = 1 .. Len(Patches)
  BY PatchFacts, Zenon DEF ScriptInv, TypeOK
<1>2. \A i \in 1 .. k : Done(Patches[i])
  <2> SUFFICES ASSUME NEW i \in 1 .. k PROVE Done(Patches[i])
    OBVIOUS
  <2>1. i = k \/ i \in 1 .. k - 1
    BY <1>1
  <2>2. \A j \in 1 .. k - 1 : Done(Patches[j])
    BY DEF ScriptInv, DoneSoFar, Busy
  <2> QED BY <2>1, <2>2 DEF P
<1>3. \A i \in 1 .. k : Done(Patches[i])'
  BY <1>2, DevStays
<1>4. CASE k = Len(Patches)
  <2>1. pc' = "exited" /\ result' = "t" /\ k' = k
    BY <1>4 DEF NextPatch, Return
  <2>2. TypeOK'
    BY <2>1, Zenon DEF ScriptInv, TypeOK
  <2>3. ControlInv'
    BY <2>1 DEF ControlInv
  <2>4. DoneSoFar'
    BY <1>1, <1>3, <1>4, <2>1 DEF DoneSoFar, Busy
  <2> QED BY <2>2, <2>3, <2>4 DEF ScriptInv
<1>5. CASE k # Len(Patches)
  <2>1. pc' = "apply" /\ result' = result /\ k' = k + 1
    BY <1>5 DEF NextPatch
  <2>2. k' \in DOMAIN Patches /\ k' - 1 = k
    <3>1. k + 1 \in 1 .. Len(Patches) /\ (k + 1) - 1 = k
      BY <1>1, <1>5, OneMore, Zenon
    <3> QED BY <1>1, <2>1, <3>1, Zenon
  <2>3. TypeOK'
    BY <2>1, <2>2, Zenon DEF ScriptInv, TypeOK
  <2>4. ControlInv'
    BY <2>1 DEF ControlInv
  <2>5. result # "t"
    BY DEF ScriptInv, DoneSoFar
  <2>6. DoneSoFar'
    BY <1>3, <2>1, <2>2, <2>5 DEF DoneSoFar, Busy
  <2> QED BY <2>3, <2>4, <2>6 DEF ScriptInv
<1> QED BY <1>4, <1>5

LEMMA ApplyScript ==
  ASSUME ScriptInv, ApplyPatch \/ ApplyPatchFlash \/ UnlinkCopy
  PROVE  ScriptInv'
<1>1. /\ UNCHANGED <<dev, disk, copyDisk, litter>> /\ pc \in {"apply", "unlink"}
      /\ copyDisk' \in Copies /\ litter' \subseteq DOMAIN Litter
      /\ copy' = copy \/ (UnlinkCopy /\ copy' = NoCopy)
  BY Zenon DEF ApplyPatch, ApplyPatchFlash, UnlinkCopy, partitions, cache, ScriptInv, TypeOK
<1>2. copy' \in Copies
  BY <1>1, Zenon DEF Copies, ScriptInv, TypeOK
<1>3. faults' = faults \/ Fault("io")
  BY Zenon DEF ApplyPatch, ApplyPatchFlash, UnlinkCopy
<1>4. faults' \in 0 .. MaxFaults
  BY <1>3, FaultType, Zenon DEF ScriptInv, TypeOK
<1>5. CASE UnlinkCopy
  <2>1. pc = "unlink" /\ NextPatch /\ UNCHANGED <<start, attempt>>
    BY <1>5 DEF UnlinkCopy
  <2>2. Done(P)
    BY <2>1 DEF ScriptInv, DoneSoFar
  <2> QED BY <1>1, <1>2, <1>4, <2>1, <2>2, NextScript
<1>6. CASE (ApplyPatch \/ ApplyPatchFlash) /\ Done(P) /\ NextPatch /\ UNCHANGED <<start, attempt>>
  BY <1>1, <1>2, <1>4, <1>6, NextScript
<1>7. CASE (ApplyPatch \/ ApplyPatchFlash) /\ Return("") /\ UNCHANGED <<k, start, attempt>>
  <2>1. faults' = faults \/ \E f \in {"io", "patch", "kill"} : Fault(f)
    BY <1>3
  <2> QED BY <1>1, <1>2, <1>7, <2>1, ScriptFails, Zenon
<1>8. CASE ApplyPatch /\ pc' = "room" /\ UNCHANGED <<k, start, attempt, result>>
  <2>1. P.op = "patch" /\ pc = "apply"
    BY <1>8, Zenon DEF ApplyPatch
  <2>2. start' \in 1 .. Chunks + 1 /\ attempt' \in 0 .. 3
    BY <1>8, Zenon DEF ScriptInv, TypeOK
  <2> QED BY <1>1, <1>2, <1>4, <1>8, <2>1, <2>2, ScriptStays DEF Busy
<1>9. CASE ApplyPatchFlash /\ pc' = "write" /\ start' = 1 /\ attempt' = 1 /\ UNCHANGED <<k, result>>
  <2>1. pc = "apply"
    BY <1>9, Zenon DEF ApplyPatchFlash
  <2>2. start' \in 1 .. Chunks /\ start' \in 1 .. Chunks + 1 /\ attempt' \in {1, 2} /\ attempt' \in 0 .. 3
    BY <1>9, Numbers
  <2> QED BY <1>1, <1>2, <1>4, <1>9, <2>1, <2>2, ScriptStays DEF Busy
<1> QED BY <1>5, <1>6, <1>7, <1>8, <1>9, Zenon DEF ApplyPatch, ApplyPatchFlash, locals

\* The first difference is a chunk of the partition.
LEMMA MinWrong ==
  ASSUME Wrong # {}
  PROVE  Min(Wrong) \in 1 .. Chunks /\ \A c \in 1 .. Min(Wrong) - 1 : dev[P.tgt][c] = P.to
<1>1. Wrong \subseteq Nat /\ Wrong \subseteq 1 .. Chunks
  BY Numbers DEF Wrong
<1>2. \E x \in Wrong : \A y \in Wrong : x =< y
  BY <1>1, LeastNat, Zenon
<1>3. Min(Wrong) \in Wrong /\ \A y \in Wrong : Min(Wrong) =< y
  BY <1>2 DEF Min
<1> QED BY <1>1, <1>3, Numbers DEF Wrong

LEMMA VerifyScript ==
  ASSUME ScriptInv, Verify
  PROVE  ScriptInv'
<1>1. /\ pc = "verify" /\ UNCHANGED <<dev, disk, copy, copyDisk, litter, k>>
      /\ copy' \in Copies /\ copyDisk' \in Copies /\ litter' \subseteq DOMAIN Litter
  BY Zenon DEF Verify, partitions, cache, ScriptInv, TypeOK
<1>2. attempt \in {1, 2} /\ faults \in 0 .. MaxFaults /\ start \in 1 .. Chunks + 1
  BY <1>1, Zenon DEF ScriptInv, ControlInv, TypeOK
<1>3. CASE Wrong = {} /\ pc' = "unlink" /\ UNCHANGED <<start, attempt, result, faults>>
  <2>1. Done(P)
    BY <1>3 DEF Wrong, Done, Holds
  <2>2. attempt' \in 0 .. 3
    BY <1>2, <1>3
  <2> QED BY <1>1, <1>2, <1>3, <2>1, <2>2, ScriptStays DEF Busy
<1>4. CASE /\ Wrong # {} /\ start' = Min(Wrong) /\ attempt' = attempt + 1 /\ faults' = faults
           /\ IF attempt = 1 THEN pc' = "write" /\ UNCHANGED result ELSE Return("")
  <2>0. Min(Wrong) \in 1 .. Chunks /\ Min(Wrong) \in 1 .. Chunks + 1 /\ attempt + 1 \in 0 .. 3
    <3>1. Min(Wrong) \in 1 .. Chunks
      BY <1>4, MinWrong, Zenon
    <3>2. 1 .. Chunks \subseteq 1 .. Chunks + 1
      BY Numbers
    <3> QED BY <1>2, <3>1, <3>2
  <2>1. start' \in 1 .. Chunks /\ start' \in 1 .. Chunks + 1
    BY <1>4, <2>0, Zenon
  <2>2. attempt' \in 0 .. 3
    BY <1>4, <2>0, Zenon
  <2>3. CASE attempt = 1
    <3>1. pc' = "write" /\ result' = result /\ attempt' \in {1, 2}
      BY <1>4, <2>3
    <3> QED BY <1>1, <1>2, <1>4, <2>1, <2>2, <3>1, ScriptStays, Zenon DEF Busy
  <2>4. CASE attempt # 1
    <3>1. pc' = "exited" /\ result' = ""
      BY <1>4, <2>4, Zenon DEF Return
    <3> QED BY <1>1, <1>2, <1>4, <2>1, <2>2, <3>1, ScriptStays, Zenon
  <2> QED BY <2>3, <2>4
<1>5. CASE Fault("io") /\ Return("") /\ UNCHANGED <<start, attempt>>
  BY <1>1, <1>5, ScriptFails, Zenon
<1> QED BY <1>3, <1>4, <1>5, Zenon DEF Verify

Contents == [Partitions -> [1 .. Chunks -> Images \cup {Junk}]]

\* What writing a chunk of the target does.
LEMMA ChunkWritten ==
  ASSUME TypeOK, NEW c \in 1 .. Chunks, NEW x \in Images \cup {Junk},
         dev' = [dev EXCEPT ![P.tgt][c] = x]
  PROVE  /\ dev' \in Contents
         /\ \A p \in Partitions : p # P.tgt => dev'[p] = dev[p]
         /\ \A m \in 1 .. Chunks : dev'[P.tgt][m] = IF m = c THEN x ELSE dev[P.tgt][m]
<1>1. P.tgt \in Partitions /\ dev \in Contents
  BY AtHand, Zenon DEF TypeOK, Contents
<1> DEFINE row == [dev[P.tgt] EXCEPT ![c] = x]
<1>2. dev[P.tgt] \in [1 .. Chunks -> Images \cup {Junk}]
  BY <1>1 DEF Contents
<1>3. /\ row \in [1 .. Chunks -> Images \cup {Junk}]
      /\ \A m \in 1 .. Chunks : row[m] = IF m = c THEN x ELSE dev[P.tgt][m]
  BY <1>2, Zenon
<1>4. dev' = [dev EXCEPT ![P.tgt] = row]
  OBVIOUS
<1> HIDE DEF row
<1> QED BY <1>1, <1>3, <1>4, Zenon DEF Contents

\* The other patches do not look at that partition as their target.
LEMMA OtherDone ==
  ASSUME TypeOK, \A p \in Partitions : p # P.tgt => dev'[p] = dev[p],
         NEW i \in DOMAIN Patches, i # k
  PROVE  Done(Patches[i])' <=> Done(Patches[i])
<1>1. Patches[i].tgt \in Partitions /\ Patches[i].tgt # P.tgt
  BY AtHand, PatchFacts DEF P
<1> QED BY <1>1 DEF Done, Holds

LEMMA BeforeOther ==
  ASSUME ScriptInv, pc \in Busy, \A p \in Partitions : p # P.tgt => dev'[p] = dev[p], k' = k
  PROVE  \A i \in 1 .. k' - 1 : Done(Patches[i])'
<1> SUFFICES ASSUME NEW i \in 1 .. k - 1 PROVE Done(Patches[i])'
  OBVIOUS
<1>1. i \in DOMAIN Patches
  BY AtHand DEF ScriptInv
<1>2. i # k
  <2>1. k \in Nat
    BY AtHand DEF ScriptInv
  <2> QED BY <2>1
<1>3. Done(Patches[i])
  BY DEF ScriptInv, DoneSoFar
<1> QED BY <1>1, <1>2, <1>3, OtherDone DEF ScriptInv

LEMMA WriteScript ==
  ASSUME ScriptInv, WriteChunk
  PROVE  ScriptInv' /\ \A p \in Partitions : p # P.tgt => dev'[p] = dev[p]
<1>1. /\ pc = "write" /\ UNCHANGED <<disk, copy, copyDisk, litter, k, attempt>>
      /\ start \in 1 .. Chunks /\ attempt \in {1, 2} /\ result # "t" /\ TypeOK
  BY Zenon DEF WriteChunk, cache, ScriptInv, ControlInv, DoneSoFar, TypeOK
<1>2. /\ P.to \in Images \cup {Junk} /\ Junk \in Images \cup {Junk}
      /\ P.tgt \in Partitions /\ dev[P.tgt][start] \in Images \cup {Junk}
  BY <1>1, AtHand, Zenon DEF TypeOK
<1>3. CASE /\ dev' = [dev EXCEPT ![P.tgt][start] = P.to] /\ start' = start + 1
           /\ pc' = (IF start = Chunks THEN "sync" ELSE "write") /\ UNCHANGED <<result, faults>>
  <2>1. dev' \in Contents /\ \A p \in Partitions : p # P.tgt => dev'[p] = dev[p]
    BY <1>1, <1>2, <1>3, ChunkWritten, Zenon
  <2>2. start' \in 1 .. Chunks + 1 /\ (pc' = "write" => start' \in 1 .. Chunks) /\ pc' \in {"write", "sync"}
    BY <1>1, <1>3, Numbers
  <2>3. TypeOK'
    BY <1>1, <1>3, <2>1, <2>2, Zenon DEF TypeOK, Contents
  <2>4. ControlInv'
    BY <1>1, <2>2 DEF ControlInv
  <2>5. DoneSoFar'
    BY <1>1, <1>3, <2>1, <2>2, BeforeOther DEF DoneSoFar, Busy
  <2> QED BY <2>1, <2>3, <2>4, <2>5 DEF ScriptInv
<1>4. CASE /\ Fault("io") /\ Return("") /\ UNCHANGED start
           /\ \E c \in {dev[P.tgt][start], Junk} : dev' = [dev EXCEPT ![P.tgt][start] = c]
  <2>1. dev' \in Contents /\ \A p \in Partitions : p # P.tgt => dev'[p] = dev[p]
    BY <1>1, <1>2, <1>4, ChunkWritten, Zenon
  <2>2. faults' \in 0 .. MaxFaults
    BY <1>1, <1>4, FaultType, Zenon
  <2>3. pc' = "exited" /\ result' = ""
    BY <1>4, Zenon DEF Return
  <2>4. TypeOK'
    BY <1>1, <1>4, <2>1, <2>2, <2>3, Zenon DEF TypeOK, Contents
  <2>5. ControlInv' /\ DoneSoFar'
    BY <2>3, Zenon DEF ControlInv, DoneSoFar, Busy
  <2> QED BY <2>1, <2>4, <2>5 DEF ScriptInv
<1> QED BY <1>3, <1>4, Zenon DEF WriteChunk

LEMMA SyncScript ==
  ASSUME ScriptInv, SyncPartition
  PROVE  ScriptInv' /\ \A p \in Partitions : p # P.tgt => dev'[p] = dev[p]
<1>1. /\ pc = "sync" /\ UNCHANGED <<copy, copyDisk, litter, k, start, attempt>>
      /\ attempt \in {1, 2} /\ result # "t" /\ TypeOK
  BY Zenon DEF SyncPartition, cache, locals, ScriptInv, ControlInv, DoneSoFar
<1>2. CASE Fault("io") /\ Return("") /\ UNCHANGED partitions
  <2>1. UNCHANGED <<dev, disk>> /\ copy' \in Copies /\ copyDisk' \in Copies /\ litter' \subseteq DOMAIN Litter
    BY <1>1, <1>2, Zenon DEF partitions, TypeOK
  <2> QED BY <1>1, <1>2, <2>1, ScriptFails, Zenon
<1>3. CASE /\ pc' = "verify" /\ result' = result /\ (faults' = faults \/ Fault("flash")) /\ disk' = dev'
           /\ dev' = dev \/ \E i \in 1 .. Chunks : dev' = [dev EXCEPT ![P.tgt][i] = Junk]
  <2>1. dev' \in Contents /\ \A p \in Partitions : p # P.tgt => dev'[p] = dev[p]
    <3>1. CASE dev' = dev
      BY <1>1, <3>1, Zenon DEF TypeOK, Contents
    <3>2. CASE \E i \in 1 .. Chunks : dev' = [dev EXCEPT ![P.tgt][i] = Junk]
      <4>1. Junk \in Images \cup {Junk}
        OBVIOUS
      <4> QED BY <1>1, <3>2, <4>1, ChunkWritten, Zenon
    <3> QED BY <1>3, <3>1, <3>2, Zenon
  <2>2. faults' \in 0 .. MaxFaults
    BY <1>1, <1>3, FaultType, Zenon DEF TypeOK
  <2>3. disk' \in Contents /\ pc' = "verify" /\ result' = result
    BY <1>3, <2>1
  <2>4. TypeOK'
    BY <1>1, <2>1, <2>2, <2>3, Zenon DEF TypeOK, Contents
  <2>5. ControlInv'
    BY <1>1, <2>3 DEF ControlInv
  <2>6. DoneSoFar'
    BY <1>1, <2>1, <2>3, BeforeOther DEF DoneSoFar, Busy
  <2> QED BY <2>1, <2>4, <2>5, <2>6 DEF ScriptInv
<1> QED BY <1>2, <1>3, Zenon DEF SyncPartition

\* What a loss of power leaves of a partition.
LEMMA PowerPartition ==
  ASSUME TypeOK, PowerLoss
  PROVE  /\ dev' \in Contents /\ disk' = dev'
         /\ \A p \in Partitions : dev[p] = disk[p] => dev'[p] = dev[p]
<1>1. PICK kept \in [1 .. Chunks -> {"old", "new", "torn"}] :
        dev' = [p \in Partitions |-> [i \in 1 .. Chunks |->
                 IF dev[p][i] = disk[p][i] \/ kept[i] = "new" THEN dev[p][i]
                 ELSE IF kept[i] = "old" THEN disk[p][i] ELSE Junk]]
  BY Zenon DEF PowerLoss
<1>2. dev \in Contents /\ disk \in Contents
  BY Zenon DEF TypeOK, Contents
<1>3. dev' \in Contents
  BY <1>1, <1>2, Zenon DEF Contents
<1>4. ASSUME NEW p \in Partitions, dev[p] = disk[p] PROVE dev'[p] = dev[p]
  <2>1. /\ dev'[p] \in [1 .. Chunks -> Images \cup {Junk}]
        /\ dev[p] \in [1 .. Chunks -> Images \cup {Junk}]
    BY <1>2, <1>3 DEF Contents
  <2>2. \A i \in 1 .. Chunks : dev'[p][i] = dev[p][i]
    BY <1>1, <1>4
  <2>3. dev'[p] = [i \in 1 .. Chunks |-> dev'[p][i]] /\ dev[p] = [i \in 1 .. Chunks |-> dev[p][i]]
    BY <2>1, Zenon
  <2> QED BY <2>2, <2>3, Zenon
<1>5. disk' = dev'
  BY Zenon DEF PowerLoss
<1> QED BY <1>3, <1>4, <1>5

LEMMA PowerScript ==
  ASSUME ScriptInv, PowerLoss
  PROVE  ScriptInv'
<1>1. /\ pc' = "exited" /\ result' = "" /\ UNCHANGED <<litter, k, start, attempt>>
      /\ copy' \in {copy, copyDisk} /\ copyDisk' = copy' /\ TypeOK
  BY Zenon DEF PowerLoss, Return, locals, ScriptInv
<1>2. faults' \in 0 .. MaxFaults
  BY <1>1, FaultType, Zenon DEF PowerLoss
<1>3. dev' \in Contents /\ disk' \in Contents
  BY <1>1, PowerPartition, Zenon
<1>4. TypeOK'
  BY <1>1, <1>2, <1>3, Zenon DEF TypeOK, Contents
<1>5. ControlInv' /\ DoneSoFar'
  BY <1>1, Zenon DEF ControlInv, DoneSoFar, Busy
<1> QED BY <1>4, <1>5 DEF ScriptInv

LEMMA InitScript == Init => ScriptInv
<1> SUFFICES ASSUME Init PROVE ScriptInv
  OBVIOUS
<1>1. /\ InitialImage \in [Partitions -> Images]
  BY ApplyPatchAssumption DEF ApplyPatchAssumption
<1>2. dev \in Contents /\ disk = dev
  BY <1>1 DEF Init, Contents
<1>3. 1 \in DOMAIN Patches /\ 1 \in 1 .. Chunks + 1 /\ 0 \in 0 .. MaxFaults
  BY PatchFacts
<1>4. TypeOK
  BY <1>2, <1>3 DEF Init, TypeOK, Contents, Copies
<1>5. ControlInv /\ DoneSoFar
  BY DEF Init, ControlInv, DoneSoFar, Busy
<1> QED BY <1>4, <1>5 DEF ScriptInv

LEMMA NextScripts == ScriptInv /\ [Next]_vars => ScriptInv'
<1> SUFFICES ASSUME ScriptInv, [Next]_vars PROVE ScriptInv'
  OBVIOUS
<1>1. CASE UNCHANGED vars
  <2>1. UNCHANGED <<dev, disk, copy, copyDisk, litter, pc, k, start, attempt, result, faults>>
    BY <1>1 DEF vars, partitions, cache, locals
  <2>2. TypeOK'
    BY <2>1, Zenon DEF ScriptInv, TypeOK
  <2>3. ControlInv' /\ DoneSoFar'
    BY <2>1 DEF ScriptInv, ControlInv, DoneSoFar, Done, Holds, P
  <2> QED BY <2>2, <2>3 DEF ScriptInv
<1> QED BY <1>1, CheckScript, RoomScript, SaveScript, ApplyScript, VerifyScript, WriteScript, SyncScript,
           PowerScript DEF Next, Updater

\* However often it fails or dies before: when the script succeeds every partition reads
\* as its target, because each was read back and later patches write others.
THEOREM SuccessIsTarget == Spec => []SuccessMeansTarget
<1>1. ScriptInv => SuccessMeansTarget
  BY DEF ScriptInv, DoneSoFar, SuccessMeansTarget
<1> QED BY <1>1, InitScript, NextScripts, PTL DEF Spec

-----------------------------------------------------------------------------
(* Recovery after a fault *)

LEMMA SameDev ==
  ASSUME dev' = dev
  PROVE  /\ \A q : (Done(q)' <=> Done(q)) /\ (NeedsCopy(q)' <=> NeedsCopy(q))
         /\ \A p : Orig(p)' <=> Orig(p)
BY DEF Done, NeedsCopy, Orig, Holds

\* The source of a patch that needs the copy is the target of that patch or of a later one.
LEMMA NeedsTouched ==
  ASSUME InOrder, NEW i \in DOMAIN Patches, NeedsCopy(Patches[i])
  PROVE  \E j \in DOMAIN Patches : j >= i /\ ~Orig(Patches[j].tgt)
<1>1. /\ Patches[i].op = "patch" /\ ~Holds(Patches[i].src, Patches[i].from)
      /\ Patches[i].src \in Partitions /\ InitialImage[Patches[i].src] = Patches[i].from
  BY PatchFacts DEF NeedsCopy
<1>2. ~Orig(Patches[i].src)
  BY <1>1 DEF Orig
<1>3. PICK j \in DOMAIN Patches : Patches[j].tgt = Patches[i].src
  BY <1>1, <1>2 DEF InOrder
<1>4. ~(j < i)
  BY <1>1, <1>3, PatchFacts
<1>5. j >= i
  <2>1. i \in Nat /\ j \in Nat
    BY PatchFacts
  <2> QED BY <1>4, <2>1
<1> QED BY <1>2, <1>3, <1>5

\* So a patch needs it only when all before it are done, and not the one at hand...
LEMMA NeedsLast ==
  ASSUME InOrder, NEW i \in DOMAIN Patches, NeedsCopy(Patches[i]),
         NEW m \in DOMAIN Patches, m < i
  PROVE  Done(Patches[m])
<1>1. PICK j \in DOMAIN Patches : j >= i /\ ~Orig(Patches[j].tgt)
  BY NeedsTouched
<1>2. m \in 1 .. j - 1
  <2>1. i \in Nat /\ j \in Nat /\ m \in Nat /\ m >= 1
    BY PatchFacts
  <2> QED BY <1>1, <2>1
<1> QED BY <1>1, <1>2 DEF InOrder

\* ...and before the first fault only one that is being written.
LEMMA NeedsWritten ==
  ASSUME InOrder, BeforeFault, NEW i \in DOMAIN Patches, NeedsCopy(Patches[i])
  PROVE  i = k /\ pc \in {"write", "sync"}
<1>1. PICK j \in DOMAIN Patches : j >= i /\ ~Orig(Patches[j].tgt)
  BY NeedsTouched
<1>2. i \in Nat /\ j \in Nat /\ i >= 1
  BY PatchFacts
<1>3. ~Done(Patches[i])
  BY DEF NeedsCopy
<1>4. j = i
  <2>1. i \notin 1 .. j - 1
    BY <1>1, <1>3 DEF InOrder
  <2> QED BY <1>1, <1>2, <2>1
<1> QED BY <1>1, <1>3, <1>4 DEF BeforeFault

\* Neither a patch is at hand before nor after the step.
LEMMA IdleRecover ==
  ASSUME RecoverInv, pc \notin Busy, pc' \notin Busy, UNCHANGED <<dev, disk, copy, faults>>
  PROVE  (faults' = 0 => BeforeFault') /\ (faults' =< 1 => BeforeSecond')
<1>0. /\ \A q : (Done(q)' <=> Done(q)) /\ (NeedsCopy(q)' <=> NeedsCopy(q))
      /\ \A p : Orig(p)' <=> Orig(p)
  BY SameDev
<1>1. ASSUME faults' = 0 PROVE BeforeFault'
  <2>1. BeforeFault
    BY <1>1 DEF RecoverInv
  <2> QED BY <1>0, <2>1 DEF BeforeFault, Busy
<1>2. ASSUME faults' =< 1 PROVE BeforeSecond'
  <2>1. BeforeSecond
    BY <1>2 DEF RecoverInv
  <2>2. InOrder' /\ CopyKept'
    BY <1>0, <2>1 DEF BeforeSecond, InOrder, CopyKept, CopyIs, Busy
  <2> QED BY <2>2 DEF BeforeSecond, Written, Busy
<1> QED BY <1>1, <1>2

\* A step that fails, but for the first time.
LEMMA FailsOnce ==
  ASSUME RecoverInv, UNCHANGED <<dev, copy>>, pc' = "exited", NEW f, Fault(f)
  PROVE  (faults' = 0 => BeforeFault') /\ (faults' =< 1 => BeforeSecond')
<1>0. /\ \A q : (Done(q)' <=> Done(q)) /\ (NeedsCopy(q)' <=> NeedsCopy(q))
      /\ \A p : Orig(p)' <=> Orig(p)
  BY SameDev
<1>1. faults \in Nat /\ faults' = faults + 1
  BY FaultType DEF RecoverInv, ScriptInv
<1>2. ASSUME faults' =< 1 PROVE BeforeSecond'
  <2>1. faults = 0 /\ faults =< 1
    BY <1>1, <1>2
  <2>2. BeforeFault /\ BeforeSecond /\ InOrder
    BY <2>1 DEF RecoverInv, BeforeSecond
  <2>3. ASSUME NEW i \in DOMAIN Patches, NeedsCopy(Patches[i]) PROVE CopyIs(Patches[i].from)
    BY <2>2, <2>3, NeedsWritten DEF BeforeFault, NeedsCopy, P
  <2>4. InOrder' /\ CopyKept'
    BY <1>0, <2>2, <2>3 DEF InOrder, CopyKept, CopyIs
  <2> QED BY <2>4 DEF BeforeSecond, Written, Busy
<1>3. faults' # 0
  BY <1>1
<1> QED BY <1>2, <1>3

\* applypatch begins with a patch that is not done, or cannot tell.
LEMMA BeginsRecover ==
  ASSUME RecoverInv, ApplyPatch \/ ApplyPatchFlash, pc' \in {"room", "write"},
         pc' = "write" => P.op = "flash" /\ start' = 1 /\ attempt' = 1,
         UNCHANGED <<dev, disk, copy, copyDisk, k>>,
         (faults' = faults /\ ~Done(P)) \/ Fault("io")
  PROVE  (faults' = 0 => BeforeFault') /\ (faults' =< 1 => BeforeSecond')
<1>0. /\ \A q : (Done(q)' <=> Done(q)) /\ (NeedsCopy(q)' <=> NeedsCopy(q))
      /\ \A p : Orig(p)' <=> Orig(p)
  BY SameDev
<1>1. pc = "apply" /\ TypeOK /\ faults \in Nat /\ P' = P /\ k \in DOMAIN Patches /\ k \in Nat
  <2>1. pc = "apply" /\ TypeOK /\ P' = P
    BY Zenon DEF ApplyPatch, ApplyPatchFlash, RecoverInv, ScriptInv, P
  <2>2. faults \in 0 .. MaxFaults
    BY <2>1, Zenon DEF TypeOK
  <2> QED BY <2>1, <2>2, AtHand, Numbers
<1>2. Fault("io") => faults' = faults + 1
  BY DEF Fault
<1>3. faults' =< 1 => faults =< 1
  BY <1>1, <1>2
<1>4. faults' = 0 => faults = 0 /\ ~Done(P)
  BY <1>1, <1>2
<1>5. ASSUME ~Done(P), InOrder, NEW j \in DOMAIN Patches, j > k PROVE Orig(Patches[j].tgt)
  <2>1. k \in 1 .. j - 1
    <3>1. j \in Nat /\ k >= 1
      BY PatchFacts, AtHand, <1>1
    <3> QED BY <1>1, <1>5, <3>1
  <2> QED BY <1>5, <2>1 DEF InOrder, P
<1>6. ASSUME faults' = 0 PROVE BeforeFault'
  <2>1. BeforeFault /\ InOrder /\ ~Done(P)
    BY <1>1, <1>4, <1>6 DEF RecoverInv, BeforeSecond
  <2>2. \A p \in Partitions : dev'[p] = disk'[p]
    BY <1>1, <2>1 DEF BeforeFault
  <2>3. \A j \in DOMAIN Patches : Orig(Patches[j].tgt)' \/ Done(Patches[j])'
    BY <1>0, <1>1, <2>1 DEF BeforeFault
  <2>4. \A j \in DOMAIN Patches : j > k' => Orig(Patches[j].tgt)'
    BY <1>0, <1>5, <2>1
  <2> QED BY <1>1, <2>2, <2>3, <2>4 DEF BeforeFault
<1>7. ASSUME faults' =< 1 PROVE BeforeSecond'
  <2>1. BeforeSecond
    BY <1>3, <1>7 DEF RecoverInv
  <2>2. Alone
    <3> SUFFICES ASSUME NEW i \in DOMAIN Patches, i # k, NeedsCopy(Patches[i]) PROVE FALSE
      BY DEF Alone
    <3>1. CASE ~Done(P)
      <4>1. i < k \/ k < i
        <5>1. i \in Nat
          BY PatchFacts
        <5> QED BY <1>1, <5>1
      <4>2. CASE k < i
        BY <1>1, <2>1, <3>1, <4>2, NeedsLast DEF BeforeSecond, P
      <4>3. CASE i < k
        <5>1. i \in 1 .. k - 1
          <6>1. i \in Nat /\ i >= 1
            BY PatchFacts
          <6> QED BY <1>1, <4>3, <6>1
        <5> QED BY <1>1, <5>1 DEF RecoverInv, ScriptInv, DoneSoFar, NeedsCopy
      <4> QED BY <4>1, <4>2, <4>3
    <3>2. CASE Fault("io")
      <4>1. faults = 0
        BY <1>1, <1>2, <1>7, <3>2
      <4>2. BeforeFault
        BY <4>1, Zenon DEF RecoverInv
      <4> QED BY <1>1, <2>1, <4>2, NeedsWritten DEF BeforeSecond
    <3> QED BY <3>1, <3>2
  <2>3. InOrder' /\ CopyKept'
    BY <1>0, <1>1, <2>1 DEF BeforeSecond, InOrder, CopyKept, CopyIs
  <2>4. Alone'
    BY <1>0, <2>2 DEF Alone
  <2>5. Written'
    <3>1. pc' = "write" => start' = 1
      OBVIOUS
    <3> QED BY <3>1, NoneBefore DEF Written
  <2> QED BY <2>3, <2>4, <2>5 DEF BeforeSecond
<1> QED BY <1>6, <1>7

LEMMA ApplyRecover ==
  ASSUME RecoverInv, ApplyPatch \/ ApplyPatchFlash
  PROVE  (faults' = 0 => BeforeFault') /\ (faults' =< 1 => BeforeSecond')
<1>1. pc = "apply" /\ UNCHANGED <<dev, disk, copy, copyDisk>>
  BY Zenon DEF ApplyPatch, ApplyPatchFlash, partitions, cache
<1>2. CASE pc' \notin Busy /\ faults' = faults
  BY <1>1, <1>2, IdleRecover DEF Busy
<1>3. CASE pc' = "exited" /\ Fault("io")
  BY <1>1, <1>3, FailsOnce
<1>4. CASE pc' = "room"
  <2>1. k' = k /\ ((faults' = faults /\ ~Done(P)) \/ Fault("io"))
    BY <1>4 DEF ApplyPatch, ApplyPatchFlash, NextPatch, Return
  <2> QED BY <1>1, <1>4, <2>1, BeginsRecover
<1>5. CASE pc' = "write"
  <2>1. /\ k' = k /\ ((faults' = faults /\ ~Done(P)) \/ Fault("io"))
        /\ P.op = "flash" /\ start' = 1 /\ attempt' = 1
    BY <1>5 DEF ApplyPatch, ApplyPatchFlash, NextPatch, Return
  <2> QED BY <1>1, <1>5, <2>1, BeginsRecover
<1>6. \/ pc' \in {"apply", "exited"} /\ faults' = faults
      \/ pc' = "exited" /\ Fault("io")
      \/ pc' = "room" \/ pc' = "write"
  BY Zenon DEF ApplyPatch, ApplyPatchFlash, NextPatch, Return
<1> QED BY <1>2, <1>3, <1>4, <1>5, <1>6 DEF Busy

LEMMA StartRecover ==
  ASSUME RecoverInv, StartUpdater \/ ApplyPatchCheck \/ ApplyPatchSpace \/ Kill
  PROVE  (faults' = 0 => BeforeFault') /\ (faults' =< 1 => BeforeSecond')
<1>1. UNCHANGED <<dev, disk, copy>>
  BY Zenon DEF StartUpdater, ApplyPatchCheck, ApplyPatchSpace, MakeRoom, MakeFreeSpaceOnCache, Kill, partitions, cache
<1>2. \/ pc \notin Busy /\ pc' \notin Busy /\ faults' = faults
      \/ pc' = "exited" /\ \E f \in {"io", "kill"} : Fault(f)
  BY Zenon DEF StartUpdater, ApplyPatchCheck, ApplyPatchSpace, MakeRoom, Kill, Return, Busy
<1> QED BY <1>1, <1>2, IdleRecover, FailsOnce

\* The copy is made, while no other patch needs the one that was there.
LEMMA SaveRecover ==
  ASSUME RecoverInv, GenerateTargetRoom \/ SaveOpens \/ SaveWrites \/ GenerateTarget
  PROVE  (faults' = 0 => BeforeFault') /\ (faults' =< 1 => BeforeSecond')
<1>0. UNCHANGED <<dev, disk, k>>
  BY Zenon DEF GenerateTargetRoom, SaveOpens, SaveWrites, GenerateTarget, partitions, locals
<1>a. /\ \A q : (Done(q)' <=> Done(q)) /\ (NeedsCopy(q)' <=> NeedsCopy(q))
      /\ \A p : Orig(p)' <=> Orig(p)
  BY <1>0, SameDev
<1>b. P' = P
  BY <1>0 DEF P
<1>1. CASE pc' = "exited" /\ copy' = copy /\ \E f \in {"io", "patch"} : Fault(f)
  BY <1>0, <1>1, FailsOnce
<1>2. CASE pc = "room" /\ pc' = "exited" /\ copy' = copy /\ faults' = faults
  <2>1. ASSUME faults' = 0 PROVE BeforeFault'
    <3>1. BeforeFault
      BY <1>2, <2>1 DEF RecoverInv
    <3> QED BY <1>0, <1>a, <1>2, <3>1 DEF BeforeFault, Busy
  <2>2. ASSUME faults' =< 1 PROVE BeforeSecond'
    <3>1. BeforeSecond
      BY <1>2, <2>2 DEF RecoverInv
    <3>2. InOrder' /\ CopyKept'
      BY <1>0, <1>a, <1>2, <3>1, Zenon DEF BeforeSecond, InOrder, CopyKept, CopyIs
    <3> QED BY <1>2, <3>2 DEF BeforeSecond, Written, Busy
  <2> QED BY <2>1, <2>2, Zenon
<1>3. CASE /\ pc \in {"room", "open", "save", "patch"} /\ faults' = faults
           /\ \/ pc' = "open" /\ pc = "room" /\ copy' = copy
              \/ pc' = "save"
              \/ pc' = "patch" /\ pc = "save" /\ copy' = Saved(P.from, Chunks) /\ copyDisk' = copy'
              \/ pc' = "write" /\ pc = "patch" /\ UNCHANGED <<copy, copyDisk>> /\ start' = 1 /\ attempt' = 1
  <2>1. ASSUME faults' = 0 PROVE BeforeFault'
    <3>1. BeforeFault
      BY <1>3, <2>1 DEF RecoverInv
    <3>2. \A p \in Partitions : dev'[p] = disk'[p]
      BY <1>0, <1>3, <3>1, Zenon DEF BeforeFault
    <3>3. \A j \in DOMAIN Patches : Orig(Patches[j].tgt)' \/ Done(Patches[j])'
      BY <1>a, <1>3, <3>1, Zenon DEF BeforeFault
    <3>4. \A j \in DOMAIN Patches : j > k' => Orig(Patches[j].tgt)'
      BY <1>0, <1>a, <1>3, <3>1, Zenon DEF BeforeFault, Busy
    <3>5. pc' \in {"patch", "write", "sync", "verify"} /\ P'.op = "patch" =>
            copy' = Saved(P'.from, Chunks) /\ copyDisk' = copy'
      BY <1>b, <1>3, <3>1 DEF BeforeFault, CopyIs
    <3>6. pc' # "verify" /\ pc' # "sync" /\ (pc' = "write" => attempt' = 1)
      BY <1>3
    <3> QED BY <3>2, <3>3, <3>4, <3>5, <3>6 DEF BeforeFault, CopyIs
  <2>2. ASSUME faults' =< 1 PROVE BeforeSecond'
    <3>1. BeforeSecond /\ Alone
      BY <1>3, <2>2 DEF RecoverInv, BeforeSecond, Busy
    <3>2. InOrder' /\ Alone'
      BY <1>0, <1>a, <3>1 DEF BeforeSecond, InOrder, Alone
    <3>3. CopyKept'
      <4>1. CASE pc' = "open"
        BY <1>0, <1>a, <1>3, <3>1, <4>1 DEF BeforeSecond, CopyKept, CopyIs
      <4>2. CASE pc' # "open"
        BY <1>3, <3>2, <4>2 DEF CopyKept, Alone
      <4> QED BY <4>1, <4>2, Zenon
    <3>4. Written'
      BY <1>3, NoneBefore DEF Written
    <3> QED BY <3>2, <3>3, <3>4 DEF BeforeSecond
  <2> QED BY <2>1, <2>2
<1>4. CASE GenerateTargetRoom
  BY <1>1, <1>2, <1>3, <1>4, Zenon DEF GenerateTargetRoom, MakeRoom, MakeFreeSpaceOnCache, Return, cache
<1>5. CASE SaveOpens
  BY <1>1, <1>3, <1>5, Zenon DEF SaveOpens, Return
<1>6. CASE SaveWrites /\ pc' # "exited"
  <2>1. /\ pc = "save" /\ pc' \in {"patch", "save"} /\ copy' = [copy EXCEPT !.len = @ + 1] /\ copyDisk' = copy'
        /\ (pc' = "patch" => copy'.len = Chunks) /\ faults' = faults
    BY <1>6, Zenon DEF SaveWrites, Return
  <2>2. copy \in Copies /\ copy.of = P.from
    BY <2>1, Zenon DEF RecoverInv, ScriptInv, ControlInv, TypeOK
  <2>3. pc' = "patch" => copy' = Saved(P.from, Chunks)
    BY <2>1, <2>2 DEF Copies, NoCopy, Saved
  <2> QED BY <1>3, <2>1, <2>3
<1>7. CASE SaveWrites /\ pc' = "exited"
  BY <1>1, <1>7, Zenon DEF SaveWrites
<1>8. CASE GenerateTarget
  BY <1>1, <1>3, <1>8, Zenon DEF GenerateTarget, Return, cache
<1> QED BY <1>4, <1>5, <1>6, <1>7, <1>8

\* A step that changes no partition but the target of the patch at hand.
LEMMA OtherNeeds ==
  ASSUME ScriptInv, BeforeSecond, pc \in Busy, k' = k,
         \A p \in Partitions : p # P.tgt => dev'[p] = dev[p],
         (Done(P) => Done(P)') \/ \A j \in DOMAIN Patches : j > k => Orig(Patches[j].tgt)
  PROVE  InOrder' /\ Alone'
<1>1. /\ TypeOK /\ k \in DOMAIN Patches /\ k \in Nat /\ k >= 1 /\ P.tgt \in Partitions
      /\ \A i \in DOMAIN Patches : i \in Nat /\ i >= 1
      /\ InOrder /\ Alone
  BY AtHand, PatchFacts DEF ScriptInv, BeforeSecond
<1>2. \A i \in DOMAIN Patches : i # k => (Done(Patches[i])' <=> Done(Patches[i]))
  BY <1>1, OtherDone
<1>3. \A i \in DOMAIN Patches : i < k => Done(Patches[i]) /\ Done(Patches[i])'
  <2> SUFFICES ASSUME NEW i \in DOMAIN Patches, i < k PROVE Done(Patches[i]) /\ Done(Patches[i])'
    OBVIOUS
  <2>1. i \in 1 .. k - 1 /\ i # k
    BY <1>1
  <2> QED BY <1>2, <2>1 DEF ScriptInv, DoneSoFar
<1>4. \A p \in Partitions : p # P.tgt => (Orig(p)' <=> Orig(p))
  BY Zenon DEF Orig, Holds
<1>5. \A p \in Partitions : (\A j \in DOMAIN Patches : Patches[j].tgt # p) => Orig(p)'
  BY <1>1, <1>4 DEF InOrder, P
<1>6. ASSUME NEW j \in DOMAIN Patches, ~Orig(Patches[j].tgt)', NEW i \in 1 .. j - 1
      PROVE  Done(Patches[i])'
  <2>1. i \in DOMAIN Patches /\ i < j
    BY PatchFacts
  <2>2. CASE i < k
    BY <1>3, <2>1, <2>2
  <2>3. CASE ~(i < k)
    <3>1. j > k
      BY <1>1, <2>1, <2>3
    <3>2. j # k /\ Patches[j].tgt \in Partitions /\ Patches[j].tgt # P.tgt
      <4>1. j # k
        BY <1>1, <3>1
      <4> QED BY <1>1, <4>1, PatchFacts DEF P
    <3>3. ~Orig(Patches[j].tgt)
      BY <1>4, <1>6, <3>2
    <3>4. \A m \in 1 .. j - 1 : Done(Patches[m])
      BY <1>1, <3>3 DEF InOrder
    <3>5. k \in 1 .. j - 1
      BY <1>1, <3>1
    <3>6. Done(P)'
      BY <3>1, <3>3, <3>4, <3>5 DEF P
    <3>7. CASE i = k
      BY <3>6, <3>7 DEF P
    <3>8. CASE i # k
      BY <1>2, <2>1, <3>4, <3>8
    <3> QED BY <3>7, <3>8
  <2> QED BY <2>2, <2>3, Zenon
<1>7. ASSUME NEW i \in DOMAIN Patches, i # k PROVE ~NeedsCopy(Patches[i])'
  <2>1. ~NeedsCopy(Patches[i])
    BY <1>1, <1>7 DEF Alone
  <2>2. CASE Patches[i].op = "patch" /\ Patches[i].src = P.tgt
    <3>1. ~(k < i)
      BY <1>1, <2>2, PatchFacts DEF P
    <3>2. i < k
      BY <1>1, <1>7, <3>1
    <3> QED BY <1>3, <3>2, Zenon DEF NeedsCopy
  <2>3. CASE Patches[i].op = "patch" /\ Patches[i].src # P.tgt
    <3>1. Patches[i].src \in Partitions
      BY PatchFacts
    <3>2. dev'[Patches[i].src] = dev[Patches[i].src]
      BY <2>3, <3>1
    <3> QED BY <1>2, <1>7, <2>1, <3>2 DEF NeedsCopy, Holds
  <2>4. CASE Patches[i].op # "patch"
    BY <2>4 DEF NeedsCopy
  <2> QED BY <2>2, <2>3, <2>4
<1>8. InOrder'
  BY <1>5, <1>6 DEF InOrder
<1> QED BY <1>7, <1>8, Zenon DEF Alone

\* The write is cut short, but for the first time: the copy is whole.
LEMMA DamagedOnce ==
  ASSUME RecoverInv, NEW f, Fault(f), pc \in {"write", "sync"}, pc' = "exited", k' = k,
         \A p \in Partitions : p # P.tgt => dev'[p] = dev[p], copy' \in {copy, copyDisk}
  PROVE  (faults' = 0 => BeforeFault') /\ (faults' =< 1 => BeforeSecond')
<1>1. faults \in Nat /\ faults' = faults + 1
  BY FaultType DEF RecoverInv, ScriptInv
<1>2. faults' # 0
  BY <1>1
<1>3. ASSUME faults' =< 1 PROVE BeforeSecond'
  <2>1. faults = 0 /\ faults =< 1
    BY <1>1, <1>3
  <2>2. BeforeFault /\ BeforeSecond /\ ScriptInv
    BY <2>1, Zenon DEF RecoverInv
  <2>3. InOrder' /\ Alone'
    BY <2>2, OtherNeeds DEF BeforeFault, Busy
  <2>4. P.op = "patch" => CopyIs(P.from)'
    BY <2>2, Zenon DEF BeforeFault, CopyIs, P
  <2>5. CopyKept'
    BY <2>3, <2>4 DEF CopyKept, Alone, NeedsCopy, P
  <2> QED BY <2>3, <2>5 DEF BeforeSecond, Written, Busy
<1> QED BY <1>2, <1>3

LEMMA WriteRecover ==
  ASSUME RecoverInv, WriteChunk
  PROVE  (faults' = 0 => BeforeFault') /\ (faults' =< 1 => BeforeSecond')
<1>1. /\ pc = "write" /\ UNCHANGED <<disk, copy, copyDisk, k, attempt>> /\ ScriptInv /\ TypeOK
      /\ start \in 1 .. Chunks /\ P' = P
  BY Zenon DEF WriteChunk, cache, RecoverInv, ScriptInv, ControlInv, P
<1>2. \A p \in Partitions : p # P.tgt => dev'[p] = dev[p]
  BY <1>1, WriteScript
<1>3. CASE Fault("io") /\ Return("")
  <2>1. pc' = "exited" /\ copy' \in {copy, copyDisk}
    BY <1>1, <1>3, Zenon DEF Return
  <2> QED BY <1>1, <1>2, <1>3, <2>1, DamagedOnce, Zenon
<1>4. CASE /\ dev' = [dev EXCEPT ![P.tgt][start] = P.to] /\ start' = start + 1
           /\ pc' = (IF start = Chunks THEN "sync" ELSE "write") /\ UNCHANGED <<result, faults>>
  <2>0. pc' \in {"write", "sync"} /\ (pc' = "sync" => start = Chunks) /\ faults' = faults
    BY <1>4
  <2>1. P.to \in Images \cup {Junk} /\ k \in DOMAIN Patches /\ P.tgt \in Partitions
    BY <1>1, AtHand
  <2>2. \A m \in 1 .. Chunks : dev'[P.tgt][m] = IF m = start THEN P.to ELSE dev[P.tgt][m]
    BY <1>1, <1>4, <2>1, ChunkWritten, Zenon
  <2>3. Done(P) => Done(P)'
    BY <1>1, <2>2 DEF Done, Holds
  <2>4. ASSUME faults' = 0 PROVE BeforeFault'
    <3>1. BeforeFault
      BY <2>0, <2>4 DEF RecoverInv
    <3>2. \A p \in Partitions : dev'[p] = disk'[p] \/ p = P'.tgt
      BY <1>1, <1>2, <3>1 DEF BeforeFault
    <3>3. \A j \in DOMAIN Patches : j # k =>
            /\ Patches[j].tgt \in Partitions /\ Patches[j].tgt # P.tgt
            /\ dev'[Patches[j].tgt] = dev[Patches[j].tgt]
      BY <1>2, <2>1, PatchFacts DEF P
    <3>4. \A j \in DOMAIN Patches : j # k =>
            (Orig(Patches[j].tgt)' <=> Orig(Patches[j].tgt)) /\ (Done(Patches[j])' <=> Done(Patches[j]))
      BY <3>3, Zenon DEF Orig, Done, Holds
    <3>5. \A j \in DOMAIN Patches : Orig(Patches[j].tgt)' \/ Done(Patches[j])' \/ j = k'
      BY <1>1, <3>1, <3>4 DEF BeforeFault
    <3>6. \A j \in DOMAIN Patches : j > k' => Orig(Patches[j].tgt)'
      <4> SUFFICES ASSUME NEW j \in DOMAIN Patches, j > k PROVE Orig(Patches[j].tgt)'
        BY <1>1
      <4>1. j # k
        BY <2>1, PatchFacts
      <4>2. Orig(Patches[j].tgt)
        BY <1>1, <3>1 DEF BeforeFault, Busy
      <4> QED BY <3>4, <4>1, <4>2
    <3>7. (P'.op = "patch" => CopyIs(P.from)' /\ copyDisk' = copy') /\ attempt' = 1
      BY <1>1, <3>1 DEF BeforeFault, CopyIs
    <3> QED BY <2>0, <3>2, <3>5, <3>6, <3>7 DEF BeforeFault
  <2>5. ASSUME faults' =< 1 PROVE BeforeSecond'
    <3>1. BeforeSecond
      BY <2>0, <2>5 DEF RecoverInv
    <3>2. InOrder' /\ Alone'
      BY <1>1, <1>2, <2>3, <3>1, OtherNeeds DEF Busy
    <3>3. CopyKept'
      BY <2>0, <3>2 DEF CopyKept, Alone
    <3>4. \A c \in 1 .. start - 1 : dev[P.tgt][c] = P.to
      BY <1>1, <3>1 DEF BeforeSecond, Written
    <3>5. \A c \in 1 .. start : dev'[P.tgt][c] = P.to
      <4> SUFFICES ASSUME NEW c \in 1 .. start PROVE dev'[P.tgt][c] = P.to
        OBVIOUS
      <4>1. c \in 1 .. Chunks /\ (c = start \/ c \in 1 .. start - 1)
        BY <1>1, Numbers
      <4> QED BY <2>2, <3>4, <4>1
    <3>6. start' - 1 = start
      <4>1. start \in Nat
        BY <1>1, Numbers
      <4> QED BY <1>4, <4>1
    <3>7. pc' = "sync" => Done(P)'
      BY <1>1, <2>0, <3>5 DEF Done, Holds
    <3>8. Written'
      BY <1>1, <2>0, <3>5, <3>6, <3>7 DEF Written
    <3> QED BY <3>2, <3>3, <3>8 DEF BeforeSecond
  <2> QED BY <2>4, <2>5
<1> QED BY <1>3, <1>4, Zenon DEF WriteChunk

LEMMA SyncRecover ==
  ASSUME RecoverInv, SyncPartition
  PROVE  (faults' = 0 => BeforeFault') /\ (faults' =< 1 => BeforeSecond')
<1>1. /\ pc = "sync" /\ UNCHANGED <<copy, copyDisk, k, attempt>> /\ ScriptInv /\ P' = P
  BY Zenon DEF SyncPartition, cache, locals, RecoverInv, P
<1>2. \A p \in Partitions : p # P.tgt => dev'[p] = dev[p]
  BY <1>1, SyncScript
<1>3. CASE Fault("io") /\ Return("") /\ UNCHANGED partitions
  BY <1>1, <1>3, FailsOnce, Zenon DEF Return, partitions
<1>4. CASE disk' = dev /\ dev' = dev /\ pc' = "verify" /\ UNCHANGED <<result, faults>>
  <2>0. /\ \A q : (Done(q)' <=> Done(q)) /\ (NeedsCopy(q)' <=> NeedsCopy(q))
        /\ \A p : Orig(p)' <=> Orig(p)
    BY <1>4, SameDev
  <2>1. ASSUME faults' =< 1 PROVE BeforeSecond /\ Done(P)
    BY <1>1, <1>4, <2>1 DEF RecoverInv, BeforeSecond, Written
  <2>2. ASSUME faults' = 0 PROVE BeforeFault'
    <3>1. BeforeFault /\ Done(P)
      <4>1. faults' =< 1
        BY <2>2
      <4> QED BY <1>4, <2>1, <2>2, <4>1 DEF RecoverInv
    <3>2. \A j \in DOMAIN Patches : Orig(Patches[j].tgt)' \/ Done(Patches[j])'
      BY <2>0, <3>1, Zenon DEF BeforeFault, P
    <3>3. \A j \in DOMAIN Patches : j > k' => Orig(Patches[j].tgt)'
      BY <1>1, <2>0, <3>1, Zenon DEF BeforeFault, Busy
    <3>4. (P'.op = "patch" => CopyIs(P.from)' /\ copyDisk' = copy') /\ attempt' = 1
      BY <1>1, <3>1, Zenon DEF BeforeFault, CopyIs
    <3>5. Done(P)'
      BY <1>1, <1>4, <3>1 DEF Done, Holds
    <3> QED BY <1>4, <3>2, <3>3, <3>4, <3>5 DEF BeforeFault
  <2>3. ASSUME faults' =< 1 PROVE BeforeSecond'
    <3>1. InOrder' /\ Alone'
      BY <1>1, <2>0, <2>1, <2>3 DEF BeforeSecond, InOrder, Alone, Busy
    <3>2. CopyKept'
      BY <1>4, <3>1 DEF CopyKept, Alone
    <3>3. Done(P)'
      BY <1>1, <1>4, <2>1, <2>3 DEF Done, Holds
    <3> QED BY <1>4, <3>1, <3>2, <3>3 DEF BeforeSecond, Written
  <2> QED BY <2>2, <2>3
<1>5. CASE Fault("flash") /\ pc' = "verify"
  <2>1. faults \in Nat /\ faults' = faults + 1
    BY <1>1, <1>5, FaultType DEF ScriptInv
  <2>2. faults' # 0
    BY <2>1
  <2>3. ASSUME faults' =< 1 PROVE BeforeSecond'
    <3>1. faults = 0 /\ faults =< 1
      BY <2>1, <2>3
    <3>2. BeforeFault /\ BeforeSecond
      BY <3>1 DEF RecoverInv
    <3>3. InOrder' /\ Alone'
      BY <1>1, <1>2, <3>2, OtherNeeds DEF BeforeFault, Busy
    <3>4. CopyKept'
      BY <1>5, <3>3, Zenon DEF CopyKept, Alone
    <3>5. attempt' = 1
      BY <1>1, <3>2 DEF BeforeFault
    <3> QED BY <1>5, <3>3, <3>4, <3>5 DEF BeforeSecond, Written
  <2> QED BY <2>2, <2>3
<1> QED BY <1>3, <1>4, <1>5, Zenon DEF SyncPartition

LEMMA VerifyRecover ==
  ASSUME RecoverInv, Verify
  PROVE  (faults' = 0 => BeforeFault') /\ (faults' =< 1 => BeforeSecond')
<1>1. /\ pc = "verify" /\ UNCHANGED <<dev, disk, copy, copyDisk, k>> /\ P' = P /\ attempt \in {1, 2}
  BY Zenon DEF Verify, partitions, cache, P, RecoverInv, ScriptInv, ControlInv
<1>2. /\ \A q : (Done(q)' <=> Done(q)) /\ (NeedsCopy(q)' <=> NeedsCopy(q))
      /\ \A p : Orig(p)' <=> Orig(p)
  BY <1>1, SameDev
<1>3. Done(P) <=> Wrong = {}
  BY DEF Wrong, Done, Holds
<1>4. CASE Fault("io") /\ Return("")
  BY <1>1, <1>4, FailsOnce, Zenon DEF Return
<1>5. CASE Wrong = {} /\ pc' = "unlink" /\ faults' = faults
  <2>1. ASSUME faults' = 0 PROVE BeforeFault'
    <3>1. BeforeFault
      BY <1>5, <2>1, Zenon DEF RecoverInv
    <3> QED BY <1>1, <1>2, <1>5, <3>1, Zenon DEF BeforeFault, Busy
  <2>2. ASSUME faults' =< 1 PROVE BeforeSecond'
    <3>1. BeforeSecond
      BY <1>5, <2>2 DEF RecoverInv
    <3>2. InOrder' /\ Alone'
      BY <1>1, <1>2, <3>1 DEF BeforeSecond, InOrder, Alone, Busy
    <3>3. ~NeedsCopy(P)'
      BY <1>1, <1>2, <1>3, <1>5 DEF NeedsCopy
    <3>4. CopyKept'
      BY <3>2, <3>3, Zenon DEF CopyKept, Alone, P
    <3> QED BY <1>5, <3>2, <3>4 DEF BeforeSecond, Written
  <2> QED BY <2>1, <2>2
<1>6. CASE /\ Wrong # {} /\ start' = Min(Wrong) /\ faults' = faults
           /\ attempt = 1 => pc' = "write"
  <2>1. faults' # 0
    BY <1>1, <1>3, <1>6 DEF RecoverInv, BeforeFault
  <2>2. ASSUME faults' =< 1 PROVE BeforeSecond'
    <3>1. BeforeSecond
      BY <1>6, <2>2 DEF RecoverInv
    <3>2. InOrder' /\ Alone'
      BY <1>1, <1>2, <3>1 DEF BeforeSecond, InOrder, Alone, Busy
    <3>3. pc' = "write"
      BY <1>1, <1>3, <1>6, <3>1 DEF BeforeSecond, Written
    <3>4. CopyKept'
      BY <3>2, <3>3 DEF CopyKept, Alone
    <3>5. \A c \in 1 .. Min(Wrong) - 1 : dev[P.tgt][c] = P.to
      BY <1>6, MinWrong, Zenon
    <3>6. \A c \in 1 .. start' - 1 : dev'[P'.tgt][c] = P'.to
      BY <1>1, <1>6, <3>5, Zenon
    <3> QED BY <3>2, <3>3, <3>4, <3>6 DEF BeforeSecond, Written
  <2> QED BY <2>1, <2>2
<1> QED BY <1>4, <1>5, <1>6, Zenon DEF Verify

LEMMA UnlinkRecover ==
  ASSUME RecoverInv, UnlinkCopy
  PROVE  (faults' = 0 => BeforeFault') /\ (faults' =< 1 => BeforeSecond')
<1>1. /\ pc = "unlink" /\ UNCHANGED <<dev, disk>> /\ pc' \in {"apply", "exited"} /\ Done(P)
  BY DEF UnlinkCopy, partitions, NextPatch, Return, RecoverInv, ScriptInv, DoneSoFar
<1>2. /\ \A q : (Done(q)' <=> Done(q)) /\ (NeedsCopy(q)' <=> NeedsCopy(q))
      /\ \A p : Orig(p)' <=> Orig(p)
  BY <1>1, SameDev
<1>3. faults \in Nat /\ (faults' = faults \/ faults' = faults + 1)
  <2>1. faults' = faults \/ Fault("io")
    BY DEF UnlinkCopy
  <2>2. TypeOK /\ faults \in 0 .. MaxFaults
    BY Zenon DEF RecoverInv, ScriptInv, TypeOK
  <2> QED BY <2>1, <2>2, FaultType, Numbers
<1>4. ASSUME faults' = 0 PROVE BeforeFault'
  <2>1. faults = 0
    BY <1>3, <1>4
  <2>2. BeforeFault
    BY <2>1, Zenon DEF RecoverInv
  <2> QED BY <1>1, <1>2, <2>2, Zenon DEF BeforeFault, Busy
<1>5. ASSUME faults' =< 1 PROVE BeforeSecond'
  <2>1. faults =< 1
    BY <1>3, <1>5
  <2>2. InOrder /\ Alone
    BY <1>1, <2>1 DEF RecoverInv, BeforeSecond, Busy
  <2>3. \A i \in DOMAIN Patches : ~NeedsCopy(Patches[i])
    BY <1>1, <2>2 DEF Alone, NeedsCopy, P
  <2>4. InOrder' /\ CopyKept'
    BY <1>2, <2>2, <2>3, Zenon DEF InOrder, CopyKept
  <2> QED BY <1>1, <2>4 DEF BeforeSecond, Written, Busy
<1> QED BY <1>4, <1>5

LEMMA PowerRecover ==
  ASSUME RecoverInv, PowerLoss
  PROVE  (faults' = 0 => BeforeFault') /\ (faults' =< 1 => BeforeSecond')
<1>1. /\ pc' = "exited" /\ k' = k /\ copy' \in {copy, copyDisk} /\ TypeOK /\ Fault("power")
  BY Zenon DEF PowerLoss, Return, locals, RecoverInv, ScriptInv
<1>2. faults \in Nat /\ faults' = faults + 1
  BY <1>1, FaultType
<1>3. dev' \in Contents /\ \A p \in Partitions : dev[p] = disk[p] => dev'[p] = dev[p]
  BY <1>1, PowerPartition
<1>4. faults' # 0
  BY <1>2
<1>5. ASSUME faults' =< 1 PROVE BeforeSecond'
  <2>1. faults = 0 /\ faults =< 1
    BY <1>2, <1>5
  <2>2. BeforeFault /\ BeforeSecond
    BY <2>1 DEF RecoverInv
  <2>3. CASE pc \in {"write", "sync"}
    <3>1. \A p \in Partitions : p # P.tgt => dev'[p] = dev[p]
      BY <1>3, <2>2 DEF BeforeFault
    <3> QED BY <1>1, <1>5, <2>3, <3>1, DamagedOnce, Zenon
  <2>4. CASE pc \notin {"write", "sync"}
    <3>1. \A p \in Partitions : dev'[p] = dev[p]
      BY <1>3, <2>2, <2>4 DEF BeforeFault
    <3>2. dev' = dev
      <4>1. dev \in Contents
        BY <1>1, Zenon DEF TypeOK, Contents
      <4>2. dev' = [p \in Partitions |-> dev'[p]] /\ dev = [p \in Partitions |-> dev[p]]
        BY <1>3, <4>1, Zenon DEF Contents
      <4> QED BY <3>1, <4>2, Zenon
    <3>3. /\ \A q : (Done(q)' <=> Done(q)) /\ (NeedsCopy(q)' <=> NeedsCopy(q))
          /\ \A p : Orig(p)' <=> Orig(p)
      BY <3>2, SameDev
    <3>4. \A i \in DOMAIN Patches : ~NeedsCopy(Patches[i])
      BY <2>2, <2>4, NeedsWritten DEF BeforeSecond
    <3>5. InOrder' /\ CopyKept'
      BY <2>2, <3>3, <3>4 DEF BeforeSecond, InOrder, CopyKept
    <3> QED BY <1>1, <3>5, Zenon DEF BeforeSecond, Written, Busy
  <2> QED BY <2>3, <2>4, Zenon
<1> QED BY <1>4, <1>5

LEMMA InitRecover == Init => RecoverInv
<1> SUFFICES ASSUME Init PROVE RecoverInv
  OBVIOUS
<1>1. ScriptInv
  BY InitScript
<1>2. \A p \in Partitions : Orig(p) /\ dev[p] = disk[p]
  BY DEF Init, Orig, Holds
<1>3. pc = "exited"
  BY Zenon DEF Init
<1>4. \A i \in DOMAIN Patches : Orig(Patches[i].tgt) /\ Orig(Patches[i].src) /\ ~NeedsCopy(Patches[i])
  BY <1>2, PatchFacts, Zenon DEF NeedsCopy, Orig
<1>5. BeforeFault
  BY <1>2, <1>3, <1>4, Zenon DEF BeforeFault, Busy
<1>6. BeforeSecond
  BY <1>2, <1>3, <1>4 DEF BeforeSecond, InOrder, CopyKept, Written, Busy
<1> QED BY <1>1, <1>5, <1>6 DEF RecoverInv

LEMMA NextRecover == RecoverInv /\ [Next]_vars => RecoverInv'
<1> SUFFICES ASSUME RecoverInv, [Next]_vars PROVE RecoverInv'
  OBVIOUS
<1>1. ScriptInv'
  BY NextScripts DEF RecoverInv
<1>2. CASE UNCHANGED vars
  <2>1. UNCHANGED <<dev, disk, copy, copyDisk, pc, k, start, attempt, faults>>
    BY <1>2, Zenon DEF vars, partitions, cache, locals
  <2>2. BeforeFault' <=> BeforeFault
    BY <2>1, Zenon DEF BeforeFault, Orig, Done, Holds, CopyIs, P
  <2>3. BeforeSecond' <=> BeforeSecond
    BY <2>1, Zenon DEF BeforeSecond, InOrder, CopyKept, Alone, Written, NeedsCopy, Orig, Done, Holds, CopyIs, P
  <2> QED BY <1>1, <2>1, <2>2, <2>3 DEF RecoverInv
<1>3. CASE Next
  <2>1. (faults' = 0 => BeforeFault') /\ (faults' =< 1 => BeforeSecond')
    BY <1>3, StartRecover, ApplyRecover, SaveRecover, WriteRecover, SyncRecover, VerifyRecover, UnlinkRecover,
       PowerRecover DEF Next, Updater
  <2> QED BY <1>1, <2>1 DEF RecoverInv
<1> QED BY <1>2, <1>3

\* One copy is enough for all the partitions, as long as one thing goes wrong: when the
\* updater has stopped after at most one fault, each patch is done, or its source is in
\* its partition or in the copy.
THEOREM OneCopySuffices == Spec => [](faults =< 1 => Recoverable)
<1>1. RecoverInv => (faults =< 1 => Recoverable)
  <2> SUFFICES ASSUME RecoverInv, faults =< 1, pc = "exited", NEW i \in DOMAIN Patches
               PROVE  Done(Patches[i]) \/ Source(Patches[i])
    BY DEF Recoverable
  <2>1. NeedsCopy(Patches[i]) => CopyIs(Patches[i].from)
    BY Zenon DEF RecoverInv, BeforeSecond, CopyKept
  <2>2. Patches[i].op = "patch" \/ Patches[i].op = "flash"
    BY PatchFacts
  <2> QED BY <2>1, <2>2 DEF Source, NeedsCopy
<1> QED BY <1>1, InitRecover, NextRecover, PTL DEF Spec

-----------------------------------------------------------------------------
(* NewData *)

Alive == main # "returned"

\* The commands before the one at hand have all their units, the later ones none.
ImageInv ==
  /\ list \in Seq(Nat) /\ cmd \in Nat \ {0} /\ delivered \in Nat
  /\ image \in [1 .. Len(list) -> Seq(Nat)]
  /\ \A c \in 1 .. Len(list) : c < cmd => Len(image[c]) = list[c]
  /\ \A c \in 1 .. Len(list) : c > cmd => image[c] = <<>>
  /\ main \in {"start", "header", "commands"} => \A c \in 1 .. Len(list) : c = cmd => image[c] = <<>>

\* There is a writer only while the main thread is in PerformCommandNew, and its room is
\* what the command still misses; only a receiver that has come to the end of the
\* section, or of itself, leaves it without room.
WriterInv ==
  /\ Alive /\ main # "new" => writer = NoWriter
  /\ main = "new" =>
       /\ cmd \in 1 .. Len(list) /\ Len(image[cmd]) <= list[cmd]
       /\ writer = NoWriter \/ writer = {list[cmd] - Len(image[cmd])}
       /\ writer = NoWriter => Len(image[cmd]) = list[cmd]
  /\ Alive /\ unzip \in {"write", "written"} => writer # NoWriter
  /\ Alive /\ unzip = "written" => writer = {0}
  /\ Alive /\ unzip \in {"none", "next", "receive", "write"} => writer # {0}

\* Who sleeps, and what success takes.
SleepInv ==
  /\ NoLostWakeup
  /\ Alive => return_value = "none"
  /\ return_value = "t" /\ list # <<>> => unzip = "exited" /\ cmd > Len(list)

HandshakeInv == ImageInv /\ WriterInv /\ SleepInv

-----------------------------------------------------------------------------
(* The image *)

LEMMA ImageStays ==
  ASSUME ImageInv, UNCHANGED <<list, cmd, delivered, image>>,
         main' \in {"start", "header", "commands"} => main \in {"start", "header", "commands"}
  PROVE  ImageInv'
BY DEF ImageInv

\* A command that is about to run has an empty section...
LEMMA AtCommand ==
  ASSUME ImageInv, main = "commands", cmd <= Len(list)
  PROVE  /\ list \in Seq(Nat) /\ cmd \in 1 .. Len(list) /\ list[cmd] \in Nat
         /\ image[cmd] = <<>> /\ Len(image[cmd]) = 0
<1>1. list \in Seq(Nat) /\ cmd \in Nat \ {0} /\ Len(list) \in Nat
  BY DEF ImageInv
<1>2. cmd \in 1 .. Len(list)
  BY <1>1
<1>3. list[cmd] \in Nat
  BY <1>1, <1>2
<1>4. image[cmd] = <<>>
  BY <1>2 DEF ImageInv
<1>5. Len(image[cmd]) = 0
  BY <1>4
<1> QED BY <1>1, <1>2, <1>3, <1>4, <1>5

\* ...and one that is done a full one.
LEMMA NextCommand ==
  ASSUME ImageInv, cmd \in 1 .. Len(list), Len(image[cmd]) = list[cmd],
         cmd' = cmd + 1, UNCHANGED <<list, delivered, image>>
  PROVE  ImageInv'
<1>1. cmd \in Nat \ {0} /\ cmd' \in Nat \ {0}
  BY DEF ImageInv
<1>2. \A c \in 1 .. Len(list) : /\ c < cmd' => c < cmd \/ c = cmd
                                /\ c = cmd' \/ c > cmd' => c > cmd
  BY <1>1
<1>3. \A c \in 1 .. Len(list) : c < cmd' => Len(image[c]) = list[c]
  BY <1>2 DEF ImageInv
<1>4. \A c \in 1 .. Len(list) : c = cmd' \/ c > cmd' => image[c] = <<>>
  BY <1>2 DEF ImageInv
<1> QED BY <1>1, <1>3, <1>4 DEF ImageInv

\* The receiver appends to the section at hand.
LEMMA Appends ==
  ASSUME HandshakeInv, main = "new", NEW left \in writer, NEW n \in 0 .. left,
         image' = [image EXCEPT ![cmd] = @ \o [i \in 1 .. n |-> delivered + i]],
         delivered' = delivered \/ delivered' = delivered + n,
         UNCHANGED <<list, cmd, main>>
  PROVE  /\ ImageInv' /\ left \in Nat /\ cmd \in 1 .. Len(list)
         /\ left = list[cmd] - Len(image[cmd])
         /\ Len(image'[cmd]) = Len(image[cmd]) + n /\ Len(image[cmd]) \in Nat
<1>1. /\ list \in Seq(Nat) /\ cmd \in 1 .. Len(list) /\ delivered \in Nat
      /\ image \in [1 .. Len(list) -> Seq(Nat)]
  BY DEF HandshakeInv, ImageInv, WriterInv
<1>2. left = list[cmd] - Len(image[cmd]) /\ Len(image[cmd]) <= list[cmd]
  BY DEF HandshakeInv, WriterInv, NoWriter
<1>3. list[cmd] \in Nat /\ Len(image[cmd]) \in Nat /\ image[cmd] \in Seq(Nat)
  BY <1>1
<1>4. left \in Nat /\ n \in Nat
  BY <1>2, <1>3
<1> DEFINE more == [i \in 1 .. n |-> delivered + i]
<1>5. more \in Seq(Nat) /\ Len(more) = n
  BY <1>1, <1>4
<1> HIDE DEF more
<1>6. image[cmd] \o more \in Seq(Nat) /\ Len(image[cmd] \o more) = Len(image[cmd]) + n
  <2> SUFFICES ASSUME NEW a, a = image[cmd], a \in Seq(Nat), NEW b, b = more, b \in Seq(Nat)
               PROVE  a \o b \in Seq(Nat) /\ Len(a \o b) = Len(a) + Len(b)
    BY <1>3, <1>5, Zenon
  <2> QED BY ONLY a \in Seq(Nat), b \in Seq(Nat), SMT
<1>7. /\ image' = [image EXCEPT ![cmd] = image[cmd] \o more]
      /\ image' \in [1 .. Len(list) -> Seq(Nat)]
      /\ image'[cmd] = image[cmd] \o more
      /\ \A c \in 1 .. Len(list) : c # cmd => image'[c] = image[c]
  BY <1>1, <1>6 DEF more
<1>8. delivered' \in Nat
  BY <1>1, <1>4
<1>9. ImageInv'
  <2>1. \A c \in 1 .. Len(list) : c < cmd \/ c > cmd => c # cmd
    BY <1>1
  <2>2. main' \notin {"start", "header", "commands"}
    OBVIOUS
  <2> QED BY <1>1, <1>7, <1>8, <2>1, <2>2, Zenon DEF HandshakeInv, ImageInv
<1> QED BY <1>1, <1>2, <1>3, <1>4, <1>6, <1>7, <1>9, Zenon

-----------------------------------------------------------------------------
(* The steps *)

LEMMA InitHandshake == NewDataInit => HandshakeInv
<1> SUFFICES ASSUME NewDataInit PROVE HandshakeInv
  OBVIOUS
<1>1. list \in Seq(Nat) /\ Len(list) \in Nat
  BY NewDataAssumption DEF NewDataInit, NewDataAssumption
<1>2. ImageInv
  BY <1>1 DEF NewDataInit, ImageInv
<1>3. WriterInv
  BY DEF NewDataInit, WriterInv, Alive, NoWriter
<1>4. SleepInv
  BY DEF NewDataInit, SleepInv, NoLostWakeup, Alive
<1> QED BY <1>2, <1>3, <1>4 DEF HandshakeInv

LEMMA MainKeeps ==
  ASSUME HandshakeInv, MainStep
  PROVE  HandshakeInv'
<1> USE DEF NoWriter, Alive
<1>0. ImageInv /\ WriterInv /\ SleepInv
  BY DEF HandshakeInv
<1>1. CASE CreateThread \/ ReadHeader
  <2>1. /\ main \in {"start", "header"} /\ main' \in {"header", "commands", "returned"}
        /\ UNCHANGED <<list, cmd, image, delivered, writer, waiting>>
        /\ unzip' \in {unzip, "next"}
        /\ return_value' = "t" => list = <<>>
        /\ main' # "returned" => UNCHANGED return_value
    BY <1>0, <1>1, Zenon DEF CreateThread, ReadHeader, ReturnWith, dataVars, nti, SleepInv
  <2>5. receiver_available' = TRUE \/ receiver_available' = receiver_available
    BY <1>1, Zenon DEF CreateThread, ReadHeader, nti
  <2>2. ImageInv'
    BY <1>0, <2>1, ImageStays
  <2>3. WriterInv'
    BY <1>0, <2>1 DEF WriterInv
  <2>4. SleepInv'
    BY <1>0, <2>1, <2>5 DEF SleepInv, NoLostWakeup
  <2> QED BY <2>2, <2>3, <2>4 DEF HandshakeInv
<1>2. CASE OtherCommand
  <2>1. /\ main = "commands" /\ cmd <= Len(list) /\ list[cmd] = 0
        /\ \/ cmd' = cmd + 1 /\ main' = main /\ return_value' = return_value
           \/ main' = "returned" /\ return_value' = "" /\ cmd' = cmd
        /\ UNCHANGED <<list, image, delivered, unzip, writer, waiting, receiver_available>>
    BY <1>2, Zenon DEF OtherCommand, ReturnWith, dataVars, nti
  <2>2. ImageInv'
    <3>1. cmd \in 1 .. Len(list) /\ Len(image[cmd]) = list[cmd]
      BY <1>0, <2>1, AtCommand, Zenon
    <3> QED BY <1>0, <2>1, <3>1, NextCommand, ImageStays, Zenon
  <2>3. WriterInv'
    BY <1>0, <2>1, Zenon DEF WriterInv
  <2>4. SleepInv'
    BY <1>0, <2>1, Zenon DEF SleepInv, NoLostWakeup
  <2> QED BY <2>2, <2>3, <2>4 DEF HandshakeInv
<1>3. CASE PerformCommandNew
  <2>1. /\ main = "commands" /\ cmd <= Len(list) /\ list[cmd] > 0 /\ writer' = {list[cmd]}
        /\ \/ receiver_available /\ main' = "new" /\ waiting' = {"main"} /\ return_value' = return_value
           \/ main' = "returned" /\ return_value' = "" /\ waiting' = {}
        /\ UNCHANGED <<list, cmd, image, delivered, unzip, receiver_available>>
    BY <1>3, Zenon DEF PerformCommandNew, ReturnWith, dataVars
  <2>2. ImageInv'
    BY <1>0, <2>1, ImageStays, Zenon
  <2>3. /\ cmd \in 1 .. Len(list) /\ Len(image[cmd]) = 0 /\ list[cmd] \in Nat
    BY <1>0, <2>1, AtCommand, Zenon
  <2>4. /\ writer = {} /\ list[cmd] # 0
        /\ list[cmd] - Len(image[cmd]) = list[cmd] /\ Len(image[cmd]) <= list[cmd]
    <3>1. writer = {}
      BY <1>0, <2>1, Zenon DEF WriterInv
    <3>2. \A a \in Nat : a > 0 => a # 0 /\ a - 0 = a /\ 0 <= a
      OBVIOUS
    <3>3. list[cmd] # 0 /\ list[cmd] - 0 = list[cmd] /\ 0 <= list[cmd]
      BY <2>1, <2>3, <3>2, Zenon
    <3> QED BY <2>3, <3>1, <3>3
  <2>5. unzip \notin {"write", "written"}
    BY <1>0, <2>1, <2>4, Zenon DEF WriterInv
  <2>6. WriterInv'
    <3>1. CASE main' = "returned"
      BY <3>1 DEF WriterInv
    <3>2. CASE main' = "new"
      <4>1. writer' = {list[cmd] - Len(image[cmd])} /\ writer' # {} /\ writer' # {0}
        BY <2>1, <2>4, Zenon
      <4>2. UNCHANGED <<list, cmd, image, unzip>>
        BY <2>1, Zenon
      <4> QED BY ONLY <2>3, <2>4, <2>5, <3>2, <4>1, <4>2, Zenon DEF WriterInv, NoWriter, Alive
    <3> QED BY <2>1, <3>1, <3>2, Zenon
  <2>7. SleepInv'
    BY <1>0, <2>1, Zenon DEF SleepInv, NoLostWakeup
  <2> QED BY <2>2, <2>6, <2>7 DEF HandshakeInv
<1>4. CASE NewAwakes
  <2>1. /\ main = "new" /\ "main" \notin waiting
        /\ UNCHANGED <<list, image, delivered, unzip, writer, receiver_available>>
        /\ \/ writer = {} /\ main' = "commands" /\ cmd' = cmd + 1 /\ UNCHANGED <<return_value, waiting>>
           \/ main' = "returned" /\ return_value' = "" /\ UNCHANGED <<cmd, waiting>>
           \/ /\ writer # {} /\ receiver_available /\ waiting' = waiting \cup {"main"}
              /\ UNCHANGED <<main, cmd, return_value>>
    BY <1>4, Zenon DEF NewAwakes, ReturnWith, dataVars
  <2>2. CASE writer = {} /\ main' = "commands" /\ cmd' = cmd + 1 /\ UNCHANGED <<return_value, waiting>>
    <3>1. cmd \in 1 .. Len(list) /\ Len(image[cmd]) = list[cmd]
      BY <1>0, <2>1, <2>2 DEF WriterInv
    <3>6. ImageInv'
      BY <1>0, <2>1, <2>2, <3>1, NextCommand
    <3>7. WriterInv'
      BY <1>0, <2>1, <2>2 DEF WriterInv
    <3>8. SleepInv'
      BY <1>0, <2>1, <2>2 DEF SleepInv, NoLostWakeup
    <3> QED BY <3>6, <3>7, <3>8 DEF HandshakeInv
  <2>3. CASE \/ main' = "returned" /\ return_value' = "" /\ UNCHANGED <<cmd, waiting>>
             \/ /\ writer # {} /\ receiver_available /\ waiting' = waiting \cup {"main"}
                /\ UNCHANGED <<main, cmd, return_value>>
    <3>1. ImageInv'
      BY <1>0, <2>1, <2>3, ImageStays, Zenon
    <3>2. WriterInv'
      BY <1>0, <2>1, <2>3, Zenon DEF WriterInv
    <3>3. SleepInv'
      BY <1>0, <2>1, <2>3, Zenon DEF SleepInv, NoLostWakeup
    <3> QED BY <3>1, <3>2, <3>3 DEF HandshakeInv
  <2> QED BY <2>1, <2>2, <2>3, Zenon
<1>5. CASE Join
  <2>1. /\ main = "commands" /\ main' = "returned" /\ cmd > Len(list) /\ unzip = "exited"
        /\ UNCHANGED <<list, cmd, image, delivered, unzip, writer, waiting, receiver_available>>
    BY <1>5 DEF Join, ReturnWith, dataVars, nti
  <2>2. ImageInv'
    BY <1>0, <2>1, ImageStays
  <2>3. WriterInv' /\ SleepInv'
    BY <1>0, <2>1 DEF WriterInv, SleepInv, NoLostWakeup
  <2> QED BY <2>2, <2>3 DEF HandshakeInv
<1> QED BY <1>1, <1>2, <1>3, <1>4, <1>5 DEF MainStep

LEMMA UnzipKeeps ==
  ASSUME HandshakeInv, UnzipStep \/ SpuriousWakeup
  PROVE  HandshakeInv'
<1> USE DEF NoWriter, Alive
<1>0. ImageInv /\ WriterInv /\ SleepInv
  BY Zenon DEF HandshakeInv
<1>1. main # "returned" /\ UNCHANGED <<list, main, cmd, return_value>>
  BY DEF UnzipStep, NextChunk, Receive, WriteData, WriteFails, ClearWriter, Exit,
         SpuriousWakeup, Running, mainVars
<1>2. CASE NextChunk \/ Receive \/ SpuriousWakeup
  <2>1. /\ UNCHANGED <<image, delivered, writer, receiver_available>>
        /\ unzip' \in {"receive", "exit", "next", "write", unzip}
        /\ unzip' # unzip => unzip \in {"next", "receive"}
        /\ unzip' = "write" => unzip = "write" \/ writer # {}
        /\ waiting' \subseteq waiting \/ (waiting' = waiting \cup {"unzip"} /\ writer = {})
    BY <1>2 DEF NextChunk, Receive, SpuriousWakeup, Running, dataVars, nti
  <2>2. ImageInv'
    BY <1>0, <1>1, <2>1, ImageStays, Zenon
  <2>3. WriterInv'
    BY <1>0, <1>1, <2>1 DEF WriterInv
  <2>4. unzip' = "exited" <=> unzip = "exited"
    BY <2>1
  <2>5. SleepInv'
    BY <1>0, <1>1, <2>1, <2>4 DEF SleepInv, NoLostWakeup
  <2> QED BY <2>2, <2>3, <2>5, Zenon DEF HandshakeInv
<1>3. CASE WriteData \/ WriteFails
  <2> DEFINE Turn(left, n) ==
          /\ image' = [image EXCEPT ![cmd] = @ \o [i \in 1 .. n |-> delivered + i]]
          /\ delivered' = delivered \/ delivered' = delivered + n
          /\ writer' = {left - n}
          /\ \/ unzip' = "exit"
             \/ unzip' = "written" /\ left = n
             \/ unzip' = "receive" /\ left # n
  <2>0. \E left \in writer : \E n \in 0 .. left : Turn(left, n)
    <3>1. CASE WriteData
      BY <3>1, Zenon DEF WriteData
    <3>2. CASE WriteFails
      <4>1. PICK left \in writer : \E out \in 0 .. left : \E part \in 0 .. out :
              /\ image' = [image EXCEPT ![cmd] = @ \o [i \in 1 .. part |-> delivered + i]]
              /\ writer' = {left - part} /\ unzip' = "exit" /\ delivered' = delivered
        BY <3>2, Zenon DEF WriteFails
      <4>2. \A out \in 0 .. left : \A part \in 0 .. out : part \in 0 .. left
        <5>1. main = "new" /\ cmd \in 1 .. Len(list) /\ left = list[cmd] - Len(image[cmd])
          BY <1>0, <1>1 DEF WriterInv
        <5>2. list[cmd] \in Int /\ Len(image[cmd]) \in Int
          BY <1>0, <5>1 DEF ImageInv
        <5>3. left \in Int
          BY <5>1, <5>2
        <5> QED BY <5>3
      <4> QED BY <4>1, <4>2, Zenon
    <3> QED BY <1>3, <3>1, <3>2
  <2>1. PICK left \in writer : \E n \in 0 .. left : Turn(left, n)
    BY <2>0, Zenon
  <2>9. PICK n \in 0 .. left : Turn(left, n)
    BY <2>1, Zenon
  <2>2. main = "new" /\ UNCHANGED <<receiver_available, waiting>> /\ writer # {}
    BY <1>0, <1>1, <1>3, <2>9, Zenon DEF WriterInv, WriteData, WriteFails
  <2>3. /\ ImageInv' /\ left \in Nat /\ cmd \in 1 .. Len(list)
        /\ left = list[cmd] - Len(image[cmd])
        /\ Len(image'[cmd]) = Len(image[cmd]) + n /\ Len(image[cmd]) \in Nat
    BY <1>1, <2>9, <2>2, Appends, Zenon
  <2>4. list[cmd] \in Nat
    <3>1. list \in Seq(Nat)
      BY <1>0 DEF ImageInv
    <3> QED BY ONLY <2>3, <3>1
  <2>5. /\ left - n = list[cmd] - Len(image'[cmd]) /\ Len(image'[cmd]) <= list[cmd]
        /\ left - n = 0 <=> left = n
    BY <2>3, <2>4
  <2>6. WriterInv'
    <3>1. writer' # {} /\ (writer' = {0} <=> left = n)
      BY <2>9, <2>5
    <3> QED BY <1>1, <2>9, <2>2, <2>3, <2>5, <3>1, Zenon DEF WriterInv
  <2>7. SleepInv'
    <3>1. writer' # {}
      BY <2>9
    <3> QED BY <1>0, <1>1, <2>2, <3>1 DEF SleepInv, NoLostWakeup
  <2> QED BY <2>3, <2>6, <2>7 DEF HandshakeInv
<1>4. CASE ClearWriter \/ Exit
  <2>1. /\ UNCHANGED <<image, delivered>>
        /\ \/ unzip = "written" /\ writer' = {} /\ waiting' = {} /\ unzip' = "receive"
           \/ /\ unzip = "exit" /\ unzip' = "exited" /\ writer' = writer
              /\ writer # {} => waiting' = {}
              /\ writer = {} => waiting' = waiting
    BY <1>4 DEF ClearWriter, Exit, Running, dataVars
  <2>2. ImageInv'
    BY <1>0, <1>1, <2>1, ImageStays
  <2>3. CASE unzip = "written"
    <3>1. writer = {0} /\ main = "new"
      BY <1>0, <1>1, <2>3 DEF WriterInv
    <3>2. cmd \in 1 .. Len(list) /\ Len(image[cmd]) = list[cmd]
      <4>1. cmd \in 1 .. Len(list) /\ list[cmd] - Len(image[cmd]) = 0
        BY <1>0, <3>1 DEF WriterInv
      <4>2. list[cmd] \in Nat /\ Len(image[cmd]) \in Nat
        BY <1>0, <4>1 DEF ImageInv
      <4> QED BY <4>1, <4>2
    <3>3. WriterInv' /\ SleepInv'
      BY <1>0, <1>1, <2>1, <2>3, <3>1, <3>2, Zenon DEF WriterInv, SleepInv, NoLostWakeup
    <3> QED BY <2>2, <3>3 DEF HandshakeInv
  <2>4. CASE unzip = "exit"
    BY <1>0, <1>1, <2>1, <2>2, <2>4 DEF HandshakeInv, WriterInv, SleepInv, NoLostWakeup
  <2> QED BY <2>1, <2>3, <2>4
<1> QED BY <1>2, <1>3, <1>4 DEF UnzipStep

LEMMA NextHandshake == HandshakeInv /\ [NewDataNext]_newDataVars => HandshakeInv'
<1> SUFFICES ASSUME HandshakeInv, [NewDataNext]_newDataVars PROVE HandshakeInv'
  OBVIOUS
<1>1. CASE UNCHANGED newDataVars
  BY <1>1 DEF HandshakeInv, ImageInv, WriterInv, SleepInv, NoLostWakeup, Alive,
              newDataVars, mainVars, dataVars, nti
<1> QED BY <1>1, MainKeeps, UnzipKeeps, Zenon DEF NewDataNext, Returned

LEMMA HandshakeAlways == NewDataSpec => []HandshakeInv
BY InitHandshake, NextHandshake, PTL DEF NewDataSpec

-----------------------------------------------------------------------------
(* Where the sections begin.  The sums of a list are defined by recursion    *)
(* over its length, and facts about them are proved by the least length for  *)
(* which they would fail.                                                    *)

\* f has the sums of the first members of s, up to n of them.
SumsTo(s, f, n) ==
  /\ f \in [0 .. n -> Nat] /\ f[0] = 0
  /\ \A i \in 1 .. n : f[i] = f[i - 1] + s[i]

LEMMA SumsExist ==
  ASSUME NEW s \in Seq(Nat), NEW n \in 0 .. Len(s)
  PROVE  \E f : SumsTo(s, f, n)
<1> DEFINE T == {m \in 0 .. Len(s) : ~\E f : SumsTo(s, f, m)}
<1> SUFFICES ASSUME T # {} PROVE FALSE
  OBVIOUS
<1>0. Len(s) \in Nat /\ T \subseteq Nat
  OBVIOUS
<1>1. PICK x \in T : \A y \in T : x =< y
  BY <1>0, LeastNat, Zenon
<1>2. CASE x = 0
  <2> DEFINE g == [i \in 0 .. 0 |-> 0]
  <2>1. SumsTo(s, g, 0)
    BY DEF SumsTo
  <2> QED BY <1>1, <1>2, <2>1
<1>3. CASE x # 0
  <2>1. /\ x \in Nat /\ x - 1 \in 0 .. Len(s) /\ x - 1 \in Nat /\ ~(x =< x - 1)
        /\ x \in 1 .. Len(s) /\ 0 \in 0 .. x /\ x - 1 \in 0 .. x - 1
    BY <1>0, <1>3
  <2>2. x - 1 \notin T
    BY <1>1, <2>1, Zenon
  <2>3. PICK f : SumsTo(s, f, x - 1)
    BY <2>1, <2>2
  <2>4. s[x] \in Nat /\ f[x - 1] \in Nat
    BY <2>1, <2>3 DEF SumsTo
  <2>5. f[x - 1] + s[x] \in Nat
    BY <2>4
  <2> DEFINE g == [i \in 0 .. x |-> IF i = x THEN f[x - 1] + s[x] ELSE f[i]]
  <2>6. \A i \in 0 .. x : i # x => i \in 0 .. x - 1
    BY <2>1
  <2>7. g \in [0 .. x -> Nat] /\ g[0] = 0
    BY <1>3, <2>1, <2>3, <2>5, <2>6, Zenon DEF SumsTo
  <2>8. ASSUME NEW i \in 1 .. x PROVE g[i] = g[i - 1] + s[i]
    <3>1. i - 1 \in 0 .. x /\ i \in 0 .. x /\ i - 1 # x
      BY <2>1
    <3>2. g[i - 1] = f[i - 1]
      BY <3>1, Zenon
    <3>3. CASE i = x
      BY <3>1, <3>2, <3>3, Zenon
    <3>4. CASE i # x
      <4>1. i \in 1 .. x - 1
        BY <2>1, <3>4
      <4>2. f[i] = f[i - 1] + s[i]
        BY <2>3, <4>1, Zenon DEF SumsTo
      <4>3. g[i] = f[i]
        BY <3>1, <3>4, Zenon
      <4> QED BY <3>2, <4>2, <4>3, Zenon
    <3> QED BY <3>3, <3>4, Zenon
  <2>9. SumsTo(s, g, x)
    BY <2>7, <2>8, Zenon DEF SumsTo
  <2> QED BY <1>1, <2>9
<1> QED BY <1>2, <1>3

\* The recursive definition has a solution, and any solution has these values.
LEMMA SumsIs ==
  ASSUME NEW s \in Seq(Nat)
  PROVE  SumsTo(s, Sums(s), Len(s))
<1> DEFINE D(f) == [n \in 0 .. Len(s) |-> IF n = 0 THEN 0 ELSE f[n - 1] + s[n]]
           F == CHOOSE f : f = D(f)
<1>1. Len(s) \in Nat /\ Len(s) \in 0 .. Len(s)
  OBVIOUS
<1>2. PICK g : SumsTo(s, g, Len(s))
  BY <1>1, SumsExist, Zenon
<1>3. g = D(g)
  <2>1. ASSUME NEW n \in 0 .. Len(s) PROVE g[n] = IF n = 0 THEN 0 ELSE g[n - 1] + s[n]
    <3>1. CASE n = 0
      BY <1>2, <3>1 DEF SumsTo
    <3>2. CASE n # 0
      <4>1. n \in 1 .. Len(s)
        BY <1>1, <3>2
      <4> QED BY <1>2, <3>2, <4>1, Zenon DEF SumsTo
    <3> QED BY <3>1, <3>2
  <2> QED BY <1>2, <2>1 DEF SumsTo
<1>4. F = D(F)
  BY <1>3, Zenon
<1>5. Sums(s) = F
  BY DEF Sums
<1> HIDE DEF F
<1>6. /\ F = [n \in 0 .. Len(s) |-> F[n]]
      /\ \A n \in 0 .. Len(s) : F[n] = IF n = 0 THEN 0 ELSE F[n - 1] + s[n]
  BY <1>4
<1>7. F[0] = 0 /\ \A i \in 1 .. Len(s) : F[i] = F[i - 1] + s[i]
  <2>1. 0 \in 0 .. Len(s) /\ \A i \in 1 .. Len(s) : i \in 0 .. Len(s) /\ i # 0
    BY <1>1
  <2> QED BY <1>6, <2>1, Zenon
<1>8. \A n \in 0 .. Len(s) : F[n] \in Nat
  <2> DEFINE T == {m \in 0 .. Len(s) : F[m] \notin Nat}
  <2> SUFFICES ASSUME T # {} PROVE FALSE
    OBVIOUS
  <2>0. T \subseteq Nat
    OBVIOUS
  <2>1. PICK x \in T : \A y \in T : x =< y
    BY <2>0, LeastNat, Zenon
  <2>2. CASE x = 0
    BY <1>7, <2>1, <2>2
  <2>3. CASE x # 0
    <3>1. x \in 1 .. Len(s) /\ x - 1 \in 0 .. Len(s) /\ ~(x =< x - 1)
      BY <1>1, <2>3
    <3>2. F[x - 1] \in Nat /\ s[x] \in Nat
      BY <2>1, <3>1
    <3>3. F[x] = F[x - 1] + s[x]
      BY <1>7, <3>1, Zenon
    <3> QED BY <2>1, <3>2, <3>3
  <2> QED BY <2>2, <2>3
<1> QED BY <1>5, <1>6, <1>7, <1>8, Zenon DEF SumsTo

\* Every unit of the image is the one of its place, and while the receiver works on, the
\* units it has taken are the ones of the commands so far.
OrderInv ==
  /\ \A c \in 1 .. Len(list) :
       Len(image[c]) <= list[c] /\ \A i \in 1 .. Len(image[c]) : image[c][i] = Sums(list)[c - 1] + i
  /\ main = "start" => unzip = "none"
  /\ Alive /\ unzip \notin {"exit", "exited"} =>
       delivered = Sums(list)[cmd - 1] + (IF cmd <= Len(list) THEN Len(image[cmd]) ELSE 0)

LEMMA InitOrder == NewDataInit => OrderInv
<1> SUFFICES ASSUME NewDataInit PROVE OrderInv
  OBVIOUS
<1>1. list \in Seq(Nat) /\ Len(list) \in Nat
  BY NewDataAssumption DEF NewDataInit, NewDataAssumption
<1>2. Sums(list)[0] = 0
  BY <1>1, SumsIs DEF SumsTo
<1>3. \A c \in 1 .. Len(list) : image[c] = <<>> /\ list[c] \in Nat
  BY <1>1 DEF NewDataInit
<1>4. \A c \in 1 .. Len(list) : Len(image[c]) = 0 /\ 0 <= list[c]
  BY <1>3
<1>5. \A c \in 1 .. Len(list) : 1 .. Len(image[c]) = {}
  BY <1>4
<1>6. delivered = 0 /\ cmd = 1 /\ cmd - 1 = 0 /\ unzip = "none"
  BY DEF NewDataInit
<1>7. delivered = Sums(list)[cmd - 1] + (IF cmd <= Len(list) THEN Len(image[cmd]) ELSE 0)
  BY <1>1, <1>2, <1>4, <1>6
<1> QED BY <1>4, <1>5, <1>6, <1>7, Zenon DEF OrderInv

LEMMA OrderStays ==
  ASSUME OrderInv, UNCHANGED <<list, image>>, main' = "start" => main = "start" /\ unzip' = unzip,
         Alive' /\ unzip' \notin {"exit", "exited"} =>
           Alive /\ unzip \notin {"exit", "exited"} /\ UNCHANGED <<cmd, delivered>>
  PROVE  OrderInv'
BY Zenon DEF OrderInv

\* A command that is done hands on to the next one.
LEMMA OrderNext ==
  ASSUME ImageInv, OrderInv, cmd \in 1 .. Len(list), Len(image[cmd]) = list[cmd],
         cmd' = cmd + 1, UNCHANGED <<list, delivered, image, unzip>>, Alive, main' # "start"
  PROVE  OrderInv'
<1>1. list \in Seq(Nat) /\ Len(list) \in Nat /\ cmd \in Nat /\ cmd' \in Nat /\ cmd' - 1 = cmd
  BY DEF ImageInv
<1>2. Sums(list)[cmd] = Sums(list)[cmd - 1] + list[cmd] /\ Sums(list)[cmd] \in Nat
  <2>1. SumsTo(list, Sums(list), Len(list))
    BY <1>1, SumsIs
  <2>2. cmd \in 0 .. Len(list)
    BY <1>1
  <2> QED BY <2>1, <2>2, Zenon DEF SumsTo
<1>3. cmd' <= Len(list) => Len(image[cmd']) = 0
  <2> SUFFICES ASSUME cmd' <= Len(list) PROVE Len(image[cmd']) = 0
    OBVIOUS
  <2>1. cmd' \in 1 .. Len(list) /\ cmd' > cmd
    BY <1>1
  <2>2. image[cmd'] = <<>>
    BY <2>1 DEF ImageInv
  <2> QED BY <2>2
<1>4. cmd <= Len(list)
  BY <1>1
<1>5. unzip \notin {"exit", "exited"} => delivered = Sums(list)[cmd]
  BY <1>2, <1>4, Zenon DEF OrderInv
<1>6. ASSUME unzip' \notin {"exit", "exited"}
      PROVE  delivered = Sums(list)[cmd' - 1] + (IF cmd' <= Len(list) THEN Len(image[cmd']) ELSE 0)
  <2>1. unzip \notin {"exit", "exited"} /\ delivered = Sums(list)[cmd] /\ delivered \in Nat
    BY <1>2, <1>5, <1>6
  <2>2. delivered = delivered + (IF cmd' <= Len(list) THEN Len(image[cmd']) ELSE 0)
    BY <1>3, <2>1
  <2> QED BY <1>1, <2>1, <2>2, Zenon
<1> QED BY <1>6, Zenon DEF OrderInv

\* What a turn of a receiver appends continues the section; a turn that fails is the last.
LEMMA OrderWrites ==
  ASSUME HandshakeInv, OrderInv, main = "new", NEW left \in writer, NEW n \in 0 .. left,
         image' = [image EXCEPT ![cmd] = @ \o [i \in 1 .. n |-> delivered + i]],
         unzip \notin {"exit", "exited"},
         unzip' = "exit" \/ delivered' = delivered + n,
         UNCHANGED <<list, cmd, main>>
  PROVE  OrderInv'
<1>1. /\ list \in Seq(Nat) /\ cmd \in 1 .. Len(list) /\ delivered \in Nat
      /\ image \in [1 .. Len(list) -> Seq(Nat)]
  BY DEF HandshakeInv, ImageInv, WriterInv
<1>2. left = list[cmd] - Len(image[cmd]) /\ Len(image[cmd]) <= list[cmd]
  BY DEF HandshakeInv, WriterInv, NoWriter
<1>3. list[cmd] \in Nat /\ Len(image[cmd]) \in Nat /\ image[cmd] \in Seq(Nat)
  BY <1>1
<1>4. left \in Nat /\ n \in Nat /\ cmd <= Len(list)
  BY <1>1, <1>2, <1>3
<1> DEFINE S == Sums(list)[cmd - 1]
           more == [i \in 1 .. n |-> delivered + i]
           done == image[cmd]
<1>5. S \in Nat
  <2>1. SumsTo(list, Sums(list), Len(list))
    BY <1>1, SumsIs
  <2>2. cmd - 1 \in 0 .. Len(list)
    BY <1>1
  <2> QED BY <2>1, <2>2, Zenon DEF SumsTo
<1>6. delivered = S + Len(done)
  BY <1>4, Zenon DEF OrderInv, Alive
<1>7. more \in Seq(Nat) /\ Len(more) = n /\ \A i \in 1 .. n : more[i] = S + Len(done) + i
  <2>1. more \in Seq(Nat) /\ Len(more) = n /\ \A i \in 1 .. n : more[i] = delivered + i
    BY <1>1, <1>4
  <2> QED BY <1>6, <2>1, Zenon
<1>8. \A i \in 1 .. Len(done) : done[i] = S + i
  BY <1>1, Zenon DEF OrderInv
<1>9. /\ image'[cmd] = done \o more
      /\ \A c \in 1 .. Len(list) : c # cmd => image'[c] = image[c]
  BY <1>1, Zenon
<1> HIDE DEF S, more, done
<1>10. /\ Len(done \o more) = Len(done) + n /\ Len(done \o more) <= list[cmd]
       /\ \A i \in 1 .. Len(done \o more) : (done \o more)[i] = S + i
  <2> SUFFICES ASSUME NEW a \in Seq(Nat), NEW b \in Seq(Nat), NEW z \in Nat, NEW l \in Nat,
                      \A i \in 1 .. Len(a) : a[i] = z + i,
                      \A i \in 1 .. Len(b) : b[i] = z + Len(a) + i,
                      Len(b) <= l - Len(a)
               PROVE  /\ Len(a \o b) = Len(a) + Len(b) /\ Len(a \o b) <= l
                      /\ \A i \in 1 .. Len(a \o b) : (a \o b)[i] = z + i
    <3>1. Len(more) <= list[cmd] - Len(done)
      BY <1>2, <1>4, <1>7 DEF done
    <3>2. done \in Seq(Nat)
      BY <1>3 DEF done
    <3> QED BY <1>3, <1>5, <1>7, <1>8, <3>1, <3>2, Zenon
  <2>1. Len(a \o b) = Len(a) + Len(b) /\ Len(a \o b) <= l /\ Len(a) \in Nat /\ Len(b) \in Nat
    OBVIOUS
  <2>2. ASSUME NEW i \in 1 .. Len(a \o b) PROVE (a \o b)[i] = z + i
    <3>1. CASE i <= Len(a)
      BY <2>1, <3>1
    <3>2. CASE i > Len(a)
      <4>1. i - Len(a) \in 1 .. Len(b) /\ (a \o b)[i] = b[i - Len(a)]
        BY <2>1, <3>2
      <4>2. b[i - Len(a)] = z + Len(a) + (i - Len(a))
        BY <4>1
      <4> QED BY <2>1, <4>1, <4>2
    <3> QED BY <2>1, <3>1, <3>2
  <2> QED BY <2>1, <2>2
<1>11. ASSUME NEW c \in 1 .. Len(list)
       PROVE  /\ Len(image'[c]) <= list[c]
              /\ \A i \in 1 .. Len(image'[c]) : image'[c][i] = Sums(list)[c - 1] + i
  <2>1. CASE c = cmd
    BY <1>9, <1>10, <2>1, Zenon DEF S
  <2>2. CASE c # cmd
    BY <1>9, <2>2, Zenon DEF OrderInv
  <2> QED BY <2>1, <2>2, Zenon
<1>12. delivered + n = S + Len(image'[cmd])
  BY <1>1, <1>3, <1>4, <1>5, <1>6, <1>9, <1>10 DEF done
<1>13. unzip' \notin {"exit", "exited"} =>
         delivered' = Sums(list)[cmd - 1] + (IF cmd <= Len(list) THEN Len(image'[cmd]) ELSE 0)
  BY <1>4, <1>12, Zenon DEF S
<1>14. main' # "start" /\ list' = list /\ cmd' = cmd
  OBVIOUS
<1> QED BY <1>11, <1>13, <1>14, Zenon DEF OrderInv

\* The units from z + 1 on.  Fewer of them are a beginning of more of them.
Run(a, z) == \A i \in 1 .. Len(a) : a[i] = z + i

LEMMA RunsBegin ==
  ASSUME NEW a \in Seq(Nat), NEW b \in Seq(Nat), NEW z \in Nat, Len(a) <= Len(b), Run(a, z), Run(b, z)
  PROVE  (Len(a) = Len(b) => a = b) /\ a = SubSeq(b, 1, Len(a))
<1>1. SubSeq(b, 1, Len(b)) = b
  OBVIOUS
<1>2. a = SubSeq(b, 1, Len(a))
  BY DEF Run
<1> QED BY <1>1, <1>2, Zenon

LEMMA NextOrder == HandshakeInv /\ OrderInv /\ [NewDataNext]_newDataVars => OrderInv'
<1> SUFFICES ASSUME HandshakeInv, OrderInv, [NewDataNext]_newDataVars PROVE OrderInv'
  OBVIOUS
<1>0. ImageInv /\ WriterInv
  BY DEF HandshakeInv
<1>1. CASE CreateThread \/ ReadHeader \/ Join \/ PerformCommandNew
  <2>1. /\ UNCHANGED <<list, image, cmd, delivered>> /\ main \in {"start", "header", "commands"}
        /\ main' # "start" /\ (main # "start" => unzip' = unzip)
    BY <1>1, Zenon DEF CreateThread, ReadHeader, Join, PerformCommandNew, ReturnWith, dataVars, nti
  <2>2. Alive /\ (main = "start" => unzip = "none")
    BY <2>1 DEF Alive, OrderInv
  <2> QED BY <2>1, <2>2, OrderStays, Zenon
<1>2. CASE OtherCommand \/ NewAwakes
  <2>1. /\ main \in {"commands", "new"} /\ main' # "start"
        /\ UNCHANGED <<list, image, delivered, unzip>>
        /\ \/ UNCHANGED cmd
           \/ /\ cmd' = cmd + 1
              /\ \/ main = "commands" /\ cmd <= Len(list) /\ list[cmd] = 0
                 \/ main = "new" /\ writer = NoWriter
    BY <1>2, Zenon DEF OtherCommand, NewAwakes, ReturnWith, dataVars, nti
  <2>2. Alive
    BY <2>1 DEF Alive
  <2>3. CASE UNCHANGED cmd
    BY <2>1, <2>2, <2>3, OrderStays, Zenon
  <2>4. CASE main = "commands" /\ cmd <= Len(list) /\ list[cmd] = 0 /\ cmd' = cmd + 1
    <3>1. cmd \in 1 .. Len(list) /\ Len(image[cmd]) = list[cmd]
      BY <1>0, <2>4, AtCommand, Zenon
    <3> QED BY <1>0, <2>1, <2>2, <2>4, <3>1, OrderNext, Zenon
  <2>5. CASE main = "new" /\ writer = NoWriter /\ cmd' = cmd + 1
    <3>1. cmd \in 1 .. Len(list) /\ Len(image[cmd]) = list[cmd]
      BY <1>0, <2>5, Zenon DEF WriterInv
    <3> QED BY <1>0, <2>1, <2>2, <2>5, <3>1, OrderNext, Zenon
  <2> QED BY <2>1, <2>3, <2>4, <2>5, Zenon
<1>3. CASE NextChunk \/ Receive \/ ClearWriter \/ Exit \/ SpuriousWakeup
  <2>1. /\ UNCHANGED <<list, image, cmd, delivered, main>> /\ main # "returned"
        /\ unzip' = unzip \/ unzip # "none"
        /\ unzip' \notin {"exit", "exited"} => unzip \notin {"exit", "exited"}
    BY <1>3 DEF NextChunk, Receive, ClearWriter, Exit, SpuriousWakeup, Running,
                mainVars, dataVars
  <2>2. main = "start" => unzip' = unzip
    BY <2>1, Zenon DEF OrderInv
  <2> QED BY <2>1, <2>2, OrderStays, Zenon DEF Alive
<1>4. CASE WriteData \/ WriteFails
  <2>1. unzip = "write" /\ main # "returned" /\ UNCHANGED <<list, cmd, main>>
    BY <1>4 DEF WriteData, WriteFails, Running, mainVars
  <2>2. \E left \in writer : \E n \in 0 .. left :
          /\ image' = [image EXCEPT ![cmd] = @ \o [i \in 1 .. n |-> delivered + i]]
          /\ unzip' = "exit" \/ delivered' = delivered + n
    <3>1. CASE WriteData
      BY <3>1, Zenon DEF WriteData
    <3>2. CASE WriteFails
      <4>1. PICK left \in writer : \E out \in 0 .. left : \E part \in 0 .. out :
              /\ image' = [image EXCEPT ![cmd] = @ \o [i \in 1 .. part |-> delivered + i]]
              /\ unzip' = "exit"
        BY <3>2, Zenon DEF WriteFails
      <4>2. \A out \in 0 .. left : \A part \in 0 .. out : part \in 0 .. left
        <5>1. main = "new" /\ cmd \in 1 .. Len(list) /\ left = list[cmd] - Len(image[cmd])
          BY <1>0, <2>1 DEF WriterInv, NoWriter, Alive
        <5>2. list[cmd] \in Int /\ Len(image[cmd]) \in Int
          BY <1>0, <5>1 DEF ImageInv
        <5>3. left \in Int
          BY <5>1, <5>2
        <5> QED BY <5>3
      <4> QED BY <4>1, <4>2, Zenon
    <3> QED BY <1>4, <3>1, <3>2
  <2>3. main = "new"
    BY <1>0, <2>1, <2>2 DEF WriterInv, NoWriter, Alive
  <2>4. unzip \notin {"exit", "exited"}
    BY <2>1
  <2> QED BY <2>1, <2>2, <2>3, <2>4, OrderWrites, Zenon
<1>5. CASE UNCHANGED newDataVars
  BY <1>5, OrderStays DEF newDataVars, mainVars, dataVars, Alive
<1> QED BY <1>1, <1>2, <1>3, <1>4, <1>5, Zenon DEF NewDataNext, MainStep, UnzipStep, Returned

-----------------------------------------------------------------------------
\* Neither thread sleeps through the event it sleeps for: PerformCommandNew waits only
\* while there is a writer and a receiver to clear it, the receivers only while there is
\* no writer.
THEOREM NoWakeupIsLost == NewDataSpec => []NoLostWakeup
<1>1. HandshakeInv => NoLostWakeup
  BY DEF HandshakeInv, SleepInv
<1> QED BY <1>1, HandshakeAlways, PTL

\* A receiver that writes without the mutex has the writer of the command at hand, with
\* room in it, and the main thread waits for it.
THEOREM ReceiverOwnsWriter == NewDataSpec => []OwnsWriter
<1>1. HandshakeInv => OwnsWriter
  BY DEF HandshakeInv, WriterInv, OwnsWriter, Alive, NoWriter
<1> QED BY <1>1, HandshakeAlways, PTL

\* block_image_update reports success only when every section is full and the thread on
\* its local variables has ended.
THEOREM SuccessIsJoined == NewDataSpec => []SuccessMeansJoined
<1>1. ASSUME HandshakeInv PROVE SuccessMeansJoined
  <2> SUFFICES ASSUME return_value = "t", list # <<>>
               PROVE  unzip = "exited" /\ \A c \in 1 .. Len(list) : Len(image[c]) = list[c]
    BY DEF SuccessMeansJoined
  <2>1. unzip = "exited" /\ cmd > Len(list) /\ cmd \in Nat /\ Len(list) \in Nat
    BY <1>1 DEF HandshakeInv, SleepInv, ImageInv
  <2>2. \A c \in 1 .. Len(list) : c < cmd
    BY <2>1
  <2> QED BY <1>1, <2>1, <2>2 DEF HandshakeInv, ImageInv
<1> QED BY <1>1, HandshakeAlways, PTL

\* Whatever the sizes of chunks, buffers and sections, and wherever a failure strikes, the
\* sections of the commands that are done hold exactly the bytes that are theirs, the one
\* at hand a beginning of them, and the later ones nothing.
THEOREM SectionsStayInOrder == NewDataSpec => []SectionsInOrder
<1>1. ASSUME HandshakeInv, OrderInv PROVE SectionsInOrder
  <2> SUFFICES ASSUME NEW c \in 1 .. Len(list)
               PROVE  /\ c < cmd => image[c] = Section(c)
                      /\ c = cmd => image[c] = SubSeq(Section(c), 1, Len(image[c]))
                      /\ c > cmd => image[c] = <<>>
    BY DEF SectionsInOrder
  <2> DEFINE S == Sums(list)[c - 1]
  <2>1. /\ list \in Seq(Nat) /\ image[c] \in Seq(Nat)
        /\ c < cmd => Len(image[c]) = list[c]
        /\ c > cmd => image[c] = <<>>
    BY <1>1 DEF HandshakeInv, ImageInv
  <2>2. Len(image[c]) <= list[c] /\ \A i \in 1 .. Len(image[c]) : image[c][i] = S + i
    BY <1>1, Zenon DEF OrderInv
  <2>3. S \in Nat /\ list[c] \in Nat
    <3>1. SumsTo(list, Sums(list), Len(list)) /\ c - 1 \in 0 .. Len(list) /\ list[c] \in Nat
      BY <2>1, SumsIs
    <3> QED BY <3>1, Zenon DEF SumsTo
  <2>4. Section(c) = [i \in 1 .. list[c] |-> S + i]
    BY DEF Section
  <2> HIDE DEF S
  <2>6. /\ Len(image[c]) = list[c] => image[c] = Section(c)
        /\ image[c] = SubSeq(Section(c), 1, Len(image[c]))
    <3>1. image[c] \in Seq(Nat) /\ Run(image[c], S)
      BY <2>1, <2>2, Zenon DEF Run
    <3>2. Section(c) \in Seq(Nat) /\ Len(Section(c)) = list[c] /\ Run(Section(c), S)
      BY <2>3, <2>4 DEF Run
    <3> QED BY <2>2, <2>3, <3>1, <3>2, RunsBegin, Zenon
  <2> QED BY <2>1, <2>6
<1>2. HandshakeInv /\ OrderInv /\ [NewDataNext]_newDataVars => OrderInv'
  BY NextOrder
<1>3. NewDataInit => OrderInv
  BY InitOrder
<1> QED BY <1>1, <1>2, <1>3, HandshakeAlways, PTL DEF NewDataSpec

=============================================================================
