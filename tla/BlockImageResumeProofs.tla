----------------------- MODULE BlockImageResumeProofs -----------------------
(***************************************************************************)
(* The proof that an interrupted installation can be resumed.              *)
(***************************************************************************)
EXTENDS BlockImageResume, BlockImageProofs

-----------------------------------------------------------------------------
(* What the assumptions say about the list being executed *)

LEMMA ListFacts ==
  ASSUME TypeOK
  PROVE  /\ N \in Nat
         /\ DOMAIN list.cmds = 1 .. N
         /\ \A i \in 1 .. N : IsCommand(C(i))
<1>1. IsTransferList(list)
  BY ListAssumption DEF ListAssumption, TypeOK, PartitionOK
<1>2. list.cmds \in Seq({list.cmds[i] : i \in DOMAIN list.cmds})
  BY <1>1 DEF IsTransferList
<1>3. N \in Nat /\ DOMAIN list.cmds = 1 .. N
  BY <1>2 DEF N
<1> QED BY <1>1, <1>3 DEF IsTransferList, C

LEMMA Guarantees ==
  ASSUME TypeOK
  PROVE  /\ \A i, j \in 1 .. N :
              i < j => Writes(C(i)) \cap (Reads(C(j)) \cup Writes(C(j))) = {}
         /\ \A i, j \in 1 .. N :
              i < j /\ C(i).op = "free" => ~Needs(C(j), C(i).srchash)
         /\ \A i \in 1 .. N : Copies(C(i)) \/ C(i).op = "stash" =>
              \A k \in DOMAIN C(i).srchash :
                C(i).srchash[k] = IF k \in DOMAIN C(i).src
                                  THEN Source[C(i).src[k]]
                                  ELSE C(i).use[k].id[C(i).use[k].at]
         /\ \A i \in 1 .. N : C(i).op = "stash" => DOMAIN C(i).src = DOMAIN C(i).srchash
         /\ \A i \in 1 .. N : C(i).op = "move" => C(i).tgthash = C(i).srchash
         /\ \A i \in 1 .. N : IsInjective(C(i).tgt)
<1>1. WellFormed(list) /\ NoIdReuse(list.cmds)
  BY ResumeAssumption DEF ResumeAssumption, TypeOK, PartitionOK
<1>2. DOMAIN list.cmds = 1 .. N
  BY ListFacts
<1>3. HashesMatchSource(list.cmds)
  BY <1>1 DEF WellFormed
<1>4. NoReadAfterWrite(list.cmds)
  BY <1>1 DEF WellFormed
<1>5. \A i, j \in 1 .. N :
        i < j => Writes(C(i)) \cap (Reads(C(j)) \cup Writes(C(j))) = {}
  BY <1>2, <1>4 DEF NoReadAfterWrite, C
<1>6. \A i, j \in 1 .. N : i < j /\ C(i).op = "free" => ~Needs(C(j), C(i).srchash)
  BY <1>1, <1>2, Zenon DEF NoIdReuse, C
<1>7. \A i \in 1 .. N : Copies(C(i)) \/ C(i).op = "stash" =>
        \A k \in DOMAIN C(i).srchash :
          C(i).srchash[k] = IF k \in DOMAIN C(i).src
                            THEN Source[C(i).src[k]]
                            ELSE C(i).use[k].id[C(i).use[k].at]
  BY <1>2, <1>3 DEF HashesMatchSource, C, Copies
<1>8. \A i \in 1 .. N : /\ C(i).op = "stash" => DOMAIN C(i).src = DOMAIN C(i).srchash
                        /\ C(i).op = "move" => C(i).tgthash = C(i).srchash
                        /\ IsInjective(C(i).tgt)
  BY <1>2, <1>3 DEF HashesMatchSource, C
<1> QED BY <1>5, <1>6, <1>7, <1>8

(* Commands, as the proofs need them. *)
LEMMA WritesApart ==
  ASSUME TypeOK, NEW i \in 1 .. N, NEW j \in 1 .. N, i # j
  PROVE  Writes(C(i)) \cap Writes(C(j)) = {}
<1>1. \A a, b \in 1 .. N : a < b => Writes(C(a)) \cap (Reads(C(b)) \cup Writes(C(b))) = {}
  BY Guarantees
<1>2. i < j \/ j < i
  BY ListFacts
<1>3. CASE i < j
  <2>1. Writes(C(i)) \cap (Reads(C(j)) \cup Writes(C(j))) = {}
    BY <1>1, <1>3
  <2> QED BY <2>1
<1>4. CASE j < i
  <2>1. Writes(C(j)) \cap (Reads(C(i)) \cup Writes(C(i))) = {}
    BY <1>1, <1>4
  <2> QED BY <2>1
<1> QED BY <1>2, <1>3, <1>4

LEMMA ReadsApart ==
  ASSUME TypeOK, NEW i \in 1 .. N, NEW j \in 1 .. N, i < j
  PROVE  Reads(C(j)) \cap Writes(C(i)) = {}
<1>1. \A a, b \in 1 .. N : a < b => Writes(C(a)) \cap (Reads(C(b)) \cup Writes(C(b))) = {}
  BY Guarantees
<1>2. Writes(C(i)) \cap (Reads(C(j)) \cup Writes(C(j))) = {}
  BY <1>1
<1> QED BY <1>2

LEMMA TargetsDistinct ==
  ASSUME TypeOK, NEW i \in 1 .. N, NEW k \in DOMAIN C(i).tgt, NEW m \in DOMAIN C(i).tgt, k # m
  PROVE  C(i).tgt[k] # C(i).tgt[m]
<1>1. IsInjective(C(i).tgt)
  BY Guarantees
<1> QED BY <1>1 DEF IsInjective

LEMMA FreedNotNeeded ==
  ASSUME TypeOK, NEW i \in 1 .. N, NEW j \in 1 .. N, i < j, C(i).op = "free"
  PROVE  ~Needs(C(j), C(i).srchash)
BY Guarantees

LEMMA CommandFacts ==
  ASSUME NEW c, IsCommand(c)
  PROVE  /\ c.tgt \in Seq(Blocks)
         /\ DOMAIN c.tgt = 1 .. Len(c.tgt)
         /\ Len(c.tgt) \in Nat
         /\ Reads(c) \subseteq Blocks
         /\ Writes(c) \subseteq Blocks
         /\ c.srchash \in Seq(Contents)
<1>1. c.tgt \in Seq(Blocks) /\ DOMAIN c.tgt = 1 .. Len(c.tgt) /\ Len(c.tgt) \in Nat
  BY DEF IsCommand
<1>2. Reads(c) \subseteq Blocks
  BY DEF Reads, Range, IsCommand
<1>3. Writes(c) \subseteq Blocks
  BY <1>1 DEF Writes, Range
<1> QED BY <1>1, <1>2, <1>3 DEF IsCommand

-----------------------------------------------------------------------------
(* A command that is not complete finds its source *)

LEMMA ReadsPristine ==
  ASSUME TypeOK, NEW h \in 1 .. N + 1, UntouchedAfter(h), NEW i \in 1 .. N, h =< i,
         h = i => Pristine(Reads(C(i)) \cap Writes(C(i)))
  PROVE  Pristine(Reads(C(i)))
<1> SUFFICES ASSUME NEW b \in Reads(C(i)) PROVE dev[b] = Source[b]
  BY DEF Pristine
<1>1. N \in Nat /\ b \in Blocks
  BY ListFacts, CommandFacts
<1>2. \A j \in 1 .. N : j < i => b \notin Writes(C(j))
  BY Guarantees
<1>3. CASE h = i /\ b \in Writes(C(i))
  BY <1>3 DEF Pristine
<1>4. CASE h = i /\ b \notin Writes(C(i))
  BY <1>1, <1>2, <1>4 DEF UntouchedAfter
<1>5. CASE h < i
  BY <1>1, <1>2, <1>5 DEF UntouchedAfter
<1> QED BY <1>1, <1>3, <1>4, <1>5

LEMMA SourceLoads ==
  ASSUME TypeOK, bad = {}, NEW i \in 1 .. N, Copies(C(i)), Pristine(Reads(C(i))),
         unreadable \cap Uses(C(i)) = {}, \A id \in Uses(C(i)) : Loadable(id)
  PROVE  LoadSourceBlocks(C(i)) = C(i).srchash
<1>1. IsCommand(C(i))
  BY ListFacts
<1>2. ASSUME NEW k \in DOMAIN C(i).srchash
      PROVE  LoadSourceBlocks(C(i))[k] = C(i).srchash[k]
  <2>1. CASE k \in DOMAIN C(i).src
    <3>1. dev[C(i).src[k]] = Source[C(i).src[k]]
      BY <2>1, Zenon DEF Pristine, Reads, Range
    <3> QED BY <1>2, <2>1, <3>1, Guarantees, Zenon DEF LoadSourceBlocks
  <2>2. CASE k \notin DOMAIN C(i).src
    <3>1. k \in DOMAIN C(i).use
      BY <1>1, <1>2, <2>2 DEF IsCommand
    <3>2. LoadStash(C(i).use[k].id, FALSE)
      BY <3>1, Zenon DEF Uses, Loadable, LoadStash
    <3>3. StashBlock(C(i).use[k].id, C(i).use[k].at) = C(i).use[k].id[C(i).use[k].at]
      BY DEF StashBlock
    <3>4. C(i).srchash[k] = C(i).use[k].id[C(i).use[k].at]
      BY <1>2, <2>2, Guarantees
    <3> QED BY <1>2, <2>2, <3>2, <3>3, <3>4 DEF LoadSourceBlocks
  <2> QED BY <2>1, <2>2
<1>3. C(i).srchash \in Seq(Contents)
  BY <1>1 DEF IsCommand
<1>4. C(i).srchash = [k \in DOMAIN C(i).srchash |-> C(i).srchash[k]]
  BY <1>3
<1> QED BY <1>2, <1>4, Zenon DEF LoadSourceBlocks

(* In an update or in a verification, a copy that is not complete has its   *)
(* source in place or, if it overwrote it, on /cache, and loads it if what  *)
(* is on /cache can be read.                                                *)
LEMMA SourceFound ==
  ASSUME Intact, pc = "cmd", pos \in 1 .. N, Copies(C(pos)), ~TargetDone(C(pos)),
         unreadable \cap (Uses(C(pos)) \cup {C(pos).srchash}) = {}
  PROVE  \/ LoadSourceBlocks(C(pos)) = C(pos).srchash
         \/ Overlap(C(pos)) /\ LoadStash(C(pos).srchash, TRUE)
<1>1. TypeOK /\ bad = {} /\ N \in Nat
  BY ListFacts DEF Intact, Strong
<1>2. PICK h \in 1 .. N + 1 : Frontier(h)
  BY DEF Intact, Strong
<1>3. h =< pos
  BY <1>1, <1>2 DEF Frontier, DoneBefore
<1>4. \A id \in Uses(C(pos)) : Loadable(id)
  <2>1. CASE canwrite
    <3>1. Updating /\ ToCome = pos
      BY <2>1 DEF Updating, ToCome, Ahead, Running
    <3>2. Available(h)
      BY <1>2 DEF Frontier
    <3>3. \A id \in Uses(C(pos)) : Kept(id)
      BY <1>1, <1>3, <3>1, <3>2 DEF Available
    <3> QED BY <1>1, <2>1, <3>3 DEF Kept, Loadable
  <2>2. CASE ~canwrite
    <3>1. Verifying /\ Ahead = pos
      BY <2>2 DEF Verifying, Ahead, Running
    <3>2. VerifyLoads(h)
      BY <1>2, <3>1 DEF Frontier
    <3>3. pos >= h /\ pos >= Ahead
      BY <1>1, <1>3, <3>1
    <3>4. \A id \in Uses(C(pos)) :
            Loadable(id) \/ \E j \in 1 .. N : Ahead =< j /\ j < pos /\ Stashes(j, id)
      BY <3>2, <3>3, Zenon DEF VerifyLoads
    <3>5. \A j \in 1 .. N : ~(Ahead =< j /\ j < pos)
      BY <1>1, <3>1
    <3> QED BY <3>4, <3>5, Zenon
  <2> QED BY <2>1, <2>2, Zenon
<1>5. CASE Pristine(Reads(C(pos)))
  <2>1. unreadable \cap Uses(C(pos)) = {}
    OBVIOUS
  <2> QED BY <1>1, <1>4, <1>5, <2>1, SourceLoads, Zenon
<1>6. CASE ~Pristine(Reads(C(pos)))
  <2>1. h = pos /\ ~Pristine(Reads(C(pos)) \cap Writes(C(pos)))
    BY <1>1, <1>2, <1>3, <1>6, ReadsPristine, Zenon DEF Frontier
  <2>2. Overlap(C(pos)) /\ ~Pristine(Writes(C(pos)))
    BY <2>1 DEF Pristine, Overlap
  <2>3. C(pos).srchash \in stash
    BY <1>2, <2>1, <2>2 DEF Frontier, FrontierCovered
  <2>4. ~canwrite => C(pos).srchash \notin DOMAIN stash_map
    BY <2>3 DEF Intact, Strong, VerifyState, InVerify, Running
  <2> QED BY <1>1, <2>2, <2>3, <2>4 DEF LoadStash
<1> QED BY <1>5, <1>6, Zenon

-----------------------------------------------------------------------------
(* Steps that leave the partition alone *)

LEMMA FrontierStays ==
  ASSUME UNCHANGED <<list, dev>>, stash \subseteq stash', NEW h
  PROVE  /\ DoneBefore(h) => DoneBefore(h)'
         /\ UntouchedAfter(h) => UntouchedAfter(h)'
         /\ FrontierCovered(h) => FrontierCovered(h)'
<1>1. N' = N /\ \A i : C(i)' = C(i)
  BY DEF N, C
<1>2. \A i : TargetDone(C(i))' <=> TargetDone(C(i))
  BY DEF TargetDone, C
<1>3. \A S : Pristine(S)' <=> Pristine(S)
  BY DEF Pristine
<1>4. DoneBefore(h) => DoneBefore(h)'
  BY <1>1, <1>2 DEF DoneBefore, Copies
<1>5. UntouchedAfter(h) => UntouchedAfter(h)'
  BY <1>1 DEF UntouchedAfter, Writes
<1>6. FrontierCovered(h) => FrontierCovered(h)'
  BY <1>1, <1>2, <1>3 DEF FrontierCovered, Copies, Writes, Overlap, Reads, Pristine
<1> QED BY <1>4, <1>5, <1>6

LEMMA AvailableStays ==
  ASSUME UNCHANGED <<list, dev>>, ToCome' =< ToCome, ToCome \in Nat, ToCome' \in Nat,
         N \in Nat, NEW h \in Nat, Available(h), \A id : Kept(id) => Kept(id)'
  PROVE  Available(h)'
<1>1. N' = N /\ \A i : C(i)' = C(i)
  BY DEF N, C
<1>2. \A i : TargetDone(C(i))' <=> TargetDone(C(i))
  BY DEF TargetDone, C
<1>3. \A j, id : Stashes(j, id)' <=> Stashes(j, id)
  BY <1>1 DEF Stashes, Pristine, Reads, C
<1> SUFFICES ASSUME NEW i \in 1 .. N, i >= h, Copies(C(i)), ~TargetDone(C(i)),
                    NEW id \in Uses(C(i)), ~Kept(id)
             PROVE  \E j \in 1 .. N : ToCome' =< j /\ j < i /\ Stashes(j, id)
  BY <1>1, <1>2, <1>3 DEF Available, Uses, Copies
<1>4. PICK j \in 1 .. N : ToCome =< j /\ j < i /\ Stashes(j, id)
  BY DEF Available
<1> QED BY <1>4

LEMMA ToComeType == TypeOK => ToCome \in Nat /\ 1 =< ToCome /\ Ahead \in Nat /\ 1 =< Ahead
BY DEF TypeOK, ParamsOK, ToCome, Ahead

(* The call ends or is interrupted: the next one starts from the first      *)
(* command.                                                                 *)
LEMMA Stopping ==
  ASSUME Intact, UNCHANGED <<list, dev, stash, freestash>>, bad' = {}, ~isunresumable',
         pc' \in {"pbiudone", "exited", "idle"}, VerifyState'
  PROVE  Strong'
<1>1. pc' \notin Running /\ pc' # "delete"
  BY DEF Running
<1>2. N \in Nat /\ N' = N
  BY ListFacts DEF Intact, N
<1>3. PICK h \in 1 .. N + 1 : Frontier(h)
  BY DEF Intact, Strong
<1>4. Available(h)'
  <2>1. ToCome' = 1 /\ ToCome \in Nat /\ 1 =< ToCome
    BY <1>1, ToComeType DEF ToCome, Updating, Intact
  <2>2. \A id : Kept(id) => Kept(id)'
    BY DEF Kept
  <2> QED BY <1>2, <1>3, <2>1, <2>2, AvailableStays DEF Frontier
<1>5. DoneBefore(h)' /\ UntouchedAfter(h)' /\ FrontierCovered(h)'
  BY <1>3, FrontierStays DEF Frontier
<1>6. Frontier(h)'
  BY <1>1, <1>4, <1>5 DEF Frontier, Updating, Verifying
<1>7. Executing'
  BY <1>1 DEF Executing, Updating, Running
<1> QED BY <1>2, <1>6, <1>7 DEF Strong

LEMMA StartUpdaterStrong == Intact /\ StartUpdater => Strong'
<1> SUFFICES ASSUME Intact, StartUpdater PROVE Strong'
  OBVIOUS
<1>1. \A id \in DOMAIN stash_map' : FALSE
  BY DEF StartUpdater
<1>2. VerifyState'
  BY <1>1 DEF StartUpdater, VerifyState, InVerify, Running
<1> QED BY <1>2, Stopping DEF StartUpdater, partition, cache, params, Intact, Strong

LEMMA KillStrong == Intact /\ Kill => Strong'
<1> SUFFICES ASSUME Intact, Kill PROVE Strong'
  OBVIOUS
<1>1. VerifyState'
  BY DEF Kill, VerifyState, InVerify, Running
<1> QED BY <1>1, Stopping DEF Kill, partition, cache, params, Intact, Strong

(* Loss of power and rot are excluded. *)
LEMMA OtherFaults == ~PowerLoss /\ ~Rot
BY ResumeAssumption DEF ResumeAssumption, PowerLoss, Rot, Fault

LEMMA PbiudoneStrong == Intact /\ Pbiudone => Strong'
<1> SUFFICES ASSUME Intact, Pbiudone PROVE Strong'
  OBVIOUS
<1>0. ~isunresumable /\ bad = {} /\ VerifyState
  BY DEF Intact, Strong
<1>1. UNCHANGED <<list, dev, stash, freestash, bad, isunresumable, canwrite, createdstash,
                  stash_map>>
  BY DEF Pbiudone, cache, params
<1>2. CASE ~canwrite /\ createdstash
  <2>1. pc' = "delete" /\ stash = {} /\ step' = step
    BY <1>0, <1>2 DEF Pbiudone, VerifyState, InVerify
  <2>2. VerifyState'
    BY <1>0, <1>1, <1>2, <2>1 DEF VerifyState, InVerify
  <2>3. PICK h \in 1 .. N + 1 : Frontier(h)
    BY DEF Intact, Strong
  <2>4. N \in Nat /\ N' = N
    BY <1>1, ListFacts DEF Intact, N
  <2>5. ToCome' = 1 /\ ToCome = 1
    BY <2>1 DEF ToCome, Updating, Running, Pbiudone
  <2>6. Available(h)'
    BY <1>1, <2>3, <2>4, <2>5, AvailableStays DEF Frontier, Kept
  <2>7. Frontier(h)'
    BY <1>1, <1>2, <2>1, <2>3, <2>6, FrontierStays, Zenon DEF Frontier, Updating, Verifying, Running
  <2>8. Executing'
    BY <2>1 DEF Executing, Updating, Running
  <2> QED BY <1>0, <1>1, <2>2, <2>4, <2>7, <2>8 DEF Strong
<1>3. CASE ~(~canwrite /\ createdstash)
  <2>1. Return(canwrite, rc)
    BY <1>0, <1>3 DEF Pbiudone
  <2>2. pc' \in {"exited", "idle"} /\ (pc' = "idle" => ~canwrite)
    BY <2>1 DEF Return
  <2>3. ~canwrite => DOMAIN stash_map \cap stash = {}
    BY <1>0 DEF Pbiudone, VerifyState, InVerify
  <2>4. VerifyState'
    BY <1>1, <2>2, <2>3 DEF VerifyState, InVerify, Running
  <2> QED BY <1>0, <1>1, <2>2, <2>4, Stopping
<1> QED BY <1>2, <1>3

LEMMA CommandsDoneStrong == Intact /\ CommandsDone => Strong'
<1> SUFFICES ASSUME Intact, CommandsDone PROVE Strong'
  OBVIOUS
<1>0. ~isunresumable /\ bad = {} /\ VerifyState
  BY DEF Intact, Strong
<1>1. UNCHANGED <<list, dev, stash, freestash, bad, isunresumable, canwrite, createdstash,
                  stash_map, step, pos>>
  BY DEF CommandsDone, cache, params, partition, process
<1>2. CASE canwrite
  <2>1. PICK h \in 1 .. N + 1 : Frontier(h)
    BY DEF Intact, Strong
  <2>2. N \in Nat /\ N' = N /\ pos \in Nat \ {0} /\ pos \notin 1 .. N
    BY <1>1, ListFacts DEF Intact, N, CommandsDone, TypeOK, ParamsOK
  <2>3. h = N + 1
    BY <1>2, <2>1, <2>2 DEF CommandsDone, Frontier, Updating, Running
  <2>4. pc' = "delete" /\ pc' \notin Running
    BY <1>2 DEF CommandsDone, Running
  <2>5. ToCome' = 1 /\ ToCome \in Nat /\ 1 =< ToCome
    BY <2>4, ToComeType DEF ToCome, Updating, Intact
  <2>6. Available(h)'
    BY <1>1, <2>1, <2>2, <2>5, AvailableStays DEF Frontier, Kept
  <2>7. Frontier(h)'
    BY <1>1, <2>1, <2>2, <2>3, <2>4, <2>6, FrontierStays, Zenon DEF Frontier, Updating, Verifying
  <2>8. VerifyState' /\ Executing'
    BY <1>1, <1>2, <2>4 DEF VerifyState, InVerify, Executing, Updating, Running
  <2> QED BY <1>0, <1>1, <2>2, <2>7, <2>8, Zenon DEF Strong
<1>3. CASE ~canwrite
  <2>1. pc' = "pbiudone"
    BY <1>3 DEF CommandsDone
  <2>2. VerifyState'
    BY <1>0, <1>1, <1>3, <2>1 DEF CommandsDone, VerifyState, InVerify, Running
  <2> QED BY <1>0, <1>1, <2>1, <2>2, Stopping
<1> QED BY <1>2, <1>3

LEMMA DeleteStashStrong == Intact /\ DeleteStash => Strong'
<1> SUFFICES ASSUME Intact, DeleteStash PROVE Strong'
  OBVIOUS
<1>0. ~isunresumable /\ bad = {} /\ VerifyState
  BY DEF Intact, Strong
<1>1. /\ UNCHANGED <<list, dev, freestash, isunresumable, canwrite, createdstash, stash_map>>
      /\ bad' = {}
      /\ stash' \subseteq stash
      /\ pc = "delete"
  BY <1>0 DEF DeleteStash, params, partition, FreeStash
<1>2. N \in Nat /\ N' = N
  BY <1>1, ListFacts DEF Intact, N
<1>3. ~canwrite => createdstash /\ stash = {}
  BY <1>0, <1>1 DEF VerifyState, InVerify
<1>4. pc' \in {"delete", "pbiudone", "exited", "idle"}
  BY <1>1 DEF DeleteStash, Return
<1>5. pc' = "delete" => canwrite
  BY <1>1, <1>3 DEF DeleteStash, Return
<1>6. pc' = "idle" => ~canwrite
  BY <1>1 DEF DeleteStash, Return
<1>7. Executing'
  BY <1>4 DEF Executing, Updating, Running
<1>8. VerifyState'
  BY <1>1, <1>3, <1>4, <1>5, <1>6 DEF VerifyState, InVerify, Running
<1>9. \E h \in 1 .. N + 1 : Frontier(h)'
  <2>1. PICK h \in 1 .. N + 1 : Frontier(h)
    BY DEF Intact, Strong
  <2>2. ToCome' = 1 /\ ToCome = 1
    BY <1>1, <1>4 DEF ToCome, Updating, Running
  <2>3. CASE canwrite
    <3>1. h = N + 1
      BY <1>1, <2>1, <2>3, Zenon DEF Frontier
    <3>2. DoneBefore(h)' /\ UntouchedAfter(h)'
      <4>1. \A i : C(i)' = C(i) /\ (TargetDone(C(i))' <=> TargetDone(C(i)))
        BY <1>1 DEF C, TargetDone
      <4> QED BY <1>1, <1>2, <2>1, <4>1
              DEF Frontier, DoneBefore, UntouchedAfter, Copies, Writes, C
    <3>3. FrontierCovered(h)' /\ Available(h)'
      BY <1>2, <3>1 DEF FrontierCovered, Available
    <3> QED BY <1>2, <1>4, <3>1, <3>2, <3>3 DEF Frontier, Updating, Verifying, Running
  <2>4. CASE ~canwrite
    <3>1. stash' = stash
      BY <1>1, <1>3, <2>4
    <3>2. Available(h)'
      BY <1>1, <1>2, <2>1, <2>2, <3>1, AvailableStays DEF Frontier, Kept
    <3> QED BY <1>1, <1>4, <2>1, <2>4, <3>1, <3>2, FrontierStays
            DEF Frontier, Updating, Verifying, Running
  <2> QED BY <2>3, <2>4
<1> QED BY <1>0, <1>1, <1>2, <1>7, <1>8, <1>9 DEF Strong

LEMMA BeginStrong ==
  ASSUME Intact, NEW dryrun \in BOOLEAN, PerformBlockImageUpdate(dryrun),
         dryrun => step # "verified"
  PROVE  Strong'
<1>0. bad = {} /\ VerifyState /\ pc = "idle" /\ TypeOK
  BY DEF Intact, Strong, PerformBlockImageUpdate
<1>1. /\ UNCHANGED <<list, dev, stash, bad, stash_map>>
      /\ freestash' = <<>> /\ ~isunresumable' /\ pos' = 1 /\ canwrite' = ~dryrun
  BY DEF PerformBlockImageUpdate, CreateStash, CannotBegin, cache, partition
<1>2. N \in Nat /\ N' = N
  BY <1>0, <1>1, ListFacts DEF N
<1>3. /\ pc' \in {"cmd", "exited", "idle"}
      /\ pc' = "cmd" => createdstash' = ~stashDir
      /\ pc' = "idle" => dryrun
  BY DEF PerformBlockImageUpdate, CreateStash, CannotBegin, Return
<1>4. dryrun => DOMAIN stash_map \cap stash = {}
  BY <1>0 DEF VerifyState
<1>5. ~stashDir => stash = {}
  BY <1>0 DEF TypeOK, ControlOK
<1>6. VerifyState'
  BY <1>1, <1>3, <1>4, <1>5, Zenon DEF VerifyState, InVerify, Running
<1>7. Executing'
  BY <1>1, <1>3 DEF Executing, Updating, Running, Filling
<1>8. \E h \in 1 .. N + 1 : Frontier(h)'
  <2>1. PICK h \in 1 .. N + 1 : Frontier(h)
    BY DEF Intact, Strong
  <2>2. ToCome' = 1 /\ ToCome = 1
    BY <1>0, <1>1, <1>3 DEF ToCome, Updating, Running, Ahead
  <2>3. Available(h)'
    BY <1>1, <1>2, <2>1, <2>2, AvailableStays DEF Frontier, Kept
  <2>4. ASSUME Verifying' PROVE VerifyLoads(h)'
    <3>1. Ahead' = 1 /\ ~canwrite' /\ dryrun
      BY <1>1, <1>3, <2>4, Zenon DEF Ahead, Verifying, Running
    <3>2. \A id : Kept(id)' => Loadable(id)'
      BY <1>1, <1>4, <3>1 DEF Kept, Loadable
    <3> QED BY <2>2, <2>3, <3>1, <3>2, Zenon DEF Available, VerifyLoads
  <2> QED
    BY <1>1, <1>2, <1>3, <2>1, <2>3, <2>4, FrontierStays
    DEF Frontier, Updating, Running, Filling
<1> QED BY <1>0, <1>1, <1>2, <1>6, <1>7, <1>8 DEF Strong

-----------------------------------------------------------------------------
(* Steps of a command that leave the partition alone *)

(* A stash command that is passed has left its stash behind. *)
LEMMA AvailableMoves ==
  ASSUME UNCHANGED <<list, dev>>, NEW h, Available(h),
         \A i \in 1 .. N : i >= h /\ Copies(C(i)) =>
           \A id \in Uses(C(i)) :
             /\ Kept(id) => Kept(id)'
             /\ \A j \in 1 .. N : ToCome =< j /\ Stashes(j, id) => Kept(id)' \/ ToCome' =< j
  PROVE  Available(h)'
<1>1. N' = N /\ \A i : C(i)' = C(i)
  BY DEF N, C
<1>2. \A i : TargetDone(C(i))' <=> TargetDone(C(i))
  BY Zenon DEF TargetDone, C
<1>3. \A j, id : Stashes(j, id)' <=> Stashes(j, id)
  BY <1>1, Zenon DEF Stashes, Pristine, Reads, C
<1> SUFFICES ASSUME NEW i \in 1 .. N, i >= h, Copies(C(i)), ~TargetDone(C(i)),
                    NEW id \in Uses(C(i))
             PROVE  Kept(id)' \/ \E j \in 1 .. N : ToCome' =< j /\ j < i /\ Stashes(j, id)
  BY <1>1, <1>2, <1>3 DEF Available, Uses, Copies
<1>4. CASE Kept(id)
  BY <1>4
<1>5. CASE ~Kept(id)
  <2>1. PICK j \in 1 .. N : ToCome =< j /\ j < i /\ Stashes(j, id)
    BY <1>5 DEF Available
  <2> QED BY <2>1
<1> QED BY <1>4, <1>5

LEMMA VerifyLoadsMoves ==
  ASSUME UNCHANGED <<list, dev>>, Ahead \in Nat, Ahead' \in Nat, Ahead =< Ahead', N \in Nat,
         NEW h, VerifyLoads(h),
         \A i \in 1 .. N : i >= Ahead' /\ Copies(C(i)) =>
           \A id \in Uses(C(i)) :
             /\ Loadable(id) => Loadable(id)'
             /\ \A j \in 1 .. N : Ahead =< j /\ Stashes(j, id) =>
                  Loadable(id)' \/ Ahead' =< j
  PROVE  VerifyLoads(h)'
<1>1. N' = N /\ \A i : C(i)' = C(i)
  BY Zenon DEF N, C
<1>2. \A i : TargetDone(C(i))' <=> TargetDone(C(i))
  BY Zenon DEF TargetDone, C
<1>3. \A j, id : Stashes(j, id)' <=> Stashes(j, id)
  BY <1>1 DEF Stashes, Pristine, Reads, C
<1> SUFFICES ASSUME NEW i \in 1 .. N, i >= h, i >= Ahead', Copies(C(i)), ~TargetDone(C(i)),
                    NEW id \in Uses(C(i))
             PROVE  \/ Loadable(id)'
                    \/ \E j \in 1 .. N : Ahead' =< j /\ j < i /\ Stashes(j, id)
  BY <1>1, <1>2, <1>3, Zenon DEF VerifyLoads, Uses, Copies
<1>4. CASE Loadable(id)
  BY <1>4, Zenon
<1>5. CASE ~Loadable(id)
  <2>1. i >= Ahead
    OBVIOUS
  <2>2. PICK j \in 1 .. N : Ahead =< j /\ j < i /\ Stashes(j, id)
    BY <1>5, <2>1, Zenon DEF VerifyLoads
  <2> QED BY <2>2, Zenon
<1> QED BY <1>4, <1>5, Zenon

LEMMA EndCommandStrong == Intact /\ EndCommand => Strong'
<1> SUFFICES ASSUME Intact, EndCommand PROVE Strong'
  OBVIOUS
<1>0. ~isunresumable /\ bad = {} /\ VerifyState /\ Executing /\ TypeOK /\ pc = "end"
  BY DEF Intact, Strong, EndCommand
<1>1. /\ UNCHANGED <<list, dev, stash, bad, stash_map, step, freestash, isunresumable,
                     canwrite, createdstash>>
  BY DEF EndCommand, cache, process
<1>2. CASE pc' = "pbiudone"
  <2>1. VerifyState'
    BY <1>0, <1>1, <1>2 DEF VerifyState, InVerify, Running
  <2> QED BY <1>0, <1>1, <1>2, <2>1, Stopping
<1>3. CASE pc' = "cmd" /\ pos' = pos + 1
  <2>1. N \in Nat /\ N' = N /\ pos \in 1 .. N
    BY <1>0, <1>1, ListFacts, Zenon DEF N, TypeOK, ControlOK, Running
  <2>2. Executing' /\ VerifyState'
    BY <1>0, <1>1, <1>3 DEF Executing, Updating, Filling, VerifyState, InVerify, Running
  <2>3. Ahead' = Ahead /\ ToCome' = ToCome
    BY <1>0, <1>1, <1>3 DEF Ahead, ToCome, Updating, Running
  <2>4. PICK h \in 1 .. N + 1 : Frontier(h)
    BY DEF Intact, Strong
  <2>5. Available(h)'
    BY <1>1, <2>3, <2>4, AvailableMoves DEF Frontier, Kept
  <2>6. ASSUME Verifying' PROVE VerifyLoads(h)'
    <3>1. \A id : Loadable(id)' <=> Loadable(id)
      BY <1>1 DEF Loadable, MapVerifies
    <3>2. VerifyLoads(h)
      BY <1>0, <1>1, <2>4, <2>6 DEF Frontier, Verifying, Running
    <3>3. Ahead \in Nat /\ Ahead' \in Nat /\ Ahead =< Ahead'
      BY <1>0, <2>3, ToComeType
    <3>4. \A j : Ahead =< j => Ahead' =< j
      BY <2>3
    <3> QED BY <1>1, <2>1, <3>1, <3>2, <3>3, <3>4, VerifyLoadsMoves, Zenon
  <2>7. DoneBefore(h)' /\ UntouchedAfter(h)' /\ FrontierCovered(h)'
    BY <1>1, <2>4, FrontierStays, Zenon DEF Frontier
  <2>8. freestash' = <<>> /\ ~Filling'
    BY <1>0, <1>1, <1>3 DEF Executing, Filling, Running
  <2>9. CASE ~canwrite \/ pos < h
    <3>1. Frontier(h)'
      BY <1>1, <1>3, <2>1, <2>4, <2>5, <2>6, <2>7, <2>8, <2>9 DEF Frontier, Updating
    <3> QED BY <1>0, <1>1, <2>1, <2>2, <3>1 DEF Strong
  <2>10. CASE canwrite /\ ~(pos < h)
    <3>1. h = pos /\ h + 1 \in 1 .. N + 1
      BY <1>0, <2>1, <2>4, <2>10, SMTT(15) DEF Frontier, Updating, Running
    <3>2. Copies(C(h)) => TargetDone(C(h))
      BY <1>0, <2>10, <3>1 DEF Executing, Updating, Running
    <3>3. \A i : C(i)' = C(i) /\ (TargetDone(C(i))' <=> TargetDone(C(i)))
      BY <1>1 DEF C, TargetDone
    <3>4. DoneBefore(h + 1)'
      BY <2>1, <2>7, <3>1, <3>2, <3>3 DEF DoneBefore, Copies
    <3>5. UntouchedAfter(h + 1)'
      BY <2>1, <2>7, <3>1 DEF UntouchedAfter
    <3>6. FrontierCovered(h + 1)'
      <4>1. ASSUME h + 1 \in 1 .. N PROVE Pristine(Writes(C(h + 1)))
        <5>1. Writes(C(h + 1)) \subseteq Blocks
          BY <1>0, <4>1, ListFacts, CommandFacts
        <5>2. \A i \in 1 .. N : i =< h => Writes(C(i)) \cap Writes(C(h + 1)) = {}
          BY <1>0, <2>1, <4>1, ListFacts, WritesApart
        <5> QED BY <2>4, <5>1, <5>2 DEF Frontier, UntouchedAfter, Pristine
      <4> QED BY <1>1, <2>1, <3>3, <4>1 DEF FrontierCovered, Pristine
    <3>7. Available(h + 1)'
      BY <2>1, <2>5, <3>1 DEF Available
    <3>8. Frontier(h + 1)'
      BY <1>1, <1>3, <2>1, <2>8, <2>10, <3>1, <3>4, <3>5, <3>6, <3>7
      DEF Frontier, Updating, Verifying
    <3> QED BY <1>0, <1>1, <2>1, <2>2, <3>1, <3>8, Zenon DEF Strong
  <2> QED BY <2>9, <2>10, Zenon
<1> QED BY <1>2, <1>3 DEF EndCommand, Abort

LEMMA FreeOverlappingStrong == Intact /\ FreeOverlapping => Strong'
<1> SUFFICES ASSUME Intact, FreeOverlapping PROVE Strong'
  OBVIOUS
<1>0. ~isunresumable /\ bad = {} /\ VerifyState /\ Executing /\ TypeOK /\ pc = "free"
  BY DEF Intact, Strong, FreeOverlapping
<1>1. /\ UNCHANGED <<list, dev, stash_map, step, isunresumable, canwrite, createdstash, pos>>
      /\ pc' = "end" /\ freestash' = <<>> /\ bad' = {}
      /\ stash' = IF freestash # <<>> THEN stash \ {freestash} ELSE stash
  BY <1>0, Zenon DEF FreeOverlapping, FreeStash, cache, process, partition
<1>2. N \in Nat /\ N' = N /\ pos \in 1 .. N /\ \A i : C(i)' = C(i)
  BY <1>0, <1>1, ListFacts, Zenon DEF N, C, TypeOK, ControlOK, Running
<1>3. \A i : TargetDone(C(i))' <=> TargetDone(C(i))
  BY <1>1, Zenon DEF TargetDone, C
<1>4. /\ C(pos).op # "stash"
      /\ freestash # <<>> => canwrite /\ Copies(C(pos)) /\ freestash = C(pos).srchash
      /\ canwrite /\ Copies(C(pos)) => TargetDone(C(pos))
  BY <1>0 DEF Executing, Updating, Running
<1>5. Executing' /\ VerifyState'
  BY <1>0, <1>1, <1>2, <1>3, <1>4, Zenon
  DEF Executing, Updating, Filling, VerifyState, InVerify, Running, Copies
<1>6. Ahead = pos /\ Ahead' = pos + 1
  BY <1>0, <1>1 DEF Ahead
<1>7. ToCome = (IF canwrite THEN pos ELSE 1) /\ ToCome' = (IF canwrite THEN pos + 1 ELSE 1)
  BY <1>0, <1>1, <1>6 DEF ToCome, Updating, Running
<1>8. \A j \in 1 .. N : \A id : Stashes(j, id) => j # pos
  BY <1>4 DEF Stashes
<1>9. PICK h \in 1 .. N + 1 : Frontier(h)
  BY DEF Intact, Strong
<1>10. Available(h)'
  <2>1. \A id : Kept(id) => Kept(id)'
    BY <1>1 DEF Kept
  <2>2. \A j \in 1 .. N : \A id : ToCome =< j /\ Stashes(j, id) => ToCome' =< j
    BY <1>2, <1>7, <1>8
  <2> QED BY <1>1, <1>9, <2>1, <2>2, AvailableMoves DEF Frontier
<1>11. DoneBefore(h)' /\ UntouchedAfter(h)'
  BY <1>1, <1>2, <1>3, <1>9 DEF Frontier, DoneBefore, UntouchedAfter, Copies, Writes
<1>12. FrontierCovered(h)'
  <2>1. CASE freestash = <<>>
    BY <1>1, <1>9, <2>1, FrontierStays, Zenon DEF Frontier
  <2>2. CASE freestash # <<>>
    <3>1. h = pos
      BY <1>0, <1>4, <1>9, <2>2 DEF Frontier, Updating, Running
    <3> QED BY <1>2, <1>3, <1>4, <2>2, <3>1, Zenon DEF FrontierCovered
  <2> QED BY <2>1, <2>2
<1>13. ASSUME Verifying' PROVE VerifyLoads(h)'
  <2>1. ~canwrite /\ stash' = stash /\ VerifyLoads(h)
    BY <1>0, <1>1, <1>4, <1>9, <1>13, Zenon DEF Frontier, Verifying, Running
  <2>2. \A id : Loadable(id)' <=> Loadable(id)
    BY <1>0, <1>1, <2>1 DEF Loadable, MapVerifies
  <2>3. Ahead \in Nat /\ Ahead' \in Nat /\ Ahead =< Ahead'
    BY <1>2, <1>6
  <2>4. \A j \in 1 .. N : \A id : Ahead =< j /\ Stashes(j, id) => Ahead' =< j
    BY <1>2, <1>6, <1>8
  <2> QED BY <1>1, <1>2, <2>1, <2>2, <2>3, <2>4, VerifyLoadsMoves, Zenon
<1>14. Frontier(h)'
  BY <1>0, <1>1, <1>9, <1>10, <1>11, <1>12, <1>13, Zenon DEF Frontier, Updating, Filling, Running
<1> QED BY <1>0, <1>1, <1>2, <1>5, <1>14, Zenon DEF Strong

LEMMA SyncStashDirectoryStrong == Intact /\ SyncStashDirectory => Strong'
<1> SUFFICES ASSUME Intact, SyncStashDirectory PROVE Strong'
  OBVIOUS
<1>0. ~isunresumable /\ bad = {} /\ VerifyState /\ Executing /\ TypeOK /\ pc = "dirsync"
  BY DEF Intact, Strong, SyncStashDirectory
<1>1. UNCHANGED <<list, dev, stash, bad, stash_map, step, isunresumable, canwrite,
                  createdstash, freestash, buffer, pos, wpos>>
  BY Zenon DEF SyncStashDirectory, process, params, partition
<1>2. /\ N \in Nat /\ N' = N /\ pos \in 1 .. N /\ \A i : C(i)' = C(i)
      /\ canwrite
      /\ C(pos).op = "stash" \/ Copies(C(pos))
  BY <1>0, <1>1, ListFacts, Zenon DEF N, C, Cmd, TypeOK, ControlOK, Running, Copies
<1>3. CASE pc' = "pbiudone"
  <2>1. VerifyState'
    BY <1>1, <1>2, <1>3, Zenon DEF VerifyState, InVerify
  <2> QED BY <1>0, <1>1, <1>3, <2>1, Stopping, Zenon
<1>4. CASE pc' = (IF C(pos).op = "stash" THEN "end" ELSE "seek")
  <2>1. C(pos).srchash \in stash
    BY <1>0, Zenon DEF Executing
  <2>2. C(pos).op = "stash" => freestash = <<>> /\ ~Copies(C(pos))
    BY <1>0 DEF Executing, Running, Copies
  <2>3. VerifyState'
    BY <1>1, <1>2, <1>4, Zenon DEF VerifyState, InVerify
  <2>4. \A i : TargetDone(C(i))' <=> TargetDone(C(i))
    BY <1>1 DEF TargetDone, C
  <2>5. Executing'
    BY <1>0, <1>1, <1>2, <1>4, <2>2, <2>4, Zenon
    DEF Executing, Updating, Filling, Running, Copies, Kept, Uses, Overlap, Reads, Writes
  <2>6. PICK h \in 1 .. N + 1 : Frontier(h)
    BY DEF Intact, Strong
  <2>7. ToCome = pos /\ ToCome' = IF C(pos).op = "stash" THEN pos + 1 ELSE pos
    BY <1>0, <1>1, <1>2, <1>4, Zenon DEF ToCome, Ahead, Updating, Running
  <2>8. Available(h)'
    <3>1. \A id : Kept(id) => Kept(id)'
      BY <1>1 DEF Kept
    <3>2. \A j \in 1 .. N : \A id : ToCome =< j /\ Stashes(j, id) => Kept(id)' \/ ToCome' =< j
      <4> SUFFICES ASSUME NEW j \in 1 .. N, NEW id, ToCome =< j, Stashes(j, id)
                   PROVE  Kept(id)' \/ ToCome' =< j
        OBVIOUS
      <4>1. CASE j = pos
        <5>1. C(pos).op = "stash" /\ id = C(pos).srchash
          BY <4>1 DEF Stashes
        <5> QED BY <1>1, <2>1, <2>2, <5>1, Zenon DEF Kept
      <4>2. CASE j # pos
        <5>1. pos \in Nat /\ j \in Nat /\ pos =< j
          BY <1>2, <2>7
        <5>2. ToCome' = pos \/ ToCome' = pos + 1
          BY <2>7
        <5> QED BY <4>2, <5>1, <5>2
      <4> QED BY <4>1, <4>2
    <3> QED BY <1>1, <2>6, <3>1, <3>2, AvailableMoves, Zenon DEF Frontier
  <2>9. DoneBefore(h)' /\ UntouchedAfter(h)' /\ FrontierCovered(h)'
    BY <1>1, <2>6, FrontierStays, Zenon DEF Frontier
  <2>10. Frontier(h)'
    BY <1>0, <1>1, <1>2, <1>4, <2>2, <2>6, <2>8, <2>9, Zenon
    DEF Frontier, Updating, Verifying, Filling, Running, Copies
  <2> QED BY <1>0, <1>1, <1>2, <2>3, <2>5, <2>6, <2>10, Zenon DEF Strong
<1> QED BY <1>3, <1>4 DEF SyncStashDirectory, Abort, Cmd, C

LEMMA ZeroNewEraseStrong == Intact /\ PerformCommandZeroNewErase => Strong'
<1> SUFFICES ASSUME Intact, PerformCommandZeroNewErase PROVE Strong'
  OBVIOUS
<1>0. ~isunresumable /\ bad = {} /\ VerifyState /\ Executing /\ TypeOK /\ pc = "cmd"
  BY DEF Intact, Strong, PerformCommandZeroNewErase
<1>1. /\ UNCHANGED <<list, dev, stash, bad, stash_map, step, freestash, isunresumable,
                     canwrite, createdstash, pos>>
      /\ pc' = IF canwrite THEN "seek" ELSE "end"
  BY Zenon DEF PerformCommandZeroNewErase, cache, process, partition
<1>2. /\ N \in Nat /\ N' = N /\ pos \in 1 .. N /\ \A i : C(i)' = C(i)
      /\ C(pos).op # "stash" /\ ~Copies(C(pos))
  BY <1>0, <1>1, ListFacts, Zenon DEF N, C, Cmd, PerformCommandZeroNewErase, Copies
<1>3. freestash = <<>>
  BY <1>0 DEF Executing, Running
<1>4. Executing' /\ VerifyState'
  BY <1>0, <1>1, <1>2, <1>3, Zenon
  DEF Executing, Updating, Filling, VerifyState, InVerify, Running, Copies
<1>5. \A j \in 1 .. N : \A id : Stashes(j, id) => j # pos
  BY <1>2 DEF Stashes
<1>6. Ahead = pos /\ Ahead' = IF canwrite THEN pos ELSE pos + 1
  BY <1>0, <1>1 DEF Ahead
<1>7. ToCome' = ToCome
  BY <1>0, <1>1, <1>6, Zenon DEF ToCome, Updating, Running
<1>8. PICK h \in 1 .. N + 1 : Frontier(h)
  BY DEF Intact, Strong
<1>9. Available(h)'
  BY <1>1, <1>7, <1>8, AvailableMoves, Zenon DEF Frontier, Kept
<1>10. DoneBefore(h)' /\ UntouchedAfter(h)' /\ FrontierCovered(h)'
  BY <1>1, <1>8, FrontierStays DEF Frontier
<1>11. ASSUME Verifying' PROVE VerifyLoads(h)'
  <2>1. ~canwrite /\ VerifyLoads(h)
    BY <1>0, <1>1, <1>8, <1>11, Zenon DEF Frontier, Verifying, Running
  <2>2. \A id : Loadable(id)' <=> Loadable(id)
    BY <1>1 DEF Loadable, MapVerifies
  <2>3. Ahead \in Nat /\ Ahead' \in Nat /\ Ahead =< Ahead'
    BY <1>2, <1>6
  <2>4. \A j \in 1 .. N : \A id : Ahead =< j /\ Stashes(j, id) => Ahead' =< j
    BY <1>2, <1>5, <1>6
  <2> QED BY <1>1, <1>2, <2>1, <2>2, <2>3, <2>4, VerifyLoadsMoves, Zenon
<1>12. Frontier(h)'
  BY <1>0, <1>1, <1>2, <1>3, <1>8, <1>9, <1>10, <1>11, Zenon
  DEF Frontier, Updating, Filling, Running, Copies
<1> QED BY <1>0, <1>1, <1>2, <1>4, <1>12 DEF Strong

LEMMA FreeStrong == Intact /\ PerformCommandFree => Strong'
<1> SUFFICES ASSUME Intact, PerformCommandFree PROVE Strong'
  OBVIOUS
<1> DEFINE id == C(pos).srchash
<1>0. ~isunresumable /\ bad = {} /\ VerifyState /\ Executing /\ TypeOK /\ pc = "cmd"
  BY Zenon DEF Intact, Strong, PerformCommandFree
<1>1. /\ UNCHANGED <<list, dev, step, freestash, isunresumable, canwrite, createdstash, pos>>
      /\ pc' = "end"
      /\ bad' = {}
      /\ stash' = IF createdstash \/ canwrite THEN stash \ {id} ELSE stash
      /\ stash_map' = [i \in DOMAIN stash_map \ {id} |-> stash_map[i]]
  BY <1>0, Zenon DEF PerformCommandFree, FreeStash, cache, params, partition, Cmd, C
<1>2. /\ N \in Nat /\ N' = N /\ pos \in 1 .. N /\ \A i : C(i)' = C(i)
      /\ C(pos).op = "free" /\ ~Copies(C(pos))
  BY <1>0, <1>1, ListFacts, Zenon DEF N, C, Cmd, PerformCommandFree, Copies
<1>3. freestash = <<>>
  BY <1>0 DEF Executing, Running
<1>4. ~canwrite => stash' = stash
  BY <1>0, <1>1 DEF VerifyState, InVerify, Running
<1>5. Executing' /\ VerifyState'
  BY <1>0, <1>1, <1>2, <1>3, <1>4, Zenon
  DEF Executing, Updating, Filling, VerifyState, InVerify, Running, Copies
<1>6. \A j \in 1 .. N : \A used : Stashes(j, used) => j # pos
  BY <1>2, Zenon DEF Stashes
<1>7. \A i \in 1 .. N : i > pos /\ Copies(C(i)) =>
        /\ id \notin Uses(C(i))
        /\ Overlap(C(i)) => C(i).srchash # id
  <2> SUFFICES ASSUME NEW i \in 1 .. N, i > pos, Copies(C(i))
               PROVE  id \notin Uses(C(i)) /\ (Overlap(C(i)) => C(i).srchash # id)
    OBVIOUS
  <2>1. ~Needs(C(i), id)
    BY <1>0, <1>2, FreedNotNeeded, Zenon
  <2> QED BY <2>1 DEF Needs, Uses
<1>8. Ahead = pos /\ Ahead' = pos + 1
  BY <1>0, <1>1, Zenon DEF Ahead
<1>9. ToCome = (IF canwrite THEN pos ELSE 1) /\ ToCome' = (IF canwrite THEN pos + 1 ELSE 1)
  BY <1>0, <1>1, <1>8 DEF ToCome, Updating, Running
<1>10. PICK h \in 1 .. N + 1 : Frontier(h)
  BY DEF Intact, Strong
<1>11. canwrite => pos =< h
  BY <1>0, <1>10, Zenon DEF Frontier, Updating, Running
<1>12. Available(h)'
  <2>1. \A i \in 1 .. N : i >= h /\ Copies(C(i)) =>
          \A used \in Uses(C(i)) : Kept(used) => Kept(used)'
    <3>1. \A i \in 1 .. N : canwrite /\ i >= h /\ Copies(C(i)) => i > pos
      BY <1>2, <1>11
    <3> QED BY <1>1, <1>4, <1>7, <3>1 DEF Kept
  <2>2. \A j \in 1 .. N : \A used : ToCome =< j /\ Stashes(j, used) => ToCome' =< j
    BY <1>2, <1>6, <1>9
  <2> QED BY <1>1, <1>10, <2>1, <2>2, AvailableMoves, Zenon DEF Frontier
<1>13. DoneBefore(h)' /\ UntouchedAfter(h)'
  <2>1. \A i : TargetDone(C(i))' <=> TargetDone(C(i))
    BY <1>1 DEF TargetDone, C
  <2> QED BY <1>1, <1>2, <1>10, <2>1, Zenon DEF Frontier, DoneBefore, UntouchedAfter, Copies, Writes
<1>14. FrontierCovered(h)'
  <2>1. CASE ~canwrite
    BY <1>1, <1>4, <1>10, <2>1, FrontierStays, Zenon DEF Frontier
  <2>2. CASE canwrite
    <3>1. SUFFICES ASSUME h \in 1 .. N, Copies(C(h)), ~TargetDone(C(h)), Overlap(C(h))
                   PROVE  Pristine(Writes(C(h))) \/ C(h).srchash \in stash'
      <4>1. TargetDone(C(h))' <=> TargetDone(C(h))
        BY <1>1, Zenon DEF TargetDone, C
      <4>2. Pristine(Writes(C(h)))' <=> Pristine(Writes(C(h)))
        BY <1>1, Zenon DEF Pristine, Writes, C
      <4> QED BY <1>2, <4>1, <4>2 DEF FrontierCovered, Copies, Overlap, Reads, Writes
    <3>2. h > pos
      BY <1>2, <1>11, <2>2, <3>1
    <3>3. C(h).srchash # id
      BY <1>7, <3>1, <3>2
    <3> QED BY <1>1, <1>10, <3>1, <3>3, Zenon DEF Frontier, FrontierCovered
  <2> QED BY <2>1, <2>2, Zenon
<1>15. ASSUME Verifying' PROVE VerifyLoads(h)'
  <2>1. ~canwrite /\ VerifyLoads(h)
    BY <1>0, <1>1, <1>10, <1>15, Zenon DEF Frontier, Verifying, Running
  <2>2. \A used : used # id => (Loadable(used)' <=> Loadable(used))
    BY <1>1, <1>4, <2>1 DEF Loadable, MapVerifies
  <2>3. Ahead \in Nat /\ Ahead' \in Nat /\ Ahead =< Ahead'
    BY <1>2, <1>8
  <2>4. \A j \in 1 .. N : \A used : Ahead =< j /\ Stashes(j, used) => Ahead' =< j
    BY <1>2, <1>6, <1>8
  <2>5. \A i \in 1 .. N : i >= Ahead' /\ Copies(C(i)) =>
          \A used \in Uses(C(i)) : Loadable(used) => Loadable(used)'
    <3>1. \A i \in 1 .. N : i >= Ahead' /\ Copies(C(i)) => id \notin Uses(C(i))
      BY <1>2, <1>7, <1>8
    <3> QED BY <2>2, <3>1, Zenon
  <2> QED BY <1>1, <1>2, <2>1, <2>3, <2>4, <2>5, VerifyLoadsMoves, Zenon
<1>16. Frontier(h)'
  BY <1>0, <1>1, <1>2, <1>3, <1>10, <1>11, <1>12, <1>13, <1>14, <1>15, Zenon
  DEF Frontier, Updating, Filling, Running
<1> QED BY <1>0, <1>1, <1>2, <1>5, <1>16, Zenon DEF Strong

(* A stash command leaves its stash behind if it could be made at all. *)
LEMMA StashData ==
  ASSUME TypeOK, NEW i \in 1 .. N, NEW id, Stashes(i, id)
  PROVE  [k \in DOMAIN C(i).src |-> dev[C(i).src[k]]] = id
<1>1. /\ C(i).op = "stash" /\ id = C(i).srchash
      /\ DOMAIN C(i).src = DOMAIN C(i).srchash
      /\ C(i).srchash \in Seq(Contents)
  BY Guarantees, ListFacts, CommandFacts, Zenon DEF Stashes
<1>2. \A k \in DOMAIN C(i).srchash : C(i).srchash[k] = Source[C(i).src[k]]
  BY <1>1, Guarantees, Zenon
<1>3. \A k \in DOMAIN C(i).src : dev[C(i).src[k]] = Source[C(i).src[k]]
  BY DEF Stashes, Pristine, Reads, Range
<1>4. id = [k \in DOMAIN id |-> id[k]]
  BY <1>1
<1> QED BY <1>1, <1>2, <1>3, <1>4

LEMMA StashStrong == Intact /\ PerformCommandStash => Strong' \/ overlooked'
<1> SUFFICES ASSUME Intact, PerformCommandStash, ~overlooked' PROVE Strong'
  OBVIOUS
<1> DEFINE id   == C(pos).srchash
           data == [k \in DOMAIN C(pos).src |-> dev[C(pos).src[k]]]
<1>0. ~isunresumable /\ bad = {} /\ VerifyState /\ Executing /\ TypeOK /\ pc = "cmd"
  BY Zenon DEF Intact, Strong, PerformCommandStash
<1>1. UNCHANGED <<list, dev, step, freestash, isunresumable, canwrite, createdstash, pos>>
  BY Zenon DEF PerformCommandStash, params, partition
<1>2. /\ N \in Nat /\ N' = N /\ pos \in 1 .. N /\ \A i : C(i)' = C(i)
      /\ C(pos).op = "stash" /\ ~Copies(C(pos))
  BY <1>0, <1>1, ListFacts DEF N, C, Cmd, PerformCommandStash, Copies
<1>3. freestash = <<>>
  BY <1>0 DEF Executing, Running
<1>4. PICK h \in 1 .. N + 1 : Frontier(h)
  BY DEF Intact, Strong
<1>5. Ahead = pos /\ ToCome = IF canwrite THEN pos ELSE 1
  BY <1>0 DEF Ahead, ToCome, Updating, Running
<1>6. /\ StashAfterLoad(id) = stash
      /\ LoadStash(id, TRUE) => Loadable(id)
      /\ ~canwrite /\ pc' # "pbiudone" /\ ~LoadStash(id, TRUE) => ~Loadable(id)
  <2>1. pc' # "pbiudone" /\ ~LoadStash(id, TRUE) => canwrite \/ id \notin unreadable
    BY Zenon DEF PerformCommandStash, Abort, Cmd, C
  <2> QED BY <1>0, <2>1, Zenon DEF StashAfterLoad, LoadStash, Loadable
<1>7. /\ bad' = {}
      /\ \/ /\ LoadStash(id, TRUE) /\ pc' = "end" /\ stash' = stash
            /\ stash_map' = stash_map
         \/ /\ data = id /\ canwrite /\ pc' = "dirsync" /\ stash' = stash \cup {id}
         \/ /\ ~LoadStash(id, TRUE) /\ ~(data = id /\ canwrite) /\ pc' = "end" /\ stash' = stash
            /\ stash_map' = [i \in DOMAIN stash_map \cup {id} |->
                               IF i = id THEN C(pos).src ELSE stash_map[i]]
         \/ /\ pc' = "pbiudone" /\ stash' = stash
            /\ canwrite \/ stash_map' = stash_map
  BY <1>0, <1>6, Zenon
  DEF PerformCommandStash, WriteStashDone, WriteStashNoSpace, WriteStashError, Abort, cache,
      Cmd, C
<1>8. CASE pc' = "pbiudone"
  <2>1. VerifyState'
    BY <1>0, <1>1, <1>7, <1>8, Zenon DEF VerifyState, InVerify, Running
  <2> QED BY <1>0, <1>1, <1>7, <1>8, <2>1, Stopping, Zenon
<1>9. CASE pc' \in {"end", "dirsync"}
  <2>1. stash \subseteq stash'
    BY <1>7, Zenon
  <2>2. DoneBefore(h)' /\ UntouchedAfter(h)' /\ FrontierCovered(h)'
    BY <1>1, <1>4, <2>1, FrontierStays DEF Frontier
  <2>3. Executing'
    BY <1>1, <1>2, <1>3, <1>7, <1>9, Zenon DEF Executing, Updating, Filling, Running, Copies
  <2>4. VerifyState'
    <3>1. ~canwrite /\ ~LoadStash(id, TRUE) => id \notin stash
      BY <1>0, <1>6, <1>9, Zenon DEF Loadable, VerifyState, InVerify, Running
    <3> QED BY <1>0, <1>1, <1>7, <1>9, <3>1, Zenon DEF VerifyState, InVerify, Running
  <2>5. Ahead' = IF pc' = "end" THEN pos + 1 ELSE pos
    BY <1>1 DEF Ahead
  <2>6. ToCome' = IF canwrite THEN Ahead' ELSE 1
    BY <1>1, <1>9, Zenon DEF ToCome, Updating, Running
  <2>7. Available(h)'
    <3>1. \A used : Kept(used) => Kept(used)'
      BY <1>1, <2>1, Zenon DEF Kept
    <3>2. \A j \in 1 .. N : \A used : ToCome =< j /\ Stashes(j, used) => Kept(used)' \/ ToCome' =< j
      <4> SUFFICES ASSUME NEW j \in 1 .. N, NEW used, ToCome =< j, Stashes(j, used), ~(ToCome' =< j)
                   PROVE  Kept(used)'
        OBVIOUS
      <4>1. j = pos /\ canwrite /\ pc' = "end"
        BY <1>2, <1>5, <2>5, <2>6
      <4>2. used = id /\ data = id
        BY <1>0, <4>1, StashData DEF Stashes
      <4>3. LoadStash(id, TRUE) /\ stash' = stash
        BY <1>7, <4>1, <4>2, Zenon
      <4> QED BY <1>1, <1>3, <1>6, <4>1, <4>2, <4>3, Zenon DEF Kept, Loadable
    <3> QED BY <1>1, <1>4, <3>1, <3>2, AvailableMoves DEF Frontier
  <2>8. ASSUME Verifying' PROVE VerifyLoads(h)'
    <3>1. ~canwrite /\ VerifyLoads(h)
      BY <1>0, <1>1, <1>4, <2>8 DEF Frontier, Verifying, Running
    <3>2. pc' = "end" /\ stash' = stash /\ Ahead' = pos + 1
      BY <1>7, <1>9, <2>5, <3>1, Zenon
    <3>3. Ahead \in Nat /\ Ahead' \in Nat /\ Ahead =< Ahead'
      BY <1>2, <1>5, <3>2
    <3>4. \A used : Loadable(used) => Loadable(used)'
      <4> SUFFICES ASSUME NEW used, Loadable(used) PROVE Loadable(used)'
        BY Zenon
      <4>1. \/ stash_map' = stash_map
            \/ /\ used # id
               /\ stash_map' = [i \in DOMAIN stash_map \cup {id} |->
                                  IF i = id THEN C(pos).src ELSE stash_map[i]]
        BY <1>6, <1>7, <3>1, <3>2, Zenon
      <4>2. /\ used \in DOMAIN stash_map' <=> used \in DOMAIN stash_map
            /\ used \in DOMAIN stash_map => stash_map'[used] = stash_map[used]
        BY <4>1
      <4> QED BY <1>1, <3>2, <4>2 DEF Loadable, MapVerifies
    <3>5. ASSUME NEW used, used = id, data = id PROVE Loadable(used)'
      <4>1. CASE LoadStash(id, TRUE)
        BY <1>6, <3>4, <3>5, <4>1, Zenon
      <4>2. CASE ~LoadStash(id, TRUE)
        <5>1. used \in DOMAIN stash_map' /\ stash_map'[used] = C(pos).src
          BY <1>7, <3>1, <3>2, <3>5, <4>2, Zenon
        <5>2. [k \in DOMAIN stash_map'[used] |-> dev'[stash_map'[used][k]]] = used
          BY <1>1, <3>5, <5>1
        <5> QED BY <1>1, <3>1, <5>1, <5>2 DEF Loadable, MapVerifies
      <4> QED BY <4>1, <4>2, Zenon
    <3>6. \A j \in 1 .. N : \A used :
            Ahead =< j /\ Stashes(j, used) => Loadable(used)' \/ Ahead' =< j
      <4> SUFFICES ASSUME NEW j \in 1 .. N, NEW used, Ahead =< j, Stashes(j, used), ~(Ahead' =< j)
                   PROVE  Loadable(used)'
        BY Zenon
      <4>1. j = pos
        BY <1>2, <1>5, <3>2
      <4>2. used = id /\ data = id
        BY <1>0, <4>1, StashData, Zenon DEF Stashes
      <4> QED BY <3>5, <4>2, Zenon
    <3> QED BY <1>1, <1>2, <3>1, <3>3, <3>4, <3>6, VerifyLoadsMoves, Zenon
  <2>9. Frontier(h)'
    BY <1>0, <1>1, <1>2, <1>3, <1>4, <1>9, <2>2, <2>7, <2>8, Zenon
    DEF Frontier, Updating, Filling, Running, Copies
  <2> QED BY <1>0, <1>1, <1>2, <1>4, <1>7, <2>3, <2>4, <2>9, Zenon DEF Strong
<1> QED BY <1>7, <1>8, <1>9, Zenon

(* The source of a copy: found where SourceFound says it is. *)
LEMMA LoadSourceStrong ==
  ASSUME Intact, pc = "cmd", pos \in 1 .. N, Copies(C(pos)), LoadSrcTgtVersion3(C(pos)), ~overlooked'
  PROVE  Strong'
<1> DEFINE id == C(pos).srchash
<1>0. ~isunresumable /\ bad = {} /\ VerifyState /\ Executing /\ TypeOK
  BY DEF Intact, Strong
<1>1. UNCHANGED <<list, dev, step, stash_map, canwrite, createdstash, pos>> /\ wpos' = 1
  BY Zenon DEF LoadSrcTgtVersion3, process, partition
<1>2. /\ N \in Nat /\ N' = N /\ \A i : C(i)' = C(i)
      /\ C(pos).op # "stash"
      /\ id \in Seq(Contents)
  BY <1>0, <1>1, ListFacts, CommandFacts, Zenon DEF N, C, Copies
<1>3. freestash = <<>>
  BY <1>0 DEF Executing, Running
<1>4. PICK h \in 1 .. N + 1 : Frontier(h)
  BY DEF Intact, Strong
<1>5. [k \in DOMAIN id |-> StashBlock(id, k)] = id
  BY <1>0, <1>2 DEF StashBlock
<1>6. /\ ~TargetDone(C(pos)) /\ LoadSourceBlocks(C(pos)) # id
      /\ ~(Overlap(C(pos)) /\ LoadStash(id, TRUE))
      => ~Unresumable(C(pos))
  BY SourceFound, Zenon DEF Unresumable
<1>7. /\ ~isunresumable' /\ bad' = {}
      /\ \/ /\ pc' = "pbiudone" /\ stash' = stash /\ freestash' = <<>>
         \/ /\ pc' = "free" /\ stash' = stash /\ freestash' = <<>>
            /\ canwrite => TargetDone(C(pos))
         \/ /\ ~TargetDone(C(pos)) /\ canwrite /\ buffer' = id
            /\ pc' = "seek" /\ stash' = stash /\ freestash' = <<>>
            /\ Overlap(C(pos)) => id \in stash
         \/ /\ ~TargetDone(C(pos)) /\ canwrite /\ buffer' = id
            /\ pc' = "dirsync" /\ stash' = stash \cup {id} /\ freestash' = id
            /\ id \notin stash
  <2>1. CASE TargetDone(C(pos)) /\ pc' = "free"
             /\ UNCHANGED <<overlooked, cache, freestash, isunresumable, buffer, rc, cause, faults>>
    BY <1>0, <1>3, <2>1 DEF cache
  <2>2. CASE /\ ~TargetDone(C(pos))
             /\ buffer' = LoadSourceBlocks(C(pos)) /\ LoadSourceBlocks(C(pos)) = id
             /\ IF Overlap(C(pos)) /\ canwrite THEN StashOverlapping(id) ELSE Proceed
             /\ UNCHANGED <<overlooked, isunresumable>>
    BY <1>0, <1>3, <2>2, Zenon
    DEF StashOverlapping, Proceed, WriteStashDone, WriteStashNoSpace, WriteStashError, Abort,
        cache
  <2>3. CASE /\ ~TargetDone(C(pos)) /\ Overlap(C(pos)) /\ LoadStash(id, TRUE)
             /\ buffer' = [k \in DOMAIN id |-> StashBlock(id, k)]
             /\ Proceed
             /\ UNCHANGED <<overlooked, isunresumable>>
    BY <1>0, <1>3, <1>5, <2>3, Zenon DEF Proceed, cache, LoadStash
  <2>4. CASE Abort("io") /\ UNCHANGED <<overlooked, cache, freestash, isunresumable, buffer>>
    BY <1>0, <1>3, <2>4, Zenon DEF Abort, cache
  <2> QED BY <1>6, <2>1, <2>2, <2>3, <2>4, Zenon DEF LoadSrcTgtVersion3
<1>8. CASE pc' = "pbiudone"
  <2>1. VerifyState'
    BY <1>0, <1>1, <1>7, <1>8 DEF VerifyState, InVerify, Running
  <2> QED BY <1>1, <1>3, <1>7, <1>8, <2>1, Stopping, Zenon
<1>9. CASE pc' \in {"free", "seek", "dirsync"}
  <2>1. VerifyState'
    BY <1>0, <1>1, <1>7, <1>9 DEF VerifyState, InVerify, Running
  <2>2. DoneBefore(h)' /\ UntouchedAfter(h)' /\ FrontierCovered(h)'
    BY <1>1, <1>4, <1>7, <1>9, FrontierStays, Zenon DEF Frontier
  <2>3. \A used : Kept(used) => Kept(used)'
    BY <1>7, <1>9, Zenon DEF Kept
  <2>4. ToCome' = ToCome /\ Ahead' = Ahead /\ Ahead = pos
    BY <1>1, <1>9 DEF ToCome, Ahead, Updating, Running
  <2>5. Available(h)'
    BY <1>1, <1>4, <2>3, <2>4, AvailableMoves DEF Frontier
  <2>6. ASSUME Verifying' PROVE VerifyLoads(h)'
    <3>1. ~canwrite /\ VerifyLoads(h) /\ stash' = stash
      BY <1>1, <1>4, <1>7, <1>9, <2>6, Zenon DEF Frontier, Verifying, Running
    <3>2. \A used : Loadable(used) => Loadable(used)'
      BY <1>1, <3>1 DEF Loadable, MapVerifies
    <3>3. Ahead \in Nat /\ Ahead' \in Nat /\ Ahead =< Ahead'
      BY <1>2, <2>4
    <3>4. \A j : Ahead =< j => Ahead' =< j
      BY <2>4
    <3> QED BY <1>1, <1>2, <3>1, <3>2, <3>3, <3>4, VerifyLoadsMoves, Zenon
  <2>7. ASSUME canwrite, ~TargetDone(C(pos))
        PROVE  pos = h /\ \A used \in Uses(C(pos)) : Kept(used)
    <3>1. pos = h
      BY <1>2, <1>4, <2>7 DEF Frontier, DoneBefore, Updating, Running
    <3>2. ToCome = pos
      BY <2>4, <2>7, Zenon DEF ToCome, Updating, Running
    <3> QED BY <1>2, <1>4, <2>7, <3>1, <3>2 DEF Frontier, Available
  <2>8. TargetDone(C(pos))' <=> TargetDone(C(pos))
    BY <1>1 DEF TargetDone, C
  <2>9. Executing'
    <3>1. CASE pc' = "free"
      BY <1>1, <1>2, <1>7, <2>8, <3>1, Zenon DEF Executing, Updating, Filling, Running
    <3>2. CASE pc' \in {"seek", "dirsync"}
      <4>1. \A k \in 1 .. wpos' - 1 : FALSE
        BY <1>1
      <4>2. /\ buffer' = id
            /\ \A used \in Uses(C(pos)) : Kept(used)'
            /\ Overlap(C(pos)) => id \in stash'
        BY <1>7, <2>3, <2>7, <3>2, Zenon
      <4> QED BY <1>1, <1>2, <1>7, <3>2, <4>1, <4>2, Zenon
              DEF Executing, Updating, Filling, Running, Uses, Overlap, Reads, Writes
    <3> QED BY <1>9, <3>1, <3>2
  <2>10. Frontier(h)'
    BY <1>1, <1>4, <1>7, <1>9, <2>2, <2>5, <2>6, <2>7, Zenon
    DEF Frontier, Updating, Filling, Running
  <2> QED BY <1>2, <1>4, <1>7, <2>1, <2>9, <2>10, Zenon DEF Strong
<1> QED BY <1>7, <1>8, <1>9

LEMMA CopyStrong ==
  Intact /\ (PerformCommandMove \/ PerformCommandDiff) => Strong' \/ overlooked'
<1> SUFFICES ASSUME Intact, PerformCommandMove \/ PerformCommandDiff, ~overlooked' PROVE Strong'
  OBVIOUS
<1>1. DOMAIN list.cmds = 1 .. N
  BY ListFacts, Zenon DEF Intact
<1>2. pc = "cmd" /\ pos \in 1 .. N /\ Copies(C(pos)) /\ LoadSrcTgtVersion3(C(pos))
  BY <1>1 DEF PerformCommandMove, PerformCommandDiff, Cmd, C, Copies
<1> QED BY <1>2, LoadSourceStrong

-----------------------------------------------------------------------------
(* Steps that write the partition: only blocks of the current command's     *)
(* target, which no other command reads or writes any more                  *)

OnlyTargetWritten == \A b \in Blocks : b \notin Writes(C(pos)) => dev'[b] = dev[b]

LEMMA FillingFrontier ==
  ASSUME Intact, pc \in {"seek", "write"},
         UNCHANGED <<list, stash, freestash, canwrite, pos>>,
         pc' \in {"seek", "write", "free", "pbiudone"}, OnlyTargetWritten
  PROVE  \E h \in 1 .. N + 1 : Frontier(h)'
<1>0. TypeOK /\ Executing /\ canwrite /\ Updating /\ C(pos).op # "stash"
  BY Zenon DEF Intact, Strong, Executing, TypeOK, ControlOK, Updating, Running
<1>1. /\ N \in Nat /\ N' = N /\ pos \in 1 .. N /\ \A i : C(i)' = C(i)
      /\ \A i \in 1 .. N : Writes(C(i)) \subseteq Blocks /\ Reads(C(i)) \subseteq Blocks
  BY <1>0, ListFacts, CommandFacts, Zenon DEF N, C, TypeOK, ControlOK, Running
<1>2. PICK h \in 1 .. N + 1 : Frontier(h)
  BY DEF Intact, Strong
<1>3. /\ pos =< h
      /\ Copies(C(pos)) => pos = h
      /\ freestash # <<>> => pos = h
  BY <1>0, <1>2 DEF Frontier, Filling
<1>4. \A i \in 1 .. N : i # pos => Writes(C(i)) \cap Writes(C(pos)) = {}
  BY <1>0, <1>1, WritesApart
<1>5. \A j \in 1 .. N : j > pos => Reads(C(j)) \cap Writes(C(pos)) = {}
  BY <1>0, <1>1, ReadsApart, Zenon
<1>6. \A i \in 1 .. N : i # pos => (TargetDone(C(i))' <=> TargetDone(C(i)))
  <2> SUFFICES ASSUME NEW i \in 1 .. N, i # pos PROVE TargetDone(C(i))' <=> TargetDone(C(i))
    OBVIOUS
  <2>1. \A k \in DOMAIN C(i).tgt : C(i).tgt[k] \in Writes(C(i))
    BY Zenon DEF Writes, Range
  <2>2. \A k \in DOMAIN C(i).tgt : dev'[C(i).tgt[k]] = dev[C(i).tgt[k]]
    BY <1>1, <1>4, <2>1 DEF OnlyTargetWritten
  <2> QED BY <1>1, <2>2 DEF TargetDone
<1>7. DoneBefore(h)'
  <2> SUFFICES ASSUME NEW i \in 1 .. N, i < h, Copies(C(i)) PROVE TargetDone(C(i))'
    BY <1>1 DEF DoneBefore, Copies
  <2>1. i # pos
    BY <1>1, <1>3
  <2>2. TargetDone(C(i))
    BY <1>2, Zenon DEF Frontier, DoneBefore
  <2> QED BY <1>6, <2>1, <2>2
<1>8. UntouchedAfter(h)'
  BY <1>1, <1>2, <1>3, Zenon DEF Frontier, UntouchedAfter, Writes, OnlyTargetWritten
<1>9. FrontierCovered(h)'
  <2>1. CASE h = pos
    <3>1. Copies(C(h)) /\ Overlap(C(h)) => C(h).srchash \in stash
      BY <1>0, <2>1, Zenon DEF Executing, Filling
    <3> QED BY <1>1, <3>1 DEF FrontierCovered, Copies, Overlap, Reads, Writes
  <2>2. CASE h # pos /\ h \in 1 .. N
    <3>1. Pristine(Writes(C(h))) => Pristine(Writes(C(h)))'
      BY <1>1, <1>4, <2>2, Zenon DEF Pristine, Writes, OnlyTargetWritten
    <3>2. TargetDone(C(h))' <=> TargetDone(C(h))
      BY <1>6, <2>2
    <3> QED BY <1>1, <1>2, <2>2, <3>1, <3>2, Zenon
            DEF Frontier, FrontierCovered, Copies, Overlap, Reads, Writes
  <2>3. CASE h \notin 1 .. N
    BY <1>1, <2>3 DEF FrontierCovered
  <2> QED BY <2>1, <2>2, <2>3, Zenon
<1>10. Available(h)'
  <2>1. ToCome = pos /\ ToCome' \in {1, pos}
    BY <1>0 DEF ToCome, Ahead, Updating, Running
  <2>2. \A id : Kept(id)' <=> Kept(id)
    BY Zenon DEF Kept
  <2> SUFFICES ASSUME NEW i \in 1 .. N, i >= h, Copies(C(i)), ~TargetDone(C(i))',
                      NEW id \in Uses(C(i)), ~Kept(id)
               PROVE  \E j \in 1 .. N : ToCome' =< j /\ j < i /\ Stashes(j, id)'
    BY <1>1, <2>2 DEF Available, Uses, Copies
  <2>3. i # pos
    BY <1>0, Zenon DEF Executing, Filling
  <2>4. ~TargetDone(C(i))
    BY <1>6, <2>3
  <2>5. PICK j \in 1 .. N : ToCome =< j /\ j < i /\ Stashes(j, id)
    BY <1>2, <2>4 DEF Frontier, Available
  <2>6. j > pos
    <3>1. j # pos
      BY <1>0, <2>5 DEF Stashes
    <3>2. pos \in Nat /\ j \in Nat
      BY <1>1
    <3>3. pos =< j
      BY <2>1, <2>5
    <3> QED BY <3>1, <3>2, <3>3
  <2>7. Stashes(j, id)'
    BY <1>1, <1>5, <2>5, <2>6, Zenon DEF Stashes, Pristine, Reads, OnlyTargetWritten
  <2>8. ToCome' =< j
    BY <2>1, <2>6
  <2> QED BY <2>5, <2>7, <2>8
<1>11. Frontier(h)'
  BY <1>0, <1>1, <1>2, <1>3, <1>7, <1>8, <1>9, <1>10, Zenon
  DEF Frontier, Updating, Verifying, Filling, Copies
<1> QED BY <1>11

(* An I/O error while the target is being filled. *)
LEMMA FillingStops ==
  ASSUME Intact, pc \in {"seek", "write"}, pc' = "pbiudone",
         UNCHANGED <<list, stash, bad, freestash, isunresumable, canwrite, pos>>,
         OnlyTargetWritten
  PROVE  Strong'
<1>1. \E h \in 1 .. N + 1 : Frontier(h)'
  BY FillingFrontier, Zenon
<1>2. canwrite /\ bad = {} /\ ~isunresumable /\ N' = N
  BY DEF Intact, Strong, TypeOK, ControlOK, N
<1>3. Executing' /\ VerifyState'
  BY <1>2, Zenon DEF Executing, Updating, VerifyState, InVerify, Running
<1> QED BY <1>1, <1>2, <1>3 DEF Strong

(* The target is filled up to the next block. *)
LEMMA FillingGoesOn ==
  ASSUME Intact, pc \in {"seek", "write"}, pc' \in {"seek", "write", "free"},
         UNCHANGED <<list, stash, bad, freestash, isunresumable, canwrite, pos, buffer>>,
         OnlyTargetWritten,
         Copies(C(pos)) => /\ \A k \in 1 .. wpos' - 1 : dev'[C(pos).tgt[k]] = C(pos).tgthash[k]
                           /\ pc' = "free" => wpos' = Len(C(pos).tgt) + 1
  PROVE  Strong'
<1>1. \E h \in 1 .. N + 1 : Frontier(h)'
  BY FillingFrontier, Zenon
<1>2. canwrite /\ bad = {} /\ ~isunresumable /\ N' = N /\ Executing /\ TypeOK /\ C(pos)' = C(pos)
  BY Zenon DEF Intact, Strong, TypeOK, ControlOK, N, C
<1>3. VerifyState'
  BY <1>2, Zenon DEF VerifyState, InVerify
<1>4. pos \in 1 .. N
  BY <1>2, ListFacts DEF TypeOK, ControlOK, Running
<1>5. DOMAIN C(pos).tgt = 1 .. Len(C(pos).tgt) /\ Len(C(pos).tgt) \in Nat
  BY <1>2, <1>4, ListFacts, CommandFacts, Zenon
<1>6. Copies(C(pos)) /\ pc' = "free" => TargetDone(C(pos))'
  <2> SUFFICES ASSUME Copies(C(pos)), pc' = "free" PROVE TargetDone(C(pos))'
    BY Zenon
  <2>1. \A k \in 1 .. Len(C(pos).tgt) : dev'[C(pos).tgt[k]] = C(pos).tgthash[k]
    BY <1>5
  <2> QED BY <1>2, <1>5, <2>1, Zenon DEF TargetDone
<1>7. Copies(C(pos)) =>
        /\ buffer' = C(pos).srchash
        /\ \A id \in Uses(C(pos)) : Kept(id)'
        /\ Overlap(C(pos)) => C(pos).srchash \in stash'
  BY <1>2, Zenon DEF Executing, Filling, Updating, Running, Kept
<1>8. Executing'
  <2>1. CASE Copies(C(pos))
    BY <1>2, <1>6, <1>7, <2>1, Zenon
    DEF Executing, Updating, Filling, Running, Copies, Uses, Overlap, Reads, Writes
  <2>2. CASE ~Copies(C(pos))
    BY <1>2, <2>2, Zenon DEF Executing, Updating, Filling, Running, Copies
  <2> QED BY <2>1, <2>2
<1> QED BY <1>1, <1>2, <1>3, <1>8 DEF Strong

LEMMA SeekToOutputRangeStrong == Intact /\ SeekToOutputRange => Strong'
<1> SUFFICES ASSUME Intact, SeekToOutputRange PROVE Strong'
  OBVIOUS
<1>0. TypeOK /\ Executing /\ pc = "seek" /\ canwrite
  BY DEF Intact, Strong, SeekToOutputRange, TypeOK, ControlOK
<1>1. UNCHANGED <<list, stash, bad, freestash, isunresumable, canwrite, pos, buffer>>
  BY Zenon DEF SeekToOutputRange, cache
<1>2. /\ pos \in 1 .. N /\ C(pos) = Cmd /\ IsCommand(C(pos))
      /\ wpos \in 1 .. Len(C(pos).tgt)
      /\ DOMAIN C(pos).tgt = 1 .. Len(C(pos).tgt) /\ Len(C(pos).tgt) \in Nat
  BY <1>0, ListFacts, CommandFacts, Zenon DEF TypeOK, ControlOK, Running, C, Cmd
<1>3. \A m \in RangeFrom(C(pos), wpos) : m \in wpos .. Len(C(pos).tgt)
  BY DEF RangeFrom
<1>4. \A b \in Blocks :
        dev'[b] = dev[b] \/ \E m \in RangeFrom(C(pos), wpos) : b = C(pos).tgt[m]
  BY <1>2, Zenon DEF SeekToOutputRange
<1>5. OnlyTargetWritten
  <2>1. \A m \in RangeFrom(C(pos), wpos) : m \in DOMAIN C(pos).tgt
    BY <1>2, <1>3
  <2>2. \A m \in RangeFrom(C(pos), wpos) : C(pos).tgt[m] \in Writes(C(pos))
    BY <2>1 DEF Writes, Range
  <2> QED BY <1>4, <2>2 DEF OnlyTargetWritten
<1>6. CASE pc' = "pbiudone"
  BY <1>0, <1>1, <1>5, <1>6, FillingStops, Zenon
<1>7. CASE pc' # "pbiudone"
  <2>1. pc' \in {"seek", "write", "free"}
    BY <1>7, Zenon DEF SeekToOutputRange, Filled, Abort
  <2>2. Copies(C(pos)) => pc' = "write" /\ wpos' = wpos
    BY <1>2, <1>7, Zenon DEF SeekToOutputRange, Copies, Abort
  <2>3. ASSUME Copies(C(pos)), NEW k \in 1 .. wpos - 1
        PROVE  dev'[C(pos).tgt[k]] = C(pos).tgthash[k]
    <3>1. dev[C(pos).tgt[k]] = C(pos).tgthash[k]
      BY <1>0, <2>3, Zenon DEF Executing, Updating, Filling, Running
    <3>2. C(pos).tgt[k] \in Blocks
      <4>1. C(pos).tgt \in Seq(Blocks)
        BY <1>2, CommandFacts
      <4>2. k \in 1 .. Len(C(pos).tgt)
        BY <1>2
      <4> QED BY <4>1, <4>2
    <3>3. \A m \in RangeFrom(C(pos), wpos) : C(pos).tgt[m] # C(pos).tgt[k]
      <4> SUFFICES ASSUME NEW m \in RangeFrom(C(pos), wpos) PROVE C(pos).tgt[m] # C(pos).tgt[k]
        OBVIOUS
      <4>1. m \in wpos .. Len(C(pos).tgt)
        BY <1>3
      <4>2. m \in DOMAIN C(pos).tgt /\ k \in DOMAIN C(pos).tgt /\ m # k
        BY <1>2, <4>1
      <4> QED BY <1>0, <1>2, <4>2, TargetsDistinct, Zenon
    <3> QED BY <1>4, <3>1, <3>2, <3>3
  <2> QED BY <1>0, <1>1, <1>5, <2>1, <2>2, <2>3, FillingGoesOn, Zenon
<1> QED BY <1>6, <1>7, Zenon

LEMMA WriteBlockStrong == Intact /\ WriteBlock => Strong'
<1> SUFFICES ASSUME Intact, WriteBlock PROVE Strong'
  OBVIOUS
<1>0. TypeOK /\ Executing /\ pc = "write" /\ canwrite
  BY DEF Intact, Strong, WriteBlock, TypeOK, ControlOK
<1>1. UNCHANGED <<list, stash, bad, freestash, isunresumable, canwrite, pos, buffer>>
  BY DEF WriteBlock, cache
<1>2. /\ pos \in 1 .. N /\ C(pos) = Cmd /\ IsCommand(C(pos))
      /\ wpos \in 1 .. Len(C(pos).tgt)
      /\ DOMAIN C(pos).tgt = 1 .. Len(C(pos).tgt) /\ Len(C(pos).tgt) \in Nat
  BY <1>0, ListFacts, CommandFacts, Zenon DEF TypeOK, ControlOK, Running, C, Cmd
<1>3. C(pos).tgt[wpos] \in Writes(C(pos)) /\ dev \in [Blocks -> Contents]
  BY <1>0, <1>2, Zenon DEF Writes, Range, TypeOK, PartitionOK
<1>4. \A b \in Blocks : b # C(pos).tgt[wpos] => dev'[b] = dev[b]
  BY <1>2, <1>3, Zenon DEF WriteBlock
<1>5. OnlyTargetWritten
  BY <1>3, <1>4 DEF OnlyTargetWritten
<1>6. CASE pc' = "pbiudone"
  BY <1>0, <1>1, <1>5, <1>6, FillingStops, Zenon
<1>7. CASE pc' # "pbiudone"
  <2>1. /\ pc' \in {"seek", "write", "free"}
        /\ wpos' = wpos + 1
        /\ pc' = "free" => ~(wpos + 1 =< Len(C(pos).tgt))
        /\ dev' = [dev EXCEPT ![C(pos).tgt[wpos]] = Output(C(pos), wpos)]
    BY <1>2, <1>7, Zenon DEF WriteBlock, Filled, Abort
  <2>2. pc' = "free" => wpos' = Len(C(pos).tgt) + 1
    BY <1>2, <2>1
  <2>3. ASSUME Copies(C(pos)), NEW k \in 1 .. wpos
        PROVE  dev'[C(pos).tgt[k]] = C(pos).tgthash[k]
    <3>1. C(pos).tgt[k] \in Blocks
      BY <1>2, CommandFacts
    <3>2. CASE k = wpos
      <4>1. buffer = C(pos).srchash
        BY <1>0, <2>3, Zenon DEF Executing, Updating, Filling, Running
      <4>2. C(pos).op = "move" => C(pos).tgthash = C(pos).srchash
        BY <1>0, <1>2, Guarantees, Zenon
      <4>3. Output(C(pos), wpos) = C(pos).tgthash[wpos]
        BY <2>3, <4>1, <4>2, Zenon DEF Output, Copies
      <4> QED BY <1>3, <2>1, <3>1, <3>2, <4>3
    <3>3. CASE k # wpos
      <4>1. dev[C(pos).tgt[k]] = C(pos).tgthash[k]
        <5>1. Updating /\ Filling
          BY <1>0, <2>3 DEF Updating, Filling, Running
        <5>2. \A q \in 1 .. wpos - 1 : dev[C(pos).tgt[q]] = C(pos).tgthash[q]
          BY <1>0, <5>1, Zenon DEF Executing
        <5>3. k \in 1 .. wpos - 1
          BY <1>2, <3>3
        <5> QED BY <5>2, <5>3
      <4>2. C(pos).tgt[k] # C(pos).tgt[wpos]
        <5>1. k \in DOMAIN C(pos).tgt /\ wpos \in DOMAIN C(pos).tgt
          BY <1>2
        <5> QED BY <1>0, <1>2, <3>3, <5>1, TargetsDistinct, Zenon
      <4> QED BY <1>4, <3>1, <4>1, <4>2, Zenon
    <3> QED BY <3>2, <3>3, Zenon
  <2>4. Copies(C(pos)) => \A k \in 1 .. wpos' - 1 : dev'[C(pos).tgt[k]] = C(pos).tgthash[k]
    <3>1. wpos' - 1 = wpos
      BY <1>2, <2>1
    <3>2. Copies(C(pos)) => \A k \in 1 .. wpos : dev'[C(pos).tgt[k]] = C(pos).tgthash[k]
      BY <2>3, Zenon
    <3> QED BY <3>1, <3>2, Zenon
  <2> QED BY <1>0, <1>1, <1>5, <2>1, <2>2, <2>4, FillingGoesOn, Zenon
<1> QED BY <1>6, <1>7

-----------------------------------------------------------------------------
(* The theorem *)

LEMMA InitStrong == Init => Strong
<1> SUFFICES ASSUME Init PROVE Strong
  OBVIOUS
<1>0. TypeOK
  BY InitType, Zenon
<1>1. N \in Nat /\ DOMAIN list.cmds = 1 .. N /\ \A i \in 1 .. N : IsCommand(C(i))
  BY <1>0, ListFacts
<1>2. dev = Source
  BY ResumeAssumption DEF ResumeAssumption, Init
<1>3. pc = "exited" /\ freestash = <<>> /\ bad = {} /\ ~isunresumable
  BY Zenon DEF Init
<1>4. Executing /\ VerifyState
  BY <1>3 DEF Executing, Updating, VerifyState, InVerify, Running
<1>5. \A S : Pristine(S)
  BY <1>2 DEF Pristine
<1>6. StashedBeforeUse(list.cmds)
  BY <1>0, ResumeAssumption DEF ResumeAssumption, WellFormed, TypeOK, PartitionOK
<1>7. Available(1)
  <2> SUFFICES ASSUME NEW i \in 1 .. N, Copies(C(i)), NEW k \in DOMAIN C(i).use
               PROVE  \E j \in 1 .. N : 1 =< j /\ j < i /\ Stashes(j, C(i).use[k].id)
    BY <1>3, Zenon DEF Available, Uses, ToCome, Updating, Running
  <2>1. PICK j \in 1 .. i - 1 : C(j).op = "stash" /\ C(j).srchash = C(i).use[k].id
    BY <1>1, <1>6, Zenon DEF StashedBeforeUse, C
  <2>2. j \in 1 .. N /\ 1 =< j /\ j < i
    BY <1>1, <2>1, SMTT(15)
  <2>3. Stashes(j, C(i).use[k].id)
    BY <1>5, <2>1 DEF Stashes
  <2> QED BY <2>2, <2>3, Zenon
<1>8. Frontier(1)
  <2>1. DoneBefore(1)
    BY <1>1 DEF DoneBefore
  <2>2. UntouchedAfter(1)
    BY <1>2 DEF UntouchedAfter
  <2>3. FrontierCovered(1)
    BY <1>5 DEF FrontierCovered
  <2> QED BY <1>3, <1>7, <2>1, <2>2, <2>3 DEF Frontier, Updating, Verifying, Running
<1> QED BY <1>1, <1>3, <1>4, <1>8 DEF Strong

LEMMA StutterStrong == Intact /\ (Unreadable \/ UNCHANGED vars) => Strong'
<1> SUFFICES ASSUME Intact, Unreadable \/ UNCHANGED vars PROVE Strong'
  OBVIOUS
<1>1. UNCHANGED <<list, dev, stash, bad, pc, step, stash_map, canwrite, createdstash,
                  freestash, isunresumable, buffer, pos, wpos>>
  BY Zenon DEF vars, partition, cache, process, params, Unreadable
<1>2. PICK h \in 1 .. N + 1 : Frontier(h)
  BY DEF Intact, Strong
<1>3. /\ N' = N /\ N \in Nat /\ ToCome' = ToCome /\ Ahead' = Ahead /\ Ahead \in Nat
      /\ (Updating' <=> Updating) /\ (Verifying' <=> Verifying) /\ (Filling' <=> Filling)
      /\ \A id : Kept(id)' <=> Kept(id)
  BY <1>1, ListFacts, ToComeType, Zenon
  DEF Intact, N, ToCome, Ahead, Updating, Verifying, Filling, C, Copies, Kept
<1>4. \A id : Loadable(id)' <=> Loadable(id)
  BY <1>1 DEF Loadable, MapVerifies
<1>5. DoneBefore(h)' /\ UntouchedAfter(h)' /\ FrontierCovered(h)'
  BY <1>1, <1>2, FrontierStays, Zenon DEF Frontier
<1>6. Available(h)'
  BY <1>1, <1>2, <1>3, AvailableMoves DEF Frontier
<1>7. VerifyLoads(h) => VerifyLoads(h)'
  <2>1. Ahead' \in Nat /\ Ahead =< Ahead' /\ \A j : Ahead =< j => Ahead' =< j
    BY <1>3
  <2> QED BY <1>1, <1>3, <1>4, <2>1, VerifyLoadsMoves, Zenon
<1>8. Frontier(h)'
  BY <1>1, <1>2, <1>3, <1>5, <1>6, <1>7, Zenon DEF Frontier
<1>9. Executing' /\ VerifyState'
  <2>1. Executing /\ VerifyState
    BY DEF Intact, Strong
  <2>2. C(pos)' = C(pos)
    BY <1>1 DEF C
  <2>3. /\ Uses(C(pos))' = Uses(C(pos)) /\ (Overlap(C(pos))' <=> Overlap(C(pos)))
        /\ (TargetDone(C(pos))' <=> TargetDone(C(pos))) /\ (Copies(C(pos))' <=> Copies(C(pos)))
    BY <1>1, <2>2, Zenon DEF Uses, Overlap, Reads, Writes, TargetDone, Copies
  <2>4. Executing'
    BY <1>1, <1>3, <2>1, <2>2, <2>3, Zenon DEF Executing
  <2>5. VerifyState'
    BY <1>1, <2>1 DEF VerifyState, InVerify
  <2> QED BY <2>4, <2>5
<1> QED BY <1>1, <1>3, <1>8, <1>9 DEF Intact, Strong

(* What was overlooked stays so. *)
LEMMA OverlookedStays == TypeOK /\ overlooked /\ [Next]_vars => overlooked'
<1> SUFFICES ASSUME overlooked, [Next]_vars PROVE overlooked'
  OBVIOUS
<1>1. CASE Command
  BY <1>1, Zenon DEF Command, PerformCommandMove, PerformCommandDiff, LoadSrcTgtVersion3, Unresumable,
     PerformCommandStash, SyncStashDirectory, PerformCommandFree, PerformCommandZeroNewErase,
     SeekToOutputRange, WriteBlock, FreeOverlapping, EndCommand, reading
<1>2. CASE BlockImageVerifyFn \/ BlockImageUpdateFn \/ CommandsDone \/ DeleteStash \/ Pbiudone
  BY <1>2, Zenon DEF BlockImageVerifyFn, BlockImageUpdateFn, PerformBlockImageUpdate, CommandsDone,
     DeleteStash, Pbiudone, reading
<1>3. CASE StartUpdater \/ Kill \/ PowerLoss \/ Rot \/ Unreadable \/ UNCHANGED vars
  BY <1>3, Zenon DEF StartUpdater, Kill, PowerLoss, Rot, Unreadable, vars, reading
<1> QED BY <1>1, <1>2, <1>3, Zenon DEF Next, Updater

LEMMA NextStrong == ResumeInv /\ [Next]_vars => ResumeInv'
<1> SUFFICES ASSUME Intact, [Next]_vars PROVE Strong' \/ overlooked'
  BY NextType, OverlookedStays DEF ResumeInv, Intact
<1>1. CASE StartUpdater
  BY <1>1, StartUpdaterStrong
<1>2. CASE Command
  BY <1>2, CopyStrong, StashStrong, SyncStashDirectoryStrong, FreeStrong, ZeroNewEraseStrong,
     SeekToOutputRangeStrong, WriteBlockStrong, FreeOverlappingStrong, EndCommandStrong, Zenon
  DEF Command
<1>3. CASE BlockImageVerifyFn
  BY <1>3, BeginStrong, Zenon DEF BlockImageVerifyFn
<1>4. CASE BlockImageUpdateFn
  BY <1>4, BeginStrong, Zenon DEF BlockImageUpdateFn
<1>5. CASE CommandsDone
  BY <1>5, CommandsDoneStrong
<1>6. CASE DeleteStash
  BY <1>6, DeleteStashStrong
<1>7. CASE Pbiudone
  BY <1>7, PbiudoneStrong
<1>8. CASE Kill
  BY <1>8, KillStrong
<1>9. CASE Unreadable \/ UNCHANGED vars
  BY <1>9, StutterStrong
<1> QED
  BY <1>1, <1>2, <1>3, <1>4, <1>5, <1>6, <1>7, <1>8, <1>9, OtherFaults, Zenon DEF Next, Updater

(* THEOREM: an interrupted installation can be resumed: whatever I/O errors *)
(* the updater meets and wherever it is killed, however often, it gives up  *)
(* only where a copy or a verification could not read a stash that is       *)
(* there.  This holds for every partition and every transfer list that      *)
(* keeps what the comment before BlockImageVerifyFn guarantees and needs no *)
(* id again once freed.                                                     *)
THEOREM ResumableAlways == Spec => []Resumable
<1>1. Init => ResumeInv
  BY InitType, InitStrong, Zenon DEF ResumeInv
<1>2. ResumeInv /\ [Next]_vars => ResumeInv'
  BY NextStrong
<1>3. ResumeInv => Resumable
  BY Zenon DEF ResumeInv, Strong, Resumable
<1> QED BY <1>1, <1>2, <1>3, PTL DEF Spec

=============================================================================
