-------------------------- MODULE BlockImageProofs --------------------------
(***************************************************************************)
(* Proofs about the block-image updater: types, and that it implements     *)
(* Installation through every fault of the model.                          *)
(***************************************************************************)
EXTENDS BlockImageInstall, TLAPS

-----------------------------------------------------------------------------
(* Types *)

LEMMA SeqIsFunction ==
  ASSUME NEW S, NEW s \in Seq(S), NEW i \in DOMAIN s
  PROVE  s[i] \in S
OBVIOUS

(* What the current command is, for use in the proofs below. *)
LEMMA CommandType ==
  ASSUME TypeOK, pos \in DOMAIN list.cmds
  PROVE  IsCommand(Cmd)
BY ListAssumption, Zenon DEF ListAssumption, TypeOK, PartitionOK, IsTransferList, Cmd

LEMMA InitType == Init => TypeOK
<1> SUFFICES ASSUME Init PROVE TypeOK
  OBVIOUS
<1>1. PartitionOK
  BY DataAssumption DEF DataAssumption, Init, PartitionOK
<1>2. CacheOK
  BY DataAssumption DEF DataAssumption, Init, CacheOK
<1>3. ProcessOK
  <2>1. \A id \in DOMAIN stash_map : FALSE
    BY DEF Init
  <2> QED BY <2>1, Zenon DEF Init, ProcessOK
<1>4. ParamsOK
  <2>1. <<>> \in Seq(Contents)
    OBVIOUS
  <2>2. pos \in Nat \ {0} /\ wpos \in Nat \ {0}
    BY DEF Init
  <2> QED BY <2>1, <2>2, Zenon DEF Init, ParamsOK
<1>5. OutcomeOK
  BY BoundAssumption DEF BoundAssumption, Init, OutcomeOK
<1>6. ControlOK
  BY Zenon DEF Init, ControlOK, Running
<1>7. ReadingOK
  BY Zenon DEF Init, ReadingOK
<1> QED BY <1>1, <1>2, <1>3, <1>4, <1>5, <1>6, <1>7 DEF TypeOK

LEMMA LoadedType ==
  ASSUME TypeOK, NEW c, IsCommand(c)
  PROVE  LoadSourceBlocks(c) \in Seq(Contents)
<1>1. ASSUME NEW k \in DOMAIN c.srchash
      PROVE  LoadSourceBlocks(c)[k] \in Contents
  <2>1. CASE k \in DOMAIN c.src
    BY <2>1, <1>1, Zenon DEF LoadSourceBlocks, TypeOK, PartitionOK, IsCommand
  <2>2. CASE k \notin DOMAIN c.src
    <3>1. c.use[k].id \in Seq(Contents) /\ c.use[k].at \in DOMAIN c.use[k].id
      BY <2>2, <1>1 DEF IsCommand
    <3>2. StashBlock(c.use[k].id, c.use[k].at) \in Contents
      BY <3>1, DataAssumption DEF DataAssumption, StashBlock
    <3> QED BY <2>2, <3>2, <1>1, DataAssumption, Zenon DEF DataAssumption, LoadSourceBlocks
  <2> QED BY <2>1, <2>2
<1>2. /\ Len(c.srchash) \in Nat
      /\ DOMAIN c.srchash = 1 .. Len(c.srchash)
  BY DEF IsCommand
<1>3. LoadSourceBlocks(c) \in [1 .. Len(c.srchash) -> Contents]
  BY <1>1, <1>2, Zenon DEF LoadSourceBlocks
<1> QED BY <1>2, <1>3

LEMMA FaultType ==
  ASSUME OutcomeOK, NEW f, Fault(f)
  PROVE  faults' \in 0 .. MaxFaults
BY BoundAssumption DEF BoundAssumption, OutcomeOK, Fault

(* The command functions that load a source. *)
LEMMA LoadSrcTgtType ==
  ASSUME TypeOK, pc = "cmd", pos \in DOMAIN list.cmds, Cmd.op \in {"move", "diff"},
         LoadSrcTgtVersion3(Cmd)
  PROVE  TypeOK'
<1>1. /\ IsCommand(Cmd)
      /\ 1 \in DOMAIN Cmd.tgt
      /\ Cmd.srchash \in Seq(Contents)
      /\ Cmd.op = "move" => DOMAIN Cmd.srchash = DOMAIN Cmd.tgt
  BY CommandType DEF IsCommand
<1>2. PartitionOK'
  BY DEF LoadSrcTgtVersion3, TypeOK, PartitionOK, partition
<1>3. CacheOK'
  BY <1>1, Zenon DEF LoadSrcTgtVersion3, TypeOK, CacheOK, cache, StashOverlapping, Proceed,
     WriteStashDone, WriteStashNoSpace, WriteStashError, Unresumable, StashAfterLoad
<1>4. ProcessOK'
  BY Zenon DEF LoadSrcTgtVersion3, TypeOK, ProcessOK, process, StashOverlapping, Proceed,
     WriteStashDone, WriteStashNoSpace, WriteStashError, Unresumable, Abort, Running
<1>5. ParamsOK'
  <2>1. [k \in DOMAIN Cmd.srchash |-> StashBlock(Cmd.srchash, k)] \in Seq(Contents)
    BY <1>1, DataAssumption DEF DataAssumption, StashBlock
  <2>2. LoadSourceBlocks(Cmd) \in Seq(Contents)
    BY <1>1, LoadedType
  <2>3. buffer' \in Seq(Contents)
    BY <2>1, <2>2, Zenon DEF LoadSrcTgtVersion3, TypeOK, ParamsOK
  <2>4. freestash' \in Seq(Contents) /\ isunresumable' \in BOOLEAN
    BY <1>1, Zenon DEF LoadSrcTgtVersion3, TypeOK, ParamsOK, StashOverlapping, Proceed, Unresumable
  <2> QED BY <2>3, <2>4 DEF LoadSrcTgtVersion3, TypeOK, ParamsOK
<1>6. OutcomeOK'
  <2>1. faults' \in 0 .. MaxFaults
    BY FaultType, Zenon DEF LoadSrcTgtVersion3, TypeOK, OutcomeOK, StashOverlapping, Proceed,
       WriteStashDone, WriteStashNoSpace, WriteStashError, Unresumable
  <2> QED
    BY <2>1, Zenon DEF LoadSrcTgtVersion3, TypeOK, OutcomeOK, StashOverlapping, Proceed,
       WriteStashDone, WriteStashNoSpace, WriteStashError, Unresumable, Abort
<1>7. ControlOK'
  BY <1>1, Zenon DEF LoadSrcTgtVersion3, TypeOK, ControlOK, Running, StashOverlapping, Proceed,
     WriteStashDone, WriteStashNoSpace, WriteStashError, Unresumable, Abort, cache, Cmd,
     ParamsOK, StashAfterLoad, LoadSourceBlocks
<1>20. ReadingOK'
  BY Zenon DEF LoadSrcTgtVersion3, StashOverlapping, Proceed, Unresumable, TypeOK, ReadingOK, reading
<1> QED BY <1>2, <1>3, <1>4, <1>5, <1>6, <1>7, <1>20 DEF TypeOK

LEMMA PerformCommandStashType ==
  ASSUME TypeOK, PerformCommandStash
  PROVE  TypeOK'
<1>1. TypeOK /\ PerformCommandStash
  OBVIOUS
<1>3. /\ IsCommand(Cmd)
      /\ Cmd.srchash \in Seq(Contents)
  BY <1>1, CommandType DEF PerformCommandStash, IsCommand
<1>4. PartitionOK'
  BY <1>1 DEF PerformCommandStash, TypeOK, PartitionOK, partition
<1>5. CacheOK'
  BY <1>1, <1>3, Zenon DEF PerformCommandStash, TypeOK, CacheOK, cache, WriteStashDone,
     WriteStashNoSpace, WriteStashError, StashAfterLoad
<1>6. ProcessOK'
  <2>1. \A id \in DOMAIN stash_map' :
          /\ id \in Seq(Contents)
          /\ \A k \in DOMAIN stash_map'[id] : stash_map'[id][k] \in Blocks
    <3>1. CASE UNCHANGED stash_map
      BY <3>1 DEF TypeOK, ProcessOK
    <3>2. CASE stash_map' = [i \in DOMAIN stash_map \cup {Cmd.srchash} |->
                               IF i = Cmd.srchash THEN Cmd.src ELSE stash_map[i]]
      BY <3>2, <1>3 DEF TypeOK, ProcessOK, IsCommand
    <3> QED BY <1>1, <3>1, <3>2, Zenon DEF PerformCommandStash
  <2>2. pc' \in Running \cup {"exited", "idle", "delete", "pbiudone"}
    BY <1>1, Zenon DEF PerformCommandStash, Abort, Running, WriteStashDone, WriteStashNoSpace,
       WriteStashError
  <2> QED BY <1>1, <2>1, <2>2 DEF PerformCommandStash, TypeOK, ProcessOK
<1>7. ParamsOK'
  BY <1>1 DEF PerformCommandStash, TypeOK, ParamsOK, params
<1>8. OutcomeOK'
  <2>1. faults' \in 0 .. MaxFaults
    BY <1>1, FaultType, Zenon DEF PerformCommandStash, TypeOK, OutcomeOK, WriteStashDone,
       WriteStashNoSpace, WriteStashError
  <2> QED
    BY <1>1, <2>1, Zenon DEF PerformCommandStash, TypeOK, OutcomeOK, WriteStashDone,
       WriteStashNoSpace, WriteStashError, Abort
<1>9. ControlOK'
  <2>1. /\ pos' = pos /\ list' = list
        /\ Cmd.op = "stash" /\ Cmd' = Cmd
        /\ pos \in DOMAIN list.cmds
        /\ stashDir /\ stashDir' = stashDir
    BY <1>1, Zenon DEF PerformCommandStash, params, Cmd, TypeOK, ControlOK, Running, cache,
       WriteStashDone, WriteStashNoSpace, WriteStashError
  <2>2. pc' \in {"end", "dirsync", "pbiudone"}
    BY <1>1, Zenon DEF PerformCommandStash, Abort, WriteStashDone, WriteStashNoSpace, WriteStashError
  <2>3. canwrite' = canwrite /\ (pc' = "dirsync" => canwrite)
    BY <1>1, Zenon DEF PerformCommandStash, params, Abort, WriteStashDone, WriteStashNoSpace,
       WriteStashError
  <2> QED BY <2>1, <2>2, <2>3 DEF ControlOK, Running
<1>20. ReadingOK'
  BY <1>1, Zenon DEF PerformCommandStash, TypeOK, ReadingOK, reading
<1> QED BY <1>4, <1>5, <1>6, <1>7, <1>8, <1>9, <1>20 DEF TypeOK

LEMMA SyncStashDirectoryType ==
  ASSUME TypeOK, SyncStashDirectory
  PROVE  TypeOK'
<1>1. TypeOK /\ SyncStashDirectory
  OBVIOUS
<1>3. PartitionOK'
  BY <1>1 DEF SyncStashDirectory, TypeOK, PartitionOK, partition, Abort
<1>4. CacheOK'
  BY <1>1 DEF SyncStashDirectory, TypeOK, CacheOK, cache, Abort
<1>5. ProcessOK'
  BY <1>1 DEF SyncStashDirectory, TypeOK, ProcessOK, process, Running, Abort
<1>6. ParamsOK'
  BY <1>1 DEF SyncStashDirectory, TypeOK, ParamsOK, params, Abort
<1>7. OutcomeOK'
  BY <1>1, FaultType DEF SyncStashDirectory, TypeOK, OutcomeOK, Abort
<1>8. ControlOK'
  BY <1>1 DEF SyncStashDirectory, TypeOK, ControlOK, ParamsOK, Cmd, cache, params, Running, Abort
<1>20. ReadingOK'
  BY <1>1, Zenon DEF SyncStashDirectory, TypeOK, ReadingOK, reading
<1> QED BY <1>3, <1>4, <1>5, <1>6, <1>7, <1>8, <1>20 DEF TypeOK

LEMMA PerformCommandFreeType ==
  ASSUME TypeOK, PerformCommandFree
  PROVE  TypeOK'
<1>1. TypeOK /\ PerformCommandFree
  OBVIOUS
<1>3. PartitionOK'
  BY <1>1 DEF PerformCommandFree, TypeOK, PartitionOK, partition, FreeStash
<1>4. CacheOK'
  BY <1>1 DEF PerformCommandFree, TypeOK, CacheOK, cache, FreeStash
<1>5. ProcessOK'
  BY <1>1 DEF PerformCommandFree, TypeOK, ProcessOK, process, Running, FreeStash
<1>6. ParamsOK'
  BY <1>1 DEF PerformCommandFree, TypeOK, ParamsOK, params, FreeStash
<1>7. OutcomeOK'
  BY <1>1, FaultType DEF PerformCommandFree, TypeOK, OutcomeOK, FreeStash
<1>8. ControlOK'
  BY <1>1, Zenon DEF PerformCommandFree, TypeOK, ControlOK, ParamsOK, Cmd, cache, params, Running, FreeStash
<1>20. ReadingOK'
  BY <1>1, Zenon DEF PerformCommandFree, TypeOK, ReadingOK, reading
<1> QED BY <1>3, <1>4, <1>5, <1>6, <1>7, <1>8, <1>20 DEF TypeOK

LEMMA PerformCommandZeroNewEraseType ==
  ASSUME TypeOK, PerformCommandZeroNewErase
  PROVE  TypeOK'
<1>1. TypeOK /\ PerformCommandZeroNewErase
  OBVIOUS
<1>2. Cmd.op \in {"zero", "new", "erase"} => 1 \in DOMAIN Cmd.tgt
  BY <1>1, CommandType DEF PerformCommandZeroNewErase, IsCommand
<1>3. PartitionOK'
  BY <1>1, <1>2 DEF PerformCommandZeroNewErase, TypeOK, PartitionOK, partition
<1>4. CacheOK'
  BY <1>1, <1>2 DEF PerformCommandZeroNewErase, TypeOK, CacheOK, cache
<1>5. ProcessOK'
  BY <1>1, <1>2 DEF PerformCommandZeroNewErase, TypeOK, ProcessOK, process, Running
<1>6. ParamsOK'
  BY <1>1, <1>2 DEF PerformCommandZeroNewErase, TypeOK, ParamsOK, params
<1>7. OutcomeOK'
  BY <1>1, FaultType, <1>2 DEF PerformCommandZeroNewErase, TypeOK, OutcomeOK
<1>8. ControlOK'
  BY <1>1, <1>2 DEF PerformCommandZeroNewErase, TypeOK, ControlOK, ParamsOK, Cmd, cache, params, Running
<1>20. ReadingOK'
  BY <1>1, Zenon DEF PerformCommandZeroNewErase, TypeOK, ReadingOK, reading
<1> QED BY <1>3, <1>4, <1>5, <1>6, <1>7, <1>8, <1>20 DEF TypeOK

LEMMA SeekToOutputRangeType ==
  ASSUME TypeOK, SeekToOutputRange
  PROVE  TypeOK'
<1>1. TypeOK /\ SeekToOutputRange
  OBVIOUS
<1>2. /\ IsCommand(Cmd)
      /\ Cmd.tgt \in Seq(Blocks)
      /\ Cmd.tgthash \in Seq(Contents)
      /\ DOMAIN Cmd.tgt = DOMAIN Cmd.tgthash
      /\ DOMAIN Cmd.tgt = 1 .. Len(Cmd.tgt)
      /\ Len(Cmd.tgt) \in Nat
      /\ wpos \in DOMAIN Cmd.tgt
      /\ {Zero, Junk} \subseteq Contents
  BY <1>1, CommandType, DataAssumption
  DEF DataAssumption, SeekToOutputRange, TypeOK, ControlOK, Running, IsCommand
<1>3. PartitionOK'
  BY <1>1, <1>2 DEF SeekToOutputRange, TypeOK, PartitionOK, partition, Abort, Filled, RangeFrom
<1>4. CacheOK'
  BY <1>1, <1>2 DEF SeekToOutputRange, TypeOK, CacheOK, cache, Abort, Filled, RangeFrom
<1>5. ProcessOK'
  BY <1>1, <1>2 DEF SeekToOutputRange, TypeOK, ProcessOK, process, Running, Abort, Filled, RangeFrom
<1>6. ParamsOK'
  BY <1>1, <1>2 DEF SeekToOutputRange, TypeOK, ParamsOK, params, Abort, Filled, RangeFrom
<1>7. OutcomeOK'
  BY <1>1, FaultType, <1>2 DEF SeekToOutputRange, TypeOK, OutcomeOK, Abort, Filled, RangeFrom
<1>8. ControlOK'
  <2>1. Cmd' = Cmd /\ pos' = pos /\ list' = list
    BY <1>1, Zenon DEF SeekToOutputRange, Cmd
  <2>2. UNCHANGED <<buffer, canwrite, stashDir, stash>> /\ pos \in DOMAIN list.cmds
    BY <1>1 DEF SeekToOutputRange, cache, TypeOK, ControlOK, Running
  <2>3. pc' \in {"write", "seek", "free", "pbiudone"}
    BY <1>1 DEF SeekToOutputRange, Filled, Abort
  <2>4. pc' \in {"write", "seek"} => wpos' \in 1 .. Len(Cmd.tgt)
    BY <1>1, <1>2 DEF SeekToOutputRange, Filled, RangeFrom, Abort
  <2> QED BY <1>1, <1>2, <2>1, <2>2, <2>3, <2>4 DEF SeekToOutputRange, TypeOK, ControlOK, Running
<1>20. ReadingOK'
  BY <1>1, Zenon DEF SeekToOutputRange, TypeOK, ReadingOK, reading
<1> QED BY <1>3, <1>4, <1>5, <1>6, <1>7, <1>8, <1>20 DEF TypeOK

LEMMA WriteBlockType ==
  ASSUME TypeOK, WriteBlock
  PROVE  TypeOK'
<1>1. TypeOK /\ WriteBlock
  OBVIOUS
<1>2. /\ IsCommand(Cmd)
      /\ Cmd.tgt \in Seq(Blocks)
      /\ Cmd.tgthash \in Seq(Contents)
      /\ DOMAIN Cmd.tgt = DOMAIN Cmd.tgthash
      /\ DOMAIN Cmd.tgt = 1 .. Len(Cmd.tgt)
      /\ Len(Cmd.tgt) \in Nat
      /\ wpos \in DOMAIN Cmd.tgt
      /\ {Zero, Junk} \subseteq Contents
  BY <1>1, CommandType, DataAssumption
  DEF DataAssumption, WriteBlock, TypeOK, ControlOK, Running, IsCommand
<1>3. PartitionOK'
  <2>1. Cmd.op = "move" => buffer[wpos] \in Contents
    BY <1>1, <1>2 DEF WriteBlock, TypeOK, ControlOK, ParamsOK
  <2>2. Output(Cmd, wpos) \in Contents /\ Junk \in Contents
    <3>1. Cmd.tgthash[wpos] \in Contents
      BY <1>2, SeqIsFunction, Zenon
    <3> QED BY <1>2, <2>1, <3>1 DEF Output
  <2> QED BY <1>1, <2>2 DEF WriteBlock, TypeOK, PartitionOK
<1>4. CacheOK'
  BY <1>1, <1>2 DEF WriteBlock, TypeOK, CacheOK, cache, Abort, Filled
<1>5. ProcessOK'
  BY <1>1, <1>2 DEF WriteBlock, TypeOK, ProcessOK, process, Running, Abort, Filled
<1>6. ParamsOK'
  BY <1>1, <1>2 DEF WriteBlock, TypeOK, ParamsOK, params, Abort, Filled
<1>7. OutcomeOK'
  BY <1>1, FaultType, <1>2 DEF WriteBlock, TypeOK, OutcomeOK, Abort, Filled
<1>8. ControlOK'
  <2>1. Cmd' = Cmd /\ pos' = pos /\ list' = list
    BY <1>1, Zenon DEF WriteBlock, Cmd
  <2>2. UNCHANGED <<buffer, canwrite, stashDir, stash>> /\ pos \in DOMAIN list.cmds
    BY <1>1 DEF WriteBlock, cache, TypeOK, ControlOK, Running
  <2>3. pc' \in {"write", "seek", "free", "pbiudone"}
    BY <1>1 DEF WriteBlock, Filled, Abort
  <2>4. pc' \in {"write", "seek"} => wpos' \in 1 .. Len(Cmd.tgt)
    BY <1>1, <1>2 DEF WriteBlock, Filled, Abort
  <2> QED BY <1>1, <1>2, <2>1, <2>2, <2>3, <2>4, SMTT(15) DEF WriteBlock, TypeOK, ControlOK, Running
<1>20. ReadingOK'
  BY <1>1, Zenon DEF WriteBlock, TypeOK, ReadingOK, reading
<1> QED BY <1>3, <1>4, <1>5, <1>6, <1>7, <1>8, <1>20 DEF TypeOK

LEMMA FreeOverlappingType ==
  ASSUME TypeOK, FreeOverlapping
  PROVE  TypeOK'
<1>1. TypeOK /\ FreeOverlapping
  OBVIOUS
<1>3. PartitionOK'
  BY <1>1 DEF FreeOverlapping, TypeOK, PartitionOK, partition, FreeStash
<1>4. CacheOK'
  BY <1>1 DEF FreeOverlapping, TypeOK, CacheOK, cache, FreeStash
<1>5. ProcessOK'
  BY <1>1 DEF FreeOverlapping, TypeOK, ProcessOK, process, Running, FreeStash
<1>6. ParamsOK'
  BY <1>1 DEF FreeOverlapping, TypeOK, ParamsOK, params, FreeStash
<1>7. OutcomeOK'
  BY <1>1, FaultType DEF FreeOverlapping, TypeOK, OutcomeOK, FreeStash
<1>8. ControlOK'
  BY <1>1, Zenon DEF FreeOverlapping, TypeOK, ControlOK, ParamsOK, Cmd, cache, params, Running, FreeStash
<1>20. ReadingOK'
  BY <1>1, Zenon DEF FreeOverlapping, TypeOK, ReadingOK, reading
<1> QED BY <1>3, <1>4, <1>5, <1>6, <1>7, <1>8, <1>20 DEF TypeOK

LEMMA EndCommandType ==
  ASSUME TypeOK, EndCommand
  PROVE  TypeOK'
<1>1. TypeOK /\ EndCommand
  OBVIOUS
<1>3. PartitionOK'
  BY <1>1 DEF EndCommand, TypeOK, PartitionOK, partition, Abort
<1>4. CacheOK'
  BY <1>1 DEF EndCommand, TypeOK, CacheOK, cache, Abort
<1>5. ProcessOK'
  BY <1>1 DEF EndCommand, TypeOK, ProcessOK, process, Running, Abort
<1>6. ParamsOK'
  BY <1>1 DEF EndCommand, TypeOK, ParamsOK, params, Abort
<1>7. OutcomeOK'
  BY <1>1, FaultType DEF EndCommand, TypeOK, OutcomeOK, Abort
<1>8. ControlOK'
  BY <1>1 DEF EndCommand, TypeOK, ControlOK, ParamsOK, Cmd, cache, params, Running, Abort
<1>20. ReadingOK'
  BY <1>1, Zenon DEF EndCommand, TypeOK, ReadingOK, reading
<1> QED BY <1>3, <1>4, <1>5, <1>6, <1>7, <1>8, <1>20 DEF TypeOK

LEMMA CommandsDoneType ==
  ASSUME TypeOK, CommandsDone
  PROVE  TypeOK'
<1>1. TypeOK /\ CommandsDone
  OBVIOUS
<1>3. PartitionOK'
  BY <1>1 DEF CommandsDone, TypeOK, PartitionOK, partition
<1>4. CacheOK'
  BY <1>1 DEF CommandsDone, TypeOK, CacheOK, cache
<1>5. ProcessOK'
  BY <1>1 DEF CommandsDone, TypeOK, ProcessOK, process, Running
<1>6. ParamsOK'
  BY <1>1 DEF CommandsDone, TypeOK, ParamsOK, params
<1>7. OutcomeOK'
  BY <1>1, FaultType DEF CommandsDone, TypeOK, OutcomeOK
<1>8. ControlOK'
  BY <1>1 DEF CommandsDone, TypeOK, ControlOK, ParamsOK, Cmd, cache, params, Running
<1>20. ReadingOK'
  BY <1>1, Zenon DEF CommandsDone, TypeOK, ReadingOK, reading
<1> QED BY <1>3, <1>4, <1>5, <1>6, <1>7, <1>8, <1>20 DEF TypeOK

LEMMA DeleteStashType ==
  ASSUME TypeOK, DeleteStash
  PROVE  TypeOK'
<1>1. TypeOK /\ DeleteStash
  OBVIOUS
<1>3. PartitionOK'
  BY <1>1 DEF DeleteStash, TypeOK, PartitionOK, partition, FreeStash, Return
<1>4. CacheOK'
  BY <1>1, Zenon DEF DeleteStash, TypeOK, CacheOK, cache, FreeStash, Return
<1>5. ProcessOK'
  BY <1>1 DEF DeleteStash, TypeOK, ProcessOK, process, Running, FreeStash, Return
<1>6. ParamsOK'
  BY <1>1 DEF DeleteStash, TypeOK, ParamsOK, params, FreeStash, Return
<1>7. OutcomeOK'
  BY <1>1, FaultType DEF DeleteStash, TypeOK, OutcomeOK, FreeStash, Return
<1>8. ControlOK'
  BY <1>1 DEF DeleteStash, TypeOK, ControlOK, ParamsOK, Cmd, cache, params, Running, FreeStash, Return
<1>20. ReadingOK'
  BY <1>1, Zenon DEF DeleteStash, TypeOK, ReadingOK, reading
<1> QED BY <1>3, <1>4, <1>5, <1>6, <1>7, <1>8, <1>20 DEF TypeOK

LEMMA PbiudoneType ==
  ASSUME TypeOK, Pbiudone
  PROVE  TypeOK'
<1>1. TypeOK /\ Pbiudone
  OBVIOUS
<1>3. PartitionOK'
  BY <1>1 DEF Pbiudone, TypeOK, PartitionOK, partition, Return
<1>4. CacheOK'
  BY <1>1 DEF Pbiudone, TypeOK, CacheOK, cache, Return
<1>5. ProcessOK'
  BY <1>1 DEF Pbiudone, TypeOK, ProcessOK, process, Running, Return
<1>6. ParamsOK'
  BY <1>1 DEF Pbiudone, TypeOK, ParamsOK, params, Return
<1>7. OutcomeOK'
  BY <1>1, FaultType DEF Pbiudone, TypeOK, OutcomeOK, Return
<1>8. ControlOK'
  BY <1>1 DEF Pbiudone, TypeOK, ControlOK, ParamsOK, Cmd, cache, params, Running, Return
<1>20. ReadingOK'
  BY <1>1, Zenon DEF Pbiudone, TypeOK, ReadingOK, reading
<1> QED BY <1>3, <1>4, <1>5, <1>6, <1>7, <1>8, <1>20 DEF TypeOK

LEMMA StartUpdaterType ==
  ASSUME TypeOK, StartUpdater
  PROVE  TypeOK'
<1>1. TypeOK /\ StartUpdater
  OBVIOUS
<1>3. PartitionOK'
  BY <1>1 DEF StartUpdater, TypeOK, PartitionOK, partition
<1>4. CacheOK'
  BY <1>1 DEF StartUpdater, TypeOK, CacheOK, cache
<1>5. ProcessOK'
  <2>1. \A id \in DOMAIN stash_map' : FALSE
    BY <1>1 DEF StartUpdater
  <2> QED BY <1>1, <2>1, Zenon DEF StartUpdater, TypeOK, ProcessOK
<1>6. ParamsOK'
  BY <1>1 DEF StartUpdater, TypeOK, ParamsOK, params
<1>7. OutcomeOK'
  BY <1>1, FaultType DEF StartUpdater, TypeOK, OutcomeOK
<1>8. ControlOK'
  BY <1>1 DEF StartUpdater, TypeOK, ControlOK, ParamsOK, Cmd, cache, params, Running
<1>20. ReadingOK'
  BY <1>1, Zenon DEF StartUpdater, TypeOK, ReadingOK, reading
<1> QED BY <1>3, <1>4, <1>5, <1>6, <1>7, <1>8, <1>20 DEF TypeOK

LEMMA StashingType ==
  ASSUME TypeOK
  PROVE  Stashing \subseteq Seq(Contents)
<1> SUFFICES ASSUME NEW id \in Stashing PROVE id \in Seq(Contents)
  OBVIOUS
<1>1. pos \in DOMAIN list.cmds /\ id = Cmd.srchash
  BY DEF Stashing
<1>2. IsCommand(Cmd)
  BY <1>1, CommandType
<1> QED BY <1>1, <1>2 DEF IsCommand

LEMMA KillType ==
  ASSUME TypeOK, Kill
  PROVE  TypeOK'
<1>1. TypeOK /\ Kill
  OBVIOUS
<1>3. PartitionOK'
  BY <1>1 DEF Kill, TypeOK, PartitionOK, partition
<1>4. CacheOK'
  BY <1>1, StashingType DEF Kill, TypeOK, CacheOK
<1>5. ProcessOK'
  BY <1>1 DEF Kill, TypeOK, ProcessOK, process, Running
<1>6. ParamsOK'
  BY <1>1 DEF Kill, TypeOK, ParamsOK, params
<1>7. OutcomeOK'
  BY <1>1, FaultType DEF Kill, TypeOK, OutcomeOK
<1>8. ControlOK'
  BY <1>1 DEF Kill, TypeOK, ControlOK, ParamsOK, Cmd, cache, params, Running
<1>20. ReadingOK'
  BY <1>1, Zenon DEF Kill, TypeOK, ReadingOK, reading
<1> QED BY <1>3, <1>4, <1>5, <1>6, <1>7, <1>8, <1>20 DEF TypeOK

LEMMA PowerLossType ==
  ASSUME TypeOK, PowerLoss
  PROVE  TypeOK'
<1>1. TypeOK /\ PowerLoss
  OBVIOUS
<1>3. PartitionOK'
  BY <1>1, DataAssumption DEF DataAssumption, PowerLoss, TypeOK, PartitionOK, partition
<1>4. CacheOK'
  <2>1. \A id \in partial' : id \in partial \/ id \in Stashing \/ id \in stash
    BY <1>1 DEF PowerLoss
  <2>2. partial' \subseteq Seq(Contents)
    BY <2>1, StashingType, TypeOK DEF TypeOK, CacheOK
  <2>3. stash' \subseteq stash \cup stashDisk /\ stashDisk' = stash' /\ bad' \subseteq stash'
    BY <1>1 DEF PowerLoss
  <2>4. stashDir' \in BOOLEAN
    BY <1>1, Zenon DEF PowerLoss, TypeOK, CacheOK
  <2> QED BY <2>2, <2>3, <2>4 DEF TypeOK, CacheOK
<1>5. ProcessOK'
  BY <1>1 DEF PowerLoss, TypeOK, ProcessOK, process, Running
<1>6. ParamsOK'
  BY <1>1 DEF PowerLoss, TypeOK, ParamsOK, params
<1>7. OutcomeOK'
  BY <1>1, FaultType DEF PowerLoss, TypeOK, OutcomeOK
<1>8. ControlOK'
  <2>1. pc' = "exited" /\ (~stashDir' => stash' = {})
    BY <1>1, Zenon DEF PowerLoss
  <2> QED BY <2>1 DEF ControlOK, Running
<1>20. ReadingOK'
  BY <1>1, Zenon DEF PowerLoss, TypeOK, ReadingOK, reading
<1> QED BY <1>3, <1>4, <1>5, <1>6, <1>7, <1>8, <1>20 DEF TypeOK

LEMMA RotType ==
  ASSUME TypeOK, Rot
  PROVE  TypeOK'
<1>1. TypeOK /\ Rot
  OBVIOUS
<1>3. PartitionOK'
  BY <1>1 DEF Rot, TypeOK, PartitionOK, partition
<1>4. CacheOK'
  BY <1>1 DEF Rot, TypeOK, CacheOK, cache
<1>5. ProcessOK'
  BY <1>1 DEF Rot, TypeOK, ProcessOK, process, Running
<1>6. ParamsOK'
  BY <1>1 DEF Rot, TypeOK, ParamsOK, params
<1>7. OutcomeOK'
  BY <1>1, FaultType, Zenon DEF Rot, TypeOK, OutcomeOK
<1>8. ControlOK'
  BY <1>1 DEF Rot, TypeOK, ControlOK, ParamsOK, Cmd, cache, params, Running
<1>20. ReadingOK'
  BY <1>1, Zenon DEF Rot, TypeOK, ReadingOK, reading
<1> QED BY <1>3, <1>4, <1>5, <1>6, <1>7, <1>8, <1>20 DEF TypeOK

LEMMA UnreadableType ==
  ASSUME TypeOK, Unreadable
  PROVE  TypeOK'
<1>1. TypeOK /\ Unreadable
  OBVIOUS
<1>3. PartitionOK'
  BY <1>1 DEF Unreadable, TypeOK, PartitionOK, partition
<1>4. CacheOK'
  BY <1>1 DEF Unreadable, TypeOK, CacheOK, cache
<1>5. ProcessOK'
  BY <1>1 DEF Unreadable, TypeOK, ProcessOK, process, Running
<1>6. ParamsOK'
  BY <1>1 DEF Unreadable, TypeOK, ParamsOK, params
<1>7. OutcomeOK'
  BY <1>1, FaultType, Zenon DEF Unreadable, TypeOK, OutcomeOK
<1>8. ControlOK'
  BY <1>1 DEF Unreadable, TypeOK, ControlOK, ParamsOK, Cmd, cache, params, Running
<1>20. ReadingOK'
  <2>1. \A id \in DOMAIN stash_map : id \in Seq(Contents)
    BY DEF TypeOK, ProcessOK
  <2>2. stash \subseteq Seq(Contents)
    BY DEF TypeOK, CacheOK
  <2>3. unreadable' \subseteq stash \cup DOMAIN stash_map
    BY <1>1, Zenon DEF Unreadable
  <2>4. overlooked' = overlooked
    BY <1>1, Zenon DEF Unreadable
  <2> QED BY <2>1, <2>2, <2>3, <2>4, Zenon DEF TypeOK, ReadingOK
<1> QED BY <1>3, <1>4, <1>5, <1>6, <1>7, <1>8, <1>20 DEF TypeOK

LEMMA BeginType ==
  ASSUME TypeOK, NEW dryrun \in BOOLEAN, PerformBlockImageUpdate(dryrun)
  PROVE  TypeOK'
<1>1. PartitionOK'
  BY DEF PerformBlockImageUpdate, TypeOK, PartitionOK, partition
<1>2. CacheOK'
  BY Zenon DEF PerformBlockImageUpdate, CreateStash, CannotBegin, TypeOK, CacheOK, cache
<1>3. pc' \in {"cmd", "idle", "exited"} /\ step' \in {"begin", "recover", "verified"}
  BY DEF PerformBlockImageUpdate, CreateStash, CannotBegin, Return, TypeOK, ProcessOK
<1>4. ProcessOK'
  BY <1>3 DEF PerformBlockImageUpdate, TypeOK, ProcessOK, Running
<1>5. ParamsOK'
  <2>1. <<>> \in Seq(Contents)
    OBVIOUS
  <2>2. createdstash' \in BOOLEAN
    BY Zenon DEF PerformBlockImageUpdate, CreateStash, CannotBegin
  <2>3. pos' \in Nat \ {0} /\ wpos' \in Nat \ {0}
    BY DEF PerformBlockImageUpdate
  <2> QED BY <2>1, <2>2, <2>3, Zenon DEF PerformBlockImageUpdate, ParamsOK
<1>6. OutcomeOK'
  BY FaultType DEF PerformBlockImageUpdate, CreateStash, CannotBegin, TypeOK, OutcomeOK
<1>7. ControlOK'
  BY <1>3 DEF PerformBlockImageUpdate, CreateStash, CannotBegin, Return, TypeOK, ControlOK,
     Running, cache
<1>20. ReadingOK'
  BY Zenon DEF PerformBlockImageUpdate, TypeOK, ReadingOK, reading
<1> QED BY <1>1, <1>2, <1>4, <1>5, <1>6, <1>7, <1>20 DEF TypeOK

(* Types are preserved by every step, and so they are an invariant. *)
LEMMA NextType == TypeOK /\ [Next]_vars => TypeOK'
<1> SUFFICES ASSUME TypeOK, [Next]_vars PROVE TypeOK'
  BY Zenon
<1>1. CASE UNCHANGED vars
  BY <1>1 DEF vars, partition, cache, reading, process, params, TypeOK, PartitionOK, CacheOK,
     ReadingOK, ProcessOK, ParamsOK, OutcomeOK, ControlOK, Cmd
<1>2. CASE Command
  BY <1>2, LoadSrcTgtType, PerformCommandStashType, SyncStashDirectoryType,
     PerformCommandFreeType, PerformCommandZeroNewEraseType, SeekToOutputRangeType,
     WriteBlockType, FreeOverlappingType, EndCommandType
  DEF Command, PerformCommandMove, PerformCommandDiff
<1>3. CASE BlockImageVerifyFn \/ BlockImageUpdateFn
  BY <1>3, BeginType, Zenon DEF BlockImageVerifyFn, BlockImageUpdateFn
<1> QED
  BY <1>1, <1>2, <1>3, CommandsDoneType, DeleteStashType, PbiudoneType, StartUpdaterType,
     KillType, PowerLossType, RotType, UnreadableType
  DEF Next, Updater

(* THEOREM: the variables of the updater always have their types, and the   *)
(* control state fits the transfer list.                                    *)
THEOREM TypeCorrect == Spec => []TypeOK
BY InitType, NextType, PTL DEF Spec

-----------------------------------------------------------------------------
(* What the assumptions say about the commands *)

LEMMA Indices ==
  ASSUME TypeOK
  PROVE  Len(list.cmds) \in Nat /\ DOMAIN list.cmds = 1 .. Len(list.cmds)
<1>1. list.cmds \in Seq({list.cmds[i] : i \in DOMAIN list.cmds})
  BY ListAssumption DEF ListAssumption, TypeOK, PartitionOK, IsTransferList
<1> QED BY <1>1

LEMMA GuaranteedFacts ==
  ASSUME TypeOK, NEW i \in DOMAIN list.cmds
  PROVE  LET c == list.cmds[i] IN
         /\ IsCommand(c)
         /\ DOMAIN c.tgt = 1 .. Len(c.tgt) /\ Len(c.tgt) \in Nat
         /\ \A k \in DOMAIN c.tgt : c.tgt[k] \in Blocks
         /\ c.srchash \in Seq(Contents)
         /\ c.op = "move" => c.tgthash = c.srchash
         /\ c.op = "zero" => \A k \in DOMAIN c.tgt : c.tgthash[k] = Zero
         /\ \A k, m \in DOMAIN c.tgt : k # m => c.tgt[k] # c.tgt[m]
<1> DEFINE c == list.cmds[i]
<1>1. IsTransferList(list) /\ WellFormed(list)
  BY ListAssumption, InstallAssumption
  DEF ListAssumption, InstallAssumption, TypeOK, PartitionOK
<1>2. IsCommand(c)
  BY <1>1, Zenon DEF IsTransferList
<1>3. c.tgt \in Seq(Blocks) /\ c.srchash \in Seq(Contents)
  BY <1>2 DEF IsCommand
<1>4. DOMAIN c.tgt = 1 .. Len(c.tgt) /\ Len(c.tgt) \in Nat /\ \A k \in DOMAIN c.tgt : c.tgt[k] \in Blocks
  BY <1>3, SMTT(15)
<1>5. /\ c.op = "move" => c.tgthash = c.srchash
      /\ c.op = "zero" => \A k \in DOMAIN c.tgt : c.tgthash[k] = Zero
      /\ IsInjective(c.tgt)
  BY <1>1 DEF WellFormed, HashesMatchSource
<1>6. \A k, m \in DOMAIN c.tgt : k # m => c.tgt[k] # c.tgt[m]
  BY <1>5 DEF IsInjective
<1> QED BY <1>2, <1>3, <1>4, <1>5, <1>6, Zenon

(* No two commands write the same block. *)
LEMMA TargetsApart ==
  ASSUME TypeOK, NEW i \in DOMAIN list.cmds, NEW j \in DOMAIN list.cmds, i # j,
         NEW k \in DOMAIN list.cmds[i].tgt, NEW m \in DOMAIN list.cmds[j].tgt
  PROVE  list.cmds[i].tgt[k] # list.cmds[j].tgt[m]
<1>1. IsTransferList(list) /\ WellFormed(list)
  BY ListAssumption, InstallAssumption
  DEF ListAssumption, InstallAssumption, TypeOK, PartitionOK
<1>2. \A a, b \in DOMAIN list.cmds :
        a < b => Writes(list.cmds[a]) \cap (Reads(list.cmds[b]) \cup Writes(list.cmds[b])) = {}
  BY <1>1 DEF WellFormed, NoReadAfterWrite
<1>3. i \in Nat /\ j \in Nat
  BY Indices
<1>4. list.cmds[i].tgt[k] \in Writes(list.cmds[i]) /\ list.cmds[j].tgt[m] \in Writes(list.cmds[j])
  BY DEF Writes, Range
<1>5. i < j \/ j < i
  BY <1>3
<1>6. CASE i < j
  <2>1. Writes(list.cmds[i]) \cap (Reads(list.cmds[j]) \cup Writes(list.cmds[j])) = {}
    BY <1>2, <1>6
  <2> QED BY <1>4, <2>1
<1>7. CASE j < i
  <2>1. Writes(list.cmds[j]) \cap (Reads(list.cmds[i]) \cup Writes(list.cmds[i])) = {}
    BY <1>2, <1>7
  <2> QED BY <1>4, <2>1
<1> QED BY <1>5, <1>6, <1>7

-----------------------------------------------------------------------------
(* Steps that leave the partition alone *)

LEMMA Quiet ==
  ASSUME UNCHANGED <<list, dev, disk>>
  PROVE  /\ \A i : TargetDone(list.cmds[i])' <=> TargetDone(list.cmds[i])
         /\ \A i : OnFlash(list.cmds[i])' <=> OnFlash(list.cmds[i])
         /\ FlashStays => FlashStays'
         /\ AllComplete => AllComplete'
<1>1. \A i : TargetDone(list.cmds[i])' <=> TargetDone(list.cmds[i])
  BY DEF TargetDone
<1>2. \A i : OnFlash(list.cmds[i])' <=> OnFlash(list.cmds[i])
  BY DEF OnFlash
<1>3. FlashStays => FlashStays'
  BY <1>1, <1>2 DEF FlashStays, Copies
<1>4. AllComplete => AllComplete'
  BY <1>1, <1>2 DEF AllComplete, Makes, Complete
<1> QED BY <1>1, <1>2, <1>3, <1>4

(* A command goes on, or fails.  The result so far is -1. *)
LEMMA QuietCommand ==
  ASSUME InstallInv, pc \in Running, pc' \in Running \cup {"pbiudone"},
         UNCHANGED <<list, dev, disk, canwrite, pos, rc>>,
         pc' \in Running => isunresumable' = isunresumable
  PROVE  FlashStays' /\ CompleteBefore' /\ ResultEarned'
<1>1. FlashStays'
  BY Quiet DEF InstallInv
<1>2. CompleteBefore'
  BY Quiet DEF InstallInv, CompleteBefore, Makes, Complete
<1>3. ResultEarned'
  BY DEF InstallInv, ResultEarned, Running
<1> QED BY <1>1, <1>2, <1>3

(* No command is being executed after the step. *)
LEMMA QuietOutside ==
  ASSUME InstallInv, pc' \notin Running, UNCHANGED <<list, dev, disk>>
  PROVE  FlashStays' /\ SourceInBuffer' /\ FilledSoFar' /\ CompleteBefore'
<1>1. FlashStays'
  BY Quiet DEF InstallInv
<1> QED BY <1>1 DEF SourceInBuffer, FilledSoFar, CompleteBefore, Running

-----------------------------------------------------------------------------
(* The steps of a command that do not write *)

LEMMA LoadSrcTgtInstall ==
  ASSUME InstallInv, pc = "cmd", pos \in DOMAIN list.cmds, Copies(Cmd), LoadSrcTgtVersion3(Cmd)
  PROVE  FlashStays' /\ SourceInBuffer' /\ FilledSoFar' /\ CompleteBefore' /\ ResultEarned'
<1>1. /\ UNCHANGED <<list, dev, disk, canwrite, pos>> /\ wpos' = 1
      /\ pc' \in {"free", "seek", "dirsync", "pbiudone"}
      /\ rc' = rc
      /\ pc' # "pbiudone" => isunresumable' = isunresumable
  BY Zenon DEF LoadSrcTgtVersion3, partition, StashOverlapping, Proceed, Unresumable, Abort,
     WriteStashDone, WriteStashNoSpace, WriteStashError
<1>2. FlashStays' /\ CompleteBefore' /\ ResultEarned'
  BY <1>1, QuietCommand DEF Running
<1>3. Cmd' = Cmd /\ (TargetDone(Cmd)' <=> TargetDone(Cmd)) /\ (OnFlash(Cmd)' <=> OnFlash(Cmd))
  BY <1>1, Quiet DEF Cmd
<1>4. canwrite /\ pc' = "free" => TargetDone(Cmd)
  BY Zenon DEF LoadSrcTgtVersion3, StashOverlapping, Proceed, Unresumable, Abort,
     WriteStashDone, WriteStashNoSpace, WriteStashError
<1>5. ASSUME pc' \in {"dirsync", "seek"}
      PROVE  buffer' = Cmd.srchash /\ ~TargetDone(Cmd)
  <2>1. CASE buffer' = LoadSourceBlocks(Cmd) /\ LoadSourceBlocks(Cmd) = Cmd.srchash /\ ~TargetDone(Cmd)
    BY <2>1
  <2>2. CASE /\ ~TargetDone(Cmd) /\ LoadStash(Cmd.srchash, TRUE) /\ Proceed
             /\ buffer' = [k \in DOMAIN Cmd.srchash |-> StashBlock(Cmd.srchash, k)]
    <3>1. canwrite
      BY <1>5, <2>2 DEF Proceed
    <3>2. Cmd.srchash \notin bad
      BY <2>2, <3>1 DEF LoadStash
    <3>3. \A k : StashBlock(Cmd.srchash, k) = Cmd.srchash[k]
      BY <3>2, Zenon DEF StashBlock
    <3>4. Cmd.srchash \in Seq(Contents)
      BY GuaranteedFacts DEF InstallInv, Cmd
    <3> QED BY <2>2, <3>3, <3>4
  <2> QED
    BY <1>5, <2>1, <2>2, Zenon DEF LoadSrcTgtVersion3, Unresumable, Abort
<1>6. SourceInBuffer'
  <2>1. ~TargetDone(Cmd) => ~OnFlash(Cmd)
    BY DEF InstallInv, FlashStays, Cmd
  <2> QED BY <1>1, <1>3, <1>5, <2>1 DEF SourceInBuffer
<1>7. FilledSoFar'
  BY <1>1, <1>3, <1>4 DEF FilledSoFar, Copies
<1> QED BY <1>2, <1>6, <1>7

LEMMA StashInstall ==
  ASSUME InstallInv, PerformCommandStash
  PROVE  FlashStays' /\ SourceInBuffer' /\ FilledSoFar' /\ CompleteBefore' /\ ResultEarned'
<1>1. /\ UNCHANGED <<list, dev, disk, canwrite, pos, isunresumable>>
      /\ pc = "cmd" /\ pc' \in {"end", "dirsync", "pbiudone"}
      /\ Cmd.op = "stash" /\ rc' = rc
  BY Zenon DEF PerformCommandStash, partition, params, Abort, WriteStashDone, WriteStashNoSpace,
     WriteStashError
<1>2. FlashStays' /\ CompleteBefore' /\ ResultEarned'
  BY <1>1, QuietCommand DEF Running
<1>3. Cmd' = Cmd
  BY <1>1 DEF Cmd
<1> QED BY <1>1, <1>2, <1>3 DEF SourceInBuffer, FilledSoFar, Copies, Makes

LEMMA SyncInstall ==
  ASSUME InstallInv, SyncStashDirectory
  PROVE  FlashStays' /\ SourceInBuffer' /\ FilledSoFar' /\ CompleteBefore' /\ ResultEarned'
<1>1. /\ UNCHANGED <<list, dev, disk, canwrite, pos, isunresumable, buffer, wpos>>
      /\ pc = "dirsync" /\ pc' \in {"end", "seek", "pbiudone"} /\ rc' = rc
      /\ pc' = "end" => Cmd.op = "stash"
      /\ pc' = "seek" => Cmd.op # "stash"
  BY DEF SyncStashDirectory, partition, params, Abort
<1>2. FlashStays' /\ CompleteBefore' /\ ResultEarned'
  BY <1>1, QuietCommand, Zenon DEF Running
<1>3. Cmd' = Cmd /\ (OnFlash(Cmd)' <=> OnFlash(Cmd))
  BY <1>1, Quiet, Zenon DEF Cmd
<1>4. pc' = "seek" => Cmd.op \in {"move", "diff"} /\ wpos = 1
  BY <1>1 DEF InstallInv, TypeOK, ControlOK, FilledSoFar
<1>5. SourceInBuffer'
  BY <1>1, <1>3 DEF InstallInv, SourceInBuffer, Copies
<1> QED BY <1>1, <1>2, <1>3, <1>4, <1>5 DEF FilledSoFar, Makes

LEMMA FreeInstall ==
  ASSUME InstallInv, PerformCommandFree
  PROVE  FlashStays' /\ SourceInBuffer' /\ FilledSoFar' /\ CompleteBefore' /\ ResultEarned'
<1>1. /\ UNCHANGED <<list, dev, disk, canwrite, pos, isunresumable, rc>>
      /\ pc = "cmd" /\ pc' = "end" /\ Cmd.op = "free"
  BY DEF PerformCommandFree, partition, params
<1>2. FlashStays' /\ CompleteBefore' /\ ResultEarned'
  BY <1>1, QuietCommand DEF Running
<1>3. Cmd' = Cmd
  BY <1>1 DEF Cmd
<1> QED BY <1>1, <1>2, <1>3 DEF SourceInBuffer, FilledSoFar, Makes

LEMMA ZeroNewEraseInstall ==
  ASSUME InstallInv, PerformCommandZeroNewErase
  PROVE  FlashStays' /\ SourceInBuffer' /\ FilledSoFar' /\ CompleteBefore' /\ ResultEarned'
<1>1. /\ UNCHANGED <<list, dev, disk, canwrite, pos, isunresumable, rc>>
      /\ pc = "cmd" /\ pc' \in {"seek", "end"} /\ Cmd.op \in {"zero", "new", "erase"}
      /\ wpos' = 1 /\ (pc' = "end" => ~canwrite)
  BY DEF PerformCommandZeroNewErase, partition
<1>2. FlashStays' /\ CompleteBefore' /\ ResultEarned'
  BY <1>1, QuietCommand DEF Running
<1>3. Cmd' = Cmd
  BY <1>1 DEF Cmd
<1> QED BY <1>1, <1>2, <1>3 DEF SourceInBuffer, FilledSoFar, Makes, Copies

LEMMA FreeOverlappingInstall ==
  ASSUME InstallInv, FreeOverlapping
  PROVE  FlashStays' /\ SourceInBuffer' /\ FilledSoFar' /\ CompleteBefore' /\ ResultEarned'
<1>1. /\ UNCHANGED <<list, dev, disk, canwrite, pos, isunresumable, rc>>
      /\ pc = "free" /\ pc' = "end"
  BY DEF FreeOverlapping, partition
<1>2. FlashStays' /\ CompleteBefore' /\ ResultEarned'
  BY <1>1, QuietCommand DEF Running
<1>3. Cmd' = Cmd /\ (TargetDone(Cmd)' <=> TargetDone(Cmd))
  BY <1>1, Quiet DEF Cmd
<1> QED BY <1>1, <1>2, <1>3 DEF InstallInv, SourceInBuffer, FilledSoFar, Makes

-----------------------------------------------------------------------------
(* The steps of a command that write *)

(* Only blocks of the command's own target change, and only in the cache. *)
LEMMA OwnTarget ==
  ASSUME InstallInv, pc \in {"seek", "write"}, pc' \in Running \cup {"pbiudone"},
         UNCHANGED <<list, disk, canwrite, pos, rc, isunresumable>>,
         \A b \in Blocks : (\A m \in DOMAIN Cmd.tgt : Cmd.tgt[m] # b) => dev'[b] = dev[b]
  PROVE  FlashStays' /\ CompleteBefore' /\ ResultEarned'
<1>1. TypeOK /\ pos \in DOMAIN list.cmds /\ pos \in Nat
  BY DEF InstallInv, TypeOK, ControlOK, Running, ParamsOK
<1>2. \A i : OnFlash(list.cmds[i])' <=> OnFlash(list.cmds[i])
  BY Zenon DEF OnFlash
<1>3. ASSUME NEW i \in DOMAIN list.cmds, i # pos
      PROVE  TargetDone(list.cmds[i])' <=> TargetDone(list.cmds[i])
  <2>1. ASSUME NEW k \in DOMAIN list.cmds[i].tgt
        PROVE  dev'[list.cmds[i].tgt[k]] = dev[list.cmds[i].tgt[k]]
    <3>1. list.cmds[i].tgt[k] \in Blocks
      BY <1>1, <1>3, <2>1, GuaranteedFacts, Zenon
    <3>2. \A m \in DOMAIN Cmd.tgt : Cmd.tgt[m] # list.cmds[i].tgt[k]
      BY <1>1, <1>3, <2>1, TargetsApart DEF Cmd
    <3> QED BY <3>1, <3>2, Zenon
  <2> QED BY <2>1, Zenon DEF TargetDone
<1>4. FlashStays'
  <2>1. Copies(Cmd) => ~OnFlash(Cmd)
    BY Zenon DEF InstallInv, SourceInBuffer
  <2> QED BY <1>2, <1>3, <2>1, Zenon DEF InstallInv, FlashStays, Cmd, Copies
<1>5. CompleteBefore'
  <2>1. pc \in Running
    BY Zenon DEF Running
  <2>2. ASSUME canwrite, NEW i \in DOMAIN list.cmds, i < pos, Makes(list.cmds[i])
        PROVE  Complete(list.cmds[i])'
    <3>1. i # pos
      BY <1>1, <2>2
    <3>2. Complete(list.cmds[i])
      BY <2>1, <2>2, Zenon DEF InstallInv, CompleteBefore
    <3> QED BY <1>2, <1>3, <3>1, <3>2, Zenon DEF Complete
  <2> QED BY <2>2, Zenon DEF CompleteBefore
<1>6. ResultEarned'
  BY DEF InstallInv, ResultEarned, Running
<1> QED BY <1>4, <1>5, <1>6, Zenon

(* What is written is what the command shall produce. *)
LEMMA OutputRight ==
  ASSUME InstallInv, pc \in {"seek", "write"}, NEW k \in DOMAIN Cmd.tgt
  PROVE  Output(Cmd, k) = Cmd.tgthash[k]
<1>1. TypeOK /\ pos \in DOMAIN list.cmds
  BY DEF InstallInv, TypeOK, ControlOK, Running
<1>2. /\ Cmd.op = "move" => Cmd.tgthash = Cmd.srchash
      /\ Cmd.op = "zero" => Cmd.tgthash[k] = Zero
  BY <1>1, GuaranteedFacts DEF Cmd
<1>3. Cmd.op \in {"move", "diff"} => buffer = Cmd.srchash
  BY DEF InstallInv, SourceInBuffer, Copies
<1> QED BY <1>2, <1>3, Zenon DEF Output

LEMMA SeekInstall ==
  ASSUME InstallInv, SeekToOutputRange
  PROVE  FlashStays' /\ SourceInBuffer' /\ FilledSoFar' /\ CompleteBefore' /\ ResultEarned'
<1>1. /\ TypeOK /\ pos \in DOMAIN list.cmds /\ pc = "seek"
      /\ wpos \in DOMAIN Cmd.tgt /\ wpos \in Nat
  BY Zenon DEF InstallInv, SeekToOutputRange, TypeOK, ControlOK, Running, ParamsOK
<1>2. /\ DOMAIN Cmd.tgt = 1 .. Len(Cmd.tgt) /\ Len(Cmd.tgt) \in Nat
      /\ \A k \in DOMAIN Cmd.tgt : Cmd.tgt[k] \in Blocks
      /\ \A k, m \in DOMAIN Cmd.tgt : k # m => Cmd.tgt[k] # Cmd.tgt[m]
  BY <1>1, GuaranteedFacts DEF Cmd
<1>3. /\ UNCHANGED <<list, disk, canwrite, pos, rc, isunresumable, buffer>>
      /\ pc' \in {"write", "seek", "free", "pbiudone"}
  BY Zenon DEF SeekToOutputRange, Filled, Abort
<1>4. \A b \in Blocks : (\A m \in DOMAIN Cmd.tgt : ~(wpos =< m /\ Cmd.tgt[m] = b)) => dev'[b] = dev[b]
  <2>1. \A m \in RangeFrom(Cmd, wpos) : m \in DOMAIN Cmd.tgt /\ wpos =< m
    BY <1>1, <1>2 DEF RangeFrom
  <2> QED BY <2>1 DEF SeekToOutputRange
<1>5. FlashStays' /\ CompleteBefore' /\ ResultEarned'
  BY <1>1, <1>3, <1>4, OwnTarget DEF Running
<1>6. Cmd' = Cmd
  BY <1>3 DEF Cmd
<1>7. SourceInBuffer'
  BY <1>1, <1>3, <1>6 DEF InstallInv, SourceInBuffer, OnFlash
<1>8. FilledSoFar'
  <2>1. ASSUME NEW k \in 1 .. wpos - 1, Makes(Cmd)
        PROVE  dev'[Cmd.tgt[k]] = Cmd.tgthash[k]
    <3>1. k \in DOMAIN Cmd.tgt /\ k < wpos
      BY <1>1, <1>2
    <3>2. dev[Cmd.tgt[k]] = Cmd.tgthash[k]
      BY <1>1, <2>1 DEF InstallInv, FilledSoFar
    <3>3. \A m \in DOMAIN Cmd.tgt : ~(wpos =< m /\ Cmd.tgt[m] = Cmd.tgt[k])
      BY <1>1, <1>2, <3>1
    <3> QED BY <1>2, <1>4, <3>1, <3>2, <3>3
  <2>2. Makes(Cmd) => pc' \in {"write", "pbiudone"} /\ wpos' = wpos
    BY DEF SeekToOutputRange, Makes, Abort
  <2>3. Cmd.op \in {"move", "diff", "zero", "new", "erase"}
    BY <1>1, Zenon DEF InstallInv, FilledSoFar
  <2> QED BY <1>3, <1>6, <2>1, <2>2, <2>3 DEF FilledSoFar, Makes
<1> QED BY <1>5, <1>7, <1>8

LEMMA WriteInstall ==
  ASSUME InstallInv, WriteBlock
  PROVE  FlashStays' /\ SourceInBuffer' /\ FilledSoFar' /\ CompleteBefore' /\ ResultEarned'
<1>1. /\ TypeOK /\ pos \in DOMAIN list.cmds /\ pc = "write"
      /\ wpos \in DOMAIN Cmd.tgt /\ wpos \in Nat
      /\ dev \in [Blocks -> Contents]
  BY Zenon DEF InstallInv, WriteBlock, TypeOK, ControlOK, Running, ParamsOK, PartitionOK
<1>2. /\ DOMAIN Cmd.tgt = 1 .. Len(Cmd.tgt) /\ Len(Cmd.tgt) \in Nat
      /\ \A k \in DOMAIN Cmd.tgt : Cmd.tgt[k] \in Blocks
      /\ \A k, m \in DOMAIN Cmd.tgt : k # m => Cmd.tgt[k] # Cmd.tgt[m]
  BY <1>1, GuaranteedFacts DEF Cmd
<1>3. /\ UNCHANGED <<list, disk, canwrite, pos, rc, isunresumable, buffer>>
      /\ pc' \in {"write", "seek", "free", "pbiudone"}
  BY Zenon DEF WriteBlock, Filled, Abort
<1>4. \A b \in Blocks : b # Cmd.tgt[wpos] => dev'[b] = dev[b]
  BY <1>1 DEF WriteBlock
<1>5. FlashStays' /\ CompleteBefore' /\ ResultEarned'
  BY <1>1, <1>3, <1>4, OwnTarget DEF Running
<1>6. Cmd' = Cmd
  BY <1>3 DEF Cmd
<1>7. SourceInBuffer'
  BY <1>1, <1>3, <1>6 DEF InstallInv, SourceInBuffer, OnFlash
<1>8. FilledSoFar'
  <2>1. Cmd.op \in {"move", "diff", "zero", "new", "erase"}
    BY <1>1 DEF InstallInv, FilledSoFar
  <2>2. CASE pc' = "pbiudone"
    BY <2>2, Zenon DEF FilledSoFar
  <2>3. CASE pc' # "pbiudone"
    <3>1. wpos' = wpos + 1 /\ Filled(Cmd, wpos + 1) /\ dev' = [dev EXCEPT ![Cmd.tgt[wpos]] = Output(Cmd, wpos)]
      BY <2>3 DEF WriteBlock, Abort
    <3>2. ASSUME NEW k \in 1 .. wpos, Makes(Cmd)
          PROVE  dev'[Cmd.tgt[k]] = Cmd.tgthash[k]
      <4>1. CASE k = wpos
        BY <1>1, <1>2, <3>1, <4>1, OutputRight
      <4>2. CASE k # wpos
        <5>1. k \in 1 .. wpos - 1 /\ k \in DOMAIN Cmd.tgt
          BY <1>1, <1>2, <4>2
        <5>2. dev[Cmd.tgt[k]] = Cmd.tgthash[k]
          BY <1>1, <3>2, <5>1 DEF InstallInv, FilledSoFar
        <5> QED BY <1>1, <1>2, <1>4, <4>2, <5>1, <5>2
      <4> QED BY <4>1, <4>2
    <3>3. pc' = "free" => wpos = Len(Cmd.tgt)
      BY <1>1, <1>2, <3>1 DEF Filled
    <3>4. pc' = "free" /\ Makes(Cmd) => TargetDone(Cmd)'
      BY <1>2, <1>6, <3>2, <3>3 DEF TargetDone
    <3>5. wpos' - 1 = wpos
      BY <1>1, <3>1
    <3> QED BY <1>3, <1>6, <2>1, <3>2, <3>4, <3>5 DEF FilledSoFar, Makes
  <2> QED BY <2>2, <2>3
<1> QED BY <1>5, <1>7, <1>8

-----------------------------------------------------------------------------
(* The fsync after a command, and the steps outside the commands *)

LEMMA EndCommandInstall ==
  ASSUME InstallInv, EndCommand
  PROVE  FlashStays' /\ SourceInBuffer' /\ FilledSoFar' /\ CompleteBefore' /\ ResultEarned'
<1>1. /\ UNCHANGED <<list, dev, canwrite, isunresumable, rc>>
      /\ pc = "end" /\ pc' \in {"cmd", "pbiudone"}
      /\ disk' = disk \/ disk' = dev
      /\ canwrite /\ pc' = "cmd" => disk' = dev /\ pos' = pos + 1
  BY DEF EndCommand, Abort
<1>2. SourceInBuffer' /\ FilledSoFar'
  BY <1>1 DEF SourceInBuffer, FilledSoFar
<1>3. ResultEarned'
  BY <1>1 DEF InstallInv, ResultEarned, Running
<1>4. \A i : TargetDone(list.cmds[i])' <=> TargetDone(list.cmds[i])
  BY <1>1 DEF TargetDone
<1>5. disk' = dev => \A i : OnFlash(list.cmds[i])' <=> TargetDone(list.cmds[i])
  BY <1>1 DEF OnFlash, TargetDone
<1>6. FlashStays'
  <2>1. CASE disk' = disk
    BY <1>1, <2>1, Quiet DEF InstallInv
  <2>2. CASE disk' = dev
    BY <1>4, <1>5, <2>2 DEF FlashStays
  <2> QED BY <1>1, <2>1, <2>2
<1>7. CompleteBefore'
  <2> SUFFICES ASSUME canwrite', pc' = "cmd", NEW i \in DOMAIN list.cmds, i < pos',
                      Makes(list.cmds[i])
               PROVE  Complete(list.cmds[i])'
    BY <1>1 DEF CompleteBefore, Makes, Running
  <2>1. canwrite /\ disk' = dev /\ pos' = pos + 1
    BY <1>1
  <2>2. i < pos => TargetDone(list.cmds[i])
    BY <1>1, <2>1, Zenon DEF InstallInv, CompleteBefore, Complete, Running
  <2>3. i = pos => TargetDone(list.cmds[i])
    BY <1>1, <2>1 DEF InstallInv, FilledSoFar, Cmd
  <2>4. i < pos \/ i = pos
    <3>1. pos \in Nat /\ i \in Nat
      BY Indices DEF InstallInv, TypeOK, ParamsOK
    <3> QED BY <2>1, <3>1
  <2> QED BY <1>4, <1>5, <2>1, <2>2, <2>3, <2>4, Zenon DEF Complete
<1> QED BY <1>2, <1>3, <1>6, <1>7

LEMMA CommandsDoneInstall ==
  ASSUME InstallInv, CommandsDone
  PROVE  FlashStays' /\ SourceInBuffer' /\ FilledSoFar' /\ CompleteBefore' /\ ResultEarned'
<1>1. /\ UNCHANGED <<list, dev, disk, canwrite, isunresumable, pos>>
      /\ pc = "cmd" /\ pos \notin DOMAIN list.cmds
      /\ pc' \in {"delete", "pbiudone"} /\ (canwrite => pc' = "delete")
  BY DEF CommandsDone, partition, params
<1>2. FlashStays' /\ SourceInBuffer' /\ FilledSoFar' /\ CompleteBefore'
  BY <1>1, QuietOutside DEF Running
<1>3. canwrite => AllComplete
  <2>1. \A i \in DOMAIN list.cmds : i < pos
    BY <1>1, Indices DEF InstallInv, TypeOK, ParamsOK
  <2> QED BY <1>1, <2>1 DEF InstallInv, CompleteBefore, AllComplete, Running
<1>4. AllComplete => AllComplete'
  BY <1>1, Quiet
<1>5. ~isunresumable
  BY <1>1 DEF InstallInv, ResultEarned, Running
<1>6. ResultEarned'
  BY <1>1, <1>3, <1>4, <1>5 DEF ResultEarned, Running
<1> QED BY <1>2, <1>6

LEMMA DeleteStashInstall ==
  ASSUME InstallInv, DeleteStash
  PROVE  FlashStays' /\ SourceInBuffer' /\ FilledSoFar' /\ CompleteBefore' /\ ResultEarned'
<1>1. /\ UNCHANGED <<list, dev, disk, canwrite, isunresumable, rc>>
      /\ pc = "delete" /\ pc' \in {"delete", "pbiudone", "exited", "idle"}
      /\ pc' \in {"pbiudone", "exited"} => stash' = {} /\ stashDir' = FALSE
  BY DEF DeleteStash, partition, params, Return, FreeStash
<1>2. FlashStays' /\ SourceInBuffer' /\ FilledSoFar' /\ CompleteBefore'
  BY <1>1, QuietOutside DEF Running
<1>3. AllComplete => AllComplete'
  BY <1>1, Quiet
<1>4. ResultEarned'
  BY <1>1, <1>3, Zenon DEF InstallInv, ResultEarned, Running
<1> QED BY <1>2, <1>4

LEMMA PbiudoneInstall ==
  ASSUME InstallInv, Pbiudone
  PROVE  FlashStays' /\ SourceInBuffer' /\ FilledSoFar' /\ CompleteBefore' /\ ResultEarned'
<1>1. /\ UNCHANGED <<list, dev, canwrite, isunresumable, rc, stash, stashDir>>
      /\ pc = "pbiudone" /\ pc' \in {"delete", "exited", "idle"}
      /\ disk' = disk \/ disk' = dev
  BY DEF Pbiudone, cache, params, Return
<1>2. \A i : TargetDone(list.cmds[i])' <=> TargetDone(list.cmds[i])
  BY <1>1 DEF TargetDone
<1>3. disk' = dev => \A i : OnFlash(list.cmds[i])' <=> TargetDone(list.cmds[i])
  BY <1>1 DEF OnFlash, TargetDone
<1>4. FlashStays' /\ (AllComplete => AllComplete')
  <2>1. CASE disk' = disk
    BY <1>1, <2>1, Quiet, Zenon DEF InstallInv
  <2>2. CASE disk' = dev
    BY <1>1, <1>2, <1>3, <2>2 DEF FlashStays, AllComplete, Complete, Makes
  <2> QED BY <1>1, <2>1, <2>2
<1>5. ResultEarned'
  BY <1>1, <1>4 DEF InstallInv, ResultEarned, Running
<1> QED BY <1>1, <1>4, <1>5 DEF SourceInBuffer, FilledSoFar, CompleteBefore, Running

LEMMA StartUpdaterInstall ==
  ASSUME InstallInv, StartUpdater
  PROVE  FlashStays' /\ SourceInBuffer' /\ FilledSoFar' /\ CompleteBefore' /\ ResultEarned'
<1>1. UNCHANGED <<list, dev, disk>> /\ pc' = "idle"
  BY DEF StartUpdater, partition
<1>2. FlashStays' /\ SourceInBuffer' /\ FilledSoFar' /\ CompleteBefore'
  BY <1>1, QuietOutside, Zenon DEF Running
<1> QED BY <1>1, <1>2 DEF ResultEarned, Running

LEMMA BeginInstall ==
  ASSUME InstallInv, NEW dryrun \in BOOLEAN, PerformBlockImageUpdate(dryrun)
  PROVE  FlashStays' /\ SourceInBuffer' /\ FilledSoFar' /\ CompleteBefore' /\ ResultEarned'
<1>1. /\ UNCHANGED <<list, dev, disk>> /\ pos' = 1 /\ ~isunresumable'
      /\ pc' \in {"cmd", "idle", "exited"}
      /\ pc' = "cmd" => rc' = -1 /\ list.total > 0
      /\ pc' = "exited" /\ rc' = 0 => list.total = 0
  BY DEF PerformBlockImageUpdate, partition, CreateStash, CannotBegin, Return
<1>2. FlashStays'
  BY <1>1, Quiet DEF InstallInv
<1>3. \A i \in DOMAIN list.cmds : ~(i < 1)
  BY Indices DEF InstallInv
<1>4. CompleteBefore'
  BY <1>1, <1>3 DEF CompleteBefore
<1>5. list.total = 0 => ~(list.total > 0)
  OBVIOUS
<1>6. ResultEarned'
  BY <1>1, <1>5 DEF ResultEarned, Running
<1> QED BY <1>1, <1>2, <1>4, <1>6 DEF SourceInBuffer, FilledSoFar

LEMMA KillInstall ==
  ASSUME InstallInv, Kill
  PROVE  FlashStays' /\ SourceInBuffer' /\ FilledSoFar' /\ CompleteBefore' /\ ResultEarned'
<1>1. UNCHANGED <<list, dev, disk>> /\ pc' = "exited" /\ rc' = -1
  BY DEF Kill, partition
<1>2. FlashStays' /\ SourceInBuffer' /\ FilledSoFar' /\ CompleteBefore'
  BY <1>1, QuietOutside, Zenon DEF Running
<1> QED BY <1>1, <1>2 DEF ResultEarned, Running

LEMMA PowerLossInstall ==
  ASSUME InstallInv, PowerLoss
  PROVE  FlashStays' /\ SourceInBuffer' /\ FilledSoFar' /\ CompleteBefore' /\ ResultEarned'
<1>1. list' = list /\ disk' = dev' /\ pc' = "exited" /\ rc' = -1
  BY DEF PowerLoss
<1>2. FlashStays'
  BY <1>1 DEF FlashStays, OnFlash, TargetDone
<1> QED BY <1>1, <1>2 DEF SourceInBuffer, FilledSoFar, CompleteBefore, ResultEarned, Running

(* Nothing the invariant is about changes. *)
LEMMA NothingChanges ==
  ASSUME InstallInv,
         UNCHANGED <<list, dev, disk, pc, buffer, pos, wpos, canwrite, rc, isunresumable,
                     stash, stashDir>>
  PROVE  FlashStays' /\ SourceInBuffer' /\ FilledSoFar' /\ CompleteBefore' /\ ResultEarned'
<1>1. Cmd' = Cmd
  BY DEF Cmd
<1>2. FlashStays' /\ (AllComplete => AllComplete')
  BY Quiet, Zenon DEF InstallInv
<1>3. SourceInBuffer'
  BY <1>1, Zenon DEF InstallInv, SourceInBuffer, OnFlash
<1>4. FilledSoFar'
  BY <1>1 DEF InstallInv, FilledSoFar, TargetDone
<1>5. CompleteBefore'
  BY Quiet, Zenon DEF InstallInv, CompleteBefore, Complete
<1>6. ResultEarned'
  BY <1>2 DEF InstallInv, ResultEarned
<1> QED BY <1>2, <1>3, <1>4, <1>5, <1>6

LEMMA RotInstall ==
  ASSUME InstallInv, Rot \/ Unreadable
  PROVE  FlashStays' /\ SourceInBuffer' /\ FilledSoFar' /\ CompleteBefore' /\ ResultEarned'
BY NothingChanges, Zenon DEF Rot, Unreadable, partition, params, cache

-----------------------------------------------------------------------------
(* The invariant, and what it gives *)

LEMMA InitInstall == Init => InstallInv
<1> SUFFICES ASSUME Init PROVE InstallInv
  OBVIOUS
<1>1. FlashStays
  BY Zenon DEF Init, FlashStays, OnFlash, TargetDone
<1> QED
  BY <1>1, InitType, Zenon DEF Init, InstallInv, SourceInBuffer, FilledSoFar, CompleteBefore,
     ResultEarned, Running

LEMMA NextInstall == InstallInv /\ [Next]_vars => InstallInv'
<1> SUFFICES ASSUME InstallInv, [Next]_vars PROVE InstallInv'
  OBVIOUS
<1>1. TypeOK'
  BY NextType DEF InstallInv
<1>2. CASE UNCHANGED vars
  <2>1. UNCHANGED <<list, dev, disk, pc, buffer, pos, wpos, canwrite, rc, isunresumable, stash, stashDir>>
    BY <1>2, Zenon DEF vars, partition, cache, params
  <2> QED BY <1>1, <2>1, NothingChanges DEF InstallInv
<1>3. CASE Command
  BY <1>1, <1>3, LoadSrcTgtInstall, StashInstall, SyncInstall, FreeInstall, ZeroNewEraseInstall,
     SeekInstall, WriteInstall, FreeOverlappingInstall, EndCommandInstall
  DEF Command, PerformCommandMove, PerformCommandDiff, Copies, InstallInv
<1>4. CASE BlockImageVerifyFn \/ BlockImageUpdateFn
  BY <1>1, <1>4, BeginInstall, Zenon DEF BlockImageVerifyFn, BlockImageUpdateFn, InstallInv
<1> QED
  BY <1>1, <1>2, <1>3, <1>4, CommandsDoneInstall, DeleteStashInstall, PbiudoneInstall,
     StartUpdaterInstall, KillInstall, PowerLossInstall, RotInstall
  DEF Next, Updater, InstallInv

(* The strengthening holds in every reachable state. *)
LEMMA InstallInvariant == Spec => []InstallInv
BY InitInstall, NextInstall, PTL DEF Spec

(* THEOREM: no command ever fills its target with data that was not         *)
(* verified, whatever LoadStash and LoadSourceBlocks read before.           *)
THEOREM WritesOnlyVerified == Spec => []OnlyVerifiedData
<1>1. InstallInv => OnlyVerifiedData
  BY OutputRight DEF OnlyVerifiedData
<1> QED BY <1>1, InstallInvariant, PTL

(* THEOREM: when block_image_update returns "t", what every command         *)
(* produces is on the flash, and no stash is left.                          *)
THEOREM SuccessIsComplete == Spec => []SuccessMeansTarget
<1>1. ASSUME InstallInv, Installed, list.total > 0
      PROVE  /\ AllComplete
             /\ stash = {} /\ ~stashDir
  BY <1>1, Zenon DEF InstallInv, ResultEarned, Installed
<1>2. ASSUME InstallInv, AllComplete, NEW i \in DOMAIN list.cmds, list.cmds[i].op # "erase",
             NEW k \in DOMAIN list.cmds[i].tgt
      PROVE  disk[list.cmds[i].tgt[k]] = list.cmds[i].tgthash[k]
  <2>1. IsCommand(list.cmds[i]) /\ Len(list.cmds[i].tgt) > 0
    BY <1>2, GuaranteedFacts DEF InstallInv
  <2>2. Makes(list.cmds[i])
    BY <1>2, <2>1, Zenon DEF IsCommand, Makes
  <2> QED BY <1>2, <2>2, Zenon DEF AllComplete, Complete, OnFlash
<1>3. InstallInv => SuccessMeansTarget
  BY <1>1, <1>2 DEF SuccessMeansTarget
<1> QED BY <1>3, InstallInvariant, PTL

-----------------------------------------------------------------------------
(* The refinement *)

LEMMA InitRefines == Init => I!Init
<1> SUFFICES ASSUME Init PROVE I!Init
  OBVIOUS
<1>1. copies \cap fills = {}
  BY DEF copies, fills, PiecesOf
<1>2. flash \subseteq copies \cup fills
  BY DEF flash
<1>3. phase = "stopped"
  BY Zenon DEF Init, phase, Installed
<1> QED BY <1>1, <1>2, <1>3 DEF I!Init, I!Pieces

(* A loss of power changes no block that the flash has as it was read. *)
LEMMA SyncedSurvives ==
  ASSUME PowerLoss, NEW b \in Blocks, dev[b] = disk[b]
  PROVE  disk'[b] = dev[b]
<1>1. PICK kept \in [{a \in Blocks : dev[a] # disk[a]} -> {"old", "new", "torn"}] :
        dev' = [a \in Blocks |-> IF a \notin DOMAIN kept \/ kept[a] = "new" THEN dev[a]
                                 ELSE IF kept[a] = "old" THEN disk[a] ELSE Junk]
  BY DEF PowerLoss
<1>2. b \notin DOMAIN kept
  OBVIOUS
<1>3. dev'[b] = dev[b]
  BY <1>1, <1>2
<1> QED BY <1>3, Zenon DEF PowerLoss

(* A copied or patched piece stays on the flash. *)
LEMMA FlashKept ==
  ASSUME InstallInv, [Next]_vars
  PROVE  /\ list' = list
         /\ copies' = copies /\ fills' = fills
         /\ flash' \subseteq copies \cup fills
         /\ flash \cap copies \subseteq flash'
<1>1. list' = list
  BY Zenon DEF Next, Updater, Command, vars, StartUpdater, BlockImageVerifyFn, BlockImageUpdateFn,
     PerformBlockImageUpdate, CommandsDone, DeleteStash, Pbiudone, Kill, PowerLoss, Rot, Unreadable,
     PerformCommandMove, PerformCommandDiff, LoadSrcTgtVersion3, PerformCommandStash,
     SyncStashDirectory, PerformCommandFree, PerformCommandZeroNewErase, SeekToOutputRange,
     WriteBlock, FreeOverlapping, EndCommand
<1>2. disk' = disk \/ disk' = dev \/ PowerLoss
  BY Zenon DEF Next, Updater, Command, vars, partition, StartUpdater, BlockImageVerifyFn,
     BlockImageUpdateFn, PerformBlockImageUpdate, CommandsDone, DeleteStash, Pbiudone, Kill, Rot,
     Unreadable,
     PerformCommandMove, PerformCommandDiff, LoadSrcTgtVersion3, PerformCommandStash,
     SyncStashDirectory, PerformCommandFree, PerformCommandZeroNewErase, SeekToOutputRange,
     WriteBlock, FreeOverlapping, EndCommand
<1>3. copies' = copies /\ fills' = fills
  BY <1>1 DEF copies, fills, PiecesOf
<1>4. ASSUME NEW i \in flash \cap copies
      PROVE  OnFlash(list.cmds[i])'
  <2>1. i \in DOMAIN list.cmds /\ Copies(list.cmds[i]) /\ OnFlash(list.cmds[i])
    BY <1>4 DEF flash, copies, PiecesOf, Copies
  <2>2. TargetDone(list.cmds[i])
    BY <2>1, Zenon DEF InstallInv, FlashStays
  <2>3. CASE disk' = disk \/ disk' = dev
    BY <1>1, <2>1, <2>2, <2>3, Zenon DEF OnFlash, TargetDone
  <2>4. CASE PowerLoss
    <3>1. ASSUME NEW k \in DOMAIN list.cmds[i].tgt
          PROVE  disk'[list.cmds[i].tgt[k]] = list.cmds[i].tgthash[k]
      <4>1. list.cmds[i].tgt[k] \in Blocks
        BY <2>1, <3>1, GuaranteedFacts, Zenon DEF InstallInv
      <4>2. disk[list.cmds[i].tgt[k]] = list.cmds[i].tgthash[k]
        BY <2>1, <3>1, Zenon DEF OnFlash
      <4>3. dev[list.cmds[i].tgt[k]] = list.cmds[i].tgthash[k]
        BY <2>2, <3>1, Zenon DEF TargetDone
      <4> QED BY <2>4, <4>1, <4>2, <4>3, SyncedSurvives
    <3> QED BY <1>1, <3>1, Zenon DEF OnFlash
  <2> QED BY <1>2, <2>3, <2>4
<1>5. flash \cap copies \subseteq flash'
  BY <1>1, <1>3, <1>4 DEF flash
<1>6. flash' \subseteq copies \cup fills
  BY <1>3 DEF flash
<1> QED BY <1>1, <1>3, <1>5, <1>6

(* A call that returns 0 returns it with every piece on the flash. *)
LEMMA ReturnsComplete ==
  ASSUME InstallInv, Next, pc # "exited", Installed'
  PROVE  flash = copies \cup fills /\ flash' = flash
<1>1. \/ Pbiudone /\ canwrite /\ rc = 0
      \/ list.total = 0
  <2>1. CASE BlockImageVerifyFn \/ BlockImageUpdateFn
    BY <2>1 DEF Installed, BlockImageVerifyFn, BlockImageUpdateFn, PerformBlockImageUpdate,
       CreateStash, CannotBegin, Return
  <2>2. CASE Command
    <3>1. pc' # "exited"
      BY <2>2, Zenon DEF Command, PerformCommandMove, PerformCommandDiff, LoadSrcTgtVersion3,
         StashOverlapping, Proceed, Unresumable, Abort, WriteStashDone, WriteStashNoSpace,
         WriteStashError, PerformCommandStash, SyncStashDirectory, PerformCommandFree,
         PerformCommandZeroNewErase, SeekToOutputRange, Filled, WriteBlock, FreeOverlapping,
         EndCommand
    <3> QED BY <3>1 DEF Installed
  <2>3. CASE DeleteStash
    BY <2>3 DEF Installed, DeleteStash, params, Return
  <2>4. CASE Pbiudone
    BY <2>4, Zenon DEF Installed, Pbiudone, params
  <2>5. CASE Kill \/ PowerLoss
    <3>1. rc' # 0
      BY <2>5 DEF Kill, PowerLoss
    <3> QED BY <3>1, Zenon DEF Installed
  <2>6. CASE CommandsDone
    <3>1. pc' # "exited"
      BY <2>6 DEF CommandsDone
    <3> QED BY <3>1, Zenon DEF Installed
  <2>7. CASE StartUpdater \/ Rot \/ Unreadable
    BY <2>7, Zenon DEF StartUpdater, Rot, Unreadable, Installed
  <2> QED BY <2>1, <2>2, <2>3, <2>4, <2>5, <2>6, <2>7, Zenon DEF Next, Updater
<1>2. list' = list
  BY FlashKept
<1>3. CASE list.total = 0
  <2>1. ~(list.total > 0)
    BY <1>3
  <2>2. copies = {} /\ fills = {} /\ copies' = {} /\ fills' = {}
    BY <1>2, <2>1 DEF copies, fills, PiecesOf
  <2> QED BY <2>2 DEF flash
<1>4. CASE Pbiudone /\ canwrite /\ rc = 0 /\ list.total > 0
  <2>1. AllComplete
    BY <1>4, Zenon DEF InstallInv, ResultEarned, Pbiudone
  <2>2. \A i \in copies \cup fills : TargetDone(list.cmds[i]) /\ OnFlash(list.cmds[i])
    BY <2>1 DEF AllComplete, Complete, Makes, copies, fills, PiecesOf
  <2>3. disk' = disk \/ disk' = dev
    BY <1>4, Zenon DEF Pbiudone
  <2>4. \A i \in copies \cup fills : OnFlash(list.cmds[i])'
    BY <1>2, <2>2, <2>3 DEF OnFlash, TargetDone
  <2>5. copies' = copies /\ fills' = fills
    BY FlashKept
  <2> QED BY <1>2, <2>2, <2>4, <2>5 DEF flash
<1>5. list.total \in Nat
  BY ListAssumption, Zenon DEF ListAssumption, IsTransferList, InstallInv, TypeOK, PartitionOK
<1> QED BY <1>1, <1>3, <1>4, <1>5

LEMMA NextRefines == InstallInv /\ [Next]_vars => [I!Next]_(I!vars)
<1> SUFFICES ASSUME InstallInv, [Next]_vars PROVE [I!Next]_(I!vars)
  OBVIOUS
<1>1. /\ copies' = copies /\ fills' = fills
      /\ I!Change
  BY FlashKept, Zenon DEF I!Change, I!Pieces
<1>2. ASSUME UNCHANGED <<disk, list>> PROVE flash' = flash
  BY <1>1, <1>2 DEF flash, OnFlash
<1>3. CASE UNCHANGED vars
  <2>1. UNCHANGED <<disk, list, pc, canwrite, rc>>
    BY <1>3 DEF vars, partition, params
  <2> QED BY <1>1, <1>2, <2>1 DEF phase, Installed, I!vars
<1>4. CASE Next /\ pc = "exited"
  <2>1. CASE StartUpdater
    <3>1. UNCHANGED <<disk, list>> /\ phase # "running" /\ phase' = "running"
      BY <2>1 DEF StartUpdater, partition, phase
    <3> QED BY <1>1, <1>2, <3>1 DEF I!Attempt, I!Next
  <2>2. CASE PowerLoss
    <3>1. phase' = "stopped"
      BY <2>2 DEF PowerLoss, phase, Installed
    <3> QED BY <1>1, <3>1, Zenon DEF I!Stop, I!Next
  <2>3. CASE Rot \/ Unreadable
    <3>1. UNCHANGED <<disk, list, pc, canwrite, rc>>
      BY <2>3 DEF Rot, Unreadable, partition, params
    <3> QED BY <1>1, <1>2, <3>1 DEF phase, Installed, I!vars
  <2>4. StartUpdater \/ PowerLoss \/ Rot \/ Unreadable
    BY <1>4, Zenon DEF Next, Updater, Command, BlockImageVerifyFn, BlockImageUpdateFn,
       PerformBlockImageUpdate, CommandsDone, DeleteStash, Pbiudone, Kill, PerformCommandMove,
       PerformCommandDiff, PerformCommandStash, SyncStashDirectory, PerformCommandFree,
       PerformCommandZeroNewErase, SeekToOutputRange, WriteBlock, FreeOverlapping, EndCommand
  <2> QED BY <2>1, <2>2, <2>3, <2>4
<1>5. CASE Next /\ pc # "exited"
  <2>1. phase = "running"
    BY <1>5 DEF phase
  <2>2. CASE pc' # "exited"
    <3>1. phase' = "running"
      BY <2>2 DEF phase
    <3> QED BY <1>1, <2>1, <3>1 DEF I!Progress, I!Next
  <2>3. CASE pc' = "exited" /\ ~Installed'
    <3>1. phase' = "stopped"
      BY <2>3 DEF phase
    <3> QED BY <1>1, <3>1 DEF I!Stop, I!Next
  <2>4. CASE pc' = "exited" /\ Installed'
    <3>1. phase' = "installed"
      BY <2>4 DEF phase
    <3>2. flash = copies \cup fills /\ flash' = flash
      BY <1>5, <2>4, ReturnsComplete
    <3> QED BY <1>1, <2>1, <3>1, <3>2 DEF I!Complete, I!Pieces, I!Next
  <2> QED BY <2>2, <2>3, <2>4
<1> QED BY <1>3, <1>4, <1>5

(* THEOREM: through every fault of the model, block_image_update keeps the  *)
(* promise of Installation: a move or a patch whose blocks reached the      *)
(* flash is there for good, and "t" means that the whole list is.           *)
THEOREM ImplementsInstallation == Spec => InstallsImage
BY InitRefines, NextRefines, InstallInvariant, PTL DEF Spec, InstallsImage, I!Spec

-----------------------------------------------------------------------------
(* What is complete stays complete *)

LEMMA FromHere ==
  ASSUME NEW tgt \in Seq(Blocks), NEW w \in DOMAIN tgt PROVE w .. Len(tgt) \subseteq DOMAIN tgt
OBVIOUS

(* The steps that fill a target change no block of another command. *)
LEMMA OthersStay ==
  ASSUME InstallInv, SeekToOutputRange \/ WriteBlock, NEW i \in DOMAIN list.cmds, i # pos,
         NEW k \in DOMAIN list.cmds[i].tgt
  PROVE  dev'[list.cmds[i].tgt[k]] = dev[list.cmds[i].tgt[k]]
<1> DEFINE b == list.cmds[i].tgt[k]
<1>1. /\ TypeOK /\ pos \in DOMAIN list.cmds /\ pc \in {"seek", "write"}
      /\ wpos \in DOMAIN Cmd.tgt /\ wpos \in Nat
  BY DEF InstallInv, SeekToOutputRange, WriteBlock, TypeOK, ControlOK, Running, ParamsOK
<1>2. Cmd.tgt \in Seq(Blocks)
  BY <1>1, GuaranteedFacts, Zenon DEF Cmd, IsCommand
<1>3. b \in Blocks
  BY <1>1, GuaranteedFacts
<1>4. \A m \in DOMAIN Cmd.tgt : Cmd.tgt[m] # b
  BY <1>1, TargetsApart, Zenon DEF Cmd
<1>5. CASE SeekToOutputRange
  <2>1. \A m \in RangeFrom(Cmd, wpos) : m \in DOMAIN Cmd.tgt
    BY <1>1, <1>2, FromHere, Zenon DEF RangeFrom
  <2> QED BY <1>3, <1>4, <1>5, <2>1, Zenon DEF SeekToOutputRange
<1>6. CASE WriteBlock
  <2>1. Cmd.tgt[wpos] # b
    BY <1>1, <1>4, Zenon
  <2>2. PICK x : dev' = [dev EXCEPT ![Cmd.tgt[wpos]] = x]
    BY <1>6, Zenon DEF WriteBlock
  <2>3. dev \in [Blocks -> Contents]
    BY <1>1, Zenon DEF TypeOK, PartitionOK
  <2> QED BY <1>3, <2>1, <2>2, <2>3, Zenon
<1> QED BY <1>5, <1>6, Zenon

(* The partition changes only where a command fills its target, or when the *)
(* power fails.                                                             *)
LEMMA PartitionChanges ==
  ASSUME [Next]_vars
  PROVE  SeekToOutputRange \/ WriteBlock \/ cause' = "power" \/ dev' = dev
<1>1. CASE UNCHANGED vars
  BY <1>1 DEF vars, partition
<1>2. CASE Command
  BY <1>2, Zenon DEF Command, PerformCommandMove, PerformCommandDiff, LoadSrcTgtVersion3,
     PerformCommandStash, SyncStashDirectory, PerformCommandFree, PerformCommandZeroNewErase,
     FreeOverlapping, EndCommand, partition
<1>3. CASE BlockImageVerifyFn \/ BlockImageUpdateFn \/ CommandsDone \/ DeleteStash \/ Pbiudone
  BY <1>3, Zenon DEF BlockImageVerifyFn, BlockImageUpdateFn, PerformBlockImageUpdate, CommandsDone,
     DeleteStash, Pbiudone, partition
<1>4. CASE StartUpdater \/ Kill \/ PowerLoss \/ Rot \/ Unreadable
  BY <1>4, Zenon DEF StartUpdater, Kill, PowerLoss, Rot, Unreadable, partition
<1> QED BY <1>1, <1>2, <1>3, <1>4 DEF Next, Updater

(* THEOREM: whatever fails or dies, a move or a patch that is complete      *)
(* stays complete until the power fails: no later command writes its        *)
(* blocks, and no retry discards them, for every list that keeps the        *)
(* creator's guarantees.                                                    *)
THEOREM CompletedCopiesStay == Spec => CompletedStays
<1>1. ASSUME InstallInv, [Next]_vars, NEW i \in DOMAIN list.cmds, Copies(list.cmds[i]), cause' # "power",
             \A k \in DOMAIN list.cmds[i].tgt : dev[list.cmds[i].tgt[k]] = list.cmds[i].tgthash[k],
             i = pos /\ pc \in {"seek", "write"} =>
               \A k \in DOMAIN list.cmds[i].tgt : disk[list.cmds[i].tgt[k]] = list.cmds[i].tgthash[k]
      PROVE  \A k \in DOMAIN list.cmds[i].tgt : dev'[list.cmds[i].tgt[k]] = list.cmds[i].tgthash[k]
  <2>1. CASE SeekToOutputRange \/ WriteBlock
    <3>1. pc \in {"seek", "write"}
      BY <2>1, Zenon DEF SeekToOutputRange, WriteBlock
    <3>2. i # pos
      <4>1. SUFFICES ASSUME i = pos PROVE FALSE
        BY Zenon
      <4>2. OnFlash(Cmd) /\ Copies(Cmd)
        BY <1>1, <3>1, <4>1, Zenon DEF OnFlash, Cmd
      <4> QED BY <1>1, <3>1, <4>2, Zenon DEF InstallInv, SourceInBuffer
    <3> QED BY <1>1, <2>1, <3>2, OthersStay, Zenon
  <2> QED BY <1>1, <2>1, PartitionChanges, Zenon
<1>2. InstallInv /\ [Next]_vars =>
        [\A i \in DOMAIN list.cmds : LET c == list.cmds[i] IN
           /\ Copies(c) /\ cause' # "power"
           /\ \A k \in DOMAIN c.tgt : dev[c.tgt[k]] = c.tgthash[k]
           /\ i = pos /\ pc \in {"seek", "write"} =>
                \A k \in DOMAIN c.tgt : disk[c.tgt[k]] = c.tgthash[k]
           => \A k \in DOMAIN c.tgt : dev'[c.tgt[k]] = c.tgthash[k]]_vars
  BY <1>1, Zenon
<1> QED BY <1>2, InstallInvariant, PTL DEF Spec, CompletedStays

-----------------------------------------------------------------------------
(* Verification is read-only *)

(* A verification run has no stash of its own to free, and deletes the      *)
(* directory only if it made it or found that nothing in it is of use.      *)
VerifyInv ==
  pc \notin {"exited", "idle"} /\ ~canwrite =>
    /\ createdstash => stash = {}
    /\ freestash = <<>>
    /\ pc = "delete" => isunresumable \/ createdstash

(* What LoadStash deletes is rotten. *)
LEMMA LoadDeletesRotten ==
  ASSUME NEW id
  PROVE  StashAfterLoad(id) \subseteq stash /\ stash \ bad \subseteq StashAfterLoad(id)
BY Zenon DEF StashAfterLoad

(* A command of a verification run. *)
LEMMA VerifyCommand ==
  ASSUME TypeOK, VerifyInv, Command, ~canwrite
  PROVE  /\ UNCHANGED <<dev, canwrite, createdstash>>
         /\ freestash' = <<>>
         /\ stash \ bad \subseteq stash' /\ stash' \subseteq stash
         /\ pc' # "delete"
<1>0. pc \in Running
  BY Zenon DEF Command, PerformCommandMove, PerformCommandDiff, PerformCommandStash,
     SyncStashDirectory, PerformCommandFree, PerformCommandZeroNewErase, SeekToOutputRange,
     WriteBlock, FreeOverlapping, EndCommand, Running
<1>a. freestash = <<>> /\ (createdstash => stash = {})
  BY <1>0 DEF VerifyInv, Running
<1>b. pc \notin {"dirsync", "seek", "write"}
  BY DEF TypeOK, ControlOK
<1>1. CASE PerformCommandMove \/ PerformCommandDiff
  <2>1. LoadSrcTgtVersion3(Cmd)
    BY <1>1, Zenon DEF PerformCommandMove, PerformCommandDiff
  <2>2. UNCHANGED <<dev, canwrite, createdstash>>
    BY <2>1 DEF LoadSrcTgtVersion3, partition
  <2>3. freestash' = freestash /\ pc' # "delete"
    BY <2>1, Zenon DEF LoadSrcTgtVersion3, Proceed, Unresumable, Abort
  <2>4. stash' = stash \/ stash' = StashAfterLoad(Cmd.srchash)
    BY <2>1, Zenon DEF LoadSrcTgtVersion3, Proceed, Unresumable, cache
  <2>5. stash \ bad \subseteq stash' /\ stash' \subseteq stash
    BY <2>4, LoadDeletesRotten
  <2> QED BY <1>a, <2>2, <2>3, <2>5
<1>2. CASE PerformCommandStash
  <2>1. UNCHANGED <<dev, canwrite, createdstash, freestash>> /\ pc' # "delete"
    BY <1>2, Zenon DEF PerformCommandStash, partition, params, Abort
  <2>2. stash' = stash \/ stash' = StashAfterLoad(Cmd.srchash)
    BY <1>2, Zenon DEF PerformCommandStash, cache
  <2>3. stash \ bad \subseteq stash' /\ stash' \subseteq stash
    BY <2>2, LoadDeletesRotten
  <2> QED BY <1>a, <2>1, <2>3
<1>3. CASE PerformCommandFree
  <2>1. UNCHANGED <<dev, canwrite, createdstash, freestash>> /\ pc' # "delete"
    BY <1>3, Zenon DEF PerformCommandFree, partition, params
  <2>2. stash' = stash
    BY <1>3, <1>a, Zenon DEF PerformCommandFree, cache, FreeStash
  <2> QED BY <1>a, <2>1, <2>2, Zenon
<1>4. CASE PerformCommandZeroNewErase
  BY <1>4, <1>a, Zenon DEF PerformCommandZeroNewErase, partition, cache
<1>5. CASE FreeOverlapping
  BY <1>5, <1>a, Zenon DEF FreeOverlapping, partition, cache
<1>6. CASE EndCommand
  BY <1>6, <1>a, Zenon DEF EndCommand, partition, cache, Abort
<1>7. CASE SyncStashDirectory \/ SeekToOutputRange \/ WriteBlock
  BY <1>7, <1>b DEF SyncStashDirectory, SeekToOutputRange, WriteBlock
<1> QED BY <1>1, <1>2, <1>3, <1>4, <1>5, <1>6, <1>7 DEF Command

LEMMA CommandMode == ASSUME Command PROVE canwrite' = canwrite
BY Zenon DEF Command, PerformCommandMove, PerformCommandDiff, LoadSrcTgtVersion3, PerformCommandStash,
   SyncStashDirectory, PerformCommandFree, PerformCommandZeroNewErase, SeekToOutputRange, WriteBlock,
   FreeOverlapping, EndCommand, params

LEMMA NextVerify == TypeOK /\ VerifyInv /\ [Next]_vars => VerifyInv'
<1> SUFFICES ASSUME TypeOK, VerifyInv, [Next]_vars PROVE VerifyInv'
  OBVIOUS
<1>1. CASE Command
  <2>1. CASE canwrite
    BY <1>1, <2>1, CommandMode DEF VerifyInv
  <2>2. CASE ~canwrite
    <3>1. /\ UNCHANGED <<canwrite, createdstash>> /\ freestash' = <<>>
          /\ stash' \subseteq stash /\ pc' # "delete"
      BY <1>1, <2>2, VerifyCommand
    <3>2. createdstash => stash = {}
      <4>1. pc \notin {"exited", "idle"}
        BY <1>1, Zenon DEF Command, PerformCommandMove, PerformCommandDiff, PerformCommandStash,
           SyncStashDirectory, PerformCommandFree, PerformCommandZeroNewErase, SeekToOutputRange,
           WriteBlock, FreeOverlapping, EndCommand
      <4> QED BY <2>2, <4>1 DEF VerifyInv
    <3>3. createdstash' => stash' = {}
      BY <3>1, <3>2
    <3> QED BY <3>1, <3>3 DEF VerifyInv
  <2> QED BY <2>1, <2>2
<1>2. CASE BlockImageVerifyFn
  <2>1. freestash' = <<>> /\ stash' = stash /\ pc' # "delete" /\ (createdstash' => ~stashDir)
    BY <1>2, Zenon DEF BlockImageVerifyFn, PerformBlockImageUpdate, CreateStash, CannotBegin, Return, cache
  <2>2. createdstash' => stash' = {}
    BY <2>1 DEF TypeOK, ControlOK
  <2> QED BY <2>1, <2>2 DEF VerifyInv
<1>3. CASE BlockImageUpdateFn
  <2>1. canwrite' = TRUE
    BY <1>3, Zenon DEF BlockImageUpdateFn, PerformBlockImageUpdate
  <2> QED BY <2>1 DEF VerifyInv
<1>4. CASE CommandsDone
  <2>1. pc = "cmd" /\ UNCHANGED <<canwrite, createdstash, freestash, stash>> /\ (~canwrite => pc' # "delete")
    BY <1>4 DEF CommandsDone, params, cache
  <2> QED BY <2>1, Zenon DEF VerifyInv
<1>5. CASE DeleteStash
  <2>1. /\ pc = "delete" /\ UNCHANGED <<canwrite, createdstash, freestash, isunresumable>>
        /\ stash' \subseteq stash
    BY <1>5 DEF DeleteStash, params, FreeStash
  <2> QED BY <2>1, Zenon DEF VerifyInv
<1>6. CASE Pbiudone
  <2>1. /\ pc = "pbiudone" /\ UNCHANGED <<canwrite, createdstash, freestash, isunresumable, stash>>
        /\ pc' = "delete" /\ ~canwrite => isunresumable \/ createdstash
    BY <1>6 DEF Pbiudone, params, cache, Return
  <2> QED BY <2>1 DEF VerifyInv
<1>7. CASE StartUpdater \/ Kill \/ PowerLoss
  <2>1. pc' \in {"exited", "idle"}
    BY <1>7, Zenon DEF StartUpdater, Kill, PowerLoss
  <2> QED BY <2>1 DEF VerifyInv
<1>8. CASE Rot \/ Unreadable \/ UNCHANGED vars
  <2>1. UNCHANGED <<pc, canwrite, createdstash, freestash, isunresumable, stash>>
    BY <1>8, Zenon DEF Rot, Unreadable, vars, params, cache
  <2> QED BY <2>1, Zenon DEF VerifyInv
<1> QED BY <1>1, <1>2, <1>3, <1>4, <1>5, <1>6, <1>7, <1>8 DEF Next, Updater

(* THEOREM: without a fault, block_image_verify writes no block of the      *)
(* partition, and deletes no stash file that is not rotten unless it has    *)
(* found that the update cannot be resumed.                                 *)
THEOREM VerifyChangesNothing == Spec => VerifyReadOnly
<1>1. ASSUME TypeOK, VerifyInv, [Next]_vars, pc \notin {"exited", "idle"}, ~canwrite, faults' = faults
      PROVE  dev' = dev /\ (~isunresumable => stash \ bad \subseteq stash')
  <2>1. CASE Command
    BY <1>1, <2>1, VerifyCommand, Zenon
  <2>2. CASE CommandsDone \/ Pbiudone \/ Unreadable \/ UNCHANGED vars
    BY <2>2, Zenon DEF CommandsDone, Pbiudone, Unreadable, vars, partition, cache
  <2>3. CASE DeleteStash
    <3>1. pc = "delete" /\ UNCHANGED dev
      BY <2>3 DEF DeleteStash, partition
    <3>2. ~isunresumable => stash = {}
      BY <1>1, <3>1 DEF VerifyInv
    <3> QED BY <3>1, <3>2, Zenon
  <2>4. CASE Kill \/ PowerLoss \/ Rot
    <3>1. faults' = faults + 1
      BY <2>4, Zenon DEF Kill, PowerLoss, Rot, Fault
    <3>2. faults \in Nat
      BY <1>1 DEF TypeOK, OutcomeOK
    <3> QED BY <1>1, <3>1, <3>2
  <2>5. CASE StartUpdater \/ BlockImageVerifyFn \/ BlockImageUpdateFn
    BY <1>1, <2>5, Zenon DEF StartUpdater, BlockImageVerifyFn, BlockImageUpdateFn, PerformBlockImageUpdate
  <2> QED BY <1>1, <2>1, <2>2, <2>3, <2>4, <2>5 DEF Next, Updater
<1>2. TypeOK /\ VerifyInv /\ [Next]_vars =>
        [(pc \notin {"exited", "idle"} /\ ~canwrite /\ faults' = faults) =>
           /\ dev' = dev
           /\ (~isunresumable) => stash \ bad \subseteq stash']_vars
  BY <1>1
<1>3. Init => VerifyInv
  BY DEF Init, VerifyInv
<1>4. Spec => []VerifyInv
  BY <1>3, NextVerify, TypeCorrect, PTL DEF Spec
<1> QED BY <1>2, <1>4, TypeCorrect, PTL DEF Spec, VerifyReadOnly

=============================================================================
