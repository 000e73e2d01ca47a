--------------------------- MODULE InstallProofs ----------------------------
(***************************************************************************)
(* Proofs about the two halves of an installation: Sideload, from where    *)
(* the package is read, and InstallPackage, which runs its update binary.  *)
(* For every size of the package and of its blocks, any number of faults,  *)
(* reads and sessions, what /sideload returns for a position does not      *)
(* change and no session leaves anything behind.  For every number of      *)
(* installations, presses and lines, any pipe, any queue and any device,   *)
(* the result of an installation is what the update binary said, a long    *)
(* press is one, and no key reboots the device under an update binary.     *)
(***************************************************************************)
EXTENDS InstallPackage, Sideload, TLAPS

-----------------------------------------------------------------------------
(* InstallPackage *)

Locked == Installing \ {"disable"}
Before == {"idle", "wait", "blocked", "disable", "fork"}

\* A line is in the pipe, or what it says has been taken down.
LinesInv ==
  /\ pipe \in Seq(Commands) /\ lines \in Seq(Commands)
  /\ wipe_cache \in BOOLEAN /\ retry_update \in BOOLEAN
  /\ Range(pipe) \subseteq Range(lines)
  /\ wipe_cache \/ "wipe_cache" \in Range(pipe) <=> "wipe_cache" \in Range(lines)
  /\ retry_update \/ "retry_update" \in Range(pipe) <=> "retry_update" \in Range(lines)

\* Where the update binary can be while the main thread is somewhere.
MainInv ==
  /\ main \in Before \cup {"read", "reap", "notify", "join", "enable"}
  /\ main \in Before => updater = "none" /\ pipe = <<>>
  /\ main \in {"reap", "notify", "join", "enable"} => pipe = <<>> /\ updater # "runs"
  /\ main # "enable" => outcome = "none"
  /\ outcome # "none" /\ updater # "none" =>
       /\ (outcome = "retry") = retry_update
       /\ outcome = "success" => updater = "exit0"

ResultInv == LinesInv /\ MainInv

\* While the reboot is locked it has been unlocked only by the update binary, and a
\* key that was released meanwhile has seen no more than that.
RebootInv ==
  /\ main \in Locked /\ enable_reboot => "enable_reboot" \in Range(lines)
  /\ main \in Locked /\ during \in Locked /\ (reboot_enabled \/ rebooted) =>
       "enable_reboot" \in Range(lines)

\* held is set with key_long_press and reset no later.
PressInv ==
  /\ key_long_press => held
  /\ long_press => held
  /\ input = "idle" => ~long_press

-----------------------------------------------------------------------------
LEMMA RangeAppend ==
  ASSUME NEW s \in Seq(Commands), NEW c \in Commands
  PROVE  Append(s, c) \in Seq(Commands) /\ Range(Append(s, c)) = Range(s) \cup {c}
<1>1. Append(s, c) \in Seq(Commands)
  OBVIOUS
<1>2. DOMAIN Append(s, c) = DOMAIN s \cup {Len(s) + 1} /\ Append(s, c)[Len(s) + 1] = c
  OBVIOUS
<1>3. \A j \in DOMAIN s : Append(s, c)[j] = s[j]
  OBVIOUS
<1> QED BY <1>1, <1>2, <1>3 DEF Range

LEMMA RangeTail ==
  ASSUME NEW s \in Seq(Commands), s # <<>>
  PROVE  /\ Tail(s) \in Seq(Commands) /\ Head(s) \in Commands
         /\ Range(s) = Range(Tail(s)) \cup {Head(s)}
<1>1. Tail(s) \in Seq(Commands) /\ Head(s) \in Commands /\ Head(s) = s[1] /\ Len(s) \in Nat \ {0}
  OBVIOUS
<1>2. DOMAIN Tail(s) = 1 .. Len(s) - 1 /\ DOMAIN s = 1 .. Len(s)
  BY <1>1
<1>3. \A j \in DOMAIN Tail(s) : Tail(s)[j] = s[j + 1]
  BY <1>1, <1>2
<1>4. Range(Tail(s)) \cup {Head(s)} \subseteq Range(s)
  BY <1>1, <1>2, <1>3 DEF Range
<1>5. ASSUME NEW j \in DOMAIN s PROVE s[j] \in Range(Tail(s)) \cup {Head(s)}
  <2>1. CASE j = 1
    BY <2>1, <1>1
  <2>2. CASE j # 1
    <3>1. j - 1 \in DOMAIN Tail(s) /\ Tail(s)[j - 1] = s[j]
      BY <2>2, <1>1, <1>2, <1>3
    <3> QED BY <3>1 DEF Range
  <2> QED BY <2>1, <2>2
<1> QED BY <1>1, <1>4, <1>5 DEF Range

LEMMA RangeEmpty == <<>> \in Seq(Commands) /\ Range(<<>>) = {}
BY DEF Range

-----------------------------------------------------------------------------
(* What the keys and the logger leave alone *)

LEMMA UiMain ==
  ASSUME Ui
  PROVE  main' = main \/ (main \in {"wait", "blocked"} /\ main' \in {"idle", "wait", "blocked"})
<1>1. CASE WaitKey
  BY <1>1, Zenon DEF WaitKey, Block, GetKey, TimeOut, AfterWait
<1>2. CASE \E t \in timers : TimeKey(t)
  BY <1>2 DEF TimeKey
<1>3. CASE ProcessKey
  BY <1>3 DEF ProcessKey, Press, Release, CheckKey, CountPowerKeys, EndCheckKey, ToggleText, Reboot,
              EnqueueKey
<1> QED BY <1>1, <1>2, <1>3 DEF Ui

LEMMA UiReboot ==
  ASSUME Ui
  PROVE  /\ enable_reboot' = enable_reboot
         /\ \/ UNCHANGED <<reboot_enabled, during, rebooted>>
            \/ reboot_enabled' = enable_reboot /\ during' = main /\ UNCHANGED <<rebooted, main>>
            \/ during' = "idle" /\ UNCHANGED main
            \/ UNCHANGED <<reboot_enabled, during, main>> /\ rebooted' = reboot_enabled
<1>1. CASE WaitKey
  BY <1>1, Zenon DEF WaitKey, Block, GetKey, TimeOut, AfterWait, ui, power, local
<1>2. CASE \E t \in timers : TimeKey(t)
  BY <1>2 DEF TimeKey, power, local
<1>3. CASE \E k \in Keys : Press(k) \/ Release(k)
  BY <1>3 DEF Press, Release, power, local
<1>4. CASE CheckKey \/ CountPowerKeys \/ EndCheckKey
  BY <1>4 DEF CheckKey, CountPowerKeys, EndCheckKey, Goes, Ends, power, local
<1>5. CASE ToggleText \/ Reboot \/ EnqueueKey
  BY <1>5 DEF ToggleText, Reboot, EnqueueKey, Goes, Ends, power, local
<1> QED BY <1>1, <1>2, <1>3, <1>4, <1>5 DEF Ui, ProcessKey

-----------------------------------------------------------------------------
(* The result *)

LEMMA InitResult == Init => ResultInv
BY RangeEmpty, Zenon DEF Init, ResultInv, LinesInv, MainInv, Before

LEMMA NextResult == ResultInv /\ [Next]_vars => ResultInv'
<1> SUFFICES ASSUME ResultInv, [Next]_vars PROVE ResultInv'
  OBVIOUS
<1>q. ASSUME UNCHANGED <<pipe, lines, wipe_cache, retry_update>> PROVE LinesInv'
  BY <1>q DEF ResultInv, LinesInv
<1>1. CASE Begin \/ Menu
  <2>1. UNCHANGED <<updater, pipe, lines, wipe_cache, retry_update, outcome>>
    BY <1>1 DEF Begin, Menu, binary
  <2>2. main \in Before /\ main' \in Before
    BY <1>1 DEF Begin, Menu, At, Before
  <2> QED BY <1>q, <2>1, <2>2 DEF ResultInv, MainInv, Before
<1>2. CASE DisableReboot
  <2>1. UNCHANGED <<updater, pipe, lines, wipe_cache, retry_update, outcome>>
    BY <1>2 DEF DisableReboot, binary
  <2> QED BY <1>q, <1>2, <2>1 DEF ResultInv, MainInv, Before, DisableReboot, At
<1>3. CASE Fork
  <2>1. UNCHANGED <<pipe, lines, wipe_cache, retry_update>>
    BY <1>3 DEF Fork
  <2>2. MainInv'
    <3>0. \/ At("fork", "read") /\ updater' = "runs" /\ UNCHANGED outcome
          \/ At("fork", "enable") /\ outcome' = "error" /\ UNCHANGED updater
      BY <1>3 DEF Fork
    <3>1. CASE At("fork", "read") /\ updater' = "runs" /\ UNCHANGED outcome
      BY <3>1, <2>1 DEF ResultInv, MainInv, Before, At
    <3>2. CASE At("fork", "enable") /\ outcome' = "error" /\ UNCHANGED updater
      <4>1. updater = "none"
        BY <3>2 DEF ResultInv, MainInv, Before, At
      <4> QED BY <3>2, <4>1, <2>1 DEF ResultInv, MainInv, Before, At
    <3> QED BY <3>0, <3>1, <3>2
  <2> QED BY <1>q, <2>1, <2>2 DEF ResultInv
<1>4. CASE ReadLine
  BY <1>4, RangeTail, Zenon DEF ReadLine, ResultInv, LinesInv, MainInv, Before, At
<1>5. CASE EndOfFile
  <2>1. UNCHANGED <<updater, pipe, lines, wipe_cache, retry_update, outcome>>
    BY <1>5 DEF EndOfFile, binary
  <2> QED BY <1>q, <1>5, <2>1 DEF ResultInv, MainInv, Before, EndOfFile, At
<1>6. CASE Reap \/ Notify
  <2>1. UNCHANGED <<updater, pipe, lines, wipe_cache, retry_update, outcome>>
    BY <1>6 DEF Reap, Notify, binary
  <2> QED BY <1>q, <1>6, <2>1 DEF ResultInv, MainInv, Before, Reap, Notify, At
<1>7. CASE Join
  <2>1. UNCHANGED <<updater, pipe, lines, wipe_cache, retry_update>>
    BY <1>7 DEF Join, binary
  <2> QED BY <1>q, <1>7, <2>1 DEF ResultInv, LinesInv, MainInv, Before, Join, At
<1>8. CASE EnableReboot
  BY <1>8, RangeEmpty, Zenon DEF EnableReboot, ResultInv, LinesInv, MainInv, Before, At
<1>9. ASSUME NEW c \in Commands, ChildWrites(c) PROVE ResultInv'
  BY <1>9, RangeAppend DEF ChildWrites, Others, ResultInv, LinesInv, MainInv, Before
<1>10. CASE RunProgram \/ ProgramEnds
  <2>1. UNCHANGED <<updater, pipe, lines, wipe_cache, retry_update, outcome, main>>
    BY <1>10 DEF RunProgram, ProgramEnds, Others
  <2> QED BY <1>q, <2>1 DEF ResultInv, MainInv
<1>11. ASSUME NEW how \in {"exit0", "exit1", "killed"}, ChildEnds(how) PROVE ResultInv'
  <2>1. UNCHANGED <<pipe, lines, wipe_cache, retry_update, outcome, main>>
    BY <1>11 DEF ChildEnds, Others
  <2> QED BY <1>q, <1>11, <2>1 DEF ChildEnds, ResultInv, MainInv, Before
<1>12. CASE Logger
  <2>1. UNCHANGED <<updater, pipe, lines, wipe_cache, retry_update, outcome, main>>
    BY <1>12 DEF Logger, LoggerTests, LoggerSamples, LoggerWakes, LoggerOnly, binary
  <2> QED BY <1>q, <2>1 DEF ResultInv, MainInv
<1>13. CASE Ui
  <2>1. UNCHANGED <<updater, pipe, lines, wipe_cache, retry_update, outcome>>
    BY <1>13 DEF Ui, binary
  <2> QED BY <1>q, <1>13, <2>1, UiMain DEF ResultInv, MainInv, Before
<1>14. CASE UNCHANGED vars
  <2>1. UNCHANGED <<updater, pipe, lines, wipe_cache, retry_update, outcome, main>>
    BY <1>14 DEF vars, binary
  <2> QED BY <1>q, <2>1 DEF ResultInv, MainInv
<1> QED BY <1>1, <1>2, <1>3, <1>4, <1>5, <1>6, <1>7, <1>8, <1>9, <1>10, <1>11, <1>12, <1>13, <1>14
        DEF Next, Install, Binary

\* try_update_binary returns what follows from all the lines of the update binary
\* and from how it ended, however they are interleaved and wherever it is killed.
THEOREM ResultFollowsLines == Spec => []ResultRight
<1>1. ResultInv => ResultRight
  <2> SUFFICES ASSUME ResultInv, outcome # "none", updater # "none"
               PROVE  /\ wipe_cache = ("wipe_cache" \in Range(lines))
                      /\ (outcome = "retry") = ("retry_update" \in Range(lines))
                      /\ outcome = "success" => updater = "exit0"
    BY DEF ResultRight
  <2>1. pipe = <<>> /\ Range(pipe) = {}
    BY RangeEmpty DEF ResultInv, MainInv
  <2> QED BY <2>1 DEF ResultInv, MainInv, LinesInv
<1> QED BY <1>1, InitResult, NextResult, PTL DEF Spec

-----------------------------------------------------------------------------
(* The reboot *)

LEMMA NextReboot == ResultInv /\ RebootInv /\ [Next]_vars => RebootInv'
<1> SUFFICES ASSUME ResultInv, RebootInv, [Next]_vars PROVE RebootInv'
  OBVIOUS
<1> USE DEF Locked, Installing
<1>q. ASSUME UNCHANGED <<enable_reboot, reboot_enabled, during, rebooted>>,
             main' \in Locked => main \in Locked,
             "enable_reboot" \in Range(lines) => "enable_reboot" \in Range(lines)'
      PROVE  RebootInv'
  BY <1>q DEF RebootInv
<1>1. CASE Begin \/ Menu
  <2>1. main' \notin Locked
    BY <1>1 DEF Begin, Menu, At
  <2> QED BY <2>1 DEF RebootInv
<1>2. CASE DisableReboot
  <2>1. enable_reboot' = FALSE /\ during' = "disable"
    BY <1>2 DEF DisableReboot, SetEnableReboot
  <2> QED BY <2>1 DEF RebootInv
<1>3. CASE Fork \/ EndOfFile \/ Reap \/ Notify \/ Join
  <2>1. UNCHANGED <<ui, lines>> /\ main \in Locked
    BY <1>3 DEF Fork, EndOfFile, Reap, Notify, Join, Quiet, binary, At
  <2>2. UNCHANGED <<enable_reboot, reboot_enabled, during, rebooted, lines>>
    BY <2>1 DEF ui, power, local
  <2> QED BY <1>q, <2>1, <2>2
<1>4. CASE ReadLine
  <2>1. UNCHANGED <<lines, reboot_enabled, during, rebooted>> /\ main = "read"
    BY <1>4 DEF ReadLine, At, SetEnableReboot, Quiet, ui, power, local
  <2>2. CASE Head(pipe) = "enable_reboot"
    <3>1. pipe \in Seq(Commands) /\ pipe # <<>> /\ Range(pipe) \subseteq Range(lines)
      BY <1>4 DEF ReadLine, ResultInv, LinesInv
    <3>2. "enable_reboot" \in Range(lines)
      BY <2>2, <3>1, RangeTail
    <3> QED BY <2>1, <3>2 DEF RebootInv
  <2>3. CASE Head(pipe) # "enable_reboot"
    <3>1. UNCHANGED enable_reboot
      BY <1>4, <2>3 DEF ReadLine, Quiet, ui, power
    <3> QED BY <1>q, <2>1, <3>1
  <2> QED BY <2>2, <2>3
<1>5. CASE EnableReboot
  <2>1. main' \notin Locked
    BY <1>5 DEF EnableReboot, At
  <2> QED BY <2>1 DEF RebootInv
<1>6. CASE Binary
  <2>1. UNCHANGED <<enable_reboot, reboot_enabled, during, rebooted, main>>
    BY <1>6 DEF Binary, ChildWrites, RunProgram, ProgramEnds, ChildEnds, Others, ui, power, local
  <2>2. Range(lines) \subseteq Range(lines')
    <3>1. CASE \E c \in Commands : ChildWrites(c)
      BY <3>1, RangeAppend DEF ChildWrites, ResultInv, LinesInv
    <3>2. CASE UNCHANGED lines
      BY <3>2
    <3> QED BY <1>6, <3>1, <3>2 DEF Binary, RunProgram, ProgramEnds, ChildEnds
  <2> QED BY <1>q, <2>1, <2>2
<1>7. CASE Logger
  <2>1. UNCHANGED <<ui, main, lines>>
    BY <1>7 DEF Logger, LoggerTests, LoggerSamples, LoggerWakes, LoggerOnly, binary
  <2>2. UNCHANGED <<enable_reboot, reboot_enabled, during, rebooted, lines>>
    BY <2>1 DEF ui, power, local
  <2> QED BY <1>q, <2>1, <2>2
<1>8. CASE ~rebooted /\ Ui
  <2>1. UNCHANGED lines
    BY <1>8 DEF Ui, binary
  <2>2. main' \in Locked => main' = main
    BY <1>8, UiMain
  <2>3. main' \notin Locked => RebootInv'
    BY DEF RebootInv
  <2>4. ASSUME main' \in Locked PROVE RebootInv'
    <3>1. enable_reboot' = enable_reboot /\ main' = main
      BY <1>8, <2>2, <2>4, UiReboot
    <3>2. enable_reboot => "enable_reboot" \in Range(lines)
      BY <2>4, <3>1 DEF RebootInv
    <3>3. CASE UNCHANGED <<reboot_enabled, during, rebooted>>
      BY <1>q, <2>1, <3>1, <3>3
    <3>4. CASE reboot_enabled' = enable_reboot /\ during' = main /\ UNCHANGED rebooted
      BY <1>8, <2>1, <3>1, <3>2, <3>4 DEF RebootInv
    <3>5. CASE during' = "idle"
      BY <2>1, <3>1, <3>2, <3>5 DEF RebootInv
    <3>6. CASE UNCHANGED <<reboot_enabled, during>> /\ rebooted' = reboot_enabled
      BY <2>1, <3>1, <3>2, <3>6 DEF RebootInv
    <3> QED BY <1>8, <3>3, <3>4, <3>5, <3>6, UiReboot
  <2> QED BY <2>3, <2>4
<1>9. CASE UNCHANGED vars
  <2>1. UNCHANGED <<ui, main, lines>>
    BY <1>9 DEF vars, binary
  <2>2. UNCHANGED <<enable_reboot, reboot_enabled, during, rebooted, lines>>
    BY <2>1 DEF ui, power, local
  <2> QED BY <1>q, <2>1, <2>2
<1> QED BY <1>1, <1>2, <1>3, <1>4, <1>5, <1>6, <1>7, <1>8, <1>9 DEF Next, Install

\* What SetEnableReboot(false) is called for: no key that is released while an update
\* binary runs reboots the device, unless the update binary asked for it; across
\* installations too, and with keys handled as slowly as may be.
THEOREM NoRebootUnderUpdate == Spec => []RebootAllowed
<1>1. Init => RebootInv
  BY DEF Init, RebootInv, Locked, Installing
<1>2. ResultInv /\ RebootInv => RebootAllowed
  BY DEF RebootAllowed, RebootInv, ResultInv, MainInv, Before, Locked, Installing
<1> QED BY <1>1, <1>2, InitResult, NextResult, NextReboot, PTL DEF Spec

-----------------------------------------------------------------------------
(* The long press *)

LEMMA NextPress == PressInv /\ [Next]_vars => PressInv'
<1> SUFFICES ASSUME PressInv, [Next]_vars PROVE PressInv'
  OBVIOUS
<1>q. ASSUME UNCHANGED ui PROVE PressInv'
  BY <1>q DEF PressInv, ui, press, local
<1>1. ASSUME NEW k \in Keys, Press(k) PROVE PressInv'
  BY <1>1 DEF Press, PressInv, local
<1>2. ASSUME NEW k \in Keys, Release(k) PROVE PressInv'
  BY <1>2 DEF Release, PressInv, press, local
<1>3. CASE CheckKey
  BY <1>3 DEF CheckKey, PressInv, Goes, local
<1>4. CASE CountPowerKeys \/ EndCheckKey
  BY <1>4 DEF CountPowerKeys, EndCheckKey, PressInv, Goes, Ends, press, local
<1>5. CASE ToggleText \/ Reboot \/ EnqueueKey
  BY <1>5 DEF ToggleText, Reboot, EnqueueKey, PressInv, Goes, Ends, press, local
<1>6. ASSUME NEW t \in timers, TimeKey(t) PROVE PressInv'
  BY <1>6, Zenon DEF TimeKey, PressInv, local
<1>7. CASE WaitKey
  <2>1. UNCHANGED <<press, input, local>>
    BY <1>7, Zenon DEF WaitKey, Block, GetKey, TimeOut, AfterWait, ui
  <2> QED BY <2>1 DEF PressInv, press, local
<1>8. CASE DisableReboot \/ EnableReboot \/ ReadLine
  BY <1>8 DEF DisableReboot, EnableReboot, ReadLine, SetEnableReboot, Quiet, PressInv, ui, press, local
<1>9. CASE Menu
  BY <1>9 DEF Menu, FlushKeys, Quiet, PressInv, ui, press, local
<1>10. CASE Begin \/ Fork \/ EndOfFile \/ Reap \/ Notify \/ Join
  BY <1>q, <1>10 DEF Begin, Fork, EndOfFile, Reap, Notify, Join, Quiet
<1>11. CASE Binary \/ Logger \/ UNCHANGED vars
  BY <1>q, <1>11 DEF Binary, ChildWrites, RunProgram, ProgramEnds, ChildEnds, Others, Logger,
     LoggerTests, LoggerSamples, LoggerWakes, LoggerOnly, vars
<1> QED BY <1>1, <1>2, <1>3, <1>4, <1>5, <1>6, <1>7, <1>8, <1>9, <1>10, <1>11
        DEF Next, Install, Ui, ProcessKey

\* A key counts as pressed for long only when the timer of that very press has
\* ended, however many presses have their timers running.
THEOREM LongPressIsLong == Spec => []LongPressRight
<1>1. Init => PressInv
  BY DEF Init, UiInit, PressInv
<1>2. PressInv => LongPressRight
  BY DEF PressInv, LongPressRight
<1> QED BY <1>1, <1>2, NextPress, PTL DEF Spec

-----------------------------------------------------------------------------
(* Sideload *)

\* x is what the hashes h say of block b.
Right(b, x, h) == IF b = file_blocks THEN x = Zeros ELSE h[b] # 0 /\ x = <<b, h[b]>>

\* The buffer has the block that it is said to have.
Cached(curr, data, h) ==
  curr \in NoBlock .. file_blocks /\ (curr # NoBlock => Right(curr, data, h))

Hashes == [0 .. file_blocks - 1 -> {0} \cup Versions]

\* Until read_block fails the buffer is right in a child that serves, and everything
\* that was read is still what the hashes say.  Before that nothing was read.
ReadInv ==
  /\ version \in Versions /\ hashes \in Hashes
  /\ DOMAIN got = 0 .. file_blocks
  /\ child \in {"starting", "mounting"} => \A b \in 0 .. file_blocks : got[b] = {}
  /\ child \in {"mounting", "serving"} /\ ~failed => Cached(curr_block, block_data, hashes)
  /\ ~failed => \A b \in 0 .. file_blocks : \A x \in got[b] : Right(b, x, hashes)

\* A child that was waited for is gone, and with it what it served.
ChildInv ==
  /\ reaped \in BOOLEAN /\ waited \in BOOLEAN
  /\ mount = "live" => Alive
  /\ reaped => ~Alive
  /\ pc \in {"return", "idle"} => reaped

-----------------------------------------------------------------------------
LEMMA FileBlocksNat == file_blocks \in Nat
<1>1. CASE FileSize = 0
  BY <1>1 DEF file_blocks
<1>2. CASE FileSize # 0
  <2>1. FileSize - 1 \in Nat /\ BlockSize \in Nat \ {0}
    BY <1>2, SideloadAssumption DEF SideloadAssumption
  <2>2. (FileSize - 1) \div BlockSize \in Nat
    BY <2>1
  <2> QED BY <1>2, <2>2 DEF file_blocks
<1> QED BY <1>1, <1>2

\* A fetch that ends well leaves block b in the buffer, and every hash that was set
\* as it was.
LEMMA FetchRight ==
  ASSUME NEW s, s.hashes \in Hashes, NEW b \in 0 .. file_blocks, NEW answer,
         s = [curr |-> s.curr, data |-> s.data, hashes |-> s.hashes, rc |-> 0],
         Cached(s.curr, s.data, s.hashes), version \in Versions,
         NEW r, r = Fetch(s, b, answer), r.rc = 0
  PROVE  /\ r = [curr |-> b, data |-> r.data, hashes |-> r.hashes, rc |-> 0]
         /\ r.hashes \in Hashes
         /\ Right(b, r.data, r.hashes)
         /\ \A c \in 0 .. file_blocks - 1 : s.hashes[c] # 0 => r.hashes[c] = s.hashes[c]
<1>v. version # 0
  BY SideloadAssumption DEF SideloadAssumption
<1>n. file_blocks \in Nat
  BY FileBlocksNat
<1>1. CASE b = s.curr
  <2>1. r = s
    BY <1>1 DEF Fetch
  <2>2. r.curr = b /\ r.data = s.data /\ r.hashes = s.hashes
    BY <1>1, <2>1
  <2>3. Right(b, s.data, s.hashes)
    BY <1>1, <1>n DEF Cached, NoBlock
  <2>4. r = [curr |-> b, data |-> r.data, hashes |-> r.hashes, rc |-> 0]
    BY <1>1, <2>1, <2>2
  <2> QED BY ONLY <2>2, <2>3, <2>4, s.hashes \in Hashes
<1>2. CASE b # s.curr /\ b >= file_blocks
  <2>1. r = [s EXCEPT !.curr = b, !.data = Zeros]
    BY <1>2 DEF Fetch
  <2>2. r = [curr |-> b, data |-> Zeros, hashes |-> s.hashes, rc |-> 0]
    BY <2>1, Zenon
  <2>3. r.data = Zeros /\ r.hashes = s.hashes
    BY ONLY <2>2
  <2>4. b = file_blocks
    BY <1>n, <1>2
  <2>5. Right(b, r.data, r.hashes)
    BY ONLY <2>3, <2>4 DEF Right
  <2> QED BY ONLY <2>2, <2>3, <2>5, s.hashes \in Hashes
<1>3. CASE b # s.curr /\ b < file_blocks
  <2>1. b \in 0 .. file_blocks - 1 /\ b # file_blocks
    BY <1>n, <1>3
  <2>2. /\ s.hashes[b] \in {0, version}
        /\ r = [s EXCEPT !.curr = b, !.data = <<b, version>>, !.hashes[b] = version]
    BY <1>n, <1>3 DEF Fetch
  <2>3. r = [curr |-> b, data |-> <<b, version>>, hashes |-> [s.hashes EXCEPT ![b] = version],
             rc |-> 0]
    BY <2>2, Zenon
  <2>4. r.data = <<b, version>> /\ r.hashes = [s.hashes EXCEPT ![b] = version]
    BY ONLY <2>3
  <2>5. r.hashes \in Hashes
    BY ONLY <2>1, <2>4, s.hashes \in Hashes, version \in Versions DEF Hashes
  <2>6. r.hashes[b] = version /\ \A c \in 0 .. file_blocks - 1 : c # b => r.hashes[c] = s.hashes[c]
    BY ONLY <2>1, <2>4, s.hashes \in Hashes, Zenon DEF Hashes
  <2>7. Right(b, r.data, r.hashes)
    BY ONLY <1>v, <2>1, <2>4, <2>6 DEF Right
  <2> QED BY ONLY <2>2, <2>3, <2>4, <2>5, <2>6, <2>7, Zenon
<1> QED
  <2>1. b >= file_blocks \/ b < file_blocks
    BY <1>n
  <2> QED BY <1>1, <1>2, <1>3, <2>1

\* A fetch that refuses its block leaves nothing in the buffer, and the hashes alone.
LEMMA FetchRefused ==
  ASSUME NEW s, NEW b \in 0 .. file_blocks, NEW answer,
         s = [curr |-> s.curr, data |-> s.data, hashes |-> s.hashes, rc |-> 0],
         NEW r, r = Fetch(s, b, answer), r.rc # 0, r.data # Torn
  PROVE  r.curr = NoBlock /\ r.hashes = s.hashes
<1>1. CASE b = s.curr
  <2>1. r = s
    BY <1>1 DEF Fetch
  <2> QED BY <2>1
<1>2. CASE b # s.curr /\ b >= file_blocks
  <2>1. r = [s EXCEPT !.curr = b, !.data = Zeros]
    BY <1>2 DEF Fetch
  <2>2. r = [curr |-> b, data |-> Zeros, hashes |-> s.hashes, rc |-> 0]
    BY <2>1
  <2> QED BY <2>2
<1>3. CASE b # s.curr /\ ~(b >= file_blocks)
  <2>1. \/ r = [s EXCEPT !.data = Torn, !.rc = -1]
        \/ r = [s EXCEPT !.curr = b, !.data = <<b, version>>, !.hashes[b] = version]
        \/ r = [s EXCEPT !.curr = NoBlock, !.data = <<b, version>>, !.rc = -1]
    BY <1>3 DEF Fetch
  <2>2. CASE r = [s EXCEPT !.data = Torn, !.rc = -1]
    <3>1. r = [curr |-> s.curr, data |-> Torn, hashes |-> s.hashes, rc |-> -1]
      BY <2>2
    <3> QED BY <3>1
  <2>3. CASE r = [s EXCEPT !.curr = b, !.data = <<b, version>>, !.hashes[b] = version]
    <3>1. r = [curr |-> b, data |-> <<b, version>>,
               hashes |-> [s.hashes EXCEPT ![b] = version], rc |-> 0]
      BY <2>3
    <3> QED BY <3>1
  <2>4. CASE r = [s EXCEPT !.curr = NoBlock, !.data = <<b, version>>, !.rc = -1]
    <3>1. r = [curr |-> NoBlock, data |-> <<b, version>>, hashes |-> s.hashes, rc |-> -1]
      BY <2>4, Zenon
    <3> QED BY <3>1
  <2> QED BY <2>1, <2>2, <2>3, <2>4
<1> QED BY <1>1, <1>2, <1>3

\* Any fetch keeps the hashes a table of hashes.
LEMMA FetchType ==
  ASSUME NEW s, s.hashes \in Hashes, NEW b \in 0 .. file_blocks, NEW answer,
         s = [curr |-> s.curr, data |-> s.data, hashes |-> s.hashes, rc |-> s.rc],
         s.rc \in {0, -1}, version \in Versions,
         NEW r, r = Fetch(s, b, answer)
  PROVE  /\ r.hashes \in Hashes
         /\ r = [curr |-> r.curr, data |-> r.data, hashes |-> r.hashes, rc |-> r.rc]
         /\ r.rc \in {0, -1}
<1> USE FileBlocksNat
<1>1. CASE b = s.curr
  BY <1>1 DEF Fetch
<1>2. CASE b # s.curr /\ b >= file_blocks
  <2>1. r = [s EXCEPT !.curr = b, !.data = Zeros]
    BY <1>2 DEF Fetch
  <2> QED BY <2>1, Zenon
<1>3. CASE b # s.curr /\ b < file_blocks
  <2>1. b \in 0 .. file_blocks - 1
    BY <1>3
  <2>2. \/ r = [s EXCEPT !.data = Torn, !.rc = -1]
        \/ r = [s EXCEPT !.curr = b, !.data = <<b, version>>, !.hashes[b] = version]
        \/ r = [s EXCEPT !.curr = NoBlock, !.data = <<b, version>>, !.rc = -1]
    BY <1>3 DEF Fetch
  <2>3. CASE r = [s EXCEPT !.curr = b, !.data = <<b, version>>, !.hashes[b] = version]
    <3>1. r = [curr |-> b, data |-> <<b, version>>, hashes |-> [s.hashes EXCEPT ![b] = version],
               rc |-> s.rc]
      BY <2>3, Zenon
    <3>2. /\ r.hashes = [s.hashes EXCEPT ![b] = version] /\ r.rc = s.rc
          /\ r = [curr |-> r.curr, data |-> r.data, hashes |-> r.hashes, rc |-> r.rc]
      BY ONLY <3>1
    <3>3. r.hashes \in Hashes
      BY ONLY <2>1, <3>2, s.hashes \in Hashes, version \in Versions DEF Hashes
    <3> QED BY ONLY <3>2, <3>3, s.rc \in {0, -1}
  <2>4. CASE r # [s EXCEPT !.curr = b, !.data = <<b, version>>, !.hashes[b] = version]
    BY <2>2, <2>4, Zenon
  <2> QED BY <2>3, <2>4
<1> QED BY <1>1, <1>2, <1>3

\* What was read is right for hashes that have only gained.
LEMMA StillRight ==
  ASSUME NEW h \in Hashes, NEW k \in Hashes,
         \A c \in 0 .. file_blocks - 1 : h[c] # 0 => k[c] = h[c],
         NEW b \in 0 .. file_blocks, NEW x, Right(b, x, h)
  PROVE  Right(b, x, k)
<1>1. b = file_blocks \/ b \in 0 .. file_blocks - 1
  BY FileBlocksNat
<1> QED BY <1>1 DEF Right

LEMMA HandleReadInv ==
  ASSUME ReadInv, child = "serving", UNCHANGED <<version, child>>,
         NEW b \in 0 .. file_blocks - 1, NEW spills \in BOOLEAN, NEW answers,
         HandleRead(b, spills, answers)
  PROVE  ReadInv'
<1> DEFINE one == Fetch(Fuse, b, answers[1])
           two == IF spills /\ one.rc = 0 THEN Fetch(one, b + 1, answers[2]) ELSE one
<1>n. file_blocks \in Nat /\ b \in 0 .. file_blocks /\ b + 1 \in 0 .. file_blocks
  BY FileBlocksNat
<1>f. /\ Fuse = [curr |-> curr_block, data |-> block_data, hashes |-> hashes, rc |-> 0]
      /\ Fuse.hashes = hashes /\ Fuse.rc = 0
      /\ Fuse = [curr |-> Fuse.curr, data |-> Fuse.data, hashes |-> Fuse.hashes, rc |-> Fuse.rc]
  BY DEF Fuse
<1>i. version \in Versions /\ hashes \in Hashes
  BY DEF ReadInv
<1>1. /\ one.hashes \in Hashes /\ one.rc \in {0, -1}
      /\ one = [curr |-> one.curr, data |-> one.data, hashes |-> one.hashes, rc |-> one.rc]
  <2> HIDE DEF Fuse
  <2> QED BY <1>n, <1>f, <1>i, FetchType
<1>2. two.hashes \in Hashes /\ two.rc \in {0, -1}
  <2>1. Fetch(one, b + 1, answers[2]).hashes \in Hashes /\ Fetch(one, b + 1, answers[2]).rc \in {0, -1}
    <3> HIDE DEF one
    <3> QED BY <1>n, <1>1, <1>i, FetchType
  <2> QED BY <1>1, <2>1
<1>h. /\ curr_block' = two.curr /\ block_data' = two.data /\ hashes' = two.hashes
      /\ failed' = (failed \/ (two.rc # 0 /\ two.data = Torn))
      /\ two.rc # 0 => got' = got
      /\ two.rc = 0 => got' = [c \in DOMAIN got |->
                        IF c = b THEN got[c] \cup {one.data}
                        ELSE IF spills /\ c = b + 1 THEN got[c] \cup {two.data} ELSE got[c]]
  BY DEF HandleRead
<1>t. version' \in Versions /\ hashes' \in Hashes /\ DOMAIN got' = 0 .. file_blocks
  <2> HIDE DEF one, two
  <2> QED BY <1>2, <1>h, <1>i DEF ReadInv
<1>s. child' = "serving"
  OBVIOUS
<1>3. CASE failed \/ (two.rc # 0 /\ two.data = Torn)
  <2>1. failed'
    <3> HIDE DEF one, two
    <3> QED BY <1>3, <1>h, Zenon
  <2> QED BY <1>t, <1>s, <2>1 DEF ReadInv
<1>o. ASSUME ~failed, one.rc = 0
      PROVE  /\ one = [curr |-> b, data |-> one.data, hashes |-> one.hashes, rc |-> 0]
             /\ Right(b, one.data, one.hashes)
             /\ \A c \in 0 .. file_blocks - 1 : hashes[c] # 0 => one.hashes[c] = hashes[c]
  <2>1. Cached(curr_block, block_data, hashes)
    BY <1>o DEF ReadInv
  <2>2. one = Fetch(Fuse, b, answers[1])
    OBVIOUS
  <2>3. /\ Fuse = [curr |-> Fuse.curr, data |-> Fuse.data, hashes |-> Fuse.hashes, rc |-> 0]
        /\ Cached(Fuse.curr, Fuse.data, Fuse.hashes)
    BY <2>1 DEF Fuse
  <2> HIDE DEF one, two, Fuse
  <2>4. /\ one = [curr |-> b, data |-> one.data, hashes |-> one.hashes, rc |-> 0]
        /\ Right(b, one.data, one.hashes)
        /\ \A c \in 0 .. file_blocks - 1 : Fuse.hashes[c] # 0 => one.hashes[c] = Fuse.hashes[c]
    BY ONLY <1>n, <1>f, <1>i, <1>o, <2>2, <2>3, FetchRight
  <2> QED BY ONLY <1>f, <2>4
<1>5. CASE ~failed /\ two.rc # 0 /\ two.data # Torn
  <2>1. /\ two.curr = NoBlock
        /\ \A c \in 0 .. file_blocks - 1 : hashes[c] # 0 => two.hashes[c] = hashes[c]
    <3>1. CASE one.rc # 0
      <4>1. two = one /\ one = Fetch(Fuse, b, answers[1])
        BY <3>1
      <4>2. Fuse = [curr |-> Fuse.curr, data |-> Fuse.data, hashes |-> Fuse.hashes, rc |-> 0]
        BY DEF Fuse
      <4>3. one.data # Torn
        BY <1>5, <4>1
      <4> HIDE DEF one, two, Fuse
      <4>4. one.curr = NoBlock /\ one.hashes = Fuse.hashes
        BY ONLY <1>n, <3>1, <4>1, <4>2, <4>3, FetchRefused
      <4> QED BY ONLY <1>f, <4>1, <4>4
    <3>2. CASE one.rc = 0
      <4>1. two = IF spills THEN Fetch(one, b + 1, answers[2]) ELSE one
        BY <3>2
      <4>2. two = Fetch(one, b + 1, answers[2])
        <5> HIDE DEF one, two
        <5> QED BY <1>5, <3>2, <4>1
      <4>3. two.rc # 0 /\ two.data # Torn
        BY <1>5
      <4> HIDE DEF one, two
      <4>4. one = [curr |-> one.curr, data |-> one.data, hashes |-> one.hashes, rc |-> 0]
        BY ONLY <1>1, <3>2
      <4>5. two.curr = NoBlock /\ two.hashes = one.hashes
        BY ONLY <1>n, <4>2, <4>3, <4>4, FetchRefused
      <4> QED BY <1>5, <1>o, <3>2, <4>5
    <3> QED BY <3>1, <3>2
  <2>g. got' = got
    BY <1>h, <1>5
  <2> HIDE DEF one, two
  <2>2. Cached(curr_block', block_data', hashes')
    BY <1>n, <1>h, <2>1 DEF Cached, NoBlock
  <2>3. ASSUME NEW c \in 0 .. file_blocks, NEW x \in got'[c]
        PROVE  Right(c, x, hashes')
    <3>1. Right(c, x, hashes)
      BY <1>5, <2>g DEF ReadInv
    <3> QED BY <3>1, <1>2, <1>i, <1>h, <2>1, StillRight
  <2> QED BY <1>t, <1>s, <2>2, <2>3 DEF ReadInv
<1>4. CASE ~failed /\ two.rc = 0
  <2>1. one.rc = 0
    BY <1>1, <1>4
  <2>2. /\ one = [curr |-> b, data |-> one.data, hashes |-> one.hashes, rc |-> 0]
        /\ Right(b, one.data, one.hashes)
        /\ \A c \in 0 .. file_blocks - 1 : hashes[c] # 0 => one.hashes[c] = hashes[c]
    BY <1>4, <1>o, <2>1
  <2>3. /\ \A c \in 0 .. file_blocks - 1 : one.hashes[c] # 0 => two.hashes[c] = one.hashes[c]
        /\ IF spills THEN two.curr = b + 1 /\ Right(b + 1, two.data, two.hashes)
           ELSE two.curr = b /\ Right(b, two.data, two.hashes)
    <3>1. CASE spills
      <4>1. two = Fetch(one, b + 1, answers[2])
        BY <3>1, <2>1
      <4>2. /\ Cached(one.curr, one.data, one.hashes)
            /\ one = [curr |-> one.curr, data |-> one.data, hashes |-> one.hashes, rc |-> 0]
        <5> HIDE DEF one, two
        <5>1. one.curr = b
          BY ONLY <2>2
        <5> QED BY <1>n, <2>2, <5>1 DEF Cached, NoBlock
      <4>3. two.rc = 0
        BY <1>2, <1>4
      <4> HIDE DEF one, two
      <4>4. /\ two = [curr |-> b + 1, data |-> two.data, hashes |-> two.hashes, rc |-> 0]
            /\ Right(b + 1, two.data, two.hashes)
            /\ \A c \in 0 .. file_blocks - 1 : one.hashes[c] # 0 => two.hashes[c] = one.hashes[c]
        BY ONLY <1>n, <1>1, <1>i, <4>1, <4>2, <4>3, FetchRight
      <4>5. two.curr = b + 1
        BY ONLY <4>4
      <4> QED BY <3>1, <4>4, <4>5
    <3>2. CASE ~spills
      <4>1. two = one
        BY <3>2
      <4> HIDE DEF one, two
      <4>2. one.curr = b
        BY ONLY <2>2
      <4> QED BY <3>2, <2>2, <4>1, <4>2
    <3> QED BY <3>1, <3>2
  <2> HIDE DEF one, two
  <2>4. \A c \in 0 .. file_blocks - 1 : hashes[c] # 0 => two.hashes[c] = hashes[c]
    BY <2>2, <2>3
  <2>5. Cached(curr_block', block_data', hashes')
    BY <1>n, <1>h, <2>3 DEF Cached, NoBlock
  <2>6. ASSUME NEW c \in 0 .. file_blocks, NEW x \in got'[c]
        PROVE  Right(c, x, hashes')
    <3>1. CASE x \in got[c]
      <4>1. Right(c, x, hashes)
        BY <1>4, <3>1 DEF ReadInv
      <4> QED BY <4>1, <1>2, <1>i, <1>h, <2>4, StillRight
    <3>2. CASE x \notin got[c]
      <4>1. \/ c = b /\ x = one.data
            \/ spills /\ c = b + 1 /\ x = two.data
        <5>1. c \in DOMAIN got /\ two.rc = 0
          BY <1>4 DEF ReadInv
        <5>2. x \in IF c = b THEN got[c] \cup {one.data}
                    ELSE IF spills /\ c = b + 1 THEN got[c] \cup {two.data} ELSE got[c]
          BY <1>h, <5>1
        <5> QED BY <3>2, <5>2
      <4>2. CASE c = b /\ x = one.data
        BY <4>2, <1>1, <1>2, <1>h, <2>2, <2>3, StillRight
      <4>3. CASE spills /\ c = b + 1 /\ x = two.data
        BY <4>3, <1>h, <2>3
      <4> QED BY <4>1, <4>2, <4>3
    <3> QED BY <3>1, <3>2
  <2> QED BY <1>t, <1>s, <2>5, <2>6 DEF ReadInv
<1> QED BY <1>3, <1>4, <1>5

-----------------------------------------------------------------------------
LEMMA InitRead == SideloadInit => ReadInv
<1> SUFFICES ASSUME SideloadInit PROVE ReadInv
  OBVIOUS
<1>1. version \in Versions /\ hashes \in Hashes /\ DOMAIN got = 0 .. file_blocks
  BY SideloadAssumption DEF SideloadInit, Hashes, SideloadAssumption
<1>2. \A b \in 0 .. file_blocks : got[b] = {}
  BY DEF SideloadInit
<1>3. child = "none"
  BY DEF SideloadInit
<1> QED BY <1>1, <1>2, <1>3 DEF ReadInv

\* A step that leaves the fuse state and the history alone.
LEMMA QuietRead ==
  ASSUME ReadInv, UNCHANGED <<version, fuse, history>>,
         child' \in {"starting", "mounting"} => child' = child,
         child' \in {"mounting", "serving"} => child \in {"mounting", "serving"}
  PROVE  ReadInv'
BY DEF ReadInv, fuse, history, Cached, Right, Hashes

LEMMA NextRead == ReadInv /\ [SideloadNext]_sideload => ReadInv'
<1> SUFFICES ASSUME ReadInv, [SideloadNext]_sideload PROVE ReadInv'
  OBVIOUS
<1>1. ASSUME NEW from \in {"adb", "sdcard"}, Start(from) PROVE ReadInv'
  <2>1. /\ child' = "starting" /\ UNCHANGED <<version, fuse>>
        /\ got' = [b \in 0 .. file_blocks |-> {}]
    BY <1>1 DEF Start
  <2>2. version' \in Versions /\ hashes' \in Hashes
    BY <2>1 DEF ReadInv, fuse
  <2>3. DOMAIN got' = 0 .. file_blocks /\ \A b \in 0 .. file_blocks : got'[b] = {}
    BY <2>1
  <2> QED BY <2>1, <2>2, <2>3 DEF ReadInv
<1>2. CASE Connect
  <2>1. /\ child = "starting" /\ child' \in {"mounting", "closing"} /\ UNCHANGED <<version, history>>
        /\ curr_block' = NoBlock /\ hashes' = [b \in 0 .. file_blocks - 1 |-> 0]
    BY <1>2 DEF Connect
  <2>2. version' \in Versions /\ hashes' \in Hashes
    BY <2>1 DEF ReadInv, Hashes
  <2>3. DOMAIN got' = 0 .. file_blocks /\ \A b \in 0 .. file_blocks : got'[b] = {}
    BY <2>1 DEF ReadInv, history
  <2>4. Cached(curr_block', block_data', hashes')
    BY <2>1, FileBlocksNat DEF Cached, NoBlock
  <2> QED BY <2>1, <2>2, <2>3, <2>4 DEF ReadInv
<1>3. CASE InstallReads
  <2>1. child = "serving" /\ UNCHANGED <<version, child>>
    BY <1>3 DEF InstallReads
  <2>2. PICK b \in 0 .. file_blocks - 1, spills \in BOOLEAN :
          \/ HandleRead(b, spills, <<"answers", "answers">>)
          \/ HandleRead(b, spills, <<"fails", "fails">>)
          \/ HandleRead(b, spills, <<"answers", "fails">>)
    BY <1>3 DEF InstallReads
  <2> QED BY <2>1, <2>2, HandleReadInv
<1>4. CASE FileChanges
  <2>1. version' \in Versions /\ UNCHANGED <<child, fuse, history>>
    BY <1>4 DEF FileChanges
  <2> QED BY <2>1 DEF ReadInv, fuse, history, Cached, Right, Hashes
<1>5. CASE Mount \/ Close \/ ChildExits \/ Kill \/ StatExit
  <2>1. UNCHANGED <<version, fuse, history>>
    BY <1>5 DEF Mount, Close, ChildExits, Kill, StatExit
  <2>2. /\ child' \in {"starting", "mounting"} => child' = child
        /\ child' \in {"mounting", "serving"} => child \in {"mounting", "serving"}
    BY <1>5 DEF Mount, Close, ChildExits, Kill, StatExit
  <2> QED BY <2>1, <2>2, QuietRead
<1>6. CASE PollChild \/ PollPackage \/ InstallEnds \/ ReapChild \/ Return \/ UNCHANGED sideload
  <2>1. UNCHANGED <<version, fuse, history, child>>
    BY <1>6 DEF PollChild, PollPackage, InstallEnds, ReapChild, Return, sideload
  <2> QED BY <2>1, QuietRead
<1> QED BY <1>1, <1>2, <1>3, <1>4, <1>5, <1>6 DEF SideloadNext, Recovery

\* "each read of a given position returns the same data as the first read at that
\* position": whatever the sizes, however often the file changes on the host and
\* wherever the reads go, blocks that are refused included, until read_block fails.
THEOREM ReadsAreStable == SideloadSpec => []StableReads
<1>1. ReadInv => StableReads
  <2> SUFFICES ASSUME ReadInv, ~failed, NEW b \in 0 .. file_blocks, NEW x \in got[b], NEW y \in got[b]
               PROVE  x = y /\ x \in IF b = file_blocks THEN {Zeros} ELSE {b} \X Versions
    BY DEF StableReads
  <2>1. Right(b, x, hashes) /\ Right(b, y, hashes)
    BY DEF ReadInv
  <2>2. CASE b = file_blocks
    BY <2>1, <2>2 DEF Right
  <2>3. CASE b # file_blocks
    <3>1. x = <<b, hashes[b]>> /\ y = <<b, hashes[b]>> /\ hashes[b] # 0
      BY <2>1, <2>3 DEF Right
    <3>2. hashes[b] \in Versions
      BY <2>3, <3>1, FileBlocksNat DEF ReadInv, Hashes
    <3> QED BY <2>3, <3>1, <3>2
  <2> QED BY <2>2, <2>3
<1> QED BY <1>1, InitRead, NextRead, PTL DEF SideloadSpec

-----------------------------------------------------------------------------
LEMMA NextChild == ChildInv /\ [SideloadNext]_sideload => ChildInv'
<1> SUFFICES ASSUME ChildInv, [SideloadNext]_sideload PROVE ChildInv'
  OBVIOUS
<1> USE DEF ChildInv, Alive
<1>1. ASSUME NEW from \in {"adb", "sdcard"}, Start(from) PROVE ChildInv'
  BY <1>1, Zenon DEF Start
<1>2. CASE Connect
  BY <1>2 DEF Connect, recovery
<1>3. CASE Mount
  BY <1>3 DEF Mount, recovery
<1>4. CASE Close
  BY <1>4 DEF Close, recovery
<1>5. CASE ChildExits
  BY <1>5 DEF ChildExits, recovery
<1>6. CASE FileChanges \/ UNCHANGED sideload
  BY <1>6 DEF FileChanges, sideload, recovery
<1>7. CASE PollChild
  BY <1>7, Zenon DEF PollChild
<1>8. CASE PollPackage
  BY <1>8 DEF PollPackage
<1>9. CASE Kill
  BY <1>9 DEF Kill
<1>10. CASE InstallReads
  BY <1>10 DEF InstallReads
<1>11. CASE InstallEnds
  BY <1>11 DEF InstallEnds
<1>12. CASE StatExit
  BY <1>12 DEF StatExit
<1>13. CASE ReapChild
  BY <1>13 DEF ReapChild
<1>14. CASE Return
  BY <1>14 DEF Return
<1> QED BY <1>1, <1>2, <1>3, <1>4, <1>5, <1>6, <1>7, <1>8, <1>9, <1>10, <1>11, <1>12, <1>13,
           <1>14 DEF SideloadNext, Recovery

\* When apply_from_adb or apply_from_sdcard has returned, after any number of
\* sessions, the child is gone, waitpid has had it, and nobody serves /sideload.
THEOREM NothingIsLeft == SideloadSpec => []NothingLeft
<1>1. SideloadInit => ChildInv
  BY Zenon DEF SideloadInit, ChildInv, Alive
<1>2. ChildInv => NothingLeft
  BY DEF ChildInv, NothingLeft, Alive
<1> QED BY <1>1, <1>2, NextChild, PTL DEF SideloadSpec

=============================================================================
