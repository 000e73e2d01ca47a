---------------------------- MODULE RecoveryBoot ----------------------------
(***************************************************************************)
(* The life of one request from the main system to recovery.cpp: the       *)
(* request comes in /cache/recovery/command or in the bootloader control   *)
(* block (BCB), get_args copies it to the BCB, main() does what it says,   *)
(* finish_recovery() clears the BCB and then the command file, and the     *)
(* device reboots.  Power may fail between any two writes to flash.        *)
(*                                                                         *)
(* A step ends where flash changes, or where control leaves the program    *)
(* (a reboot, the menu).  A write of the BCB is one write of one           *)
(* structure, followed by fsync, and is taken to be atomic.  The device    *)
(* has a /cache partition.                                                 *)
(***************************************************************************)
EXTENDS Naturals, Sequences, FiniteSetsExt

CONSTANTS
    RETRY_LIMIT,
    Room,       \* the options that fit the recovery field of the BCB
    Faults,     \* which of "power", "format", "unlink" and "reboot" may fail; "misc" is
                \* a read or a write of the BCB, "cache" a read of COMMAND_FILE
    MaxPower,   \* bound: power failures
    MaxRequests \* bound: requests of the main system

ASSUME RecoveryBootAssumption ==
    /\ RETRY_LIMIT \in Nat \ {0} /\ MaxPower \in Nat /\ MaxRequests \in Nat
    /\ Faults \subseteq {"power", "format", "unlink", "reboot", "misc", "cache"}

\* The first request with all its retries fits: set_retry_bootloader_message
\* writes the program name too, so each of the RETRY_LIMIT retries adds one.
ASSUME RoomAssumption == Room \in Nat /\ Room >= RETRY_LIMIT + 2

VARIABLES
    bcb,            \* the bootloader_message: its command and recovery fields
    command_file,   \* the options in COMMAND_FILE; none is no file
    package,        \* whether the package is in /cache
    pc, reason,     \* where the device is; what the last reboot asked for
    args, retry_count,
    status,         \* what main(), or later an item of the menu, ended in
    after,          \* where main() goes when finish_recovery() is done
    owed,           \* history: the request not yet settled
    done,           \* history: whether its work has been completed
    tries,          \* history: its installations that ended in INSTALL_RETRY
    reset,          \* history: whether the last factory reset asked for was done
    lapse,          \* history: a request in flash was overlooked, or what the BCB should
                    \* say now could not be written to it
    power, requests \* what is left of the bounds

flash == <<bcb, command_file, package>>
local == <<args, retry_count, status, after>>
past == <<owed, done, tries, reset>>
history == <<past, lapse>>
bounds == <<power, requests>>
vars == <<flash, pc, reason, local, history, bounds>>

Jobs == {"update_package", "wipe_data", "prompt_and_wipe_data", "wipe_cache", "sideload",
         "other"}

\* An argument; "other" stands for wipe_ab and just_exit, and "recovery" for the
\* name of the program, args[0].
Option(o) == [opt |-> o, n |-> 0]
RetryCount(n) == [opt |-> "retry_count", n |-> n]
Has(options, o) == \E i \in DOMAIN options : options[i].opt = o

NoMessage == [command |-> "", recovery |-> <<>>]

\* update_bootloader_message_in_struct: strlcat cuts what does not fit.
Message(options) ==
    [command |-> "boot-recovery",
     recovery |-> SubSeq(options, 1, Min({Len(options), Room}))]

\* update_bootloader_message and clear_bootloader_message: on a failure, which
\* recovery only logs, the BCB stays as it is.
Write(message) == bcb' = message \/ ("misc" \in Faults /\ bcb' = bcb)

Init ==
    /\ bcb = NoMessage /\ command_file = <<>> /\ package = FALSE
    /\ pc = "system" /\ reason = ""
    /\ args = <<>> /\ retry_count = 0 /\ status = "none" /\ after = "reboot"
    /\ owed = "none" /\ done = FALSE /\ tries = 0 /\ reset = FALSE /\ lapse = FALSE
    /\ power = MaxPower /\ requests = MaxRequests

-----------------------------------------------------------------------------
(* The main system, the bootloader and the power supply.                   *)

\* The main system leaves a request in COMMAND_FILE or, through uncrypt, in the
\* BCB; the package of an update is in /cache by then.
Request(job) ==
    /\ pc = "system" /\ owed = "none" /\ requests > 0
    /\ requests' = requests - 1
    /\ \/ command_file' = <<Option(job)>> /\ UNCHANGED bcb
       \/ bcb' = Message(<<Option(job)>>) /\ UNCHANGED command_file
    /\ package' = (package \/ job = "update_package")
    /\ owed' = job /\ done' = FALSE /\ tries' = 0 /\ lapse' = FALSE
    /\ UNCHANGED <<pc, reason, local, reset, power>>

\* The system reboots into recovery, or just reboots.
SystemReboots ==
    /\ pc = "system"
    /\ pc' = "off" /\ reason' \in {"", "recovery"}
    /\ UNCHANGED <<flash, local, history, bounds>>

PowerFails ==
    /\ "power" \in Faults /\ power > 0 /\ pc # "off"
    /\ power' = power - 1
    /\ pc' = "off" /\ reason' = ""
    /\ UNCHANGED <<flash, local, history, requests>>

\* The bootloader.  The user may hold the keys for recovery.
Boot ==
    /\ pc = "off"
    /\ IF reason = "recovery" \/ bcb.command = "boot-recovery"
       THEN pc' = "get_args" ELSE pc' \in {"system", "get_args"}
    /\ args' = <<>> /\ retry_count' = 0 /\ status' = "none" /\ after' = "reboot"
    /\ reason' = ""
    /\ UNCHANGED <<flash, history, bounds>>

-----------------------------------------------------------------------------
(* recovery: get_args and the options.                                     *)

\* What get_args finds when every read succeeds: the options of the BCB or, if it
\* has none, of COMMAND_FILE.
Pending == IF bcb.recovery # <<>> THEN bcb.recovery ELSE command_file

\* What it may find: a message or a file that cannot be read is like an empty one.
Readable ==
    LET message == {bcb.recovery} \union (IF "misc" \in Faults THEN {<<>>} ELSE {})
        file == {command_file} \union (IF "cache" \in Faults THEN {<<>>} ELSE {})
    IN  {IF m # <<>> THEN m ELSE f : m \in message, f \in file}

\* The arguments of the program are none but its name, and the options found.
TakeArgs(options) ==
    /\ args' = <<Option("recovery")>> \o options
    /\ retry_count' = LET counts == {i \in DOMAIN args' : args'[i].opt = "retry_count"}
                      IN  IF counts = {} THEN 0 ELSE args'[Max(counts)].n

\* Mutant: what was found is not written back.
GetArgsKeepsBcb ==
    /\ pc = "get_args"
    /\ \E options \in Readable :
          TakeArgs(options) /\ lapse' = (lapse \/ options # Pending)
    /\ pc' = "main"
    /\ UNCHANGED <<flash, reason, status, after, past, bounds>>

\* Mutant: COMMAND_FILE before the BCB.
GetArgsFileFirst ==
    /\ pc = "get_args"
    /\ LET options == IF command_file # <<>> THEN command_file ELSE bcb.recovery
       IN  TakeArgs(options) /\ bcb' = Message(options)
    /\ pc' = "main"
    /\ UNCHANGED <<command_file, package, reason, status, after, history, bounds>>

\* What was found is written back to the BCB.
GetArgs ==
    /\ pc = "get_args"
    /\ \E options \in Readable :
          /\ TakeArgs(options)
          /\ Write(Message(options))
          /\ lapse' = (lapse \/ options # Pending \/ bcb' # Message(options))
    /\ pc' = "main"
    /\ UNCHANGED <<command_file, package, reason, status, after, past, bounds>>

\* What main() does, the first that applies.
Job ==
    IF Has(args, "update_package") THEN "update_package"
    ELSE IF Has(args, "wipe_data") THEN "wipe_data"
    ELSE IF Has(args, "prompt_and_wipe_data") THEN "prompt_and_wipe_data"
    ELSE IF Has(args, "wipe_cache") THEN "wipe_cache"
    ELSE IF Has(args, "other") THEN "other"
    ELSE IF Has(args, "sideload") THEN "sideload" ELSE "none"

\* The arguments but the old count, in their order.
WithoutCount(options) ==
    LET kept == {i \in DOMAIN options : options[i].opt # "retry_count"}
        nth(j) == CHOOSE i \in kept : Cardinality({h \in kept : h <= i}) = j
    IN  [j \in 1..Cardinality(kept) |-> options[nth(j)]]

\* set_retry_bootloader_message: args[0] becomes an option.
SetRetry(count) ==
    LET message == Message(WithoutCount(args) \o <<RetryCount(count)>>)
    IN  Write(message) /\ lapse' = (lapse \/ bcb' # message)

\* With the work done or given up, main() calls finish_recovery(), at once or in
\* prompt_and_wait when the text is visible; it waits in any case if there was
\* no command.
Finish(result) ==
    /\ status' = result
    /\ pc' = "finish"
    /\ after' \in (IF result = "none" THEN {"menu"} ELSE {"menu", "reboot"})

\* The battery is low or the boot reason is on the blacklist.
SkipUpdate ==
    /\ pc = "main" /\ Job = "update_package"
    /\ Finish("skipped")
    /\ UNCHANGED <<flash, reason, args, retry_count, history, bounds>>

\* A fresh update is marked in the BCB before it starts.
StartUpdate ==
    /\ pc = "main" /\ Job = "update_package"
    /\ IF retry_count = 0 THEN SetRetry(1) ELSE UNCHANGED <<bcb, lapse>>
    /\ pc' = "install"
    /\ UNCHANGED <<command_file, package, reason, local, past, bounds>>

\* The history counts as far as TriesBounded can tell.
CountTry ==
    tries' = IF owed = "update_package" /\ tries <= RETRY_LIMIT + 1 + MaxPower
             THEN tries + 1 ELSE tries

\* install_package: it cannot succeed without the package, and may ask for
\* /cache to be wiped when it does.
InstallPackage ==
    /\ pc = "install"
    /\ \/ /\ package
          /\ done' = (done \/ owed = "update_package")
          /\ \/ Finish("success")
             \/ pc' = "wipe_cache" /\ status' = "success" /\ UNCHANGED after
          /\ UNCHANGED tries
       \/ Finish("error") /\ UNCHANGED <<done, tries>>
       \/ /\ package
          /\ CountTry
          /\ IF retry_count < RETRY_LIMIT
             THEN pc' = "retry" /\ status' = "retry" /\ UNCHANGED after
             ELSE Finish("retry")
          /\ UNCHANGED done
    /\ UNCHANGED <<flash, reason, args, retry_count, owed, reset, lapse, bounds>>

\* Mutant: the count in the BCB stays.
RetryUncounted ==
    /\ pc = "retry"
    /\ pc' = "reboot_recovery"
    /\ UNCHANGED <<flash, reason, local, history, bounds>>

\* INSTALL_RETRY: count it in the BCB...
Retry ==
    /\ pc = "retry"
    /\ retry_count' = retry_count + 1
    /\ SetRetry(retry_count + 1)
    /\ pc' = "reboot_recovery"
    /\ UNCHANGED <<command_file, package, reason, args, status, after, past, bounds>>

\* ...and reboot; if that fails the update is abandoned.
RebootRecovery ==
    /\ pc = "reboot_recovery"
    /\ \/ pc' = "off" /\ reason' = "recovery" /\ UNCHANGED <<status, after>>
       \/ "reboot" \in Faults /\ Finish("retry") /\ UNCHANGED reason
    /\ UNCHANGED <<flash, args, retry_count, history, bounds>>

\* Mutant: the directory of the logs is kept, and COMMAND_FILE with it.
EraseCacheKeepsFile(erased) ==
    /\ package' = (package /\ ~erased)
    /\ UNCHANGED command_file

\* erase_volume("/cache"): COMMAND_FILE and the package go with it.
EraseCache(erased) ==
    IF erased THEN command_file' = <<>> /\ package' = FALSE
              ELSE UNCHANGED <<command_file, package>>

FormatWorks == {TRUE} \union (IF "format" \in Faults THEN {FALSE} ELSE {})

\* wipe_cache, for its own sake, from the menu or after an update, whose
\* status it does not change.
WipeCache ==
    /\ \/ pc = "main" /\ Job = "wipe_cache"
       \/ pc \in {"wipe_cache", "menu"}
    /\ \E erased \in FormatWorks :
          /\ EraseCache(erased)
          /\ Finish(IF erased \/ pc = "wipe_cache" THEN "success" ELSE "error")
          /\ done' = (done \/ (owed = "wipe_cache" /\ erased))
    /\ UNCHANGED <<bcb, reason, args, retry_count, owed, tries, reset, lapse, bounds>>

\* wipe_data, from the arguments or from the menu: first /data, if the device
\* lets it (PreWipeData)...
EraseData ==
    /\ \/ pc = "main" /\ Job \in {"wipe_data", "prompt_and_wipe_data"}
       \/ pc = "menu"
    /\ \/ /\ \E erased \in FormatWorks :
                status' = IF erased THEN "success" ELSE "error"
          /\ pc' = "erase_cache" /\ UNCHANGED after
       \/ "format" \in Faults /\ Finish("error")
    /\ UNCHANGED <<flash, reason, args, retry_count, history, bounds>>

\* ...then, however that went, /cache (/metadata and PostWipeData can only fail).
EraseCacheAfterData ==
    /\ pc = "erase_cache"
    /\ \E erased \in FormatWorks :
          /\ EraseCache(erased)
          /\ Finish(IF erased THEN status ELSE "error")
    /\ done' = (done \/ (owed \in {"wipe_data", "prompt_and_wipe_data"} /\ status' = "success"))
    /\ UNCHANGED <<bcb, reason, args, retry_count, owed, tries, reset, lapse, bounds>>

\* wipe_ab and just_exit, which leave the request where it is; the user answers
\* "Try again" to prompt_and_wipe_data; no request.
OtherWork ==
    /\ pc = "main"
    /\ \E result \in CASE Job = "other" -> {"success", "error"}
                       [] Job = "prompt_and_wipe_data" -> {"success"}
                       [] Job = "none" -> {"none"}
                       [] OTHER -> {} :
          /\ Finish(result)
          /\ done' = (done \/ (owed = Job /\ result = "success"))
    /\ UNCHANGED <<flash, reason, args, retry_count, owed, tries, reset, lapse, bounds>>

\* apply_from_sdcard: the BCB will lead back to recovery, but to no work.
ApplyFromSdcard ==
    /\ pc = "menu"
    /\ Write(Message(<<>>))
    /\ pc' = "sdcard"
    /\ UNCHANGED <<command_file, package, reason, local, history, bounds>>

\* A package from adb or from the sdcard.  It too may ask for a wipe of /cache.
ApplyOther ==
    /\ \/ pc = "main" /\ Job = "sideload"
       \/ pc \in {"menu", "sdcard"}
    /\ \/ Finish("error") /\ UNCHANGED <<command_file, package, done>>
       \/ /\ Finish("success") /\ UNCHANGED <<command_file, package>>
          /\ done' = (done \/ owed = "sideload")
       \/ \E erased \in FormatWorks :
             /\ EraseCache(erased)
             /\ Finish(IF erased THEN "success" ELSE "error")
             /\ done' = (done \/ owed = "sideload")
    /\ UNCHANGED <<bcb, reason, args, retry_count, owed, tries, reset, lapse, bounds>>

\* The user leaves the menu, and main() calls finish_recovery() once more; or looks
\* at something or answers "No", and prompt_and_wait does.
LeaveMenu ==
    /\ pc = "menu"
    /\ pc' = "finish" /\ after' \in {"menu", "reboot"}
    /\ UNCHANGED <<flash, reason, args, retry_count, status, history, bounds>>

-----------------------------------------------------------------------------
(* finish_recovery.                                                        *)

\* The request is settled when the BCB is cleared; if that fails it comes back.
ClearMessage ==
    /\ pc = "finish"
    /\ \/ /\ bcb' = NoMessage
          /\ owed' = "none"
          /\ reset' = IF owed = "wipe_data" THEN done ELSE reset
          /\ UNCHANGED lapse
       \/ /\ "misc" \in Faults /\ UNCHANGED <<bcb, owed, reset>>
          /\ lapse' = TRUE
    /\ pc' = "unlink"
    /\ UNCHANGED <<command_file, package, reason, local, done, tries, bounds>>

UnlinkCommandFile ==
    /\ pc = "unlink"
    /\ \/ command_file' = <<>>
       \/ "unlink" \in Faults /\ UNCHANGED command_file
    /\ IF after = "menu" THEN pc' = "menu" ELSE pc' = "off"
    /\ UNCHANGED <<bcb, package, reason, local, history, bounds>>

-----------------------------------------------------------------------------
RecoveryStep ==
    \/ GetArgs \/ SkipUpdate \/ StartUpdate \/ InstallPackage \/ Retry \/ RebootRecovery
    \/ WipeCache \/ EraseData \/ EraseCacheAfterData \/ OtherWork \/ ApplyFromSdcard
    \/ ApplyOther \/ LeaveMenu \/ ClearMessage \/ UnlinkCommandFile

Next ==
    \/ \E job \in Jobs : Request(job)
    \/ SystemReboots \/ PowerFails \/ Boot \/ RecoveryStep

\* The program waits, without limit, for a choice of the user or for the host of a
\* sideload.
Waits ==
    \/ pc = "menu"
    \/ pc = "main" /\ Job \in {"prompt_and_wipe_data", "sideload"}

\* recovery runs until it reboots the device or waits, and a device that was switched
\* off is switched on again.
Fairness == WF_vars(RecoveryStep /\ ~Waits) /\ WF_vars(Boot)

Spec == Init /\ [][Next]_vars /\ Fairness

-----------------------------------------------------------------------------
Options == [opt : Jobs \union {"recovery", "retry_count"}, n : Nat]

\* The places of pterodon.cpp, which PterodonBoot puts here.
Pterodons == {"remove", "clear", "parse", "gui", "reboot_clear", "reboot_remove", "reboot"}

TypeOK ==
    /\ bcb \in [command : {"", "boot-recovery"}, recovery : Seq(Options)]
    /\ Len(bcb.recovery) <= Room
    /\ command_file \in Seq(Options) /\ package \in BOOLEAN
    /\ pc \in {"off", "system", "get_args", "main", "install", "retry", "reboot_recovery",
               "wipe_cache", "erase_cache", "sdcard", "menu", "finish", "unlink"} \union Pterodons
    /\ reason \in {"", "recovery"}
    /\ args \in Seq(Options) /\ retry_count \in 0..RETRY_LIMIT
    /\ status \in {"none", "success", "error", "skipped", "retry"}
    /\ after \in {"menu", "reboot"}
    /\ owed \in Jobs \union {"none"} /\ done \in BOOLEAN /\ tries \in Nat /\ reset \in BOOLEAN
    /\ lapse \in BOOLEAN
    /\ power \in 0..MaxPower /\ requests \in 0..MaxRequests

\* "These important scenarios must be safely restartable at any point": wherever
\* the power fails, a request that is not settled is still what get_args will
\* find at the next start of recovery, and as soon as recovery has started on it
\* every boot leads back to recovery.  Only an access to the BCB or to COMMAND_FILE
\* that fails, which get_args and set_retry_bootloader_message log and go on from,
\* can change that.
JobSurvives ==
    owed # "none" /\ ~lapse =>
        /\ \/ Has(bcb.recovery, owed)
           \/ bcb.recovery = <<>> /\ Has(command_file, owed)
        /\ pc \notin {"off", "system", "get_args"} => bcb.command = "boot-recovery"

\* finish_recovery() gives up nothing that main() has not looked at, and when
\* main() takes a request for a success its work has been done, in this boot or
\* in an earlier one that was cut short.  The exception is a lapse: get_args goes
\* on without the options it cannot read, and finish_recovery() then clears what
\* they were read from.
NothingDropped ==
    [][owed # "none" /\ owed' = "none" /\ ~lapse =>
          /\ Job = owed
          /\ status = "success" => done]_vars

\* Once a factory reset is done and settled no later start of recovery repeats
\* it: the arguments lead to erase_volume("/data") without a question to the user
\* only while the reset is owed, or when it has failed.  Between the clearing of
\* the BCB and the unlinking of COMMAND_FILE this rests on /cache having been
\* erased before; it holds whatever could not be read or written.
ResetOnlyWhenOwed ==
    [][EraseData /\ pc = "main" /\ Job = "wipe_data" => owed = "wipe_data" \/ ~reset]_vars

\* "We will try to apply the update package 5 times at most in case of an I/O
\* error": RETRY_LIMIT + 1 times, and once more for each power failure that
\* comes between the error and the write of the new count.  The count is in the
\* BCB only, and a lapse loses it.
TriesBounded == lapse \/ tries <= RETRY_LIMIT + 1 + (MaxPower - power)

\* Once recovery has read a request that waits for nobody, it is settled: done,
\* failed, skipped or out of retries, and never retried for ever, unless its count
\* is lost in a lapse.
Settles ==
    (pc = "main" /\ owed \notin {"none", "prompt_and_wipe_data", "sideload"})
        ~> (owed = "none" \/ lapse)

=============================================================================
