--------------------------- MODULE InstallPackage ---------------------------
(***************************************************************************)
(* The installation of a package (install.cpp) by the main thread, with    *)
(* the update binary that talks to it through a pipe, the thread that logs *)
(* the temperature, and the keys of RecoveryUI pressed meanwhile.          *)
(*                                                                         *)
(* The update binary is whatever the package brings: it writes commands,   *)
(* runs programs, which have the pipe open as well, and ends.  Of the      *)
(* commands those are told apart that change what recovery does; a line is *)
(* shorter than the reader's buffer of 1024 bytes.                         *)
(***************************************************************************)
EXTENDS RecoveryUI, Functions

CONSTANTS
  PipeSize,    \* lines that the pipe holds
  MaxLines,    \* bound: lines that the update binary writes
  MaxInstalls  \* bound: installations

ASSUME InstallPackageAssumption ==
  PipeSize \in Nat \ {0} /\ MaxLines \in Nat /\ MaxInstalls \in Nat

VARIABLES
  updater,       \* the update binary: "none", "runs", or how it ended
  helper,      \* a program that it runs has the pipe open
  pipe,        \* the lines in the pipe
  lines,       \* history: the commands written in this installation
  wipe_cache, retry_update,
  logger,      \* the thread log_max_temperature
  logger_finished, notified,
  outcome,      \* of try_update_binary
  installs

binary == <<updater, helper, pipe, lines>>
log    == <<logger, notified>>
vars   == <<ui, main, binary, wipe_cache, retry_update, log, logger_finished, outcome, installs>>

Installing == {"disable", "fork", "read", "reap", "notify", "join", "enable"}
Commands == {"wipe_cache", "retry_update", "enable_reboot"}

Init ==
  /\ UiInit /\ main = "idle"
  /\ updater = "none" /\ helper = FALSE /\ pipe = <<>> /\ lines = <<>>
  /\ wipe_cache = FALSE /\ retry_update = FALSE
  /\ logger = "none" /\ logger_finished = FALSE /\ notified = FALSE
  /\ outcome = "none" /\ installs = 0

-----------------------------------------------------------------------------
(* The update binary *)

Others == UNCHANGED <<ui, main, wipe_cache, retry_update, log, logger_finished, outcome, installs>>

ChildWrites(c) ==
  /\ updater = "runs" /\ Len(lines) < MaxLines /\ Len(pipe) < PipeSize
  /\ pipe' = Append(pipe, c) /\ lines' = Append(lines, c)
  /\ Others /\ UNCHANGED <<updater, helper>>

RunProgram == updater = "runs" /\ ~helper /\ helper' = TRUE /\ Others /\ UNCHANGED <<updater, pipe, lines>>
ProgramEnds == helper /\ helper' = FALSE /\ Others /\ UNCHANGED <<updater, pipe, lines>>

\* It exits, and has waited for its program; or it is killed.
ChildEnds(how) ==
  /\ updater = "runs" /\ (how # "killed" => ~helper) /\ updater' = how
  /\ Others /\ UNCHANGED <<helper, pipe, lines>>

-----------------------------------------------------------------------------
(* log_max_temperature *)

LoggerOnly == UNCHANGED <<ui, main, binary, wipe_cache, retry_update, logger_finished, outcome, installs>>

\* Mutant: only the notification ends the thread.
LoggerTestsNever ==
  /\ logger = "test"
  /\ logger' = "wait"
  /\ LoggerOnly /\ UNCHANGED notified

LoggerTests ==
  /\ logger = "test"
  /\ logger' = IF logger_finished THEN "ended" ELSE "wait"
  /\ LoggerOnly /\ UNCHANGED notified

\* wait_for: after 20 s a temperature is taken.  There is no predicate: a wakeup ends
\* the thread.
LoggerSamples ==
  /\ logger = "wait" /\ ~notified
  /\ logger' = "test" /\ LoggerOnly /\ UNCHANGED notified

LoggerWakes ==
  /\ logger = "wait" /\ logger' = "ended" /\ LoggerOnly /\ UNCHANGED notified

-----------------------------------------------------------------------------
(* really_install_package and try_update_binary *)

At(p, q) == main = p /\ main' = q
Quiet == UNCHANGED ui

\* The package is mapped, verified and opened, or INSTALL_CORRUPT.
Begin ==
  /\ main = "idle" /\ ~rebooted /\ installs < MaxInstalls /\ installs' = installs + 1
  /\ \/ main' = "disable"
     \/ main' = "idle"
  /\ Quiet /\ UNCHANGED <<binary, wipe_cache, retry_update, log, logger_finished, outcome>>

\* Mutant: the keys stay as they are.
DisableRebootNot ==
  /\ At("disable", "fork") /\ Quiet
  /\ UNCHANGED <<binary, wipe_cache, retry_update, log, logger_finished, outcome, installs>>

DisableReboot ==
  /\ At("disable", "fork") /\ SetEnableReboot(FALSE) /\ during' = "disable"
  /\ UNCHANGED <<binary, wipe_cache, retry_update, log, logger_finished, outcome, installs>>

\* The update binary and the logger are started, or the binary cannot be.
Fork ==
  /\ \/ At("fork", "read") /\ updater' = "runs" /\ logger' = "test" /\ UNCHANGED outcome
     \/ At("fork", "enable") /\ outcome' = "error" /\ UNCHANGED <<updater, logger>>
  /\ Quiet
  /\ UNCHANGED <<helper, pipe, lines, wipe_cache, retry_update, logger_finished, notified, installs>>

\* A command of the update binary.
ReadLine ==
  /\ At("read", "read") /\ pipe # <<>> /\ pipe' = Tail(pipe)
  /\ wipe_cache' = (wipe_cache \/ Head(pipe) = "wipe_cache")
  /\ retry_update' = (retry_update \/ Head(pipe) = "retry_update")
  /\ IF Head(pipe) = "enable_reboot" THEN SetEnableReboot(TRUE) /\ UNCHANGED during ELSE Quiet
  /\ UNCHANGED <<updater, helper, lines, log, logger_finished, outcome, installs>>

\* Mutant: the update binary is waited for, and not all that it wrote.
EndOfFileEarly ==
  /\ updater # "runs" /\ At("read", "reap")
  /\ Quiet /\ UNCHANGED <<binary, wipe_cache, retry_update, log, logger_finished, outcome, installs>>

\* Everybody who could write is gone.
EndOfFile ==
  /\ pipe = <<>> /\ updater # "runs" /\ ~helper /\ At("read", "reap")
  /\ Quiet /\ UNCHANGED <<binary, wipe_cache, retry_update, log, logger_finished, outcome, installs>>

Reap ==
  /\ updater # "runs" /\ At("reap", "notify") /\ logger_finished' = TRUE
  /\ Quiet /\ UNCHANGED <<binary, wipe_cache, retry_update, log, outcome, installs>>

\* notify_one is lost on a thread that does not wait.
Notify ==
  /\ At("notify", "join") /\ notified' = (logger = "wait")
  /\ Quiet
  /\ UNCHANGED <<binary, wipe_cache, retry_update, logger, logger_finished, outcome,
                 installs>>

Join ==
  /\ logger = "ended" /\ At("join", "enable")
  /\ outcome' = IF retry_update THEN "retry" ELSE IF updater = "exit0" THEN "success" ELSE "error"
  /\ Quiet /\ UNCHANGED <<binary, wipe_cache, retry_update, log, logger_finished, installs>>

\* The caller has the result, and what the attempt kept is gone.
EnableReboot ==
  /\ At("enable", "idle") /\ SetEnableReboot(TRUE) /\ UNCHANGED during
  /\ updater' = "none" /\ helper' = FALSE /\ pipe' = <<>> /\ lines' = <<>>
  /\ wipe_cache' = FALSE /\ retry_update' = FALSE /\ outcome' = "none"
  /\ logger' = "none" /\ logger_finished' = FALSE /\ notified' = FALSE
  /\ UNCHANGED installs

\* get_menu_selection, from its start or for one more key.
Menu ==
  /\ At("idle", "wait") /\ ~rebooted
  /\ FlushKeys \/ Quiet
  /\ UNCHANGED <<binary, wipe_cache, retry_update, log, logger_finished, outcome, installs>>

-----------------------------------------------------------------------------
Binary ==
  \/ (\E c \in Commands : ChildWrites(c)) \/ RunProgram \/ ProgramEnds
  \/ \E how \in {"exit0", "exit1", "killed"} : ChildEnds(how)

Logger == LoggerTests \/ LoggerSamples \/ LoggerWakes

Install ==
  \/ DisableReboot \/ Fork \/ ReadLine \/ EndOfFile \/ Reap \/ Notify \/ Join \/ EnableReboot

Ui ==
  /\ ProcessKey \/ (\E t \in timers : TimeKey(t)) \/ WaitKey
  /\ UNCHANGED <<binary, wipe_cache, retry_update, log, logger_finished, outcome, installs>>

\* A device that reboots does nothing any more.
Next == ~rebooted /\ (Begin \/ Menu \/ Install \/ Binary \/ Logger \/ Ui)

\* The threads of recovery run, and a timed wait ends.
Spec == Init /\ [][Next]_vars /\ WF_vars(~rebooted /\ Install) /\ WF_vars(~rebooted /\ Logger)

-----------------------------------------------------------------------------
(* Properties *)

TypeOK ==
  /\ key_pressed \subseteq Keys /\ key_last_down \in key_pressed \cup {None}
  /\ key_down_count \in 0 .. MaxPresses /\ key_long_press \in BOOLEAN
  /\ timers \subseteq Keys \X (1 .. MaxPresses) /\ held \in BOOLEAN
  /\ Len(key_queue) <= queue_max
  /\ input \in {"idle", "check", "count", "last", "toggle", "enter", "enqueue", "reboot", "paused"}
  /\ key_code \in Keys \cup {None} /\ long_press \in BOOLEAN /\ reboot_enabled \in BOOLEAN
  /\ enable_reboot \in BOOLEAN /\ consecutive_power_keys \in Nat /\ rebooted \in BOOLEAN
  /\ text \in BOOLEAN /\ three \in BOOLEAN /\ usb \in BOOLEAN
  /\ screensaver_state_ \in {"DISABLED", "NORMAL", "DIMMED", "OFF"}
  /\ main \in {"idle", "wait", "blocked"} \cup Installing
  /\ updater \in {"none", "runs", "exit0", "exit1", "killed"} /\ helper \in BOOLEAN
  /\ pipe \in Seq(Commands) /\ lines \in Seq(Commands)
  /\ wipe_cache \in BOOLEAN /\ retry_update \in BOOLEAN
  /\ logger \in {"none", "test", "wait", "ended"}
  /\ outcome \in {"none", "error", "retry", "success"} /\ installs \in 0 .. MaxInstalls

\* A key counts as pressed for long only when the timer of that very press has
\* ended, and not that of an earlier press of the key.
LongPressRight == long_press => held

\* While an update binary runs that has not asked for it, no key that is released
\* then reboots the device; a key that was being handled when the installation
\* began still may.
RebootAllowed ==
  rebooted /\ updater = "runs" /\ "enable_reboot" \notin Range(lines) =>
    during \notin Installing \ {"disable"}

\* The result of the installation follows from all that the update binary wrote and
\* from how it ended, although it may end before its last lines are read.
ResultRight ==
  outcome # "none" /\ updater # "none" =>
    /\ wipe_cache = ("wipe_cache" \in Range(lines))
    /\ (outcome = "retry") = ("retry_update" \in Range(lines))
    /\ outcome = "success" => updater = "exit0"

\* When the update binary is gone, and the programs it left behind, the installation
\* comes to its end: the notification that the temperature logger misses is made up
\* for by its timeout.
InstallReturns ==
  main \in {"read", "reap", "notify", "join"} /\ updater # "runs" /\ ~helper
    ~> main = "idle" \/ rebooted

=============================================================================
