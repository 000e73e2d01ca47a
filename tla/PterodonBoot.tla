---------------------------- MODULE PterodonBoot ----------------------------
(***************************************************************************)
(* pterodon.cpp, the program that the makefile builds as recovery, in the  *)
(* place of recovery.cpp, with the same main system, bootloader and power  *)
(* supply around it.  It removes what was asked for before it looks at the *)
(* arguments, so that a request has no history here; what it does promise  *)
(* is where the device boots.                                              *)
(***************************************************************************)
EXTENDS RecoveryBoot

VARIABLES
    program,        \* "recovery" or "pterodon"
    already_booted, \* the property ro.pterodon.boot
    asked           \* history: what the user had the device reboot into last

pvars == <<vars, program, already_booted, asked>>

PInit ==
    /\ Init
    /\ program \in {"recovery", "pterodon"} /\ already_booted = FALSE /\ asked = ""

Stays == UNCHANGED <<reason, retry_count, status, after, past, bounds>>

-----------------------------------------------------------------------------
\* The main system leaves a command, as in Request, for a program that drops it.
LeaveCommand(job) ==
    /\ pc = "system" /\ requests > 0 /\ requests' = requests - 1
    /\ \/ command_file' = <<Option(job)>> /\ UNCHANGED bcb
       \/ bcb' = Message(<<Option(job)>>) /\ UNCHANGED command_file
    /\ UNCHANGED <<package, pc, reason, local, history, power, already_booted, asked>>

\* The property is gone with the boot.
BootsAgain == Boot /\ already_booted' = FALSE /\ UNCHANGED asked

Down == (SystemReboots \/ PowerFails) /\ UNCHANGED already_booted /\ asked' = ""

-----------------------------------------------------------------------------
(* main() of pterodon.cpp.                                                  *)

\* The first start of a boot begins with the removal of old requests.
Start ==
    /\ pc = "get_args"
    /\ pc' = IF already_booted THEN "parse" ELSE "remove"
    /\ already_booted' = TRUE
    /\ Stays /\ UNCHANGED <<flash, args, lapse, asked>>

\* RemoveCommandFile, which needs /cache mounted.
RemoveCommandFile ==
    /\ pc \in {"remove", "reboot_remove"}
    /\ \/ command_file' = <<>>
       \/ "unlink" \in Faults /\ UNCHANGED command_file
    /\ pc' = IF pc = "remove" THEN "clear" ELSE "reboot"
    /\ Stays /\ UNCHANGED <<bcb, package, args, lapse, already_booted, asked>>

\* Mutant: on the way out the message stays.
ClearBootloaderMessageOnce ==
    /\ pc \in {"clear", "reboot_clear"}
    /\ bcb' = IF pc = "clear" THEN NoMessage ELSE bcb
    /\ lapse' = FALSE
    /\ pc' = IF pc = "clear" THEN "parse" ELSE "reboot_remove"
    /\ Stays /\ UNCHANGED <<command_file, package, args, already_booted, asked>>

ClearBootloaderMessage ==
    /\ pc \in {"clear", "reboot_clear"}
    /\ Write(NoMessage)
    /\ lapse' = (bcb' # NoMessage)
    /\ pc' = IF pc = "clear" THEN "parse" ELSE "reboot_remove"
    /\ Stays /\ UNCHANGED <<command_file, package, args, already_booted, asked>>

\* COMMAND_FILE is read only if /cache happens to be mounted.
FoundOptions ==
    IF bcb.recovery # <<>> /\ "misc" \notin Faults THEN {bcb.recovery}
    ELSE {bcb.recovery, <<>>, command_file}

\* Parse_Bootloader_Arguments; the options are set and not looked at again.
ParseArguments ==
    /\ pc = "parse"
    /\ \E options \in FoundOptions :
           /\ args' = <<Option("recovery")>> \o options
           /\ Write(Message(options))
           /\ lapse' = (bcb' # Message(options))
    /\ pc' = "gui"
    /\ Stays /\ UNCHANGED <<command_file, package, already_booted, asked>>

\* The program dies and init starts it again.
Restart ==
    /\ pc \in Pterodons
    /\ pc' = "get_args" /\ args' = <<>>
    /\ Stays /\ UNCHANGED <<flash, lapse, already_booted, asked>>

\* RebootDevice: the message first, then the command file, then the reboot.  Where
\* no way to reboot works the program waits for the power to go.
RebootDevice ==
    /\ pc = "gui" /\ pc' = "reboot_clear"
    /\ Stays /\ UNCHANGED <<flash, args, lapse, already_booted, asked>>

Reboots ==
    /\ pc = "reboot"
    /\ \E device \in {"system", "recovery"} :
          /\ asked' = device
          /\ reason' = IF device = "recovery" THEN "recovery" ELSE ""
    /\ pc' = "off"
    /\ UNCHANGED <<flash, local, history, bounds, already_booted>>

Pterodon ==
    \/ Start \/ RemoveCommandFile \/ ClearBootloaderMessage \/ ParseArguments \/ Restart
    \/ RebootDevice \/ Reboots

PNext ==
    /\ UNCHANGED program
    /\ \/ program = "recovery" /\ Next /\ UNCHANGED <<already_booted, asked>>
       \/ /\ program = "pterodon"
          /\ (\E job \in Jobs : LeaveCommand(job)) \/ BootsAgain \/ Down \/ Pterodon

PSpec ==
    /\ PInit /\ [][PNext]_pvars
    /\ WF_pvars(program = "recovery" /\ RecoveryStep /\ ~Waits /\ UNCHANGED <<program, already_booted, asked>>)
    /\ WF_pvars(program = "recovery" /\ Boot /\ UNCHANGED <<program, already_booted, asked>>)

-----------------------------------------------------------------------------
\* "So the device will always boot into recovery ..., until ClearBootloaderMessage()
\* is called": while the interface runs, every boot leads back to recovery, through
\* losses of power and restarts of the program; and when the user had the device
\* reboot into the system the control block, which every start of the program
\* writes, does not lead it back.  Only a write of it that fails changes that.
BootsWhereAsked ==
    program = "pterodon" /\ ~lapse =>
        /\ pc = "gui" => bcb.command = "boot-recovery"
        /\ pc = "off" /\ asked = "system" => bcb.command = ""

=============================================================================
