----------------------------- MODULE RecoveryUI -----------------------------
(***************************************************************************)
(* Keys in recovery (ui.cpp): the input thread that handles the events,    *)
(* the thread that every press starts to time it, and the main thread in   *)
(* WaitKey with the screensaver.  What is done with key_queue_mutex held   *)
(* is one step.  Swipes and the trackball come as presses and releases.    *)
(***************************************************************************)
EXTENDS Integers, Sequences, FiniteSets

CONSTANTS
  Keys,        \* with KEY_POWER and KEY_UP
  KEY_POWER, KEY_UP, KEY_ENTER,
  Devices,     \* what three, text, usb, screensaver_state_ and consecutive_power_keys
               \* start with
  queue_max,   \* the length of key_queue, 256 in the code
  MaxPresses   \* bound: presses of keys

ASSUME RecoveryUIAssumption ==
  /\ {KEY_POWER, KEY_UP} \subseteq Keys /\ KEY_ENTER \notin Keys
  /\ queue_max \in Nat \ {0} /\ MaxPresses \in Nat

VARIABLES
  key_pressed,            \* the keys that are down
  key_last_down, key_down_count, key_long_press,
  timers,                 \* the threads in time_key: <<key_code, count>>
  key_queue, enable_reboot, consecutive_power_keys, rebooted,
  text, three, usb,       \* IsTextVisible, HasThreeButtons, IsUsbConnected
  screensaver_state_,
  input,                  \* where the input thread is
  key_code, long_press, reboot_enabled, \* ProcessKey's variables
  main,                   \* where the main thread is
  held,                   \* history: the timer of the last press has ended
  during                  \* history: where main was, in this installation, when key_code
                          \* was released

keys   == <<key_pressed, key_last_down, key_down_count>>
press  == <<key_long_press, timers, held>>
power  == <<enable_reboot, consecutive_power_keys, rebooted>>
screen == <<text, three, usb, screensaver_state_>>
local  == <<key_code, long_press, reboot_enabled, during>>
ui == <<keys, press, key_queue, power, screen, input, local>>

None == "none"

UiInit ==
  /\ key_pressed = {} /\ key_last_down = None /\ key_down_count = 0
  /\ key_long_press = FALSE /\ timers = {} /\ held = FALSE /\ key_queue = <<>>
  /\ enable_reboot = TRUE /\ rebooted = FALSE
  /\ \E d \in Devices :
       /\ three = d.three /\ text = d.text /\ usb = d.usb
       /\ screensaver_state_ = d.saver /\ consecutive_power_keys = d.power
  /\ input = "idle" /\ key_code = None /\ long_press = FALSE /\ reboot_enabled = FALSE
  /\ during = "idle"

-----------------------------------------------------------------------------
(* The input thread: ProcessKey *)

Press(k) ==
  /\ input = "idle" /\ k \notin key_pressed /\ key_down_count < MaxPresses
  /\ key_pressed' = key_pressed \cup {k}
  /\ key_down_count' = key_down_count + 1
  /\ key_last_down' = k /\ key_long_press' = FALSE
  /\ timers' = timers \cup {<<k, key_down_count + 1>>}
  /\ held' = FALSE
  /\ UNCHANGED <<key_queue, power, screen, input, local, main>>

\* A key is registered when nothing else was pressed or released since it was pressed.
Release(k) ==
  /\ input = "idle" /\ k \in key_pressed
  /\ key_pressed' = key_pressed \ {k}
  /\ key_last_down' = None
  /\ \/ key_last_down # k /\ UNCHANGED <<input, local>>
     \/ /\ key_last_down = k /\ input' = "check" /\ key_code' = k
        /\ long_press' = key_long_press /\ reboot_enabled' = enable_reboot /\ during' = main
  /\ UNCHANGED <<key_down_count, press, key_queue, power, screen, main>>

Goes(p, q) == input = p /\ input' = q /\ UNCHANGED local
Ends(p) ==
  /\ input = p /\ input' = "idle"
  /\ key_code' = None /\ long_press' = FALSE /\ reboot_enabled' = FALSE /\ during' = "idle"

\* CheckKey: the chord of power and up, or a long press, switch the text.
CheckKey ==
  /\ key_long_press' = FALSE
  /\ LET chord == key_code = KEY_UP /\ KEY_POWER \in key_pressed
     IN  Goes("check", CASE (three /\ chord) \/ (~three /\ long_press /\ ~text) -> "toggle"
                         [] ~three /\ long_press /\ text -> "enter"
                         [] OTHER -> "count")
  /\ UNCHANGED <<keys, timers, held, key_queue, power, screen, main>>

\* Seven presses of the power key in a row.
CountPowerKeys ==
  /\ consecutive_power_keys' = IF key_code # KEY_POWER THEN 0
                               ELSE IF enable_reboot THEN consecutive_power_keys + 1
                               ELSE consecutive_power_keys
  /\ Goes("count", IF key_code = KEY_POWER /\ enable_reboot /\ consecutive_power_keys' >= 7
                   THEN "reboot" ELSE "last")
  /\ UNCHANGED <<keys, press, key_queue, enable_reboot, rebooted, screen, main>>

\* The other keys are for the menu.
EndCheckKey ==
  /\ IF text \/ screensaver_state_ = "OFF" THEN Goes("last", "enqueue") ELSE Ends("last")
  /\ UNCHANGED <<keys, press, key_queue, power, screen, main>>

ToggleText ==
  /\ Ends("toggle") /\ text' = ~text
  /\ UNCHANGED <<keys, press, key_queue, power, three, usb, screensaver_state_, main>>

Reboot ==
  /\ IF reboot_enabled THEN Goes("reboot", "paused") ELSE Ends("reboot")
  /\ rebooted' = reboot_enabled
  /\ UNCHANGED <<keys, press, key_queue, enable_reboot, consecutive_power_keys, screen, main>>

EnqueueKey ==
  /\ Ends("enter") \/ Ends("enqueue")
  /\ key_queue' = IF Len(key_queue) = queue_max THEN key_queue
                  ELSE Append(key_queue, IF input = "enter" THEN KEY_ENTER ELSE key_code)
  /\ UNCHANGED <<keys, press, power, screen, main>>

ProcessKey ==
  \/ (\E k \in Keys : Press(k) \/ Release(k))
  \/ CheckKey \/ CountPowerKeys \/ EndCheckKey \/ ToggleText \/ Reboot \/ EnqueueKey

-----------------------------------------------------------------------------
(* time_key: 750 ms after the press *)

\* Mutant: an older press of the same key is not told apart.
TimeKeySame(t) ==
  /\ t \in timers /\ timers' = timers \ {t}
  /\ key_long_press' = (key_long_press \/ key_last_down = t[1])
  /\ held' = (held \/ key_down_count = t[2])
  /\ UNCHANGED <<keys, key_queue, power, screen, input, local, main>>

TimeKey(t) ==
  /\ t \in timers /\ timers' = timers \ {t}
  /\ key_long_press' = (key_long_press \/ (key_last_down = t[1] /\ key_down_count = t[2]))
  /\ held' = (held \/ key_down_count = t[2])
  /\ UNCHANGED <<keys, key_queue, power, screen, input, local, main>>

-----------------------------------------------------------------------------
(* The main thread: WaitKey *)

\* Nothing is in the queue: pthread_cond_timedwait.
Block ==
  /\ main = "wait" /\ key_queue = <<>> /\ main' = "blocked"
  /\ UNCHANGED ui

\* A screen that was off takes the first key.
Drops(timeout) == key_queue # <<>> /\ ~timeout /\ screensaver_state_ = "OFF"

NextState(timeout) ==
  IF screensaver_state_ = "DISABLED" THEN "DISABLED"
  ELSE IF ~timeout THEN "NORMAL"
  ELSE IF screensaver_state_ = "NORMAL" THEN "DIMMED" ELSE "OFF"

\* The wait is over; with the cable in and no key it begins again.  When the brightness
\* cannot be written the state stays.
AfterWait(timeout) ==
  LET left == IF Drops(timeout) THEN Tail(key_queue) ELSE key_queue IN
  /\ screensaver_state_' \in {screensaver_state_, NextState(timeout)}
  /\ key_queue' = IF left = <<>> THEN <<>> ELSE Tail(left)
  /\ main' = IF usb /\ left = <<>> THEN "wait" ELSE "idle"
  /\ UNCHANGED <<keys, press, power, text, three, usb, input, local>>

\* A key is there; or the time is over, with a key that came too late or without one.
GetKey == main \in {"wait", "blocked"} /\ key_queue # <<>> /\ AfterWait(FALSE)
TimeOut == main = "blocked" /\ AfterWait(TRUE)

WaitKey == Block \/ GetKey \/ TimeOut

FlushKeys ==
  /\ key_queue' = <<>>
  /\ UNCHANGED <<keys, press, power, screen, input, local>>

SetEnableReboot(enabled) ==
  /\ enable_reboot' = enabled
  /\ UNCHANGED <<keys, press, key_queue, consecutive_power_keys, rebooted, screen, input,
                 key_code, long_press, reboot_enabled>>

=============================================================================
