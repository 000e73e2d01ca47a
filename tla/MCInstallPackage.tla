-------------------------- MODULE MCInstallPackage --------------------------
(* Devices for TLC: with three buttons or fewer, in the menu or not, two presses away *)
(* from the reboot.                                                                   *)
EXTENDS InstallPackage

Device(t, x, u, s, p) == [three |-> t, text |-> x, usb |-> u, saver |-> s, power |-> p]

MCDevices ==
  {Device(TRUE, TRUE, TRUE, "NORMAL", 5), Device(FALSE, FALSE, FALSE, "DISABLED", 5)}
=============================================================================
