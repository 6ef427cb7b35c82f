---------------------------- MODULE MCLaunchGate ----------------------------
(* Small instances of LaunchGate for TLC. *)
EXTENDS LaunchGate
=============================================================================
