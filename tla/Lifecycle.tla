----------------------------- MODULE Lifecycle ------------------------------
(***************************************************************************)
(* The lifecycle of the Activity (Android) or view controller (iOS), which *)
(* the screens observe and the app drives.                                 *)
(***************************************************************************)
VARIABLE ui   \* "none", "started" (in the foreground) or "stopped"

LifecycleStates == {"none", "started", "stopped"}

=============================================================================
