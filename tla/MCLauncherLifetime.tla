------------------------- MODULE MCLauncherLifetime -------------------------
(***************************************************************************)
(* The launcher lifetime with three attempts: two that fail and are tried  *)
(* again, and one more that Stop may meet at any point of its life.        *)
(***************************************************************************)
EXTENDS LauncherLifetime
=============================================================================
