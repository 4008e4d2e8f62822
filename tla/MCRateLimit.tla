----------------------------- MODULE MCRateLimit -----------------------------
(***************************************************************************)
(* Two processes and one client, since clients share no counter; a window  *)
(* of two units, and time for three windows.                               *)
(***************************************************************************)
EXTENDS RateLimit
=============================================================================
