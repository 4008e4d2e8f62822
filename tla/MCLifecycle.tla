----------------------------- MODULE MCLifecycle -----------------------------
(***************************************************************************)
(* One web process with an inline worker and one worker process, a request *)
(* and a mail.  Time runs in units of ten seconds, so that the forced exit *)
(* is one unit away, as PM2's kill of a web process, and its kill of a     *)
(* worker three.                                                           *)
(***************************************************************************)
EXTENDS Lifecycle
=============================================================================
