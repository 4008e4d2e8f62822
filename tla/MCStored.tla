------------------------------- MODULE MCStored -------------------------------
(***************************************************************************)
(* What becomes of data that callers read, keep across an await and write: *)
(* the entries of the cache, and the soft-delete marks of a document.  The *)
(* two share no state, so each behaviour follows one of them.              *)
(*                                                                         *)
(* Cache: either class, two callers of one key, calls without a ttl, with  *)
(* one of whole seconds and with a fraction, and a value of each form.     *)
(* Marks: one document, since nothing relates two; two handlers, each with *)
(* a copy and a bulk operation of its own; two deletions, by an actor or   *)
(* by nobody in particular.                                                *)
(***************************************************************************)
EXTENDS CacheStores, SoftDelete, TLC

VARIABLE part

\* The value of each version.
FormOfVersion == <<"plain", "null", "rich", "undefined">>

\* No definition tells one caller from another.
Alike == Permutations(Callers)

storedVars == <<part, vars, marksVars>>

StoredInit == part \in {"cache", "marks"} /\ Init /\ MarksInit

StoredNext ==
    \/ part = "cache" /\ Next /\ UNCHANGED <<part, marksVars>>
    \/ part = "marks" /\ MarksNext /\ UNCHANGED <<part, vars>>

StoredSpec == StoredInit /\ [][StoredNext]_storedVars
=============================================================================
