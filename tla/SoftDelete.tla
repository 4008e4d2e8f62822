------------------------------ MODULE SoftDelete ------------------------------
(***************************************************************************)
(* The soft-delete plugin: is_deleted, deleted_at and deleted_by of some   *)
(* documents, while callers load copies of them, delete or restore through *)
(* a copy that may be stale by then, and run bulk deletes and restores,    *)
(* which MongoDB applies one document at a time between other writes.      *)
(*                                                                         *)
(* A deleted_at is the number of the softDelete() call that made it, so    *)
(* that it can be told whose date it is; 0 is null.                        *)
(***************************************************************************)
EXTENDS Naturals, Sequences

CONSTANTS
    Docs,         \* documents of one model
    Handlers,      \* handlers and jobs that delete or restore
    Actors,       \* what deleted_by may name
    NoActor,      \* deleted_by is null
    NoCopy,       \* the caller has loaded nothing
    NoBulk,       \* the caller runs no bulk operation
    MaxDeletions  \* bound on the softDelete() calls

VARIABLES
    doc,     \* the marks of each document in MongoDB
    copy,    \* the document each caller has in memory
    bulk,    \* the bulk operation each caller awaits
    issued,  \* history: the actor of each softDelete() call
    stale    \* history: documents last written through an outdated copy

marksVars == <<doc, copy, bulk, issued, stale>>

Marks == [deleted : BOOLEAN, at : Nat, by : Actors \cup {NoActor}]
Targets == {"unset", "live", "deleted"}
Copies == [of : Docs, marks : Marks]
Bulks == [patch : Marks, withDeleted : BOOLEAN, target : Targets, todo : SUBSET Docs]

ASSUME SoftDeleteAssumption ==
    /\ NoActor \notin Actors /\ NoCopy \notin Copies /\ NoBulk \notin Bulks
    /\ MaxDeletions \in Nat

-----------------------------------------------------------------------------
\* Mutants of DeletedPatch: the actor is dropped, and a date ahead of the call.
DeletedPatchNobody(at, by) == [deleted |-> TRUE, at |-> at, by |-> NoActor]
DeletedPatchEarly(at, by) == [deleted |-> TRUE, at |-> at + 1, by |-> by]

\* deletedPatch(by) and restoredPatch(); the latter are the schema's defaults.
DeletedPatch(at, by) == [deleted |-> TRUE, at |-> at, by |-> by]
RestoredPatch == [deleted |-> FALSE, at |-> 0, by |-> NoActor]

\* Mutant of Selected: updates are not hooked.
SelectedLiteral(withDeleted, target, m) == target = "unset" \/ (target = "deleted") = m.deleted

\* What a query reaches: the documents its filter asks for when it targets
\* is_deleted itself, otherwise the live ones, or all .withDeleted().
Selected(withDeleted, target, m) ==
    CASE target = "deleted" -> m.deleted
      [] target = "live"    -> ~m.deleted
      [] target = "unset"   -> withDeleted \/ ~m.deleted

\* Mutant of Saved: save() goes through the hooks and misses a document that
\* is deleted by now.
SavedHooked(stored, local, patch) == IF stored.deleted THEN stored ELSE patch

\* save() sends the paths that set(patch) modified on the copy, no others.
Saved(stored, local, patch) ==
    [deleted |-> IF patch.deleted = local.deleted THEN stored.deleted ELSE patch.deleted,
     at      |-> IF patch.at = local.at THEN stored.at ELSE patch.at,
     by      |-> IF patch.by = local.by THEN stored.by ELSE patch.by]

-----------------------------------------------------------------------------
MarksInit ==
    /\ doc = [d \in Docs |-> RestoredPatch]
    /\ copy = [c \in Handlers |-> NoCopy]
    /\ bulk = [c \in Handlers |-> NoBulk]
    /\ issued = <<>>
    /\ stale = {}

\* A find: .withDeleted(), .onlyDeleted() (which targets is_deleted), a filter
\* that targets it, or none of these.
Load(c, d, withDeleted, target) ==
    /\ bulk[c] = NoBulk
    /\ Selected(withDeleted, target, doc[d])
    /\ copy' = [copy EXCEPT ![c] = [of |-> d, marks |-> doc[d]]]
    /\ UNCHANGED <<doc, bulk, issued, stale>>

\* set(patch) on the copy, and save().
Save(c, patch) ==
    /\ bulk[c] = NoBulk
    /\ copy[c] # NoCopy
    /\ doc' = [doc EXCEPT ![copy[c].of] = Saved(@, copy[c].marks, patch)]
    /\ stale' = IF copy[c].marks = doc[copy[c].of] THEN stale \ {copy[c].of}
                                                   ELSE stale \cup {copy[c].of}
    /\ copy' = [copy EXCEPT ![c].marks = patch]
    /\ UNCHANGED bulk

\* Each softDelete() reads the clock.
Stamped(by) == Len(issued) < MaxDeletions /\ issued' = Append(issued, by)

SoftDelete(c, by) == Stamped(by) /\ Save(c, DeletedPatch(Len(issued) + 1, by))
Restore(c) == Save(c, RestoredPatch) /\ UNCHANGED issued

\* The caller sends an updateMany over the documents its filter matches.
UpdateMany(c, patch, withDeleted, target, matched) ==
    /\ bulk[c] = NoBulk
    /\ bulk' = [bulk EXCEPT ![c] = [patch |-> patch, withDeleted |-> withDeleted,
                                    target |-> target, todo |-> matched]]
    /\ UNCHANGED <<doc, copy, stale>>

BulkSoftDelete(c, by, target, matched) ==
    Stamped(by) /\ UpdateMany(c, DeletedPatch(Len(issued) + 1, by), FALSE, target, matched)
BulkRestore(c, target, matched) ==
    UpdateMany(c, RestoredPatch, TRUE, target, matched) /\ UNCHANGED issued

\* MongoDB comes to one of the documents and patches it if it is selected then.
BulkWrite(c, d) ==
    /\ bulk[c] # NoBulk
    /\ d \in bulk[c].todo
    /\ bulk' = [bulk EXCEPT ![c].todo = @ \ {d}]
    /\ IF Selected(bulk[c].withDeleted, bulk[c].target, doc[d])
       THEN doc' = [doc EXCEPT ![d] = bulk[c].patch] /\ stale' = stale \ {d}
       ELSE UNCHANGED <<doc, stale>>
    /\ UNCHANGED <<copy, issued>>

\* MongoDB answers, or stops half-way through with an error.
BulkEnds(c) ==
    /\ bulk[c] # NoBulk
    /\ bulk' = [bulk EXCEPT ![c] = NoBulk]
    /\ UNCHANGED <<doc, copy, issued, stale>>

-----------------------------------------------------------------------------
Instance(c) == Restore(c) \/ \E by \in Actors \cup {NoActor} : SoftDelete(c, by)

MarksNext ==
    \E c \in Handlers :
        \/ \E d \in Docs, withDeleted \in BOOLEAN, target \in Targets :
              Load(c, d, withDeleted, target)
        \/ Instance(c)
        \/ \E matched \in SUBSET Docs, target \in Targets :
              \/ BulkRestore(c, target, matched)
              \/ \E by \in Actors \cup {NoActor} : BulkSoftDelete(c, by, target, matched)
        \/ \E d \in Docs : BulkWrite(c, d)
        \/ BulkEnds(c)

MarksSpec == MarksInit /\ [][MarksNext]_marksVars

-----------------------------------------------------------------------------
\* Every variable has its type, and no date is of a call not yet made.
MarksTypeOK ==
    /\ doc \in [Docs -> Marks]
    /\ copy \in [Handlers -> Copies \cup {NoCopy}]
    /\ bulk \in [Handlers -> Bulks \cup {NoBulk}]
    /\ issued \in Seq(Actors \cup {NoActor})
    /\ stale \subseteq Docs
    /\ \A d \in Docs : doc[d].at <= Len(issued)

\* The three marks are those of one operation: a deletion with the date and
\* the actor of one softDelete() call, or none of them.
Whole(m) ==
    IF m.deleted THEN m.at \in 1..Len(issued) /\ m.by = issued[m.at] ELSE m = RestoredPatch

\* A deletion is recorded with the actor and the date of the same call and a
\* live document carries neither, however callers and bulks interleave, unless
\* the document was last saved through a copy that was no longer up to date:
\* only that leaves marks of different operations on one document.
MarksAgree == \A d \in Docs : d \notin stale => Whole(doc[d])

\* A softDelete() of a copy that looked live deletes the document, under its
\* own date, and a restore() of one that looked deleted brings it back, whatever
\* others did to the document since the copy was loaded.
FlipStep ==
    \A c \in Handlers : copy[c] # NoCopy =>
        LET d == copy[c].of IN
        /\ ~copy[c].marks.deleted /\ (\E by \in Actors \cup {NoActor} : SoftDelete(c, by))
              => doc'[d].deleted /\ doc'[d].at = Len(issued')
        /\ copy[c].marks.deleted /\ Restore(c) => ~doc'[d].deleted
FlipsTakeEffect == [][FlipStep]_marksVars

\* Who deleted a document, and when, is overwritten only through a copy of that
\* document or by a bulk that asks for deleted documents: a bulk softDelete()
\* over documents of which others delete some meanwhile leaves their record.
RecordStep ==
    \A d \in Docs : doc[d].deleted /\ doc'[d].deleted /\ doc'[d] # doc[d] =>
        \E c \in Handlers :
            \/ copy[c] # NoCopy /\ copy[c].of = d /\ Instance(c)
            \/ bulk[c] # NoBulk /\ bulk[c].target = "deleted" /\ BulkWrite(c, d)
DeletionRecordKept == [][RecordStep]_marksVars
=============================================================================
