--------------------------- MODULE SoftDeleteProofs ---------------------------
(***************************************************************************)
(* Theorems about the soft-delete plugin, for every set of documents,      *)
(* callers and actors.                                                     *)
(***************************************************************************)
EXTENDS SoftDelete, TLAPS

By == Actors \cup {NoActor}

\* No copy is dated by a call not yet made.
CopiesDated ==
    \A c \in Handlers : copy[c] # NoCopy => copy[c].marks.at <= Len(issued)

\* A bulk carries the patch of one call, a deletion unless it is a restore.
BulkPatchOf(b) == Whole(b.patch) /\ (b.withDeleted => ~b.patch.deleted)
BulksWhole == \A c \in Handlers : bulk[c] # NoBulk => BulkPatchOf(bulk[c])

TypeInv == MarksTypeOK /\ CopiesDated /\ BulksWhole

-----------------------------------------------------------------------------
\* What a caller holds, when it holds something.
LEMMA HeldFacts ==
    ASSUME TypeInv, NEW c \in Handlers
    PROVE  /\ copy[c] # NoCopy => /\ copy[c] \in Copies
                                  /\ copy[c].of \in Docs /\ copy[c].marks \in Marks
           /\ bulk[c] # NoBulk => /\ bulk[c] \in Bulks
                                  /\ bulk[c].patch \in Marks /\ bulk[c].todo \subseteq Docs
  BY DEF TypeInv, MarksTypeOK, Copies, Bulks

\* Patches are marks; a fresh one is whole once its call is on record.
LEMMA RestoredFacts == RestoredPatch \in Marks /\ RestoredPatch.at = 0 /\ Whole(RestoredPatch)
  BY DEF RestoredPatch, Marks, Whole

\* A fresh deletion is dated by its call.
LEMMA DeletedFacts ==
    ASSUME TypeInv, NEW by \in By, NEW n \in Nat, n = Len(issued) + 1,
           issued' = Append(issued, by)
    PROVE  /\ Len(issued) \in Nat /\ Len(issued') = n
           /\ \A i \in 1..Len(issued) : issued'[i] = issued[i]
           /\ DeletedPatch(n, by) \in Marks
           /\ DeletedPatch(n, by).deleted /\ DeletedPatch(n, by).at = n
           /\ Whole(DeletedPatch(n, by))'
  <1>1. issued \in Seq(By)
    BY DEF TypeInv, MarksTypeOK, By
  <1>2. /\ Len(issued) \in Nat /\ Len(issued') = n
        /\ \A i \in 1..Len(issued) : issued'[i] = issued[i]
        /\ issued'[n] = by
    BY <1>1
  <1> DEFINE p == DeletedPatch(n, by)
  <1>3. p \in Marks /\ p.deleted /\ p.at = n /\ p.by = by
    BY DEF DeletedPatch, Marks, By
  <1>4. Whole(p)'
    BY <1>2, <1>3 DEF Whole
  <1> QED  BY <1>2, <1>3, <1>4

\* Marks stay whole when another call is put on record.
LEMMA WholeKept ==
    ASSUME TypeInv, NEW m \in Marks, Whole(m),
           issued' = issued \/ \E by \in By : issued' = Append(issued, by)
    PROVE  Whole(m)'
  <1>1. CASE issued' = issued
    BY <1>1 DEF Whole
  <1>2. CASE \E by \in By : issued' = Append(issued, by)
    <2>1. PICK by \in By : issued' = Append(issued, by)
      BY <1>2
    <2>2. /\ Len(issued) \in Nat /\ Len(issued') = Len(issued) + 1
          /\ \A i \in 1..Len(issued) : issued'[i] = issued[i]
      BY <2>1, DeletedFacts DEF TypeInv, MarksTypeOK
    <2> QED  BY <2>2 DEF Whole
  <1> QED  BY <1>1, <1>2

\* save() writes marks, dated by the copy's patch or by what is stored; through
\* a copy that is up to date it writes the patch.
LEMMA SavedFacts ==
    ASSUME NEW stored \in Marks, NEW local \in Marks, NEW patch \in Marks
    PROVE  /\ Saved(stored, local, patch) \in Marks
           /\ Saved(stored, local, patch).at \in {stored.at, patch.at}
           /\ local = stored => Saved(stored, local, patch) = patch
           /\ patch.deleted # local.deleted => Saved(stored, local, patch).deleted = patch.deleted
           /\ patch.at # local.at => Saved(stored, local, patch).at = patch.at
  <1> DEFINE s == Saved(stored, local, patch)
  <1>1. /\ s \in Marks /\ s.at \in {stored.at, patch.at}
        /\ patch.deleted # local.deleted => s.deleted = patch.deleted
        /\ patch.at # local.at => s.at = patch.at
    BY DEF Saved, Marks
  <1>2. ASSUME local = stored  PROVE s = patch
    <2>1. s.deleted = patch.deleted /\ s.at = patch.at /\ s.by = patch.by
      BY <1>2 DEF Saved
    <2> QED  BY <2>1, <1>1 DEF Marks
  <1> QED  BY <1>1, <1>2

-----------------------------------------------------------------------------
\* What a save() does, whatever its patch, provided it is whole afterwards.
LEMMA SaveKeeps ==
    ASSUME TypeInv, MarksAgree, NEW c \in Handlers, NEW patch \in Marks,
           Save(c, patch), Whole(patch)', patch.at <= Len(issued'),
           issued' = issued \/ \E by \in By : issued' = Append(issued, by)
    PROVE  TypeInv' /\ MarksAgree'
  <1> DEFINE d == copy[c].of
             local == copy[c].marks
  <1>1. /\ bulk[c] = NoBulk /\ copy[c] # NoCopy
        /\ doc' = [doc EXCEPT ![d] = Saved(@, local, patch)]
        /\ stale' = IF local = doc[d] THEN stale \ {d} ELSE stale \cup {d}
        /\ copy' = [copy EXCEPT ![c].marks = patch]
        /\ bulk' = bulk
    BY DEF Save
  <1>2. d \in Docs /\ local \in Marks /\ copy[c] \in Copies
    BY <1>1, HeldFacts
  <1>3. doc \in [Docs -> Marks] /\ stale \subseteq Docs
    BY DEF TypeInv, MarksTypeOK
  <1>4. /\ issued \in Seq(By) /\ issued' \in Seq(By)
        /\ Len(issued) \in Nat /\ Len(issued') \in Nat /\ Len(issued) <= Len(issued')
    <2>1. issued \in Seq(By)
      BY DEF TypeInv, MarksTypeOK, By
    <2> QED  BY <2>1
  <1> DEFINE s == Saved(doc[d], local, patch)
  <1>5. /\ s \in Marks /\ s.at \in {doc[d].at, patch.at}
        /\ local = doc[d] => s = patch
    BY <1>2, <1>3, SavedFacts
  <1>6. doc' = [doc EXCEPT ![d] = s]
    BY <1>1
  <1> HIDE DEF s, local, d
  <1>7. doc' \in [Docs -> Marks] /\ stale' \subseteq Docs
    BY <1>1, <1>2, <1>3, <1>5, <1>6
  <1>8. ASSUME NEW e \in Docs  PROVE doc'[e].at <= Len(issued')
    <2>1. doc[e].at \in Nat /\ doc[e].at <= Len(issued) /\ doc[d].at <= Len(issued)
          /\ doc[d].at \in Nat /\ patch.at \in Nat
      BY <1>2, <1>3 DEF TypeInv, MarksTypeOK, Marks
    <2>2. doc'[e] = doc[e] \/ doc'[e] = s
      BY <1>6, <1>3, <1>2
    <2> QED  BY <2>1, <2>2, <1>4, <1>5
  <1>9. /\ copy' \in [Handlers -> Copies \cup {NoCopy}]
        /\ copy'[c] # NoCopy /\ copy'[c].marks = patch
        /\ \A b \in Handlers \ {c} : copy'[b] = copy[b]
    <2>1. [copy[c] EXCEPT !.marks = patch] \in Copies
      BY <1>2 DEF Copies
    <2>2. copy \in [Handlers -> Copies \cup {NoCopy}]
      BY DEF TypeInv, MarksTypeOK
    <2>3. copy' = [copy EXCEPT ![c] = [copy[c] EXCEPT !.marks = patch]]
      BY <1>1
    <2>4. [copy[c] EXCEPT !.marks = patch].marks = patch
      BY <1>2 DEF Copies
    <2> QED  BY <2>1, <2>2, <2>3, <2>4, SoftDeleteAssumption
  <1>10. CopiesDated'
    <2> SUFFICES ASSUME NEW b \in Handlers, copy'[b] # NoCopy
                 PROVE  copy'[b].marks.at <= Len(issued')
      BY DEF CopiesDated
    <2>1. CASE b = c
      BY <2>1, <1>9
    <2>2. CASE b # c
      <3>1. copy[b] # NoCopy /\ copy'[b] = copy[b] /\ copy[b].marks.at <= Len(issued)
        BY <2>2, <1>9 DEF TypeInv, CopiesDated
      <3>2. copy[b].marks.at \in Nat
        BY <3>1, HeldFacts DEF Marks
      <3> QED  BY <3>1, <3>2, <1>4
    <2> QED  BY <2>1, <2>2
  <1>11. BulksWhole'
    <2> SUFFICES ASSUME NEW b \in Handlers, bulk[b] # NoBulk  PROVE BulkPatchOf(bulk[b])'
      BY <1>1 DEF BulksWhole
    <2>1. Whole(bulk[b].patch) /\ (bulk[b].withDeleted => ~bulk[b].patch.deleted)
          /\ bulk[b].patch \in Marks
      BY HeldFacts DEF TypeInv, BulksWhole, BulkPatchOf
    <2>2. Whole(bulk[b].patch)'
      BY <2>1, <1>1, WholeKept
    <2> QED  BY <2>1, <2>2, <1>1 DEF BulkPatchOf
  <1>12. MarksAgree'
    <2> SUFFICES ASSUME NEW e \in Docs, e \notin stale'  PROVE Whole(doc[e])'
      BY DEF MarksAgree
    <2>1. CASE e = d
      <3>1. local = doc[d]
        BY <2>1, <1>1
      <3>2. doc'[e] = patch
        BY <3>1, <2>1, <1>2, <1>3, <1>5, <1>6
      <3> QED  BY <3>2 DEF Whole
    <2>2. CASE e # d
      <3>1. e \notin stale /\ doc'[e] = doc[e] /\ doc[e] \in Marks
        BY <2>2, <1>1, <1>3, <1>6
      <3>2. Whole(doc[e])
        BY <3>1 DEF MarksAgree
      <3> DEFINE m == doc[e]
      <3> HIDE DEF m
      <3>3. m \in Marks /\ Whole(m) /\ doc'[e] = m
        BY <3>1, <3>2 DEF m
      <3>4. Whole(m)'
        <4>1. \A n \in Marks : Whole(n) => (IF n.deleted THEN n.at \in 1..Len(issued') /\ n.by = issued'[n.at]
                                                         ELSE n = RestoredPatch)
          BY WholeKept DEF Whole
        <4> QED  BY <4>1, <3>1, <3>2 DEF Whole, m
      <3> QED  BY <3>1, <3>4 DEF Whole, m
    <2> QED  BY <2>1, <2>2
  <1>13. MarksTypeOK'
    BY <1>1, <1>4, <1>7, <1>8, <1>9 DEF MarksTypeOK, TypeInv, By
  <1> QED  BY <1>10, <1>11, <1>12, <1>13 DEF TypeInv

-----------------------------------------------------------------------------
\* A find leaves the documents alone and dates no copy ahead.
LEMMA LoadKeeps ==
    ASSUME TypeInv, MarksAgree, NEW c \in Handlers, NEW d \in Docs,
           NEW withDeleted \in BOOLEAN, NEW target \in Targets,
           Load(c, d, withDeleted, target)
    PROVE  TypeInv' /\ MarksAgree'
  <1>1. /\ copy' = [copy EXCEPT ![c] = [of |-> d, marks |-> doc[d]]]
        /\ doc' = doc /\ bulk' = bulk /\ issued' = issued /\ stale' = stale
    BY DEF Load
  <1>2. /\ doc[d] \in Marks /\ doc[d].at <= Len(issued)
        /\ copy \in [Handlers -> Copies \cup {NoCopy}]
    BY DEF TypeInv, MarksTypeOK
  <1>3. copy' \in [Handlers -> Copies \cup {NoCopy}]
    BY <1>1, <1>2 DEF Copies
  <1>4. CopiesDated'
    BY <1>1, <1>2 DEF CopiesDated, TypeInv
  <1>5. BulksWhole' /\ MarksAgree'
    BY <1>1 DEF TypeInv, BulksWhole, BulkPatchOf, Whole, MarksAgree
  <1> QED  BY <1>1, <1>3, <1>4, <1>5 DEF TypeInv, MarksTypeOK

\* softDelete() and restore() save a patch that is whole.
LEMMA InstanceKeeps ==
    ASSUME TypeInv, MarksAgree, NEW c \in Handlers, Instance(c)
    PROVE  TypeInv' /\ MarksAgree'
  <1>1. CASE Restore(c)
    <2>1. Save(c, RestoredPatch) /\ issued' = issued
      BY <1>1 DEF Restore
    <2>2. Whole(RestoredPatch)'
      BY DEF Whole, RestoredPatch
    <2>3. RestoredPatch.at <= Len(issued')
      BY <2>1, RestoredFacts DEF TypeInv, MarksTypeOK
    <2> QED  BY <2>1, <2>2, <2>3, RestoredFacts, SaveKeeps
  <1>2. ASSUME NEW by \in By, SoftDelete(c, by)  PROVE TypeInv' /\ MarksAgree'
    <2>1. Len(issued) \in Nat
      BY DEF TypeInv, MarksTypeOK
    <2>2. PICK n \in Nat : n = Len(issued) + 1
      BY <2>1
    <2>3. issued' = Append(issued, by) /\ Save(c, DeletedPatch(n, by))
      BY <1>2, <2>2 DEF SoftDelete, Stamped
    <2>4. /\ DeletedPatch(n, by) \in Marks /\ DeletedPatch(n, by).at <= Len(issued')
          /\ Whole(DeletedPatch(n, by))'
      BY <2>2, <2>3, DeletedFacts
    <2> QED  BY <2>3, <2>4, SaveKeeps
  <1> QED  BY <1>1, <1>2 DEF Instance, By

\* A bulk begins with a patch that is whole, and nothing else changes.
LEMMA UpdateKeeps ==
    ASSUME TypeInv, MarksAgree, NEW c \in Handlers, NEW patch \in Marks,
           NEW withDeleted \in BOOLEAN, NEW target \in Targets, NEW matched \in SUBSET Docs,
           UpdateMany(c, patch, withDeleted, target, matched), Whole(patch)',
           withDeleted => ~patch.deleted,
           issued' = issued \/ \E by \in By : issued' = Append(issued, by)
    PROVE  TypeInv' /\ MarksAgree'
  <1> DEFINE new == [patch |-> patch, withDeleted |-> withDeleted,
                     target |-> target, todo |-> matched]
  <1>1. /\ bulk' = [bulk EXCEPT ![c] = new]
        /\ doc' = doc /\ copy' = copy /\ stale' = stale
    BY DEF UpdateMany
  <1>2. issued \in Seq(By) /\ issued' \in Seq(By) /\ Len(issued) <= Len(issued')
        /\ Len(issued) \in Nat /\ Len(issued') \in Nat
    <2>1. issued \in Seq(By)
      BY DEF TypeInv, MarksTypeOK, By
    <2> QED  BY <2>1
  <1>3. bulk \in [Handlers -> Bulks \cup {NoBulk}] /\ new \in Bulks
    BY DEF TypeInv, MarksTypeOK, Bulks
  <1>4. bulk' \in [Handlers -> Bulks \cup {NoBulk}] /\ bulk'[c] = new
        /\ \A b \in Handlers \ {c} : bulk'[b] = bulk[b]
    BY <1>1, <1>3
  <1>5. \A d \in Docs : doc[d] \in Marks /\ doc[d].at \in Nat /\ doc[d].at <= Len(issued)
    BY DEF TypeInv, MarksTypeOK, Marks
  <1>6. MarksTypeOK'
    <2>1. \A d \in Docs : doc'[d].at <= Len(issued')
      BY <1>1, <1>2, <1>5
    <2> QED  BY <1>1, <1>2, <1>4, <2>1 DEF TypeInv, MarksTypeOK, By
  <1>7. CopiesDated'
    <2> SUFFICES ASSUME NEW b \in Handlers, copy[b] # NoCopy
                 PROVE  copy[b].marks.at <= Len(issued')
      BY <1>1 DEF CopiesDated
    <2>1. copy[b].marks.at <= Len(issued) /\ copy[b].marks.at \in Nat
      BY HeldFacts DEF TypeInv, CopiesDated, Marks
    <2> QED  BY <2>1, <1>2
  <1>8. BulksWhole'
    <2> SUFFICES ASSUME NEW b \in Handlers, bulk'[b] # NoBulk  PROVE BulkPatchOf(bulk[b])'
      BY DEF BulksWhole
    <2>1. CASE b = c
      BY <2>1, <1>4 DEF BulkPatchOf, Whole
    <2>2. CASE b # c
      <3>1. bulk'[b] = bulk[b] /\ bulk[b] # NoBulk
        BY <2>2, <1>4
      <3>2. Whole(bulk[b].patch) /\ (bulk[b].withDeleted => ~bulk[b].patch.deleted)
            /\ bulk[b].patch \in Marks
        BY <3>1, HeldFacts DEF TypeInv, BulksWhole, BulkPatchOf
      <3>3. \A m \in Marks : Whole(m) =>
               (IF m.deleted THEN m.at \in 1..Len(issued') /\ m.by = issued'[m.at]
                             ELSE m = RestoredPatch)
        BY WholeKept DEF Whole
      <3> QED  BY <3>1, <3>2, <3>3 DEF BulkPatchOf, Whole
    <2> QED  BY <2>1, <2>2
  <1>9. MarksAgree'
    <2>1. \A m \in Marks : Whole(m) =>
             (IF m.deleted THEN m.at \in 1..Len(issued') /\ m.by = issued'[m.at]
                           ELSE m = RestoredPatch)
      BY WholeKept DEF Whole
    <2> QED  BY <2>1, <1>1, <1>5 DEF MarksAgree, Whole
  <1> QED  BY <1>6, <1>7, <1>8, <1>9 DEF TypeInv

\* The document a bulk comes to keeps its marks or gets the bulk's patch, whole.
LEMMA BulkWriteKeeps ==
    ASSUME TypeInv, MarksAgree, NEW c \in Handlers, NEW d \in Docs, BulkWrite(c, d)
    PROVE  TypeInv' /\ MarksAgree'
  <1> DEFINE b == bulk[c]
             new == [b EXCEPT !.todo = @ \ {d}]
  <1>1. /\ b # NoBulk
        /\ bulk' = [bulk EXCEPT ![c] = new]
        /\ \/ doc' = [doc EXCEPT ![d] = b.patch] /\ stale' = stale \ {d}
           \/ doc' = doc /\ stale' = stale
        /\ copy' = copy /\ issued' = issued
    BY DEF BulkWrite
  <1>2. b \in Bulks /\ b.patch \in Marks /\ Whole(b.patch) /\ (b.withDeleted => ~b.patch.deleted)
    BY <1>1, HeldFacts DEF TypeInv, BulksWhole, BulkPatchOf
  <1>3. new \in Bulks /\ new.patch = b.patch /\ new.withDeleted = b.withDeleted
    BY <1>2 DEF Bulks
  <1>4. b.patch.at \in Nat /\ b.patch.at <= Len(issued)
    BY <1>2 DEF Whole, Marks, RestoredPatch, TypeInv, MarksTypeOK
  <1>5. doc' \in [Docs -> Marks] /\ \A e \in Docs : doc'[e] \in {doc[e], b.patch}
    BY <1>1, <1>2 DEF TypeInv, MarksTypeOK
  <1>6. MarksTypeOK'
    <2>1. bulk' \in [Handlers -> Bulks \cup {NoBulk}] /\ stale' \subseteq Docs
      BY <1>1, <1>3 DEF TypeInv, MarksTypeOK
    <2>2. \A e \in Docs : doc'[e].at <= Len(issued')
      BY <1>1, <1>4, <1>5 DEF TypeInv, MarksTypeOK
    <2> QED  BY <1>1, <1>5, <2>1, <2>2 DEF TypeInv, MarksTypeOK
  <1>7. CopiesDated'
    BY <1>1 DEF TypeInv, CopiesDated
  <1>8. BulksWhole'
    <2>1. \A a \in Handlers : bulk'[a] = bulk[a] \/ bulk'[a] = new
      BY <1>1 DEF TypeInv, MarksTypeOK
    <2> HIDE DEF new
    <2> QED  BY <2>1, <1>1, <1>2, <1>3 DEF TypeInv, BulksWhole, BulkPatchOf, Whole
  <1>9. MarksAgree'
    <2>1. \A e \in Docs : doc'[e] = b.patch \/ (doc'[e] = doc[e] /\ (e \in stale => e \in stale'))
      BY <1>1 DEF TypeInv, MarksTypeOK
    <2> HIDE DEF b
    <2> QED  BY <2>1, <1>1, <1>2 DEF MarksAgree, Whole
  <1> QED  BY <1>6, <1>7, <1>8, <1>9 DEF TypeInv

\* A bulk that ends leaves what it has written.
LEMMA BulkEndsKeeps ==
    ASSUME TypeInv, MarksAgree, NEW c \in Handlers, BulkEnds(c)
    PROVE  TypeInv' /\ MarksAgree'
  <1>1. /\ bulk' = [bulk EXCEPT ![c] = NoBulk]
        /\ doc' = doc /\ copy' = copy /\ issued' = issued /\ stale' = stale
    BY DEF BulkEnds
  <1>2. bulk' \in [Handlers -> Bulks \cup {NoBulk}]
        /\ \A b \in Handlers : bulk'[b] = bulk[b] \/ bulk'[b] = NoBulk
    BY <1>1 DEF TypeInv, MarksTypeOK
  <1>3. BulksWhole'
    BY <1>1, <1>2 DEF TypeInv, BulksWhole, BulkPatchOf, Whole
  <1> QED  BY <1>1, <1>2, <1>3 DEF TypeInv, MarksTypeOK, CopiesDated, MarksAgree, Whole

-----------------------------------------------------------------------------
\* The invariant: types, whole patches on the way, and whole marks where no
\* outdated copy was saved last.
IInv == TypeInv /\ MarksAgree

\* At first every document is live, and nothing is on the way.
LEMMA InitIInv == MarksInit => IInv
  <1> SUFFICES ASSUME MarksInit  PROVE IInv
    OBVIOUS
  <1>1. Len(issued) = 0 /\ issued \in Seq(Actors \cup {NoActor})
    BY DEF MarksInit
  <1>2. MarksTypeOK
    BY <1>1, RestoredFacts DEF MarksTypeOK, MarksInit
  <1>3. CopiesDated /\ BulksWhole
    BY DEF MarksInit, CopiesDated, BulksWhole
  <1>4. MarksAgree
    BY RestoredFacts DEF MarksInit, MarksAgree
  <1> QED  BY <1>2, <1>3, <1>4 DEF IInv, TypeInv

\* Every step keeps the invariant.
LEMMA NextIInv == IInv /\ [MarksNext]_marksVars => IInv'
  <1> SUFFICES ASSUME TypeInv, MarksAgree, [MarksNext]_marksVars  PROVE TypeInv' /\ MarksAgree'
    BY DEF IInv
  <1>1. ASSUME NEW c \in Handlers, NEW d \in Docs, NEW withDeleted \in BOOLEAN,
               NEW target \in Targets, Load(c, d, withDeleted, target)
        PROVE  TypeInv' /\ MarksAgree'
    BY <1>1, LoadKeeps
  <1>2. ASSUME NEW c \in Handlers, Instance(c)  PROVE TypeInv' /\ MarksAgree'
    BY <1>2, InstanceKeeps
  <1>3. ASSUME NEW c \in Handlers, NEW matched \in SUBSET Docs, NEW target \in Targets,
               BulkRestore(c, target, matched)
        PROVE  TypeInv' /\ MarksAgree'
    <2>1. UpdateMany(c, RestoredPatch, TRUE, target, matched) /\ issued' = issued
      BY <1>3 DEF BulkRestore
    <2>2. Whole(RestoredPatch)' /\ ~RestoredPatch.deleted
      BY DEF Whole, RestoredPatch
    <2> QED  BY <2>1, <2>2, RestoredFacts, UpdateKeeps
  <1>4. ASSUME NEW c \in Handlers, NEW matched \in SUBSET Docs, NEW target \in Targets,
               NEW by \in By, BulkSoftDelete(c, by, target, matched)
        PROVE  TypeInv' /\ MarksAgree'
    <2>1. PICK n \in Nat : n = Len(issued) + 1
      BY DEF TypeInv, MarksTypeOK
    <2>2. issued' = Append(issued, by)
          /\ UpdateMany(c, DeletedPatch(n, by), FALSE, target, matched)
      BY <1>4, <2>1 DEF BulkSoftDelete, Stamped
    <2>3. DeletedPatch(n, by) \in Marks /\ Whole(DeletedPatch(n, by))'
      BY <2>1, <2>2, DeletedFacts
    <2> QED  BY <2>2, <2>3, UpdateKeeps
  <1>5. ASSUME NEW c \in Handlers, NEW d \in Docs, BulkWrite(c, d)
        PROVE  TypeInv' /\ MarksAgree'
    BY <1>5, BulkWriteKeeps
  <1>6. ASSUME NEW c \in Handlers, BulkEnds(c)  PROVE TypeInv' /\ MarksAgree'
    BY <1>6, BulkEndsKeeps
  <1>7. CASE UNCHANGED marksVars
    BY <1>7 DEF marksVars, TypeInv, MarksTypeOK, CopiesDated, BulksWhole, BulkPatchOf, MarksAgree, Whole
  <1> QED  BY <1>1, <1>2, <1>3, <1>4, <1>5, <1>6, <1>7 DEF MarksNext, By

\* The invariant holds throughout.
LEMMA Invariant == MarksSpec => []IInv
  BY InitIInv, NextIInv, PTL DEF MarksSpec

\* Every variable has its type, and no date is of a call not yet made.
THEOREM SoftDeleteTypeCorrect == MarksSpec => []MarksTypeOK
  <1>1. IInv => MarksTypeOK
    BY DEF IInv, TypeInv
  <1> QED  BY <1>1, Invariant, PTL

\* Whatever callers and bulks do to a document, its marks are those of one
\* operation unless it was last saved through an outdated copy.
THEOREM MarksTogether == MarksSpec => []MarksAgree
  <1>1. IInv => MarksAgree
    BY DEF IInv
  <1> QED  BY <1>1, Invariant, PTL

-----------------------------------------------------------------------------
\* A save that flips is_deleted on the copy flips it on the document, and a
\* deletion dates it.
LEMMA SaveFlips ==
    ASSUME TypeInv, NEW c \in Handlers, NEW patch \in Marks, Save(c, patch)
    PROVE  /\ patch.deleted # copy[c].marks.deleted
                 => doc'[copy[c].of].deleted = patch.deleted
           /\ patch.at # copy[c].marks.at => doc'[copy[c].of].at = patch.at
  <1>1. copy[c] # NoCopy /\ copy[c].of \in Docs /\ copy[c].marks \in Marks
    BY HeldFacts DEF Save
  <1>2. doc[copy[c].of] \in Marks
        /\ doc'[copy[c].of] = Saved(doc[copy[c].of], copy[c].marks, patch)
    BY <1>1 DEF Save, TypeInv, MarksTypeOK
  <1> QED  BY <1>1, <1>2, SavedFacts

\* A softDelete() of a copy that looks live deletes the document under its own
\* date, a restore() of one that looks deleted brings it back: no write of
\* others between the load and the save prevents it.
THEOREM FlipsWin == MarksSpec => FlipsTakeEffect
  <1>1. IInv /\ [MarksNext]_marksVars => [FlipStep]_marksVars
    <2> SUFFICES ASSUME TypeInv, NEW c \in Handlers, copy[c] # NoCopy
                 PROVE  /\ \A by \in By : ~copy[c].marks.deleted /\ SoftDelete(c, by)
                              => doc'[copy[c].of].deleted /\ doc'[copy[c].of].at = Len(issued')
                        /\ copy[c].marks.deleted /\ Restore(c) => ~doc'[copy[c].of].deleted
      BY DEF FlipStep, IInv, By
    <2>1. ASSUME NEW by \in By, ~copy[c].marks.deleted, SoftDelete(c, by)
          PROVE  doc'[copy[c].of].deleted /\ doc'[copy[c].of].at = Len(issued')
      <3>1. PICK n \in Nat : n = Len(issued) + 1
        BY DEF TypeInv, MarksTypeOK
      <3>2. issued' = Append(issued, by) /\ Save(c, DeletedPatch(n, by))
        BY <2>1, <3>1 DEF SoftDelete, Stamped
      <3> DEFINE p == DeletedPatch(n, by)
      <3>3. p \in Marks /\ p.deleted /\ p.at = n /\ Len(issued') = n /\ Len(issued) \in Nat
        BY <3>1, <3>2, DeletedFacts
      <3>4. copy[c].marks.at <= Len(issued) /\ copy[c].marks.at \in Nat
        BY HeldFacts DEF TypeInv, CopiesDated, Marks
      <3>5. p.deleted # copy[c].marks.deleted /\ p.at # copy[c].marks.at
        BY <2>1, <3>1, <3>3, <3>4
      <3> QED  BY <3>2, <3>3, <3>5, SaveFlips
    <2>2. ASSUME copy[c].marks.deleted, Restore(c)  PROVE ~doc'[copy[c].of].deleted
      <3>1. Save(c, RestoredPatch) /\ RestoredPatch.deleted = FALSE
        BY <2>2 DEF Restore, RestoredPatch
      <3> QED  BY <2>2, <3>1, RestoredFacts, SaveFlips
    <2> QED  BY <2>1, <2>2
  <1> QED  BY <1>1, Invariant, PTL DEF MarksSpec, FlipsTakeEffect

\* The record of a deletion is overwritten only through a copy of the document
\* or by a bulk that asks for deleted documents.
THEOREM RecordKept == MarksSpec => DeletionRecordKept
  <1>1. IInv /\ [MarksNext]_marksVars => [RecordStep]_marksVars
    <2> SUFFICES ASSUME TypeInv, MarksNext, NEW d \in Docs,
                        doc[d].deleted, doc'[d].deleted, doc'[d] # doc[d]
                 PROVE  \E c \in Handlers :
                           \/ copy[c] # NoCopy /\ copy[c].of = d /\ Instance(c)
                           \/ bulk[c] # NoBulk /\ bulk[c].target = "deleted" /\ BulkWrite(c, d)
      BY DEF RecordStep, IInv
    <2>1. ASSUME NEW c \in Handlers, Instance(c)  PROVE copy[c] # NoCopy /\ copy[c].of = d
      <3>1. PICK patch : Save(c, patch)
        BY <2>1 DEF Instance, Restore, SoftDelete
      <3> QED  BY <3>1 DEF Save, TypeInv, MarksTypeOK
    <2>2. ASSUME NEW c \in Handlers, NEW e \in Docs, BulkWrite(c, e)
          PROVE  e = d /\ bulk[c] # NoBulk /\ bulk[c].target = "deleted"
      <3>1. /\ bulk[c] # NoBulk
            /\ Selected(bulk[c].withDeleted, bulk[c].target, doc[e])
            /\ doc' = [doc EXCEPT ![e] = bulk[c].patch]
        BY <2>2 DEF BulkWrite
      <3>2. e = d /\ doc'[d] = bulk[c].patch
        BY <3>1 DEF TypeInv, MarksTypeOK
      <3>3. ~bulk[c].withDeleted /\ bulk[c].target \in Targets
        BY <3>1, <3>2, HeldFacts DEF TypeInv, BulksWhole, BulkPatchOf, Bulks
      <3> QED  BY <3>1, <3>2, <3>3 DEF Selected, Targets
    <2>3. ASSUME NEW c \in Handlers
          PROVE  /\ \A e \in Docs, w \in BOOLEAN, t \in Targets : ~Load(c, e, w, t)
                 /\ \A m \in SUBSET Docs, t \in Targets : ~BulkRestore(c, t, m)
                 /\ \A m \in SUBSET Docs, t \in Targets, by \in By : ~BulkSoftDelete(c, by, t, m)
                 /\ ~BulkEnds(c)
      BY DEF Load, BulkRestore, BulkSoftDelete, UpdateMany, BulkEnds
    <2> QED  BY <2>1, <2>2, <2>3 DEF MarksNext, By
  <1> QED  BY <1>1, Invariant, PTL DEF MarksSpec, DeletionRecordKept
=============================================================================
