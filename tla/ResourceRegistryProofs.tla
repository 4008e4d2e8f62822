------------------------ MODULE ResourceRegistryProofs ------------------------
(***************************************************************************)
(* Theorems about the resource registry, for every set of RAIs, releases,  *)
(* processes and operators.                                                *)
(***************************************************************************)
EXTENDS ResourceRegistry, TLAPS

\* What an operator holds is in the collection: nothing deletes for good.
HeldRegistered ==
    \A o \in Operators : held[o] # NoHold => Registered(held[o].rai)

TypeInv == TypeOK /\ HeldRegistered

-----------------------------------------------------------------------------
\* An upsert gives a document that mirrors the route; on an existing document
\* it keeps the flags (the $set of config.module.ts).
LEMMA UpsertedFacts ==
    ASSUME NEW doc \in Document \cup {NoDoc}, NEW route \in Route
    PROVE  /\ Upserted(doc, route) \in Document
           /\ Upserted(doc, route).endpoint = route.endpoint
           /\ Upserted(doc, route).is_root = route.root
           /\ doc # NoDoc => /\ Upserted(doc, route).is_enabled = doc.is_enabled
                             /\ Upserted(doc, route).is_deleted = doc.is_deleted
  BY NoDocAssumption DEF Upserted, Document, Route

\* A save of any copy leaves the mirrored fields of the stored document, and
\* the flag it was not about.
LEMMA SavedFacts ==
    ASSUME NEW stored \in Document, NEW local \in Document, NEW value \in BOOLEAN
    PROVE  /\ SavedEnabled(stored, local, value) \in Document
           /\ SavedEnabled(stored, local, value).endpoint = stored.endpoint
           /\ SavedEnabled(stored, local, value).is_root = stored.is_root
           /\ SavedDeleted(stored, local, value) \in Document
           /\ SavedDeleted(stored, local, value).endpoint = stored.endpoint
           /\ SavedDeleted(stored, local, value).is_root = stored.is_root
           /\ SavedDeleted(stored, local, value).is_enabled = stored.is_enabled
  BY DEF SavedEnabled, SavedDeleted, Document

\* A route of a table is a Route, and the next operation of a bulk that is
\* not done is in range.
LEMMA NextOpFacts ==
    ASSUME TypeOK, NEW i \in Instances, ~BulkDone(i)
    PROVE  /\ proc[i].cursor + 1 \in DOMAIN Table[proc[i].release]
           /\ NextOp(i) \in Route
           /\ NextOp(i).rai \in Rais
           /\ NextOp(i).endpoint \in Endpoints
  <1>1. /\ proc[i].cursor \in Nat /\ proc[i].release \in Releases
        /\ proc[i].cursor <= Len(Table[proc[i].release])
    BY DEF TypeOK, ProcState
  <1>2. Table[proc[i].release] \in Seq(Route)
    BY <1>1, TableAssumption
  <1>3. proc[i].cursor + 1 \in 1..Len(Table[proc[i].release])
    BY <1>1, <1>2 DEF BulkDone
  <1>4. NextOp(i) \in Route
    BY <1>2, <1>3 DEF NextOp
  <1> QED  BY <1>2, <1>3, <1>4 DEF Route

\* The process records the actions build.
LEMMA DownFacts ==
    ASSUME NEW rel \in Releases
    PROVE  /\ Down(rel) \in ProcState
           /\ Down(rel).release = rel
           /\ Down(rel).cursor = 0
           /\ Down(rel).outcome = "none"
           /\ Down(rel).phase = "down"
  BY DEF Down, ProcState, Outcomes

\* A process that has connected is in initModules, at the bulk's start.
LEMMA BootedFacts ==
    ASSUME NEW rel \in Releases
    PROVE  /\ Booted(rel) \in ProcState
           /\ Booted(rel).release = rel
           /\ Booted(rel).cursor = 0
           /\ Booted(rel).outcome = "none"
  BY DEF Booted, Down, ProcState, Outcomes

\* Moving the bulk's cursor keeps the rest of the process record.
LEMMA AheadFacts ==
    ASSUME NEW p \in ProcState
    PROVE  /\ Ahead(p) \in ProcState
           /\ Ahead(p).release = p.release
           /\ Ahead(p).cursor = p.cursor + 1
           /\ Ahead(p).outcome = p.outcome
           /\ Ahead(p).phase = p.phase
  BY DEF Ahead, ProcState

\* A process that leaves initModules serves, with its outcome recorded.
LEMMA ServingFacts ==
    ASSUME NEW p \in ProcState, NEW outcome \in Outcomes
    PROVE  /\ Serving(p, outcome) \in ProcState
           /\ Serving(p, outcome).release = p.release
           /\ Serving(p, outcome).cursor = p.cursor
           /\ Serving(p, outcome).outcome = outcome
           /\ Serving(p, outcome).phase = "serving"
  BY DEF Serving, ProcState

-----------------------------------------------------------------------------
\* Nothing is registered, running or held at the start.
LEMMA InitTypeInv == Init => TypeInv
  <1> SUFFICES ASSUME Init PROVE TypeInv
    OBVIOUS
  <1>1. \A rel \in Releases : Len(Table[rel]) \in Nat
    BY TableAssumption
  <1>2. TypeOK
    <2>1. resources \in [Rais -> Document \cup {NoDoc}]
      BY DEF Init
    <2>2. held \in [Operators -> [rai : Rais, doc : Document] \cup {NoHold}]
      BY DEF Init
    <2>3. /\ proc \in [Instances -> ProcState]
          /\ \A i \in Instances : proc[i].cursor <= Len(Table[proc[i].release])
      BY <1>1, DownFacts DEF Init
    <2> QED  BY <2>1, <2>2, <2>3 DEF Init, TypeOK
  <1>3. HeldRegistered
    BY DEF Init, HeldRegistered
  <1> QED  BY <1>2, <1>3 DEF TypeInv

\* Every step keeps the types, the cursor in its bulk, and the documents held
\* by operators registered.
LEMMA NextTypeInv == TypeInv /\ [RegistryNext]_vars => TypeInv'
  <1> SUFFICES ASSUME TypeInv, [RegistryNext]_vars PROVE TypeInv'
    OBVIOUS
  <1> USE DEF TypeInv
  <1>len. \A rel \in Releases : Len(Table[rel]) \in Nat
    BY TableAssumption
  <1>1. CASE Deploy
    BY <1>1 DEF Deploy, TypeOK, HeldRegistered, Registered
  <1>2. ASSUME NEW i \in Instances, Process(i) PROVE TypeInv'
    <2>1. CASE Boot(i)
      <3>1. /\ proc' \in [Instances -> ProcState]
            /\ \A j \in Instances : proc'[j].cursor <= Len(Table[proc'[j].release])
        BY <2>1, <1>len, BootedFacts DEF Boot, TypeOK
      <3> QED  BY <2>1, <3>1 DEF Boot, TypeOK, HeldRegistered, Registered
    <2>2. CASE AutoIndex(i)
      BY <2>2 DEF AutoIndex, TypeOK, HeldRegistered, Registered, ProcState, Duplicates
    <2>3. CASE SkipSync(i)
      BY <2>3 DEF SkipSync, TypeOK, HeldRegistered, Registered, ProcState, Serving, Outcomes
    <2>4. CASE SyncOp(i)
      <3>1. /\ NextOp(i) \in Route /\ NextOp(i).rai \in Rais
            /\ proc[i].cursor + 1 \in DOMAIN Table[proc[i].release]
        BY <2>4, NextOpFacts DEF SyncOp
      <3>2. Table[proc[i].release] \in Seq(Route)
        BY TableAssumption DEF TypeOK, ProcState
      <3>3. proc[i].cursor + 1 <= Len(Table[proc[i].release])
        BY <3>1, <3>2
      <3>4. Upserted(resources[NextOp(i).rai], NextOp(i)) \in Document
        BY <3>1, UpsertedFacts DEF TypeOK
      <3>5. resources' \in [Rais -> Document \cup {NoDoc}]
        BY <2>4, <3>1, <3>4 DEF SyncOp, TypeOK
      <3>6. /\ proc' \in [Instances -> ProcState]
            /\ \A j \in Instances : proc'[j].cursor <= Len(Table[proc'[j].release])
        BY <2>4, <3>3, AheadFacts DEF SyncOp, TypeOK
      <3>7. HeldRegistered'
        BY <2>4, <3>1, <3>4, NoDocAssumption
           DEF SyncOp, TypeOK, HeldRegistered, Registered
      <3>8. crossed' \in [Instances -> SUBSET Releases]
        BY <2>4 DEF SyncOp, CrossedBy, TypeOK, ProcState
      <3> QED  BY <2>4, <3>5, <3>6, <3>7, <3>8 DEF SyncOp, TypeOK
    <2>5. CASE SyncConflict(i)
      BY <2>5 DEF SyncConflict, TypeOK, HeldRegistered, Registered, ProcState, Serving, Outcomes
    <2>6. CASE SyncDone(i)
      BY <2>6 DEF SyncDone, TypeOK, HeldRegistered, Registered, ProcState, Serving, Outcomes
    <2>7. CASE SyncLost(i)
      BY <2>7 DEF SyncLost, TypeOK, HeldRegistered, Registered, ProcState, Serving, Outcomes
    <2>8. CASE Stop(i)
      BY <2>8, <1>len DEF Stop, TypeOK, HeldRegistered, Registered, ProcState, Down, Outcomes
    <2> QED
      BY <1>2, <2>1, <2>2, <2>3, <2>4, <2>5, <2>6, <2>7, <2>8 DEF Process, InitModules
  <1>3. ASSUME NEW o \in Operators, Operator(o) PROVE TypeInv'
    <2>1. ASSUME NEW r \in Rais, NEW withDeleted \in BOOLEAN, Load(o, r, withDeleted)
          PROVE  TypeInv'
      BY <2>1 DEF Load, TypeOK, HeldRegistered, Registered
    <2>2. ASSUME NEW value \in BOOLEAN, SetEnabled(o, value) PROVE TypeInv'
      <3>1. /\ held[o] \in [rai : Rais, doc : Document]
            /\ held[o] # NoHold
            /\ resources[held[o].rai] \in Document
        BY <2>2 DEF SetEnabled, TypeOK, HeldRegistered, Registered
      <3>2. SavedEnabled(resources[held[o].rai], held[o].doc, value) \in Document
        BY <3>1, SavedFacts
      <3>3. [held[o] EXCEPT !.doc.is_enabled = value] \in [rai : Rais, doc : Document]
        BY <3>1 DEF Document
      <3>4. TypeOK'
        BY <2>2, <3>1, <3>2, <3>3 DEF SetEnabled, TypeOK
      <3>5. HeldRegistered'
        BY <2>2, <3>1, <3>2, NoDocAssumption DEF SetEnabled, HeldRegistered, Registered, TypeOK
      <3> QED  BY <3>4, <3>5
    <2>3. ASSUME NEW value \in BOOLEAN, SetDeleted(o, value) PROVE TypeInv'
      <3>1. /\ held[o] \in [rai : Rais, doc : Document]
            /\ held[o] # NoHold
            /\ resources[held[o].rai] \in Document
        BY <2>3 DEF SetDeleted, TypeOK, HeldRegistered, Registered
      <3>2. SavedDeleted(resources[held[o].rai], held[o].doc, value) \in Document
        BY <3>1, SavedFacts
      <3>3. [held[o] EXCEPT !.doc.is_deleted = value] \in [rai : Rais, doc : Document]
        BY <3>1 DEF Document
      <3>4. TypeOK'
        BY <2>3, <3>1, <3>2, <3>3 DEF SetDeleted, TypeOK
      <3>5. HeldRegistered'
        BY <2>3, <3>1, <3>2, NoDocAssumption DEF SetDeleted, HeldRegistered, Registered, TypeOK
      <3> QED  BY <3>4, <3>5
    <2> QED
      BY <1>3, <2>1, <2>2, <2>3 DEF Operator, Enable, Disable, SoftDelete, Restore
  <1>4. ASSUME NEW r \in Rais, NEW value \in BOOLEAN, PatchDeleted(r, value)
        PROVE  TypeInv'
    <2>1. resources[r] \in Document
      BY <1>4 DEF PatchDeleted, TypeOK, Registered
    <2>2. [resources[r] EXCEPT !.is_deleted = value] \in Document
      BY <2>1 DEF Document
    <2> QED
      BY <1>4, <2>2, NoDocAssumption DEF PatchDeleted, TypeOK, HeldRegistered, Registered
  <1>5. CASE UNCHANGED vars
    BY <1>5 DEF vars, TypeOK, HeldRegistered, Registered
  <1> QED
    BY <1>1, <1>2, <1>3, <1>4, <1>5 DEF RegistryNext

\* Every reachable state is well typed, and an operator's copy is of a
\* resource that is still in the collection (nothing deletes documents).
THEOREM Typing == Spec => []TypeInv
  BY InitTypeInv, NextTypeInv, PTL DEF Spec

\* In particular every variable has its type, and the bulk's cursor stays
\* within the table of the release that is synced.
THEOREM TypeCorrect == Spec => []TypeOK
  <1>1. TypeInv => TypeOK
    BY DEF TypeInv
  <1> QED  BY <1>1, Typing, PTL

-----------------------------------------------------------------------------
\* An operator's save keeps every document and every endpoint and is_root.
KeepsMirror ==
    \A r \in Rais :
        /\ Registered(r)' <=> Registered(r)
        /\ Registered(r) => /\ resources'[r].endpoint = resources[r].endpoint
                            /\ resources'[r].is_root = resources[r].is_root

\* A write of flags to one document keeps every mirrored field.
LEMMA PointwiseKeepsMirror ==
    ASSUME TypeInv, NEW s \in Rais, resources[s] \in Document, NEW d \in Document,
           d.endpoint = resources[s].endpoint, d.is_root = resources[s].is_root,
           resources' = [resources EXCEPT ![s] = d]
    PROVE  KeepsMirror
  BY NoDocAssumption DEF KeepsMirror, Registered, TypeInv, TypeOK

\* An operator's save, of however old a copy, keeps every mirrored field.
LEMMA SaveKeepsMirror ==
    ASSUME TypeInv,
           \/ \E o \in Operators, value \in BOOLEAN :
                 SetEnabled(o, value) \/ SetDeleted(o, value)
           \/ \E r \in Rais, value \in BOOLEAN : PatchDeleted(r, value)
    PROVE  KeepsMirror
  <1>1. ASSUME NEW o \in Operators, NEW value \in BOOLEAN,
               SetEnabled(o, value) \/ SetDeleted(o, value)
        PROVE  KeepsMirror
    <2>1. /\ held[o].rai \in Rais /\ held[o].doc \in Document
          /\ resources[held[o].rai] \in Document
      BY <1>1 DEF SetEnabled, SetDeleted, TypeInv, TypeOK, HeldRegistered, Registered
    <2>2. CASE SetEnabled(o, value)
      <3> DEFINE d == SavedEnabled(resources[held[o].rai], held[o].doc, value)
      <3>1. resources' = [resources EXCEPT ![held[o].rai] = d]
        BY <2>2 DEF SetEnabled
      <3>2. /\ d \in Document
            /\ d.endpoint = resources[held[o].rai].endpoint
            /\ d.is_root = resources[held[o].rai].is_root
        BY <2>1, SavedFacts
      <3> HIDE DEF d
      <3> QED  BY <2>1, <3>1, <3>2, PointwiseKeepsMirror
    <2>3. CASE SetDeleted(o, value)
      <3> DEFINE d == SavedDeleted(resources[held[o].rai], held[o].doc, value)
      <3>1. resources' = [resources EXCEPT ![held[o].rai] = d]
        BY <2>3 DEF SetDeleted
      <3>2. /\ d \in Document
            /\ d.endpoint = resources[held[o].rai].endpoint
            /\ d.is_root = resources[held[o].rai].is_root
        BY <2>1, SavedFacts
      <3> HIDE DEF d
      <3> QED  BY <2>1, <3>1, <3>2, PointwiseKeepsMirror
    <2> QED  BY <1>1, <2>2, <2>3
  <1>2. ASSUME NEW r \in Rais, NEW value \in BOOLEAN, PatchDeleted(r, value)
        PROVE  KeepsMirror
    <2>1. resources[r] \in Document
      BY <1>2 DEF PatchDeleted, TypeInv, TypeOK, Registered
    <2>2. /\ [resources[r] EXCEPT !.is_deleted = value] \in Document
          /\ [resources[r] EXCEPT !.is_deleted = value].endpoint = resources[r].endpoint
          /\ [resources[r] EXCEPT !.is_deleted = value].is_root = resources[r].is_root
      BY <2>1 DEF Document
    <2> QED  BY <1>2, <2>1, <2>2, PointwiseKeepsMirror DEF PatchDeleted
  <1> QED  BY <1>1, <1>2

\* The steps that leave the collection and the index as they are.
LEMMA QuietSteps ==
    ASSUME [RegistryNext]_vars
    PROVE  \/ UNCHANGED <<resources, indexed>>
           \/ \E i \in Instances : AutoIndex(i) \/ SyncOp(i)
           \/ \E o \in Operators, value \in BOOLEAN :
                 SetEnabled(o, value) \/ SetDeleted(o, value)
           \/ \E r \in Rais, value \in BOOLEAN : PatchDeleted(r, value)
  BY DEF RegistryNext, vars, Deploy, Process, Boot, InitModules, SkipSync, SyncConflict,
         SyncDone, SyncLost, Stop, Operator, Load, Enable, Disable, SoftDelete, Restore

\* Once the unique index exists no two resources share method and path: the
\* index refuses the only step that could make two of them clash.
THEOREM Uniqueness == Spec => []UniqueOnceIndexed
  <1>1. Init => UniqueOnceIndexed
    BY DEF Init, UniqueOnceIndexed
  <1>2. TypeInv /\ UniqueOnceIndexed /\ [RegistryNext]_vars => UniqueOnceIndexed'
    <2> SUFFICES ASSUME TypeInv, UniqueOnceIndexed, [RegistryNext]_vars
                 PROVE  UniqueOnceIndexed'
      OBVIOUS
    <2>1. CASE UNCHANGED <<resources, indexed>>
      BY <2>1 DEF UniqueOnceIndexed, Duplicates, Clash, Registered
    <2>2. ASSUME NEW i \in Instances, AutoIndex(i) PROVE UniqueOnceIndexed'
      BY <2>2 DEF AutoIndex, UniqueOnceIndexed, Duplicates, Clash, Registered
    <2>3. ASSUME NEW i \in Instances, SyncOp(i), indexed' PROVE ~Duplicates'
      <3> DEFINE route == NextOp(i)
      <3>1. indexed /\ ~Duplicates /\ ~Refused(route)
        BY <2>3 DEF SyncOp, UniqueOnceIndexed
      <3>2. route \in Route /\ route.rai \in Rais
        BY <2>3, NextOpFacts DEF SyncOp, TypeInv
      <3>3. resources' = [resources EXCEPT ![route.rai] = Upserted(@, route)]
        BY <2>3 DEF SyncOp
      <3>4. Upserted(resources[route.rai], route).endpoint = route.endpoint
        BY <3>2, UpsertedFacts DEF TypeInv, TypeOK
      <3>5. ASSUME NEW s \in Rais \ {route.rai}
            PROVE  ~(Registered(s) /\ resources[s].endpoint = route.endpoint)
        BY <3>1 DEF Refused
      <3>6. \A s \in Rais \ {route.rai} : resources'[s] = resources[s]
        BY <3>2, <3>3 DEF TypeInv, TypeOK
      <3>7. resources'[route.rai].endpoint = route.endpoint
        BY <3>2, <3>3, <3>4 DEF TypeInv, TypeOK
      <3> HIDE DEF route
      <3>8. ASSUME NEW r \in Rais, NEW s \in Rais, Clash(r, s)' PROVE FALSE
        <4>1. CASE r # route.rai /\ s # route.rai
          BY <4>1, <3>1, <3>6, <3>8 DEF Clash, Registered, Duplicates
        <4>2. CASE r = route.rai
          BY <4>2, <3>5, <3>6, <3>7, <3>8 DEF Clash, Registered
        <4>3. CASE s = route.rai
          BY <4>3, <3>5, <3>6, <3>7, <3>8 DEF Clash, Registered
        <4> QED  BY <4>1, <4>2, <4>3
      <3> QED  BY <3>8 DEF Duplicates
    <2>4. CASE \/ \E o \in Operators, value \in BOOLEAN :
                    SetEnabled(o, value) \/ SetDeleted(o, value)
               \/ \E r \in Rais, value \in BOOLEAN : PatchDeleted(r, value)
      <3>1. indexed' = indexed
        BY <2>4 DEF SetEnabled, SetDeleted, PatchDeleted
      <3>2. KeepsMirror
        BY <2>4, SaveKeepsMirror
      <3> QED  BY <3>1, <3>2 DEF KeepsMirror, UniqueOnceIndexed, Duplicates, Clash, Registered
    <2> QED  BY <2>1, <2>2, <2>3, <2>4, QuietSteps DEF UniqueOnceIndexed
  <1> QED  BY <1>1, <1>2, Typing, PTL DEF Spec

-----------------------------------------------------------------------------
\* What is in the collection of the first n routes of a release, when the
\* syncs of the releases in c wrote beside its own: documents at least ...
Covered(c, rel, n) ==
    /\ \A k \in 1..n : Registered(Table[rel][k].rai)
    /\ c = {} => MirroredUpTo(rel, n)
    /\ c \subseteq {rel} => MirroredByOne(rel, n)

\* ... and the same after a step, of a release and a length before it.
CoveredNext(c, rel, n) ==
    /\ \A k \in 1..n : resources'[Table[rel][k].rai] # NoDoc
    /\ c = {} => \A k \in 1..n : LastUpTo(rel, n, k) =>
                    Mirrors(resources'[Table[rel][k].rai], Table[rel][k])
    /\ c \subseteq {rel} => \A k \in 1..n : \E j \in RoutesOf(rel) :
                    /\ Table[rel][j].rai = Table[rel][k].rai
                    /\ Mirrors(resources'[Table[rel][j].rai], Table[rel][j])

\* The inductive strengthening of MirrorComplete: in the middle of a bulk, the
\* operations applied so far are covered.
SyncProgress ==
    \A i \in SyncInstances :
        /\ Syncing(i) => Covered(crossed[i], proc[i].release, proc[i].cursor)
        /\ proc[i].outcome = "synced" =>
               /\ proc[i].phase = "serving"
               /\ Covered(crossed[i], proc[i].release, Len(Table[proc[i].release]))

\* The k-th entry of a release's table is a route of a RAI.
LEMMA TableFacts ==
    ASSUME NEW rel \in Releases
    PROVE  /\ Len(Table[rel]) \in Nat
           /\ RoutesOf(rel) = 1..Len(Table[rel])
           /\ \A k \in 1..Len(Table[rel]) : Table[rel][k] \in Route
           /\ \A k \in 1..Len(Table[rel]) : Table[rel][k].rai \in Rais
  <1>1. Table[rel] \in Seq(Route)
    BY TableAssumption
  <1>2. Len(Table[rel]) \in Nat /\ \A k \in 1..Len(Table[rel]) : Table[rel][k] \in Route
    BY <1>1
  <1> QED  BY <1>1, <1>2 DEF Route, RoutesOf

\* A step that keeps the mirrored fields keeps what is covered.
LEMMA CoveredKept ==
    ASSUME TypeInv, KeepsMirror, NEW c, NEW rel \in Releases, NEW n \in Nat,
           n <= Len(Table[rel]), Covered(c, rel, n)
    PROVE  CoveredNext(c, rel, n)
  <1>1. \A k \in 1..n : Table[rel][k].rai \in Rais
    BY TableFacts
  <1>2. \A j \in RoutesOf(rel) : Table[rel][j].rai \in Rais
    BY TableFacts
  <1>3. \A s \in Rais : /\ Registered(s) => resources'[s] # NoDoc
                        /\ \A route : Mirrors(resources[s], route) => Mirrors(resources'[s], route)
    BY DEF KeepsMirror, Mirrors, Registered
  <1>4. \A k \in 1..n : resources'[Table[rel][k].rai] # NoDoc
    BY <1>1, <1>3 DEF Covered
  <1>5. c = {} => \A k \in 1..n : LastUpTo(rel, n, k) =>
                    Mirrors(resources'[Table[rel][k].rai], Table[rel][k])
    BY <1>1, <1>3 DEF Covered, MirroredUpTo
  <1>6. ASSUME c \subseteq {rel}, NEW k \in 1..n
        PROVE  \E j \in RoutesOf(rel) :
                    /\ Table[rel][j].rai = Table[rel][k].rai
                    /\ Mirrors(resources'[Table[rel][j].rai], Table[rel][j])
    <2>1. PICK j \in RoutesOf(rel) : /\ Table[rel][j].rai = Table[rel][k].rai
                                     /\ Mirrors(resources[Table[rel][j].rai], Table[rel][j])
      BY <1>6 DEF Covered, MirroredByOne
    <2> QED  BY <1>2, <1>3, <2>1
  <1> QED  BY <1>4, <1>5, <1>6 DEF CoveredNext

\* One operation of a bulk writes one route of its release, and no other RAI.
LEMMA BulkWrites ==
    ASSUME TypeInv, NEW i \in Instances, SyncOp(i)
    PROVE  LET rel == proc[i].release
               m   == proc[i].cursor + 1
           IN  /\ rel \in Releases /\ m \in 1..Len(Table[rel]) /\ m \in RoutesOf(rel)
               /\ Table[rel][m].rai \in Rais
               /\ Mirrors(resources'[Table[rel][m].rai], Table[rel][m])
               /\ \A s \in Rais \ {Table[rel][m].rai} : resources'[s] = resources[s]
               /\ resources'[Table[rel][m].rai] # NoDoc
               /\ \A s \in Rais : Registered(s) => resources'[s] # NoDoc
  <1> DEFINE rel == proc[i].release
             m == proc[i].cursor + 1
             route == Table[rel][m]
  <1>1. rel \in Releases /\ m \in RoutesOf(rel) /\ m \in 1..Len(Table[rel])
    BY NextOpFacts, TableFacts DEF TypeInv, TypeOK, ProcState, SyncOp, RoutesOf
  <1>2. /\ route \in Route /\ route.rai \in Rais
        /\ resources' = [resources EXCEPT ![route.rai] = Upserted(@, route)]
    BY NextOpFacts DEF TypeInv, SyncOp, NextOp
  <1>3. Mirrors(resources'[route.rai], route)
    BY <1>2, UpsertedFacts, NoDocAssumption DEF Mirrors, TypeInv, TypeOK
  <1>4. \A s \in Rais \ {route.rai} : resources'[s] = resources[s]
    BY <1>2 DEF TypeInv, TypeOK
  <1>5. resources'[route.rai] # NoDoc
    BY <1>3 DEF Mirrors
  <1>6. \A s \in Rais : Registered(s) => resources'[s] # NoDoc
    BY <1>4, <1>5 DEF Registered
  <1> QED  BY <1>1, <1>2, <1>3, <1>4, <1>5, <1>6

\* A route that its release's own bulk writes leaves every RAI of the release
\* mirrored that was.
LEMMA OneOfItsRoutes ==
    ASSUME TypeInv, NEW i \in Instances, SyncOp(i), NEW n \in Nat,
           n <= Len(Table[proc[i].release]), MirroredByOne(proc[i].release, n),
           NEW k \in 1..n
    PROVE  \E j \in RoutesOf(proc[i].release) :
               /\ Table[proc[i].release][j].rai = Table[proc[i].release][k].rai
               /\ Mirrors(resources'[Table[proc[i].release][j].rai], Table[proc[i].release][j])
  <1> DEFINE rel == proc[i].release
             m == proc[i].cursor + 1
  <1>1. PICK j \in RoutesOf(rel) : /\ Table[rel][j].rai = Table[rel][k].rai
                                   /\ Mirrors(resources[Table[rel][j].rai], Table[rel][j])
    BY DEF MirroredByOne
  <1>2. CASE Table[rel][k].rai = Table[rel][m].rai
    BY <1>2, BulkWrites
  <1>3. CASE Table[rel][k].rai # Table[rel][m].rai
    <2>1. Table[rel][j].rai \in Rais \ {Table[rel][m].rai}
      BY <1>1, <1>3, BulkWrites, TableFacts
    <2> QED  BY <1>1, <2>1, BulkWrites
  <1> QED  BY <1>2, <1>3

\* An operation of another process's bulk leaves the documents registered; of
\* the same release, it leaves every RAI mirrored by one of its routes.
LEMMA SyncOpOthers ==
    ASSUME TypeInv, NEW j \in Instances, SyncOp(j), NEW c, NEW rel \in Releases,
           NEW n \in Nat, n <= Len(Table[rel]), Covered(c, rel, n)
    PROVE  CoveredNext(c \cup {proc[j].release}, rel, n)
  <1>1. \A k \in 1..n : resources'[Table[rel][k].rai] # NoDoc
    BY BulkWrites, TableFacts DEF Covered
  <1>2. ASSUME c \cup {proc[j].release} \subseteq {rel}, NEW k \in 1..n
        PROVE  \E h \in RoutesOf(rel) :
                   /\ Table[rel][h].rai = Table[rel][k].rai
                   /\ Mirrors(resources'[Table[rel][h].rai], Table[rel][h])
    <2>1. proc[j].release = rel /\ MirroredByOne(rel, n)
      BY <1>2 DEF Covered
    <2> QED  BY <2>1, OneOfItsRoutes
  <1> QED  BY <1>1, <1>2 DEF CoveredNext

\* One more operation of the process's own bulk: the route it writes is the
\* last with its RAI, and every other last route has another RAI, whose
\* document it leaves.
LEMMA SyncOpOwn ==
    ASSUME TypeInv, NEW i \in Instances, SyncOp(i), NEW c,
           Covered(c, proc[i].release, proc[i].cursor)
    PROVE  CoveredNext(c, proc[i].release, proc[i].cursor + 1)
  <1> DEFINE rel == proc[i].release
             n == proc[i].cursor
             route == Table[rel][n + 1]
  <1>1. /\ n \in Nat /\ rel \in Releases /\ n + 1 <= Len(Table[rel])
        /\ Len(Table[rel]) \in Nat
    BY BulkWrites, TableFacts DEF TypeInv, TypeOK, ProcState
  <1>2. \A k \in 1..(n + 1) : k \in 1..n \/ k = n + 1
    BY <1>1
  <1>3. \A k \in 1..n : Table[rel][k].rai \in Rais
    BY <1>1, TableFacts
  <1>4. \A k \in 1..(n + 1) : resources'[Table[rel][k].rai] # NoDoc
    BY <1>2, <1>3, BulkWrites DEF Covered
  <1>5. ASSUME c = {}, NEW k \in 1..(n + 1), LastUpTo(rel, n + 1, k)
        PROVE  Mirrors(resources'[Table[rel][k].rai], Table[rel][k])
    <2>1. CASE k = n + 1
      BY <2>1, BulkWrites
    <2>2. CASE k # n + 1
      <3>1. k \in 1..n /\ n + 1 \in 1..(n + 1)
        BY <2>2, <1>1
      <3>2. Table[rel][k].rai # route.rai
        BY <1>1, <3>1, <1>5 DEF LastUpTo
      <3>3. LastUpTo(rel, n, k)
        BY <1>1, <1>5 DEF LastUpTo
      <3>4. Mirrors(resources[Table[rel][k].rai], Table[rel][k])
        BY <1>5, <3>1, <3>3 DEF Covered, MirroredUpTo
      <3>5. Table[rel][k].rai \in Rais \ {route.rai}
        BY <1>3, <3>1, <3>2
      <3> QED  BY <3>4, <3>5, BulkWrites
    <2> QED  BY <2>1, <2>2
  <1>6. ASSUME c \subseteq {rel}, NEW k \in 1..(n + 1)
        PROVE  \E j \in RoutesOf(rel) :
                   /\ Table[rel][j].rai = Table[rel][k].rai
                   /\ Mirrors(resources'[Table[rel][j].rai], Table[rel][j])
    <2>1. CASE k = n + 1
      BY <2>1, BulkWrites
    <2>2. CASE k \in 1..n
      <3>1. MirroredByOne(rel, n) /\ n <= Len(Table[rel])
        BY <1>1, <1>6 DEF Covered
      <3> QED  BY <1>1, <2>2, <3>1, OneOfItsRoutes
    <2> QED  BY <1>2, <2>1, <2>2
  <1> QED  BY <1>4, <1>5, <1>6 DEF CoveredNext

\* No process is in a sync at the start.
LEMMA InitProgress == Init => SyncProgress
  BY DownFacts, InstancesAssumption DEF Init, SyncProgress, Syncing

\* Every step keeps the strengthening, whatever other processes sync.
LEMMA NextProgress == TypeInv /\ SyncProgress /\ [RegistryNext]_vars => SyncProgress'
  <1> DEFINE Goal(i) ==
          /\ Syncing(i)' => CoveredNext(crossed'[i], proc'[i].release, proc'[i].cursor)
          /\ proc'[i].outcome = "synced" =>
                /\ proc'[i].phase = "serving"
                /\ CoveredNext(crossed'[i], proc'[i].release, Len(Table[proc'[i].release]))
  <1> SUFFICES ASSUME TypeInv, SyncProgress, [RegistryNext]_vars, NEW i \in SyncInstances
               PROVE  Goal(i)
    BY DEF SyncProgress, Covered, CoveredNext, MirroredUpTo, MirroredByOne, LastUpTo,
           RoutesOf, Registered
  <1>i. /\ i \in Instances /\ proc[i] \in ProcState
        /\ proc[i].release \in Releases /\ proc[i].cursor \in Nat
        /\ proc[i].cursor <= Len(Table[proc[i].release])
        /\ Len(Table[proc[i].release]) \in Nat
    BY InstancesAssumption, TableFacts DEF TypeInv, TypeOK, ProcState
  <1>p. /\ Syncing(i) => Covered(crossed[i], proc[i].release, proc[i].cursor)
        /\ proc[i].outcome = "synced" =>
              /\ proc[i].phase = "serving"
              /\ Covered(crossed[i], proc[i].release, Len(Table[proc[i].release]))
    BY DEF SyncProgress
  <1>c. \A c, rel : CoveredNext(c, rel, 0)
    BY DEF CoveredNext
  \* A step that keeps the collection's mirrored fields and this process.
  <1>0. ASSUME KeepsMirror, crossed'[i] = crossed[i],
               /\ proc'[i].phase = proc[i].phase /\ proc'[i].release = proc[i].release
               /\ proc'[i].cursor = proc[i].cursor /\ proc'[i].outcome = proc[i].outcome
        PROVE  Goal(i)
    <2>1. Covered(crossed[i], proc[i].release, proc[i].cursor)
             => CoveredNext(crossed[i], proc[i].release, proc[i].cursor)
      BY <1>0, <1>i, CoveredKept
    <2>2. Covered(crossed[i], proc[i].release, Len(Table[proc[i].release]))
             => CoveredNext(crossed[i], proc[i].release, Len(Table[proc[i].release]))
      BY <1>0, <1>i, CoveredKept
    <2> QED  BY <1>0, <1>p, <2>1, <2>2 DEF Syncing
  <1>u. UNCHANGED resources => KeepsMirror
    BY DEF KeepsMirror, Registered
  <1>1. CASE UNCHANGED <<resources, proc, crossed>>
    BY <1>1, <1>0, <1>u
  <1>2. CASE \/ \E o \in Operators, value \in BOOLEAN :
                  SetEnabled(o, value) \/ SetDeleted(o, value)
             \/ \E r \in Rais, value \in BOOLEAN : PatchDeleted(r, value)
    <2>1. UNCHANGED <<proc, crossed>>
      BY <1>2 DEF SetEnabled, SetDeleted, PatchDeleted
    <2> QED  BY <1>0, <1>2, <2>1, SaveKeepsMirror
  <1>3. ASSUME NEW j \in Instances, Process(j), j # i PROVE Goal(i)
    <2>1. CASE SyncOp(j)
      <3>1. /\ proc'[i] = proc[i] /\ j \in SyncInstances
            /\ proc[i].phase # "down" => crossed'[i] = crossed[i] \cup {proc[j].release}
        BY <2>1, <1>3, <1>i DEF SyncOp, Syncing, CrossedBy, TypeInv, TypeOK
      <3>2. \A n \in {proc[i].cursor, Len(Table[proc[i].release])} :
               Covered(crossed[i], proc[i].release, n)
                  => CoveredNext(crossed[i] \cup {proc[j].release}, proc[i].release, n)
        BY <2>1, <1>i, SyncOpOthers
      <3> QED  BY <1>p, <3>1, <3>2 DEF Syncing
    <2>2. CASE ~SyncOp(j)
      <3>1. UNCHANGED resources /\ proc'[i] = proc[i] /\ crossed'[i] = crossed[i]
        BY <1>3, <2>2, <1>i DEF Process, Boot, AutoIndex, InitModules, SkipSync,
             SyncConflict, SyncDone, SyncLost, Stop, TypeInv, TypeOK
      <3> QED  BY <1>0, <1>u, <3>1
    <2> QED  BY <2>1, <2>2
  <1>4. ASSUME Process(i) PROVE Goal(i)
    <2>1. CASE Boot(i)
      <3>1. proc'[i].cursor = 0 /\ proc'[i].outcome = "none"
        BY <2>1, <1>i, BootedFacts DEF Boot, TypeInv, TypeOK
      <3> QED  BY <3>1, <1>c
    <2>2. CASE AutoIndex(i)
      <3>1. /\ UNCHANGED <<resources, crossed>>
            /\ proc'[i] = [proc[i] EXCEPT !.indexing = FALSE]
        BY <2>2, <1>i DEF AutoIndex, TypeInv, TypeOK
      <3>2. /\ proc'[i].phase = proc[i].phase /\ proc'[i].release = proc[i].release
            /\ proc'[i].cursor = proc[i].cursor /\ proc'[i].outcome = proc[i].outcome
        BY <3>1, <1>i DEF ProcState
      <3> QED  BY <3>1, <3>2, <1>0, <1>u
    <2>3. CASE SyncOp(i)
      <3>1. /\ proc'[i] = Ahead(proc[i]) /\ crossed'[i] = crossed[i] /\ Syncing(i)
        BY <2>3, <1>i DEF SyncOp, CrossedBy, TypeInv, TypeOK
      <3>2. /\ proc'[i].outcome = proc[i].outcome /\ proc'[i].release = proc[i].release
            /\ proc'[i].cursor = proc[i].cursor + 1
        BY <3>1, <1>i, AheadFacts
      <3>3. CoveredNext(crossed[i], proc[i].release, proc[i].cursor + 1)
        BY <2>3, <3>1, <1>i, <1>p, SyncOpOwn
      <3>4. proc[i].outcome # "synced"
        BY <1>p, <3>1 DEF Syncing
      <3> QED  BY <3>1, <3>2, <3>3, <3>4
    <2>4. CASE SyncDone(i)
      <3>1. /\ proc'[i] = Serving(proc[i], "synced") /\ UNCHANGED <<resources, crossed>>
            /\ proc[i].cursor = Len(Table[proc[i].release]) /\ Syncing(i)
        BY <2>4, <1>i DEF SyncDone, BulkDone, TypeInv, TypeOK
      <3>2. /\ proc'[i].phase = "serving" /\ proc'[i].release = proc[i].release
        BY <3>1, <1>i, ServingFacts DEF Outcomes
      <3>3. CoveredNext(crossed[i], proc[i].release, proc[i].cursor)
        BY <3>1, <1>i, <1>p, <1>u, CoveredKept
      <3> QED  BY <3>1, <3>2, <3>3 DEF Syncing
    <2>5. CASE SkipSync(i) \/ SyncConflict(i) \/ SyncLost(i)
      <3>1. /\ proc'[i].phase = "serving"
            /\ proc'[i].outcome \in {"skipped", "conflict", "lost"}
        BY <2>5, <1>i, ServingFacts
           DEF SkipSync, SyncConflict, SyncLost, Outcomes, TypeInv, TypeOK
      <3> QED  BY <3>1 DEF Syncing
    <2>6. CASE Stop(i)
      <3>1. proc'[i].phase = "down" /\ proc'[i].outcome = "none"
        BY <2>6, <1>i, DownFacts DEF Stop, TypeInv, TypeOK
      <3> QED  BY <3>1 DEF Syncing
    <2> QED  BY <1>4, <2>1, <2>2, <2>3, <2>4, <2>5, <2>6 DEF Process, InitModules
  <1>5. CASE Deploy \/ \E o \in Operators, r \in Rais, w \in BOOLEAN : Load(o, r, w)
    BY <1>5, <1>1 DEF Deploy, Load
  <1>6. CASE UNCHANGED vars
    BY <1>6, <1>1 DEF vars
  <1> HIDE DEF Goal
  <1> QED
    BY <1>2, <1>3, <1>4, <1>5, <1>6
       DEF RegistryNext, Operator, Enable, Disable, SoftDelete, Restore

\* Every reachable state has what the processes' syncs have applied, as far as
\* the syncs of other processes since their boot leave it.
THEOREM Progress == Spec => []SyncProgress
  BY InitProgress, NextProgress, Typing, PTL DEF Spec

\* After a sync that went through, each RAI of its release is registered
\* under its last route's method, path and is_root, until that process ends or
\* another one syncs; under one of its routes, if that was the same release.
THEOREM Mirror == Spec => []MirrorComplete
  <1>1. SyncProgress => MirrorComplete
    BY DEF SyncProgress, Covered, MirrorComplete
  <1> QED  BY <1>1, Progress, PTL

-----------------------------------------------------------------------------
\* A registered resource stays registered, and its is_enabled changes only in
\* an enable() or disable() of that very resource: not in a sync, a crash, a
\* soft-delete or a save of a stale copy.
THEOREM Toggles == Spec => TogglesSurvive
  <1>1. TypeInv /\ [RegistryNext]_vars => [ToggleStep]_vars
    <2> SUFFICES ASSUME TypeInv, [RegistryNext]_vars, NEW r \in Rais, Registered(r)
                 PROVE  /\ Registered(r)'
                        /\ resources'[r].is_enabled # resources[r].is_enabled =>
                              \E o \in Operators : held[o] # NoHold /\ held[o].rai = r
                                                   /\ (Enable(o) \/ Disable(o))
      BY DEF ToggleStep
    <2>r. resources[r] \in Document
      BY DEF TypeInv, TypeOK, Registered
    <2>1. CASE UNCHANGED resources
      BY <2>1 DEF Registered
    <2>2. ASSUME NEW i \in Instances, SyncOp(i)
          PROVE  Registered(r)' /\ resources'[r].is_enabled = resources[r].is_enabled
      <3>1. /\ NextOp(i) \in Route /\ NextOp(i).rai \in Rais
            /\ resources' = [resources EXCEPT ![NextOp(i).rai] = Upserted(@, NextOp(i))]
        BY <2>2, NextOpFacts DEF SyncOp, TypeInv
      <3>2. CASE NextOp(i).rai = r
        <4>1. resources'[r] = Upserted(resources[r], NextOp(i))
          BY <3>1, <3>2 DEF TypeInv, TypeOK
        <4> QED  BY <4>1, <3>1, <2>r, UpsertedFacts, NoDocAssumption DEF Registered
      <3>3. CASE NextOp(i).rai # r
        <4>1. resources'[r] = resources[r]
          BY <3>1, <3>3 DEF TypeInv, TypeOK
        <4> QED  BY <4>1 DEF Registered
      <3> QED  BY <3>2, <3>3
    <2>3. ASSUME NEW o \in Operators, NEW value \in BOOLEAN, SetEnabled(o, value)
          PROVE  /\ Registered(r)'
                 /\ resources'[r].is_enabled # resources[r].is_enabled =>
                       held[o] # NoHold /\ held[o].rai = r /\ (Enable(o) \/ Disable(o))
      <3>1. KeepsMirror
        BY <2>3, SaveKeepsMirror
      <3>2. held[o].rai # r => resources'[r] = resources[r]
        BY <2>3 DEF SetEnabled, TypeInv, TypeOK
      <3>3. Enable(o) \/ Disable(o)
        BY <2>3 DEF Enable, Disable
      <3> QED  BY <2>3, <3>1, <3>2, <3>3 DEF KeepsMirror, SetEnabled
    <2>4. ASSUME NEW o \in Operators, NEW value \in BOOLEAN, SetDeleted(o, value)
          PROVE  Registered(r)' /\ resources'[r].is_enabled = resources[r].is_enabled
      <3>1. KeepsMirror
        BY <2>4, SaveKeepsMirror
      <3>2. CASE held[o].rai = r
        <4>1. held[o].doc \in Document
          BY <2>4 DEF SetDeleted, TypeInv, TypeOK
        <4>2. resources'[r] = SavedDeleted(resources[r], held[o].doc, value)
          BY <2>4, <3>2 DEF SetDeleted, TypeInv, TypeOK
        <4>3. SavedDeleted(resources[r], held[o].doc, value).is_enabled = resources[r].is_enabled
          BY <4>1, <2>r, SavedFacts
        <4> QED  BY <3>1, <4>2, <4>3 DEF KeepsMirror
      <3>3. CASE held[o].rai # r
        BY <2>4, <3>1, <3>3 DEF SetDeleted, KeepsMirror, TypeInv, TypeOK
      <3> QED  BY <3>2, <3>3
    <2>5. ASSUME NEW s \in Rais, NEW value \in BOOLEAN, PatchDeleted(s, value)
          PROVE  Registered(r)' /\ resources'[r].is_enabled = resources[r].is_enabled
      <3>1. KeepsMirror
        BY <2>5, SaveKeepsMirror
      <3>2. resources'[r] \in {resources[r], [resources[r] EXCEPT !.is_deleted = value]}
        BY <2>5 DEF PatchDeleted, TypeInv, TypeOK
      <3>3. [resources[r] EXCEPT !.is_deleted = value].is_enabled = resources[r].is_enabled
        BY <2>r DEF Document
      <3> QED  BY <3>1, <3>2, <3>3 DEF KeepsMirror
    <2>6. ASSUME NEW i \in Instances, AutoIndex(i) PROVE UNCHANGED resources
      BY <2>6 DEF AutoIndex
    <2> QED  BY <2>1, <2>2, <2>3, <2>4, <2>5, <2>6, QuietSteps
  <1> QED  BY <1>1, Typing, PTL DEF Spec, TogglesSurvive
=============================================================================
