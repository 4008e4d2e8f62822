--------------------------- MODULE ResourceRegistry ---------------------------
(***************************************************************************)
(* The resources collection and everything that writes to it.              *)
(*                                                                         *)
(* Web processes boot and restart; the instances number 0 mirror the route *)
(* table of their release into the collection with one ordered bulk of     *)
(* upserts (core's onInit), the others skip that.  A reload runs the       *)
(* successor of an instance beside it, as another host runs its own, so    *)
(* that two releases may sync at once or in either order.  Every process   *)
(* also asks MongoDB once for the unique (method, path) index, in the      *)
(* background (mongoose's autoIndex), so the index may come before, during *)
(* or after a sync, or never.  Meanwhile operators load Resource documents *)
(* and enable, disable, soft-delete or restore them, on copies that may be *)
(* stale by then.                                                          *)
(***************************************************************************)
EXTENDS RouteTable

CONSTANTS
    Instances,      \* web processes that may run at once
    SyncInstances,  \* those whose NODE_APP_INSTANCE is "0" or unset
    Operators,      \* callers of the Resource model's methods
    NoDoc,          \* no document with this _id
    NoHold          \* the operator has loaded nothing

Document == [endpoint : Endpoints, is_root : BOOLEAN,
             is_enabled : BOOLEAN, is_deleted : BOOLEAN]

ASSUME InstancesAssumption == SyncInstances \subseteq Instances
ASSUME NoDocAssumption  == NoDoc \notin Document
ASSUME NoHoldAssumption == NoHold \notin [rai : Rais, doc : Document]

VARIABLES
    resources,  \* the collection, by _id
    indexed,    \* the unique (method, path) index exists
    deployed,   \* the release a process starts from now on
    proc,       \* the web processes
    held,       \* the document each operator has in memory
    crossed     \* history: the releases that the syncs of other processes
                \* wrote since each process booted

vars == <<resources, indexed, deployed, proc, held, crossed>>

-----------------------------------------------------------------------------
Registered(rai) == resources[rai] # NoDoc

\* Two registered resources on one endpoint, soft-deleted ones included: a
\* unique index does not know is_deleted.
Clash(r, s) == r # s /\ Registered(r) /\ Registered(s)
                     /\ resources[r].endpoint = resources[s].endpoint
Duplicates == \E r, s \in Rais : Clash(r, s)

\* Mutant of Refused: the index is partial, over live documents only.
RefusedByLive(route) ==
    /\ indexed
    /\ \E s \in Rais \ {route.rai} :
          /\ Registered(s) /\ ~resources[s].is_deleted
          /\ resources[s].endpoint = route.endpoint

\* The unique index refuses an upsert that takes another document's endpoint.
Refused(route) ==
    /\ indexed
    /\ \E s \in Rais \ {route.rai} :
          Registered(s) /\ resources[s].endpoint = route.endpoint

\* Mutants of Upserted: $setOnInsert for $set; an upsert without defaults.
UpsertedOnInsert(doc, route) ==
    IF doc = NoDoc
    THEN [endpoint |-> route.endpoint, is_root |-> route.root,
          is_enabled |-> TRUE, is_deleted |-> FALSE]
    ELSE doc
UpsertedBare(doc, route) ==
    IF doc = NoDoc THEN [endpoint |-> route.endpoint, is_root |-> route.root]
    ELSE [doc EXCEPT !.endpoint = route.endpoint, !.is_root = route.root]

\* One updateOne of the bulk: $set of the mirrored fields, the schema's
\* defaults on insert.  The filter is the _id alone, so a soft-deleted
\* document is updated like any other.
Upserted(doc, route) ==
    IF doc = NoDoc
    THEN [endpoint |-> route.endpoint, is_root |-> route.root,
          is_enabled |-> TRUE, is_deleted |-> FALSE]
    ELSE [doc EXCEPT !.endpoint = route.endpoint, !.is_root = route.root]

\* Mutant of SavedDeleted: save() replaces the stored document with the copy.
SavedWhole(stored, local, value) == [local EXCEPT !.is_deleted = value]

\* A mongoose save() sends the paths modified since the load, no others.
SavedEnabled(stored, local, value) ==
    IF local.is_enabled = value THEN stored ELSE [stored EXCEPT !.is_enabled = value]
SavedDeleted(stored, local, value) ==
    IF local.is_deleted = value THEN stored ELSE [stored EXCEPT !.is_deleted = value]

\* The outcome a process logs for the module's initialisation.
Outcomes == {"none", "synced", "skipped", "conflict", "lost"}
Down(release) == [phase |-> "down", release |-> release, cursor |-> 0,
                  outcome |-> "none", indexing |-> FALSE]
\* A process that has connected: mongoose builds the schema's indexes in the
\* background, and the module hooks are about to run.
Booted(release) == [Down(release) EXCEPT !.phase = "initModules", !.indexing = TRUE]
\* initModules returns, initI18n and createApp follow, and the port opens.
Serving(p, outcome) == [p EXCEPT !.phase = "serving", !.outcome = outcome]

\* Mutant of Ahead: the operation just applied is sent again.
AheadNever(p) == p

\* MongoDB goes on to the next operation of the bulk.
Ahead(p) == [p EXCEPT !.cursor = @ + 1]
NextOp(i) == Table[proc[i].release][proc[i].cursor + 1]

\* An operation of i's sync, as the other processes that sync will see it.
CrossedBy(i) ==
    [j \in Instances |->
        IF j \in SyncInstances \ {i} /\ proc[j].phase # "down"
        THEN crossed[j] \cup {proc[i].release} ELSE crossed[j]]

\* Mutant of BulkDone: the last operation is forgotten.
BulkDoneEarly(i) == proc[i].cursor + 1 >= Len(Table[proc[i].release])
BulkDone(i) == proc[i].cursor = Len(Table[proc[i].release])

-----------------------------------------------------------------------------
Init ==
    /\ resources = [r \in Rais |-> NoDoc]
    /\ indexed = FALSE
    /\ deployed \in Releases
    /\ proc = [i \in Instances |-> Down(deployed)]
    /\ held = [o \in Operators |-> NoHold]
    /\ crossed = [i \in Instances |-> {}]

Deploy ==
    /\ deployed' \in Releases \ {deployed}
    /\ UNCHANGED <<resources, indexed, proc, held, crossed>>

\* A process starts with the deployed code and connects to MongoDB, whatever
\* others run by then: the instance a reload replaces serves on meanwhile.
Boot(i) ==
    /\ proc[i].phase = "down"
    /\ proc' = [proc EXCEPT ![i] = Booted(deployed)]
    /\ UNCHANGED <<resources, indexed, deployed, held, crossed>>

\* MongoDB answers the background createIndex.  It fails over duplicates, and
\* nothing listens to that failure.
AutoIndex(i) ==
    /\ proc[i].indexing
    /\ proc' = [proc EXCEPT ![i].indexing = FALSE]
    /\ indexed' = (indexed \/ ~Duplicates)
    /\ UNCHANGED <<resources, deployed, held, crossed>>

\* onInit returns at once in every cluster instance but number 0.
SkipSync(i) ==
    /\ proc[i].phase = "initModules"
    /\ i \notin SyncInstances
    /\ proc' = [proc EXCEPT ![i] = Serving(@, "skipped")]
    /\ UNCHANGED <<resources, indexed, deployed, held, crossed>>

Syncing(i) == proc[i].phase = "initModules" /\ i \in SyncInstances

\* MongoDB applies the next update of the ordered bulk.
SyncOp(i) ==
    /\ Syncing(i)
    /\ ~BulkDone(i)
    /\ ~Refused(NextOp(i))
    /\ resources' = [resources EXCEPT ![NextOp(i).rai] = Upserted(@, NextOp(i))]
    /\ proc' = [proc EXCEPT ![i] = Ahead(@)]
    /\ crossed' = CrossedBy(i)
    /\ UNCHANGED <<indexed, deployed, held>>

\* An error ends the bulk: bulkWrite rejects, initModules logs a warning and
\* the boot goes on.  Either the index refuses the next operation ...
SyncConflict(i) ==
    /\ Syncing(i)
    /\ ~BulkDone(i)
    /\ Refused(NextOp(i))
    /\ proc' = [proc EXCEPT ![i] = Serving(@, "conflict")]
    /\ UNCHANGED <<resources, indexed, deployed, held, crossed>>

\* ... or the command is lost, with any number of its operations applied.
SyncLost(i) ==
    /\ Syncing(i)
    /\ proc' = [proc EXCEPT ![i] = Serving(@, "lost")]
    /\ UNCHANGED <<resources, indexed, deployed, held, crossed>>

SyncDone(i) ==
    /\ Syncing(i)
    /\ BulkDone(i)
    /\ proc' = [proc EXCEPT ![i] = Serving(@, "synced")]
    /\ UNCHANGED <<resources, indexed, deployed, held, crossed>>

\* The process exits or is killed, at any point.
Stop(i) ==
    /\ proc[i].phase # "down"
    /\ proc' = [proc EXCEPT ![i] = Down(@.release)]
    /\ crossed' = [crossed EXCEPT ![i] = {}]
    /\ UNCHANGED <<resources, indexed, deployed, held>>

-----------------------------------------------------------------------------
\* An operator reads a document, a soft-deleted one only .withDeleted().
Load(o, r, withDeleted) ==
    /\ Registered(r)
    /\ withDeleted \/ ~resources[r].is_deleted
    /\ held' = [held EXCEPT ![o] = [rai |-> r, doc |-> resources[r]]]
    /\ UNCHANGED <<resources, indexed, deployed, proc, crossed>>

\* doc.enable() and doc.disable(): set the field on the copy, save() it.
SetEnabled(o, value) ==
    /\ held[o] # NoHold
    /\ resources' = [resources EXCEPT ![held[o].rai] =
                        SavedEnabled(@, held[o].doc, value)]
    /\ held' = [held EXCEPT ![o].doc.is_enabled = value]
    /\ UNCHANGED <<indexed, deployed, proc, crossed>>
Enable(o)  == SetEnabled(o, TRUE)
Disable(o) == SetEnabled(o, FALSE)

\* doc.softDelete() and doc.restore(), likewise.
SetDeleted(o, value) ==
    /\ held[o] # NoHold
    /\ resources' = [resources EXCEPT ![held[o].rai] =
                        SavedDeleted(@, held[o].doc, value)]
    /\ held' = [held EXCEPT ![o].doc.is_deleted = value]
    /\ UNCHANGED <<indexed, deployed, proc, crossed>>
SoftDelete(o) == SetDeleted(o, TRUE)
Restore(o)    == SetDeleted(o, FALSE)

\* Resource.softDelete(filter) and Resource.restore(filter), one document at
\* a time, as updateMany applies them.
PatchDeleted(r, value) ==
    /\ Registered(r)
    /\ resources' = [resources EXCEPT ![r].is_deleted = value]
    /\ UNCHANGED <<indexed, deployed, proc, held, crossed>>

-----------------------------------------------------------------------------
\* What moves a booting process forward.
InitModules(i) ==
    SkipSync(i) \/ SyncOp(i) \/ SyncConflict(i) \/ SyncDone(i)

Process(i) == Boot(i) \/ AutoIndex(i) \/ InitModules(i) \/ SyncLost(i) \/ Stop(i)

Operator(o) ==
    \/ \E r \in Rais, withDeleted \in BOOLEAN : Load(o, r, withDeleted)
    \/ Enable(o) \/ Disable(o) \/ SoftDelete(o) \/ Restore(o)

RegistryNext ==
    \/ Deploy
    \/ \E i \in Instances : Process(i)
    \/ \E o \in Operators : Operator(o)
    \/ \E r \in Rais, value \in BOOLEAN : PatchDeleted(r, value)

Spec == Init /\ [][RegistryNext]_vars

\* A process that is booting goes on: its awaits are on MongoDB commands that
\* return or fail.  Nothing makes anyone boot, stop, deploy or toggle.
BootsGoOn == \A i \in Instances : WF_vars(InitModules(i))

-----------------------------------------------------------------------------
ProcState == [phase : {"down", "initModules", "serving"}, release : Releases,
              cursor : Nat, outcome : Outcomes, indexing : BOOLEAN]

\* Every variable has its type; the bulk's cursor stays within the table.
TypeOK ==
    /\ resources \in [Rais -> Document \cup {NoDoc}]
    /\ indexed \in BOOLEAN
    /\ deployed \in Releases
    /\ proc \in [Instances -> ProcState]
    /\ held \in [Operators -> [rai : Rais, doc : Document] \cup {NoHold}]
    /\ crossed \in [Instances -> SUBSET Releases]
    /\ \A i \in Instances : proc[i].cursor <= Len(Table[proc[i].release])

\* Once the unique index exists, no two resources share method and path,
\* whatever boots, syncs, crashes and operators' saves came before or after
\* (ResourceSchema.index, resource.model.ts).
UniqueOnceIndexed == indexed => ~Duplicates

\* Route k is the last of the first n routes with its RAI.
LastUpTo(rel, n, k) ==
    \A j \in 1..n : Table[rel][j].rai = Table[rel][k].rai => j <= k

Mirrors(doc, route) == doc # NoDoc /\ doc.endpoint = route.endpoint
                                   /\ doc.is_root = route.root

\* The first n routes of a release are in the collection; of several routes
\* with one RAI, the last.
MirroredUpTo(rel, n) ==
    \A k \in 1..n : LastUpTo(rel, n, k) =>
        Mirrors(resources[Table[rel][k].rai], Table[rel][k])

\* Each RAI of the first n routes of a release is there as one of its routes.
MirroredByOne(rel, n) ==
    \A k \in 1..n : \E j \in RoutesOf(rel) :
        /\ Table[rel][j].rai = Table[rel][k].rai
        /\ Mirrors(resources[Table[rel][j].rai], Table[rel][j])

\* After a sync that went through, and until that process ends, each RAI of
\* its release is registered under its last route's method, path and is_root,
\* unless another process has synced since this one booted; under one of its
\* routes, if those others synced the same release.  No operator's save of an
\* older copy undoes it, nor the boot, the crash or the lost sync of a
\* process that wrote nothing: only another release's sync does.
MirrorComplete ==
    \A i \in SyncInstances : proc[i].outcome = "synced" =>
        LET rel == proc[i].release
            n   == Len(Table[rel])
        IN  /\ crossed[i] = {} => MirroredUpTo(rel, n)
            /\ crossed[i] \subseteq {rel} => MirroredByOne(rel, n)

\* A sync, a crash or a save of a stale copy never flips the is_enabled of a
\* registered resource: only an operator's enable() or disable() of that very
\* resource does, so a disabled resource stays disabled over every restart
\* and release, and a resource is never unregistered.
ToggleStep ==
    \A r \in Rais : Registered(r) =>
        /\ Registered(r)'
        /\ resources'[r].is_enabled # resources[r].is_enabled =>
              \E o \in Operators : held[o] # NoHold /\ held[o].rai = r
                                   /\ (Enable(o) \/ Disable(o))
TogglesSurvive == [][ToggleStep]_vars

\* initModules ends in every process that starts it and is not stopped, over
\* any number of conflicts and lost connections.
BootTerminates ==
    \A i \in Instances :
        proc[i].phase = "initModules" ~> proc[i].phase # "initModules"
=============================================================================
