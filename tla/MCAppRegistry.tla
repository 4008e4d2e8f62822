---------------------------- MODULE MCAppRegistry ----------------------------
(***************************************************************************)
(* The registry with the route table this repository ships, one process    *)
(* and no operator.  The properties are what the repository's README and   *)
(* comments say of the sync.                                               *)
(***************************************************************************)
EXTENDS ResourceRegistry, AppTable

MCTable == [rel \in {"shipped"} |-> AppRoutes]

\* The database answered the whole bulk, with a success or a refusal.
Answered(i) == proc[i].outcome \in {"synced", "conflict"}

\* "every route is mirrored to a Resource document on boot" (README.md): once
\* the database answered the sync, each route's RAI is registered.
EveryRouteRegistered ==
    \A i \in SyncInstances : Answered(i) =>
        \A k \in RoutesOf(proc[i].release) : Registered(Table[proc[i].release][k].rai)

\* "This prevents the creation of multiple resources with the same method and
\* path" (resource.model.ts): with the processes up and the index attempts
\* answered, no two resources share an endpoint.
EndpointsUnique ==
    (\A i \in Instances : proc[i].phase = "serving" /\ ~proc[i].indexing) => ~Duplicates
=============================================================================
