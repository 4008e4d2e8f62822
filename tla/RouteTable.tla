----------------------------- MODULE RouteTable -----------------------------
(***************************************************************************)
(* The route table of a release: the RouteRecord[] every module collects   *)
(* with defineRoutes(), concatenated in the order of config.app.modules,   *)
(* and the order in which Express tries those routes for a request.        *)
(*                                                                         *)
(* A method and a path are only ever compared as a pair, so the pair is    *)
(* one value, an endpoint.  Path patterns (":categoryId") matter only by   *)
(* the requests they match, so UrlsOf gives the set of requests (method    *)
(* and URL) that an endpoint matches under the API prefix or at the root.  *)
(***************************************************************************)
EXTENDS Naturals, Sequences

CONSTANTS
    Rais,       \* resource access identifiers, "module:resource:action"
    Endpoints,  \* (method, path) pairs
    Urls,       \* requests, by method and URL
    Releases,   \* builds of the application that may be deployed
    Table,      \* the routes of a release, in the order the sync reads them
    UrlsOf      \* [endpoint, root] -> the requests Express matches with it

\* What the registry, the sync and the mount layer read of a RouteRecord.  A
\* route's module is the module's position in config.app.modules.
Route == [rai : Rais, endpoint : Endpoints, root : BOOLEAN, module : Nat]

ASSUME TableAssumption == Table \in [Releases -> Seq(Route)]
ASSUME UrlsAssumption  == UrlsOf \in [Endpoints \X BOOLEAN -> SUBSET Urls]

RoutesOf(rel) == DOMAIN Table[rel]

\* createApp mounts module after module, and in each module the prefixed
\* routes before the root ones; mountModuleRoutes keeps the table's order.
MountedBefore(rel, j, k) ==
    LET a == Table[rel][j]
        b == Table[rel][k]
    IN  \/ a.module < b.module
        \/ a.module = b.module /\ ~a.root /\ b.root
        \/ a.module = b.module /\ a.root = b.root /\ j < k

Matches(rel, k, url) ==
    url \in UrlsOf[<<Table[rel][k].endpoint, Table[rel][k].root>>]

\* Mutant of Remaining: next() goes to any later route, matching or not.
RemainingAny(rel, url, k) ==
    {j \in RoutesOf(rel) : k # 0 => MountedBefore(rel, k, j)}

\* The routes Express may still run for url: those that match and are
\* mounted after route k, or all that match when no route has run (k = 0).
Remaining(rel, url, k) ==
    {j \in RoutesOf(rel) :
        Matches(rel, j, url) /\ (k # 0 => MountedBefore(rel, k, j))}

\* next() hands the request to the first of them, 0 when there is none.
NextRoute(rel, url, k) ==
    LET S == Remaining(rel, url, k)
    IN  IF S = {} THEN 0
        ELSE CHOOSE j \in S : \A h \in S \ {j} : MountedBefore(rel, j, h)
=============================================================================
