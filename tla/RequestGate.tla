------------------------------ MODULE RequestGate ------------------------------
(***************************************************************************)
(* A request on its way through the Express stack of a web process, over   *)
(* the registry it is checked against: the edge middleware, the first      *)
(* route that matches, checkResourceEnabled (an await on MongoDB, so other *)
(* requests, operators and syncs run in between), authorize, the route's   *)
(* own middleware and handler, or the next route when these pass it on.    *)
(***************************************************************************)
EXTENDS ResourceRegistry, AccessControl

CONSTANTS Requests

ASSUME GateAssumption == Rais \subseteq AclRais

VARIABLE request

gateVars == <<resources, indexed, deployed, proc, held, crossed, request>>

Answers == {"edge", "unmatched", "404", "401", "403", "500", "route"}

\* A request that nobody sends, and one that reached process i.
Idle == [state |-> "idle"]
Sent(i, url, auth) ==
    [state |-> "edge", instance |-> i, release |-> proc[i].release, url |-> url,
     auth |-> auth, at |-> 0, found |-> FALSE, answer |-> "none"]

\* The route whose handlers the request is in.
RouteOf(q) == Table[request[q].release][request[q].at]

\* Mutant of PassedOn: a request no route matches is left without an answer.
PassedOnSilently(m) ==
    LET k == NextRoute(m.release, m.url, m.at)
    IN  IF k = 0 THEN m ELSE [m EXCEPT !.state = "lookup", !.at = k]

\* What next() makes of a request that has passed route m.at: the
\* next route that matches starts its lookup, or Express answers 404.
PassedOn(m) ==
    LET k == NextRoute(m.release, m.url, m.at)
    IN  IF k = 0 THEN [m EXCEPT !.state = "answered", !.answer = "unmatched"]
        ELSE [m EXCEPT !.state = "lookup", !.at = k]

Answered(m, answer) == [m EXCEPT !.state = "answered", !.answer = answer]

InFlight(q) == request[q].state \in {"edge", "lookup", "found"}

-----------------------------------------------------------------------------
GateInit == Init /\ request = [q \in Requests |-> Idle]

\* A request reaches a process that listens; authenticate reads its x-roles.
Arrive(q, i, url, auth) ==
    /\ request[q] = Idle
    /\ proc[i].phase = "serving"
    /\ request' = [request EXCEPT ![q] = Sent(i, url, auth)]
    /\ UNCHANGED vars

\* The edge: CORS preflight, rate limit, body size and body syntax may answer;
\* otherwise the first matching route starts, or none does.
Edge(q) ==
    /\ request[q].state = "edge"
    /\ request' = [request EXCEPT ![q] = PassedOn(@)]
    /\ UNCHANGED vars

EdgeRejects(q) ==
    /\ request[q].state = "edge"
    /\ request' = [request EXCEPT ![q] = Answered(@, "edge")]
    /\ UNCHANGED vars

\* Mutant of Exists: the soft-delete filter does not apply to exists().
ExistsDeletedToo(rai) == Registered(rai) /\ resources[rai].is_enabled

\* Resource.exists({_id, is_enabled: true}), which the soft-delete plugin
\* narrows to live documents.
Exists(rai) == Registered(rai) /\ resources[rai].is_enabled /\ ~resources[rai].is_deleted

Check(q) ==
    /\ request[q].state = "lookup"
    /\ request' = [request EXCEPT ![q].state = "found", ![q].found = Exists(RouteOf(q).rai)]
    /\ UNCHANGED vars

\* The query rejects and Express forwards the rejection to the error handler.
CheckFails(q) ==
    /\ request[q].state = "lookup"
    /\ request' = [request EXCEPT ![q] = Answered(@, "500")]
    /\ UNCHANGED vars

\* The rest of the route runs to its answer: 404, 401, 403, or whatever the
\* route's validation, middleware and handler make of the request.
Verdict(q) ==
    IF ~request[q].found THEN "404" ELSE Authorize(request[q].auth, RouteOf(q).rai)

Dispatch(q) ==
    /\ request[q].state = "found"
    /\ request' = [request EXCEPT ![q] =
                      IF Verdict(q) = "next" THEN Answered(@, "route")
                                             ELSE Answered(@, Verdict(q))]
    /\ UNCHANGED vars

\* ... or a middleware or the handler of the route calls next('route'), or
\* the last of them next(), and the request goes on.
FallThrough(q) ==
    /\ request[q].state = "found"
    /\ Verdict(q) = "next"
    /\ request' = [request EXCEPT ![q] = PassedOn([@ EXCEPT !.found = FALSE])]
    /\ UNCHANGED vars

\* The answer is delivered and the connection takes another request.
Delivered(q) ==
    /\ request[q].state = "answered"
    /\ request' = [request EXCEPT ![q] = Idle]
    /\ UNCHANGED vars

\* The registry's steps.  A process that stops takes its requests with it.
Registry ==
    /\ RegistryNext
    /\ request' = [q \in Requests |->
                      IF InFlight(q) /\ proc'[request[q].instance].phase # "serving"
                      THEN Idle ELSE request[q]]

Handle(q) == Edge(q) \/ Check(q) \/ CheckFails(q) \/ Dispatch(q)

GateNext ==
    \/ Registry
    \/ \E q \in Requests :
          \/ \E i \in Instances, url \in Urls, auth \in Auth : Arrive(q, i, url, auth)
          \/ Handle(q) \/ EdgeRejects(q) \/ FallThrough(q) \/ Delivered(q)

GateSpec == GateInit /\ [][GateNext]_gateVars

\* The event loop and MongoDB's client go on with every request in flight.
FairGateSpec == GateSpec /\ \A q \in Requests : WF_gateVars(Handle(q))

-----------------------------------------------------------------------------
Message == [state : {"edge", "lookup", "found", "answered"}, instance : Instances,
            release : Releases, url : Urls, auth : Auth, at : Nat, found : BOOLEAN,
            answer : Answers \cup {"none"}]

\* A request in a route is in one of its release's table that matches its URL.
GateTypeOK ==
    /\ request \in [Requests -> Message \cup {Idle}]
    /\ \A q \in Requests : request[q] # Idle =>
          /\ request[q].state \in {"lookup", "found"} \/ request[q].answer = "route"
                => request[q].at \in RoutesOf(request[q].release)
          /\ request[q].at # 0 =>
                Matches(request[q].release, request[q].at, request[q].url)

\* A route's own code runs only for a caller whose roles are granted its RAI,
\* and the RAI of every route the request fell through on its way there: a
\* handler reached by next() does not go around the guards before it.
GrantedPath ==
    \A q \in Requests : LET m == request[q] IN
        m # Idle /\ m.answer = "route" =>
            \A j \in RoutesOf(m.release) :
                j = m.at \/ (Matches(m.release, j, m.url) /\ MountedBefore(m.release, j, m.at))
                => Allowed(m.auth, Table[m.release][j].rai)

\* Once the sync of a release went through, every process of that release
\* finds a resource for every route it looks up, so that a 404 of the gate is
\* an operator's doing and never a missing registration.
SyncedReleaseKnown ==
    \A q \in Requests : LET m == request[q] IN
        /\ m # Idle /\ m.state = "lookup"
        /\ \E i \in SyncInstances : proc[i].outcome = "synced" /\ proc[i].release = m.release
        => Registered(RouteOf(q).rai)

\* Every request that reaches a process is answered, or the process stops.
EveryRequestEnds == \A q \in Requests : InFlight(q) ~> ~InFlight(q)

-----------------------------------------------------------------------------
\* The gate seen as the board of switches.
SwitchOf(rai) ==
    IF ~Registered(rai) THEN "unregistered"
    ELSE IF resources[rai].is_enabled /\ ~resources[rai].is_deleted THEN "on" ELSE "off"

ReplyOf(answer) ==
    CASE answer \in {"edge", "unmatched"} -> "outside"
      [] answer = "404"                   -> "absent"
      [] answer \in {"401", "403"}        -> "refused"
      [] answer = "route"                 -> "served"
      [] answer = "500"                   -> "error"

AskOf(q) ==
    CASE request[q].state \in {"idle", "edge"} -> [state |-> "idle"]
      [] request[q].state = "lookup"   -> [state |-> "waiting", on |-> RouteOf(q).rai]
      [] request[q].state = "found"    -> [state |-> "read", on |-> RouteOf(q).rai,
                                           lit |-> request[q].found]
      [] request[q].state = "answered" -> [state |-> "replied",
                                           reply |-> ReplyOf(request[q].answer)]

Board == INSTANCE Switchboard
         WITH Switches <- Rais, Askers <- Requests,
              switch <- [r \in Rais |-> SwitchOf(r)],
              ask <- [q \in Requests |-> AskOf(q)]

\* The gate keeps the board's promise: each reply follows one reading of the
\* resource's state between question and reply, the ACL and the handler see
\* only requests whose reading was "on", and nothing registers a resource in
\* any position but on, or takes a registration away.
ImplementsBoard == Board!BoardSpec
=============================================================================
