--------------------------- MODULE RequestGateProofs ---------------------------
(***************************************************************************)
(* Theorems about RequestGate, for every route table, ACL, release, number *)
(* of processes, operators and requests.                                   *)
(***************************************************************************)
EXTENDS RequestGate, ResourceRegistryProofs, WellFoundedInduction

-----------------------------------------------------------------------------
\* Every nonempty set of naturals has a least element.
LEMMA LeastNat ==
    ASSUME NEW S, S \subseteq Nat, S # {}
    PROVE  \E x \in S : \A y \in S : x <= y
  <1>1. PICK x \in S : \A y \in S : ~(<<y, x>> \in OpToRel(<, Nat))
    BY NatLessThanWellFounded, WFMin
  <1>2. \A y \in S : ~(y < x)
    BY <1>1 DEF OpToRel
  <1> QED  BY <1>2

\* A route is one of its release's table, in the positions that count from 1.
LEMMA RouteFacts ==
    ASSUME NEW rel \in Releases
    PROVE  /\ 0 \notin RoutesOf(rel) /\ RoutesOf(rel) \subseteq Nat
           /\ \A k \in RoutesOf(rel) :
                 /\ Table[rel][k].rai \in Rais /\ Table[rel][k].module \in Nat
                 /\ Table[rel][k].root \in BOOLEAN
  <1>1. Table[rel] \in Seq(Route)
    BY TableAssumption
  <1>2. RoutesOf(rel) = 1..Len(Table[rel]) /\ Len(Table[rel]) \in Nat
    BY <1>1 DEF RoutesOf
  <1>3. \A k \in RoutesOf(rel) : Table[rel][k] \in Route
    BY <1>1, <1>2
  <1> QED  BY <1>2, <1>3 DEF Route

\* The order of mounting is a strict total order on the routes of a release.
LEMMA MountOrder ==
    ASSUME NEW rel \in Releases,
           NEW i \in RoutesOf(rel), NEW j \in RoutesOf(rel), NEW k \in RoutesOf(rel)
    PROVE  /\ ~MountedBefore(rel, i, i)
           /\ MountedBefore(rel, i, j) => ~MountedBefore(rel, j, i)
           /\ i # j => MountedBefore(rel, i, j) \/ MountedBefore(rel, j, i)
           /\ MountedBefore(rel, i, j) /\ MountedBefore(rel, j, k) => MountedBefore(rel, i, k)
  BY RouteFacts DEF MountedBefore

\* So a nonempty set of routes has one that is mounted first: the first
\* module, its prefixed routes if it has any, the first of the table.
LEMMA FirstMounted ==
    ASSUME NEW rel \in Releases, NEW S, S \subseteq RoutesOf(rel), S # {}
    PROVE  \E j \in S : \A h \in S \ {j} : MountedBefore(rel, j, h)
  <1> DEFINE mod(k) == Table[rel][k].module
             A == {k \in S : \A h \in S : mod(k) <= mod(h)}
             B == IF \E k \in A : ~Table[rel][k].root
                  THEN {k \in A : ~Table[rel][k].root} ELSE A
             M == {mod(k) : k \in S}
  <1>1. M \subseteq Nat /\ M # {}
    BY RouteFacts
  <1>2. A # {}
    <2> HIDE DEF M
    <2>1. PICK m \in M : \A y \in M : m <= y
      BY <1>1, LeastNat
    <2> QED  BY <2>1 DEF M
  <1>3. B # {} /\ B \subseteq Nat
    BY <1>2, RouteFacts
  <1>4. PICK j \in B : \A h \in B : j <= h
    BY <1>3, LeastNat
  <1>5. ASSUME NEW h \in S \ {j} PROVE MountedBefore(rel, j, h)
    <2>1. j \in S /\ j \in RoutesOf(rel) /\ h \in RoutesOf(rel) /\ mod(j) <= mod(h)
      BY <1>4, <1>5
    <2>2. CASE mod(j) < mod(h)
      BY <2>2 DEF MountedBefore
    <2>3. CASE mod(j) = mod(h)
      <3>1. h \in A
        BY <1>4, <1>5, <2>3
      <3>2. CASE ~Table[rel][j].root /\ Table[rel][h].root
        BY <2>3, <3>2 DEF MountedBefore
      <3>3. CASE Table[rel][j].root = Table[rel][h].root
        <4>1. h \in B
          BY <1>4, <3>1, <3>3
        <4> QED  BY <1>4, <1>5, <2>1, <2>3, <3>3, <4>1, RouteFacts DEF MountedBefore
      <3>4. CASE Table[rel][j].root /\ ~Table[rel][h].root
        BY <1>4, <3>1, <3>4
      <3> QED  BY <2>1, <3>2, <3>3, <3>4, RouteFacts
    <2> QED  BY <2>1, <2>2, <2>3, RouteFacts
  <1>6. j \in S
    BY <1>4
  <1> QED  BY <1>5, <1>6

\* next() goes to a route that remains, before every other one that does, and
\* finds none only when none remains.
LEMMA NextRouteFacts ==
    ASSUME NEW rel \in Releases, NEW url, NEW k
    PROVE  /\ NextRoute(rel, url, k) = 0 => Remaining(rel, url, k) = {}
           /\ NextRoute(rel, url, k) # 0 =>
                 /\ NextRoute(rel, url, k) \in Remaining(rel, url, k)
                 /\ \A h \in Remaining(rel, url, k) \ {NextRoute(rel, url, k)} :
                       MountedBefore(rel, NextRoute(rel, url, k), h)
  <1> DEFINE S == Remaining(rel, url, k)
  <1>1. S \subseteq RoutesOf(rel) /\ 0 \notin S
    BY RouteFacts DEF Remaining
  <1>2. CASE S = {}
    BY <1>2 DEF NextRoute
  <1>3. CASE S # {}
    <2> DEFINE First(j) == j \in S /\ \A h \in S \ {j} : MountedBefore(rel, j, h)
    <2>1. \E j : First(j)
      BY <1>1, <1>3, FirstMounted
    <2>2. First(CHOOSE j \in S : \A h \in S \ {j} : MountedBefore(rel, j, h))
      BY <2>1
    <2>3. NextRoute(rel, url, k) = CHOOSE j \in S : \A h \in S \ {j} : MountedBefore(rel, j, h)
      BY <1>3 DEF NextRoute
    <2> QED  BY <1>1, <2>2, <2>3
  <1> QED  BY <1>2, <1>3

-----------------------------------------------------------------------------
\* The gate leaves the registry to the registry's own steps.
LEMMA GateRegistry == GateSpec => Spec
  <1>1. GateInit => Init
    BY DEF GateInit
  <1>2. [GateNext]_gateVars => [RegistryNext]_vars
    BY DEF GateNext, gateVars, vars, Registry, Arrive, Handle, Edge, EdgeRejects, Check,
           CheckFails, Dispatch, FallThrough, Delivered
  <1> QED  BY <1>1, <1>2, PTL DEF GateSpec, Spec

\* A caller may pass the guards of all routes that come before the request's.
Guarded(m) ==
    \A j \in RoutesOf(m.release) :
        Matches(m.release, j, m.url) /\ MountedBefore(m.release, j, m.at)
            => Allowed(m.auth, Table[m.release][j].rai)

\* What makes GateTypeOK and GrantedPath inductive: a request has no answer
\* before it is answered, and it came to its route through guards that let it.
WellRouted(m) ==
    /\ m \in Message
    /\ m.state # "answered" => m.answer = "none"
    /\ m.state = "edge" => m.at = 0
    /\ m.state \in {"lookup", "found"} \/ m.answer = "route" =>
          m.at \in RoutesOf(m.release) /\ Guarded(m)
    /\ m.at # 0 => m.at \in RoutesOf(m.release) /\ Matches(m.release, m.at, m.url)
    /\ m.answer = "route" => Allowed(m.auth, Table[m.release][m.at].rai)

GateInv ==
    /\ request \in [Requests -> Message \cup {Idle}]
    /\ \A q \in Requests : request[q] # Idle => WellRouted(request[q])

\* A request is not a mark of its absence.
LEMMA MessageFacts ==
    ASSUME NEW m \in Message
    PROVE  m # Idle /\ m.release \in Releases /\ m.state # "idle"
  BY DEF Message, Idle

\* An answer ends a request where it is.
LEMMA AnsweredFacts ==
    ASSUME NEW m \in Message, NEW answer \in Answers
    PROVE  /\ Answered(m, answer) \in Message
           /\ Answered(m, answer).state = "answered"
           /\ Answered(m, answer).answer = answer
           /\ \A f \in {"instance", "release", "url", "auth", "at"} :
                 Answered(m, answer)[f] = m[f]
  BY DEF Answered, Message

\* A lookup that is answered leaves the request in its route.
LEMMA FoundFacts ==
    ASSUME NEW m \in Message, NEW found \in BOOLEAN
    PROVE  LET n == [m EXCEPT !.state = "found", !.found = found] IN
           /\ n \in Message /\ n.state = "found" /\ n.found = found
           /\ \A f \in {"instance", "release", "url", "auth", "at", "answer"} : n[f] = m[f]
  BY DEF Message

\* next() brings a request to the first route that remains, or to its end.
LEMMA PassedOnFacts ==
    ASSUME NEW m \in Message
    PROVE  /\ PassedOn(m) \in Message
           /\ \A f \in {"instance", "release", "url", "auth"} : PassedOn(m)[f] = m[f]
           /\ \/ PassedOn(m).state = "answered" /\ PassedOn(m).answer = "unmatched"
                 /\ PassedOn(m).at = m.at
              \/ /\ PassedOn(m).state = "lookup" /\ PassedOn(m).answer = m.answer
                 /\ PassedOn(m).at \in Remaining(m.release, m.url, m.at)
                 /\ \A h \in Remaining(m.release, m.url, m.at) \ {PassedOn(m).at} :
                       MountedBefore(m.release, PassedOn(m).at, h)
  <1> DEFINE k == NextRoute(m.release, m.url, m.at)
  <1>1. CASE k = 0
    BY <1>1 DEF PassedOn, Message, Answers
  <1>2. CASE k # 0
    <2>1. /\ k \in Remaining(m.release, m.url, m.at)
          /\ \A h \in Remaining(m.release, m.url, m.at) \ {k} : MountedBefore(m.release, k, h)
      BY <1>2, MessageFacts, NextRouteFacts
    <2>2. k \in Nat
      BY <2>1, MessageFacts, RouteFacts DEF Remaining
    <2>3. PassedOn(m) = [m EXCEPT !.state = "lookup", !.at = k]
      BY <1>2 DEF PassedOn
    <2> HIDE DEF k
    <2>4. /\ PassedOn(m) \in Message
          /\ \A f \in {"instance", "release", "url", "auth", "answer"} : PassedOn(m)[f] = m[f]
          /\ PassedOn(m).state = "lookup" /\ PassedOn(m).at = k
      BY <2>2, <2>3 DEF Message
    <2> QED  BY <2>1, <2>4
  <1> QED  BY <1>1, <1>2

\* A request that starts its way, or that passed the guard of its route, meets
\* the next route with all the guards before it passed.
LEMMA PassedOnRouted ==
    ASSUME NEW m \in Message, m.answer = "none",
           \/ m.at = 0
           \/ /\ m.at \in RoutesOf(m.release) /\ Matches(m.release, m.at, m.url)
              /\ Guarded(m) /\ Allowed(m.auth, Table[m.release][m.at].rai)
    PROVE  WellRouted(PassedOn(m))
  <1> DEFINE n == PassedOn(m)
  <1>1. /\ n \in Message /\ m.release \in Releases
        /\ n.release = m.release /\ n.url = m.url /\ n.auth = m.auth
    BY PassedOnFacts, MessageFacts
  <1>2. CASE n.state = "answered" /\ n.answer = "unmatched" /\ n.at = m.at
    BY <1>1, <1>2 DEF WellRouted
  <1>3. CASE /\ n.state = "lookup" /\ n.answer = m.answer
             /\ n.at \in Remaining(m.release, m.url, m.at)
             /\ \A h \in Remaining(m.release, m.url, m.at) \ {n.at} :
                   MountedBefore(m.release, n.at, h)
    <2>1. n.at \in RoutesOf(m.release) /\ Matches(m.release, n.at, m.url)
      BY <1>3 DEF Remaining
    <2>2. ASSUME NEW j \in RoutesOf(m.release), Matches(m.release, j, m.url),
                 MountedBefore(m.release, j, n.at)
          PROVE  Allowed(m.auth, Table[m.release][j].rai)
      <3>1. j \notin Remaining(m.release, m.url, m.at)
        BY <1>1, <1>3, <2>1, <2>2, MountOrder
      <3>2. m.at # 0 /\ ~MountedBefore(m.release, m.at, j)
        BY <2>2, <3>1 DEF Remaining
      <3>3. j = m.at \/ MountedBefore(m.release, j, m.at)
        BY <1>1, <3>2, MountOrder
      <3> QED  BY <2>2, <3>2, <3>3 DEF Guarded
    <2>3. Guarded(n)
      BY <1>1, <2>2 DEF Guarded
    <2> HIDE DEF n
    <2>4. WellRouted(n)
      BY <1>1, <1>3, <2>1, <2>3 DEF WellRouted
    <2> QED  BY <2>4 DEF n
  <1> QED  BY <1>2, <1>3, PassedOnFacts

\* Any answer but the route's own may come anywhere.
LEMMA AnsweredRouted ==
    ASSUME NEW m, WellRouted(m), NEW answer \in Answers,
           answer = "route" => /\ m.state = "found"
                               /\ Allowed(m.auth, Table[m.release][m.at].rai)
    PROVE  WellRouted(Answered(m, answer))
  <1> DEFINE n == Answered(m, answer)
  <1>1. /\ n \in Message /\ n.state = "answered" /\ n.answer = answer /\ n.release = m.release
        /\ n.url = m.url /\ n.auth = m.auth /\ n.at = m.at
    BY AnsweredFacts DEF WellRouted
  <1>2. Guarded(m) => Guarded(n)
    BY <1>1 DEF Guarded
  <1> HIDE DEF n
  <1>3. WellRouted(n)
    BY <1>1, <1>2 DEF WellRouted
  <1> QED  BY <1>3 DEF n

\* A lookup changes nothing but what is known of the resource.
LEMMA FoundRouted ==
    ASSUME NEW m, WellRouted(m), m.state = "lookup", NEW found \in BOOLEAN
    PROVE  WellRouted([m EXCEPT !.state = "found", !.found = found])
  <1> DEFINE n == [m EXCEPT !.state = "found", !.found = found]
  <1>1. /\ n \in Message /\ n.state = "found" /\ n.answer = m.answer /\ n.release = m.release
        /\ n.url = m.url /\ n.auth = m.auth /\ n.at = m.at
    BY FoundFacts DEF WellRouted
  <1>2. Guarded(m) => Guarded(n)
    BY <1>1 DEF Guarded
  <1> HIDE DEF n
  <1>3. WellRouted(n)
    BY <1>1, <1>2 DEF WellRouted
  <1> QED  BY <1>3 DEF n

\* A request that moves to a well-routed state, or ends, keeps the others.
LEMMA RequestMoves ==
    ASSUME GateInv, NEW q \in Requests, NEW m, m = Idle \/ WellRouted(m),
           request' = [request EXCEPT ![q] = m]
    PROVE  GateInv'
  BY DEF GateInv, WellRouted

\* No request has arrived.
LEMMA InitGateInv == GateInit => GateInv
  BY DEF GateInit, GateInv

\* Every step of the gate, and of the registry under it, keeps requests routed.
LEMMA NextGateInv == TypeOK /\ GateInv /\ [GateNext]_gateVars => GateInv'
  <1> SUFFICES ASSUME TypeOK, GateInv, [GateNext]_gateVars PROVE GateInv'
    OBVIOUS
  <1>0. \A q \in Requests : request[q].state # "idle" => WellRouted(request[q])
    BY DEF GateInv, Idle
  <1>1. CASE Registry
    BY <1>1 DEF Registry, GateInv
  <1>2. ASSUME NEW q \in Requests, NEW i \in Instances, NEW url \in Urls, NEW auth \in Auth,
               Arrive(q, i, url, auth)
        PROVE  GateInv'
    <2> DEFINE m == Sent(i, url, auth)
    <2>1. WellRouted(m)
      <3>1. proc[i].release \in Releases
        BY DEF TypeOK, ProcState
      <3> QED  BY <3>1 DEF Sent, WellRouted, Message, Answers
    <2>2. request' = [request EXCEPT ![q] = m]
      BY <1>2 DEF Arrive
    <2> HIDE DEF m
    <2> QED  BY <2>1, <2>2, RequestMoves
  <1>3. ASSUME NEW q \in Requests, Edge(q)
        PROVE  GateInv'
    <2>1. request[q] \in Message /\ request[q].at = 0 /\ request[q].answer = "none"
      BY <1>0, <1>3 DEF Edge, WellRouted
    <2> QED  BY <1>3, <2>1, PassedOnRouted, RequestMoves DEF Edge
  <1>4. ASSUME NEW q \in Requests, EdgeRejects(q)
        PROVE  GateInv'
    <2>1. WellRouted(Answered(request[q], "edge"))
      BY <1>0, <1>4, AnsweredRouted DEF EdgeRejects, Answers
    <2> QED  BY <1>4, <2>1, RequestMoves DEF EdgeRejects
  <1>5. ASSUME NEW q \in Requests, Check(q)
        PROVE  GateInv'
    <2> DEFINE found == Exists(RouteOf(q).rai)
               m == [request[q] EXCEPT !.state = "found", !.found = found]
    <2>1. found \in BOOLEAN
      <3>1. RouteOf(q).rai \in Rais
        BY <1>0, <1>5, MessageFacts, RouteFacts DEF Check, WellRouted, RouteOf
      <3> QED  BY <3>1 DEF Exists, Registered, TypeOK, Document
    <2>2. request' = [request EXCEPT ![q] = m]
      BY <1>5 DEF Check
    <2> HIDE DEF found
    <2>3. WellRouted(m)
      BY <1>0, <1>5, <2>1, FoundRouted DEF Check
    <2> HIDE DEF m
    <2> QED  BY <2>2, <2>3, RequestMoves
  <1>6. ASSUME NEW q \in Requests, CheckFails(q)
        PROVE  GateInv'
    <2>1. WellRouted(Answered(request[q], "500"))
      BY <1>0, <1>6, AnsweredRouted DEF CheckFails, Answers
    <2> QED  BY <1>6, <2>1, RequestMoves DEF CheckFails
  <1>7. ASSUME NEW q \in Requests, Dispatch(q)
        PROVE  GateInv'
    <2> DEFINE answer == IF Verdict(q) = "next" THEN "route" ELSE Verdict(q)
    <2>1. /\ answer \in Answers
          /\ answer = "route" =>
                Allowed(request[q].auth, Table[request[q].release][request[q].at].rai)
      BY DEF Verdict, Authorize, Answers, RouteOf
    <2>2. request' = [request EXCEPT ![q] = Answered(@, answer)]
      BY <1>7 DEF Dispatch
    <2> HIDE DEF answer
    <2>3. WellRouted(Answered(request[q], answer))
      BY <1>0, <1>7, <2>1, AnsweredRouted DEF Dispatch
    <2> QED  BY <2>2, <2>3, RequestMoves
  <1>8. ASSUME NEW q \in Requests, FallThrough(q)
        PROVE  GateInv'
    <2> DEFINE m == [request[q] EXCEPT !.found = FALSE]
    <2>1. /\ WellRouted(request[q]) /\ request[q].state = "found"
          /\ Allowed(request[q].auth, Table[request[q].release][request[q].at].rai)
      BY <1>0, <1>8 DEF FallThrough, Verdict, Authorize, RouteOf
    <2>2. /\ m \in Message /\ m.answer = request[q].answer /\ m.at = request[q].at
          /\ m.release = request[q].release /\ m.url = request[q].url /\ m.auth = request[q].auth
      BY <2>1 DEF WellRouted, Message
    <2>3. request' = [request EXCEPT ![q] = PassedOn(m)]
      BY <1>8 DEF FallThrough
    <2>4. Guarded(request[q]) => Guarded(m)
      BY <2>2 DEF Guarded
    <2> HIDE DEF m
    <2>5. WellRouted(PassedOn(m))
      <3>1. request[q].answer = "none"
        BY <2>1 DEF WellRouted
      <3>2. /\ m.at \in RoutesOf(m.release) /\ Matches(m.release, m.at, m.url)
            /\ Guarded(m)
        BY <2>1, <2>2, <2>4, MessageFacts, RouteFacts DEF WellRouted
      <3> QED  BY <2>1, <2>2, <3>1, <3>2, PassedOnRouted
    <2> QED  BY <2>3, <2>5, RequestMoves
  <1>9. ASSUME NEW q \in Requests, Delivered(q)
        PROVE  GateInv'
    BY <1>9, RequestMoves DEF Delivered
  <1>10. CASE UNCHANGED gateVars
    BY <1>10 DEF gateVars, GateInv
  <1> QED  BY <1>1, <1>2, <1>3, <1>4, <1>5, <1>6, <1>7, <1>8, <1>9, <1>10
           DEF GateNext, Handle

\* In every reachable state requests are routed through guards that let them.
LEMMA GateRouting == GateSpec => []GateInv
  BY InitGateInv, NextGateInv, GateRegistry, TypeCorrect, PTL DEF GateSpec

\* GateTypeOK: a request in a route is in a route of its own release that
\* matches its URL, whatever releases and processes come and go meanwhile.
THEOREM GateTypeCorrect == GateSpec => []GateTypeOK
  <1>1. GateInv => GateTypeOK
    BY DEF GateInv, WellRouted, GateTypeOK
  <1> QED  BY <1>1, GateRouting, PTL

\* GrantedPath: no order of mounting, no next() and no toggle
\* brings a request to a route's code around a guard that would refuse it.
THEOREM PathGranted == GateSpec => []GrantedPath
  <1>1. GateInv => GrantedPath
    BY DEF GateInv, WellRouted, Guarded, GrantedPath
  <1> QED  BY <1>1, GateRouting, PTL

-----------------------------------------------------------------------------
\* SyncedReleaseKnown: once the sync of a release went through, no process of
\* that release answers 404 for want of a registration.
THEOREM SyncedKnown == GateSpec => []SyncedReleaseKnown
  <1>1. GateInv /\ SyncProgress => SyncedReleaseKnown
    <2> SUFFICES ASSUME GateInv, SyncProgress, NEW q \in Requests,
                        request[q] # Idle, request[q].state = "lookup",
                        NEW i \in SyncInstances, proc[i].outcome = "synced",
                        proc[i].release = request[q].release
                 PROVE  Registered(RouteOf(q).rai)
      BY DEF SyncedReleaseKnown
    <2> DEFINE rel == request[q].release
    <2>1. rel \in Releases /\ request[q].at \in RoutesOf(rel)
      BY MessageFacts DEF GateInv, WellRouted
    <2>2. request[q].at \in 1..Len(Table[rel])
      BY <2>1, TableFacts
    <2>3. \A k \in 1..Len(Table[rel]) : Registered(Table[rel][k].rai)
      BY DEF SyncProgress, Covered
    <2> QED  BY <2>2, <2>3 DEF RouteOf
  <1> QED  BY <1>1, GateRouting, GateRegistry, Progress, PTL

-----------------------------------------------------------------------------
\* The board as the gate shows it.
Lamps == [r \in Rais |-> SwitchOf(r)]
Asks  == [q \in Requests |-> AskOf(q)]

\* A request in flight is in a process that serves: one that stops takes its
\* requests with it.
Attended == \A q \in Requests : InFlight(q) => proc[request[q].instance].phase = "serving"

\* A write to the registry is one document's, new ones enabled and live.
Written(s, d) ==
    /\ resources' = [resources EXCEPT ![s] = d]
    /\ ~Registered(s) => d.is_enabled /\ ~d.is_deleted

\* What the registry's steps do to the collection.
LEMMA RegistryWrites ==
    ASSUME TypeInv, [RegistryNext]_vars
    PROVE  UNCHANGED resources \/ \E s \in Rais, d \in Document : Written(s, d)
  <1>1. ASSUME NEW i \in Instances, SyncOp(i)
        PROVE  \E s \in Rais, d \in Document : Written(s, d)
    <2> DEFINE s == NextOp(i).rai
               d == Upserted(resources[s], NextOp(i))
    <2>1. s \in Rais /\ NextOp(i) \in Route
      BY <1>1, NextOpFacts DEF SyncOp, TypeInv
    <2>2. d \in Document
      BY <2>1, UpsertedFacts DEF TypeInv, TypeOK
    <2>3. ~Registered(s) => d.is_enabled /\ ~d.is_deleted
      BY DEF Registered, Upserted
    <2> QED  BY <1>1, <2>1, <2>2, <2>3 DEF SyncOp, Written
  <1>2. ASSUME NEW o \in Operators, NEW value \in BOOLEAN, SetEnabled(o, value)
        PROVE  \E s \in Rais, d \in Document : Written(s, d)
    <2> DEFINE s == held[o].rai
               d == SavedEnabled(resources[s], held[o].doc, value)
    <2>1. s \in Rais /\ held[o].doc \in Document /\ resources[s] \in Document /\ Registered(s)
      BY <1>2 DEF SetEnabled, TypeInv, TypeOK, HeldRegistered, Registered
    <2> QED  BY <1>2, <2>1, SavedFacts DEF SetEnabled, Written
  <1>3. ASSUME NEW o \in Operators, NEW value \in BOOLEAN, SetDeleted(o, value)
        PROVE  \E s \in Rais, d \in Document : Written(s, d)
    <2> DEFINE s == held[o].rai
               d == SavedDeleted(resources[s], held[o].doc, value)
    <2>1. s \in Rais /\ held[o].doc \in Document /\ resources[s] \in Document /\ Registered(s)
      BY <1>3 DEF SetDeleted, TypeInv, TypeOK, HeldRegistered, Registered
    <2> QED  BY <1>3, <2>1, SavedFacts DEF SetDeleted, Written
  <1>4. ASSUME NEW s \in Rais, NEW value \in BOOLEAN, PatchDeleted(s, value)
        PROVE  \E d \in Document : Written(s, d)
    <2> DEFINE d == [resources[s] EXCEPT !.is_deleted = value]
    <2>1. resources[s] \in Document
      BY <1>4 DEF PatchDeleted, Registered, TypeInv, TypeOK
    <2>2. d \in Document
      BY <2>1 DEF Document
    <2>3. resources' = [resources EXCEPT ![s] = d] /\ Registered(s)
      BY <1>4 DEF PatchDeleted
    <2> QED  BY <2>2, <2>3 DEF Written
  <1>5. ASSUME NEW i \in Instances, AutoIndex(i)
        PROVE  UNCHANGED resources
    BY <1>5 DEF AutoIndex
  <1> QED  BY <1>1, <1>2, <1>3, <1>4, <1>5, QuietSteps

\* Such a write registers a switch, turns it, or does not touch the board.
LEMMA LampMoves ==
    ASSUME TypeInv, NEW s \in Rais, NEW d \in Document, Written(s, d)
    PROVE  \/ UNCHANGED Lamps
           \/ Lamps[s] = "unregistered" /\ Lamps' = [Lamps EXCEPT ![s] = "on"]
           \/ /\ Lamps[s] # "unregistered"
              /\ Lamps' = [Lamps EXCEPT ![s] = IF @ = "on" THEN "off" ELSE "on"]
  <1> DEFINE lit == IF d.is_enabled /\ ~d.is_deleted THEN "on" ELSE "off"
  <1>1. \A r \in Rais : SwitchOf(r)' = IF r = s THEN lit ELSE SwitchOf(r)
    <2>1. d # NoDoc
      BY NoDocAssumption
    <2>2. \A r \in Rais : resources'[r] = IF r = s THEN d ELSE resources[r]
      BY DEF Written, TypeInv, TypeOK
    <2> QED  BY <2>1, <2>2 DEF SwitchOf, Registered
  <1>2. Lamps' = [Lamps EXCEPT ![s] = lit]
    BY <1>1 DEF Lamps
  <1>3. Lamps[s] = SwitchOf(s) /\ SwitchOf(s) \in {"unregistered", "on", "off"}
    BY DEF Lamps, SwitchOf
  <1>4. SwitchOf(s) = "unregistered" => lit = "on"
    BY DEF Written, SwitchOf
  <1>5. lit \in {"on", "off"} /\ (lit = SwitchOf(s) => UNCHANGED Lamps)
    BY <1>2, <1>3 DEF Lamps
  <1> HIDE DEF lit, Lamps
  <1> QED  BY <1>2, <1>3, <1>4, <1>5

\* What the board sees of a request.
AskOfMessage(m) ==
    CASE m.state \in {"idle", "edge"} -> Board!Idle
      [] m.state = "lookup"   -> Board!Waiting(Table[m.release][m.at].rai)
      [] m.state = "found"    -> Board!Read(Table[m.release][m.at].rai, m.found)
      [] m.state = "answered" -> Board!Replied(ReplyOf(m.answer))

\* It depends on that request alone.
LEMMA AsksByMessage == Asks = [q \in Requests |-> AskOfMessage(request[q])]
  BY DEF Asks, AskOf, AskOfMessage, RouteOf, Board!Idle, Board!Waiting, Board!Read, Board!Replied

\* The registry is still while a request moves.
LEMMA AskMoves ==
    ASSUME GateInv, NEW q \in Requests, NEW m, request' = [request EXCEPT ![q] = m],
           UNCHANGED vars
    PROVE  UNCHANGED Lamps /\ Asks' = [Asks EXCEPT ![q] = AskOfMessage(m)]
  <1>1. UNCHANGED Lamps
    BY DEF vars, Lamps, SwitchOf, Registered
  <1>2. Asks' = [p \in Requests |-> AskOfMessage(request'[p])]
    BY DEF Asks, AskOf, AskOfMessage, RouteOf, Board!Idle, Board!Waiting, Board!Read, Board!Replied
  <1>3. \A p \in Requests : request'[p] = IF p = q THEN m ELSE request[p]
    BY DEF GateInv
  <1> QED  BY <1>1, <1>2, <1>3, AsksByMessage

\* next() asks the next switch, or leaves the board.
LEMMA PassedOnAsks ==
    ASSUME NEW m \in Message, m.at = 0 \/ m.at \in RoutesOf(m.release)
    PROVE  AskOfMessage(PassedOn(m)) \in {Board!Waiting(r) : r \in Rais}
                                           \cup {Board!Replied("outside")}
  <1> DEFINE n == PassedOn(m)
  <1>1. n.release = m.release /\ m.release \in Releases
    BY PassedOnFacts, MessageFacts
  <1>2. CASE n.state = "answered" /\ n.answer = "unmatched"
    BY <1>2 DEF AskOfMessage, ReplyOf
  <1>3. CASE n.state = "lookup" /\ n.at \in Remaining(m.release, m.url, m.at)
    <2>1. Table[n.release][n.at].rai \in Rais
      BY <1>1, <1>3, RouteFacts DEF Remaining
    <2>2. AskOfMessage(n) = Board!Waiting(Table[n.release][n.at].rai)
      BY <1>3 DEF AskOfMessage
    <2> QED  BY <2>1, <2>2
  <1> QED  BY <1>2, <1>3, PassedOnFacts

\* A process stops serving only by ending, which leaves the registry alone.
LEMMA StopsLeaveRegistry ==
    ASSUME TypeInv, RegistryNext, NEW i \in Instances,
           proc[i].phase = "serving", proc'[i].phase # "serving"
    PROVE  UNCHANGED resources
  <1>1. ASSUME NEW j \in Instances, SyncOp(j) PROVE proc'[i].phase = "serving"
    <2>1. proc[j].phase = "initModules"
      BY <1>1 DEF SyncOp, Syncing
    <2>2. proc' = [proc EXCEPT ![j] = Ahead(@)] /\ i # j
      BY <1>1, <2>1 DEF SyncOp
    <2> QED  BY <2>2 DEF TypeInv, TypeOK
  <1>2. ASSUME NEW o \in Operators, Operator(o) PROVE UNCHANGED proc
    BY <1>2 DEF Operator, Load, Enable, Disable, SoftDelete, Restore, SetEnabled, SetDeleted
  <1>3. ASSUME NEW r \in Rais, NEW value \in BOOLEAN, PatchDeleted(r, value) PROVE UNCHANGED proc
    BY <1>3 DEF PatchDeleted
  <1> QED  BY <1>1, <1>2, <1>3 DEF RegistryNext, Deploy, Process, Boot, AutoIndex, InitModules,
           SkipSync, SyncConflict, SyncDone, SyncLost, Stop

\* A registry step cuts the requests of a process that stops, and no others.
LEMMA RegistryAsks ==
    ASSUME TypeInv, GateInv, Attended, Registry
    PROVE  \/ \E Q \in SUBSET Requests :
                 /\ UNCHANGED resources
                 /\ Asks' = [q \in Requests |-> IF q \in Q THEN Board!Idle ELSE Asks[q]]
           \/ UNCHANGED Asks
  <1> DEFINE cut(q) == InFlight(q) /\ proc'[request[q].instance].phase # "serving"
  <1>1. request' = [q \in Requests |-> IF cut(q) THEN Idle ELSE request[q]]
    BY DEF Registry
  <1>2. Asks' = [q \in Requests |-> AskOfMessage(request'[q])]
    BY DEF Asks, AskOf, AskOfMessage, RouteOf, Board!Idle, Board!Waiting, Board!Read, Board!Replied
  <1>3. AskOfMessage(Idle) = Board!Idle
    BY DEF AskOfMessage, Idle
  <1>4. CASE \E q \in Requests : cut(q)
    <2>1. PICK q \in Requests : cut(q)
      BY <1>4
    <2>2. /\ proc[request[q].instance].phase = "serving"
          /\ proc'[request[q].instance].phase # "serving"
          /\ request[q].instance \in Instances
      BY <2>1 DEF Attended, InFlight, GateInv, WellRouted, Message, Idle
    <2>3. UNCHANGED resources
      BY <2>2, StopsLeaveRegistry DEF Registry
    <2> DEFINE Q == {p \in Requests : cut(p)}
    <2>4. Asks' = [p \in Requests |-> IF p \in Q THEN Board!Idle ELSE Asks[p]]
      BY <1>1, <1>2, <1>3, AsksByMessage
    <2> QED  BY <2>3, <2>4
  <1>5. CASE ~\E q \in Requests : cut(q)
    BY <1>1, <1>2, <1>5, AsksByMessage
  <1> QED  BY <1>4, <1>5

\* No request has reached a process.
LEMMA InitAttended == GateInit => Attended
  BY DEF GateInit, Attended, InFlight, Idle

\* New requests reach processes that serve, and a process that stops takes
\* its requests with it.
LEMMA NextAttended == GateInv /\ Attended /\ [GateNext]_gateVars => Attended'
  <1> SUFFICES ASSUME GateInv, Attended, [GateNext]_gateVars PROVE Attended'
    OBVIOUS
  <1>1. CASE Registry
    BY <1>1 DEF Registry, Attended, InFlight, Idle
  <1>2. ASSUME NEW q \in Requests, NEW i \in Instances, NEW url \in Urls, NEW auth \in Auth,
               Arrive(q, i, url, auth)
        PROVE  Attended'
    BY <1>2 DEF Arrive, GateInv, Attended, InFlight, Sent, vars
  <1>3. ASSUME NEW q \in Requests, NEW m, m = Idle \/ m.instance = request[q].instance,
               InFlight(q) \/ ~(m.state \in {"edge", "lookup", "found"}),
               request' = [request EXCEPT ![q] = m], UNCHANGED vars
        PROVE  Attended'
    BY <1>3 DEF GateInv, Attended, InFlight, Idle, vars
  <1>0. \A q \in Requests : InFlight(q) => request[q] \in Message
    BY DEF GateInv, WellRouted, InFlight, Idle
  <1>4. ASSUME NEW q \in Requests, Edge(q) PROVE Attended'
    <2>1. PassedOn(request[q]).instance = request[q].instance /\ InFlight(q)
      BY <1>0, <1>4, PassedOnFacts DEF Edge, InFlight
    <2> QED  BY <1>3, <1>4, <2>1 DEF Edge
  <1>5. ASSUME NEW q \in Requests, NEW answer \in Answers, InFlight(q),
               request' = [request EXCEPT ![q] = Answered(@, answer)], UNCHANGED vars
        PROVE  Attended'
    <2>1. Answered(request[q], answer).instance = request[q].instance
      BY <1>0, <1>5, AnsweredFacts
    <2> QED  BY <1>3, <1>5, <2>1
  <1>6. ASSUME NEW q \in Requests, Check(q) PROVE Attended'
    <2> DEFINE m == [request[q] EXCEPT !.state = "found", !.found = Exists(RouteOf(q).rai)]
    <2>1. m.instance = request[q].instance /\ InFlight(q)
      BY <1>0, <1>6 DEF Check, InFlight, Message
    <2>2. request' = [request EXCEPT ![q] = m] /\ UNCHANGED vars
      BY <1>6 DEF Check
    <2> HIDE DEF m
    <2> QED  BY <1>3, <2>1, <2>2
  <1>7. ASSUME NEW q \in Requests, FallThrough(q) PROVE Attended'
    <2> DEFINE m == [request[q] EXCEPT !.found = FALSE]
    <2>1. m \in Message /\ m.instance = request[q].instance /\ InFlight(q)
      BY <1>0, <1>7 DEF FallThrough, InFlight, Message
    <2>2. request' = [request EXCEPT ![q] = PassedOn(m)] /\ UNCHANGED vars
      BY <1>7 DEF FallThrough
    <2> HIDE DEF m
    <2>3. PassedOn(m).instance = request[q].instance
      BY <2>1, PassedOnFacts
    <2> QED  BY <1>3, <2>1, <2>2, <2>3
  <1>8. ASSUME NEW q \in Requests, Delivered(q) PROVE Attended'
    BY <1>3, <1>8 DEF Delivered, Idle
  <1>9. ASSUME NEW q \in Requests, EdgeRejects(q) \/ CheckFails(q) PROVE Attended'
    BY <1>5, <1>9 DEF EdgeRejects, CheckFails, Answers, InFlight
  <1>10. ASSUME NEW q \in Requests, Dispatch(q) PROVE Attended'
    <2> DEFINE answer == IF Verdict(q) = "next" THEN "route" ELSE Verdict(q)
    <2>1. answer \in Answers
      BY DEF Verdict, Authorize, Answers
    <2>2. request' = [request EXCEPT ![q] = Answered(@, answer)] /\ UNCHANGED vars /\ InFlight(q)
      BY <1>10 DEF Dispatch, InFlight
    <2> HIDE DEF answer
    <2> QED  BY <1>5, <2>1, <2>2
  <1>11. CASE UNCHANGED gateVars
    BY <1>11 DEF gateVars, Attended, InFlight
  <1> QED  BY <1>1, <1>2, <1>4, <1>6, <1>7, <1>8, <1>9, <1>10, <1>11 DEF GateNext, Handle

\* Each step of the gate is a step on the board, or invisible there.
LEMMA StepOnBoard ==
    TypeInv /\ GateInv /\ Attended /\ [GateNext]_gateVars => [Board!BoardNext]_(Board!boardVars)
  <1> SUFFICES ASSUME TypeInv, GateInv, Attended, [GateNext]_gateVars
               PROVE  [Board!BoardNext]_(Board!boardVars)
    OBVIOUS
  <1> DEFINE Step == \/ UNCHANGED <<Lamps, Asks>>
                     \/ Board!BoardNext
  <1> SUFFICES Step
    BY DEF Board!boardVars, Lamps, Asks
  <1>r. \A q \in Requests : request[q].state # "idle" => WellRouted(request[q])
    BY DEF GateInv, Idle
  <1>a. \A q \in Requests : Asks[q] = AskOfMessage(request[q])
    BY AsksByMessage
  <1>e. \A q \in Requests : request[q].state \in {"lookup", "found"} => RouteOf(q).rai \in Rais
    BY <1>r, MessageFacts, RouteFacts DEF WellRouted, RouteOf
  <1>1. CASE Registry
    <2>1. CASE \E Q \in SUBSET Requests :
                 /\ UNCHANGED resources
                 /\ Asks' = [q \in Requests |-> IF q \in Q THEN Board!Idle ELSE Asks[q]]
      <3>1. UNCHANGED Lamps
        BY <2>1 DEF Lamps, SwitchOf, Registered
      <3> QED  BY <2>1, <3>1 DEF Board!BoardNext, Board!Leave, Lamps, Asks
    <2>2. CASE UNCHANGED Asks
      <3>1. CASE UNCHANGED resources
        <4>1. UNCHANGED Lamps
          BY <3>1 DEF Lamps, SwitchOf, Registered
        <4> QED  BY <2>2, <4>1
      <3>2. ASSUME NEW s \in Rais, NEW d \in Document, Written(s, d)
            PROVE  Step
        <4>1. CASE UNCHANGED Lamps
          BY <2>2, <4>1
        <4>2. CASE Lamps[s] = "unregistered" /\ Lamps' = [Lamps EXCEPT ![s] = "on"]
          BY <2>2, <4>2 DEF Board!BoardNext, Board!Register, Lamps, Asks
        <4>3. CASE /\ Lamps[s] # "unregistered"
                   /\ Lamps' = [Lamps EXCEPT ![s] = IF @ = "on" THEN "off" ELSE "on"]
          BY <2>2, <4>3 DEF Board!BoardNext, Board!Turn, Lamps, Asks
        <4> QED  BY <3>2, <4>1, <4>2, <4>3, LampMoves
      <3>3. [RegistryNext]_vars
        BY <1>1 DEF Registry
      <3> QED  BY <3>1, <3>2, <3>3, RegistryWrites
    <2> QED  BY <1>1, <2>1, <2>2, RegistryAsks
  <1>2. ASSUME NEW q \in Requests, NEW i \in Instances, NEW url \in Urls, NEW auth \in Auth,
               Arrive(q, i, url, auth)
        PROVE  Step
    <2>1. AskOfMessage(Sent(i, url, auth)) = Board!Idle /\ Asks[q] = Board!Idle
      BY <1>2, <1>a DEF Arrive, AskOfMessage, Sent, Idle
    <2>2. UNCHANGED Lamps /\ Asks' = [Asks EXCEPT ![q] = Board!Idle]
      BY <1>2, <2>1, AskMoves DEF Arrive
    <2> QED  BY <2>1, <2>2 DEF Asks
  <1>3. ASSUME NEW q \in Requests, Edge(q) \/ EdgeRejects(q)
        PROVE  Board!BoardNext
    <2>1. PICK m : /\ request' = [request EXCEPT ![q] = m] /\ UNCHANGED vars
                   /\ m = PassedOn(request[q]) \/ m = Answered(request[q], "edge")
      BY <1>3 DEF Edge, EdgeRejects
    <2>2. request[q] \in Message /\ request[q].state = "edge" /\ request[q].at = 0
      BY <1>3, <1>r DEF Edge, EdgeRejects, WellRouted
    <2>3. AskOfMessage(m) \in {Board!Waiting(r) : r \in Rais} \cup {Board!Replied("outside")}
      <3>1. AskOfMessage(Answered(request[q], "edge")) = Board!Replied("outside")
        BY <2>2, AnsweredFacts DEF AskOfMessage, ReplyOf, Answers
      <3> QED  BY <2>1, <2>2, <3>1, PassedOnAsks
    <2>4. Asks[q] = Board!Idle
      BY <1>a, <2>2 DEF AskOfMessage
    <2>5. UNCHANGED Lamps /\ Asks' = [Asks EXCEPT ![q] = AskOfMessage(m)]
      BY <2>1, AskMoves
    <2>6. Board!Ask(q)
      BY <2>3, <2>4, <2>5 DEF Board!Ask, Lamps, Asks
    <2> QED  BY <2>6 DEF Board!BoardNext
  <1>4. ASSUME NEW q \in Requests, Check(q) \/ CheckFails(q)
        PROVE  Board!BoardNext
    <2> DEFINE r == RouteOf(q).rai
    <2>1. request[q] \in Message /\ request[q].state = "lookup" /\ r \in Rais
      BY <1>4, <1>e, <1>r DEF Check, CheckFails, WellRouted
    <2>2. Asks[q] = Board!Waiting(r)
      BY <1>a, <2>1 DEF AskOfMessage, RouteOf
    <2>3. Exists(r) = (Lamps[r] = "on") /\ Exists(r) \in BOOLEAN
      BY <2>1 DEF Exists, Lamps, SwitchOf, Registered, TypeInv, TypeOK, Document
    <2>4. \E entry \in {Board!Read(r, Lamps[r] = "on"), Board!Replied("error")} :
             UNCHANGED Lamps /\ Asks' = [Asks EXCEPT ![q] = entry]
      <3>1. CASE Check(q)
        <4> DEFINE m == [request[q] EXCEPT !.state = "found", !.found = Exists(r)]
        <4>1. m.state = "found" /\ m.found = Exists(r) /\ m.release = request[q].release
              /\ m.at = request[q].at
          BY <2>1, <2>3, FoundFacts
        <4>2. AskOfMessage(m) = Board!Read(r, Exists(r))
          BY <4>1 DEF AskOfMessage, RouteOf
        <4>3. request' = [request EXCEPT ![q] = m] /\ UNCHANGED vars
          BY <3>1 DEF Check
        <4> HIDE DEF m
        <4>4. UNCHANGED Lamps /\ Asks' = [Asks EXCEPT ![q] = AskOfMessage(m)]
          BY <4>3, AskMoves
        <4> QED  BY <2>3, <4>2, <4>4
      <3>2. CASE CheckFails(q)
        <4>1. AskOfMessage(Answered(request[q], "500")) = Board!Replied("error")
          BY <2>1, AnsweredFacts DEF AskOfMessage, ReplyOf, Answers
        <4>2. /\ request' = [request EXCEPT ![q] = Answered(@, "500")]
              /\ UNCHANGED vars
          BY <3>2 DEF CheckFails
        <4>3. UNCHANGED Lamps /\ Asks' = [Asks EXCEPT ![q] = Board!Replied("error")]
          BY <4>1, <4>2, AskMoves
        <4> QED  BY <4>3
      <3> QED  BY <1>4, <3>1, <3>2
    <2> HIDE DEF r
    <2>5. Board!Decide(q, r)
      BY <2>1, <2>2, <2>4 DEF Board!Decide, Lamps, Asks
    <2> QED  BY <2>1, <2>5 DEF Board!BoardNext
  <1>5. ASSUME NEW q \in Requests, Dispatch(q)
        PROVE  Board!BoardNext
    <2> DEFINE r == RouteOf(q).rai
               answer == IF Verdict(q) = "next" THEN "route" ELSE Verdict(q)
    <2>1. request[q] \in Message /\ request[q].state = "found" /\ r \in Rais
      BY <1>5, <1>e, <1>r DEF Dispatch, WellRouted
    <2>2. Asks[q] = Board!Read(r, request[q].found) /\ request[q].found \in BOOLEAN
      BY <1>a, <2>1 DEF AskOfMessage, RouteOf, Message
    <2>3. /\ ~request[q].found => answer = "404"
          /\ request[q].found => answer \in {"route", "401", "403"}
      BY DEF Verdict, Authorize
    <2>4. request' = [request EXCEPT ![q] = Answered(@, answer)] /\ UNCHANGED vars
      BY <1>5 DEF Dispatch
    <2> HIDE DEF r, answer
    <2>5. AskOfMessage(Answered(request[q], answer)) = Board!Replied(ReplyOf(answer))
      <3>1. answer \in Answers
        BY <2>2, <2>3 DEF Answers
      <3> QED  BY <2>1, <3>1, AnsweredFacts DEF AskOfMessage
    <2>6. UNCHANGED Lamps /\ Asks' = [Asks EXCEPT ![q] = Board!Replied(ReplyOf(answer))]
      BY <2>4, <2>5, AskMoves
    <2>7. /\ ~request[q].found => ReplyOf(answer) = "absent"
          /\ request[q].found => ReplyOf(answer) \in {"served", "refused"}
      BY <2>3 DEF ReplyOf
    <2>8. Board!Conclude(q, r)
      BY <2>2, <2>6, <2>7 DEF Board!Conclude, Lamps, Asks
    <2> QED  BY <2>1, <2>8 DEF Board!BoardNext
  <1>6. ASSUME NEW q \in Requests, FallThrough(q)
        PROVE  Board!BoardNext
    <2> DEFINE r == RouteOf(q).rai
               m == [request[q] EXCEPT !.found = FALSE]
    <2>1. WellRouted(request[q]) /\ request[q].state = "found" /\ r \in Rais
      BY <1>6, <1>e, <1>r DEF FallThrough
    <2>2. request[q].found = TRUE
      BY <1>6, <2>1 DEF FallThrough, Verdict, WellRouted, Message
    <2>3. Asks[q] = Board!Read(r, TRUE)
      BY <1>a, <2>1, <2>2 DEF AskOfMessage, RouteOf
    <2>4. m \in Message /\ m.at \in RoutesOf(m.release)
      BY <2>1 DEF WellRouted, Message
    <2>5. request' = [request EXCEPT ![q] = PassedOn(m)] /\ UNCHANGED vars
      BY <1>6 DEF FallThrough
    <2> HIDE DEF r, m
    <2>6. AskOfMessage(PassedOn(m)) \in {Board!Waiting(s) : s \in Rais}
                                           \cup {Board!Replied("outside")}
      BY <2>4, PassedOnAsks
    <2>7. UNCHANGED Lamps /\ Asks' = [Asks EXCEPT ![q] = AskOfMessage(PassedOn(m))]
      BY <2>5, AskMoves
    <2>8. Board!Conclude(q, r)
      BY <2>3, <2>6, <2>7 DEF Board!Conclude, Lamps, Asks
    <2> QED  BY <2>1, <2>8 DEF Board!BoardNext
  <1>7. ASSUME NEW q \in Requests, Delivered(q)
        PROVE  Board!BoardNext
    <2>1. UNCHANGED Lamps /\ Asks' = [Asks EXCEPT ![q] = AskOfMessage(Idle)]
      BY <1>7, AskMoves DEF Delivered
    <2>2. AskOfMessage(Idle) = Board!Idle
      BY DEF AskOfMessage, Idle
    <2>3. Board!Leave({q})
      BY <2>1, <2>2 DEF Board!Leave, Lamps, Asks
    <2> QED  BY <2>3 DEF Board!BoardNext
  <1>8. CASE UNCHANGED gateVars
    <2>1. UNCHANGED <<Lamps, Asks>>
      BY <1>8 DEF gateVars, Lamps, SwitchOf, Registered, Asks, AskOf, RouteOf
    <2> QED  BY <2>1
  <1> HIDE DEF Step
  <1>9. Board!BoardNext => Step
    BY DEF Step
  <1> QED  BY <1>1, <1>2, <1>3, <1>4, <1>5, <1>6, <1>7, <1>8, <1>9 DEF GateNext, Handle

\* ImplementsBoard: a request is answered by one reading of the switch of each
\* route it meets, taken between question and reply; the ACL and the handler
\* see only requests whose reading was "on".
THEOREM GateImplementsBoard == GateSpec => ImplementsBoard
  <1>1. GateInit => Board!BoardInit
    BY DEF GateInit, Init, Board!BoardInit, SwitchOf, Registered, AskOf, Idle, Board!Idle
  <1>2. GateSpec => []Attended
    BY InitAttended, NextAttended, GateRouting, PTL DEF GateSpec
  <1> QED  BY <1>1, <1>2, StepOnBoard, GateRouting, GateRegistry, Typing, PTL
           DEF GateSpec, ImplementsBoard, Board!BoardSpec
=============================================================================
