----------------------------- MODULE RouteScopes -----------------------------
(***************************************************************************)
(* defineRoutes(): the callback of a module declares routes in a tree of   *)
(* scopes, in any order of calls, and finalize() resolves the tree into    *)
(* the RouteRecords that are mounted and mirrored.                         *)
(*                                                                         *)
(* A handler is the number of the call that registered it.  A path is the  *)
(* sequence of its parameter names: every prefix and path given starts at  *)
(* a "/", so that joining two of them neither makes nor breaks a name.     *)
(***************************************************************************)
EXTENDS Naturals, FiniteSets, SequencesExt

CONSTANTS
    Names,      \* parameter names
    Paths,      \* paths given to prefix() and to get(), post(), ...
    Rais,       \* RAIs given to require()
    GrantedRais,\* those the module's ACL grants to some role
    MaxCalls    \* bound on the calls of the callback

ASSUME PathsAssumption == Paths \subseteq Seq(Names)
ASSUME GrantedAssumption == GrantedRais \subseteq Rais /\ MaxCalls \in Nat

VARIABLES
    scopes,   \* the groups in order of creation; the first is the registry
    routes,   \* the routes in order of declaration
    calls,    \* the calls that registered a handler
    outcome,  \* "open", or how defineRoutes() ended
    table     \* the RouteRecords it returned

vars == <<scopes, routes, calls, outcome, table>>

\* No param() handler of a name.
NoHandler == 0

Scope(parent, path) ==
    [parent |-> parent, path |-> path, uses |-> <<>>,
     params |-> [n \in Names |-> NoHandler], root |-> FALSE]

Init ==
    /\ scopes = <<Scope(0, <<>>)>>
    /\ routes = <<>> /\ calls = <<>> /\ outcome = "open" /\ table = <<>>

-----------------------------------------------------------------------------
\* finalize() hands down the uses, the param() handlers, of which the own ones
\* win, and whether a scope is root.
InheritedUses[s \in 0..Len(scopes)] ==
    IF s = 0 THEN <<>> ELSE InheritedUses[scopes[s].parent] \o scopes[s].uses

InheritedParams[s \in 0..Len(scopes)] ==
    [n \in Names |-> IF s = 0 THEN NoHandler
                     ELSE IF scopes[s].params[n] # NoHandler THEN scopes[s].params[n]
                     ELSE InheritedParams[scopes[s].parent][n]]

InheritedRoot[s \in 0..Len(scopes)] ==
    s # 0 /\ (scopes[s].root \/ InheritedRoot[scopes[s].parent])

\* Mutant of UsesFor: inherited uses pile up in one array that siblings share.
UsesForShared(s) == FlattenSeq([i \in 1..s |-> scopes[i].uses])
UsesFor(s) == InheritedUses[s]

\* The handlers of the names in the route's path, in the order of the path.
ParamHandlers(route) ==
    LET handler(i) == InheritedParams[route.scope][route.path[i]]
    IN  FlattenSeq([i \in DOMAIN route.path |->
                      IF handler(i) = NoHandler THEN <<>> ELSE <<handler(i)>>])

Resolved(route) ==
    [route EXCEPT !.root = @ \/ InheritedRoot[route.scope],
                  !.middlewares = UsesFor(route.scope) \o ParamHandlers(route) \o @]

\* The routes of a scope and below: its own first, then those of each nested
\* group in order of creation.
Own(s) == FlattenSeq([r \in DOMAIN routes |->
                        IF routes[r].scope = s THEN <<r>> ELSE <<>>])

Subtree[s \in DOMAIN scopes] ==
    Own(s) \o FlattenSeq([c \in DOMAIN scopes |->
                            IF scopes[c].parent = s THEN Subtree[c] ELSE <<>>])

Flattened == [i \in DOMAIN Subtree[1] |-> Resolved(routes[Subtree[1][i]])]

\* Mutant of Declares: a param() is checked against the group's prefix only.
DeclaresInPrefix(s, name) == Contains(scopes[s].path, name)
Declares(s, name) ==
    \E i \in DOMAIN Subtree[s] : Contains(routes[Subtree[s][i]].path, name)

Unmatched ==
    \E s \in DOMAIN scopes, n \in Names :
        scopes[s].params[n] # NoHandler /\ ~Declares(s, n)

-----------------------------------------------------------------------------
CallsMade ==
    Len(scopes) - 1 + Len(routes) + Len(calls)
      + Cardinality({s \in DOMAIN scopes : scopes[s].root})
      + Cardinality({r \in DOMAIN routes : routes[r].root})
      + Cardinality({r \in DOMAIN routes : routes[r].handled})

\* The callback goes on, within the bound.
Declaring == outcome = "open" /\ CallsMade < MaxCalls /\ UNCHANGED table

\* A call that registers a handler, which is this call's number.
Registers(op, at, name) ==
    /\ Declaring
    /\ calls' = Append(calls, [op |-> op, at |-> at, name |-> name])
    /\ UNCHANGED outcome

Handler == Len(calls) + 1

Use(s) ==
    /\ Registers("use", s, "")
    /\ scopes' = [scopes EXCEPT ![s].uses = Append(@, Handler)]
    /\ UNCHANGED routes

Param(s, name) ==
    /\ Registers("param", s, name)
    /\ scopes' = [scopes EXCEPT ![s].params[name] = Handler]
    /\ UNCHANGED routes

Prefix(s, path) ==
    /\ Declaring
    /\ scopes' = Append(scopes, Scope(s, scopes[s].path \o path))
    /\ UNCHANGED <<routes, calls, outcome>>

Root(s) ==
    /\ Declaring
    /\ scopes' = [scopes EXCEPT ![s].root = TRUE]
    /\ UNCHANGED <<routes, calls, outcome>>

\* Mutant of Requirable: types alone guard require().
RequirableUnchecked(rai) == TRUE
Requirable(rai) == rai \in GrantedRais

\* require(rai).get(path) and the other methods.
Require(s, rai, path) ==
    /\ Declaring
    /\ IF Requirable(rai)
       THEN /\ routes' = Append(routes, [scope |-> s, rai |-> rai, path |-> scopes[s].path \o path,
                                        middlewares |-> <<>>, root |-> FALSE, handled |-> FALSE])
            /\ UNCHANGED outcome
       ELSE outcome' = "not granted" /\ UNCHANGED routes
    /\ UNCHANGED <<scopes, calls>>

\* validate() and use() of a route.
RouteUse(r) ==
    /\ Registers("route", r, "")
    /\ routes' = [routes EXCEPT ![r].middlewares = Append(@, Handler)]
    /\ UNCHANGED scopes

RouteRoot(r) ==
    /\ Declaring
    /\ routes' = [routes EXCEPT ![r].root = TRUE]
    /\ UNCHANGED <<scopes, calls, outcome>>

Handle(r) ==
    /\ Declaring
    /\ routes' = [routes EXCEPT ![r].handled = TRUE]
    /\ UNCHANGED <<scopes, calls, outcome>>

\* The callback returned; registry.routes is read.
Finalize ==
    /\ outcome = "open"
    /\ IF Unmatched
       THEN outcome' = "unmatched" /\ UNCHANGED table
       ELSE outcome' = "built" /\ table' = Flattened
    /\ UNCHANGED <<scopes, routes, calls>>

Next ==
    \/ \E s \in DOMAIN scopes :
          \/ Use(s) \/ Root(s)
          \/ \E n \in Names : Param(s, n)
          \/ \E path \in Paths : Prefix(s, path) \/ \E rai \in Rais : Require(s, rai, path)
    \/ \E r \in DOMAIN routes : RouteUse(r) \/ RouteRoot(r) \/ Handle(r)
    \/ Finalize

Spec == Init /\ [][Next]_vars

-----------------------------------------------------------------------------
ScopeRecord ==
    [parent : 0..Len(scopes), path : Seq(Names), uses : Seq(DOMAIN calls),
     params : [Names -> 0..Len(calls)], root : BOOLEAN]

RouteRecord ==
    [scope : DOMAIN scopes, rai : GrantedRais, path : Seq(Names),
     middlewares : Seq(DOMAIN calls), root : BOOLEAN, handled : BOOLEAN]

Call == [op : {"use", "param", "route"}, at : Nat, name : Names \cup {""}]

\* Every scope, route, call and record is well formed: parents come before
\* their groups, stacks hold registered handlers, RAIs are granted.
TypeOK ==
    /\ scopes \in Seq(ScopeRecord) /\ scopes # <<>>
    /\ \A s \in DOMAIN scopes :
          scopes[s].parent \in IF s = 1 THEN {0} ELSE 1..(s - 1)
    /\ routes \in Seq(RouteRecord)
    /\ calls \in Seq(Call)
    /\ \A c \in DOMAIN calls :
          /\ calls[c].at \in IF calls[c].op = "route" THEN DOMAIN routes ELSE DOMAIN scopes
          /\ calls[c].name \in IF calls[c].op = "param" THEN Names ELSE {""}
    /\ outcome \in {"open", "built", "unmatched", "not granted"}
    /\ table \in Seq(RouteRecord)

\* What the calls say, whatever their order.
Enclosing[s \in 0..Len(scopes)] ==
    IF s = 0 THEN {} ELSE {s} \cup Enclosing[scopes[s].parent]

\* Calls from the outermost scope inward, and in the order they were made.
Before(c, d) ==
    calls[c].at < calls[d].at \/ (calls[c].at = calls[d].at /\ c < d)

Calls(op, at) == {c \in DOMAIN calls : calls[c].op = op /\ calls[c].at \in at}

\* The calls of a set in that order: the k-th has k - 1 before it.
InOrder(S) ==
    [k \in 1..Cardinality(S) |->
        CHOOSE c \in S : Cardinality({d \in S : Before(d, c)}) = k - 1]

\* The last of the calls that give a name a handler.
Nearest(name, at) ==
    LET given == {c \in Calls("param", at) : calls[c].name = name}
    IN  {c \in given : \A d \in given : ~Before(c, d)}

Declared(r) ==
    LET at == Enclosing[routes[r].scope]
        path == routes[r].path
    IN  [routes[r] EXCEPT
          !.root = @ \/ \E s \in at : scopes[s].root,
          !.middlewares = InOrder(Calls("use", at))
                          \o FlattenSeq([i \in DOMAIN path |-> InOrder(Nearest(path[i], at))])
                          \o InOrder(Calls("route", {r}))]

\* The table has each declared route once, and each route's stack is exactly
\* every use() of its scopes, from the outermost in, before or after the route
\* was declared; the nearest param() of each name of its path; its own calls.
\* Nothing of a sibling group runs (finalize).
TableAsDeclared ==
    outcome = "built" =>
        ToBag(table) = ToBag([r \in DOMAIN routes |-> Declared(r)])

\* defineRoutes() throws for a param() that no route below its scope names, and
\* never otherwise (finalize's check).
Misplaced(c) ==
    /\ calls[c].op = "param"
    /\ \A r \in DOMAIN routes :
          calls[c].at \in Enclosing[routes[r].scope]
              => ~Contains(routes[r].path, calls[c].name)

MisplacedReported ==
    /\ outcome = "built" => \A c \in DOMAIN calls : ~Misplaced(c)
    /\ outcome = "unmatched" => \E c \in DOMAIN calls : Misplaced(c)
=============================================================================
