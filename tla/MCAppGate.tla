------------------------------- MODULE MCAppGate -------------------------------
(***************************************************************************)
(* The gate over the routes and ACLs this repository ships.  The property  *)
(* is what roles.definition.ts says of the public role.                    *)
(***************************************************************************)
EXTENDS RequestGate, AppTable

MCTable == [rel \in Releases |-> AppRoutes]

\* "Public role has access to public resources" (roles.definition.ts): no
\* caller is turned away from a method and path at which a route is mounted
\* whose RAI every caller is granted.
PublicReachesPublic ==
    \A q \in Requests : LET m == request[q] IN
        m # Idle /\ m.answer \in {"401", "403"} =>
            ~\E k \in RoutesOf(m.release) :
                 /\ Matches(m.release, k, m.url)
                 /\ \E role \in PublicRoles : Table[m.release][k].rai \in MergedAcl(role)
=============================================================================
