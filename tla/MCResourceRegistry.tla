-------------------------- MODULE MCResourceRegistry --------------------------
(***************************************************************************)
(* Two releases of one collection: the second moves r1, gives its endpoint *)
(* to r2 and binds r1 to two routes, as users:bo:list is in the code, so a *)
(* return to the first meets a duplicate key.  A behaviour is of one of    *)
(* two parts: an instance and the one that a reload puts in its place,     *)
(* both of which sync, and an operator; or one process at a time and two   *)
(* operators, whose copies of a document go stale by each other's saves.   *)
(***************************************************************************)
EXTENDS ResourceRegistry, FiniteSets, TLC

r(rai, endpoint, root) ==
    [rai |-> rai, endpoint |-> endpoint, root |-> root, module |-> 0]

MCTable ==
    [rel \in {"v1", "v2"} |->
        IF rel = "v1"
        THEN <<r("r1", "e1", FALSE)>>
        ELSE <<r("r1", "e2", FALSE), r("r2", "e1", FALSE), r("r1", "e2", TRUE)>>]

MCUrlsOf == [e \in {"e1", "e2"} \X BOOLEAN |-> {}]

VARIABLE part   \* which of the two a behaviour is of

\* The documents held are of the resource the second release moves.
Within ==
    /\ \A o \in Operators : held[o] # NoHold => held[o].rai = "r1"
    /\ part = "reload" => Cardinality({o \in Operators : held[o] # NoHold}) <= 1
    /\ part = "operators" => Cardinality({i \in Instances : proc[i].phase # "down"}) <= 1

PartsInit == part \in {"reload", "operators"} /\ Init
PartsNext == RegistryNext /\ UNCHANGED part /\ Within'

PartsSpec == PartsInit /\ [][PartsNext]_<<vars, part>>

\* No definition tells one process, or one operator, from the other.
Alike == Permutations(Instances) \cup Permutations(Operators)
=============================================================================
