---------------------------- MODULE MCRegistryMoves ----------------------------
(***************************************************************************)
(* Two releases over two RAIs: the second moves both resources to other    *)
(* endpoints and binds r1 to two routes, as users:bo:list is in the code.  *)
(***************************************************************************)
EXTENDS ResourceRegistry

r(rai, endpoint, root) ==
    [rai |-> rai, endpoint |-> endpoint, root |-> root, module |-> 0]

MCTable ==
    [rel \in {"v1", "v2"} |->
        IF rel = "v1"
        THEN <<r("r1", "e1", FALSE), r("r2", "e2", FALSE)>>
        ELSE <<r("r1", "e3", FALSE), r("r2", "e1", FALSE), r("r1", "e2", TRUE)>>]

\* "update the method, path and is_root of the existing ones if they have
\* changed" (config.module.ts): neither table binds two RAIs to one endpoint,
\* so no sync of either meets a duplicate key.
SyncAcceptsMoves == \A i \in Instances : proc[i].outcome # "conflict"

MCUrlsOf == [e \in {"e1", "e2", "e3"} \X BOOLEAN |-> {}]
=============================================================================
