----------------------------- MODULE MCRequestGate -----------------------------
(***************************************************************************)
(* Two RAIs and two URLs: both routes match u1, so that a request for it   *)
(* may fall through to a second guard; a second release mounts the same    *)
(* routes in the other order, one of them at the root.  Where two processes *)
(* run, an instance and the one that a reload puts in its place, both sync. *)
(***************************************************************************)
EXTENDS RequestGate, TLC

r(rai, endpoint, root) ==
    [rai |-> rai, endpoint |-> endpoint, root |-> root, module |-> 1]

MCTable ==
    [rel \in Releases |->
        IF rel = "v1"
        THEN <<r("r1", "e1", FALSE), r("r2", "e2", FALSE)>>
        ELSE <<r("r1", "e1", TRUE), r("r2", "e2", FALSE)>>]

MCUrlsOf ==
    [e \in {"e1", "e2"} \X BOOLEAN |->
        Urls \cap (IF e[1] = "e1" THEN {"u1"} ELSE {"u1", "u2"})]

\* r1 is for users, r2 for everyone.
MCModuleAcl == [m \in {"m"} |-> [role \in {"user", "public"} |->
                    IF role = "user" THEN {"r1"} ELSE {"r2"}]]

VARIABLE part   \* which part of a run a behaviour is of

\* An endpoint that no release moves never conflicts, so the index changes
\* nothing here: the attempts to build it stay unanswered.
AccessSpec ==
    /\ part = "access" /\ GateInit
    /\ [][/\ GateNext /\ UNCHANGED part
          /\ \A i \in Instances : proc'[i].indexing <=> proc'[i].phase # "down"]_<<gateVars, part>>

\* The second release swaps the endpoints of the first, so that its sync meets
\* a duplicate key.
BoardTable ==
    [rel \in {"v1", "v2"} |->
        IF rel = "v1"
        THEN <<r("r1", "e1", FALSE), r("r2", "e2", FALSE)>>
        ELSE <<r("r1", "e2", FALSE), r("r2", "e1", FALSE)>>]

\* A behaviour is of one of two parts: requests and an operator meet one
\* process of the first release, or two processes boot, one that syncs and one
\* that does not, while releases are deployed.  Each part leaves out steps
\* that nothing makes anyone take, so the fair ones stay as they are.
BoardWithin ==
    /\ part = "requests" => deployed = "v1" /\ proc[1].phase = "down"
    /\ part = "boots" => /\ \A q \in Requests : request[q] = Idle
                         /\ \A o \in Operators : held[o] = NoHold
BoardInit == part \in {"requests", "boots"} /\ GateInit /\ BoardWithin
BoardNext == GateNext /\ UNCHANGED part /\ BoardWithin'

\* The fairness of FairGateSpec, and processes that boot go on.
BoardSpec ==
    /\ BoardInit /\ [][BoardNext]_<<gateVars, part>>
    /\ \A q \in Requests : WF_gateVars(Handle(q))
    /\ BootsGoOn

\* The processes are alike: both sync.
Alike == Permutations(Instances)
=============================================================================
