------------------------------ MODULE MCImports ------------------------------
(***************************************************************************)
(* What a process decides while it imports its code, before it connects to *)
(* anything: the routes of a module, the order of the modules, and the     *)
(* store of the limiters.  The three share no state, so each behaviour     *)
(* follows one of them.                                                    *)
(*                                                                         *)
(* Routes: two parameter names, paths with none, one or both, one RAI the  *)
(* ACL grants and one it does not.  Modules: every graph over three of     *)
(* them and an unknown name, with two priorities.  Limiters: two processes, *)
(* a window of two units and time for three of them.                       *)
(***************************************************************************)
EXTENDS RouteScopes, ModuleInit, RateLimit

VARIABLE part

importVars == <<part, vars, sortVars, rateVars>>

SomePaths == {<<>>, <<"id">>, <<"key", "id">>}

\* Modules that do not matter to the part in question.
Unrelated ==
    /\ SortInit
    /\ depends = [m \in Modules |-> {}]
    /\ priority = [m \in Modules |-> 0]

ImportInit ==
    /\ part \in {"routes", "modules", "limiters"}
    /\ Init /\ RateInit
    /\ IF part = "modules" THEN SortInit ELSE Unrelated

SortStep == part = "modules" /\ SortNext /\ UNCHANGED <<part, vars, rateVars>>

ImportNext ==
    \/ part = "routes" /\ Next /\ UNCHANGED <<part, sortVars, rateVars>>
    \/ SortStep
    \/ part = "limiters" /\ RateNext /\ UNCHANGED <<part, vars, sortVars>>

ImportSpec == ImportInit /\ [][ImportNext]_importVars /\ WF_importVars(SortStep)

\* sortModulesByPriorityAndDependencies() returns or throws, and once it has
\* returned, initModules() calls each hook, whatever the hooks before it did.
BootReachesHooks == part = "modules" => SortEnds /\ HooksCalled
=============================================================================
