------------------------------ MODULE ModuleInit ------------------------------
(***************************************************************************)
(* sortModulesByPriorityAndDependencies(), as the walk it is, and          *)
(* initModules(), which calls the onInit hooks in the order of the sort.   *)
(* The walk is recursive in the code; its call stack is a variable here.   *)
(*                                                                         *)
(* A module is its position in moduleRegistry.  A `depends` list is a set: *)
(* which of several dependencies of one priority comes first is left open. *)
(***************************************************************************)
EXTENDS Naturals, Sequences

CONSTANTS
    Modules,    \* positions in moduleRegistry
    Unknown,    \* names in `depends` that no module has
    Priorities  \* values of `priority`

ASSUME ModulesAssumption ==
    Modules \subseteq Nat /\ Priorities \subseteq Nat /\ Modules \cap Unknown = {}

VARIABLES
    depends,   \* what each module declares
    priority,
    stack,     \* the calls of visit() under way, outermost first
    ordered,   \* the modules placed so far
    verdict,   \* "sorting", or how the sort ended
    hooks      \* how the onInit hooks ended so far, in order

declared == <<depends, priority>>
sortVars == <<depends, priority, stack, ordered, verdict, hooks>>

-----------------------------------------------------------------------------
Placed == {ordered[i] : i \in DOMAIN ordered}
OnStack == {stack[i].module : i \in DOMAIN stack}
Top == stack[Len(stack)]

Highest(S) == {m \in S : \A n \in S : priority[n] <= priority[m]}

\* Mutant of First: the list of modules is walked as it is registered.
FirstRegistered(S) == {m \in S : \A n \in S : m <= n}

\* The first of S in the sorted list of all modules; the sort is stable.
First(S) == {m \in Highest(S) : \A n \in Highest(S) : m <= n}

SortInit ==
    /\ depends \in [Modules -> SUBSET (Modules \cup Unknown)]
    /\ priority \in [Modules -> Priorities]
    /\ stack = <<>> /\ ordered = <<>> /\ verdict = "sorting" /\ hooks = <<>>

\* Mutants of Visit: depends are not looked up, or dropped when no module has
\* the name.
VisitUnchecked(m, callers) ==
    /\ stack' = Append(callers, [module |-> m, todo |-> depends[m]])
    /\ UNCHANGED verdict
VisitLenient(m, callers) ==
    /\ stack' = Append(callers, [module |-> m, todo |-> depends[m] \cap Modules])
    /\ UNCHANGED verdict

\* visit(m), for a module neither placed nor on the stack: look its depends
\* up, which throws for an unknown name, then go through them.
Visit(m, callers) ==
    IF depends[m] \subseteq Modules
    THEN /\ stack' = Append(callers, [module |-> m, todo |-> depends[m]])
         /\ UNCHANGED verdict
    ELSE verdict' = "unknown" /\ UNCHANGED stack

\* The loop over the sorted modules, which visit() leaves at once for a module
\* that is placed.
VisitNext ==
    /\ verdict = "sorting" /\ stack = <<>>
    /\ \E m \in First(Modules \ Placed) : Visit(m, stack)
    /\ UNCHANGED <<declared, ordered, hooks>>

\* Mutant of Called: a dependency that is being visited is taken as placed.
CalledLenient(d, rest) ==
    IF d \in Placed \/ d \in OnStack THEN stack' = rest /\ UNCHANGED verdict
    ELSE Visit(d, rest)

\* What visit(d) does, called by the innermost visit(), of which `rest` remains.
Called(d, rest) ==
    CASE d \in Placed -> stack' = rest /\ UNCHANGED verdict
      [] d \in OnStack \ Placed -> verdict' = "circular" /\ UNCHANGED stack
      [] d \notin OnStack \cup Placed -> Visit(d, rest)

VisitDependency ==
    /\ verdict = "sorting" /\ stack # <<>>
    /\ \E d \in Highest(Top.todo) :
          Called(d, [stack EXCEPT ![Len(stack)].todo = @ \ {d}])
    /\ UNCHANGED <<declared, ordered, hooks>>

\* All dependencies are placed, and so is the module.
Place ==
    /\ verdict = "sorting" /\ stack # <<>>
    /\ Top.todo = {}
    /\ ordered' = Append(ordered, Top.module)
    /\ stack' = SubSeq(stack, 1, Len(stack) - 1)
    /\ UNCHANGED <<declared, verdict, hooks>>

Sorted ==
    /\ verdict = "sorting" /\ stack = <<>>
    /\ Modules = Placed
    /\ verdict' = "sorted"
    /\ UNCHANGED <<declared, stack, ordered, hooks>>

\* Mutant of CallOnInit: a rejection ends the loop.
CallOnInitRethrows ==
    /\ verdict = "sorted"
    /\ Len(hooks) < Len(ordered)
    /\ \A i \in DOMAIN hooks : hooks[i] = "fulfilled"
    /\ \E result \in {"fulfilled", "rejected"} : hooks' = Append(hooks, result)
    /\ UNCHANGED <<declared, stack, ordered, verdict>>

\* initModules awaits the next hook; a rejection is logged and the loop goes on.
\* (A module without a hook is as good as one whose hook does nothing.)
CallOnInit ==
    /\ verdict = "sorted"
    /\ Len(hooks) < Len(ordered)
    /\ \E result \in {"fulfilled", "rejected"} : hooks' = Append(hooks, result)
    /\ UNCHANGED <<declared, stack, ordered, verdict>>

SortNext == VisitNext \/ VisitDependency \/ Place \/ Sorted \/ CallOnInit

SortSpec == SortInit /\ [][SortNext]_sortVars

-----------------------------------------------------------------------------
Frame == [module : Modules, todo : SUBSET Modules]

\* Every variable has its type.
SortTypeOK ==
    /\ depends \in [Modules -> SUBSET (Modules \cup Unknown)]
    /\ priority \in [Modules -> Priorities]
    /\ stack \in Seq(Frame)
    /\ ordered \in Seq(Modules)
    /\ verdict \in {"sorting", "sorted", "circular", "unknown"}
    /\ hooks \in Seq({"fulfilled", "rejected"})

\* A module comes once in the order and after all it depends on, so that its
\* onInit is called when each of its dependencies' hooks has ended, with
\* success or not.
DependenciesFirst ==
    \A i \in DOMAIN ordered :
        \A d \in depends[ordered[i]] : \E j \in 1..(i - 1) : ordered[j] = d
PlacedOnce == \A i, j \in DOMAIN ordered : ordered[i] = ordered[j] => i = j
OrderSound == DependenciesFirst /\ PlacedOnce

\* Some modules each depend on another of them, or on themselves.
Cyclic == \E S \in SUBSET Modules : S # {} /\ \A m \in S : depends[m] \cap S # {}
UnknownNamed == \E m \in Modules : ~(depends[m] \subseteq Modules)

\* The sort returns, with all modules, only if there is neither a cycle nor an
\* unknown dependency, however far from the first module, and throws only for
\* what it names.
VerdictRight ==
    /\ verdict = "sorted" => ~Cyclic /\ ~UnknownNamed /\ Placed = Modules
    /\ verdict = "circular" => Cyclic
    /\ verdict = "unknown" => UnknownNamed

\* m and what it depends on, directly or not.
Needs(m) ==
    {n \in Modules : \A C \in SUBSET Modules :
        m \in C /\ (\A k \in C : depends[k] \cap Modules \subseteq C) => n \in C}

\* Where the order goes against the priorities, a dependency is the reason: a
\* module that comes before one of higher priority is needed, directly or not,
\* by a module that has at least the priority of that one.
PriorityBorrowed ==
    \A i, j \in DOMAIN ordered : i < j =>
        \E m \in Modules :
            ordered[i] \in Needs(m) /\ priority[m] >= priority[ordered[j]]

\* The sort ends, and once it has returned every hook is called.
SortEnds == <>(verdict # "sorting")
HooksCalled == (verdict = "sorted") ~> (Len(hooks) = Len(ordered))
=============================================================================
