--------------------------- MODULE ModuleInitProofs ---------------------------
(***************************************************************************)
(* Theorems about the module sort, for every set of modules and whatever   *)
(* they declare.                                                           *)
(***************************************************************************)
EXTENDS ModuleInit, TLAPS

\* Each visit() under way is of another module, none of them placed, and was
\* called for a dependency of the one before it.
StackSound ==
    /\ \A i, j \in DOMAIN stack : stack[i].module = stack[j].module => i = j
    /\ OnStack \cap Placed = {}
    /\ \A i \in DOMAIN stack :
          i + 1 \in DOMAIN stack => stack[i + 1].module \in depends[stack[i].module]

\* What a module under way depends on exists, and is placed, still to be visited
\* or being visited next.
TodoSound ==
    \A i \in DOMAIN stack :
        /\ depends[stack[i].module] \subseteq Modules
        /\ stack[i].todo \subseteq depends[stack[i].module]
        /\ \A d \in depends[stack[i].module] :
              \/ d \in stack[i].todo \cup Placed
              \/ i + 1 \in DOMAIN stack /\ stack[i + 1].module = d

\* No module of a cycle is ever placed.
Loops == {S \in SUBSET Modules : S # {} /\ \A m \in S : depends[m] \cap S # {}}
NoLoopPlaced == \A S \in Loops : S \cap Placed = {}

\* What the sort has concluded is so.
Concluded ==
    /\ verdict = "sorted" => Placed = Modules
    /\ verdict = "circular" => Cyclic
    /\ verdict = "unknown" => UnknownNamed

IInv == SortTypeOK /\ OrderSound /\ StackSound /\ TodoSound /\ NoLoopPlaced /\ Concluded

-----------------------------------------------------------------------------
\* At first nothing is visited or placed.
LEMMA InitIInv == SortInit => IInv
  <1> SUFFICES ASSUME SortInit  PROVE IInv
    OBVIOUS
  <1>1. stack = <<>> /\ ordered = <<>> /\ verdict = "sorting" /\ hooks = <<>>
        /\ DOMAIN stack = {} /\ DOMAIN ordered = {}
    BY DEF SortInit
  <1>2. Placed = {} /\ OnStack = {}
    BY <1>1 DEF Placed, OnStack
  <1>3. SortTypeOK
    BY <1>1 DEF SortInit, SortTypeOK
  <1> QED  BY <1>1, <1>2, <1>3 DEF IInv, OrderSound, DependenciesFirst, PlacedOnce,
              StackSound, TodoSound, NoLoopPlaced, Concluded

\* Placed and OnStack by membership.
LEMMA Members ==
    /\ \A m : m \in Placed <=> \E i \in DOMAIN ordered : ordered[i] = m
    /\ \A m : m \in OnStack <=> \E i \in DOMAIN stack : stack[i].module = m
  BY DEF Placed, OnStack

\* The innermost visit() under way.
LEMMA StackFacts ==
    ASSUME stack \in Seq(Frame), stack # <<>>
    PROVE  /\ Len(stack) \in Nat /\ Len(stack) >= 1 /\ DOMAIN stack = 1..Len(stack)
           /\ Len(stack) \in DOMAIN stack /\ stack[Len(stack)] = Top /\ Top \in Frame
           /\ \A i \in 1..Len(stack) : stack[i] \in Frame /\ stack[i].module \in Modules
  <1>1. Len(stack) \in Nat /\ Len(stack) # 0 /\ DOMAIN stack = 1..Len(stack)
    OBVIOUS
  <1>2. Len(stack) >= 1 /\ Len(stack) \in DOMAIN stack
    BY <1>1
  <1>3. \A i \in DOMAIN stack : stack[i] \in Frame
    OBVIOUS
  <1> QED  BY <1>1, <1>2, <1>3 DEF Frame, Top

\* A visit() that begins, above a stack that is sound but for the caller's next
\* dependency m, which is neither placed nor under way.
LEMMA PushKeeps ==
    ASSUME IInv, NEW m \in Modules, m \notin Placed, m \notin OnStack,
           NEW rest \in Seq(Frame), Len(rest) = Len(stack),
           \A i \in DOMAIN stack : rest[i].module = stack[i].module,
           \A i \in DOMAIN stack : i # Len(stack) => rest[i] = stack[i],
           stack # <<>> => /\ m \in Top.todo
                           /\ rest[Len(stack)].todo = Top.todo \ {m},
           depends[m] \subseteq Modules,
           stack' = Append(rest, [module |-> m, todo |-> depends[m]]),
           UNCHANGED <<declared, ordered, verdict, hooks>>
    PROVE  IInv'
  <1> DEFINE n == Len(stack)
             top == [module |-> m, todo |-> depends[m]]
  <1>1. top \in Frame /\ top.module = m /\ top.todo = depends[m]
    BY DEF Frame
  <1>2. /\ n \in Nat /\ DOMAIN stack = 1..n /\ DOMAIN rest = 1..n
        /\ stack' \in Seq(Frame) /\ DOMAIN stack' = 1..(n + 1)
        /\ stack'[n + 1] = top /\ \A i \in 1..n : stack'[i] = rest[i]
    BY <1>1 DEF IInv, SortTypeOK
  <1>3. /\ depends' = depends /\ priority' = priority
        /\ ordered' = ordered /\ verdict' = verdict /\ hooks' = hooks /\ Placed' = Placed
    BY DEF declared, Placed
  <1>4. stack # <<>> => n \in 1..n
    BY <1>2 DEF IInv, SortTypeOK
  <1> HIDE DEF n, top
  <1>5. SortTypeOK'
    BY <1>2, <1>3 DEF IInv, SortTypeOK
  <1>6. \A i \in 1..n : stack'[i].module = stack[i].module /\ stack[i].module # m
    BY <1>2, Members
  <1>7. StackSound'
    <2>1. \A i, j \in 1..(n + 1) : stack'[i].module = stack'[j].module => i = j
      BY <1>1, <1>2, <1>6 DEF IInv, StackSound
    <2>2. \A k \in (DOMAIN stack)' : stack'[k].module \notin Placed'
      BY <1>1, <1>2, <1>3, <1>6, Members DEF IInv, StackSound
    <2>3. (OnStack \cap Placed)' = {}
      BY <2>2 DEF OnStack
    <2>4. ASSUME NEW i \in 1..(n + 1), i + 1 \in 1..(n + 1)
          PROVE  stack'[i + 1].module \in depends[stack'[i].module]
      <3>1. CASE i = n
        <4>1. stack # <<>> /\ n \in 1..n /\ stack[n] = Top
          BY <1>2, <2>4, <3>1 DEF n, Top
        <4>2. m \in depends[stack[n].module]
          BY <1>2, <4>1 DEF IInv, TodoSound
        <4> QED  BY <1>1, <1>2, <1>6, <3>1, <4>1, <4>2
      <3>2. CASE i # n
        <4>1. i \in 1..n /\ i + 1 \in 1..n
          BY <1>2, <2>4, <3>2
        <4> QED  BY <1>2, <1>6, <4>1 DEF IInv, StackSound
      <3> QED  BY <3>1, <3>2
    <2> QED  BY <1>2, <1>3, <2>1, <2>3, <2>4 DEF StackSound
  <1>8. TodoSound'
    <2>1. ASSUME NEW i \in 1..n
          PROVE  /\ depends[stack'[i].module] \subseteq Modules
                 /\ stack'[i].todo \subseteq depends[stack'[i].module]
                 /\ \A d \in depends[stack'[i].module] :
                       \/ d \in stack'[i].todo \cup Placed
                       \/ i + 1 \in 1..(n + 1) /\ stack'[i + 1].module = d
      <3>1. /\ stack'[i].module = stack[i].module
            /\ depends[stack[i].module] \subseteq Modules
            /\ stack[i].todo \subseteq depends[stack[i].module]
            /\ \A d \in depends[stack[i].module] :
                  \/ d \in stack[i].todo \cup Placed
                  \/ i + 1 \in 1..n /\ stack[i + 1].module = d
        BY <1>2, <1>6 DEF IInv, TodoSound
      <3>2. CASE i = n
        <4>1. stack # <<>> /\ stack[n] = Top
          BY <1>2, <3>2 DEF n, Top
        <4>2. stack'[n].todo = stack[n].todo \ {m}
          BY <1>2, <1>4, <4>1 DEF n
        <4>3. n + 1 \notin 1..n /\ n + 1 \in 1..(n + 1)
          BY <1>2
        <4> QED  BY <1>1, <1>2, <3>1, <3>2, <4>2, <4>3
      <3>3. CASE i # n
        <4>1. rest[i] = stack[i]
          BY <1>2, <3>3 DEF n
        <4>2. stack'[i] = stack[i] /\ (i + 1 \in 1..n => i + 1 \in 1..(n + 1))
          BY <1>2, <4>1
        <4> QED  BY <1>2, <1>6, <3>1, <4>2
      <3> QED  BY <3>2, <3>3
    <2> QED  BY <1>1, <1>2, <1>3, <2>1 DEF TodoSound
  <1>9. OrderSound' /\ NoLoopPlaced' /\ Concluded'
    BY <1>3 DEF IInv, OrderSound, DependenciesFirst, PlacedOnce, NoLoopPlaced, Loops,
                Concluded, Cyclic, UnknownNamed
  <1> QED  BY <1>5, <1>7, <1>8, <1>9 DEF IInv

\* The sort throws for an unknown name only if a module has one.
LEMMA UnknownKeeps ==
    ASSUME IInv, NEW m \in Modules, ~(depends[m] \subseteq Modules),
           verdict' = "unknown", UNCHANGED <<declared, stack, ordered, hooks>>
    PROVE  IInv'
  <1>1. /\ depends' = depends /\ priority' = priority /\ stack' = stack
        /\ ordered' = ordered /\ hooks' = hooks /\ Placed' = Placed /\ OnStack' = OnStack
    BY DEF declared, Placed, OnStack
  <1>2. UnknownNamed'
    BY <1>1 DEF UnknownNamed
  <1> QED  BY <1>1, <1>2 DEF IInv, SortTypeOK, OrderSound, DependenciesFirst, PlacedOnce,
              StackSound, TodoSound, NoLoopPlaced, Loops, Concluded

\* It throws for a cycle only if there is one: the visits under way from the
\* dependency on, each for a dependency of the one before.
LEMMA CircularKeeps ==
    ASSUME IInv, stack \in Seq(Frame), stack # <<>>, NEW d \in Top.todo, d \in OnStack,
           verdict' = "circular", UNCHANGED <<declared, stack, ordered, hooks>>
    PROVE  IInv'
  <1>1. /\ depends' = depends /\ priority' = priority /\ stack' = stack
        /\ ordered' = ordered /\ hooks' = hooks /\ Placed' = Placed /\ OnStack' = OnStack
    BY DEF declared, Placed, OnStack
  <1>2. PICK j \in DOMAIN stack : stack[j].module = d
    BY Members
  <1> DEFINE n == Len(stack)
             S == {stack[i].module : i \in j..n}
  <1>3. n \in Nat /\ n \in DOMAIN stack /\ DOMAIN stack = 1..n /\ stack[n] = Top
        /\ \A i \in 1..n : stack[i].module \in Modules
    BY StackFacts
  <1>4. d \in depends[stack[n].module]
    BY <1>3 DEF IInv, TodoSound
  <1>5. S \subseteq Modules /\ d \in S
    BY <1>2, <1>3
  <1>6. ASSUME NEW i \in j..n  PROVE depends[stack[i].module] \cap S # {}
    <2>1. CASE i = n
      BY <1>4, <1>5, <2>1
    <2>2. CASE i # n
      <3>1. i \in 1..n /\ i + 1 \in 1..n /\ i + 1 \in j..n
        <4>1. j \in 1..n /\ i \in Nat /\ j <= i /\ i <= n
          BY <1>2, <1>3
        <4> HIDE DEF n
        <4> QED  BY <1>3, <2>2, <4>1
      <3>2. stack[i + 1].module \in depends[stack[i].module]
        BY <1>3, <3>1 DEF IInv, StackSound
      <3> QED  BY <3>1, <3>2
    <2> QED  BY <2>1, <2>2
  <1>7. Cyclic
    <2>1. \A m \in S : depends[m] \cap S # {}
      BY <1>6
    <2> HIDE DEF S
    <2> QED  BY <1>5, <2>1 DEF Cyclic
  <1>8. Cyclic'
    BY <1>1, <1>7 DEF Cyclic
  <1> QED  BY <1>1, <1>8 DEF IInv, SortTypeOK, OrderSound, DependenciesFirst, PlacedOnce,
              StackSound, TodoSound, NoLoopPlaced, Loops, Concluded

\* A visit() of a module already placed returns at once, and the caller goes on.
LEMMA ReturnKeeps ==
    ASSUME IInv, NEW d \in Placed, NEW rest \in Seq(Frame), Len(rest) = Len(stack),
           \A i \in DOMAIN stack : rest[i].module = stack[i].module,
           \A i \in DOMAIN stack : i # Len(stack) => rest[i] = stack[i],
           stack # <<>>, d \in Top.todo, rest[Len(stack)].todo = Top.todo \ {d},
           stack' = rest, UNCHANGED <<declared, ordered, verdict, hooks>>
    PROVE  IInv'
  <1> DEFINE n == Len(stack)
  <1>1. /\ depends' = depends /\ priority' = priority
        /\ ordered' = ordered /\ verdict' = verdict /\ hooks' = hooks /\ Placed' = Placed
    BY DEF declared, Placed
  <1>2. /\ n \in Nat /\ DOMAIN stack = 1..n /\ DOMAIN rest = 1..n /\ n \in 1..n
        /\ stack[n] = Top
    BY StackFacts DEF IInv, SortTypeOK
  <1>3. OnStack' = OnStack
    BY <1>2 DEF OnStack
  <1>4. SortTypeOK'
    BY <1>1 DEF IInv, SortTypeOK
  <1>5. StackSound'
    BY <1>1, <1>2, <1>3 DEF IInv, StackSound
  <1>6. TodoSound'
    <2>1. ASSUME NEW i \in 1..n
          PROVE  /\ rest[i].todo \subseteq stack[i].todo
                 /\ \A e \in stack[i].todo : e \in rest[i].todo \cup Placed
      BY <1>2
    <2> HIDE DEF n
    <2> QED  BY <1>1, <1>2, <2>1 DEF IInv, TodoSound
  <1>7. OrderSound' /\ NoLoopPlaced' /\ Concluded'
    BY <1>1 DEF IInv, OrderSound, DependenciesFirst, PlacedOnce, NoLoopPlaced, Loops,
                Concluded, Cyclic, UnknownNamed
  <1> QED  BY <1>4, <1>5, <1>6, <1>7 DEF IInv

\* A module that is placed comes after all it depends on, and the visit() that
\* called for it finds it placed.
LEMMA PlaceKeeps ==
    ASSUME IInv, Place
    PROVE  IInv'
  <1> DEFINE n == Len(stack)
             k == Len(ordered)
             m == Top.module
  <1>1. /\ depends' = depends /\ priority' = priority
        /\ verdict' = verdict /\ hooks' = hooks /\ verdict = "sorting"
        /\ stack # <<>> /\ Top.todo = {}
        /\ ordered' = Append(ordered, m) /\ stack' = SubSeq(stack, 1, n - 1)
    BY DEF Place, declared
  <1>2. /\ n \in Nat /\ n >= 1 /\ DOMAIN stack = 1..n /\ n \in 1..n
        /\ stack[n] = Top /\ Top \in Frame /\ m \in Modules /\ stack \in Seq(Frame)
    BY <1>1, StackFacts DEF IInv, SortTypeOK
  <1>3. /\ stack' \in Seq(Frame) /\ DOMAIN stack' = 1..(n - 1)
        /\ \A i \in 1..(n - 1) : i \in 1..n /\ stack'[i] = stack[i]
    BY <1>1, <1>2
  <1>4. /\ k \in Nat /\ ordered \in Seq(Modules) /\ DOMAIN ordered = 1..k
        /\ ordered' \in Seq(Modules) /\ DOMAIN ordered' = 1..(k + 1)
        /\ ordered'[k + 1] = m /\ \A i \in 1..k : ordered'[i] = ordered[i]
    BY <1>1, <1>2 DEF IInv, SortTypeOK
  <1> HIDE DEF n, k
  <1>5. Placed' = Placed \cup {m}
    BY <1>4 DEF Placed
  <1>6. m \notin Placed /\ depends[m] \subseteq Placed
    <2>1. m \in OnStack
      BY <1>2, Members
    <2>2. n + 1 \notin 1..n
      BY <1>2
    <2> QED  BY <1>1, <1>2, <2>1, <2>2 DEF IInv, StackSound, TodoSound
  <1> HIDE DEF m
  <1>7. SortTypeOK'
    BY <1>1, <1>3, <1>4 DEF IInv, SortTypeOK
  <1>8. OrderSound'
    <2>1. PlacedOnce'
      <3>1. \A i \in 1..k : ordered[i] # m
        BY <1>4, <1>6, Members
      <3> QED  BY <1>4, <3>1 DEF IInv, OrderSound, PlacedOnce
    <2>2. ASSUME NEW i \in 1..(k + 1), NEW d \in depends[ordered'[i]]
          PROVE  \E j \in 1..(i - 1) : ordered'[j] = d
      <3>1. CASE i = k + 1
        <4>1. PICK j \in 1..k : ordered[j] = d
          BY <1>4, <1>6, <2>2, <3>1, Members
        <4>2. j \in 1..(i - 1)
          BY <1>4, <3>1
        <4> QED  BY <1>4, <4>1, <4>2
      <3>2. CASE i # k + 1
        <4>1. i \in 1..k /\ d \in depends[ordered[i]]
          BY <1>4, <2>2, <3>2
        <4>2. PICK j \in 1..(i - 1) : ordered[j] = d
          BY <1>4, <4>1 DEF IInv, OrderSound, DependenciesFirst
        <4>3. j \in 1..k
          BY <1>4, <4>1
        <4> QED  BY <1>4, <4>2, <4>3
      <3> QED  BY <3>1, <3>2
    <2> QED  BY <1>1, <1>4, <2>1, <2>2 DEF OrderSound, DependenciesFirst
  <1>9. StackSound'
    <2>1. \A i \in 1..(n - 1) : stack[i].module # m
      BY <1>2 DEF IInv, StackSound, m
    <2>2. \A i \in 1..(n - 1) : stack'[i].module \notin Placed'
      BY <1>2, <1>3, <1>5, <2>1, Members DEF IInv, StackSound
    <2>3. (OnStack \cap Placed)' = {}
      BY <1>3, <2>2 DEF OnStack
    <2> QED  BY <1>1, <1>2, <1>3, <2>3 DEF IInv, StackSound
  <1>10. TodoSound'
    <2>1. ASSUME NEW i \in 1..(n - 1), NEW d \in depends[stack[i].module]
          PROVE  \/ d \in stack'[i].todo \cup Placed'
                 \/ i + 1 \in 1..(n - 1) /\ stack'[i + 1].module = d
      <3>1. \/ d \in stack[i].todo \cup Placed
            \/ i + 1 \in 1..n /\ stack[i + 1].module = d
        BY <1>2, <1>3 DEF IInv, TodoSound
      <3>2. i + 1 \in 1..(n - 1) \/ i + 1 = n
        BY <1>2
      <3> QED  BY <1>2, <1>3, <1>5, <3>1, <3>2 DEF m
    <2> QED  BY <1>1, <1>2, <1>3, <2>1 DEF IInv, TodoSound
  <1>11. NoLoopPlaced'
    <2> SUFFICES ASSUME NEW S \in Loops  PROVE m \notin S
      BY <1>1, <1>5 DEF IInv, NoLoopPlaced, Loops
    <2> QED  BY <1>6 DEF IInv, NoLoopPlaced, Loops
  <1>12. Concluded'
    BY <1>1 DEF Concluded
  <1> QED  BY <1>7, <1>8, <1>9, <1>10, <1>11, <1>12 DEF IInv

\* Every step keeps the invariant.
LEMMA NextIInv == IInv /\ [SortNext]_sortVars => IInv'
  <1> SUFFICES ASSUME IInv, [SortNext]_sortVars  PROVE IInv'
    OBVIOUS
  <1> USE DEF IInv
  <1>1. CASE VisitNext
    <2>1. PICK m \in Modules \ Placed : Visit(m, stack)
      BY <1>1 DEF VisitNext, First, Highest
    <2>2. stack = <<>> /\ stack \in Seq(Frame) /\ DOMAIN stack = {} /\ Len(stack) = 0
          /\ m \notin OnStack /\ UNCHANGED <<declared, ordered, hooks>>
      BY <1>1, Members DEF VisitNext, SortTypeOK
    <2>3. CASE depends[m] \subseteq Modules
      <3>1. stack' = Append(stack, [module |-> m, todo |-> depends[m]]) /\ verdict' = verdict
        BY <2>1, <2>3 DEF Visit
      <3> QED  BY <2>2, <2>3, <3>1, PushKeeps
    <2>4. CASE ~(depends[m] \subseteq Modules)
      <3>1. verdict' = "unknown" /\ stack' = stack
        BY <2>1, <2>4 DEF Visit
      <3> QED  BY <2>2, <2>4, <3>1, UnknownKeeps
    <2> QED  BY <2>3, <2>4
  <1>2. CASE VisitDependency
    <2>1. stack # <<>> /\ stack \in Seq(Frame) /\ UNCHANGED <<declared, ordered, hooks>>
      BY <1>2 DEF VisitDependency, SortTypeOK
    <2> DEFINE n == Len(stack)
    <2>2. PICK d \in Top.todo : Called(d, [stack EXCEPT ![n].todo = @ \ {d}])
      BY <1>2 DEF VisitDependency, Highest
    <2> DEFINE rest == [stack EXCEPT ![n].todo = @ \ {d}]
    <2>3. n \in DOMAIN stack /\ stack[n] = Top /\ Top \in Frame /\ DOMAIN stack = 1..n
          /\ n \in Nat
      BY <2>1, StackFacts
    <2>4. d \in Modules
      BY <2>2, <2>3 DEF TodoSound, Frame
    <2>5. [Top EXCEPT !.todo = @ \ {d}] \in Frame
          /\ [Top EXCEPT !.todo = @ \ {d}].module = Top.module
          /\ [Top EXCEPT !.todo = @ \ {d}].todo = Top.todo \ {d}
      BY <2>3 DEF Frame
    <2>6. rest = [stack EXCEPT ![n] = [Top EXCEPT !.todo = @ \ {d}]]
      BY <2>3
    <2>7. /\ rest \in Seq(Frame) /\ Len(rest) = n
          /\ \A i \in DOMAIN stack : rest[i].module = stack[i].module
          /\ \A i \in DOMAIN stack : i # n => rest[i] = stack[i]
          /\ rest[n].todo = Top.todo \ {d}
      BY <2>1, <2>3, <2>5, <2>6
    <2> HIDE DEF rest
    <2>8. Called(d, rest)
      BY <2>2 DEF rest
    <2>9. CASE d \in Placed
      <3>1. stack' = rest /\ verdict' = verdict
        BY <2>8, <2>9 DEF Called, StackSound
      <3> QED  BY <2>1, <2>2, <2>7, <2>9, <3>1, ReturnKeeps
    <2>10. CASE d \in OnStack
      <3>1. verdict' = "circular" /\ stack' = stack
        BY <2>8, <2>10 DEF Called, StackSound
      <3> QED  BY <2>1, <2>2, <2>10, <3>1, CircularKeeps
    <2>11. CASE d \notin OnStack \cup Placed
      <3>1. Visit(d, rest)
        BY <2>8, <2>11 DEF Called
      <3>2. CASE depends[d] \subseteq Modules
        <4>1. stack' = Append(rest, [module |-> d, todo |-> depends[d]]) /\ verdict' = verdict
          BY <3>1, <3>2 DEF Visit
        <4> QED  BY <2>1, <2>2, <2>4, <2>7, <2>11, <3>2, <4>1, PushKeeps
      <3>3. CASE ~(depends[d] \subseteq Modules)
        <4>1. verdict' = "unknown" /\ stack' = stack
          BY <3>1, <3>3 DEF Visit
        <4> QED  BY <2>1, <2>4, <3>3, <4>1, UnknownKeeps
      <3> QED  BY <3>2, <3>3
    <2> QED  BY <2>9, <2>10, <2>11
  <1>3. CASE Place
    BY <1>3, PlaceKeeps
  <1>4. CASE Sorted
    <2>1. /\ depends' = depends /\ priority' = priority /\ stack' = stack /\ ordered' = ordered
          /\ hooks' = hooks /\ verdict' = "sorted" /\ Placed = Modules
      BY <1>4 DEF Sorted, declared
    <2>2. Placed' = Placed /\ OnStack' = OnStack
      BY <2>1 DEF Placed, OnStack
    <2> QED  BY <2>1, <2>2 DEF SortTypeOK, OrderSound, DependenciesFirst, PlacedOnce,
                StackSound, TodoSound, NoLoopPlaced, Loops, Concluded
  <1>5. CASE CallOnInit
    <2>1. /\ depends' = depends /\ priority' = priority /\ stack' = stack /\ ordered' = ordered
          /\ verdict' = verdict /\ Placed' = Placed /\ OnStack' = OnStack
      BY <1>5 DEF CallOnInit, declared, Placed, OnStack
    <2>2. hooks' \in Seq({"fulfilled", "rejected"})
      <3>1. PICK result \in {"fulfilled", "rejected"} : hooks' = Append(hooks, result)
        BY <1>5 DEF CallOnInit
      <3> QED  BY <3>1 DEF SortTypeOK
    <2> QED  BY <2>1, <2>2 DEF SortTypeOK, OrderSound, DependenciesFirst, PlacedOnce, StackSound,
                TodoSound, NoLoopPlaced, Loops, Concluded, Cyclic, UnknownNamed
  <1>6. CASE UNCHANGED sortVars
    <2>1. /\ depends' = depends /\ priority' = priority /\ stack' = stack /\ ordered' = ordered
          /\ verdict' = verdict /\ hooks' = hooks /\ Placed' = Placed /\ OnStack' = OnStack
      BY <1>6 DEF sortVars, declared, Placed, OnStack
    <2>2. SortTypeOK' /\ OrderSound'
      BY <2>1 DEF SortTypeOK, OrderSound, DependenciesFirst, PlacedOnce
    <2>3. StackSound' /\ TodoSound'
      BY <2>1 DEF StackSound, TodoSound
    <2>4. NoLoopPlaced' /\ Concluded'
      BY <2>1 DEF NoLoopPlaced, Loops, Concluded, Cyclic, UnknownNamed
    <2> QED  BY <2>2, <2>3, <2>4
  <1> QED  BY <1>1, <1>2, <1>3, <1>4, <1>5, <1>6 DEF SortNext

\* The invariant holds throughout.
LEMMA Invariant == SortSpec => []IInv
  BY InitIInv, NextIInv, PTL DEF SortSpec

-----------------------------------------------------------------------------
\* Every variable of the sort has its type.
THEOREM SortTypeCorrect == SortSpec => []SortTypeOK
  <1>1. IInv => SortTypeOK
    BY DEF IInv
  <1> QED  BY <1>1, Invariant, PTL

\* A module comes once in the order, after all it depends on: no onInit hook is
\* called before those of the module's dependencies have ended.
THEOREM OrderIsSound == SortSpec => []OrderSound
  <1>1. IInv => OrderSound
    BY DEF IInv
  <1> QED  BY <1>1, Invariant, PTL

\* The sort returns only for modules without cycles and unknown names, and
\* throws only for what there is.
THEOREM VerdictIsRight == SortSpec => []VerdictRight
  <1>1. IInv => VerdictRight
    <2> SUFFICES ASSUME IInv, verdict = "sorted"  PROVE ~Cyclic /\ ~UnknownNamed
      BY DEF IInv, Concluded, VerdictRight
    <2>1. Placed = Modules
      BY DEF IInv, Concluded
    <2>2. ~Cyclic
      BY <2>1 DEF IInv, NoLoopPlaced, Loops, Cyclic
    <2>3. ASSUME NEW m \in Modules  PROVE depends[m] \subseteq Modules
      <3>1. PICK i \in DOMAIN ordered : ordered[i] = m
        BY <2>1, Members
      <3>2. \A d \in depends[m] : \E j \in 1..(i - 1) : ordered[j] = d
        BY <3>1 DEF IInv, OrderSound, DependenciesFirst
      <3>3. \A j \in 1..(i - 1) : ordered[j] \in Modules
        BY <3>1 DEF IInv, SortTypeOK
      <3> QED  BY <3>2, <3>3
    <2> QED  BY <2>2, <2>3 DEF UnknownNamed
  <1> QED  BY <1>1, Invariant, PTL

-----------------------------------------------------------------------------
\* While a visit() from the loop over all modules is under way, no module left
\* has a higher priority than the one it began with, which needs all it visits.
RootHighest ==
    stack # <<>> => \A y \in Modules \ Placed : priority[stack[1].module] >= priority[y]
StackNeeded == \A i \in DOMAIN stack : stack[i].module \in Needs(stack[1].module)

\* What is placed is needed by a module of at least the priority of all that
\* are not placed before it.
EachBorrowed ==
    \A i \in DOMAIN ordered : \E m \in Modules :
        /\ ordered[i] \in Needs(m)
        /\ \A y \in Modules : (\A k \in 1..i : ordered[k] # y) => priority[m] >= priority[y]

Borrowing == RootHighest /\ StackNeeded /\ EachBorrowed

\* A module needs itself, and what a module it needs depends on.
LEMMA NeedsFacts ==
    ASSUME NEW m \in Modules
    PROVE  /\ m \in Needs(m)
           /\ \A n \in Needs(m) : \A d \in depends[n] \cap Modules : d \in Needs(m)
  BY DEF Needs

\* Priorities are numbers.
LEMMA PriorityFacts == IInv => \A m \in Modules : priority[m] \in Nat
  BY ModulesAssumption DEF IInv, SortTypeOK

\* Every step keeps what has been borrowed.
LEMMA BorrowingKept ==
    ASSUME IInv, IInv', Borrowing, [SortNext]_sortVars
    PROVE  Borrowing'
  <1>1. ASSUME ordered' = ordered, depends' = depends, priority' = priority, stack' = stack
        PROVE  Borrowing'
    BY <1>1 DEF Borrowing, RootHighest, StackNeeded, EachBorrowed, Needs, Placed
  <1>2. ASSUME ordered' = ordered, depends' = depends, priority' = priority
        PROVE  /\ EachBorrowed' /\ Placed' = Placed
               /\ \A m \in Modules : Needs(m)' = Needs(m)
    BY <1>2 DEF Borrowing, EachBorrowed, Needs, Placed
  <1>3. CASE VisitNext
    <2>1. PICK m \in First(Modules \ Placed) : Visit(m, stack)
      BY <1>3 DEF VisitNext
    <2>2. /\ m \in Modules /\ \A y \in Modules \ Placed : priority[y] <= priority[m]
          /\ stack = <<>> /\ ordered' = ordered /\ depends' = depends /\ priority' = priority
      BY <1>3, <2>1 DEF VisitNext, First, Highest, declared
    <2>3. CASE stack' = stack
      BY <1>1, <2>2, <2>3
    <2>4. CASE stack' = <<[module |-> m, todo |-> depends[m]]>>
      <3>1. DOMAIN stack' = {1} /\ stack'[1].module = m
        BY <2>4
      <3>2. StackNeeded'
        BY <1>2, <2>2, <3>1, NeedsFacts DEF StackNeeded
      <3>3. RootHighest'
        BY <1>2, <2>2, <3>1, PriorityFacts DEF RootHighest
      <3> QED  BY <1>2, <2>2, <3>2, <3>3 DEF Borrowing
    <2> QED  BY <2>1, <2>2, <2>3, <2>4 DEF Visit
  <1>4. CASE VisitDependency
    <2> DEFINE n == Len(stack)
    <2>1. /\ stack # <<>> /\ stack \in Seq(Frame)
          /\ ordered' = ordered /\ depends' = depends /\ priority' = priority
      BY <1>4 DEF VisitDependency, declared, IInv, SortTypeOK
    <2>2. PICK d \in Top.todo : Called(d, [stack EXCEPT ![n].todo = @ \ {d}])
      BY <1>4 DEF VisitDependency, Highest
    <2> DEFINE rest == [stack EXCEPT ![n].todo = @ \ {d}]
    <2>3. /\ n \in DOMAIN stack /\ stack[n] = Top /\ DOMAIN stack = 1..n /\ n \in Nat
          /\ \A i \in 1..n : stack[i] \in Frame /\ stack[i].module \in Modules
      BY <2>1, StackFacts
    <2>4. d \in depends[stack[n].module] /\ d \in Modules
      BY <2>2, <2>3 DEF IInv, TodoSound, Frame
    <2>5. rest \in Seq(Frame) /\ Len(rest) = n /\ DOMAIN rest = 1..n
          /\ \A i \in 1..n : rest[i].module = stack[i].module
      <3>1. [Top EXCEPT !.todo = @ \ {d}] \in Frame
            /\ [Top EXCEPT !.todo = @ \ {d}].module = Top.module
        BY <2>3 DEF Frame
      <3>2. rest = [stack EXCEPT ![n] = [Top EXCEPT !.todo = @ \ {d}]]
        BY <2>3
      <3> QED  BY <2>1, <2>3, <3>1, <3>2
    <2> HIDE DEF rest
    <2>6. 1 \in 1..n
      BY <2>3
    <2>7. CASE stack' = stack
      BY <1>1, <2>1, <2>7
    <2>8. CASE stack' = rest
      <3>1. StackNeeded' /\ RootHighest'
        BY <1>2, <2>1, <2>3, <2>5, <2>6, <2>8 DEF Borrowing, StackNeeded, RootHighest
      <3> QED  BY <1>2, <2>1, <3>1 DEF Borrowing
    <2>9. CASE stack' = Append(rest, [module |-> d, todo |-> depends[d]])
      <3>1. /\ DOMAIN stack' = 1..(n + 1) /\ stack'[n + 1].module = d
            /\ \A i \in 1..n : stack'[i].module = stack[i].module
        <4>1. [module |-> d, todo |-> depends[d]].module = d
          OBVIOUS
        <4>2. /\ DOMAIN stack' = 1..(n + 1) /\ stack'[n + 1] = [module |-> d, todo |-> depends[d]]
              /\ \A i \in 1..n : stack'[i] = rest[i]
          BY <2>3, <2>5, <2>9
        <4> QED  BY <2>5, <4>1, <4>2
      <3>2. stack'[1].module = stack[1].module /\ stack[1].module \in Modules
        BY <2>3, <2>6, <3>1
      <3>3. \A i \in 1..n : stack[i].module \in Needs(stack[1].module)
        BY <2>3 DEF Borrowing, StackNeeded
      <3>4. d \in Needs(stack[1].module)
        BY <2>3, <2>4, <3>2, <3>3, NeedsFacts
      <3>5. \A i \in 1..(n + 1) : stack'[i].module \in Needs(stack[1].module)
        <4>1. \A i \in 1..(n + 1) : i \in 1..n \/ i = n + 1
          BY <2>3
        <4> QED  BY <3>1, <3>3, <3>4, <4>1
      <3>6. StackNeeded' /\ RootHighest'
        BY <1>2, <2>1, <3>1, <3>2, <3>5 DEF Borrowing, StackNeeded, RootHighest
      <3> QED  BY <1>2, <2>1, <3>6 DEF Borrowing
    <2> QED  BY <2>2, <2>7, <2>8, <2>9 DEF Called, Visit, rest
  <1>5. CASE Place
    <2> DEFINE n == Len(stack)
               k == Len(ordered)
               m == Top.module
    <2>1. /\ depends' = depends /\ priority' = priority /\ stack # <<>>
          /\ ordered' = Append(ordered, m) /\ stack' = SubSeq(stack, 1, n - 1)
      BY <1>5 DEF Place, declared
    <2>2. /\ n \in Nat /\ n >= 1 /\ DOMAIN stack = 1..n /\ n \in 1..n /\ 1 \in 1..n
          /\ stack[n].module = m /\ stack[1].module \in Modules /\ stack \in Seq(Frame)
      BY <2>1, StackFacts DEF IInv, SortTypeOK
    <2>3. /\ DOMAIN stack' = 1..(n - 1) /\ stack' \in Seq(Frame)
          /\ \A i \in 1..(n - 1) : i \in 1..n /\ stack'[i] = stack[i]
      BY <2>1, <2>2
    <2>4. /\ k \in Nat /\ DOMAIN ordered = 1..k /\ DOMAIN ordered' = 1..(k + 1)
          /\ ordered'[k + 1] = m /\ \A i \in 1..k : ordered'[i] = ordered[i]
      BY <2>1 DEF IInv, SortTypeOK
    <2> HIDE DEF n, k, m
    <2>5. \A x \in Modules : Needs(x)' = Needs(x)
      BY <2>1 DEF Needs
    <2>6. Placed \subseteq Placed' /\ \A y \in Placed : \E i \in 1..k : ordered'[i] = y
      BY <2>4 DEF Placed
    <2>7. StackNeeded' /\ RootHighest'
      <3>1. CASE n = 1
        BY <2>3, <3>1 DEF StackNeeded, RootHighest
      <3>2. CASE n # 1
        <4>1. 1 \in 1..(n - 1) /\ stack'[1] = stack[1]
          BY <2>2, <2>3, <3>2
        <4>2. StackNeeded'
          BY <2>2, <2>3, <2>5, <4>1 DEF Borrowing, StackNeeded
        <4>3. RootHighest'
          BY <2>1, <2>6, <4>1 DEF Borrowing, RootHighest
        <4> QED  BY <4>2, <4>3
      <3> QED  BY <3>1, <3>2
    <2>8. EachBorrowed'
      <3>1. ASSUME NEW i \in 1..k
            PROVE  \E x \in Modules :
                     /\ ordered'[i] \in Needs(x)
                     /\ \A y \in Modules : (\A j \in 1..i : ordered'[j] # y) => priority[x] >= priority[y]
        <4>1. \A j \in 1..i : ordered'[j] = ordered[j]
          BY <2>4
        <4> QED  BY <2>4, <4>1 DEF Borrowing, EachBorrowed
      <3>2. /\ m \in Needs(stack[1].module)
            /\ \A y \in Modules : (\A j \in 1..(k + 1) : ordered'[j] # y)
                                  => priority[stack[1].module] >= priority[y]
        <4>1. m \in Needs(stack[1].module)
          BY <2>2 DEF Borrowing, StackNeeded
        <4>2. \A j \in 1..k : j \in 1..(k + 1)
          BY <2>4
        <4> QED  BY <2>1, <2>6, <4>1, <4>2 DEF Borrowing, RootHighest
      <3>3. \A i \in 1..(k + 1) : i \in 1..k \/ i = k + 1
        BY <2>4
      <3>4. ASSUME NEW i \in 1..(k + 1)
            PROVE  \E x \in Modules :
                     /\ ordered'[i] \in Needs(x)
                     /\ \A y \in Modules : (\A j \in 1..i : ordered'[j] # y) => priority[x] >= priority[y]
        <4>1. CASE i \in 1..k
          BY <3>1, <4>1
        <4>2. CASE i = k + 1
          BY <2>2, <2>4, <3>2, <4>2
        <4> QED  BY <3>3, <4>1, <4>2
      <3> QED  BY <2>1, <2>4, <2>5, <3>4 DEF EachBorrowed
    <2> QED  BY <2>7, <2>8 DEF Borrowing
  <1>6. CASE Sorted \/ CallOnInit \/ UNCHANGED sortVars
    BY <1>1, <1>6 DEF Sorted, CallOnInit, sortVars, declared
  <1> QED  BY <1>3, <1>4, <1>5, <1>6 DEF SortNext

\* Where the order goes against the priorities, a dependency is the reason: an
\* earlier module of lower priority is needed by one of at least the priority
\* of the later one.
THEOREM PrioritiesBorrowed == SortSpec => []PriorityBorrowed
  <1>1. SortInit => Borrowing
    BY DEF SortInit, Borrowing, RootHighest, StackNeeded, EachBorrowed
  <1>2. IInv /\ IInv' /\ Borrowing /\ [SortNext]_sortVars => Borrowing'
    BY BorrowingKept
  <1>3. IInv /\ Borrowing => PriorityBorrowed
    <2> SUFFICES ASSUME IInv, Borrowing, NEW i \in DOMAIN ordered, NEW j \in DOMAIN ordered, i < j
                 PROVE  \E m \in Modules :
                            ordered[i] \in Needs(m) /\ priority[m] >= priority[ordered[j]]
      BY DEF PriorityBorrowed
    <2>1. DOMAIN ordered = 1..Len(ordered) /\ Len(ordered) \in Nat /\ ordered[j] \in Modules
      BY DEF IInv, SortTypeOK
    <2>2. \A k \in 1..i : k \in DOMAIN ordered /\ k # j
      BY <2>1
    <2>3. \A k \in 1..i : ordered[k] # ordered[j]
      BY <2>2 DEF IInv, OrderSound, PlacedOnce
    <2> QED  BY <2>1, <2>3 DEF Borrowing, EachBorrowed
  <1> QED  BY <1>1, <1>2, <1>3, Invariant, PTL DEF SortSpec
=============================================================================
