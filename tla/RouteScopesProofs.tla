--------------------------- MODULE RouteScopesProofs ---------------------------
(***************************************************************************)
(* Theorems about defineRoutes(), for any number of calls in any order, any *)
(* names, paths and RAIs.  What finalize() computes is an induction over    *)
(* the tree of scopes; each recursive function is first shown to obey its   *)
(* equation, and then to be what the calls say.                             *)
(***************************************************************************)
EXTENDS RouteScopes, WellFoundedInduction, FiniteSetTheorems,
        FunctionTheorems, TLAPS

\* An array that handlers are pushed on holds those of some calls, in the
\* order of the calls.
Lists(q, S) ==
    /\ ToSet(q) = S
    /\ \A i, j \in DOMAIN q : i < j => q[i] < q[j]

UsesKept ==
    \A s \in DOMAIN scopes : Lists(scopes[s].uses, Calls("use", {s}))

OwnKept ==
    \A r \in DOMAIN routes : Lists(routes[r].middlewares, Calls("route", {r}))

\* A scope's Map has the last handler of each name given to param() there.
Given(s, n) == {c \in Calls("param", {s}) : calls[c].name = n}

LastOf(c, S) ==
    IF c = NoHandler THEN S = {} ELSE c \in S /\ \A d \in S : d <= c

ParamsKept ==
    \A s \in DOMAIN scopes, n \in Names : LastOf(scopes[s].params[n], Given(s, n))

\* How finalize() ended, if it did: nothing changes after it.
Concluded ==
    /\ outcome = "built" => ~Unmatched /\ table = Flattened
    /\ outcome = "unmatched" => Unmatched
    /\ outcome # "built" => table = <<>>

Ledger == TypeOK /\ UsesKept /\ OwnKept /\ ParamsKept

IInv == Ledger /\ Concluded

-----------------------------------------------------------------------------
\* Every nonempty set of naturals has a least element.
LEMMA LeastNat ==
    ASSUME NEW S, S \subseteq Nat, S # {}
    PROVE  \E x \in S : \A y \in S : x <= y
  <1>1. PICK x \in S : \A y \in S : ~(<<y, x>> \in OpToRel(<, Nat))
    BY NatLessThanWellFounded, WFMin
  <1>2. \A y \in S : ~(y < x)
    BY <1>1 DEF OpToRel
  <1> QED  BY <1>2

\* Induction up the numbers to n, from any number below to the next.
LEMMA Upward ==
    ASSUME NEW n \in Nat, NEW p, \A s \in 1..n : p[s] \in 0..(s - 1),
           NEW T, 0 \in T, \A s \in 1..n : p[s] \in T => s \in T
    PROVE  0..n \subseteq T
  <1> SUFFICES ASSUME (0..n) \ T # {}  PROVE FALSE
    OBVIOUS
  <1>1. PICK x \in (0..n) \ T : \A y \in (0..n) \ T : x <= y
    <2>1. (0..n) \ T \subseteq Nat
      OBVIOUS
    <2> QED  BY <2>1, LeastNat
  <1>2. x \in 1..n
    BY <1>1
  <1>3. p[x] \in 0..n /\ p[x] < x
    BY <1>2
  <1>4. p[x] \in T
    BY <1>1, <1>3
  <1> QED  BY <1>1, <1>2, <1>4

\* Induction one by one.
LEMMA OneByOne ==
    ASSUME NEW n \in Nat, NEW T, 0 \in T, \A s \in 1..n : s - 1 \in T => s \in T
    PROVE  0..n \subseteq T
  <1> DEFINE p == [s \in 1..n |-> s - 1]
  <1>1. \A s \in 1..n : p[s] = s - 1 /\ p[s] \in 0..(s - 1)
    OBVIOUS
  <1>2. \A s \in 1..n : p[s] \in T => s \in T
    BY <1>1
  <1> HIDE DEF p
  <1> QED  BY <1>1, <1>2, Upward

\* Induction down from n, from all the numbers above.
LEMMA Downward ==
    ASSUME NEW n \in Nat, NEW T,
           \A s \in 1..n : (\A c \in (s + 1)..n : c \in T) => s \in T
    PROVE  1..n \subseteq T
  <1> SUFFICES ASSUME (1..n) \ T # {}  PROVE FALSE
    OBVIOUS
  <1> DEFINE M == {m \in 0..n : n - m \in (1..n) \ T}
  <1>1. M \subseteq Nat /\ M # {}
    <2>1. PICK x \in 1..n : x \notin T
      OBVIOUS
    <2>2. n - x \in M
      BY <2>1
    <2> QED  BY <2>2
  <1>2. PICK m \in M : \A y \in M : m <= y
    <2> HIDE DEF M
    <2> QED  BY <1>1, LeastNat
  <1>3. \A c \in (n - m + 1)..n : c \in T
    <2> SUFFICES ASSUME NEW c \in (n - m + 1)..n, c \notin T  PROVE FALSE
      OBVIOUS
    <2>1. m \in 0..n /\ n - m \in 1..n
      OBVIOUS
    <2>2. c \in 1..n /\ n - c \in 0..n /\ n - (n - c) = c
      BY <2>1
    <2>3. n - c \in M
      BY <2>2
    <2> QED  BY <1>2, <2>1, <2>2, <2>3
  <1> QED  BY <1>3

-----------------------------------------------------------------------------
\* ToSet by membership.
LEMMA Elements == \A q, x : x \in ToSet(q) <=> \E i \in DOMAIN q : q[i] = x
  BY DEF ToSet

\* Two sequences one after the other.
LEMMA ConcatFacts ==
    ASSUME NEW X, NEW a \in Seq(X), NEW b \in Seq(X)
    PROVE  /\ a \o b \in Seq(X)
           /\ ToSet(a \o b) = ToSet(a) \cup ToSet(b)
           /\ IsInjective(a) /\ IsInjective(b) /\ ToSet(a) \cap ToSet(b) = {}
                 => IsInjective(a \o b)
  <1> DEFINE m == Len(a)  n == Len(b)
  <1>1. m \in Nat /\ n \in Nat /\ DOMAIN a = 1..m /\ DOMAIN b = 1..n
    OBVIOUS
  <1>2. /\ a \o b \in Seq(X) /\ DOMAIN (a \o b) = 1..(m + n)
        /\ \A i \in 1..m : (a \o b)[i] = a[i]
        /\ \A i \in 1..n : (a \o b)[m + i] = b[i]
    OBVIOUS
  <1>3. \A i \in 1..(m + n) : i \in 1..m \/ (i - m \in 1..n /\ m + (i - m) = i)
    BY <1>1
  <1> HIDE DEF m, n
  <1>4. ToSet(a \o b) = ToSet(a) \cup ToSet(b)
    <2>1. ASSUME NEW x, x \in ToSet(a \o b)  PROVE x \in ToSet(a) \cup ToSet(b)
      <3>1. PICK i \in 1..(m + n) : (a \o b)[i] = x
        <4>1. \E i \in DOMAIN (a \o b) : (a \o b)[i] = x
          BY <2>1 DEF ToSet
        <4> QED  BY <4>1, <1>2
      <3>2. CASE i \in 1..m
        BY <3>1, <3>2, <1>1, <1>2, Elements
      <3>3. CASE i - m \in 1..n /\ m + (i - m) = i
        <4>1. b[i - m] = x
          BY <3>1, <3>3, <1>2
        <4> QED  BY <4>1, <3>3, <1>1, Elements
      <3> QED  BY <3>2, <3>3, <1>3
    <2>2. ASSUME NEW x, x \in ToSet(a)  PROVE x \in ToSet(a \o b)
      <3>1. PICK i \in 1..m : a[i] = x
        BY <2>2, <1>1, Elements
      <3>2. i \in 1..(m + n) /\ (a \o b)[i] = x
        BY <3>1, <1>1, <1>2
      <3> QED  BY <3>2, <1>2, Elements
    <2>3. ASSUME NEW x, x \in ToSet(b)  PROVE x \in ToSet(a \o b)
      <3>1. PICK i \in 1..n : b[i] = x
        BY <2>3, <1>1, Elements
      <3>2. m + i \in 1..(m + n) /\ (a \o b)[m + i] = x
        BY <3>1, <1>1, <1>2
      <3> QED  BY <3>2, <1>2, Elements
    <2> QED  BY <2>1, <2>2, <2>3
  <1>5. ASSUME IsInjective(a), IsInjective(b), ToSet(a) \cap ToSet(b) = {},
               NEW i \in 1..(m + n), NEW j \in 1..(m + n), (a \o b)[i] = (a \o b)[j]
        PROVE  i = j
    <2>1. \A k \in 1..m, l \in 1..n : a[k] # b[l]
      BY <1>1, <1>5, Elements
    <2>2. CASE i \in 1..m /\ j \in 1..m
      BY <2>2, <1>1, <1>2, <1>5 DEF IsInjective
    <2>3. CASE i \in 1..m /\ j - m \in 1..n /\ m + (j - m) = j
      <3>1. (a \o b)[j] = b[j - m]
        BY <2>3, <1>2
      <3> QED  BY <3>1, <2>1, <2>3, <1>2, <1>5
    <2>4. CASE j \in 1..m /\ i - m \in 1..n /\ m + (i - m) = i
      <3>1. (a \o b)[i] = b[i - m]
        BY <2>4, <1>2
      <3> QED  BY <3>1, <2>1, <2>4, <1>2, <1>5
    <2>5. CASE i - m \in 1..n /\ m + (i - m) = i /\ j - m \in 1..n /\ m + (j - m) = j
      <3>1. (a \o b)[i] = b[i - m] /\ (a \o b)[j] = b[j - m]
        BY <2>5, <1>2
      <3>2. i - m = j - m
        BY <3>1, <2>5, <1>1, <1>5 DEF IsInjective
      <3> QED  BY <3>2, <2>5
    <2> QED  BY <2>2, <2>3, <2>4, <2>5, <1>3
  <1> QED  BY <1>2, <1>4, <1>5 DEF IsInjective

\* f has the first sequence of q, the first two one after the other, ...
Partials(f, n, q) == f[1] = q[1] /\ \A i \in 2..n : f[i] = f[i - 1] \o q[i]

\* FlattenSeq puts the sequences one after the other: it is the last of its own
\* partial results.
LEMMA FlattenSteps ==
    ASSUME NEW X, NEW n \in Nat \ {0}, NEW q \in [1..n -> Seq(X)]
    PROVE  \E f \in [1..n -> Seq(X)] :
              Partials(f, n, q) /\ FlattenSeq(q) = f[n]
  <1> DEFINE Steps(k, f) == Partials(f, k, q)
             Some(k) == \E f \in [1..k -> Seq(X)] : Steps(k, f)
             T == {k \in 0..n : k # 0 => Some(k)}
  <1>1. Len(q) = n
    OBVIOUS
  <1>2. Some(1)
    <2> DEFINE f == [i \in 1..1 |-> q[1]]
    <2>1. f \in [1..1 -> Seq(X)] /\ Steps(1, f)
      BY DEF Partials
    <2> HIDE DEF f, Steps
    <2> QED  BY <2>1
  <1>3. ASSUME NEW k \in 2..n, Some(k - 1)  PROVE Some(k)
    <2>1. PICK f \in [1..(k - 1) -> Seq(X)] : Steps(k - 1, f)
      BY <1>3
    <2> DEFINE g == [i \in 1..k |-> IF i = k THEN f[k - 1] \o q[k] ELSE f[i]]
    <2>2. k - 1 \in 1..(k - 1) /\ f[k - 1] \in Seq(X) /\ q[k] \in Seq(X)
      OBVIOUS
    <2>3. g \in [1..k -> Seq(X)]
      BY <2>2, ConcatFacts
    <2>4. g[1] = q[1]
      BY <2>1 DEF Partials
    <2>5. ASSUME NEW i \in 2..k  PROVE g[i] = g[i - 1] \o q[i]
      <3>1. i \in 1..k /\ i - 1 \in 1..k /\ i - 1 # k
        OBVIOUS
      <3>2. g[i - 1] = f[i - 1]
        BY <3>1
      <3>3. CASE i = k
        <4>1. g[i] = f[k - 1] \o q[k]
          BY <3>1, <3>3
        <4> QED  BY <4>1, <3>2, <3>3
      <3>4. CASE i # k
        <4>1. i \in 2..(k - 1) /\ g[i] = f[i]
          BY <3>4
        <4>2. f[i] = f[i - 1] \o q[i]
          BY <4>1, <2>1 DEF Partials
        <4> QED  BY <4>1, <4>2, <3>2
      <3> QED  BY <3>3, <3>4
    <2>6. Steps(k, g)
      BY <2>4, <2>5 DEF Partials
    <2> HIDE DEF g, Steps
    <2> QED  BY <2>3, <2>6
  <1>4. Some(n)
    <2> HIDE DEF Some
    <2>1. ASSUME NEW k \in 1..n, k - 1 \in T  PROVE k \in T
      <3>1. CASE k = 1
        BY <3>1, <1>2
      <3>2. CASE k # 1
        <4>1. k \in 2..n /\ Some(k - 1)
          BY <3>2, <2>1
        <4> QED  BY <4>1, <1>3
      <3> QED  BY <3>1, <3>2
    <2>2. 0 \in T
      OBVIOUS
    <2>3. 0..n \subseteq T
      <3> HIDE DEF T
      <3> QED  BY <2>1, <2>2, OneByOne
    <2> QED  BY <2>3
  <1>5. PICK f \in [1..n -> Seq(X)] : Steps(n, f)
    BY <1>4
  <1> DEFINE Step(g) == [i \in 1..Len(q) |-> IF i = 1 THEN q[i] ELSE g[i - 1] \o q[i]]
             h == CHOOSE g : g = Step(g)
  <1>6. f = Step(f)
    <2>1. \A i \in 1..n : i # 1 => i \in 2..n
      OBVIOUS
    <2>2. \A i \in 1..n : f[i] = IF i = 1 THEN q[i] ELSE f[i - 1] \o q[i]
      BY <1>5, <2>1 DEF Partials
    <2> QED  BY <1>1, <2>2
  <1>7. h = Step(h)
    <2>1. \E g : g = Step(g)
      BY <1>6
    <2> HIDE DEF Step
    <2> QED  BY <2>1, Zenon
  <1>8. FlattenSeq(q) = h[n]
    BY <1>1 DEF FlattenSeq
  <1> HIDE DEF h
  <1>9. 1..n \subseteq {k \in 1..n : h[k] = f[k]}
    <2> DEFINE U == {0} \cup {k \in 1..n : h[k] = f[k]}
    <2>1. ASSUME NEW k \in 1..n, k - 1 \in U  PROVE k \in U
      <3>1. h[k] = IF k = 1 THEN q[k] ELSE h[k - 1] \o q[k]
        BY <1>1, <1>7
      <3>2. CASE k = 1
        BY <3>1, <3>2, <1>5 DEF Partials
      <3>3. CASE k # 1
        <4>1. k \in 2..n /\ h[k - 1] = f[k - 1]
          BY <3>3, <2>1
        <4>2. f[k] = f[k - 1] \o q[k]
          BY <4>1, <1>5 DEF Partials
        <4> QED  BY <3>1, <3>3, <4>1, <4>2
      <3> QED  BY <3>2, <3>3
    <2>2. 0 \in U
      OBVIOUS
    <2>3. 0..n \subseteq U
      <3> HIDE DEF U
      <3> QED  BY <2>1, <2>2, OneByOne
    <2> QED  BY <2>3
  <1>10. FlattenSeq(q) = f[n]
    BY <1>8, <1>9
  <1> QED  BY <1>5, <1>10

\* No element occurs twice in the n sequences of q.
Apart(q, n) ==
    /\ \A i \in 1..n : IsInjective(q[i])
    /\ \A i, j \in 1..n : i # j => ToSet(q[i]) \cap ToSet(q[j]) = {}

\* What FlattenSeq returns has the elements of all its sequences, each once if
\* each of them has it once and no two share one.
LEMMA FlattenFacts ==
    ASSUME NEW X, NEW n \in Nat, NEW q \in [1..n -> Seq(X)]
    PROVE  /\ FlattenSeq(q) \in Seq(X)
           /\ ToSet(FlattenSeq(q)) = UNION {ToSet(q[i]) : i \in 1..n}
           /\ Apart(q, n) => IsInjective(FlattenSeq(q))
  <1>1. CASE n = 0
    <2>1. q = <<>> /\ Len(q) = 0
      BY <1>1
    <2>2. FlattenSeq(q) = <<>>
      BY <2>1 DEF FlattenSeq
    <2>3. UNION {ToSet(q[i]) : i \in 1..n} = {}
      BY <1>1
    <2>4. ToSet(<<>>) = {} /\ IsInjective(<<>>)
      BY DEF ToSet, IsInjective
    <2>5. <<>> \in Seq(X)
      OBVIOUS
    <2>6. ToSet(FlattenSeq(q)) = UNION {ToSet(q[i]) : i \in 1..n}
      BY <2>2, <2>3, <2>4, Zenon
    <2> QED  BY <2>2, <2>4, <2>5, <2>6, Zenon
  <1>2. CASE n # 0
    <2>0. n \in Nat \ {0}
      BY <1>2
    <2>1. PICK f \in [1..n -> Seq(X)] :
             Partials(f, n, q) /\ FlattenSeq(q) = f[n]
      BY <2>0, FlattenSteps, SMT
    <2> DEFINE Union(k) == UNION {ToSet(q[i]) : i \in 1..k}
               Good(k) == ToSet(f[k]) = Union(k) /\ (Apart(q, n) => IsInjective(f[k]))
               T == {k \in 0..n : k # 0 => Good(k)}
    <2>2. Good(1)
      <3>1. Union(1) = ToSet(q[1])
        OBVIOUS
      <3>2. 1 \in 1..n
        BY <1>2
      <3>3. f[1] = q[1]
        BY <2>1 DEF Partials
      <3>4. Apart(q, n) => IsInjective(q[1])
        BY <3>2 DEF Apart
      <3> HIDE DEF Union
      <3> QED  BY <3>1, <3>3, <3>4
    <2>3. ASSUME NEW k \in 2..n, Good(k - 1)  PROVE Good(k)
      <3>0. k \in 1..n /\ k - 1 \in 1..n
        OBVIOUS
      <3>1. /\ k \in 1..n /\ k - 1 \in 1..n
            /\ f[k - 1] \in Seq(X) /\ q[k] \in Seq(X) /\ f[k] = f[k - 1] \o q[k]
        BY <3>0, <2>1 DEF Partials
      <3>2. Union(k) = Union(k - 1) \cup ToSet(q[k])
        <4>1. 1..k = 1..(k - 1) \cup {k}
          OBVIOUS
        <4> QED  BY <4>1
      <3>3. ToSet(f[k]) = ToSet(f[k - 1]) \cup ToSet(q[k])
        BY <3>1, ConcatFacts
      <3>4. Apart(q, n) => Union(k - 1) \cap ToSet(q[k]) = {}
        <4> SUFFICES ASSUME Apart(q, n), NEW x \in Union(k - 1), x \in ToSet(q[k])
                     PROVE  FALSE
          OBVIOUS
        <4>1. PICK i \in 1..(k - 1) : x \in ToSet(q[i])
          OBVIOUS
        <4>2. i \in 1..n /\ i # k
          OBVIOUS
        <4> QED  BY <4>1, <4>2, <3>1 DEF Apart
      <3>5. Apart(q, n) => IsInjective(q[k])
        BY <3>1 DEF Apart
      <3> HIDE DEF Union
      <3>6. Apart(q, n) => IsInjective(f[k])
        BY <2>3, <3>1, <3>4, <3>5, ConcatFacts
      <3> QED  BY <2>3, <3>2, <3>3, <3>6
    <2>4. Good(n)
      <3> HIDE DEF Good
      <3>1. ASSUME NEW k \in 1..n, k - 1 \in T  PROVE k \in T
        <4>1. CASE k = 1
          BY <4>1, <2>2
        <4>2. CASE k # 1
          <5>1. k \in 2..n /\ Good(k - 1)
            BY <4>2, <3>1
          <5> QED  BY <5>1, <2>3
        <4> QED  BY <4>1, <4>2
      <3>2. 0 \in T
        OBVIOUS
      <3>3. 0..n \subseteq T
        <4> HIDE DEF T
        <4> QED  BY <3>1, <3>2, OneByOne
      <3> QED  BY <3>3, <1>2
    <2> QED  BY <2>1, <2>4, <1>2
  <1> QED  BY <1>1, <1>2

-----------------------------------------------------------------------------
\* f is what each of n nodes makes of its parent's: G[s] at s, base at the top.
Inherits(f, n, p, base, G) == f[0] = base /\ \A s \in 1..n : f[s] = G[s][f[p[s]]]

\* What is handed down a tree, from each node p[s] to s, is well defined.
LEMMA HandedDown ==
    ASSUME NEW n \in Nat, NEW p, \A s \in 1..n : p[s] \in 0..(s - 1),
           NEW V, NEW base \in V, NEW G \in [1..n -> [V -> V]]
    PROVE  \E f \in [0..n -> V] : Inherits(f, n, p, base, G)
  <1> DEFINE Obeys(k, f) == Inherits(f, k, p, base, G)
             Some(k) == \E f \in [0..k -> V] : Obeys(k, f)
             T == {k \in 0..n : Some(k)}
  <1>1. Some(0)
    <2> DEFINE f == [s \in 0..0 |-> base]
    <2>1. f \in [0..0 -> V] /\ Obeys(0, f)
      BY DEF Inherits
    <2> HIDE DEF f, Obeys
    <2> QED  BY <2>1
  <1>2. ASSUME NEW k \in 1..n, Some(k - 1)  PROVE Some(k)
    <2>1. PICK f \in [0..(k - 1) -> V] : Obeys(k - 1, f)
      BY <1>2
    <2> DEFINE g == [s \in 0..k |-> IF s = k THEN G[k][f[p[k]]] ELSE f[s]]
    <2>2. p[k] \in 0..(k - 1) /\ f[p[k]] \in V /\ G[k][f[p[k]]] \in V
      OBVIOUS
    <2>3. g \in [0..k -> V]
      BY <2>2
    <2>4. g[0] = base
      BY <2>1 DEF Inherits
    <2>5. ASSUME NEW s \in 1..k  PROVE g[s] = G[s][g[p[s]]]
      <3>1. p[s] \in 0..(s - 1) /\ s \in 1..n
        OBVIOUS
      <3>2. p[s] \in 0..k /\ p[s] # k
        BY <3>1
      <3>3. g[p[s]] = f[p[s]]
        BY <3>2
      <3>4. CASE s = k
        BY <3>3, <3>4
      <3>5. CASE s # k
        <4>1. s \in 1..(k - 1) /\ g[s] = f[s]
          BY <3>5
        <4> QED  BY <4>1, <3>3, <2>1 DEF Inherits
      <3> QED  BY <3>4, <3>5
    <2>6. Obeys(k, g)
      BY <2>4, <2>5 DEF Inherits
    <2> HIDE DEF g, Obeys
    <2> QED  BY <2>3, <2>6
  <1>3. Some(n)
    <2> HIDE DEF Some
    <2>1. 0 \in T
      BY <1>1
    <2>2. \A k \in 1..n : k - 1 \in T => k \in T
      BY <1>2
    <2>3. 0..n \subseteq T
      <3> HIDE DEF T
      <3> QED  BY <2>1, <2>2, OneByOne
    <2> QED  BY <2>3
  <1> QED  BY <1>3

\* A scope's fields have their types, and it was opened in one before it.
LEMMA ScopeFacts ==
    ASSUME TypeOK
    PROVE  /\ Len(scopes) \in Nat /\ Len(scopes) >= 1
           /\ DOMAIN scopes = 1..Len(scopes)
           /\ \A s \in 1..Len(scopes) :
                 /\ scopes[s].parent \in 0..(s - 1)
                 /\ s = 1 <=> scopes[s].parent = 0
                 /\ scopes[s].path \in Seq(Names)
                 /\ scopes[s].uses \in Seq(DOMAIN calls)
                 /\ scopes[s].params \in [Names -> 0..Len(calls)]
                 /\ scopes[s].root \in BOOLEAN
  <1>1. scopes \in Seq(ScopeRecord) /\ scopes # <<>>
    BY DEF TypeOK
  <1>2. Len(scopes) \in Nat /\ Len(scopes) >= 1 /\ DOMAIN scopes = 1..Len(scopes)
    BY <1>1
  <1>3. \A s \in 1..Len(scopes) : scopes[s] \in ScopeRecord
    BY <1>1
  <1>4. \A s \in 1..Len(scopes) :
           /\ scopes[s].parent \in 0..(s - 1)
           /\ s = 1 <=> scopes[s].parent = 0
    <2> SUFFICES ASSUME NEW s \in 1..Len(scopes)
                 PROVE  scopes[s].parent \in 0..(s - 1) /\ (s = 1 <=> scopes[s].parent = 0)
      OBVIOUS
    <2>1. scopes[s].parent \in IF s = 1 THEN {0} ELSE 1..(s - 1)
      BY <1>2 DEF TypeOK
    <2> QED  BY <2>1, <1>2
  <1> QED  BY <1>2, <1>3, <1>4 DEF ScopeRecord

\* A route's fields have their types.
LEMMA RouteFacts ==
    ASSUME TypeOK
    PROVE  /\ Len(routes) \in Nat /\ DOMAIN routes = 1..Len(routes)
           /\ \A r \in 1..Len(routes) :
                 /\ routes[r] \in RouteRecord
                 /\ routes[r].scope \in 1..Len(scopes)
                 /\ routes[r].path \in Seq(Names)
                 /\ routes[r].middlewares \in Seq(DOMAIN calls)
                 /\ routes[r].root \in BOOLEAN
  <1>1. routes \in Seq(RouteRecord)
    BY DEF TypeOK
  <1>2. \A r \in 1..Len(routes) : routes[r] \in RouteRecord
    BY <1>1
  <1>3. Len(routes) \in Nat /\ DOMAIN routes = 1..Len(routes)
    BY <1>1
  <1>4. DOMAIN scopes = 1..Len(scopes)
    BY ScopeFacts
  <1>5. \A r \in RouteRecord :
           /\ r.scope \in 1..Len(scopes) /\ r.path \in Seq(Names)
           /\ r.middlewares \in Seq(DOMAIN calls) /\ r.root \in BOOLEAN
    BY <1>4 DEF RouteRecord
  <1> QED  BY <1>2, <1>3, <1>5

\* A call's fields have their types.
LEMMA CallFacts ==
    ASSUME TypeOK
    PROVE  /\ Len(calls) \in Nat /\ DOMAIN calls = 1..Len(calls)
           /\ \A c \in 1..Len(calls) : calls[c] \in Call /\ calls[c].at \in Nat
  <1>1. calls \in Seq(Call)
    BY DEF TypeOK
  <1>2. Len(calls) \in Nat /\ DOMAIN calls = 1..Len(calls)
        /\ \A c \in 1..Len(calls) : calls[c] \in Call
    BY <1>1
  <1> QED  BY <1>2 DEF Call

\* The recursive functions of finalize() and of the reference obey their
\* equations: the scopes that enclose one, ...
LEMMA EnclosingStep ==
    ASSUME TypeOK
    PROVE  Enclosing = [s \in 0..Len(scopes) |->
                          IF s = 0 THEN {} ELSE {s} \cup Enclosing[scopes[s].parent]]
  <1> DEFINE n == Len(scopes)  p == [s \in 1..n |-> scopes[s].parent]
             V == SUBSET (1..n)  G == [s \in 1..n |-> [v \in V |-> {s} \cup v]]
             Step(f) == [s \in 0..n |-> IF s = 0 THEN {} ELSE {s} \cup f[scopes[s].parent]]
  <1>1. n \in Nat /\ \A s \in 1..n : p[s] = scopes[s].parent /\ p[s] \in 0..(s - 1)
    BY ScopeFacts
  <1>2. {} \in V /\ G \in [1..n -> [V -> V]]
    OBVIOUS
  <1>3. \A s \in 1..n, v \in V : G[s][v] = {s} \cup v
    OBVIOUS
  <1> HIDE DEF p, G
  <1>4. PICK f \in [0..n -> V] : Inherits(f, n, p, {}, G)
    <2> HIDE DEF n, V
    <2> QED  BY <1>1, <1>2, HandedDown
  <1>5. \A s \in 1..n : f[s] = {s} \cup f[scopes[s].parent]
    <2> SUFFICES ASSUME NEW s \in 1..n  PROVE f[s] = {s} \cup f[scopes[s].parent]
      OBVIOUS
    <2>1. p[s] \in 0..n
      BY <1>1
    <2>2. f[p[s]] \in V
      BY <2>1
    <2> HIDE DEF n, V
    <2> QED  BY <1>1, <1>3, <1>4, <2>2 DEF Inherits
  <1>6. f = Step(f)
    <2>1. \A s \in 0..n : f[s] = IF s = 0 THEN {} ELSE {s} \cup f[scopes[s].parent]
      BY <1>1, <1>4, <1>5 DEF Inherits
    <2> QED  BY <2>1
  <1>7. \E g : g = Step(g)
    BY <1>6
  <1> QED  BY <1>7, Zenon DEF Enclosing

\* ... the use()s handed down to one, ...
LEMMA UsesStep ==
    ASSUME TypeOK
    PROVE  InheritedUses = [s \in 0..Len(scopes) |->
          IF s = 0 THEN <<>> ELSE InheritedUses[scopes[s].parent] \o scopes[s].uses]
  <1> DEFINE n == Len(scopes)  p == [s \in 1..n |-> scopes[s].parent]
             V == Seq(DOMAIN calls)  base == <<>>
             G == [s \in 1..n |-> [v \in V |-> v \o scopes[s].uses]]
             Step(f) == [s \in 0..n |->
          IF s = 0 THEN <<>> ELSE f[scopes[s].parent] \o scopes[s].uses]
  <1>1. n \in Nat /\ \A s \in 1..n : p[s] = scopes[s].parent /\ p[s] \in 0..(s - 1)
    BY ScopeFacts
  <1>2. base \in V /\ G \in [1..n -> [V -> V]]
    <2>1. \A s \in 1..n, v \in V : v \o scopes[s].uses \in V
      BY ScopeFacts
    <2> QED  BY <2>1
  <1>3. \A s \in 1..n, v \in V : G[s][v] = v \o scopes[s].uses
    OBVIOUS
  <1> HIDE DEF p, G
  <1>4. PICK f \in [0..n -> V] : Inherits(f, n, p, base, G)
    <2> HIDE DEF n, V, base
    <2> QED  BY <1>1, <1>2, HandedDown
  <1>5. \A s \in 1..n : f[s] = f[scopes[s].parent] \o scopes[s].uses
    <2> SUFFICES ASSUME NEW s \in 1..n  PROVE f[s] = f[scopes[s].parent] \o scopes[s].uses
      OBVIOUS
    <2>1. p[s] \in 0..n
      BY <1>1
    <2>2. f[p[s]] \in V
      BY <2>1
    <2>3. f[s] = G[s][f[p[s]]] /\ p[s] = scopes[s].parent
      BY <1>1, <1>4 DEF Inherits
    <2> HIDE DEF n, V
    <2> QED  BY <1>3, <2>2, <2>3
  <1>6. f = Step(f)
    <2>1. f[0] = base /\ \A s \in 0..n : s = 0 \/ s \in 1..n
      BY <1>1, <1>4 DEF Inherits
    <2>2. ASSUME NEW s \in 0..n
          PROVE  f[s] =
          IF s = 0 THEN <<>> ELSE f[scopes[s].parent] \o scopes[s].uses
      <3>1. CASE s = 0
        BY <2>1, <3>1
      <3>2. CASE s \in 1..n
        <4>1. s # 0
          BY <1>1, <3>2
        <4> QED  BY <4>1, <1>5, <3>2
      <3> QED  BY <2>1, <3>1, <3>2
    <2> QED  BY <2>2
  <1>7. \E g : g = Step(g)
    BY <1>6
  <1> QED  BY <1>7, Zenon DEF InheritedUses

\* ... whether one is root, ...
LEMMA RootStep ==
    ASSUME TypeOK
    PROVE  InheritedRoot = [s \in 0..Len(scopes) |->
          (s # 0 /\ (scopes[s].root \/ InheritedRoot[scopes[s].parent]))]
  <1> DEFINE n == Len(scopes)  p == [s \in 1..n |-> scopes[s].parent]
             V == BOOLEAN  base == FALSE
             G == [s \in 1..n |-> [v \in V |-> (scopes[s].root \/ v)]]
             Step(f) == [s \in 0..n |->
          (s # 0 /\ (scopes[s].root \/ f[scopes[s].parent]))]
  <1>1. n \in Nat /\ \A s \in 1..n : p[s] = scopes[s].parent /\ p[s] \in 0..(s - 1)
    BY ScopeFacts
  <1>2. base \in V /\ G \in [1..n -> [V -> V]]
    <2>1. \A s \in 1..n : scopes[s].root \in BOOLEAN
      BY ScopeFacts
    <2> QED  BY <2>1
  <1>3. \A s \in 1..n, v \in V : G[s][v] = (scopes[s].root \/ v)
    OBVIOUS
  <1> HIDE DEF p, G
  <1>4. PICK f \in [0..n -> V] : Inherits(f, n, p, base, G)
    <2> HIDE DEF n, V, base
    <2> QED  BY <1>1, <1>2, HandedDown
  <1>5. \A s \in 1..n : f[s] = (scopes[s].root \/ f[scopes[s].parent])
    <2> SUFFICES ASSUME NEW s \in 1..n  PROVE f[s] = (scopes[s].root \/ f[scopes[s].parent])
      OBVIOUS
    <2>1. p[s] \in 0..n
      BY <1>1
    <2>2. f[p[s]] \in V
      BY <2>1
    <2>3. f[s] = G[s][f[p[s]]] /\ p[s] = scopes[s].parent
      BY <1>1, <1>4 DEF Inherits
    <2> HIDE DEF n, V
    <2> QED  BY <1>3, <2>2, <2>3
  <1>6. f = Step(f)
    <2>1. f[0] = base /\ \A s \in 0..n : s = 0 \/ s \in 1..n
      BY <1>1, <1>4 DEF Inherits
    <2>2. ASSUME NEW s \in 0..n
          PROVE  f[s] =
          (s # 0 /\ (scopes[s].root \/ f[scopes[s].parent]))
      <3>1. CASE s = 0
        BY <2>1, <3>1
      <3>2. CASE s \in 1..n
        <4>1. s # 0
          BY <1>1, <3>2
        <4> QED  BY <4>1, <1>5, <3>2
      <3> QED  BY <2>1, <3>1, <3>2
    <2> QED  BY <2>2
  <1>7. \E g : g = Step(g)
    BY <1>6
  <1> QED  BY <1>7, Zenon DEF InheritedRoot

\* ... the param() handlers handed down, of which the nearest wins, ...
LEMMA ParamsStep ==
    ASSUME TypeOK
    PROVE  InheritedParams = [s \in 0..Len(scopes) |->
          [m \in Names |-> IF s = 0 THEN NoHandler
                           ELSE IF scopes[s].params[m] # NoHandler THEN scopes[s].params[m]
                           ELSE InheritedParams[scopes[s].parent][m]]]
  <1> DEFINE n == Len(scopes)  p == [s \in 1..n |-> scopes[s].parent]
             V == [Names -> 0..Len(calls)]  base == [m \in Names |-> NoHandler]
             nearer(s, v) == [m \in Names |->
                IF scopes[s].params[m] # NoHandler THEN scopes[s].params[m] ELSE v[m]]
             G == [s \in 1..n |-> [v \in V |-> nearer(s, v)]]
             Step(f) == [s \in 0..n |->
          [m \in Names |-> IF s = 0 THEN NoHandler
                           ELSE IF scopes[s].params[m] # NoHandler THEN scopes[s].params[m]
                           ELSE f[scopes[s].parent][m]]]
  <1>1. n \in Nat /\ \A s \in 1..n : p[s] = scopes[s].parent /\ p[s] \in 0..(s - 1)
    BY ScopeFacts
  <1>2. base \in V /\ G \in [1..n -> [V -> V]]
    <2>1. \A s \in 1..n : scopes[s].params \in [Names -> 0..Len(calls)]
      BY ScopeFacts
    <2>2. base \in V
      BY CallFacts DEF NoHandler
    <2> QED  BY <2>1, <2>2
  <1>3. \A s \in 1..n, v \in V : G[s][v] = nearer(s, v)
    OBVIOUS
  <1> HIDE DEF p, G
  <1>4. PICK f \in [0..n -> V] : Inherits(f, n, p, base, G)
    <2> HIDE DEF n, V, base
    <2> QED  BY <1>1, <1>2, HandedDown
  <1>5. \A s \in 1..n : f[s] = nearer(s, f[scopes[s].parent])
    <2> SUFFICES ASSUME NEW s \in 1..n  PROVE f[s] = nearer(s, f[scopes[s].parent])
      OBVIOUS
    <2>1. p[s] \in 0..n
      BY <1>1
    <2>2. f[p[s]] \in V
      BY <2>1
    <2>3. f[s] = G[s][f[p[s]]] /\ p[s] = scopes[s].parent
      BY <1>1, <1>4 DEF Inherits
    <2> HIDE DEF n, V
    <2> QED  BY <1>3, <2>2, <2>3
  <1>6. f = Step(f)
    <2>1. f[0] = base /\ \A s \in 0..n : s = 0 \/ s \in 1..n
      BY <1>1, <1>4 DEF Inherits
    <2>2. ASSUME NEW s \in 0..n
          PROVE  f[s] =
          [m \in Names |-> IF s = 0 THEN NoHandler
                           ELSE IF scopes[s].params[m] # NoHandler THEN scopes[s].params[m]
                           ELSE f[scopes[s].parent][m]]
      <3>1. CASE s = 0
        BY <2>1, <3>1
      <3>2. CASE s \in 1..n
        <4>1. s # 0
          BY <1>1, <3>2
        <4> QED  BY <4>1, <1>5, <3>2
      <3> QED  BY <2>1, <3>1, <3>2
    <2> QED  BY <2>2
  <1>7. \E g : g = Step(g)
    BY <1>6
  <1> QED  BY <1>7, Zenon DEF InheritedParams

\* A scope's own routes are those declared in it, each once.
LEMMA OwnFacts ==
    ASSUME TypeOK, NEW s
    PROVE  /\ Own(s) \in Seq(DOMAIN routes)
           /\ ToSet(Own(s)) = {r \in DOMAIN routes : routes[r].scope = s}
           /\ IsInjective(Own(s))
  <1> DEFINE X == DOMAIN routes  n == Len(routes)
             q == [r \in 1..n |-> IF routes[r].scope = s THEN <<r>> ELSE <<>>]
  <1>1. n \in Nat /\ X = 1..n
    BY RouteFacts
  <1>2. \A r \in X : <<r>> \in Seq(X) /\ ToSet(<<r>>) = {r} /\ IsInjective(<<r>>)
    BY DEF ToSet, IsInjective
  <1>3. <<>> \in Seq(X) /\ ToSet(<<>>) = {} /\ IsInjective(<<>>)
    BY DEF ToSet, IsInjective
  <1>4. q \in [1..n -> Seq(X)]
    BY <1>1, <1>2, <1>3
  <1>5. \A r \in 1..n : /\ ToSet(q[r]) = IF routes[r].scope = s THEN {r} ELSE {}
                        /\ IsInjective(q[r])
    BY <1>1, <1>2, <1>3
  <1>6. \A i, j \in 1..n : i # j => ToSet(q[i]) \cap ToSet(q[j]) = {}
    BY <1>5
  <1>7. UNION {ToSet(q[r]) : r \in 1..n} = {r \in X : routes[r].scope = s}
    <2>1. ASSUME NEW x, x \in UNION {ToSet(q[r]) : r \in 1..n}
          PROVE  x \in X /\ routes[x].scope = s
      BY <2>1, <1>1, <1>5
    <2>2. ASSUME NEW x \in X, routes[x].scope = s
          PROVE  x \in UNION {ToSet(q[r]) : r \in 1..n}
      <3>1. x \in 1..n /\ x \in ToSet(q[x])
        BY <2>2, <1>1, <1>5
      <3> HIDE DEF q
      <3> QED  BY <3>1
    <2> QED  BY <2>1, <2>2
  <1>8. Own(s) = FlattenSeq(q)
    BY <1>1 DEF Own
  <1> HIDE DEF X, n, q
  <1>9. /\ FlattenSeq(q) \in Seq(X)
        /\ ToSet(FlattenSeq(q)) = UNION {ToSet(q[r]) : r \in 1..n}
        /\ IsInjective(FlattenSeq(q))
    <2>1. Apart(q, n)
      BY <1>5, <1>6 DEF Apart
    <2> QED  BY <2>1, <1>1, <1>4, FlattenFacts
  <1> QED  BY <1>7, <1>8, <1>9 DEF X

\* The sequences of a scope's groups.
Nested(s, f) == [c \in DOMAIN scopes |-> IF scopes[c].parent = s THEN f[c] ELSE <<>>]

\* ... and the routes below one.
LEMMA SubtreeStep ==
    ASSUME TypeOK
    PROVE  Subtree = [s \in DOMAIN scopes |-> Own(s) \o FlattenSeq(Nested(s, Subtree))]
  <1> DEFINE n == Len(scopes)  V == Seq(DOMAIN routes)
             Node(s, f) == Own(s) \o FlattenSeq(Nested(s, f))
             Step(f) == [s \in DOMAIN scopes |-> Node(s, f)]
             Some(k) == \E f \in [1..n -> V] : \A s \in (k + 1)..n : f[s] = Node(s, f)
             T == {j \in 0..n : Some(n - j)}
  <1>1. n \in Nat /\ DOMAIN scopes = 1..n /\ \A s \in 1..n : scopes[s].parent \in 0..(s - 1)
    BY ScopeFacts
  <1>2. ASSUME NEW s, NEW f \in [1..n -> V]  PROVE Node(s, f) \in V
    <2>1. Nested(s, f) \in [1..n -> V]
      <3>1. <<>> \in V /\ \A c \in 1..n : f[c] \in V
        OBVIOUS
      <3> HIDE DEF V
      <3> QED  BY <3>1, <1>1 DEF Nested
    <2>2. FlattenSeq(Nested(s, f)) \in V
      <3> HIDE DEF n
      <3> QED  BY <1>1, <2>1, FlattenFacts
    <2> HIDE DEF n
    <2> QED  BY <2>2, OwnFacts, ConcatFacts
  <1>3. ASSUME NEW s, NEW f \in [1..n -> V], NEW g \in [1..n -> V],
               \A c \in 1..n : scopes[c].parent = s => f[c] = g[c]
        PROVE  Node(s, f) = Node(s, g)
    <2>1. Nested(s, f) = Nested(s, g)
      BY <1>1, <1>3 DEF Nested
    <2> QED  BY <2>1
  <1> HIDE DEF Node
  <1>4. Some(n)
    <2> DEFINE f == [s \in 1..n |-> <<>>]
    <2>1. f \in [1..n -> V] /\ (n + 1)..n = {}
      BY <1>1
    <2> HIDE DEF f
    <2> QED  BY <2>1
  <1>5. ASSUME NEW k \in 1..n, Some(k)  PROVE Some(k - 1)
    <2>1. PICK f \in [1..n -> V] : \A s \in (k + 1)..n : f[s] = Node(s, f)
      BY <1>5
    <2> DEFINE g == [f EXCEPT ![k] = Node(k, f)]
    <2>2. g \in [1..n -> V] /\ g[k] = Node(k, f) /\ \A c \in 1..n : c # k => g[c] = f[c]
      BY <1>2
    <2> HIDE DEF g
    <2>3. ASSUME NEW s \in ((k - 1) + 1)..n  PROVE g[s] = Node(s, g)
      <3>1. s \in 1..n /\ k <= s
        BY <1>1
      <3>2. \A c \in 1..n : scopes[c].parent = s => c # k
        BY <3>1, <1>1
      <3>3. Node(s, f) = Node(s, g)
        BY <3>2, <2>2, <1>3
      <3>4. CASE s = k
        BY <3>3, <3>4, <2>2
      <3>5. CASE s # k
        <4>1. s \in (k + 1)..n
          BY <3>1, <3>5, <1>1
        <4> QED  BY <4>1, <3>1, <3>3, <3>5, <2>1, <2>2
      <3> QED  BY <3>4, <3>5
    <2> QED  BY <2>2, <2>3
  <1>6. Some(0)
    <2> HIDE DEF Some
    <2>1. 0 \in T
      BY <1>1, <1>4
    <2>2. ASSUME NEW j \in 1..n, j - 1 \in T  PROVE j \in T
      <3>1. n - (j - 1) \in 1..n /\ (n - (j - 1)) - 1 = n - j /\ Some(n - (j - 1))
        BY <1>1, <2>2
      <3>2. Some((n - (j - 1)) - 1)
        BY <3>1, <1>5
      <3> QED  BY <3>1, <3>2
    <2>3. 0..n \subseteq T
      <3> HIDE DEF T, n
      <3> QED  BY <1>1, <2>1, <2>2, OneByOne
    <2>4. n \in T /\ n - n = 0
      BY <1>1, <2>3
    <2> QED  BY <2>4
  <1>7. PICK f \in [1..n -> V] : \A s \in 1..n : f[s] = Node(s, f)
    BY <1>1, <1>6
  <1>8. \E g : g = Step(g)
    <2>1. f = Step(f)
      BY <1>1, <1>7
    <2> HIDE DEF Step
    <2> QED  BY <2>1
  <1> USE DEF Node
  <1>9. Subtree = CHOOSE g : g = [s \in DOMAIN scopes |->
           Own(s) \o FlattenSeq([c \in DOMAIN scopes |->
                      IF scopes[c].parent = s THEN g[c] ELSE <<>>])]
    BY Zenon DEF Subtree
  <1> QED  BY <1>8, <1>9, Zenon DEF Nested

-----------------------------------------------------------------------------
\* A scope is enclosed by itself and by earlier ones, the registry first.
LEMMA EnclosingFacts ==
    ASSUME TypeOK
    PROVE  /\ Enclosing[0] = {}
           /\ \A s \in 1..Len(scopes) :
                 /\ Enclosing[s] = {s} \cup Enclosing[scopes[s].parent]
                 /\ Enclosing[s] \subseteq 1..s
                 /\ 1 \in Enclosing[s]
  <1> DEFINE n == Len(scopes)  p == [s \in 1..n |-> scopes[s].parent]
             T == {s \in 0..n : Enclosing[s] \subseteq 1..s /\ (s # 0 => 1 \in Enclosing[s])}
  <1>1. n \in Nat /\ \A s \in 1..n : p[s] = scopes[s].parent /\ p[s] \in 0..(s - 1)
    BY ScopeFacts
  <1>2. Enclosing[0] = {}
    BY <1>1, EnclosingStep
  <1>3. \A s \in 1..n : Enclosing[s] = {s} \cup Enclosing[scopes[s].parent]
    BY <1>1, EnclosingStep
  <1>4. ASSUME NEW s \in 1..n, p[s] \in T  PROVE s \in T
    <2>1. Enclosing[s] = {s} \cup Enclosing[p[s]] /\ p[s] \in 0..(s - 1)
      BY <1>1, <1>3
    <2>2. Enclosing[p[s]] \subseteq 1..p[s]
      BY <1>4
    <2>3. Enclosing[s] \subseteq 1..s
      BY <2>1, <2>2, <1>1
    <2>4. 1 \in Enclosing[s]
      <3>1. CASE s = 1
        BY <3>1, <2>1
      <3>2. CASE s # 1
        <4>1. p[s] # 0
          BY <1>1, <3>2, ScopeFacts
        <4> QED  BY <4>1, <1>4, <2>1
      <3> QED  BY <3>1, <3>2
    <2> QED  BY <2>3, <2>4
  <1>5. 0 \in T
    BY <1>1, <1>2
  <1>6. 0..n \subseteq T
    <2> HIDE DEF T, p, n
    <2> QED  BY <1>1, <1>4, <1>5, Upward
  <1> HIDE DEF p
  <1>7. \A s \in 1..n : s \in 0..n /\ s # 0
    BY <1>1
  <1> QED  BY <1>2, <1>3, <1>6, <1>7

\* q has the calls of S, in the order Before.
Ranked(q, S) ==
    /\ ToSet(q) = S
    /\ \A i, j \in DOMAIN q : i < j => Before(q[i], q[j])

\* Before is a strict total order of the calls.
LEMMA BeforeFacts ==
    ASSUME TypeOK
    PROVE  /\ \A c \in DOMAIN calls : ~Before(c, c)
           /\ \A c, d \in DOMAIN calls : Before(c, d) => ~Before(d, c)
           /\ \A c, d \in DOMAIN calls : c # d => Before(c, d) \/ Before(d, c)
  BY CallFacts DEF Before

\* What calls of one place push on an array is ranked.
LEMMA ListsRanked ==
    ASSUME TypeOK, NEW q, NEW op, NEW a, Lists(q, Calls(op, {a}))
    PROVE  Ranked(q, Calls(op, {a}))
  <1>1. \A i \in DOMAIN q : q[i] \in DOMAIN calls /\ calls[q[i]].at = a
    BY DEF Lists, Calls, ToSet
  <1> QED  BY <1>1, CallFacts DEF Lists, Ranked, Before

\* Two ranked arrays, all of one before all of the other, make a ranked one.
LEMMA ConcatRanked ==
    ASSUME NEW X, NEW a \in Seq(X), NEW b \in Seq(X), NEW A, NEW B,
           Ranked(a, A), Ranked(b, B), \A c \in A, d \in B : Before(c, d)
    PROVE  Ranked(a \o b, A \cup B)
  <1> DEFINE m == Len(a)  n == Len(b)
  <1>1. m \in Nat /\ n \in Nat /\ DOMAIN a = 1..m /\ DOMAIN b = 1..n
    OBVIOUS
  <1>2. /\ DOMAIN (a \o b) = 1..(m + n)
        /\ \A i \in 1..m : (a \o b)[i] = a[i]
        /\ \A i \in 1..n : (a \o b)[m + i] = b[i]
    OBVIOUS
  <1>3. \A i \in 1..(m + n) :
           \/ i \in 1..m /\ (a \o b)[i] = a[i]
           \/ i > m /\ i - m \in 1..n /\ (a \o b)[i] = b[i - m]
    <2>1. \A i \in 1..(m + n) : i \in 1..m \/ (i > m /\ i - m \in 1..n /\ m + (i - m) = i)
      BY <1>1
    <2> HIDE DEF m, n
    <2> QED  BY <2>1, <1>2
  <1> HIDE DEF m, n
  <1>4. (\A i \in 1..m : a[i] \in A) /\ (\A i \in 1..n : b[i] \in B)
    BY <1>1 DEF Ranked, ToSet
  <1>5. ASSUME NEW i \in 1..(m + n), NEW j \in 1..(m + n), i < j
        PROVE  Before((a \o b)[i], (a \o b)[j])
    <2>1. CASE i \in 1..m /\ j \in 1..m
      <3>1. (a \o b)[i] = a[i] /\ (a \o b)[j] = a[j]
        BY <1>2, <2>1
      <3> QED  BY <3>1, <2>1, <1>1, <1>5 DEF Ranked
    <2>2. CASE i \in 1..m /\ j > m
      <3>1. (a \o b)[i] = a[i] /\ (a \o b)[j] = b[j - m] /\ j - m \in 1..n
        BY <1>1, <1>2, <1>3, <2>2
      <3> QED  BY <3>1, <2>2, <1>4
    <2>3. CASE i > m
      <3>1. /\ (a \o b)[i] = b[i - m] /\ i - m \in 1..n
            /\ (a \o b)[j] = b[j - m] /\ j - m \in 1..n
        BY <1>1, <1>3, <1>5, <2>3
      <3>2. i - m < j - m
        BY <1>1, <1>5
      <3> QED  BY <3>1, <3>2, <1>1 DEF Ranked
    <2> QED  BY <2>1, <2>2, <2>3, <1>1
  <1>6. ToSet(a \o b) = A \cup B
    BY ConcatFacts DEF Ranked
  <1> QED  BY <1>2, <1>5, <1>6 DEF Ranked

\* finalize() hands down to a scope the use()s of the scopes that enclose it,
\* from the outermost in and in the order of the calls, ...
LEMMA UsesFacts ==
    ASSUME TypeOK, UsesKept
    PROVE  \A s \in 1..Len(scopes) :
              /\ InheritedUses[s] \in Seq(DOMAIN calls)
              /\ Ranked(InheritedUses[s], Calls("use", Enclosing[s]))
  <1> DEFINE n == Len(scopes)  p == [s \in 1..n |-> scopes[s].parent]
             V == Seq(DOMAIN calls)
             Good(s) == /\ InheritedUses[s] \in V
                        /\ Ranked(InheritedUses[s], Calls("use", Enclosing[s]))
             T == {s \in 0..n : Good(s)}
  <1>1. n \in Nat /\ \A s \in 1..n : p[s] = scopes[s].parent /\ p[s] \in 0..(s - 1)
    BY ScopeFacts
  <1>2. Good(0)
    <2>1. InheritedUses[0] = <<>>
      <3>1. 0 \in 0..n
        BY <1>1
      <3> QED  BY <3>1, UsesStep
    <2>2. Calls("use", Enclosing[0]) = {}
      BY EnclosingFacts DEF Calls
    <2> QED  BY <2>1, <2>2 DEF Ranked, ToSet
  <1>3. ASSUME NEW s \in 1..n, p[s] \in T  PROVE s \in T
    <2> DEFINE a == InheritedUses[p[s]]  b == scopes[s].uses
               A == Calls("use", Enclosing[p[s]])  B == Calls("use", {s})
    <2>1. p[s] = scopes[s].parent /\ p[s] \in 0..(s - 1) /\ s \in 0..n /\ s # 0
      BY <1>1
    <2>2. InheritedUses[s] = a \o b
      BY <2>1, UsesStep
    <2>3. a \in V /\ Ranked(a, A)
      BY <1>3
    <2>4. b \in V /\ Ranked(b, B)
      BY ScopeFacts, ListsRanked DEF UsesKept
    <2>5. Enclosing[p[s]] \subseteq 1..(s - 1)
      <3>1. p[s] = 0 \/ p[s] \in 1..n
        BY <2>1, <1>1
      <3>2. CASE p[s] = 0
        BY <3>2, EnclosingFacts
      <3>3. CASE p[s] \in 1..n
        <4>1. Enclosing[p[s]] \subseteq 1..p[s]
          BY <3>3, EnclosingFacts
        <4> QED  BY <4>1, <2>1
      <3> QED  BY <3>1, <3>2, <3>3
    <2>6. \A c \in A, d \in B : Before(c, d)
      BY <2>5, CallFacts DEF Calls, Before
    <2>7. Calls("use", Enclosing[s]) = A \cup B
      <3>1. Enclosing[s] = {s} \cup Enclosing[p[s]]
        BY <2>1, EnclosingFacts
      <3> QED  BY <3>1 DEF Calls
    <2> HIDE DEF a, b, A, B
    <2>8. Ranked(a \o b, A \cup B) /\ a \o b \in V
      BY <2>3, <2>4, <2>6, ConcatRanked, ConcatFacts
    <2> QED  BY <2>1, <2>2, <2>7, <2>8
  <1>4. 0..n \subseteq T
    <2> HIDE DEF T, p, n
    <2>1. 0 \in T
      BY <1>1, <1>2 DEF T
    <2> QED  BY <1>1, <1>3, <2>1, Upward
  <1>5. \A s \in 1..n : s \in 0..n
    BY <1>1
  <1> QED  BY <1>4, <1>5

\* ... root if one of them is root, ...
LEMMA RootFacts ==
    ASSUME TypeOK
    PROVE  \A s \in 1..Len(scopes) :
              InheritedRoot[s] = (\E t \in Enclosing[s] : scopes[t].root)
  <1> DEFINE n == Len(scopes)  p == [s \in 1..n |-> scopes[s].parent]
             Good(s) == InheritedRoot[s] = (\E t \in Enclosing[s] : scopes[t].root)
             T == {s \in 0..n : Good(s)}
  <1>1. n \in Nat /\ \A s \in 1..n : p[s] = scopes[s].parent /\ p[s] \in 0..(s - 1)
    BY ScopeFacts
  <1>2. Good(0)
    <2>1. InheritedRoot[0] = FALSE
      <3>1. 0 \in 0..n
        BY <1>1
      <3> QED  BY <3>1, RootStep
    <2> QED  BY <2>1, EnclosingFacts
  <1>3. ASSUME NEW s \in 1..n, p[s] \in T  PROVE s \in T
    <2>1. p[s] = scopes[s].parent /\ p[s] \in 0..(s - 1) /\ s \in 0..n /\ s # 0
      BY <1>1
    <2>2. InheritedRoot[s] = (scopes[s].root \/ InheritedRoot[p[s]])
      BY <2>1, RootStep
    <2>3. Enclosing[s] = {s} \cup Enclosing[p[s]]
      BY <2>1, EnclosingFacts
    <2>4. Good(s)
      BY <2>2, <2>3, <1>3
    <2> QED  BY <2>1, <2>4
  <1>4. 0..n \subseteq T
    <2> HIDE DEF T, p, n
    <2>1. 0 \in T
      <3>1. 0 \in 0..n
        BY <1>1
      <3> HIDE DEF Good
      <3> QED  BY <3>1, <1>2 DEF T
    <2> QED  BY <1>1, <1>3, <2>1, Upward
  <1>5. \A s \in 1..n : s \in 0..n
    BY <1>1
  <1> QED  BY <1>4, <1>5

\* Of the param() calls of a name in the scopes of at, c is the last, or there
\* is none.
Nearmost(c, n, at) ==
    LET given == {d \in Calls("param", at) : calls[d].name = n}
    IN  IF c = NoHandler THEN given = {}
        ELSE c \in given /\ \A d \in given : ~Before(c, d)

\* ... and of each name the handler that is nearest.
LEMMA ParamsFacts ==
    ASSUME TypeOK, ParamsKept
    PROVE  \A s \in 1..Len(scopes), n \in Names :
              Nearmost(InheritedParams[s][n], n, Enclosing[s])
  <1> SUFFICES ASSUME NEW m \in Names
               PROVE  \A s \in 1..Len(scopes) : Nearmost(InheritedParams[s][m], m, Enclosing[s])
    OBVIOUS
  <1> DEFINE n == Len(scopes)  p == [s \in 1..n |-> scopes[s].parent]
             Good(s) == Nearmost(InheritedParams[s][m], m, Enclosing[s])
             T == {s \in 0..n : Good(s)}
  <1>1. n \in Nat /\ \A s \in 1..n : p[s] = scopes[s].parent /\ p[s] \in 0..(s - 1)
    BY ScopeFacts
  <1>2. Good(0)
    <2>1. InheritedParams[0][m] = NoHandler
      BY <1>1, ParamsStep
    <2>2. Calls("param", Enclosing[0]) = {}
      BY EnclosingFacts DEF Calls
    <2> QED  BY <2>1, <2>2 DEF Nearmost
  <1>3. ASSUME NEW s \in 1..n, p[s] \in T  PROVE s \in T
    <2> DEFINE A == {d \in Calls("param", Enclosing[p[s]]) : calls[d].name = m}
               B == Given(s, m)
               own == scopes[s].params[m]  above == InheritedParams[p[s]][m]
    <2>1. p[s] = scopes[s].parent /\ p[s] \in 0..(s - 1) /\ s \in 0..n /\ s # 0
      BY <1>1
    <2>2. InheritedParams[s][m] = IF own # NoHandler THEN own ELSE above
      BY <2>1, ParamsStep
    <2>3. IF above = NoHandler THEN A = {} ELSE above \in A /\ \A d \in A : ~Before(above, d)
      BY <1>3 DEF Nearmost
    <2>4. IF own = NoHandler THEN B = {} ELSE own \in B /\ \A d \in B : d <= own
      BY ScopeFacts DEF ParamsKept, LastOf
    <2>5. Enclosing[s] = {s} \cup Enclosing[p[s]]
      BY <2>1, EnclosingFacts
    <2>6. {d \in Calls("param", Enclosing[s]) : calls[d].name = m} = A \cup B
      BY <2>5 DEF Calls, Given
    <2>7. Enclosing[p[s]] \subseteq 1..(s - 1)
      <3>1. p[s] = 0 \/ p[s] \in 1..n
        BY <2>1, <1>1
      <3>2. CASE p[s] = 0
        BY <3>2, EnclosingFacts
      <3>3. CASE p[s] \in 1..n
        <4>1. Enclosing[p[s]] \subseteq 1..p[s]
          BY <3>3, EnclosingFacts
        <4> QED  BY <4>1, <2>1
      <3> QED  BY <3>1, <3>2, <3>3
    <2>8. /\ \A d \in A : d \in DOMAIN calls /\ calls[d].at \in 1..(s - 1)
          /\ \A d \in B : d \in DOMAIN calls /\ calls[d].at = s
      BY <2>7 DEF Calls, Given
    <2>9. Good(s)
      <3> HIDE DEF A, B, own, above, n, p
      <3>1. CASE own # NoHandler
        <4>1. own \in B /\ \A d \in B : d <= own
          BY <3>1, <2>4
        <4>2. \A d \in A \cup B : ~Before(own, d)
          BY <4>1, <2>8, CallFacts DEF Before
        <4> QED  BY <3>1, <4>1, <4>2, <2>2, <2>6 DEF Nearmost
      <3>2. CASE own = NoHandler
        <4>1. A \cup B = A /\ InheritedParams[s][m] = above
          BY <3>2, <2>2, <2>4
        <4> QED  BY <4>1, <2>3, <2>6 DEF Nearmost
      <3> QED  BY <3>1, <3>2
    <2> QED  BY <2>1, <2>9
  <1>4. 0..n \subseteq T
    <2> HIDE DEF T, p, n
    <2>1. 0 \in T
      BY <1>1, <1>2 DEF T
    <2> QED  BY <1>1, <1>3, <2>1, Upward
  <1>5. \A s \in 1..n : s \in 0..n
    BY <1>1
  <1> QED  BY <1>4, <1>5

-----------------------------------------------------------------------------
\* n distinct elements are n.
LEMMA Counting ==
    ASSUME NEW n \in Nat, NEW f, NEW S,
           \A i \in 1..n : f[i] \in S, \A x \in S : \E i \in 1..n : f[i] = x,
           \A i, j \in 1..n : f[i] = f[j] => i = j
    PROVE  Cardinality(S) = n
  <1> DEFINE g == [i \in 1..n |-> f[i]]
  <1>1. g \in [1..n -> S] /\ \A i \in 1..n : g[i] = f[i]
    OBVIOUS
  <1> HIDE DEF g
  <1>2. g \in Bijection(1..n, S)
    BY <1>1, Fun_IsBij
  <1>3. ExistsBijection(1..n, S)
    BY <1>2 DEF ExistsBijection
  <1> QED  BY <1>3, FS_CountingElements

\* Only one array has the calls of a set in their order: InOrder's.
LEMMA InOrderFacts ==
    ASSUME TypeOK, NEW S, NEW q \in Seq(DOMAIN calls), Ranked(q, S)
    PROVE  InOrder(S) = q
  <1> DEFINE n == Len(q)
             rank(c) == Cardinality({d \in S : Before(d, c)})
  <1>1. n \in Nat /\ DOMAIN q = 1..n /\ q = [k \in 1..n |-> q[k]]
    OBVIOUS
  <1> HIDE DEF n
  <1>2. /\ \A i \in 1..n : q[i] \in S /\ q[i] \in DOMAIN calls
        /\ \A x \in S : \E i \in 1..n : q[i] = x
        /\ \A i, j \in 1..n : i < j => Before(q[i], q[j])
    BY <1>1 DEF Ranked, ToSet
  <1>3. \A i, j \in 1..n : Before(q[i], q[j]) => i < j
    BY <1>1, <1>2, BeforeFacts
  <1>4. \A i, j \in 1..n : q[i] = q[j] => i = j
    BY <1>1, <1>2, BeforeFacts
  <1>5. Cardinality(S) = n
    BY <1>1, <1>2, <1>4, Counting
  <1>6. ASSUME NEW k \in 1..n  PROVE rank(q[k]) = k - 1
    <2> DEFINE D == {d \in S : Before(d, q[k])}
    <2>1. k - 1 \in Nat /\ \A i \in 1..(k - 1) : i \in 1..n /\ i < k
      BY <1>1
    <2>2. \A i \in 1..(k - 1) : q[i] \in D
      BY <1>2, <2>1
    <2>3. \A x \in D : \E i \in 1..(k - 1) : q[i] = x
      <3> SUFFICES ASSUME NEW x \in D  PROVE \E i \in 1..(k - 1) : q[i] = x
        OBVIOUS
      <3>1. PICK i \in 1..n : q[i] = x
        BY <1>2
      <3>2. i < k
        BY <1>3, <3>1
      <3> QED  BY <3>1, <3>2, <1>1
    <2>4. \A i, j \in 1..(k - 1) : q[i] = q[j] => i = j
      BY <1>4, <2>1
    <2> HIDE DEF D
    <2>5. Cardinality(D) = k - 1
      BY <2>1, <2>2, <2>3, <2>4, Counting
    <2> QED  BY <2>5 DEF D
  <1> HIDE DEF rank
  <1>7. ASSUME NEW k \in 1..n  PROVE (CHOOSE c \in S : rank(c) = k - 1) = q[k]
    <2>1. q[k] \in S /\ rank(q[k]) = k - 1
      BY <1>2, <1>6
    <2>2. ASSUME NEW c \in S, rank(c) = k - 1  PROVE c = q[k]
      <3>1. PICK j \in 1..n : q[j] = c
        BY <1>2
      <3>2. j - 1 = k - 1
        BY <3>1, <1>6, <2>2
      <3>3. j = k
        BY <3>2, <1>1
      <3> QED  BY <3>1, <3>3
    <2> QED  BY <2>1, <2>2
  <1>8. InOrder(S) = [k \in 1..n |-> CHOOSE c \in S : rank(c) = k - 1]
    BY <1>5 DEF InOrder, rank
  <1>9. [k \in 1..n |-> CHOOSE c \in S : rank(c) = k - 1] = [k \in 1..n |-> q[k]]
    BY <1>7
  <1> QED  BY <1>1, <1>8, <1>9

\* The array of no call, and of one.
LEMMA FewCalls ==
    ASSUME TypeOK
    PROVE  /\ InOrder({}) = <<>>
           /\ \A c \in DOMAIN calls : InOrder({c}) = <<c>>
  <1>1. <<>> \in Seq(DOMAIN calls) /\ Ranked(<<>>, {})
    BY DEF Ranked, ToSet
  <1>2. ASSUME NEW c \in DOMAIN calls
        PROVE  <<c>> \in Seq(DOMAIN calls) /\ Ranked(<<c>>, {c})
    BY DEF Ranked, ToSet
  <1> QED  BY <1>1, <1>2, InOrderFacts

\* The handler that wins for a name is the one that the calls say is nearest.
LEMMA NearestFacts ==
    ASSUME TypeOK, NEW c \in 0..Len(calls), NEW n, NEW at, Nearmost(c, n, at)
    PROVE  InOrder(Nearest(n, at)) = IF c = NoHandler THEN <<>> ELSE <<c>>
  <1> DEFINE G == {d \in Calls("param", at) : calls[d].name = n}
  <1>1. G \subseteq DOMAIN calls
    BY DEF Calls
  <1>2. Nearest(n, at) = {d \in G : \A e \in G : ~Before(d, e)}
    BY DEF Nearest
  <1>3. IF c = NoHandler THEN G = {} ELSE c \in G /\ \A d \in G : ~Before(c, d)
    BY DEF Nearmost
  <1> HIDE DEF G
  <1>4. CASE c = NoHandler
    <2>1. Nearest(n, at) = {}
      BY <1>2, <1>3, <1>4
    <2> QED  BY <2>1, <1>4, FewCalls
  <1>5. CASE c # NoHandler
    <2>1. c \in DOMAIN calls
      BY <1>1, <1>3, <1>5
    <2>2. Nearest(n, at) = {c}
      BY <1>1, <1>2, <1>3, <1>5, BeforeFacts
    <2> QED  BY <2>1, <2>2, <1>5, FewCalls
  <1> QED  BY <1>4, <1>5

\* The param() handlers that finalize() hands down are calls.
LEMMA ParamsType ==
    ASSUME TypeOK, ParamsKept
    PROVE  \A s \in 1..Len(scopes), n \in Names : InheritedParams[s][n] \in 0..Len(calls)
  <1> SUFFICES ASSUME NEW s \in 1..Len(scopes), NEW n \in Names
               PROVE  InheritedParams[s][n] \in 0..Len(calls)
    OBVIOUS
  <1> DEFINE c == InheritedParams[s][n]
  <1>1. Nearmost(c, n, Enclosing[s])
    BY ParamsFacts
  <1>2. Len(calls) \in Nat /\ DOMAIN calls = 1..Len(calls)
    BY CallFacts
  <1> HIDE DEF c
  <1>3. c = NoHandler \/ c \in DOMAIN calls
    BY <1>1 DEF Nearmost, Calls
  <1>4. c \in 0..Len(calls)
    BY <1>2, <1>3 DEF NoHandler
  <1> QED  BY <1>4 DEF c

\* The stack that finalize() resolves for a route is the one the calls say, and
\* well formed.
LEMMA ResolvedFacts ==
    ASSUME Ledger, NEW r \in DOMAIN routes
    PROVE  /\ Resolved(routes[r]) = Declared(r)
           /\ Resolved(routes[r]) \in RouteRecord
  <1> DEFINE route == routes[r]  s == route.scope  at == Enclosing[s]  path == route.path
             handler(i) == InheritedParams[s][path[i]]
             one(i) == IF handler(i) = NoHandler THEN <<>> ELSE <<handler(i)>>
             C == DOMAIN calls
  <1> USE DEF Ledger
  <1>1. /\ route \in RouteRecord /\ s \in 1..Len(scopes) /\ path \in Seq(Names)
        /\ route.middlewares \in Seq(C) /\ route.root \in BOOLEAN
    BY RouteFacts
  <1>2. Len(path) \in Nat /\ DOMAIN path = 1..Len(path) /\ \A i \in DOMAIN path : path[i] \in Names
    BY <1>1
  <1>3. InheritedRoot[s] = \E t \in at : scopes[t].root
    BY <1>1, RootFacts
  <1>4. UsesFor(s) = InOrder(Calls("use", at)) /\ UsesFor(s) \in Seq(C)
    BY <1>1, UsesFacts, InOrderFacts DEF UsesFor
  <1>5. route.middlewares = InOrder(Calls("route", {r}))
    <2>1. Ranked(route.middlewares, Calls("route", {r}))
      BY ListsRanked DEF OwnKept
    <2> QED  BY <2>1, <1>1, InOrderFacts
  <1>6. \A i \in DOMAIN path : /\ one(i) = InOrder(Nearest(path[i], at))
                               /\ one(i) \in Seq(C)
    <2> SUFFICES ASSUME NEW i \in DOMAIN path
                 PROVE  one(i) = InOrder(Nearest(path[i], at)) /\ one(i) \in Seq(C)
      OBVIOUS
    <2>1. path[i] \in Names
      BY <1>2
    <2>2. Nearmost(handler(i), path[i], at) /\ handler(i) \in 0..Len(calls)
      BY <2>1, <1>1, ParamsFacts, ParamsType
    <2>3. handler(i) = NoHandler \/ handler(i) \in C
      BY <2>2, CallFacts DEF NoHandler
    <2> HIDE DEF handler, at, C
    <2>4. one(i) = InOrder(Nearest(path[i], at))
      BY <2>2, NearestFacts
    <2> QED  BY <2>3, <2>4
  <1> DEFINE q == [i \in DOMAIN path |-> one(i)]
  <1>7. ParamHandlers(route) = FlattenSeq(q)
    BY DEF ParamHandlers
  <1>8. q = [i \in DOMAIN path |-> InOrder(Nearest(path[i], at))]
    <2> HIDE DEF one
    <2> QED  BY <1>6
  <1>9. FlattenSeq(q) \in Seq(C)
    <2>1. q \in [1..Len(path) -> Seq(C)]
      <3> HIDE DEF one, C, path
      <3> QED  BY <1>2, <1>6
    <2> HIDE DEF q, path, C
    <2> QED  BY <2>1, <1>2, FlattenFacts
  <1>10. Declared(r) =
           [route EXCEPT !.root = @ \/ \E t \in at : scopes[t].root,
                         !.middlewares = InOrder(Calls("use", at)) \o FlattenSeq(q)
                                         \o InOrder(Calls("route", {r}))]
    BY <1>8 DEF Declared
  <1>11. Resolved(route) =
           [route EXCEPT !.root = @ \/ InheritedRoot[s],
                         !.middlewares = UsesFor(s) \o FlattenSeq(q) \o @]
    BY <1>7 DEF Resolved
  <1> HIDE DEF q, at, s
  <1>12. UsesFor(s) \o FlattenSeq(q) \o route.middlewares \in Seq(C)
    <2> HIDE DEF route, C
    <2>1. UsesFor(s) \o FlattenSeq(q) \in Seq(C)
      BY <1>4, <1>9
    <2> QED  BY <2>1, <1>1
  <1>13. InheritedRoot[s] \in BOOLEAN
    BY <1>3
  <1> HIDE DEF route, C
  <1>14. Resolved(route) = Declared(r)
    BY <1>1, <1>3, <1>4, <1>5, <1>10, <1>11 DEF RouteRecord
  <1>15. Resolved(route) \in RouteRecord
    BY <1>1, <1>11, <1>12, <1>13 DEF RouteRecord, C
  <1> QED  BY <1>14, <1>15 DEF route

-----------------------------------------------------------------------------
\* A scope encloses one that is not itself through just one of its groups.
LEMMA TreeFacts ==
    ASSUME TypeOK
    PROVE  \A t \in 1..Len(scopes), s \in 1..Len(scopes) :
              /\ s \in Enclosing[t] <=>
                   \/ t = s
                   \/ \E c \in Enclosing[t] : scopes[c].parent = s
              /\ \A c, d \in Enclosing[t] :
                    scopes[c].parent = s /\ scopes[d].parent = s => c = d
  <1> SUFFICES ASSUME NEW s \in 1..Len(scopes)
               PROVE  \A t \in 1..Len(scopes) :
                        /\ s \in Enclosing[t] <=>
                             t = s \/ \E c \in Enclosing[t] : scopes[c].parent = s
                        /\ \A c, d \in Enclosing[t] :
                              scopes[c].parent = s /\ scopes[d].parent = s => c = d
    OBVIOUS
  <1> DEFINE n == Len(scopes)  p == [t \in 1..n |-> scopes[t].parent]
             Via(t) == s \in Enclosing[t] <=> t = s \/ \E c \in Enclosing[t] : p[c] = s
             Once(t) == \A c, d \in Enclosing[t] : p[c] = s /\ p[d] = s => c = d
             T == {t \in 0..n : t # 0 => Via(t) /\ Once(t)}
  <1>1. n \in Nat /\ \A t \in 1..n : p[t] = scopes[t].parent /\ p[t] \in 0..(t - 1)
    BY ScopeFacts
  <1>2. Enclosing[0] = {} /\ \A t \in 1..n : /\ Enclosing[t] = {t} \cup Enclosing[p[t]]
                                             /\ Enclosing[t] \subseteq 1..t
    BY <1>1, EnclosingFacts
  <1>3. s \in 1..n
    OBVIOUS
  <1> HIDE DEF p, n
  <1>4. ASSUME NEW t \in 1..n, p[t] \in T  PROVE t \in T
    <2>1. Enclosing[t] = {t} \cup Enclosing[p[t]] /\ p[t] \in 0..(t - 1) /\ t \in 0..n
      BY <1>1, <1>2
    <2>2. CASE p[t] = 0
      <3>1. Enclosing[t] = {t}
        BY <2>1, <2>2, <1>2
      <3>2. p[t] # s
        BY <2>2, <1>1, <1>3
      <3> QED  BY <2>1, <3>1, <3>2
    <2>3. CASE p[t] # 0
      <3>1. p[t] \in 1..n /\ Via(p[t]) /\ Once(p[t])
        BY <1>1, <1>4, <2>1, <2>3
      <3>2. Enclosing[p[t]] \subseteq 1..p[t] /\ p[t] \in Enclosing[p[t]]
        BY <3>1, <1>2
      <3>3. Via(t)
        <4>1. CASE t = s
          BY <4>1, <2>1
        <4>2. CASE p[t] = s
          BY <4>2, <2>1, <3>2
        <4>3. CASE t # s /\ p[t] # s
          BY <4>3, <2>1, <3>1
        <4> QED  BY <4>1, <4>2, <4>3
      <3>4. \A d \in Enclosing[p[t]] : p[d] # p[t]
        <4> SUFFICES ASSUME NEW d \in Enclosing[p[t]]  PROVE p[d] # p[t]
          OBVIOUS
        <4>1. d \in 1..n /\ d <= p[t]
          BY <1>1, <3>1, <3>2
        <4>2. p[d] \in 0..(d - 1)
          BY <4>1, <1>1
        <4> QED  BY <4>1, <4>2, <1>1, <3>1
      <3>5. Once(t)
        BY <2>1, <3>1, <3>4
      <3> QED  BY <2>1, <3>3, <3>5
    <2> QED  BY <2>2, <2>3
  <1>5. 0..n \subseteq T
    <2>1. 0 \in T
      BY <1>1
    <2> HIDE DEF T
    <2> QED  BY <1>1, <1>4, <2>1, Upward
  <1>6. \A t \in 1..n : t \in 0..n /\ t # 0
    BY <1>1
  <1>7. \A t \in 1..n : Via(t) /\ Once(t)
    BY <1>5, <1>6
  <1>8. \A t \in 1..n : \A c \in Enclosing[t] : c \in 1..n
    BY <1>1, <1>2
  <1>9. \A t \in 1..n : \A c \in Enclosing[t] : p[c] = scopes[c].parent
    BY <1>1, <1>8
  <1> QED  BY <1>7, <1>9 DEF n

\* The routes of the scopes that s encloses, each once.
Below(s) ==
    /\ Subtree[s] \in Seq(DOMAIN routes)
    /\ ToSet(Subtree[s]) = {r \in DOMAIN routes : s \in Enclosing[routes[r].scope]}
    /\ IsInjective(Subtree[s])

\* What the groups of s hold is what it encloses and has not itself.
LEMMA NestedFacts ==
    ASSUME TypeOK, NEW s \in 1..Len(scopes), \A c \in (s + 1)..Len(scopes) : Below(c)
    PROVE  /\ FlattenSeq(Nested(s, Subtree)) \in Seq(DOMAIN routes)
           /\ ToSet(FlattenSeq(Nested(s, Subtree))) =
                {r \in DOMAIN routes : \E c \in Enclosing[routes[r].scope] : scopes[c].parent = s}
           /\ IsInjective(FlattenSeq(Nested(s, Subtree)))
  <1> DEFINE n == Len(scopes)  R == DOMAIN routes  q == Nested(s, Subtree)
             at(r) == Enclosing[routes[r].scope]
             group(c) == scopes[c].parent = s
  <1>1. n \in Nat /\ DOMAIN scopes = 1..n /\ \A c \in 1..n : scopes[c].parent \in 0..(c - 1)
    BY ScopeFacts
  <1>2. \A r \in R : routes[r].scope \in 1..n
    BY RouteFacts
  <1>3. \A r \in R : at(r) \subseteq 1..n
    <2> SUFFICES ASSUME NEW r \in R  PROVE at(r) \subseteq 1..n
      OBVIOUS
    <2>1. at(r) \subseteq 1..routes[r].scope
      BY <1>2, EnclosingFacts
    <2> QED  BY <2>1, <1>1, <1>2
  <1>4. \A c \in 1..n : group(c) => Below(c)
    <2> SUFFICES ASSUME NEW c \in 1..n, group(c)  PROVE Below(c)
      OBVIOUS
    <2>1. c \in (s + 1)..n
      BY <1>1
    <2> QED  BY <2>1
  <1>5. \A c \in 1..n : q[c] = IF group(c) THEN Subtree[c] ELSE <<>>
    BY <1>1 DEF Nested
  <1>6. ASSUME NEW c \in 1..n
        PROVE  /\ q[c] \in Seq(R) /\ IsInjective(q[c])
               /\ ToSet(q[c]) = {r \in R : group(c) /\ c \in at(r)}
    <2>1. CASE group(c)
      <3>1. Below(c) /\ q[c] = Subtree[c]
        BY <1>4, <1>5, <2>1
      <3> QED  BY <3>1, <2>1 DEF Below
    <2>2. CASE ~group(c)
      <3>1. q[c] = <<>>
        BY <1>5, <2>2
      <3> QED  BY <3>1, <2>2 DEF IsInjective, ToSet
    <2> QED  BY <2>1, <2>2
  <1>7. q \in [1..n -> Seq(R)]
    <2>1. q = [c \in 1..n |-> q[c]]
      BY <1>1 DEF Nested
    <2> HIDE DEF q, R, n
    <2> QED  BY <1>6, <2>1
  <1>8. Apart(q, n)
    <2>1. ASSUME NEW c \in 1..n, NEW d \in 1..n, c # d
          PROVE  ToSet(q[c]) \cap ToSet(q[d]) = {}
      <3> SUFFICES ASSUME NEW r \in R, c \in at(r), d \in at(r), group(c), group(d)
                   PROVE  FALSE
        <4> HIDE DEF q, group, at
        <4> QED  BY <1>6
      <3>1. c = d
        BY <1>2, TreeFacts
      <3> QED  BY <2>1, <3>1
    <2> HIDE DEF q, n
    <2> QED  BY <1>6, <2>1 DEF Apart
  <1>9. UNION {ToSet(q[c]) : c \in 1..n} = {r \in R : \E c \in at(r) : group(c)}
    <2> HIDE DEF q, n, group, at, R
    <2>1. ASSUME NEW r, r \in UNION {ToSet(q[c]) : c \in 1..n}
          PROVE  r \in R /\ \E c \in at(r) : group(c)
      <3>1. PICK c \in 1..n : r \in ToSet(q[c])
        BY <2>1
      <3> QED  BY <3>1, <1>6
    <2>2. ASSUME NEW r \in R, NEW c \in at(r), group(c)
          PROVE  r \in UNION {ToSet(q[d]) : d \in 1..n}
      <3>1. c \in 1..n
        BY <1>3
      <3>2. r \in ToSet(q[c])
        BY <3>1, <2>2, <1>6
      <3> QED  BY <3>1, <3>2
    <2> QED  BY <2>1, <2>2
  <1> HIDE DEF q, n, R
  <1>10. /\ FlattenSeq(q) \in Seq(R)
         /\ ToSet(FlattenSeq(q)) = UNION {ToSet(q[c]) : c \in 1..n}
         /\ IsInjective(FlattenSeq(q))
    BY <1>1, <1>7, <1>8, FlattenFacts
  <1> QED  BY <1>9, <1>10 DEF q, R

\* What finalize() walks below a scope is the routes it encloses, each once.
LEMMA SubtreeFacts ==
    ASSUME TypeOK
    PROVE  \A s \in 1..Len(scopes) : Below(s)
  <1> DEFINE n == Len(scopes)  T == {s \in 1..n : Below(s)}
  <1>1. n \in Nat
    BY ScopeFacts
  <1>2. ASSUME NEW s \in 1..n, \A c \in (s + 1)..n : c \in T  PROVE s \in T
    <2> DEFINE a == Own(s)  b == FlattenSeq(Nested(s, Subtree))  R == DOMAIN routes
               B == {r \in R : \E c \in Enclosing[routes[r].scope] : scopes[c].parent = s}
    <2>1. \A c \in (s + 1)..n : Below(c)
      BY <1>2
    <2>2. b \in Seq(R) /\ ToSet(b) = B /\ IsInjective(b)
      BY <2>1, NestedFacts
    <2>3. a \in Seq(R) /\ ToSet(a) = {r \in R : routes[r].scope = s} /\ IsInjective(a)
      BY OwnFacts
    <2>4. Subtree[s] = a \o b
      BY ScopeFacts, SubtreeStep
    <2>5. \A r \in R : routes[r].scope = s => r \notin B
      <3> SUFFICES ASSUME NEW r \in R, routes[r].scope = s,
                          NEW c \in Enclosing[s], scopes[c].parent = s
                   PROVE  FALSE
        OBVIOUS
      <3>1. c \in 1..s /\ c \in 1..n
        BY <1>1, EnclosingFacts
      <3>2. scopes[c].parent \in 0..(c - 1)
        BY <3>1, ScopeFacts
      <3> QED  BY <3>1, <3>2, <1>1
    <2>6. ToSet(a) \cup B = {r \in R : s \in Enclosing[routes[r].scope]}
      <3>1. \A r \in R : s \in Enclosing[routes[r].scope] <=>
               routes[r].scope = s \/ \E c \in Enclosing[routes[r].scope] : scopes[c].parent = s
        BY RouteFacts, TreeFacts
      <3> QED  BY <2>3, <3>1
    <2>7. ToSet(a) \cap B = {}
      BY <2>3, <2>5
    <2> HIDE DEF a, b, B, R
    <2>8. /\ a \o b \in Seq(R) /\ IsInjective(a \o b)
          /\ ToSet(a \o b) = ToSet(a) \cup B
      BY <2>2, <2>3, <2>7, ConcatFacts
    <2>9. Below(s)
      BY <2>4, <2>6, <2>8 DEF Below, R
    <2> QED  BY <2>9
  <1>3. 1..n \subseteq T
    <2> HIDE DEF T, n
    <2> QED  BY <1>1, <1>2, Downward
  <1> QED  BY <1>3

-----------------------------------------------------------------------------
\* A sequence read in another order is the same bag.
LEMMA Reordered ==
    ASSUME NEW n \in Nat, NEW f, DOMAIN f = 1..n,
           NEW w \in Seq(1..n), ToSet(w) = 1..n, IsInjective(w)
    PROVE  ToBag([i \in DOMAIN w |-> f[w[i]]]) = ToBag(f)
  <1> DEFINE g == [i \in DOMAIN w |-> f[w[i]]]  m == Len(w)
             I(x) == {i \in 1..m : f[w[i]] = x}  J(x) == {r \in 1..n : f[r] = x}
  <1>1. m \in Nat /\ DOMAIN w = 1..m /\ \A i \in 1..m : w[i] \in 1..n
    OBVIOUS
  <1>2. \A r \in 1..n : \E i \in 1..m : w[i] = r
    BY <1>1 DEF ToSet
  <1>3. DOMAIN g = 1..m /\ \A i \in 1..m : g[i] = f[w[i]]
    BY <1>1
  <1> HIDE DEF g, m
  <1>4. Range(g) = Range(f)
    <2>1. \A x : x \in Range(g) <=> \E i \in 1..m : f[w[i]] = x
      BY <1>3 DEF Range
    <2>2. \A x : x \in Range(f) <=> \E r \in 1..n : f[r] = x
      BY DEF Range
    <2> QED  BY <2>1, <2>2, <1>1, <1>2
  <1>5. ASSUME NEW x  PROVE Cardinality(I(x)) = Cardinality(J(x))
    <2> DEFINE h == [i \in I(x) |-> w[i]]
    <2>1. h \in [I(x) -> J(x)] /\ \A i \in I(x) : h[i] = w[i]
      BY <1>1
    <2>2. \A i, j \in I(x) : h[i] = h[j] => i = j
      BY <1>1, <2>1 DEF IsInjective
    <2>3. \A r \in J(x) : \E i \in I(x) : h[i] = r
      BY <1>2, <2>1
    <2>4. IsFiniteSet(I(x))
      <3>1. IsFiniteSet(1..m)
        BY <1>1, FS_Interval
      <3>2. I(x) \in SUBSET (1..m)
        OBVIOUS
      <3> HIDE DEF I
      <3> QED  BY <3>1, <3>2, FS_Subset
    <2> HIDE DEF h, I, J
    <2>5. ExistsBijection(I(x), J(x))
      <3>1. h \in Bijection(I(x), J(x))
        BY <2>1, <2>2, <2>3, Fun_IsBij
      <3> QED  BY <3>1 DEF ExistsBijection
    <2> QED  BY <2>4, <2>5, FS_Bijection
  <1>6. ToBag(g) = [x \in Range(g) |-> Cardinality(I(x))]
    BY <1>3 DEF ToBag
  <1>7. ToBag(f) = [x \in Range(f) |-> Cardinality(J(x))]
    BY DEF ToBag
  <1>8. ToBag(g) = ToBag(f)
    <2> HIDE DEF I, J
    <2> QED  BY <1>4, <1>5, <1>6, <1>7
  <1> QED  BY <1>8 DEF g

\* The table that finalize() builds has each declared route once, as the calls
\* say, and is well formed.
LEMMA FlattenedFacts ==
    ASSUME Ledger
    PROVE  /\ Flattened \in Seq(RouteRecord)
           /\ ToBag(Flattened) = ToBag([r \in DOMAIN routes |-> Declared(r)])
  <1> DEFINE n == Len(routes)  w == Subtree[1]
             f == [r \in 1..n |-> Declared(r)]
  <1>1. TypeOK
    BY DEF Ledger
  <1>2. n \in Nat /\ DOMAIN routes = 1..n
    BY <1>1, RouteFacts
  <1>3. w \in Seq(1..n) /\ ToSet(w) = 1..n /\ IsInjective(w)
    <2>1. 1 \in 1..Len(scopes)
      BY <1>1, ScopeFacts
    <2>2. Below(1)
      BY <1>1, <2>1, SubtreeFacts
    <2>3. \A r \in DOMAIN routes : 1 \in Enclosing[routes[r].scope]
      BY <1>1, RouteFacts, EnclosingFacts
    <2> QED  BY <1>2, <2>2, <2>3 DEF Below
  <1> HIDE DEF n, w
  <1>4. \A i \in DOMAIN w : w[i] \in 1..n
    BY <1>2, <1>3
  <1>5. \A i \in DOMAIN w : /\ Resolved(routes[w[i]]) = f[w[i]]
                            /\ Resolved(routes[w[i]]) \in RouteRecord
    BY <1>2, <1>4, ResolvedFacts
  <1>6. Flattened = [i \in DOMAIN w |-> Resolved(routes[w[i]])]
    BY DEF Flattened, w
  <1>7. Flattened = [i \in DOMAIN w |-> f[w[i]]]
    BY <1>5, <1>6
  <1>8. Flattened \in Seq(RouteRecord)
    <2>1. Len(w) \in Nat /\ DOMAIN w = 1..Len(w)
      BY <1>3
    <2> HIDE DEF f
    <2>2. Flattened \in [1..Len(w) -> RouteRecord]
      BY <2>1, <1>5, <1>6
    <2> QED  BY <2>1, <2>2
  <1>9. DOMAIN f = 1..n
    OBVIOUS
  <1>10. f = [r \in DOMAIN routes |-> Declared(r)]
    BY <1>2
  <1> HIDE DEF f
  <1>11. ToBag([i \in DOMAIN w |-> f[w[i]]]) = ToBag(f)
    BY <1>2, <1>3, <1>9, Reordered
  <1> QED  BY <1>7, <1>8, <1>10, <1>11

\* The check of finalize() fails just for a param() that no route below names.
LEMMA UnmatchedFacts ==
    ASSUME Ledger
    PROVE  Unmatched <=> \E c \in DOMAIN calls : Misplaced(c)
  <1> USE DEF Ledger
  <1> DEFINE names(r, n) == Contains(routes[r].path, n)
             below(s) == {r \in DOMAIN routes : s \in Enclosing[routes[r].scope]}
  <1>1. \A n : \A s \in 1..Len(scopes) : Declares(s, n) <=> \E r \in below(s) : names(r, n)
    <2> SUFFICES ASSUME NEW s \in 1..Len(scopes), NEW n
                 PROVE  Declares(s, n) <=> \E r \in below(s) : names(r, n)
      OBVIOUS
    <2>1. Below(s)
      BY SubtreeFacts
    <2>2. \A r : r \in below(s) <=> \E i \in DOMAIN Subtree[s] : Subtree[s][i] = r
      BY <2>1 DEF Below, ToSet
    <2> HIDE DEF below
    <2> QED  BY <2>2 DEF Declares
  <1>2. ASSUME Unmatched  PROVE \E c \in DOMAIN calls : Misplaced(c)
    <2>1. PICK s \in DOMAIN scopes, n \in Names :
             scopes[s].params[n] # NoHandler /\ ~Declares(s, n)
      BY <1>2 DEF Unmatched
    <2> DEFINE c == scopes[s].params[n]
    <2>2. c \in Given(s, n)
      BY <2>1 DEF ParamsKept, LastOf
    <2>3. /\ c \in DOMAIN calls /\ calls[c].op = "param"
          /\ calls[c].at = s /\ calls[c].name = n
      BY <2>2 DEF Given, Calls
    <2>4. \A r \in DOMAIN routes : s \in Enclosing[routes[r].scope] => ~names(r, n)
      BY <2>1, <1>1, ScopeFacts
    <2> HIDE DEF c
    <2>5. Misplaced(c)
      BY <2>3, <2>4 DEF Misplaced
    <2> QED  BY <2>3, <2>5
  <1>3. ASSUME NEW c \in DOMAIN calls, Misplaced(c)  PROVE Unmatched
    <2> DEFINE s == calls[c].at  n == calls[c].name
    <2>1. calls[c].op = "param"
      BY <1>3 DEF Misplaced
    <2>2. s \in DOMAIN scopes
      BY <2>1 DEF TypeOK
    <2>3. ~Declares(s, n)
      BY <1>1, <1>3, <2>2, ScopeFacts DEF Misplaced
    <2>4. n \in Names
      BY <2>1 DEF TypeOK
    <2>5. c \in Given(s, n)
      BY <2>1 DEF Given, Calls
    <2>6. scopes[s].params[n] # NoHandler
      BY <2>2, <2>4, <2>5 DEF ParamsKept, LastOf
    <2> QED  BY <2>2, <2>3, <2>4, <2>6 DEF Unmatched
  <1> QED  BY <1>2, <1>3

-----------------------------------------------------------------------------
\* A sequence with one element more.
LEMMA AppendFacts ==
    ASSUME NEW R, NEW q \in Seq(R), NEW v \in R
    PROVE  /\ Append(q, v) \in Seq(R) /\ Append(q, v) # <<>>
           /\ Len(Append(q, v)) = Len(q) + 1
           /\ DOMAIN Append(q, v) = DOMAIN q \cup {Len(q) + 1}
           /\ Append(q, v)[Len(q) + 1] = v
           /\ \A i \in DOMAIN q : Append(q, v)[i] = q[i]
  OBVIOUS

\* A sequence with one element replaced.
LEMMA ReplaceFacts ==
    ASSUME NEW R, NEW q \in Seq(R), NEW i \in DOMAIN q, NEW v \in R
    PROVE  /\ [q EXCEPT ![i] = v] \in Seq(R)
           /\ Len([q EXCEPT ![i] = v]) = Len(q)
           /\ DOMAIN [q EXCEPT ![i] = v] = DOMAIN q
           /\ [q EXCEPT ![i] = v][i] = v
           /\ \A j \in DOMAIN q : j # i => [q EXCEPT ![i] = v][j] = q[j]
  <1>1. DOMAIN q = 1..Len(q) /\ Len(q) \in Nat
    OBVIOUS
  <1> DEFINE w == [q EXCEPT ![i] = v]
  <1>2. /\ DOMAIN w = DOMAIN q /\ w[i] = v /\ \A j \in DOMAIN q : j # i => w[j] = q[j]
        /\ w \in [1..Len(q) -> R]
    BY <1>1
  <1> HIDE DEF w
  <1>3. w \in Seq(R) /\ Len(w) = Len(q)
    BY <1>1, <1>2
  <1> QED  BY <1>2, <1>3 DEF w

\* A sequence of some things is one of more.
LEMMA SeqWider ==
    ASSUME NEW R, NEW S, R \subseteq S
    PROVE  Seq(R) \subseteq Seq(S)
  <1> SUFFICES ASSUME NEW q \in Seq(R)  PROVE q \in Seq(S)
    OBVIOUS
  <1> QED  OBVIOUS

\* What is well formed stays so when scopes, routes or calls are added.
Grown ==
    /\ Len(scopes)' \in Nat /\ Len(scopes) <= Len(scopes)'
    /\ (DOMAIN scopes)' = 1..Len(scopes)'
    /\ Len(calls)' \in Nat /\ Len(calls) <= Len(calls)'
    /\ (DOMAIN calls)' = 1..Len(calls)'

LEMMA Wider ==
    ASSUME TypeOK, Grown
    PROVE  ScopeRecord \subseteq ScopeRecord' /\ RouteRecord \subseteq RouteRecord'
  <1>1. DOMAIN scopes \subseteq (DOMAIN scopes)' /\ 0..Len(scopes) \subseteq 0..Len(scopes)'
    BY ScopeFacts DEF Grown
  <1>2. DOMAIN calls \subseteq (DOMAIN calls)' /\ 0..Len(calls) \subseteq 0..Len(calls)'
    BY CallFacts DEF Grown
  <1>3. Seq(DOMAIN calls) \subseteq Seq((DOMAIN calls)')
    BY <1>2, SeqWider
  <1>4. [Names -> 0..Len(calls)] \subseteq [Names -> 0..Len(calls)']
    BY <1>2
  <1>5. ScopeRecord \subseteq ScopeRecord'
    BY <1>1, <1>3, <1>4 DEF ScopeRecord
  <1>6. RouteRecord \subseteq RouteRecord'
    BY <1>1, <1>3 DEF RouteRecord
  <1> QED  BY <1>5, <1>6

\* A call that registers a handler is the last one.
LastCall(v) ==
    /\ calls' \in Seq(Call) /\ Handler \in Nat \ {0}
    /\ Len(calls)' = Handler /\ (DOMAIN calls)' = DOMAIN calls \cup {Handler}
    /\ (DOMAIN calls)' = 1..Handler
    /\ \A c \in DOMAIN calls : c < Handler /\ calls'[c] = calls[c]
    /\ calls'[Handler] = v

LEMMA CallAppended ==
    ASSUME TypeOK, NEW v \in Call, calls' = Append(calls, v)
    PROVE  LastCall(v)
  <1>1. calls \in Seq(Call)
    BY DEF TypeOK
  <1>2. Len(calls) \in Nat /\ DOMAIN calls = 1..Len(calls)
    BY <1>1
  <1>3. /\ Append(calls, v) \in Seq(Call) /\ Len(Append(calls, v)) = Len(calls) + 1
        /\ DOMAIN Append(calls, v) = DOMAIN calls \cup {Len(calls) + 1}
        /\ Append(calls, v)[Len(calls) + 1] = v
        /\ \A i \in DOMAIN calls : Append(calls, v)[i] = calls[i]
    BY <1>1, AppendFacts
  <1>4. \A n \in Nat : /\ n + 1 \in Nat \ {0} /\ 1..(n + 1) = 1..n \cup {n + 1}
                       /\ \A c \in 1..n : c < n + 1
    OBVIOUS
  <1>5. /\ Handler \in Nat \ {0} /\ 1..Handler = DOMAIN calls \cup {Handler}
        /\ \A c \in DOMAIN calls : c < Handler
    BY <1>2, <1>4 DEF Handler
  <1>6. /\ calls' \in Seq(Call) /\ Len(calls') = Handler
        /\ DOMAIN calls' = DOMAIN calls \cup {Handler}
        /\ calls'[Handler] = v /\ \A i \in DOMAIN calls : calls'[i] = calls[i]
    BY <1>3 DEF Handler
  <1> QED  BY <1>5, <1>6 DEF LastCall

LEMMA RegistersFacts ==
    ASSUME TypeOK, NEW op \in {"use", "param", "route"}, NEW at \in Nat,
           NEW name \in Names \cup {""}, Registers(op, at, name)
    PROVE  LastCall([op |-> op, at |-> at, name |-> name])
  <1>1. [op |-> op, at |-> at, name |-> name] \in Call
    BY DEF Call
  <1>2. calls' = Append(calls, [op |-> op, at |-> at, name |-> name])
    BY DEF Registers
  <1> QED  BY <1>1, <1>2, CallAppended

\* A later call goes at the end of its array, ...
LEMMA ListsLater ==
    ASSUME NEW X, NEW q \in Seq(X), NEW S, NEW h, Lists(q, S),
           \A c \in S : c < h
    PROVE  Lists(Append(q, h), S \cup {h})
  <1> DEFINE w == Append(q, h)
  <1>1. /\ Len(q) \in Nat /\ DOMAIN q = 1..Len(q) /\ DOMAIN w = 1..(Len(q) + 1)
        /\ w[Len(q) + 1] = h /\ \A i \in DOMAIN q : w[i] = q[i]
    OBVIOUS
  <1>2. \A i \in DOMAIN q : q[i] \in S
    BY DEF Lists, ToSet
  <1>3. \A x : x \in S <=> \E i \in DOMAIN q : q[i] = x
    BY DEF Lists, ToSet
  <1> HIDE DEF w
  <1>4. \A x : x \in ToSet(w) <=> \E i \in 1..(Len(q) + 1) : w[i] = x
    BY <1>1 DEF ToSet
  <1>5. ToSet(w) = S \cup {h}
    <2>1. \A i \in 1..(Len(q) + 1) : i \in DOMAIN q \/ i = Len(q) + 1
      BY <1>1
    <2>2. \A x \in ToSet(w) : x \in S \cup {h}
      BY <1>1, <1>2, <1>4, <2>1
    <2>3. \A x \in S : x \in ToSet(w)
      BY <1>1, <1>3, <1>4
    <2>4. h \in ToSet(w)
      BY <1>1, <1>4
    <2> QED  BY <2>2, <2>3, <2>4
  <1>6. ASSUME NEW i \in DOMAIN w, NEW j \in DOMAIN w, i < j  PROVE w[i] < w[j]
    <2>1. i \in DOMAIN q
      BY <1>1, <1>6
    <2>2. CASE j \in DOMAIN q
      BY <2>1, <2>2, <1>1, <1>6 DEF Lists
    <2>3. CASE j = Len(q) + 1
      BY <2>1, <2>3, <1>1, <1>2
    <2> QED  BY <2>2, <2>3, <1>1
  <1> QED  BY <1>5, <1>6 DEF Lists, w

\* ... and is among the calls of its kind and place.
LEMMA CallsLater ==
    ASSUME NEW v, LastCall(v), NEW op, NEW S
    PROVE  Calls(op, S)' = Calls(op, S) \cup
                             IF v.op = op /\ v.at \in S THEN {Handler} ELSE {}
  <1>1. /\ (DOMAIN calls)' = DOMAIN calls \cup {Handler}
        /\ \A c \in DOMAIN calls : calls'[c] = calls[c]
        /\ calls'[Handler] = v
    BY DEF LastCall
  <1>2. Calls(op, S)' = {c \in DOMAIN calls' : calls'[c].op = op /\ calls'[c].at \in S}
    BY DEF Calls
  <1> QED  BY <1>1, <1>2 DEF Calls

LEMMA GivenLater ==
    ASSUME NEW v, LastCall(v), NEW s, NEW n
    PROVE  Given(s, n)' = Given(s, n) \cup
             IF v.op = "param" /\ v.at = s /\ v.name = n THEN {Handler} ELSE {}
  <1>1. /\ (DOMAIN calls)' = DOMAIN calls \cup {Handler}
        /\ \A c \in DOMAIN calls : c # Handler /\ calls'[c] = calls[c]
        /\ calls'[Handler] = v
    BY DEF LastCall
  <1>2. Given(s, n)' = {c \in Calls("param", {s})' : calls'[c].name = n}
    BY DEF Given
  <1>3. Calls("param", {s})' = Calls("param", {s}) \cup
                                 IF v.op = "param" /\ v.at = s THEN {Handler} ELSE {}
    BY CallsLater
  <1>4. Calls("param", {s}) \subseteq DOMAIN calls
    BY DEF Calls
  <1> QED  BY <1>1, <1>2, <1>3, <1>4 DEF Given

\* It adds to no others.
LEMMA OtherCalls ==
    ASSUME NEW v, LastCall(v)
    PROVE  /\ \A op, S : v.op # op \/ v.at \notin S => Calls(op, S)' = Calls(op, S)
           /\ \A s, n : v.op # "param" \/ v.at # s \/ v.name # n => Given(s, n)' = Given(s, n)
  <1>1. ASSUME NEW op, NEW S, v.op # op \/ v.at \notin S
        PROVE  Calls(op, S)' = Calls(op, S)
    <2>1. Calls(op, S)' = Calls(op, S) \cup
                            IF v.op = op /\ v.at \in S THEN {Handler} ELSE {}
      BY CallsLater
    <2> QED  BY <1>1, <2>1
  <1>2. ASSUME NEW s, NEW n, v.op # "param" \/ v.at # s \/ v.name # n
        PROVE  Given(s, n)' = Given(s, n)
    <2>1. Given(s, n)' = Given(s, n) \cup
             IF v.op = "param" /\ v.at = s /\ v.name = n THEN {Handler} ELSE {}
      BY GivenLater
    <2> QED  BY <1>2, <2>1
  <1> QED  BY <1>1, <1>2

\* Only one scope changed, and it stays well formed where it was opened.
ScopeSet(s, v) ==
    /\ Len(scopes)' = Len(scopes) /\ (DOMAIN scopes)' = DOMAIN scopes
    /\ scopes'[s] = v /\ \A t \in DOMAIN scopes : t # s => scopes'[t] = scopes[t]

LEMMA ScopeSetFacts ==
    ASSUME TypeOK, NEW s \in DOMAIN scopes, NEW v, scopes' = [scopes EXCEPT ![s] = v]
    PROVE  ScopeSet(s, v)
  <1> DEFINE R == ScopeRecord \cup {v}
  <1>1. scopes \in Seq(R) /\ v \in R
    <2>1. scopes \in Seq(ScopeRecord) /\ ScopeRecord \subseteq R
      BY DEF TypeOK
    <2> HIDE DEF R
    <2>2. scopes \in Seq(R)
      BY <2>1, SeqWider
    <2> QED  BY <2>2 DEF R
  <1> HIDE DEF R
  <1> QED  BY <1>1, ReplaceFacts DEF ScopeSet

LEMMA ScopeSetType ==
    ASSUME TypeOK, Grown, NEW s \in DOMAIN scopes, NEW v, v \in ScopeRecord',
           ScopeSet(s, v), v.parent = scopes[s].parent, scopes' = [scopes EXCEPT ![s] = v]
    PROVE  /\ scopes' \in Seq(ScopeRecord') /\ scopes' # <<>>
           /\ \A t \in DOMAIN scopes' :
                 scopes'[t].parent \in IF t = 1 THEN {0} ELSE 1..(t - 1)
  <1>1. scopes \in Seq(ScopeRecord')
    <2>1. scopes \in Seq(ScopeRecord) /\ ScopeRecord \subseteq ScopeRecord'
      BY Wider DEF TypeOK
    <2> QED  BY <2>1, SeqWider
  <1>2. scopes' \in Seq(ScopeRecord')
    BY <1>1, ReplaceFacts
  <1>3. scopes' # <<>>
    <2>1. s \in DOMAIN scopes'
      BY DEF ScopeSet
    <2> QED  BY <2>1
  <1>4. \A t \in DOMAIN scopes' : scopes'[t].parent = scopes[t].parent /\ t \in DOMAIN scopes
    BY DEF ScopeSet
  <1> QED  BY <1>2, <1>3, <1>4 DEF TypeOK

\* Only one route changed.
RouteSet(r, v) ==
    /\ Len(routes)' = Len(routes) /\ (DOMAIN routes)' = DOMAIN routes
    /\ routes'[r] = v /\ \A t \in DOMAIN routes : t # r => routes'[t] = routes[t]

LEMMA RouteSetFacts ==
    ASSUME TypeOK, NEW r \in DOMAIN routes, NEW v, routes' = [routes EXCEPT ![r] = v]
    PROVE  RouteSet(r, v)
  <1> DEFINE R == RouteRecord \cup {v}
  <1>1. routes \in Seq(R) /\ v \in R
    <2>1. routes \in Seq(RouteRecord) /\ RouteRecord \subseteq R
      BY DEF TypeOK
    <2> HIDE DEF R
    <2>2. routes \in Seq(R)
      BY <2>1, SeqWider
    <2> QED  BY <2>2 DEF R
  <1> HIDE DEF R
  <1> QED  BY <1>1, ReplaceFacts DEF RouteSet

LEMMA RouteSetType ==
    ASSUME TypeOK, Grown, NEW r \in DOMAIN routes, NEW v, v \in RouteRecord',
           routes' = [routes EXCEPT ![r] = v]
    PROVE  routes' \in Seq(RouteRecord')
  <1>1. routes \in Seq(RouteRecord')
    <2>1. routes \in Seq(RouteRecord) /\ RouteRecord \subseteq RouteRecord'
      BY Wider DEF TypeOK
    <2> QED  BY <2>1, SeqWider
  <1> QED  BY <1>1, ReplaceFacts

\* What holds of routes and table stays well formed if they are left alone.
LEMMA RoutesLeft ==
    ASSUME TypeOK, Grown
    PROVE  /\ routes' = routes => routes' \in Seq(RouteRecord')
           /\ table' = table => table' \in Seq(RouteRecord')
           /\ scopes' = scopes => scopes' \in Seq(ScopeRecord')
  <1>1. Seq(RouteRecord) \subseteq Seq(RouteRecord') /\ Seq(ScopeRecord) \subseteq Seq(ScopeRecord')
    BY Wider, SeqWider
  <1> QED  BY <1>1 DEF TypeOK

\* The calls stay well formed when one more is made, of a scope or a route
\* that there is.
LEMMA CallsType ==
    ASSUME TypeOK, NEW v, LastCall(v),
           DOMAIN scopes \subseteq (DOMAIN scopes)', DOMAIN routes \subseteq (DOMAIN routes)',
           v.at \in IF v.op = "route" THEN DOMAIN routes ELSE DOMAIN scopes,
           v.name \in IF v.op = "param" THEN Names ELSE {""}
    PROVE  \A c \in DOMAIN calls' :
              /\ calls'[c].at \in IF calls'[c].op = "route" THEN DOMAIN routes' ELSE DOMAIN scopes'
              /\ calls'[c].name \in IF calls'[c].op = "param" THEN Names ELSE {""}
  <1>1. \A c \in DOMAIN calls :
           /\ calls[c].at \in IF calls[c].op = "route" THEN DOMAIN routes ELSE DOMAIN scopes
           /\ calls[c].name \in IF calls[c].op = "param" THEN Names ELSE {""}
    BY DEF TypeOK
  <1>2. /\ DOMAIN calls' = DOMAIN calls \cup {Handler} /\ calls'[Handler] = v
        /\ \A c \in DOMAIN calls : calls'[c] = calls[c]
    BY DEF LastCall
  <1> QED  BY <1>1, <1>2

LEMMA GrownByCall ==
    ASSUME TypeOK, NEW v, LastCall(v),
           Len(scopes)' = Len(scopes), (DOMAIN scopes)' = DOMAIN scopes
    PROVE  Grown
  <1>1. Len(calls)' = Handler /\ (DOMAIN calls)' = 1..Handler /\ Handler \in Nat
    BY DEF LastCall
  <1>2. Len(calls) \in Nat /\ Len(scopes) \in Nat /\ DOMAIN scopes = 1..Len(scopes)
    BY ScopeFacts, CallFacts
  <1>3. Len(calls) <= Handler
    BY <1>2 DEF Handler
  <1> QED  BY <1>1, <1>2, <1>3 DEF Grown

\* No call that registers a handler: the calls are left alone.
LEMMA CallsLeft ==
    ASSUME TypeOK, calls' = calls,
           DOMAIN scopes \subseteq (DOMAIN scopes)', DOMAIN routes \subseteq (DOMAIN routes)'
    PROVE  /\ calls' \in Seq(Call)
           /\ \A c \in DOMAIN calls' :
              /\ calls'[c].at \in IF calls'[c].op = "route" THEN DOMAIN routes' ELSE DOMAIN scopes'
              /\ calls'[c].name \in IF calls'[c].op = "param" THEN Names ELSE {""}
           /\ \A op, S : Calls(op, S)' = Calls(op, S)
           /\ \A s, n : Given(s, n)' = Given(s, n)
  <1>1. \A c \in DOMAIN calls :
           /\ calls[c].at \in IF calls[c].op = "route" THEN DOMAIN routes ELSE DOMAIN scopes
           /\ calls[c].name \in IF calls[c].op = "param" THEN Names ELSE {""}
    BY DEF TypeOK
  <1>2. calls' \in Seq(Call)
    BY DEF TypeOK
  <1>3. \A op, S : Calls(op, S)' = Calls(op, S)
    BY DEF Calls
  <1>4. \A s, n : Given(s, n)' = Given(s, n)
    BY <1>3 DEF Given
  <1> QED  BY <1>1, <1>2, <1>3, <1>4

LEMMA GrownByScope ==
    ASSUME TypeOK, calls' = calls, Len(scopes)' \in Nat, Len(scopes) <= Len(scopes)',
           (DOMAIN scopes)' = 1..Len(scopes)'
    PROVE  Grown
  BY CallFacts DEF Grown

LEMMA GrownLeft ==
    ASSUME TypeOK, scopes' = scopes, calls' = calls
    PROVE  Grown
  BY ScopeFacts, GrownByScope

\* Uses of a scope ...
LEMMA UseKeeps ==
    ASSUME Ledger, NEW s \in DOMAIN scopes, Use(s)
    PROVE  Ledger'
  <1> DEFINE call == [op |-> "use", at |-> s, name |-> ""]
             v == [scopes[s] EXCEPT !.uses = Append(scopes[s].uses, Handler)]
  <1>1. TypeOK /\ UsesKept /\ OwnKept /\ ParamsKept
    BY DEF Ledger
  <1>2. s \in Nat /\ DOMAIN scopes = 1..Len(scopes) /\ scopes[s] \in ScopeRecord
        /\ scopes[s].uses \in Seq(DOMAIN calls)
    <2>1. scopes \in Seq(ScopeRecord)
      BY <1>1 DEF TypeOK
    <2>2. scopes[s] \in ScopeRecord /\ s \in Nat
      BY <2>1
    <2> QED  BY <2>2, <1>1, ScopeFacts
  <1>3. LastCall(call)
    BY <1>1, <1>2, RegistersFacts DEF Use
  <1>4. scopes' = [scopes EXCEPT ![s] = v] /\ routes' = routes /\ table' = table
        /\ outcome' = outcome
    BY DEF Use, Registers, Declaring
  <1>5. v.parent = scopes[s].parent /\ v.params = scopes[s].params /\ v.root = scopes[s].root
        /\ v.path = scopes[s].path /\ v.uses = Append(scopes[s].uses, Handler)
    BY <1>2 DEF ScopeRecord
  <1>6. call.op = "use" /\ call.at = s /\ call.name = ""
    OBVIOUS
  <1> HIDE DEF call
  <1>7. ScopeSet(s, v)
    <2> HIDE DEF v
    <2> QED  BY <1>1, <1>4, ScopeSetFacts
  <1>8. Grown
    BY <1>1, <1>3, <1>7, GrownByCall DEF ScopeSet
  <1>9. v \in ScopeRecord'
    <2>1. scopes[s] \in ScopeRecord'
      BY <1>1, <1>2, <1>8, Wider
    <2>2. v.uses \in Seq((DOMAIN calls)')
      <3>1. scopes[s].uses \in Seq((DOMAIN calls)') /\ Handler \in (DOMAIN calls)'
        <4>1. DOMAIN calls \subseteq (DOMAIN calls)' /\ Handler \in (DOMAIN calls)'
          BY <1>3 DEF LastCall
        <4> QED  BY <4>1, <1>2, SeqWider
      <3> QED  BY <3>1, <1>5, AppendFacts
    <2> QED  BY <2>1, <2>2 DEF ScopeRecord
  <1> HIDE DEF v
  <1>10. TypeOK'
    <2>1. /\ scopes' \in Seq(ScopeRecord') /\ scopes' # <<>>
          /\ \A t \in DOMAIN scopes' :
                scopes'[t].parent \in IF t = 1 THEN {0} ELSE 1..(t - 1)
      BY <1>1, <1>4, <1>5, <1>7, <1>8, <1>9, ScopeSetType
    <2>2. routes' \in Seq(RouteRecord') /\ table' \in Seq(RouteRecord')
      BY <1>1, <1>4, <1>8, RoutesLeft
    <2>3. calls' \in Seq(Call)
      BY <1>3 DEF LastCall
    <2>4. \A c \in DOMAIN calls' :
              /\ calls'[c].at \in IF calls'[c].op = "route" THEN DOMAIN routes' ELSE DOMAIN scopes'
              /\ calls'[c].name \in IF calls'[c].op = "param" THEN Names ELSE {""}
      BY <1>1, <1>3, <1>4, <1>6, <1>7, CallsType DEF ScopeSet
    <2>5. outcome' \in {"open", "built", "unmatched", "not granted"}
      BY <1>1, <1>4 DEF TypeOK
    <2> QED  BY <2>1, <2>2, <2>3, <2>4, <2>5 DEF TypeOK
  <1>11. UsesKept'
    <2> SUFFICES ASSUME NEW t \in DOMAIN scopes'
                 PROVE  Lists(scopes'[t].uses, Calls("use", {t})')
      BY DEF UsesKept
    <2>1. t \in DOMAIN scopes /\ Lists(scopes[t].uses, Calls("use", {t}))
      BY <1>1, <1>7 DEF ScopeSet, UsesKept
    <2>2. CASE t = s
      <3>1. Calls("use", {t})' = Calls("use", {t}) \cup {Handler}
        BY <2>2, <1>3, <1>6, CallsLater
      <3>2. \A c \in Calls("use", {t}) : c < Handler
        BY <1>3 DEF LastCall, Calls
      <3>3. Lists(Append(scopes[s].uses, Handler), Calls("use", {t}) \cup {Handler})
        BY <3>2, <2>1, <2>2, <1>2, ListsLater
      <3> QED  BY <3>1, <3>3, <2>2, <1>5, <1>7 DEF ScopeSet
    <2>3. CASE t # s
      <3>1. Calls("use", {t})' = Calls("use", {t})
        BY <2>3, <1>3, <1>6, OtherCalls
      <3> QED  BY <3>1, <2>1, <2>3, <1>7 DEF ScopeSet
    <2> QED  BY <2>2, <2>3
  <1>12. OwnKept'
    <2>1. \A r : Calls("route", {r})' = Calls("route", {r})
      BY <1>3, <1>6, OtherCalls
    <2> QED  BY <2>1, <1>1, <1>4 DEF OwnKept
  <1>13. ParamsKept'
    <2>1. \A t, n : Given(t, n)' = Given(t, n)
      BY <1>3, <1>6, OtherCalls
    <2>2. \A t \in DOMAIN scopes' : t \in DOMAIN scopes /\ scopes'[t].params = scopes[t].params
      BY <1>5, <1>7 DEF ScopeSet
    <2> QED  BY <2>1, <2>2, <1>1 DEF ParamsKept
  <1> QED  BY <1>10, <1>11, <1>12, <1>13 DEF Ledger

\* ... and param() of it keep the ledger, ...
LEMMA ParamKeeps ==
    ASSUME Ledger, NEW s \in DOMAIN scopes, NEW name \in Names, Param(s, name)
    PROVE  Ledger'
  <1> DEFINE call == [op |-> "param", at |-> s, name |-> name]
             given == [scopes[s].params EXCEPT ![name] = Handler]
             v == [scopes[s] EXCEPT !.params = given]
  <1>1. TypeOK /\ UsesKept /\ OwnKept /\ ParamsKept
    BY DEF Ledger
  <1>2. s \in Nat /\ scopes[s] \in ScopeRecord /\ scopes[s].params \in [Names -> 0..Len(calls)]
    <2>1. scopes \in Seq(ScopeRecord)
      BY <1>1 DEF TypeOK
    <2>2. scopes[s] \in ScopeRecord /\ s \in Nat
      BY <2>1
    <2> QED  BY <2>2, <1>1, ScopeFacts
  <1>3. LastCall(call)
    BY <1>1, <1>2, RegistersFacts DEF Param
  <1>4. scopes' = [scopes EXCEPT ![s] = v] /\ routes' = routes /\ table' = table
        /\ outcome' = outcome
    BY DEF Param, Registers, Declaring
  <1>5. v.parent = scopes[s].parent /\ v.uses = scopes[s].uses /\ v.root = scopes[s].root
        /\ v.path = scopes[s].path /\ v.params = given
    BY <1>2 DEF ScopeRecord
  <1>6. call.op = "param" /\ call.at = s /\ call.name = name
    OBVIOUS
  <1> HIDE DEF call
  <1>7. ScopeSet(s, v)
    <2> HIDE DEF v
    <2> QED  BY <1>1, <1>4, ScopeSetFacts
  <1>8. Grown
    BY <1>1, <1>3, <1>7, GrownByCall DEF ScopeSet
  <1>9. v \in ScopeRecord'
    <2>1. scopes[s] \in ScopeRecord'
      BY <1>1, <1>2, <1>8, Wider
    <2>2. given \in [Names -> 0..Len(calls)']
      <3>1. Len(calls)' = Handler /\ Handler \in 0..Handler /\ 0..Len(calls) \subseteq 0..Handler
        BY <1>1, <1>3, CallFacts DEF LastCall, Handler
      <3> QED  BY <3>1, <1>2
    <2> HIDE DEF given
    <2> QED  BY <2>1, <2>2 DEF ScopeRecord
  <1>10. /\ given[name] = Handler
         /\ \A n \in Names : n # name => given[n] = scopes[s].params[n]
    BY <1>2
  <1> HIDE DEF v, given
  <1>11. TypeOK'
    <2>1. /\ scopes' \in Seq(ScopeRecord') /\ scopes' # <<>>
          /\ \A t \in DOMAIN scopes' :
                scopes'[t].parent \in IF t = 1 THEN {0} ELSE 1..(t - 1)
      BY <1>1, <1>4, <1>5, <1>7, <1>8, <1>9, ScopeSetType
    <2>2. routes' \in Seq(RouteRecord') /\ table' \in Seq(RouteRecord')
      BY <1>1, <1>4, <1>8, RoutesLeft
    <2>3. calls' \in Seq(Call)
      BY <1>3 DEF LastCall
    <2>4. \A c \in DOMAIN calls' :
              /\ calls'[c].at \in IF calls'[c].op = "route" THEN DOMAIN routes' ELSE DOMAIN scopes'
              /\ calls'[c].name \in IF calls'[c].op = "param" THEN Names ELSE {""}
      BY <1>1, <1>3, <1>4, <1>6, <1>7, CallsType DEF ScopeSet
    <2>5. outcome' \in {"open", "built", "unmatched", "not granted"}
      BY <1>1, <1>4 DEF TypeOK
    <2> QED  BY <2>1, <2>2, <2>3, <2>4, <2>5 DEF TypeOK
  <1>12. UsesKept'
    <2>1. \A t : Calls("use", {t})' = Calls("use", {t})
      BY <1>3, <1>6, OtherCalls
    <2>2. \A t \in DOMAIN scopes' : t \in DOMAIN scopes /\ scopes'[t].uses = scopes[t].uses
      BY <1>5, <1>7 DEF ScopeSet
    <2> QED  BY <2>1, <2>2, <1>1 DEF UsesKept
  <1>13. OwnKept'
    <2>1. \A r : Calls("route", {r})' = Calls("route", {r})
      BY <1>3, <1>6, OtherCalls
    <2> QED  BY <2>1, <1>1, <1>4 DEF OwnKept
  <1>14. ParamsKept'
    <2> SUFFICES ASSUME NEW t \in DOMAIN scopes', NEW n \in Names
                 PROVE  LastOf(scopes'[t].params[n], Given(t, n)')
      BY DEF ParamsKept
    <2>1. t \in DOMAIN scopes /\ LastOf(scopes[t].params[n], Given(t, n))
      BY <1>1, <1>7 DEF ScopeSet, ParamsKept
    <2>2. CASE t = s /\ n = name
      <3>1. Given(t, n)' = Given(t, n) \cup {Handler}
        BY <2>2, <1>3, <1>6, GivenLater
      <3>2. /\ Handler \in Nat \ {0} /\ DOMAIN calls \subseteq Nat
            /\ \A c \in DOMAIN calls : c < Handler
        BY <1>1, <1>3, CallFacts DEF LastCall
      <3>3. Given(t, n) \subseteq DOMAIN calls
        BY DEF Given, Calls
      <3>4. LastOf(Handler, Given(t, n) \cup {Handler})
        <4>1. Handler # NoHandler /\ \A d \in Given(t, n) \cup {Handler} : d <= Handler
          BY <3>2, <3>3 DEF NoHandler
        <4> QED  BY <4>1 DEF LastOf
      <3>5. scopes'[t].params[n] = Handler
        BY <2>2, <1>5, <1>7, <1>10 DEF ScopeSet
      <3> QED  BY <3>1, <3>4, <3>5
    <2>3. CASE ~(t = s /\ n = name)
      <3>1. Given(t, n)' = Given(t, n)
        BY <2>3, <1>3, <1>6, OtherCalls
      <3>2. scopes'[t].params[n] = scopes[t].params[n]
        BY <2>1, <2>3, <1>5, <1>7, <1>10 DEF ScopeSet
      <3> QED  BY <3>1, <3>2, <2>1
    <2> QED  BY <2>2, <2>3
  <1> QED  BY <1>11, <1>12, <1>13, <1>14 DEF Ledger

\* ... root() of a scope, ...
LEMMA RootKeeps ==
    ASSUME Ledger, NEW s \in DOMAIN scopes, Root(s)
    PROVE  Ledger'
  <1> DEFINE v == [scopes[s] EXCEPT !.root = TRUE]
  <1>1. TypeOK /\ UsesKept /\ OwnKept /\ ParamsKept
    BY DEF Ledger
  <1>2. scopes[s] \in ScopeRecord
    <2>1. scopes \in Seq(ScopeRecord)
      BY <1>1 DEF TypeOK
    <2> QED  BY <2>1
  <1>3. scopes' = [scopes EXCEPT ![s] = v] /\ routes' = routes /\ calls' = calls
        /\ table' = table /\ outcome' = outcome
    BY DEF Root, Declaring
  <1>4. v.parent = scopes[s].parent /\ v.uses = scopes[s].uses /\ v.params = scopes[s].params
    BY <1>2 DEF ScopeRecord
  <1>5. ScopeSet(s, v)
    <2> HIDE DEF v
    <2> QED  BY <1>1, <1>3, ScopeSetFacts
  <1>6. Grown
    BY <1>1, <1>3, <1>5, ScopeFacts, GrownByScope DEF ScopeSet
  <1>7. v \in ScopeRecord'
    <2>1. scopes[s] \in ScopeRecord'
      BY <1>1, <1>2, <1>6, Wider
    <2> QED  BY <2>1 DEF ScopeRecord
  <1> HIDE DEF v
  <1>8. /\ calls' \in Seq(Call)
        /\ \A c \in DOMAIN calls' :
              /\ calls'[c].at \in IF calls'[c].op = "route" THEN DOMAIN routes' ELSE DOMAIN scopes'
              /\ calls'[c].name \in IF calls'[c].op = "param" THEN Names ELSE {""}
        /\ \A op, S : Calls(op, S)' = Calls(op, S)
        /\ \A t, n : Given(t, n)' = Given(t, n)
    BY <1>1, <1>3, <1>5, CallsLeft DEF ScopeSet
  <1>9. TypeOK'
    <2>1. /\ scopes' \in Seq(ScopeRecord') /\ scopes' # <<>>
          /\ \A t \in DOMAIN scopes' :
                scopes'[t].parent \in IF t = 1 THEN {0} ELSE 1..(t - 1)
      BY <1>1, <1>3, <1>4, <1>5, <1>6, <1>7, ScopeSetType
    <2>2. routes' \in Seq(RouteRecord') /\ table' \in Seq(RouteRecord')
      BY <1>1, <1>3, <1>6, RoutesLeft
    <2>3. outcome' \in {"open", "built", "unmatched", "not granted"}
      BY <1>1, <1>3 DEF TypeOK
    <2> QED  BY <2>1, <2>2, <2>3, <1>8 DEF TypeOK
  <1>10. \A t \in DOMAIN scopes' : /\ t \in DOMAIN scopes
                                   /\ scopes'[t].uses = scopes[t].uses
                                   /\ scopes'[t].params = scopes[t].params
    BY <1>4, <1>5 DEF ScopeSet
  <1>11. UsesKept'
    BY <1>1, <1>8, <1>10 DEF UsesKept
  <1>12. OwnKept'
    BY <1>1, <1>3, <1>8 DEF OwnKept
  <1>13. ParamsKept'
    BY <1>1, <1>8, <1>10 DEF ParamsKept
  <1> QED  BY <1>9, <1>11, <1>12, <1>13 DEF Ledger

\* ... a handler of a route, ...
LEMMA RouteUseKeeps ==
    ASSUME Ledger, NEW r \in DOMAIN routes, RouteUse(r)
    PROVE  Ledger'
  <1> DEFINE call == [op |-> "route", at |-> r, name |-> ""]
             v == [routes[r] EXCEPT !.middlewares = Append(routes[r].middlewares, Handler)]
  <1>1. TypeOK /\ UsesKept /\ OwnKept /\ ParamsKept
    BY DEF Ledger
  <1>2. r \in Nat /\ routes[r] \in RouteRecord /\ routes[r].middlewares \in Seq(DOMAIN calls)
    BY <1>1, RouteFacts
  <1>3. LastCall(call)
    BY <1>1, <1>2, RegistersFacts DEF RouteUse
  <1>4. routes' = [routes EXCEPT ![r] = v] /\ scopes' = scopes /\ table' = table
        /\ outcome' = outcome
    BY DEF RouteUse, Registers, Declaring
  <1>5. v.middlewares = Append(routes[r].middlewares, Handler)
    BY <1>2 DEF RouteRecord
  <1>6. call.op = "route" /\ call.at = r /\ call.name = ""
    OBVIOUS
  <1> HIDE DEF call
  <1>7. RouteSet(r, v)
    <2> HIDE DEF v
    <2> QED  BY <1>1, <1>4, RouteSetFacts
  <1>8. Grown
    BY <1>1, <1>3, <1>4, GrownByCall
  <1>9. v \in RouteRecord'
    <2>1. routes[r] \in RouteRecord'
      BY <1>1, <1>2, <1>8, Wider
    <2>2. v.middlewares \in Seq((DOMAIN calls)')
      <3>1. routes[r].middlewares \in Seq((DOMAIN calls)') /\ Handler \in (DOMAIN calls)'
        <4>1. DOMAIN calls \subseteq (DOMAIN calls)' /\ Handler \in (DOMAIN calls)'
          BY <1>3 DEF LastCall
        <4> QED  BY <4>1, <1>2, SeqWider
      <3> QED  BY <3>1, <1>5, AppendFacts
    <2> QED  BY <2>1, <2>2 DEF RouteRecord
  <1> HIDE DEF v
  <1>10. TypeOK'
    <2>1. /\ scopes' \in Seq(ScopeRecord') /\ scopes' # <<>>
          /\ \A t \in DOMAIN scopes' :
                scopes'[t].parent \in IF t = 1 THEN {0} ELSE 1..(t - 1)
      BY <1>1, <1>4, <1>8, RoutesLeft DEF TypeOK
    <2>2. routes' \in Seq(RouteRecord') /\ table' \in Seq(RouteRecord')
      BY <1>1, <1>4, <1>8, <1>9, RoutesLeft, RouteSetType
    <2>3. calls' \in Seq(Call)
      BY <1>3 DEF LastCall
    <2>4. \A c \in DOMAIN calls' :
              /\ calls'[c].at \in IF calls'[c].op = "route" THEN DOMAIN routes' ELSE DOMAIN scopes'
              /\ calls'[c].name \in IF calls'[c].op = "param" THEN Names ELSE {""}
      BY <1>1, <1>3, <1>4, <1>6, <1>7, CallsType DEF RouteSet
    <2>5. outcome' \in {"open", "built", "unmatched", "not granted"}
      BY <1>1, <1>4 DEF TypeOK
    <2> QED  BY <2>1, <2>2, <2>3, <2>4, <2>5 DEF TypeOK
  <1>11. UsesKept'
    <2>1. \A t : Calls("use", {t})' = Calls("use", {t})
      BY <1>3, <1>6, OtherCalls
    <2> QED  BY <2>1, <1>1, <1>4 DEF UsesKept
  <1>12. OwnKept'
    <2> SUFFICES ASSUME NEW t \in DOMAIN routes'
                 PROVE  Lists(routes'[t].middlewares, Calls("route", {t})')
      BY DEF OwnKept
    <2>1. t \in DOMAIN routes /\ Lists(routes[t].middlewares, Calls("route", {t}))
      BY <1>1, <1>7 DEF RouteSet, OwnKept
    <2>2. CASE t = r
      <3>1. Calls("route", {t})' = Calls("route", {t}) \cup {Handler}
        BY <2>2, <1>3, <1>6, CallsLater
      <3>2. \A c \in Calls("route", {t}) : c < Handler
        BY <1>3 DEF LastCall, Calls
      <3>3. Lists(Append(routes[r].middlewares, Handler), Calls("route", {t}) \cup {Handler})
        BY <3>2, <2>1, <2>2, <1>2, ListsLater
      <3> QED  BY <3>1, <3>3, <2>2, <1>5, <1>7 DEF RouteSet
    <2>3. CASE t # r
      <3>1. Calls("route", {t})' = Calls("route", {t})
        BY <2>3, <1>3, <1>6, OtherCalls
      <3> QED  BY <3>1, <2>1, <2>3, <1>7 DEF RouteSet
    <2> QED  BY <2>2, <2>3
  <1>13. ParamsKept'
    <2>1. \A t, n : Given(t, n)' = Given(t, n)
      BY <1>3, <1>6, OtherCalls
    <2> QED  BY <2>1, <1>1, <1>4 DEF ParamsKept
  <1> QED  BY <1>10, <1>11, <1>12, <1>13 DEF Ledger

\* ... whatever else of a route leaves its handlers, ...
LEMMA RouteKeeps ==
    ASSUME Ledger, NEW r \in DOMAIN routes, NEW v \in RouteRecord,
           routes' = [routes EXCEPT ![r] = v], v.middlewares = routes[r].middlewares,
           scopes' = scopes, calls' = calls, table' = table, outcome' = outcome
    PROVE  Ledger'
  <1>1. TypeOK /\ UsesKept /\ OwnKept /\ ParamsKept
    BY DEF Ledger
  <1>2. RouteSet(r, v)
    BY <1>1, RouteSetFacts
  <1>3. Grown
    BY <1>1, GrownLeft
  <1>4. v \in RouteRecord'
    BY <1>1, <1>3, Wider
  <1>5. /\ calls' \in Seq(Call)
        /\ \A c \in DOMAIN calls' :
              /\ calls'[c].at \in IF calls'[c].op = "route" THEN DOMAIN routes' ELSE DOMAIN scopes'
              /\ calls'[c].name \in IF calls'[c].op = "param" THEN Names ELSE {""}
        /\ \A op, S : Calls(op, S)' = Calls(op, S)
        /\ \A t, n : Given(t, n)' = Given(t, n)
    BY <1>1, <1>2, CallsLeft DEF RouteSet
  <1>6. TypeOK'
    <2>1. /\ scopes' \in Seq(ScopeRecord') /\ scopes' # <<>>
          /\ \A t \in DOMAIN scopes' :
                scopes'[t].parent \in IF t = 1 THEN {0} ELSE 1..(t - 1)
      BY <1>1, <1>3, RoutesLeft DEF TypeOK
    <2>2. routes' \in Seq(RouteRecord') /\ table' \in Seq(RouteRecord')
      BY <1>1, <1>3, <1>4, RoutesLeft, RouteSetType
    <2>3. outcome' \in {"open", "built", "unmatched", "not granted"}
      BY <1>1 DEF TypeOK
    <2> QED  BY <2>1, <2>2, <2>3, <1>5 DEF TypeOK
  <1>7. UsesKept'
    BY <1>1, <1>5 DEF UsesKept
  <1>8. OwnKept'
    <2>1. \A t \in DOMAIN routes' : /\ t \in DOMAIN routes
                                    /\ routes'[t].middlewares = routes[t].middlewares
      BY <1>2 DEF RouteSet
    <2> QED  BY <2>1, <1>1, <1>5 DEF OwnKept
  <1>9. ParamsKept'
    BY <1>1, <1>5 DEF ParamsKept
  <1> QED  BY <1>6, <1>7, <1>8, <1>9 DEF Ledger

LEMMA RouteRootKeeps ==
    ASSUME Ledger, NEW r \in DOMAIN routes, RouteRoot(r)
    PROVE  Ledger'
  <1> DEFINE v == [routes[r] EXCEPT !.root = TRUE]
  <1>1. routes[r] \in RouteRecord
    BY RouteFacts DEF Ledger
  <1>2. v \in RouteRecord /\ v.middlewares = routes[r].middlewares
    BY <1>1 DEF RouteRecord
  <1>3. routes' = [routes EXCEPT ![r] = v] /\ scopes' = scopes /\ calls' = calls
        /\ table' = table /\ outcome' = outcome
    BY DEF RouteRoot, Declaring
  <1> HIDE DEF v
  <1> QED  BY <1>2, <1>3, RouteKeeps

LEMMA HandleKeeps ==
    ASSUME Ledger, NEW r \in DOMAIN routes, Handle(r)
    PROVE  Ledger'
  <1> DEFINE v == [routes[r] EXCEPT !.handled = TRUE]
  <1>1. routes[r] \in RouteRecord
    BY RouteFacts DEF Ledger
  <1>2. v \in RouteRecord /\ v.middlewares = routes[r].middlewares
    BY <1>1 DEF RouteRecord
  <1>3. routes' = [routes EXCEPT ![r] = v] /\ scopes' = scopes /\ calls' = calls
        /\ table' = table /\ outcome' = outcome
    BY DEF Handle, Declaring
  <1> HIDE DEF v
  <1> QED  BY <1>2, <1>3, RouteKeeps

\* ... a group opened in a scope, ...
LEMMA PrefixKeeps ==
    ASSUME Ledger, NEW s \in DOMAIN scopes, NEW path \in Paths, Prefix(s, path)
    PROVE  Ledger'
  <1> DEFINE n == Len(scopes)  v == Scope(s, scopes[s].path \o path)
             R == ScopeRecord \cup {v}
  <1>1. TypeOK /\ UsesKept /\ OwnKept /\ ParamsKept
    BY DEF Ledger
  <1>2. /\ n \in Nat /\ DOMAIN scopes = 1..n /\ s \in 1..n
        /\ scopes[s].path \o path \in Seq(Names)
    <2>1. n \in Nat /\ DOMAIN scopes = 1..n /\ scopes[s].path \in Seq(Names)
      BY <1>1, ScopeFacts
    <2>2. path \in Seq(Names)
      BY PathsAssumption
    <2> HIDE DEF n
    <2> QED  BY <2>1, <2>2
  <1>3. scopes' = Append(scopes, v) /\ routes' = routes /\ calls' = calls
        /\ table' = table /\ outcome' = outcome
    BY DEF Prefix, Declaring
  <1>4. /\ v.parent = s /\ v.path = scopes[s].path \o path /\ v.uses = <<>>
        /\ v.params = [m \in Names |-> NoHandler] /\ v.root = FALSE
        /\ v = [parent |-> v.parent, path |-> v.path, uses |-> v.uses,
                params |-> v.params, root |-> v.root]
    BY DEF Scope
  <1> HIDE DEF v
  <1>5. scopes \in Seq(ScopeRecord)
    BY <1>1 DEF TypeOK
  <1>6. /\ Len(scopes') = n + 1 /\ DOMAIN scopes' = DOMAIN scopes \cup {n + 1}
        /\ scopes'[n + 1] = v /\ \A t \in DOMAIN scopes : scopes'[t] = scopes[t]
        /\ scopes' # <<>>
    <2>1. scopes \in Seq(R) /\ v \in R
      <3> HIDE DEF R
      <3>1. ScopeRecord \subseteq R
        BY DEF R
      <3>2. scopes \in Seq(R)
        BY <1>5, <3>1, SeqWider
      <3> QED  BY <3>2 DEF R
    <2> HIDE DEF R
    <2> QED  BY <2>1, <1>3, AppendFacts
  <1> HIDE DEF n, R
  <1>7. n + 1 \in Nat /\ n <= n + 1 /\ 1..(n + 1) = 1..n \cup {n + 1} /\ n + 1 \notin 1..n
        /\ s <= n /\ s \in 1..((n + 1) - 1) /\ n + 1 # 1 /\ s \in 0..(n + 1)
    BY <1>2
  <1>8. Grown
    <2>1. Len(scopes) = n
      BY DEF n
    <2> QED  BY <1>1, <1>2, <1>3, <1>6, <1>7, <2>1, GrownByScope
  <1>9. v \in ScopeRecord'
    <2>1. v.parent \in 0..Len(scopes)' /\ v.path \in Seq(Names)
      BY <1>2, <1>4, <1>6, <1>7
    <2>2. v.uses \in Seq((DOMAIN calls)')
      BY <1>4
    <2>3. v.params \in [Names -> 0..Len(calls)']
      BY <1>1, <1>3, <1>4, CallFacts DEF NoHandler
    <2>4. v.root \in BOOLEAN
      BY <1>4
    <2> QED  BY <1>4, <2>1, <2>2, <2>3, <2>4 DEF ScopeRecord
  <1>10. /\ calls' \in Seq(Call)
         /\ \A c \in DOMAIN calls' :
              /\ calls'[c].at \in IF calls'[c].op = "route" THEN DOMAIN routes' ELSE DOMAIN scopes'
              /\ calls'[c].name \in IF calls'[c].op = "param" THEN Names ELSE {""}
         /\ \A op, S : Calls(op, S)' = Calls(op, S)
         /\ \A t, m : Given(t, m)' = Given(t, m)
    BY <1>1, <1>3, <1>6, CallsLeft
  <1>11. TypeOK'
    <2>1. scopes' \in Seq(ScopeRecord')
      <3>1. scopes \in Seq(ScopeRecord')
        BY <1>1, <1>5, <1>8, Wider, SeqWider
      <3> QED  BY <3>1, <1>3, <1>9, AppendFacts
    <2>2. \A t \in DOMAIN scopes' :
             scopes'[t].parent \in IF t = 1 THEN {0} ELSE 1..(t - 1)
      <3>1. \A t \in DOMAIN scopes : scopes[t].parent \in IF t = 1 THEN {0} ELSE 1..(t - 1)
        BY <1>1 DEF TypeOK
      <3> QED  BY <3>1, <1>4, <1>6, <1>7
    <2>3. routes' \in Seq(RouteRecord') /\ table' \in Seq(RouteRecord')
      BY <1>1, <1>3, <1>8, RoutesLeft
    <2>4. outcome' \in {"open", "built", "unmatched", "not granted"}
      BY <1>1, <1>3 DEF TypeOK
    <2> QED  BY <2>1, <2>2, <2>3, <2>4, <1>6, <1>10 DEF TypeOK
  <1>12. \A c \in DOMAIN calls : calls[c].op # "route" => calls[c].at # n + 1
    BY <1>1, <1>2, <1>7 DEF TypeOK
  <1>13. UsesKept'
    <2>1. Lists(<<>>, Calls("use", {n + 1}))
      BY <1>12 DEF Lists, Calls, ToSet
    <2> QED  BY <2>1, <1>1, <1>4, <1>6, <1>10 DEF UsesKept
  <1>14. OwnKept'
    BY <1>1, <1>3, <1>10 DEF OwnKept
  <1>15. ParamsKept'
    <2>1. \A m \in Names : LastOf(v.params[m], Given(n + 1, m))
      BY <1>4, <1>12 DEF LastOf, Given, Calls
    <2> QED  BY <2>1, <1>1, <1>6, <1>10 DEF ParamsKept
  <1> QED  BY <1>11, <1>13, <1>14, <1>15 DEF Ledger

\* ... a route added, ...
LEMMA RouteAdded ==
    ASSUME Ledger, NEW v \in RouteRecord, v.middlewares = <<>>,
           routes' = Append(routes, v), scopes' = scopes, calls' = calls,
           table' = table, outcome' = outcome
    PROVE  Ledger'
  <1> DEFINE n == Len(routes)
  <1>1. TypeOK /\ UsesKept /\ OwnKept /\ ParamsKept
    BY DEF Ledger
  <1>2. n \in Nat /\ DOMAIN routes = 1..n /\ n + 1 \notin 1..n
    BY <1>1, RouteFacts
  <1>3. routes \in Seq(RouteRecord)
    BY <1>1 DEF TypeOK
  <1>4. /\ DOMAIN routes' = DOMAIN routes \cup {n + 1}
        /\ routes'[n + 1] = v /\ \A t \in DOMAIN routes : routes'[t] = routes[t]
    BY <1>3, AppendFacts
  <1> HIDE DEF n
  <1>5. Grown
    BY <1>1, GrownLeft
  <1>6. /\ calls' \in Seq(Call)
        /\ \A c \in DOMAIN calls' :
              /\ calls'[c].at \in IF calls'[c].op = "route" THEN DOMAIN routes' ELSE DOMAIN scopes'
              /\ calls'[c].name \in IF calls'[c].op = "param" THEN Names ELSE {""}
        /\ \A op, S : Calls(op, S)' = Calls(op, S)
        /\ \A t, m : Given(t, m)' = Given(t, m)
    BY <1>1, <1>4, CallsLeft
  <1>7. TypeOK'
    <2>1. /\ scopes' \in Seq(ScopeRecord') /\ scopes' # <<>>
          /\ \A t \in DOMAIN scopes' :
                scopes'[t].parent \in IF t = 1 THEN {0} ELSE 1..(t - 1)
      BY <1>1, <1>5, RoutesLeft DEF TypeOK
    <2>2. routes' \in Seq(RouteRecord')
      <3>1. routes \in Seq(RouteRecord') /\ v \in RouteRecord'
        BY <1>1, <1>3, <1>5, Wider, SeqWider
      <3> QED  BY <3>1, AppendFacts
    <2>3. table' \in Seq(RouteRecord')
      BY <1>1, <1>5, RoutesLeft
    <2>4. outcome' \in {"open", "built", "unmatched", "not granted"}
      BY <1>1 DEF TypeOK
    <2> QED  BY <2>1, <2>2, <2>3, <2>4, <1>6 DEF TypeOK
  <1>8. UsesKept'
    BY <1>1, <1>6 DEF UsesKept
  <1>9. OwnKept'
    <2>1. \A c \in DOMAIN calls : calls[c].op = "route" => calls[c].at # n + 1
      BY <1>1, <1>2 DEF TypeOK
    <2>2. Lists(<<>>, Calls("route", {n + 1}))
      BY <2>1 DEF Lists, Calls, ToSet
    <2> QED  BY <2>2, <1>1, <1>4, <1>6 DEF OwnKept
  <1>10. ParamsKept'
    BY <1>1, <1>6 DEF ParamsKept
  <1> QED  BY <1>7, <1>8, <1>9, <1>10 DEF Ledger

\* ... and nothing declared at all.
LEMMA LeftAlone ==
    ASSUME Ledger, scopes' = scopes, routes' = routes, calls' = calls,
           table' \in Seq(RouteRecord),
           outcome' \in {"open", "built", "unmatched", "not granted"}
    PROVE  Ledger'
  <1>1. TypeOK /\ UsesKept /\ OwnKept /\ ParamsKept
    BY DEF Ledger
  <1>2. Grown
    BY <1>1, GrownLeft
  <1>3. /\ calls' \in Seq(Call)
        /\ \A c \in DOMAIN calls' :
              /\ calls'[c].at \in IF calls'[c].op = "route" THEN DOMAIN routes' ELSE DOMAIN scopes'
              /\ calls'[c].name \in IF calls'[c].op = "param" THEN Names ELSE {""}
        /\ \A op, S : Calls(op, S)' = Calls(op, S)
        /\ \A t, m : Given(t, m)' = Given(t, m)
    BY <1>1, CallsLeft
  <1>4. TypeOK'
    <2>1. /\ scopes' \in Seq(ScopeRecord') /\ scopes' # <<>>
          /\ \A t \in DOMAIN scopes' :
                scopes'[t].parent \in IF t = 1 THEN {0} ELSE 1..(t - 1)
      BY <1>1, <1>2, RoutesLeft DEF TypeOK
    <2>2. routes' \in Seq(RouteRecord')
      BY <1>1, <1>2, RoutesLeft
    <2>3. table' \in Seq(RouteRecord')
      BY <1>1, <1>2, Wider, SeqWider
    <2> QED  BY <2>1, <2>2, <2>3, <1>3 DEF TypeOK
  <1>5. UsesKept'
    BY <1>1, <1>3 DEF UsesKept
  <1>6. OwnKept'
    BY <1>1, <1>3 DEF OwnKept
  <1>7. ParamsKept'
    BY <1>1, <1>3 DEF ParamsKept
  <1> QED  BY <1>4, <1>5, <1>6, <1>7 DEF Ledger

\* A route is declared in a scope if the ACL grants what it requires.
LEMMA RequireKeeps ==
    ASSUME Ledger, NEW s \in DOMAIN scopes, NEW rai \in Rais, NEW path \in Paths,
           Require(s, rai, path)
    PROVE  Ledger'
  <1> DEFINE v == [scope |-> s, rai |-> rai, path |-> scopes[s].path \o path,
                   middlewares |-> <<>>, root |-> FALSE, handled |-> FALSE]
  <1>1. TypeOK
    BY DEF Ledger
  <1>2. scopes' = scopes /\ calls' = calls /\ table' = table
    BY DEF Require, Declaring
  <1>3. CASE rai \in GrantedRais
    <2>1. scopes[s].path \o path \in Seq(Names)
      <3>1. scopes[s].path \in Seq(Names) /\ path \in Seq(Names)
        BY <1>1, ScopeFacts, PathsAssumption
      <3> QED  BY <3>1
    <2>2. v \in RouteRecord
      BY <1>3, <2>1 DEF RouteRecord
    <2>3. v.middlewares = <<>>
      OBVIOUS
    <2>4. routes' = Append(routes, v) /\ outcome' = outcome
      BY <1>3 DEF Require, Requirable
    <2> HIDE DEF v
    <2> QED  BY <1>2, <2>2, <2>3, <2>4, RouteAdded
  <1>4. CASE rai \notin GrantedRais
    <2>1. routes' = routes /\ outcome' = "not granted"
      BY <1>4 DEF Require, Requirable
    <2>2. table' \in Seq(RouteRecord)
      BY <1>1, <1>2 DEF TypeOK
    <2> QED  BY <1>2, <2>1, <2>2, LeftAlone
  <1> QED  BY <1>3, <1>4

\* finalize() only reads what was declared.
LEMMA FinalizeKeeps ==
    ASSUME Ledger, Finalize
    PROVE  Ledger'
  <1>1. scopes' = scopes /\ routes' = routes /\ calls' = calls
    BY DEF Finalize
  <1>2. outcome' \in {"open", "built", "unmatched", "not granted"}
    BY DEF Finalize
  <1>3. table' \in Seq(RouteRecord)
    <2>1. table \in Seq(RouteRecord)
      BY DEF Ledger, TypeOK
    <2>2. table' = table \/ table' = Flattened
      BY DEF Finalize
    <2> QED  BY <2>1, <2>2, FlattenedFacts
  <1> QED  BY <1>1, <1>2, <1>3, LeftAlone

-----------------------------------------------------------------------------
\* What finalize() computes depends on what was declared, and nothing else.
LEMMA Derived ==
    ASSUME scopes' = scopes, routes' = routes, calls' = calls
    PROVE  Unmatched' = Unmatched /\ Flattened' = Flattened
  <1>1. InheritedUses' = InheritedUses /\ InheritedRoot' = InheritedRoot
        /\ InheritedParams' = InheritedParams
    BY DEF InheritedUses, InheritedRoot, InheritedParams
  <1>2. \A s : Own(s)' = Own(s)
    BY DEF Own
  <1>3. Subtree' = Subtree
    BY <1>2 DEF Subtree, Own
  <1>4. \A s, n : Declares(s, n)' = Declares(s, n)
    BY <1>3 DEF Declares
  <1>5. Unmatched' = Unmatched
    BY <1>4 DEF Unmatched
  <1>6. Flattened' = Flattened
    BY <1>1, <1>3 DEF Flattened, Resolved, UsesFor, ParamHandlers
  <1> QED  BY <1>5, <1>6

LEMMA InitIInv == Init => IInv
  <1> SUFFICES ASSUME Init  PROVE IInv
    OBVIOUS
  <1> DEFINE v == Scope(0, <<>>)
  <1>1. /\ scopes = <<v>> /\ routes = <<>> /\ calls = <<>>
        /\ outcome = "open" /\ table = <<>>
    BY DEF Init
  <1>2. /\ v.parent = 0 /\ v.path = <<>> /\ v.uses = <<>>
        /\ v.params = [m \in Names |-> NoHandler] /\ v.root = FALSE
        /\ v = [parent |-> v.parent, path |-> v.path, uses |-> v.uses,
                params |-> v.params, root |-> v.root]
    BY DEF Scope
  <1> HIDE DEF v
  <1>3. Len(calls) = 0 /\ DOMAIN calls = {} /\ Len(scopes) = 1 /\ DOMAIN scopes = {1}
        /\ scopes[1] = v /\ DOMAIN routes = {}
    BY <1>1
  <1>4. v \in ScopeRecord
    <2>1. v.parent \in 0..Len(scopes) /\ v.path \in Seq(Names) /\ v.root \in BOOLEAN
      <3>1. v.parent \in 0..Len(scopes)
        BY <1>2, <1>3
      <3>2. v.path \in Seq(Names)
        BY <1>2
      <3> QED  BY <3>1, <3>2, <1>2
    <2>2. v.uses \in Seq(DOMAIN calls)
      BY <1>2
    <2>3. v.params \in [Names -> 0..Len(calls)]
      BY <1>2, <1>3 DEF NoHandler
    <2> QED  BY <1>2, <2>1, <2>2, <2>3 DEF ScopeRecord
  <1>5. TypeOK
    <2>1. scopes \in Seq(ScopeRecord) /\ scopes # <<>>
      BY <1>1, <1>4
    <2>2. \A s \in DOMAIN scopes : scopes[s].parent \in IF s = 1 THEN {0} ELSE 1..(s - 1)
      BY <1>2, <1>3
    <2>3. routes \in Seq(RouteRecord) /\ table \in Seq(RouteRecord) /\ calls \in Seq(Call)
      BY <1>1
    <2> QED  BY <2>1, <2>2, <2>3, <1>1, <1>3 DEF TypeOK
  <1>6. \A op, S : Calls(op, S) = {}
    BY <1>3 DEF Calls
  <1>7. \A s, n : Given(s, n) = {}
    BY <1>6 DEF Given
  <1>8. UsesKept
    BY <1>2, <1>3, <1>6 DEF UsesKept, Lists, ToSet
  <1>9. OwnKept
    BY <1>3 DEF OwnKept
  <1>10. ParamsKept
    BY <1>2, <1>3, <1>7 DEF ParamsKept, LastOf
  <1>11. Concluded
    BY <1>1 DEF Concluded
  <1> QED  BY <1>5, <1>8, <1>9, <1>10, <1>11 DEF IInv, Ledger

\* While the callback declares, nothing is concluded.
LEMMA DeclaringConcludes ==
    ASSUME Concluded, outcome = "open", table' = table,
           outcome' = outcome \/ outcome' = "not granted"
    PROVE  Concluded'
  BY DEF Concluded

\* Every step keeps what is proved of the state.
LEMMA NextIInv == IInv /\ [Next]_vars => IInv'
  <1> SUFFICES ASSUME Ledger, Concluded, [Next]_vars  PROVE IInv'
    BY DEF IInv
  <1>1. ASSUME NEW s \in DOMAIN scopes, Use(s)  PROVE IInv'
    BY <1>1, UseKeeps, DeclaringConcludes DEF IInv, Use, Registers, Declaring
  <1>2. ASSUME NEW s \in DOMAIN scopes, Root(s)  PROVE IInv'
    BY <1>2, RootKeeps, DeclaringConcludes DEF IInv, Root, Declaring
  <1>3. ASSUME NEW s \in DOMAIN scopes, NEW n \in Names, Param(s, n)  PROVE IInv'
    BY <1>3, ParamKeeps, DeclaringConcludes DEF IInv, Param, Registers, Declaring
  <1>4. ASSUME NEW s \in DOMAIN scopes, NEW path \in Paths, Prefix(s, path)  PROVE IInv'
    BY <1>4, PrefixKeeps, DeclaringConcludes DEF IInv, Prefix, Declaring
  <1>5. ASSUME NEW s \in DOMAIN scopes, NEW path \in Paths, NEW rai \in Rais,
               Require(s, rai, path)
        PROVE  IInv'
    BY <1>5, RequireKeeps, DeclaringConcludes DEF IInv, Require, Declaring
  <1>6. ASSUME NEW r \in DOMAIN routes, RouteUse(r)  PROVE IInv'
    BY <1>6, RouteUseKeeps, DeclaringConcludes DEF IInv, RouteUse, Registers, Declaring
  <1>7. ASSUME NEW r \in DOMAIN routes, RouteRoot(r)  PROVE IInv'
    BY <1>7, RouteRootKeeps, DeclaringConcludes DEF IInv, RouteRoot, Declaring
  <1>8. ASSUME NEW r \in DOMAIN routes, Handle(r)  PROVE IInv'
    BY <1>8, HandleKeeps, DeclaringConcludes DEF IInv, Handle, Declaring
  <1>9. CASE Finalize
    <2>1. Ledger'
      BY <1>9, FinalizeKeeps
    <2>2. Unmatched' = Unmatched /\ Flattened' = Flattened
      BY <1>9, Derived DEF Finalize
    <2>3. Concluded'
      <3>1. CASE Unmatched
        <4>1. outcome' = "unmatched" /\ table' = table /\ table = <<>>
          BY <1>9, <3>1 DEF Finalize, Concluded
        <4> QED  BY <2>2, <3>1, <4>1 DEF Concluded
      <3>2. CASE ~Unmatched
        <4>1. outcome' = "built" /\ table' = Flattened
          BY <1>9, <3>2 DEF Finalize
        <4> QED  BY <2>2, <3>2, <4>1 DEF Concluded
      <3> QED  BY <3>1, <3>2
    <2> QED  BY <2>1, <2>3 DEF IInv
  <1>10. CASE UNCHANGED vars
    <2>1. /\ scopes' = scopes /\ routes' = routes /\ calls' = calls
          /\ outcome' = outcome /\ table' = table
      BY <1>10 DEF vars
    <2>2. Ledger'
      <3>1. table \in Seq(RouteRecord) /\ outcome \in {"open", "built", "unmatched", "not granted"}
        BY DEF Ledger, TypeOK
      <3> QED  BY <2>1, <3>1, LeftAlone
    <2>3. Unmatched' = Unmatched /\ Flattened' = Flattened
      BY <2>1, Derived
    <2> QED  BY <2>1, <2>2, <2>3 DEF IInv, Concluded
  <1> QED
    BY <1>1, <1>2, <1>3, <1>4, <1>5, <1>6, <1>7, <1>8, <1>9, <1>10 DEF Next

LEMMA SpecIInv == Spec => []IInv
  BY InitIInv, NextIInv, PTL DEF Spec

-----------------------------------------------------------------------------
\* Every scope, route, call and record stays well formed: a group comes after
\* its parent, stacks hold handlers that were registered, and no route has an
\* RAI that the ACL does not grant (createRouteRegistry).
THEOREM ScopesTypeCorrect == Spec => []TypeOK
  <1>1. IInv => TypeOK
    BY DEF IInv, Ledger
  <1> QED  BY <1>1, SpecIInv, PTL

\* However the calls of the callback are ordered and nested, the table that
\* defineRoutes() returns has each declared route once, and each stack is every
\* use() of its scopes from the outermost in, the nearest param() of each name
\* of its path, and its own handlers (finalize).
THEOREM BuiltAsDeclared == Spec => []TableAsDeclared
  <1>1. IInv => TableAsDeclared
    BY FlattenedFacts DEF IInv, Concluded, TableAsDeclared
  <1> QED  BY <1>1, SpecIInv, PTL

\* defineRoutes() throws for a param() that no route below its scope names, and
\* builds the table only if there is none (finalize's check).
THEOREM MisplacedIsReported == Spec => []MisplacedReported
  <1>1. IInv => MisplacedReported
    BY UnmatchedFacts DEF IInv, Concluded, MisplacedReported
  <1> QED  BY <1>1, SpecIInv, PTL
=============================================================================
