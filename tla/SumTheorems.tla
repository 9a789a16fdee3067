----------------------------- MODULE SumTheorems ------------------------------
(***************************************************************************)
(* What SumFunctionOnSet(f, S) is for a finite set S: it does not depend   *)
(* on the order in which the elements are taken. The community modules     *)
(* define it by a recursive function on the subsets of S, of which nothing *)
(* is known but its equation; that there is one function with that         *)
(* equation, and all else, is proved with minimal counterexamples.         *)
(***************************************************************************)
EXTENDS Integers, FiniteSets, Functions, FiniteSetTheorems, WellFoundedInduction, TLAPS

Pick(s) == CHOOSE x \in s : TRUE

\* what the equation says of one subset
Partial(f, g, s) == IF s = {} THEN 0 ELSE f[Pick(s)] + g[s \ {Pick(s)}]

\* g is the partial sums of f on the subsets of S
Sums(f, g, S) == g = [s \in SUBSET S |-> Partial(f, g, s)]

LEMMA Definition ==
  ASSUME NEW f, NEW S
  PROVE  SumFunctionOnSet(f, S) = (CHOOSE g : Sums(f, g, S))[S]
  BY DEF SumFunctionOnSet, FoldFunctionOnSet, MapThenFoldSet, Sums, Partial, Pick

-------------------------------------------------------------------------------
(* Minimal counterexamples: among the subsets of a finite set, if any has   *)
(* some fault, one has it of which no smaller one has.                      *)

LEMMA Smallest ==
  ASSUME NEW S, IsFiniteSet(S), NEW Bad, Bad \subseteq SUBSET S, Bad # {}
  PROVE  \E b \in Bad : \A c \in Bad : ~(c \subseteq b /\ c # b)
  <1>1. IsWellFoundedOn(StrictSubsetOrdering(S), FiniteSubsetsOf(S))
    BY FS_StrictSubsetOrderingWellFounded
  <1>2. Bad \subseteq FiniteSubsetsOf(S)
    BY FS_Subset DEF FiniteSubsetsOf
  <1>3. PICK b \in Bad : \A c \in Bad : <<c, b>> \notin StrictSubsetOrdering(S)
    BY <1>1, <1>2, WFMin
  <1> QED BY <1>3 DEF StrictSubsetOrdering

LEMMA Largest ==
  ASSUME NEW S, IsFiniteSet(S), \A a \in S : a \in Int, S # {}
  PROVE  \E a \in S : \A c \in S : a >= c
  <1> DEFINE Bad == {b \in SUBSET S : b # {} /\ \A a \in b : \E c \in b : ~(a >= c)}
  <1> SUFFICES ASSUME S \in Bad PROVE FALSE
    OBVIOUS
  <1>1. PICK b \in Bad : \A c \in Bad : ~(c \subseteq b /\ c # b)
    <2>1. Bad \subseteq SUBSET S /\ Bad # {}
      OBVIOUS
    <2> HIDE DEF Bad
    <2> QED BY <2>1, Smallest
  <1>2. PICK p \in b : TRUE
    OBVIOUS
  <1>3. b \ {p} \notin Bad
    BY <1>1, <1>2
  <1>4. CASE b = {p}
    BY <1>1, <1>2, <1>4
  <1>5. CASE b # {p}
    <2>1. PICK a \in b \ {p} : \A c \in b \ {p} : a >= c
      BY <1>2, <1>3, <1>5
    <2>2. p \in Int /\ a \in Int /\ \A c \in b : c \in Int
      BY <1>2, <2>1
    <2>3. CASE p <= a
      BY <1>1, <1>2, <2>1, <2>2, <2>3
    <2>4. CASE a <= p
      <3>1. \A c \in b : p >= c
        BY <2>1, <2>2, <2>4
      <3> QED BY <1>1, <1>2, <3>1
    <2> QED BY <2>2, <2>3, <2>4
  <1> QED BY <1>4, <1>5

\* the largest value of a function on a finite set
LEMMA Highest ==
  ASSUME NEW S, IsFiniteSet(S), S # {}, NEW f \in [S -> Int]
  PROVE  \E a \in S : \A c \in S : f[a] >= f[c]
  <1> DEFINE T == {f[x] : x \in S}
  <1>1. f \in Surjection(S, T)
    BY DEF Surjection
  <1>2. IsFiniteSet(T)
    BY <1>1, FS_Surjection
  <1>3. T # {} /\ \A t \in T : t \in Int
    OBVIOUS
  <1>4. PICK t \in T : \A u \in T : t >= u
    <2> HIDE DEF T
    <2> QED BY <1>2, <1>3, Largest
  <1> QED BY <1>4

\* one of the elements before which the least comes
LEMMA Earliest ==
  ASSUME NEW S, IsFiniteSet(S), NEW h, NEW T, T # {}, \A i \in T : h[i] \subseteq S
  PROVE  \E i \in T : \A j \in T : ~(h[j] \subseteq h[i] /\ h[j] # h[i])
  <1> DEFINE Bad == {h[i] : i \in T}
  <1>1. PICK b \in Bad : \A c \in Bad : ~(c \subseteq b /\ c # b)
    <2>1. Bad \subseteq SUBSET S /\ Bad # {}
      OBVIOUS
    <2> HIDE DEF Bad
    <2> QED BY <2>1, Smallest
  <1> QED BY <1>1

LEMMA PickOne ==
  ASSUME NEW s, s # {}
  PROVE  Pick(s) \in s /\ s \ {Pick(s)} \subseteq s /\ s \ {Pick(s)} # s
  BY DEF Pick

-------------------------------------------------------------------------------
(* One function satisfies the equation.                                     *)

LEMMA Equation ==
  ASSUME NEW f, NEW g, NEW S, Sums(f, g, S), NEW s \in SUBSET S
  PROVE  /\ s = {} => g[s] = 0
         /\ s # {} => g[s] = f[Pick(s)] + g[s \ {Pick(s)}]
  <1>1. g[s] = Partial(f, g, s)
    BY DEF Sums
  <1> QED BY <1>1 DEF Partial

LEMMA Unique ==
  ASSUME NEW f, NEW g, NEW h, NEW S, NEW T, IsFiniteSet(S),
         Sums(f, g, S), Sums(f, h, T), NEW s \in SUBSET S, s \in SUBSET T
  PROVE  g[s] = h[s]
  <1> DEFINE Bad == {b \in SUBSET S : b \in SUBSET T /\ g[b] # h[b]}
  <1> SUFFICES ASSUME g[s] # h[s] PROVE FALSE
    OBVIOUS
  <1>1. s \in Bad
    OBVIOUS
  <1>2. PICK b \in Bad : \A c \in Bad : ~(c \subseteq b /\ c # b)
    <2>1. Bad \subseteq SUBSET S /\ Bad # {}
      BY <1>1
    <2> HIDE DEF Bad
    <2> QED BY <2>1, Smallest
  <1>3. CASE b = {}
    <2>1. g[b] = 0 /\ h[b] = 0
      BY <1>3, Equation
    <2> QED BY <2>1
  <1>4. CASE b # {}
    <2> DEFINE c == b \ {Pick(b)}
    <2>1. c \subseteq b /\ c # b
      BY <1>4, PickOne
    <2>2. c \notin Bad
      BY <1>2, <2>1
    <2>3. g[c] = h[c]
      BY <2>1, <2>2
    <2>4. g[b] = f[Pick(b)] + g[c] /\ h[b] = f[Pick(b)] + h[c]
      BY <1>4, Equation
    <2> QED BY <2>3, <2>4
  <1> QED BY <1>3, <1>4

LEMMA Existence ==
  ASSUME NEW f, NEW S, IsFiniteSet(S)
  PROVE  \E g : Sums(f, g, S)
  <1> DEFINE Bad == {b \in SUBSET S : \A g : ~Sums(f, g, b)}
  <1> SUFFICES ASSUME S \in Bad PROVE FALSE
    OBVIOUS
  <1>1. PICK b \in Bad : \A c \in Bad : ~(c \subseteq b /\ c # b)
    <2>1. Bad \subseteq SUBSET S /\ Bad # {}
      OBVIOUS
    <2> HIDE DEF Bad
    <2> QED BY <2>1, Smallest
  <1> DEFINE G(t) == CHOOSE g : Sums(f, g, t)
  <1>2. ASSUME NEW t, t \subseteq b, t # b PROVE Sums(f, G(t), t) /\ IsFiniteSet(t)
    <2>1. t \notin Bad /\ t \in SUBSET S
      BY <1>1, <1>2
    <2>2. \E g : Sums(f, g, t)
      BY <2>1
    <2> QED BY <2>1, <2>2, FS_Subset
  <1> DEFINE value(s) == IF s = {} THEN 0 ELSE f[Pick(s)] + G(s \ {Pick(s)})[s \ {Pick(s)}]
             h == [s \in SUBSET b |-> value(s)]
  <1>3. ASSUME NEW t, t \subseteq b, t # b PROVE h[t] = G(t)[t]
    <2>1. Sums(f, G(t), t) /\ IsFiniteSet(t)
      BY <1>2, <1>3
    <2>2. h[t] = value(t)
      BY <1>3
    <2> HIDE DEF h, G
    <2>3. CASE t = {}
      BY <2>1, <2>2, <2>3, Equation
    <2>4. CASE t # {}
      <3> DEFINE u == t \ {Pick(t)}
      <3>1. u \subseteq t /\ u \subseteq b /\ u # b
        BY <1>3, <2>4, PickOne
      <3>2. Sums(f, G(u), u)
        BY <1>2, <3>1
      <3>3. G(t)[u] = G(u)[u]
        BY <2>1, <3>1, <3>2, Unique
      <3>4. G(t)[t] = f[Pick(t)] + G(t)[u]
        BY <2>1, <2>4, Equation
      <3> QED BY <2>2, <2>4, <3>3, <3>4
    <2> QED BY <2>3, <2>4
  <1>4. ASSUME NEW s \in SUBSET b PROVE h[s] = Partial(f, h, s)
    <2>1. h[s] = value(s)
      OBVIOUS
    <2>2. CASE s = {}
      BY <2>1, <2>2 DEF Partial
    <2>3. CASE s # {}
      <3> DEFINE t == s \ {Pick(s)}
      <3>1. t \subseteq b /\ t # b
        BY <2>3, PickOne
      <3>2. h[t] = G(t)[t]
        BY <1>3, <3>1
      <3> HIDE DEF h, G
      <3> QED BY <2>1, <2>3, <3>2 DEF Partial
    <2> QED BY <2>2, <2>3
  <1>5. Sums(f, h, b)
    <2>1. h = [s \in SUBSET b |-> h[s]]
      OBVIOUS
    <2> HIDE DEF h
    <2> QED BY <1>4, <2>1 DEF Sums
  <1> QED BY <1>5

-------------------------------------------------------------------------------
(* What a sum is.                                                           *)

LEMMA Chosen ==
  ASSUME NEW f, NEW S, IsFiniteSet(S)
  PROVE  \E g : Sums(f, g, S) /\ \A s \in SUBSET S : SumFunctionOnSet(f, s) = g[s]
  <1> DEFINE G(t) == CHOOSE g : Sums(f, g, t)
  <1>1. ASSUME NEW s \in SUBSET S PROVE Sums(f, G(s), s) /\ SumFunctionOnSet(f, s) = G(s)[s]
    <2>1. \E g : Sums(f, g, s)
      BY FS_Subset, Existence
    <2> QED BY <2>1, Definition
  <1>2. Sums(f, G(S), S)
    BY <1>1
  <1> HIDE DEF G
  <1>3. ASSUME NEW s \in SUBSET S PROVE SumFunctionOnSet(f, s) = G(S)[s]
    BY <1>1, <1>2, FS_Subset, Unique
  <1> QED BY <1>2, <1>3

LEMMA SumEmpty ==
  ASSUME NEW f
  PROVE  SumFunctionOnSet(f, {}) = 0
  <1>1. PICK g : Sums(f, g, {}) /\ \A s \in SUBSET {} : SumFunctionOnSet(f, s) = g[s]
    BY Chosen, FS_EmptySet
  <1> QED BY <1>1, Equation

LEMMA SumPick ==
  ASSUME NEW f, NEW S, IsFiniteSet(S), S # {}
  PROVE  SumFunctionOnSet(f, S) = f[Pick(S)] + SumFunctionOnSet(f, S \ {Pick(S)})
  <1>1. PICK g : Sums(f, g, S) /\ \A s \in SUBSET S : SumFunctionOnSet(f, s) = g[s]
    BY Chosen
  <1>2. SumFunctionOnSet(f, S) = g[S] /\ SumFunctionOnSet(f, S \ {Pick(S)}) = g[S \ {Pick(S)}]
    BY <1>1
  <1>3. g[S] = f[Pick(S)] + g[S \ {Pick(S)}]
    BY <1>1, Equation
  <1> QED BY <1>2, <1>3

LEMMA SumInt ==
  ASSUME NEW f, NEW S, IsFiniteSet(S), \A x \in S : f[x] \in Int
  PROVE  SumFunctionOnSet(f, S) \in Int
  <1> DEFINE Bad == {b \in SUBSET S : SumFunctionOnSet(f, b) \notin Int}
  <1> SUFFICES ASSUME S \in Bad PROVE FALSE
    OBVIOUS
  <1>1. PICK b \in Bad : \A c \in Bad : ~(c \subseteq b /\ c # b)
    <2>1. Bad \subseteq SUBSET S /\ Bad # {}
      OBVIOUS
    <2> HIDE DEF Bad
    <2> QED BY <2>1, Smallest
  <1>2. b # {}
    BY SumEmpty
  <1> DEFINE c == b \ {Pick(b)}
  <1>3. c \subseteq b /\ c # b /\ Pick(b) \in S /\ IsFiniteSet(b)
    BY <1>2, PickOne, FS_Subset
  <1>4. SumFunctionOnSet(f, c) \in Int
    BY <1>1, <1>3
  <1>5. SumFunctionOnSet(f, b) = f[Pick(b)] + SumFunctionOnSet(f, c)
    BY <1>2, <1>3, SumPick
  <1>6. f[Pick(b)] \in Int
    BY <1>3
  <1> QED BY <1>4, <1>5, <1>6

\* any element can be taken out first
LEMMA SumSplit ==
  ASSUME NEW f, NEW S, IsFiniteSet(S), \A x \in S : f[x] \in Int, NEW e \in S
  PROVE  SumFunctionOnSet(f, S) = f[e] + SumFunctionOnSet(f, S \ {e})
  <1> DEFINE Splits(b, x) == SumFunctionOnSet(f, b) = f[x] + SumFunctionOnSet(f, b \ {x})
             Bad == {b \in SUBSET S : \E x \in b : ~Splits(b, x)}
  <1> SUFFICES ASSUME S \in Bad PROVE FALSE
    OBVIOUS
  <1>1. PICK b \in Bad : \A c \in Bad : ~(c \subseteq b /\ c # b)
    <2>1. Bad \subseteq SUBSET S /\ Bad # {}
      OBVIOUS
    <2> HIDE DEF Bad
    <2> QED BY <2>1, Smallest
  <1>2. PICK x \in b : ~Splits(b, x)
    BY <1>1
  <1> DEFINE p == Pick(b)
             c == b \ {p}
             d == b \ {x}
             a == b \ {p, x}
  <1>3. b \subseteq S /\ b # {} /\ IsFiniteSet(b) /\ IsFiniteSet(a) /\ a \subseteq S
    BY <1>1, <1>2, FS_Subset
  <1>4. p \in b /\ c \subseteq b /\ c # b /\ d \subseteq b /\ d # b
    BY <1>3, PickOne
  <1>5. Splits(b, p)
    BY <1>3, SumPick
  <1>6. p # x
    BY <1>2, <1>5
  <1>7. x \in c /\ p \in d /\ c \ {x} = a /\ d \ {p} = a
    BY <1>4, <1>6
  <1>8. Splits(c, x) /\ Splits(d, p)
    <2>1. c \notin Bad /\ d \notin Bad /\ c \in SUBSET S /\ d \in SUBSET S
      BY <1>1, <1>3, <1>4
    <2> HIDE DEF Splits, c, d
    <2> QED BY <2>1, <1>7
  <1>9. f[p] \in Int /\ f[x] \in Int /\ SumFunctionOnSet(f, a) \in Int
    BY <1>3, <1>4, SumInt
  <1> DEFINE sum(s) == SumFunctionOnSet(f, s)
  <1>10. /\ sum(b) = f[p] + sum(c) /\ sum(b) # f[x] + sum(d)
         /\ sum(c) = f[x] + sum(a) /\ sum(d) = f[p] + sum(a)
    BY <1>2, <1>5, <1>7, <1>8
  <1>11. sum(a) \in Int
    BY <1>9
  <1> HIDE DEF sum, a, c, d, p
  <1> QED BY <1>9, <1>10, <1>11

\* the sum of functions that agree
LEMMA SumSame ==
  ASSUME NEW f, NEW g, NEW S, IsFiniteSet(S), \A x \in S : f[x] = g[x]
  PROVE  SumFunctionOnSet(f, S) = SumFunctionOnSet(g, S)
  <1> DEFINE Bad == {b \in SUBSET S : SumFunctionOnSet(f, b) # SumFunctionOnSet(g, b)}
  <1> SUFFICES ASSUME S \in Bad PROVE FALSE
    OBVIOUS
  <1>1. PICK b \in Bad : \A c \in Bad : ~(c \subseteq b /\ c # b)
    <2>1. Bad \subseteq SUBSET S /\ Bad # {}
      OBVIOUS
    <2> HIDE DEF Bad
    <2> QED BY <2>1, Smallest
  <1>2. b # {}
    BY SumEmpty
  <1> DEFINE c == b \ {Pick(b)}
  <1>3. c \subseteq b /\ c # b /\ Pick(b) \in S /\ IsFiniteSet(b)
    BY <1>2, PickOne, FS_Subset
  <1>4. SumFunctionOnSet(f, c) = SumFunctionOnSet(g, c)
    BY <1>1, <1>3
  <1>5. /\ SumFunctionOnSet(f, b) = f[Pick(b)] + SumFunctionOnSet(f, c)
        /\ SumFunctionOnSet(g, b) = g[Pick(b)] + SumFunctionOnSet(g, c)
    BY <1>2, <1>3, SumPick
  <1>6. f[Pick(b)] = g[Pick(b)]
    BY <1>3
  <1> QED BY <1>4, <1>5, <1>6

\* the sum of a function that is nowhere above another
LEMMA SumMonotonic ==
  ASSUME NEW f, NEW g, NEW S, IsFiniteSet(S),
         \A x \in S : f[x] \in Int /\ g[x] \in Int /\ f[x] <= g[x]
  PROVE  SumFunctionOnSet(f, S) <= SumFunctionOnSet(g, S)
  <1> DEFINE Bad == {b \in SUBSET S : ~(SumFunctionOnSet(f, b) <= SumFunctionOnSet(g, b))}
  <1> SUFFICES ASSUME S \in Bad PROVE FALSE
    OBVIOUS
  <1>1. PICK b \in Bad : \A c \in Bad : ~(c \subseteq b /\ c # b)
    <2>1. Bad \subseteq SUBSET S /\ Bad # {}
      OBVIOUS
    <2> HIDE DEF Bad
    <2> QED BY <2>1, Smallest
  <1>2. b # {}
    BY SumEmpty
  <1> DEFINE c == b \ {Pick(b)}
  <1>3. /\ c \subseteq b /\ c # b /\ Pick(b) \in S
        /\ IsFiniteSet(b) /\ IsFiniteSet(c) /\ c \subseteq S
    BY <1>2, PickOne, FS_Subset
  <1>4. /\ SumFunctionOnSet(f, c) <= SumFunctionOnSet(g, c)
        /\ SumFunctionOnSet(f, c) \in Int /\ SumFunctionOnSet(g, c) \in Int
    BY <1>1, <1>3, SumInt
  <1>5. /\ SumFunctionOnSet(f, b) = f[Pick(b)] + SumFunctionOnSet(f, c)
        /\ SumFunctionOnSet(g, b) = g[Pick(b)] + SumFunctionOnSet(g, c)
    BY <1>2, <1>3, SumPick
  <1>6. f[Pick(b)] <= g[Pick(b)] /\ f[Pick(b)] \in Int /\ g[Pick(b)] \in Int
    BY <1>3
  <1>7. SumFunctionOnSet(f, b) <= SumFunctionOnSet(g, b)
    BY <1>4, <1>5, <1>6
  <1> QED BY <1>7

\* the sum of natural numbers
LEMMA SumNat ==
  ASSUME NEW f, NEW S, IsFiniteSet(S), \A x \in S : f[x] \in Nat
  PROVE  SumFunctionOnSet(f, S) \in Nat
  <1> DEFINE Bad == {b \in SUBSET S : SumFunctionOnSet(f, b) \notin Nat}
  <1> SUFFICES ASSUME S \in Bad PROVE FALSE
    OBVIOUS
  <1>1. PICK b \in Bad : \A c \in Bad : ~(c \subseteq b /\ c # b)
    <2>1. Bad \subseteq SUBSET S /\ Bad # {}
      OBVIOUS
    <2> HIDE DEF Bad
    <2> QED BY <2>1, Smallest
  <1>2. b # {}
    BY SumEmpty
  <1> DEFINE c == b \ {Pick(b)}
  <1>3. c \subseteq b /\ c # b /\ Pick(b) \in S /\ IsFiniteSet(b)
    BY <1>2, PickOne, FS_Subset
  <1>4. SumFunctionOnSet(f, c) \in Nat
    BY <1>1, <1>3
  <1>5. SumFunctionOnSet(f, b) = f[Pick(b)] + SumFunctionOnSet(f, c)
    BY <1>2, <1>3, SumPick
  <1>6. f[Pick(b)] \in Nat
    BY <1>3
  <1> QED BY <1>4, <1>5, <1>6

\* the terms that change by d
LEMMA SumSubset ==
  ASSUME NEW f, NEW S, IsFiniteSet(S), \A x \in S : f[x] \in Nat, NEW T, T \subseteq S
  PROVE  SumFunctionOnSet(f, T) <= SumFunctionOnSet(f, S)
  <1> DEFINE Bad == {b \in SUBSET S : ~(SumFunctionOnSet(f, T \cap b) <= SumFunctionOnSet(f, b))}
  <1>1. S \notin Bad
    <2> SUFFICES ASSUME S \in Bad PROVE FALSE
      OBVIOUS
    <2>1. PICK b \in Bad : \A c \in Bad : ~(c \subseteq b /\ c # b)
      <3>1. Bad \subseteq SUBSET S /\ Bad # {}
        OBVIOUS
      <3> HIDE DEF Bad
      <3> QED BY <3>1, Smallest
    <2>2. \A c \in SUBSET S : IsFiniteSet(c) /\ SumFunctionOnSet(f, c) \in Nat
      BY FS_Subset, SumNat
    <2>3. CASE b = {}
      <3>1. T \cap b = {}
        BY <2>3
      <3> QED BY <2>1, <2>3, <3>1, SumEmpty
    <2>4. CASE b # {}
      <3>1. PICK p \in b : TRUE
        BY <2>4
      <3> DEFINE c == b \ {p}
      <3>2. c \subseteq b /\ c # b /\ c \in SUBSET S /\ b \in SUBSET S
        BY <2>1, <3>1
      <3>3. SumFunctionOnSet(f, T \cap c) <= SumFunctionOnSet(f, c)
        BY <2>1, <3>2
      <3>4. IsFiniteSet(b) /\ \A x \in b : f[x] \in Int
        BY <2>2, <3>2
      <3>5. SumFunctionOnSet(f, b) = f[p] + SumFunctionOnSet(f, c)
        BY <3>1, <3>4, SumSplit
      <3>6. /\ f[p] \in Nat /\ SumFunctionOnSet(f, c) \in Nat /\ SumFunctionOnSet(f, b) \in Nat
            /\ SumFunctionOnSet(f, T \cap c) \in Nat /\ SumFunctionOnSet(f, T \cap b) \in Nat
        <4>1. T \cap c \in SUBSET S /\ T \cap b \in SUBSET S
          BY <3>2
        <4>2. p \in S
          BY <3>1, <3>2
        <4> HIDE DEF c
        <4> QED BY <2>2, <3>2, <4>1, <4>2
      <3>7. CASE p \in T
        <4>1. p \in T \cap b /\ (T \cap b) \ {p} = T \cap c
          BY <3>1, <3>7
        <4>2. IsFiniteSet(T \cap b) /\ \A x \in T \cap b : f[x] \in Int
          BY <2>2, <3>4, <3>2
        <4>3. SumFunctionOnSet(f, T \cap b) = f[p] + SumFunctionOnSet(f, (T \cap b) \ {p})
          BY <4>1, <4>2, SumSplit
        <4>4. SumFunctionOnSet(f, T \cap b) = f[p] + SumFunctionOnSet(f, T \cap c)
          BY <4>1, <4>3
        <4>5. SumFunctionOnSet(f, T \cap b) <= SumFunctionOnSet(f, b)
          BY <3>3, <3>5, <3>6, <4>4
        <4> QED BY <2>1, <4>5
      <3>8. CASE p \notin T
        <4>1. T \cap b = T \cap c
          BY <3>8
        <4>2. SumFunctionOnSet(f, T \cap b) <= SumFunctionOnSet(f, b)
          <5> DEFINE u == SumFunctionOnSet(f, T \cap c)
                     v == SumFunctionOnSet(f, c)
          <5>1. SumFunctionOnSet(f, T \cap b) = u
            BY <4>1
          <5>2. u \in Nat /\ v \in Nat /\ f[p] \in Nat /\ u <= v /\ SumFunctionOnSet(f, b) = f[p] + v
            BY <3>3, <3>5, <3>6
          <5> HIDE DEF u, v
          <5> QED BY <5>1, <5>2
        <4> QED BY <2>1, <4>2
      <3> QED BY <3>7, <3>8
    <2> QED BY <2>3, <2>4
  <1>2. SumFunctionOnSet(f, T \cap S) <= SumFunctionOnSet(f, S)
    BY <1>1
  <1>3. T \cap S = T
    OBVIOUS
  <1> QED BY <1>2, <1>3

LEMMA SumUpdate ==
  ASSUME NEW f, NEW g, NEW S, IsFiniteSet(S), NEW e \in S,
         \A x \in S : f[x] \in Int /\ g[x] \in Int,
         \A x \in S : x # e => f[x] = g[x]
  PROVE  SumFunctionOnSet(g, S) = SumFunctionOnSet(f, S) + (g[e] - f[e])
  <1> DEFINE T == S \ {e}
  <1>1. IsFiniteSet(T) /\ T \subseteq S
    BY FS_Subset
  <1>2. SumFunctionOnSet(f, T) = SumFunctionOnSet(g, T) /\ SumFunctionOnSet(f, T) \in Int
    BY <1>1, SumSame, SumInt
  <1>3. /\ SumFunctionOnSet(f, S) = f[e] + SumFunctionOnSet(f, T)
        /\ SumFunctionOnSet(g, S) = g[e] + SumFunctionOnSet(g, T)
    BY SumSplit
  <1> QED BY <1>2, <1>3

\* one more element
LEMMA SumAdd ==
  ASSUME NEW f, NEW S, IsFiniteSet(S), NEW e, e \notin S,
         \A x \in S \cup {e} : f[x] \in Int
  PROVE  SumFunctionOnSet(f, S \cup {e}) = SumFunctionOnSet(f, S) + f[e]
  <1>1. IsFiniteSet(S \cup {e}) /\ (S \cup {e}) \ {e} = S
    BY FS_AddElement
  <1>2. SumFunctionOnSet(f, S) \in Int
    BY SumInt
  <1>3. SumFunctionOnSet(f, S \cup {e}) = f[e] + SumFunctionOnSet(f, (S \cup {e}) \ {e})
    BY <1>1, SumSplit
  <1>4. f[e] \in Int
    OBVIOUS
  <1>5. SumFunctionOnSet(f, S \cup {e}) = f[e] + SumFunctionOnSet(f, S)
    BY <1>1, <1>3
  <1> QED BY <1>2, <1>4, <1>5

\* two sets that share nothing
LEMMA SumDisjoint ==
  ASSUME NEW f, NEW A, NEW B, IsFiniteSet(A), IsFiniteSet(B), A \cap B = {},
         \A x \in A \cup B : f[x] \in Int
  PROVE  SumFunctionOnSet(f, A \cup B) = SumFunctionOnSet(f, A) + SumFunctionOnSet(f, B)
  <1> DEFINE sum(s) == SumFunctionOnSet(f, s)
             Bad == {b \in SUBSET B : sum(A \cup b) # sum(A) + sum(b)}
  <1> SUFFICES ASSUME B \in Bad PROVE FALSE
    OBVIOUS
  <1>1. PICK b \in Bad : \A c \in Bad : ~(c \subseteq b /\ c # b)
    <2>1. Bad \subseteq SUBSET B /\ Bad # {}
      OBVIOUS
    <2> HIDE DEF Bad
    <2> QED BY <2>1, Smallest
  <1>2. sum(A) \in Int
    BY SumInt
  <1>10. sum(A \cup b) # sum(A) + sum(b)
    OBVIOUS
  <1>3. ASSUME b = {} PROVE FALSE
    <2>1. A \cup b = A /\ sum(b) = 0
      BY <1>3, SumEmpty
    <2> HIDE DEF sum, Bad
    <2>2. sum(A) # sum(A) + 0
      BY <1>10, <2>1
    <2> QED BY <1>2, <2>2
  <1> DEFINE c == b \ {Pick(b)}
  <1>4. /\ c \subseteq b /\ c # b /\ Pick(b) \in b /\ IsFiniteSet(b) /\ IsFiniteSet(c)
        /\ IsFiniteSet(A \cup b)
    BY <1>3, PickOne, FS_Subset, FS_Union
  <1>5. sum(A \cup c) = sum(A) + sum(c)
    BY <1>1, <1>4
  <1>6. (A \cup b) \ {Pick(b)} = A \cup c
    BY <1>4
  <1>7. \A x \in A \cup b : f[x] \in Int
    OBVIOUS
  <1>8. sum(A \cup b) = f[Pick(b)] + sum((A \cup b) \ {Pick(b)})
    BY <1>4, <1>7, SumSplit
  <1>9. sum(b) = f[Pick(b)] + sum(c) /\ sum(c) \in Int /\ f[Pick(b)] \in Int
    BY <1>4, <1>7, SumSplit, SumInt
  <1> DEFINE p == f[Pick(b)]
             whole == sum(A \cup b)
             rest == sum(A \cup c)
             one == sum(A)
             two == sum(b)
             less == sum(c)
  <1>11. whole = p + rest
    BY <1>6, <1>8
  <1>12. whole # one + two /\ rest = one + less /\ two = p + less
         /\ one \in Int /\ less \in Int /\ p \in Int
    BY <1>2, <1>5, <1>9, <1>10
  <1> HIDE DEF p, whole, rest, one, two, less
  <1> QED BY <1>11, <1>12

\* elements that count for nothing
LEMMA SumZero ==
  ASSUME NEW f, NEW S, IsFiniteSet(S), \A x \in S : f[x] = 0
  PROVE  SumFunctionOnSet(f, S) = 0
  <1> DEFINE Bad == {b \in SUBSET S : SumFunctionOnSet(f, b) # 0}
  <1> SUFFICES ASSUME S \in Bad PROVE FALSE
    OBVIOUS
  <1>1. PICK b \in Bad : \A c \in Bad : ~(c \subseteq b /\ c # b)
    <2>1. Bad \subseteq SUBSET S /\ Bad # {}
      OBVIOUS
    <2> HIDE DEF Bad
    <2> QED BY <2>1, Smallest
  <1>2. b # {}
    BY SumEmpty
  <1> DEFINE c == b \ {Pick(b)}
  <1>3. c \subseteq b /\ c # b /\ Pick(b) \in S /\ IsFiniteSet(b)
    BY <1>2, PickOne, FS_Subset
  <1>4. SumFunctionOnSet(f, c) = 0
    BY <1>1, <1>3
  <1>5. SumFunctionOnSet(f, b) = f[Pick(b)] + SumFunctionOnSet(f, c)
    BY <1>2, <1>3, SumPick
  <1> QED BY <1>3, <1>4, <1>5

\* a larger set whose other elements count for nothing
LEMMA SumSupport ==
  ASSUME NEW f, NEW S, IsFiniteSet(S), NEW T, T \subseteq S,
         \A x \in T : f[x] \in Int, \A x \in S \ T : f[x] = 0
  PROVE  SumFunctionOnSet(f, S) = SumFunctionOnSet(f, T)
  <1>1. IsFiniteSet(T) /\ IsFiniteSet(S \ T) /\ T \cap (S \ T) = {} /\ T \cup (S \ T) = S
    BY FS_Subset
  <1>2. \A x \in T \cup (S \ T) : f[x] \in Int
    OBVIOUS
  <1>3. SumFunctionOnSet(f, T \cup (S \ T)) = SumFunctionOnSet(f, T) + SumFunctionOnSet(f, S \ T)
    BY <1>1, <1>2, SumDisjoint
  <1>4. SumFunctionOnSet(f, S \ T) = 0 /\ SumFunctionOnSet(f, T) \in Int
    BY <1>1, SumZero, SumInt
  <1> QED BY <1>1, <1>3, <1>4

-------------------------------------------------------------------------------
(* One row more, or one less, in a table whose other rows stay as they are. *)

LEMMA SumOneMore ==
  ASSUME NEW f, NEW g, NEW S, IsFiniteSet(S), NEW e, e \notin S, g[e] \in Int,
         \A x \in S : f[x] \in Int /\ g[x] = f[x]
  PROVE  SumFunctionOnSet(g, S \cup {e}) = SumFunctionOnSet(f, S) + g[e]
  <1>1. \A x \in S \cup {e} : g[x] \in Int
    OBVIOUS
  <1>2. SumFunctionOnSet(g, S \cup {e}) = SumFunctionOnSet(g, S) + g[e]
    BY <1>1, SumAdd
  <1>3. SumFunctionOnSet(f, S) = SumFunctionOnSet(g, S)
    BY SumSame
  <1> QED BY <1>2, <1>3

LEMMA SumOneLess ==
  ASSUME NEW f, NEW g, NEW S, IsFiniteSet(S), NEW e \in S, \A x \in S : f[x] \in Int,
         \A x \in S \ {e} : g[x] = f[x]
  PROVE  SumFunctionOnSet(g, S \ {e}) = SumFunctionOnSet(f, S) - f[e]
  <1>1. SumFunctionOnSet(f, S) = f[e] + SumFunctionOnSet(f, S \ {e})
    BY SumSplit
  <1>2. IsFiniteSet(S \ {e})
    BY FS_Subset
  <1>3. SumFunctionOnSet(f, S \ {e}) = SumFunctionOnSet(g, S \ {e})
    BY <1>2, SumSame
  <1>4. SumFunctionOnSet(f, S \ {e}) \in Int /\ f[e] \in Int
    BY <1>2, SumInt
  <1> QED BY <1>1, <1>3, <1>4

=============================================================================
