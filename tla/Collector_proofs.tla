-------------------------- MODULE Collector_proofs --------------------------
(***************************************************************************)
(* What a process collects is what a plain run without hooks, crashes and  *)
(* shards would: its captures, its scores, its reservoirs and its budget,  *)
(* for any model, any number of sites, calls and probes, any layouts, any  *)
(* reuse of ids and any order of gradients.                                *)
(*                                                                         *)
(* The invariants build on one another:                                    *)
(*   IInv   the forward pass: tensors, host copies and captures            *)
(*   CInv   ... with the types, and where each pinned byte is              *)
(*   SInv   ... with what is scored so far, and what is counted            *)
(*   RInv   ... with what every reservoir was fed, and by whom             *)
(* Sums over intervals and what a fold has computed are had by induction:  *)
(* NatSetInduction, of which a set with a table for each number is taken.  *)
(***************************************************************************)
EXTENDS Collector, FiniteSetTheorems, SequenceTheorems,
        WellFoundedInduction, TLAPS

-----------------------------------------------------------------------------
\* Induction over data, as a fact about sets: a set of numbers that has zero,
\* and with every number the next one, has them all.
LEMMA NatSetInduction ==
  ASSUME NEW S, 0 \in S, \A n \in Nat : n \in S => n + 1 \in S
  PROVE  Nat \subseteq S
<1> DEFINE T == Nat \ S
<1>1. SUFFICES ASSUME T # {} PROVE FALSE
  OBVIOUS
<1>2. PICK x \in T : \A y \in T : ~(<<y, x>> \in OpToRel(<, Nat))
  <2>1. IsWellFoundedOn(OpToRel(<, Nat), Nat)
    BY NatLessThanWellFounded
  <2>2. T \subseteq Nat
    OBVIOUS
  <2> HIDE DEF T
  <2>. QED
    BY <1>1, <2>1, <2>2, WFMin
<1>3. x \in Nat /\ x # 0 /\ x - 1 \in Nat
  OBVIOUS
<1>4. x - 1 \in T
  BY <1>3
<1>5. <<x - 1, x>> \in OpToRel(<, Nat)
  BY <1>3 DEF OpToRel
<1>. QED
  BY <1>2, <1>4, <1>5

-----------------------------------------------------------------------------
\* Sums.  SumFunctionOnSet takes some element out at a time; g is the table of
\* the sums over the sets in D that it computes.
Taken(s) == CHOOSE x \in s : TRUE
IsSumTable(g, f, D) ==
  g = [s \in D |-> IF s = {} THEN 0 ELSE f[Taken(s)] + g[s \ {Taken(s)}]]

\* One element less.
LEMMA Smaller ==
  ASSUME NEW S, IsFiniteSet(S), NEW y \in S
  PROVE  /\ IsFiniteSet(S \ {y}) /\ Cardinality(S) \in Nat
         /\ Cardinality(S \ {y}) \in Nat /\ Cardinality(S) = Cardinality(S \ {y}) + 1
<1>1. IsFiniteSet(S \ {y}) /\ Cardinality(S \ {y}) = Cardinality(S) - 1
  BY FS_RemoveElement
<1>2. Cardinality(S) \in Nat /\ Cardinality(S \ {y}) \in Nat
  BY <1>1, FS_CardinalityType
<1>. QED
  BY <1>1, <1>2

LEMMA SumTableExists ==
  ASSUME NEW f, NEW S, IsFiniteSet(S)
  PROVE  \E g : IsSumTable(g, f, SUBSET S)
<1> DEFINE Small(n) == {s \in SUBSET S : Cardinality(s) <= n}
           N == {n \in Nat : \E g : IsSumTable(g, f, Small(n))}
<1>1. \A s \in SUBSET S : IsFiniteSet(s) /\ Cardinality(s) \in Nat
  BY FS_Subset, FS_CardinalityType
<1>2. 0 \in N
  <2>1. \A s \in Small(0) : s = {}
    BY <1>1, FS_EmptySet
  <2>2. IsSumTable([s \in Small(0) |-> 0], f, Small(0))
    BY <2>1 DEF IsSumTable
  <2>. QED
    BY <2>2
<1>3. ASSUME NEW n \in Nat, n \in N PROVE n + 1 \in N
  <2>1. PICK g : IsSumTable(g, f, Small(n))
    BY <1>3
  <2> DEFINE h == [s \in Small(n + 1) |->
                     IF s = {} THEN 0 ELSE f[Taken(s)] + g[s \ {Taken(s)}]]
  <2>2. ASSUME NEW s \in Small(n) PROVE s \in Small(n + 1) /\ h[s] = g[s]
    <3>1. s \in Small(n + 1)
      BY <1>1
    <3>2. g[s] = IF s = {} THEN 0 ELSE f[Taken(s)] + g[s \ {Taken(s)}]
      BY <2>1 DEF IsSumTable
    <3>. QED
      BY <3>1, <3>2
  <2>3. ASSUME NEW s \in Small(n + 1), s # {}
        PROVE  s \ {Taken(s)} \in Small(n)
    <3>1. Taken(s) \in s
      BY <2>3 DEF Taken
    <3>. QED
      BY <1>1, <2>3, <3>1, Smaller
  <2>4. IsSumTable(h, f, Small(n + 1))
    BY <2>2, <2>3 DEF IsSumTable
  <2>. QED
    BY <2>4
<1>4. Nat \subseteq N
  <2> HIDE DEF N
  <2>. QED
    BY <1>2, <1>3, NatSetInduction
<1>5. Small(Cardinality(S)) = SUBSET S
  BY FS_Subset, FS_CardinalityType
<1>6. Cardinality(S) \in N
  BY <1>4, FS_CardinalityType
<1>. QED
  BY <1>5, <1>6

LEMMA SumFromTable ==
  ASSUME NEW f, NEW S, IsFiniteSet(S)
  PROVE  \E g : IsSumTable(g, f, SUBSET S) /\ SumFunctionOnSet(f, S) = g[S]
<1> DEFINE G == CHOOSE g : IsSumTable(g, f, SUBSET S)
<1>1. IsSumTable(G, f, SUBSET S)
  BY SumTableExists
<1>2. SumFunctionOnSet(f, S) = G[S]
  BY DEF SumFunctionOnSet, FoldFunctionOnSet, MapThenFoldSet, IsSumTable, Taken
<1>. QED
  BY <1>1, <1>2

\* Two tables agree where the functions they sum do.
LEMMA TablesAgree ==
  ASSUME NEW U, IsFiniteSet(U), NEW f, NEW e, \A x \in U : f[x] = e[x],
         NEW D, NEW g, IsSumTable(g, f, D), SUBSET U \subseteq D,
         NEW E, NEW h, IsSumTable(h, e, E), SUBSET U \subseteq E
  PROVE  g[U] = h[U]
<1> DEFINE N == {n \in Nat : \A s \in SUBSET U : Cardinality(s) = n => g[s] = h[s]}
<1>1. \A s \in SUBSET U : IsFiniteSet(s) /\ Cardinality(s) \in Nat
  BY FS_Subset, FS_CardinalityType
<1>2. 0 \in N
  BY <1>1, FS_EmptySet DEF IsSumTable
<1>3. ASSUME NEW n \in Nat, n \in N PROVE n + 1 \in N
  <2>1. ASSUME NEW s \in SUBSET U, Cardinality(s) = n + 1 PROVE g[s] = h[s]
    <3>1. s # {}
      BY <2>1, FS_EmptySet
    <3>2. Taken(s) \in s
      BY <3>1 DEF Taken
    <3>3. Cardinality(s \ {Taken(s)}) = n
      BY <1>1, <2>1, <3>2, Smaller
    <3>4. g[s \ {Taken(s)}] = h[s \ {Taken(s)}]
      BY <1>3, <3>3
    <3>5. g[s] = f[Taken(s)] + g[s \ {Taken(s)}]
      BY <3>1 DEF IsSumTable
    <3>6. h[s] = e[Taken(s)] + h[s \ {Taken(s)}]
      BY <3>1 DEF IsSumTable
    <3>. QED
      BY <3>2, <3>4, <3>5, <3>6
  <2>. QED
    BY <2>1
<1>4. Nat \subseteq N
  <2> HIDE DEF N
  <2>. QED
    BY <1>2, <1>3, NatSetInduction
<1>. QED
  BY <1>1, <1>4

LEMMA SumsAgree ==
  ASSUME NEW S, IsFiniteSet(S), NEW f, NEW e, \A x \in S : f[x] = e[x]
  PROVE  SumFunctionOnSet(f, S) = SumFunctionOnSet(e, S)
<1>1. PICK g : IsSumTable(g, f, SUBSET S) /\ SumFunctionOnSet(f, S) = g[S]
  BY SumFromTable
<1>2. PICK h : IsSumTable(h, e, SUBSET S) /\ SumFunctionOnSet(e, S) = h[S]
  BY SumFromTable
<1>3. g[S] = h[S]
  BY <1>1, <1>2, TablesAgree
<1>. QED
  BY <1>1, <1>2, <1>3

LEMMA SumOfNone ==
  ASSUME NEW f
  PROVE  SumFunctionOnSet(f, {}) = 0
<1>1. PICK g : IsSumTable(g, f, SUBSET {}) /\ SumFunctionOnSet(f, {}) = g[{}]
  BY SumFromTable, FS_EmptySet
<1>. QED
  BY <1>1 DEF IsSumTable

LEMMA SumTakes ==
  ASSUME NEW f, NEW S, IsFiniteSet(S), S # {}
  PROVE  /\ Taken(S) \in S
         /\ SumFunctionOnSet(f, S) = f[Taken(S)] + SumFunctionOnSet(f, S \ {Taken(S)})
<1> DEFINE T == S \ {Taken(S)}
<1>1. Taken(S) \in S
  BY DEF Taken
<1>2. IsFiniteSet(T)
  BY FS_Subset
<1>3. PICK g : IsSumTable(g, f, SUBSET S) /\ SumFunctionOnSet(f, S) = g[S]
  BY SumFromTable
<1>4. PICK h : IsSumTable(h, f, SUBSET T) /\ SumFunctionOnSet(f, T) = h[T]
  BY <1>2, SumFromTable
<1>5. g[S] = f[Taken(S)] + g[T]
  BY <1>3 DEF IsSumTable
<1>6. g[T] = h[T]
  <2> DEFINE D == SUBSET S
             E == SUBSET T
  <2>1. SUBSET T \subseteq D /\ SUBSET T \subseteq E /\ \A x \in T : f[x] = f[x]
    OBVIOUS
  <2>2. IsSumTable(g, f, D) /\ IsSumTable(h, f, E)
    BY <1>3, <1>4
  <2> HIDE DEF T, D, E
  <2>. QED
    BY <2>1, <2>2, <1>2, TablesAgree
<1>. QED
  BY <1>1, <1>3, <1>4, <1>5, <1>6

LEMMA SumIsNat ==
  ASSUME NEW f, NEW S, IsFiniteSet(S), \A x \in S : f[x] \in Nat
  PROVE  SumFunctionOnSet(f, S) \in Nat
<1> DEFINE N == {n \in Nat : \A s \in SUBSET S : Cardinality(s) = n =>
                               SumFunctionOnSet(f, s) \in Nat}
<1>1. \A s \in SUBSET S : IsFiniteSet(s) /\ Cardinality(s) \in Nat
  BY FS_Subset, FS_CardinalityType
<1>2. 0 \in N
  BY <1>1, FS_EmptySet, SumOfNone
<1>3. ASSUME NEW n \in Nat, n \in N PROVE n + 1 \in N
  <2>1. ASSUME NEW s \in SUBSET S, Cardinality(s) = n + 1
        PROVE  SumFunctionOnSet(f, s) \in Nat
    <3>1. s # {}
      BY <2>1, FS_EmptySet
    <3>2. Taken(s) \in s
          /\ SumFunctionOnSet(f, s) = f[Taken(s)] + SumFunctionOnSet(f, s \ {Taken(s)})
      BY <1>1, <3>1, SumTakes
    <3>3. Cardinality(s \ {Taken(s)}) = n
      BY <1>1, <2>1, <3>2, Smaller
    <3>4. SumFunctionOnSet(f, s \ {Taken(s)}) \in Nat
      BY <1>3, <3>3
    <3>. QED
      BY <3>2, <3>4
  <2>. QED
    BY <2>1
<1>4. Nat \subseteq N
  <2> HIDE DEF N
  <2>. QED
    BY <1>2, <1>3, NatSetInduction
<1>. QED
  BY <1>1, <1>4

\* The order does not matter: any element may be taken out.
LEMMA SumTakesAny ==
  ASSUME NEW f, NEW S, IsFiniteSet(S), \A x \in S : f[x] \in Nat, NEW y \in S
  PROVE  SumFunctionOnSet(f, S) = f[y] + SumFunctionOnSet(f, S \ {y})
<1> DEFINE Sum(s) == SumFunctionOnSet(f, s)
           N == {n \in Nat : \A s \in SUBSET S : Cardinality(s) = n =>
                               \A x \in s : Sum(s) = f[x] + Sum(s \ {x})}
<1>1. \A s \in SUBSET S : IsFiniteSet(s) /\ Cardinality(s) \in Nat
  BY FS_Subset, FS_CardinalityType
<1>2. \A s \in SUBSET S : Sum(s) \in Nat
  BY <1>1, SumIsNat
<1>3. 0 \in N
  BY <1>1, FS_EmptySet
<1>4. ASSUME NEW n \in Nat, n \in N PROVE n + 1 \in N
  <2>1. ASSUME NEW s \in SUBSET S, Cardinality(s) = n + 1, NEW x \in s
        PROVE  Sum(s) = f[x] + Sum(s \ {x})
    <3> DEFINE c == Taken(s)
    <3>1. c \in s /\ Sum(s) = f[c] + Sum(s \ {c})
      BY <1>1, <2>1, SumTakes
    <3> HIDE DEF c, Sum
    <3>2. CASE x # c
      <4>1. Cardinality(s \ {c}) = n /\ Cardinality(s \ {x}) = n
        BY <1>1, <2>1, <3>1, Smaller
      <4>2. Sum(s \ {c}) = f[x] + Sum((s \ {c}) \ {x})
        BY <1>4, <2>1, <3>2, <4>1
      <4>3. Sum(s \ {x}) = f[c] + Sum((s \ {x}) \ {c})
        BY <1>4, <3>1, <3>2, <4>1
      <4>4. (s \ {c}) \ {x} = (s \ {x}) \ {c}
        OBVIOUS
      <4>5. /\ f[x] \in Nat /\ f[c] \in Nat
            /\ Sum(s \ {c}) \in Nat /\ Sum(s \ {x}) \in Nat /\ Sum((s \ {x}) \ {c}) \in Nat
        BY <1>2, <2>1, <3>1
      <4>6. Sum((s \ {c}) \ {x}) = Sum((s \ {x}) \ {c})
        BY <4>4
      <4>. QED
        BY <3>1, <4>2, <4>3, <4>5, <4>6
    <3>. QED
      BY <3>1, <3>2
  <2>. QED
    BY <2>1
<1>5. Nat \subseteq N
  <2> HIDE DEF N
  <2>. QED
    BY <1>3, <1>4, NatSetInduction
<1>. QED
  BY <1>1, <1>5

\* The same of the sum over the domain.
LEMMA SumNat ==
  ASSUME NEW f, IsFiniteSet(DOMAIN f), \A x \in DOMAIN f : f[x] \in Nat
  PROVE  SumFunction(f) \in Nat
BY SumIsNat DEF SumFunction

LEMMA SumSplit ==
  ASSUME NEW f, IsFiniteSet(DOMAIN f), \A x \in DOMAIN f : f[x] \in Nat, NEW y \in DOMAIN f
  PROVE  SumFunction(f) = f[y] + SumFunction([x \in DOMAIN f \ {y} |-> f[x]])
<1> DEFINE S == DOMAIN f \ {y}
           e == [x \in S |-> f[x]]
<1>1. SumFunctionOnSet(f, DOMAIN f) = f[y] + SumFunctionOnSet(f, S)
  BY SumTakesAny
<1>2. IsFiniteSet(S)
  BY FS_Subset
<1>3. SumFunctionOnSet(f, S) = SumFunctionOnSet(e, S)
  BY <1>2, SumsAgree
<1>. QED
  BY <1>1, <1>3 DEF SumFunction

LEMMA SumZero ==
  ASSUME NEW f, IsFiniteSet(DOMAIN f), \A x \in DOMAIN f : f[x] = 0
  PROVE  SumFunction(f) = 0
<1> DEFINE S == DOMAIN f
           N == {n \in Nat : \A s \in SUBSET S : Cardinality(s) = n =>
                               SumFunctionOnSet(f, s) = 0}
<1>1. \A s \in SUBSET S : IsFiniteSet(s) /\ Cardinality(s) \in Nat
  BY FS_Subset, FS_CardinalityType
<1>2. 0 \in N
  BY <1>1, FS_EmptySet, SumOfNone
<1>3. ASSUME NEW n \in Nat, n \in N PROVE n + 1 \in N
  <2>1. ASSUME NEW s \in SUBSET S, Cardinality(s) = n + 1
        PROVE  SumFunctionOnSet(f, s) = 0
    <3>1. s # {}
      BY <2>1, FS_EmptySet
    <3>2. Taken(s) \in s
          /\ SumFunctionOnSet(f, s) = f[Taken(s)] + SumFunctionOnSet(f, s \ {Taken(s)})
      BY <1>1, <3>1, SumTakes
    <3>3. Cardinality(s \ {Taken(s)}) = n
      BY <1>1, <2>1, <3>2, Smaller
    <3>4. SumFunctionOnSet(f, s \ {Taken(s)}) = 0
      BY <1>3, <3>3
    <3>. QED
      BY <3>2, <3>4
  <2>. QED
    BY <2>1
<1>4. Nat \subseteq N
  <2> HIDE DEF N
  <2>. QED
    BY <1>2, <1>3, NatSetInduction
<1>. QED
  BY <1>1, <1>4 DEF SumFunction

-----------------------------------------------------------------------------
\* Positions, sites and calls.

LEMMA Division ==
  ASSUME NEW L \in Nat \ {0}, NEW x \in Nat
  PROVE  x \div L \in Nat /\ x % L \in 0 .. L - 1 /\ x = (x \div L) * L + (x % L)
<1>1. x \div L \in Nat /\ x % L \in 0 .. L - 1
  BY Z3
<1>2. x = (x \div L) * L + (x % L)
  BY Z3
<1>. QED
  BY <1>1, <1>2

LEMMA OneQuotient ==
  ASSUME NEW L \in Nat \ {0}, NEW q \in Nat, NEW r \in 0 .. L - 1, NEW p \in Nat,
         NEW s \in 0 .. L - 1, q * L + r = p * L + s
  PROVE  q = p /\ r = s
<1>1. ASSUME NEW a \in Nat, NEW b \in Nat, a < b PROVE b * L >= a * L + L
  <2>1. PICK c \in Nat : b = a + 1 + c
    <3>1. b - a - 1 \in Nat /\ b = a + 1 + (b - a - 1)
      BY <1>1
    <3>. QED
      BY <3>1
  <2>2. b * L = a * L + L + c * L
    BY <2>1
  <2>3. c * L \in Nat /\ a * L \in Nat
    OBVIOUS
  <2>. QED
    BY <2>2, <2>3
<1>2. q * L \in Nat /\ p * L \in Nat
  OBVIOUS
<1>3. ~(q < p) /\ ~(p < q)
  BY <1>1, <1>2
<1>. QED
  BY <1>2, <1>3

LEMMA PositionFacts ==
  /\ Len(Site) \in Nat \ {0} /\ NumCalls \in Nat \ {0} /\ 1 \in Position
  /\ \A p \in Position : p \in Nat /\ p >= 1 /\ (p > 1 => p - 1 \in Position)
<1>1. Len(Site) \in Nat \ {0} /\ NumCalls \in Nat \ {0}
  BY CollectorAssumption
<1>2. NumCalls * Len(Site) \in Nat /\ NumCalls * Len(Site) >= 1
  BY <1>1
<1>. QED
  BY <1>1, <1>2 DEF Position

LEMMA KeyAt ==
  ASSUME NEW p \in Position
  PROVE  /\ SiteAt(p) \in SiteIndex /\ CallAt(p) \in Nat
         /\ PositionOf(<<SiteAt(p), CallAt(p)>>) = p
<1> DEFINE L == Len(Site)
           q == (p - 1) \div L
           r == (p - 1) % L
<1>1. p - 1 \in Nat /\ L \in Nat \ {0}
  BY PositionFacts
<1>2. q \in Nat /\ r \in 0 .. L - 1 /\ p - 1 = q * L + r
  BY <1>1, Division
<1>3. SiteAt(p) = r + 1 /\ CallAt(p) = q
  BY DEF SiteAt, CallAt
<1>4. PositionOf(<<SiteAt(p), CallAt(p)>>) = q * L + (r + 1)
  BY <1>3 DEF PositionOf
<1>5. SiteIndex = 1 .. L
  BY CollectorAssumption
<1> HIDE DEF q, r, L
<1>6. q * L \in Nat
  BY <1>1, <1>2
<1>7. q * L + (r + 1) = p
  BY <1>1, <1>2, <1>6, PositionFacts
<1>8. r + 1 \in 1 .. L
  BY <1>1, <1>2
<1>. QED
  BY <1>2, <1>3, <1>4, <1>5, <1>7, <1>8

\* Only the first site of a call comes with another call.
LEMMA SameCall ==
  ASSUME NEW p \in Position, p + 1 \in Position, SiteAt(p + 1) # 1
  PROVE  CallAt(p + 1) = CallAt(p)
<1> DEFINE L == Len(Site)
           q == (p - 1) \div L
           r == (p - 1) % L
           q1 == p \div L
           r1 == p % L
<1>1. p - 1 \in Nat /\ p \in Nat /\ L \in Nat \ {0}
  BY PositionFacts
<1>2. q \in Nat /\ r \in 0 .. L - 1 /\ p - 1 = q * L + r
  BY <1>1, Division
<1>3. q1 \in Nat /\ r1 \in 0 .. L - 1 /\ p = q1 * L + r1
  BY <1>1, Division
<1>4. SiteAt(p + 1) = r1 + 1 /\ CallAt(p + 1) = q1 /\ CallAt(p) = q
  BY <1>1 DEF SiteAt, CallAt
<1> HIDE DEF q, r, q1, r1, L
<1>5. r1 # 0
  BY <1>3, <1>4
<1>6. q * L \in Nat /\ q1 * L \in Nat
  BY <1>1, <1>2, <1>3
<1>7. r1 - 1 \in 0 .. L - 1 /\ q * L + r = q1 * L + (r1 - 1)
  BY <1>1, <1>2, <1>3, <1>5, <1>6
<1>8. q = q1
  BY <1>1, <1>2, <1>3, <1>7, OneQuotient
<1>. QED
  BY <1>4, <1>8

LEMMA FirstSite == SiteAt(1) = 1
<1> DEFINE L == Len(Site)
           q == 0 \div L
           r == 0 % L
<1>1. L \in Nat \ {0} /\ q \in Nat /\ r \in 0 .. L - 1 /\ 0 = q * L + r
  BY PositionFacts, Division
<1>2. SiteAt(1) = r + 1
  BY DEF SiteAt
<1> HIDE DEF q, r, L
<1>3. q * L \in Nat
  BY <1>1
<1>. QED
  BY <1>1, <1>2, <1>3

LEMMA FirstFed == HowFed(1) \notin {"same", "written"}
BY FirstSite DEF HowFed

\* Where the content of an input comes from.
LEMMA Origins ==
  ASSUME NEW p \in Position
  PROVE  /\ HowFed(p) \in {"new", "written"} => Origin(p) = p
         /\ HowFed(p) = "context" => Origin(p) = 0
         /\ HowFed(p) = "same" /\ p > 1 => Origin(p) = Origin(p - 1)
<1>1. p \in Nat /\ p >= 1
  BY PositionFacts
<1>2. CASE HowFed(p) # "same"
  <2>1. p \in LastFed(p) /\ \A q \in LastFed(p) : q = p
    BY <1>1, <1>2 DEF LastFed
  <2>2. (CHOOSE q \in LastFed(p) : TRUE) = p
    BY <2>1
  <2>. QED
    BY <1>2, <2>2 DEF Origin
<1>3. CASE HowFed(p) = "same" /\ p > 1
  <2>1. LastFed(p) = LastFed(p - 1)
    <3>1. ASSUME NEW q \in LastFed(p) PROVE q \in LastFed(p - 1)
      BY <1>1, <1>3 DEF LastFed
    <3>2. ASSUME NEW q \in LastFed(p - 1) PROVE q \in LastFed(p)
      <4>1. /\ q \in 1 .. p - 1 /\ HowFed(q) # "same"
            /\ \A r \in q + 1 .. p - 1 : HowFed(r) = "same"
        BY DEF LastFed
      <4>2. \A r \in q + 1 .. p : r = p \/ r \in q + 1 .. p - 1
        BY <1>1, <4>1
      <4>. QED
        BY <1>1, <1>3, <4>1, <4>2 DEF LastFed
    <3>. QED
      BY <3>1, <3>2
  <2>. QED
    BY <1>3, <2>1 DEF Origin
<1>. QED
  BY <1>2, <1>3

-----------------------------------------------------------------------------
\* The invariant: what the live tensors and the host copies are while the
\* trajectory runs forward.

\* Inputs made so far in this trajectory.
Made == IF pc = "linear" THEN at ELSE at - 1

Live(i) == tensors[i] # None \/ (Made > 0 /\ i = input)

\* A tensor of this trajectory, from one of its first n positions.
IsTensor(x, n) ==
  /\ x = [object |-> x.object, version |-> x.version, content |-> x.content]
  /\ x.version \in Nat
  /\ \E q \in 0 .. n : x.object = <<done, probe, q>>

\* A host copy is of this trajectory, and as old as its tensor or older; when
\* it is as old it has the same content.
Copied(i) ==
  /\ \E q \in 0 .. at - 1 : offloads[i].object = <<done, probe, q>>
  /\ Live(i) /\ offloads[i].object = tensors[i].object =>
       /\ offloads[i].version \in 0 .. tensors[i].version
       /\ offloads[i].version = tensors[i].version => offloads[i].host = tensors[i].content

Forward ==
  pc \in {"input", "linear"} =>
    /\ at \in Position
    /\ Made > 0 => input \in Id /\ tensors[input].content = Content(Current, Made)
    /\ pc = "linear" \/ SiteAt(at) # 1 => call = CallAt(at) /\ call \in Call
    /\ \A i \in Id : Live(i) => IsTensor(tensors[i], Made)
    /\ \A i \in Id : offloads[i] # None => Copied(i)

Domains == DOMAIN tensors = Id /\ DOMAIN offloads = Id /\ DOMAIN captures = Key

IInv == Domains /\ Forward /\ CapturesFaithful

-----------------------------------------------------------------------------
LEMMA InitHolds == Init => IInv
BY DEF Init, IInv, Domains, Forward, CapturesFaithful, NoTensor, NoCapture

LEMMA BeginStep ==
  ASSUME IInv, BeginProbe
  PROVE  IInv'
<1>1. /\ pc' = "input" /\ at' = 1 /\ captures' = NoCapture /\ offloads' = NoTensor
      /\ UNCHANGED <<shard, done, probe, call, input, setting>>
  BY DEF BeginProbe, scores, collected, disk, offloading
<1>2. PICK i \in Id : tensors' =
        [NoTensor EXCEPT ![i] =
           [object |-> <<done, probe, 0>>, version |-> 0, content |-> <<Current, 0>>]]
  BY DEF BeginProbe
<1>3. Domains'
  BY <1>1, <1>2 DEF Domains, NoTensor, NoCapture
<1>4. CapturesFaithful'
  BY <1>1 DEF CapturesFaithful, NoCapture
<1>5. Made' = 0
  BY <1>1 DEF Made
<1>6. SiteAt(1) = 1
  BY FirstSite
<1>7. ASSUME NEW j \in Id, Live(j)'
      PROVE  IsTensor(tensors[j], Made)'
  <2>1. j = i
    BY <1>2, <1>5, <1>7 DEF Live, NoTensor
  <2>2. tensors'[j] =
          [object |-> <<done, probe, 0>>, version |-> 0, content |-> <<Current, 0>>]
    BY <1>2, <2>1 DEF NoTensor
  <2>. QED
    BY <1>1, <1>5, <2>2 DEF IsTensor
<1>8. Forward'
  <2>1. \A j \in Id : offloads'[j] = None
    BY <1>1 DEF NoTensor
  <2>. QED
    BY <1>1, <1>5, <1>6, <1>7, <2>1, PositionFacts DEF Forward
<1>. QED
  BY <1>3, <1>4, <1>8 DEF IInv

\* The next input: its content, and nothing else of consequence.
LEMMA InputStep ==
  ASSUME IInv, NextInput
  PROVE  IInv'
<1>1. /\ pc = "input" /\ pc' = "linear" /\ CallAt(at) \in Call
      /\ call' = IF SiteAt(at) = 1 THEN CallAt(at) ELSE call
      /\ UNCHANGED <<setting, shard, done, probe, at, captures, offloads>>
  BY DEF NextInput, hooked
<1>2. /\ at \in Position /\ at \in Nat /\ at >= 1 /\ Made = at - 1 /\ Made' = at
      /\ (at > 1 => input \in Id /\ tensors[input].content = Content(Current, at - 1))
      /\ (SiteAt(at) # 1 => call = CallAt(at))
      /\ \A i \in Id : Live(i) => IsTensor(tensors[i], at - 1)
      /\ \A i \in Id : offloads[i] # None => Copied(i)
  BY <1>1, PositionFacts DEF IInv, Forward, Made
<1>3. call' = CallAt(at) /\ call' \in Call
  BY <1>1, <1>2
<1>4. Current' = Current
  BY <1>1 DEF Current
<1>5. \A x : IsTensor(x, at - 1) => IsTensor(x, at)
  BY <1>2 DEF IsTensor
<1>6. \A x, n : IsTensor(x, n)' <=> IsTensor(x, n)
  BY <1>1 DEF IsTensor
<1>7. \A o, p : Content(o, p)' = Content(o, p)
  BY <1>1 DEF Content, Origin, LastFed, HowFed
\* In each case: the input has its content, and what lives is a tensor that
\* its host copy, if there is one, is of.
<1>8. /\ DOMAIN tensors' = Id /\ input' \in Id
      /\ tensors'[input'].content = Content(Current, at)
      /\ \A i \in Id : tensors'[i] # None \/ i = input' =>
           /\ IsTensor(tensors'[i], at)
           /\ offloads[i] # None /\ offloads[i].object = tensors'[i].object =>
                /\ offloads[i].version \in 0 .. tensors'[i].version
                /\ offloads[i].version = tensors'[i].version =>
                     offloads[i].host = tensors'[i].content
  <2>1. CASE /\ HowFed(at) = "new"
             /\ \E kept \in SUBSET {i \in Id : tensors[i] # None} : \E i \in Id \ kept :
                  /\ input' = i
                  /\ tensors' = [j \in Id |->
                       IF j = i THEN [object |-> <<done, probe, at>>, version |-> 0,
                                      content |-> <<Current, at>>]
                       ELSE IF j \in kept THEN tensors[j] ELSE None]
    <3>0. PICK kept \in SUBSET {i \in Id : tensors[i] # None} : \E i \in Id \ kept :
            /\ input' = i
            /\ tensors' = [j \in Id |->
                 IF j = i THEN [object |-> <<done, probe, at>>, version |-> 0,
                                content |-> <<Current, at>>]
                 ELSE IF j \in kept THEN tensors[j] ELSE None]
      BY <2>1
    <3>1. PICK i \in Id \ kept :
            /\ input' = i
            /\ tensors' = [j \in Id |->
                 IF j = i THEN [object |-> <<done, probe, at>>, version |-> 0,
                                content |-> <<Current, at>>]
                 ELSE IF j \in kept THEN tensors[j] ELSE None]
      BY <3>0
    <3> DEFINE x == tensors'[i]
    <3>2. x = [object |-> <<done, probe, at>>, version |-> 0, content |-> <<Current, at>>]
      BY <3>1
    <3> HIDE DEF x
    <3>3. x.object = <<done, probe, at>> /\ x.content = <<Current, at>> /\ IsTensor(x, at)
      BY <1>2, <3>2 DEF IsTensor
    <3>4. x.content = Content(Current, at)
      BY <1>2, <2>1, <3>3, Origins DEF Content
    <3>5. offloads[i] # None => offloads[i].object # x.object
      BY <1>2, <3>1, <3>3 DEF Copied
    <3>6. ASSUME NEW j \in Id, j # i, tensors'[j] # None
          PROVE  tensors'[j] = tensors[j] /\ Live(j)
      BY <3>1, <3>6 DEF Live
    <3>. QED
      BY <1>2, <1>5, <3>1, <3>3, <3>4, <3>5, <3>6 DEF Copied, x
  <2>2. CASE HowFed(at) = "same" /\ UNCHANGED <<tensors, input>>
    <3>1. at > 1
      BY <1>2, <2>2, FirstFed
    <3>2. Content(Current, at) = Content(Current, at - 1)
      BY <1>2, <2>2, <3>1, Origins DEF Content
    <3>3. \A i \in Id : tensors'[i] # None \/ i = input' => Live(i)
      BY <1>2, <2>2, <3>1 DEF Live
    <3>. QED
      BY <1>2, <1>5, <2>2, <3>1, <3>2, <3>3 DEF Copied, IInv, Domains
  <2>3. CASE /\ HowFed(at) = "written"
             /\ tensors' = [tensors EXCEPT ![input] =
                  [object |-> @.object, version |-> @.version + 1,
                   content |-> <<Current, at>>]]
             /\ UNCHANGED input
    <3> DEFINE t == tensors[input]
               x == tensors'[input]
    <3>1. at > 1 /\ input \in Id /\ Live(input)
      BY <1>2, <2>3, FirstFed DEF Live
    <3>2. IsTensor(t, at - 1)
      BY <1>2, <3>1
    <3>5. x = [object |-> t.object, version |-> t.version + 1, content |-> <<Current, at>>]
      BY <2>3, <3>1 DEF IInv, Domains
    <3>4. \A j \in Id : j # input => tensors'[j] = tensors[j]
      BY <2>3 DEF IInv, Domains
    <3> HIDE DEF t, x
    <3>6. x.object = t.object /\ x.version = t.version + 1 /\ x.content = <<Current, at>>
      BY <3>5
    <3>7. t.version \in Nat /\ IsTensor(x, at)
      BY <1>2, <3>2, <3>5, <3>6 DEF IsTensor
    <3>8. x.content = Content(Current, at)
      BY <1>2, <2>3, <3>6, Origins DEF Content
    <3>9. offloads[input] # None /\ offloads[input].object = x.object =>
            offloads[input].version \in 0 .. t.version
      BY <1>2, <3>1, <3>6 DEF Copied, t
    <3>10. \A j \in Id : j # input /\ tensors'[j] # None => Live(j)
      BY <3>4 DEF Live
    <3>11. DOMAIN tensors' = Id
      BY <2>3 DEF IInv, Domains
    <3>. QED
      BY <1>2, <1>5, <2>3, <3>1, <3>4, <3>6, <3>7, <3>8, <3>9, <3>10, <3>11 DEF Copied, x
  <2>4. CASE /\ HowFed(at) = "context"
             /\ \E i \in Id : IsContext(i) /\ input' = i
             /\ UNCHANGED tensors
    <3>1. input' \in Id /\ tensors[input'] # None
          /\ tensors[input'].content = <<Current, 0>>
      BY <2>4 DEF IsContext
    <3>2. <<Current, 0>> = Content(Current, at)
      BY <1>2, <2>4, Origins DEF Content
    <3>3. \A i \in Id : tensors'[i] # None \/ i = input' => Live(i)
      BY <2>4, <3>1 DEF Live
    <3>. QED
      BY <1>2, <1>5, <2>4, <3>1, <3>2, <3>3 DEF Copied, IInv, Domains
  <2>. QED
    BY <2>1, <2>2, <2>3, <2>4 DEF NextInput
<1>9. Domains'
  BY <1>1, <1>8 DEF IInv, Domains
<1>10. Forward'
  <2>1. \A i \in Id : Live(i)' <=> (tensors'[i] # None \/ i = input')
    BY <1>2 DEF Live
  <2>2. \A i \in Id : Live(i)' => IsTensor(tensors[i], Made)'
    BY <1>2, <1>6, <1>8, <2>1
  <2>3. ASSUME NEW i \in Id, offloads'[i] # None PROVE Copied(i)'
    <3>1. \E q \in 0 .. at' - 1 : offloads'[i].object = <<done', probe', q>>
      BY <1>1, <1>2, <2>3 DEF Copied
    <3>. QED
      BY <1>1, <1>8, <2>1, <2>3, <3>1 DEF Copied
  <2>4. (Content(Current, Made))' = Content(Current, at)
    BY <1>2, <1>4, <1>7
  <2>. QED
    BY <1>1, <1>2, <1>3, <1>8, <2>2, <2>3, <2>4 DEF Forward
<1>11. CapturesFaithful'
  BY <1>1, <1>4, <1>7 DEF IInv, CapturesFaithful
<1>. QED
  BY <1>9, <1>10, <1>11 DEF IInv

\* The Linear is captured, and its input may be copied.
LEMMA LinearStep ==
  ASSUME IInv, LinearRuns
  PROVE  IInv'
<1> DEFINE k == <<SiteAt(at), call>>
           x == tensors[input]
           host == OffloadInput(input)
<1>1. /\ pc = "linear" /\ at' = at + 1
      /\ pc' = (IF at + 1 \in Position THEN "input" ELSE "check")
      /\ captures' = [captures EXCEPT ![k] = host]
      /\ offloads' = IF setting.optimized
                     THEN [offloads EXCEPT ![input] =
                             [object |-> x.object, version |-> x.version, host |-> host]]
                     ELSE offloads
      /\ UNCHANGED <<setting, shard, done, probe, call, tensors, input>>
  BY DEF LinearRuns, model, scores, disk
<1>2. /\ at \in Position /\ at \in Nat /\ at >= 1 /\ Made = at
      /\ input \in Id /\ x.content = Content(Current, at)
      /\ call = CallAt(at) /\ call \in Call
      /\ \A i \in Id : Live(i) => IsTensor(tensors[i], at)
      /\ \A i \in Id : offloads[i] # None => Copied(i)
  BY <1>1, PositionFacts DEF IInv, Forward, Made
<1>3. Live(input) /\ IsTensor(x, at)
  BY <1>2 DEF Live
<1>4. host = Content(Current, at)
  BY <1>2, <1>3 DEF OffloadInput, Offloaded, Copied
<1>5. k \in Key /\ PositionOf(k) = at
  BY <1>2, KeyAt DEF Key
<1>6. Current' = Current /\ \A o, p : Content(o, p)' = Content(o, p)
  BY <1>1 DEF Current, Content, Origin, LastFed, HowFed
<1> HIDE DEF k, host
<1>7. CapturesFaithful'
  <2>1. \A l \in Key : captures'[l] = IF l = k THEN host ELSE captures[l]
    BY <1>1, <1>5 DEF IInv, Domains
  <2>2. \A l \in Key : captures[l] # None => captures[l] = Content(Current, PositionOf(l))
    BY <1>1 DEF IInv, CapturesFaithful
  <2>3. \A l \in Key : captures'[l] # None => captures'[l] = Content(Current, PositionOf(l))
    BY <1>4, <1>5, <2>1, <2>2
  <2>4. \A l : PositionOf(l)' = PositionOf(l)
    BY DEF PositionOf
  <2>. QED
    BY <1>6, <2>3, <2>4 DEF CapturesFaithful
<1>8. Domains'
  BY <1>1, <1>2 DEF IInv, Domains
<1>9. Forward'
  <2>1. CASE at + 1 \notin Position
    BY <1>1, <2>1 DEF Forward
  <2>2. CASE at + 1 \in Position
    <3>1. pc' = "input" /\ Made' = at /\ Made' > 0
      BY <1>1, <1>2, <2>2 DEF Made
    <3>2. SiteAt(at') # 1 => call' = CallAt(at')
      BY <1>1, <1>2, <2>2, SameCall
    <3>3. \A i \in Id : Live(i)' <=> Live(i)
      BY <1>1, <1>2, <3>1 DEF Live
    <3>4. \A i \in Id : Live(i)' => IsTensor(tensors[i], Made)'
      BY <1>1, <1>2, <3>1, <3>3 DEF IsTensor
    <3>5. ASSUME NEW i \in Id, offloads'[i] # None PROVE Copied(i)'
      <4>1. CASE offloads'[i] = offloads[i]
        <5>1. Copied(i)
          BY <1>2, <3>5, <4>1
        <5>2. PICK q \in 0 .. at - 1 : offloads[i].object = <<done, probe, q>>
          BY <5>1 DEF Copied
        <5>3. q \in 0 .. at' - 1
          BY <1>1, <1>2
        <5>. QED
          BY <1>1, <3>3, <4>1, <5>1, <5>2, <5>3 DEF Copied
      <4>2. CASE offloads'[i] # offloads[i]
        <5> DEFINE y == [object |-> x.object, version |-> x.version, host |-> host]
        <5>1. i = input /\ offloads'[i] = y
          BY <1>1, <1>2, <4>2 DEF IInv, Domains
        <5>2. y.object = x.object /\ y.version = x.version /\ y.host = host
          OBVIOUS
        <5> HIDE DEF y
        <5>3. x.version \in Nat /\ \E q \in 0 .. at : x.object = <<done, probe, q>>
          BY <1>3 DEF IsTensor
        <5>4. PICK q \in 0 .. at' - 1 : x.object = <<done, probe, q>>
          BY <1>1, <1>2, <5>3
        <5>. QED
          BY <1>1, <1>2, <1>4, <5>1, <5>2, <5>3, <5>4 DEF Copied
      <4>. QED
        BY <4>1, <4>2
    <3>6. tensors'[input'].content = (Content(Current, Made))'
      BY <1>1, <1>2, <1>6, <3>1
    <3>. QED
      BY <1>1, <1>2, <2>2, <3>1, <3>2, <3>4, <3>5, <3>6 DEF Forward
  <2>. QED
    BY <2>1, <2>2
<1>. QED
  BY <1>7, <1>8, <1>9 DEF IInv

LEMMA BackwardStep ==
  ASSUME IInv, NEW k \in Key, BackwardHook(k)
  PROVE  IInv'
<1>1. /\ pc = "backward" /\ pc' = "backward" /\ captures' = [captures EXCEPT ![k] = None]
      /\ UNCHANGED <<setting, shard, done, tensors, offloads>>
  BY DEF BackwardHook, model
<1>2. Current' = Current /\ (\A o, p : Content(o, p)' = Content(o, p))
      /\ \A l : PositionOf(l)' = PositionOf(l)
  BY <1>1 DEF Current, Content, Origin, LastFed, HowFed, PositionOf
<1>3. \A l \in Key : captures'[l] = IF l = k THEN None ELSE captures[l]
  BY <1>1 DEF IInv, Domains
<1>4. CapturesFaithful'
  BY <1>1, <1>2, <1>3 DEF IInv, CapturesFaithful
<1>. QED
  BY <1>1, <1>4 DEF IInv, Domains, Forward

LEMMA EndForwardStep ==
  ASSUME IInv, EndForward
  PROVE  IInv'
<1>1. /\ pc = "check" /\ pc' = "backward" /\ offloads' = NoTensor
      /\ UNCHANGED <<setting, shard, done, tensors, captures>>
  BY DEF EndForward
<1>2. Current' = Current /\ (\A o, p : Content(o, p)' = Content(o, p))
      /\ \A l : PositionOf(l)' = PositionOf(l)
  BY <1>1 DEF Current, Content, Origin, LastFed, HowFed, PositionOf
<1>3. CapturesFaithful'
  BY <1>1, <1>2 DEF IInv, CapturesFaithful
<1>. QED
  BY <1>1, <1>3 DEF IInv, Domains, Forward, NoTensor

\* Where nothing is captured, nothing has to be shown but the domains.
LEMMA Elsewhere ==
  ASSUME Domains', pc' \notin {"input", "linear", "check", "backward"}
  PROVE  IInv'
BY DEF IInv, Forward, CapturesFaithful

LEMMA NextHolds ==
  ASSUME IInv, [Next]_vars
  PROVE  IInv'
<1>1. CASE Open
  BY <1>1, Elsewhere DEF Open, IInv, Domains, model, hooked
<1>2. CASE ResetObservation
  BY <1>2, Elsewhere DEF ResetObservation, IInv, Domains, model, NoTensor, NoCapture
<1>3. CASE EndBackward
  BY <1>3, Elsewhere DEF EndBackward, IInv, Domains, NoTensor
<1>4. CASE FinishObservation
  BY <1>4, Elsewhere DEF FinishObservation, IInv, Domains, model, hooked
<1>5. CASE Commit
  BY <1>5, Elsewhere DEF Commit, IInv, Domains, model, hooked
<1>6. CASE Publish
  <2>1. pc' \in {"open", "merge"}
    BY <1>6 DEF Publish
  <2>. QED
    BY <1>6, <2>1, Elsewhere DEF Publish, IInv, Domains, model, hooked
<1>7. CASE MergeArtifacts
  BY <1>7, Elsewhere DEF MergeArtifacts, IInv, Domains, model, hooked
<1>8. CASE Crash
  BY <1>8, Elsewhere DEF Crash, Domains, NoTensor, NoCapture
<1>9. CASE UNCHANGED vars
  <2>1. UNCHANGED <<setting, shard, pc, done, probe, at, call, tensors, input, captures,
                    offloads>>
    BY <1>9 DEF vars, model, hooked
  <2>2. Domains'
    BY <2>1 DEF IInv, Domains
  <2>3. Forward'
    BY <2>1 DEF IInv, Forward, Made, Live, IsTensor, Copied, Content, Current, Origin,
                LastFed, HowFed
  <2>4. CapturesFaithful'
    <3>1. Current' = Current /\ (\A o, p : Content(o, p)' = Content(o, p))
          /\ \A l : PositionOf(l)' = PositionOf(l)
      BY <2>1 DEF Current, Content, Origin, LastFed, HowFed, PositionOf
    <3>. QED
      BY <2>1, <3>1 DEF IInv, CapturesFaithful
  <2>. QED
    BY <2>2, <2>3, <2>4 DEF IInv
<1>10. CASE Over
  BY <1>9, <1>10 DEF Over
<1>11. CASE \E k \in Key : BackwardHook(k)
  BY <1>11, BackwardStep
<1>. QED
  BY <1>1, <1>2, <1>3, <1>4, <1>5, <1>6, <1>7, <1>8, <1>9, <1>10, <1>11,
     BeginStep, InputStep, LinearStep, EndForwardStep DEF Next

-----------------------------------------------------------------------------
\* Types.  InObservation: while an observation is being collected.

InObservation == {"probe", "input", "linear", "check", "backward", "finish"}

Bounds ==
  /\ TypeOK
  /\ pc \in InObservation => done < Len(Shard[shard])
  /\ progress # None => progress.completed \in 0 .. Len(Shard[shard])

LEMMA ShardFacts ==
  /\ Len(Shard) \in Nat \ {0} /\ DOMAIN Shard = 1 .. Len(Shard)
  /\ \A h \in DOMAIN Shard :
       /\ Len(Shard[h]) \in Nat /\ DOMAIN Shard[h] = 1 .. Len(Shard[h])
       /\ \A n \in DOMAIN Shard[h] : Shard[h][n] \in Observation
<1>1. Shard \in Seq(Seq(Observation)) /\ Shard # <<>>
  BY CollectorAssumption
<1> HIDE DEF Observation
<1>2. Len(Shard) \in Nat \ {0} /\ DOMAIN Shard = 1 .. Len(Shard)
  BY <1>1
<1>3. \A h \in DOMAIN Shard : Shard[h] \in Seq(Observation)
  BY <1>1
<1>. QED
  BY <1>2, <1>3

LEMMA KeyPosition ==
  ASSUME NEW k \in Key
  PROVE  PositionOf(k) \in Position
<1>1. k[1] \in 1 .. Len(Site) /\ k[2] \in 0 .. NumCalls - 1
  BY CollectorAssumption DEF Key, Call
<1>2. Len(Site) \in Nat \ {0} /\ NumCalls \in Nat \ {0}
  BY PositionFacts
<1> DEFINE L == Len(Site)
           d == NumCalls - 1 - k[2]
<1>3. d \in Nat /\ NumCalls = k[2] + d + 1
  BY <1>1, <1>2
<1>4. NumCalls * L = k[2] * L + d * L + L
  BY SMTT(30), <1>1, <1>2, <1>3
<1>5. k[2] * L \in Nat /\ d * L \in Nat
  BY SMTT(30), <1>1, <1>2, <1>3
<1>6. PositionOf(k) = k[2] * L + k[1] /\ Position = 1 .. NumCalls * L
  BY DEF PositionOf, Position
<1> DEFINE a == k[2] * L
           b == d * L
           m == NumCalls * L
<1>7. a \in Nat /\ b \in Nat /\ m = a + b + L /\ PositionOf(k) = a + k[1] /\ Position = 1 .. m
  BY <1>4, <1>5, <1>6
<1> HIDE DEF d, L, a, b, m
<1>8. k[1] \in 1 .. L /\ L \in Nat
  BY <1>1, <1>2 DEF L
<1>. QED
  BY <1>7, <1>8

\* Every input comes from some position, or from the context.
LEMMA OriginTyped ==
  ASSUME setting \in Setting, NEW p \in Position
  PROVE  Origin(p) \in Position \cup {0}
<1> DEFINE N == {n \in Nat : n + 1 \in Position => Origin(n + 1) \in Position \cup {0}}
<1>1. setting.feed \in [SiteIndex -> {"new", "same", "written", "context"}]
  BY CollectorAssumption
<1>2. \A q \in Position : HowFed(q) \in {"new", "same", "written", "context"}
  BY <1>1, KeyAt DEF HowFed
<1>3. 0 \in N
  BY <1>2, FirstFed, Origins, PositionFacts
<1>4. ASSUME NEW n \in Nat, n \in N PROVE n + 1 \in N
  <2>1. SUFFICES ASSUME (n + 1) + 1 \in Position
                 PROVE  Origin((n + 1) + 1) \in Position \cup {0}
    OBVIOUS
  <2>2. n + 1 \in Position /\ ((n + 1) + 1) - 1 = n + 1 /\ (n + 1) + 1 > 1
    <3>1. ((n + 1) + 1) - 1 = n + 1 /\ (n + 1) + 1 > 1
      OBVIOUS
    <3>2. ((n + 1) + 1) - 1 \in Position
      BY <2>1, <3>1, PositionFacts
    <3>. QED
      BY <3>1, <3>2
  <2>3. Origin(n + 1) \in Position \cup {0}
    BY <1>4, <2>2
  <2>. QED
    BY <1>2, <2>1, <2>2, <2>3, Origins
<1>5. Nat \subseteq N
  <2> HIDE DEF N
  <2>. QED
    BY <1>3, <1>4, NatSetInduction
<1>6. p - 1 \in N /\ (p - 1) + 1 = p
  BY <1>5, PositionFacts
<1>. QED
  BY <1>6

\* What a Linear that runs is captured with.
LEMMA HostFaithful ==
  ASSUME IInv, LinearRuns
  PROVE  /\ at \in Position /\ <<SiteAt(at), call>> \in Key
         /\ PositionOf(<<SiteAt(at), call>>) = at
         /\ call = CallAt(at) /\ input \in Id
         /\ tensors[input].content = Content(Current, at)
         /\ OffloadInput(input) = Content(Current, at)
<1>1. pc = "linear"
  BY DEF LinearRuns
<1>2. /\ at \in Position /\ at \in Nat /\ at >= 1 /\ Made = at
      /\ input \in Id /\ tensors[input].content = Content(Current, at)
      /\ call = CallAt(at) /\ call \in Call
      /\ \A i \in Id : Live(i) => IsTensor(tensors[i], at)
      /\ \A i \in Id : offloads[i] # None => Copied(i)
  BY <1>1, PositionFacts DEF IInv, Forward, Made
<1>3. Live(input) /\ IsTensor(tensors[input], at)
  BY <1>2 DEF Live
<1>4. OffloadInput(input) = Content(Current, at)
  BY <1>2, <1>3 DEF OffloadInput, Offloaded, Copied
<1>. QED
  BY <1>2, <1>4, KeyAt DEF Key

-----------------------------------------------------------------------------
\* The budget.

Weight(s, p) == IF s[p] = "pinned" THEN Site[SiteAt(p)].bytes ELSE 0
Pinned(s, P) == SumFunction([p \in P |-> Weight(s, p)])

Freed ==
  /\ pc \notin {"input", "linear", "check", "backward"} => saved = NothingSaved
  /\ pc \in {"input", "linear"} => \A p \in Position : p >= at => saved[p] = "none"

Budget ==
  /\ Freed
  /\ activeBytes = PinnedBytes(Position)
  /\ activeBytes <= MaxPinned

LEMMA PinnedFacts ==
  ASSUME NEW s, NEW P \in SUBSET Position
  PROVE  /\ IsFiniteSet(P) /\ Pinned(s, P) \in Nat
         /\ \A p \in P : Weight(s, p) \in Nat
         /\ \A p \in P : Pinned(s, P) = Weight(s, p) + Pinned(s, P \ {p})
<1> DEFINE f == [p \in P |-> Weight(s, p)]
<1>1. IsFiniteSet(P)
  <2>1. NumCalls * Len(Site) \in Int
    BY PositionFacts
  <2>2. IsFiniteSet(Position)
    BY <2>1, FS_Interval DEF Position
  <2>. QED
    BY <2>2, FS_Subset
<1>2. \A p \in P : f[p] \in Nat
  BY KeyAt, CollectorAssumption DEF Weight
<1>3. SumFunction(f) \in Nat
  BY <1>1, <1>2, SumNat
<1>4. ASSUME NEW p \in P
      PROVE  SumFunction(f) = f[p] + SumFunction([q \in P \ {p} |-> f[q]])
  <2>1. DOMAIN f = P
    OBVIOUS
  <2> HIDE DEF f
  <2>. QED
    BY <1>1, <1>2, <2>1, SumSplit
<1>5. \A p \in P : [q \in P \ {p} |-> f[q]] = [q \in P \ {p} |-> Weight(s, q)]
  OBVIOUS
<1>. QED
  BY <1>1, <1>2, <1>3, <1>4, <1>5 DEF Pinned

LEMMA NonePinned ==
  ASSUME NEW s, NEW P \in SUBSET Position, \A p \in P : s[p] = "none"
  PROVE  Pinned(s, P) = 0
<1> DEFINE f == [p \in P |-> Weight(s, p)]
<1>1. IsFiniteSet(P) /\ \A p \in P : f[p] = 0
  BY PinnedFacts DEF Weight
<1>2. DOMAIN f = P
  OBVIOUS
<1> HIDE DEF f
<1>3. SumFunction(f) = 0
  BY <1>1, <1>2, SumZero
<1>. QED
  BY <1>3 DEF Pinned, f

\* One saved tensor changes.
LEMMA OnePinned ==
  ASSUME NEW s, NEW t, NEW p \in Position, \A q \in Position \ {p} : t[q] = s[q]
  PROVE  Pinned(t, Position) = Pinned(s, Position) - Weight(s, p) + Weight(t, p)
<1> DEFINE P == Position \ {p}
<1>1. Pinned(s, P) = Pinned(t, P)
  BY DEF Pinned, Weight
<1>2. Pinned(s, Position) = Weight(s, p) + Pinned(s, P)
  BY PinnedFacts
<1>3. Pinned(t, Position) = Weight(t, p) + Pinned(t, P)
  BY PinnedFacts
<1>4. Pinned(s, P) \in Nat /\ Weight(s, p) \in Nat /\ Weight(t, p) \in Nat
  BY PinnedFacts
<1>. QED
  BY <1>1, <1>2, <1>3, <1>4

LEMMA PinnedIs ==
  ASSUME NEW P
  PROVE  PinnedBytes(P) = Pinned(saved, P) /\ PinnedBytes(P)' = Pinned(saved', P)
BY DEF PinnedBytes, Pinned, Weight

\* Nothing of the budget changes.
LEMMA BudgetSame ==
  ASSUME Budget, UNCHANGED <<saved, activeBytes>>, Freed'
  PROVE  Budget'
BY DEF Budget, PinnedBytes

LEMMA BudgetLinear ==
  ASSUME IInv, Bounds, Budget, LinearRuns
  PROVE  Budget'
<1> DEFINE s == SiteAt(at)
<1>1. /\ pc = "linear" /\ at' = at + 1
      /\ pc' = (IF at + 1 \in Position THEN "input" ELSE "check")
      /\ saved' = [saved EXCEPT ![at] = Packed(s)]
      /\ activeBytes' = IF Packed(s) = "pinned" THEN activeBytes + Site[s].bytes
                        ELSE activeBytes
  BY DEF LinearRuns
<1>2. at \in Position /\ at \in Nat /\ s \in SiteIndex /\ Site[s].bytes \in Nat
      /\ MaxPinned \in Nat
  BY HostFaithful, PositionFacts, KeyAt, CollectorAssumption
<1>3. saved \in [Position -> Memory \cup {"none"}] /\ activeBytes \in Nat
  BY DEF Bounds, TypeOK
<1>4. \A p \in Position : saved'[p] = IF p = at THEN Packed(s) ELSE saved[p]
  BY <1>1, <1>3
<1>5. saved[at] = "none"
  BY <1>1, <1>2 DEF Budget, Freed
<1>6. Weight(saved, at) = 0
      /\ Weight(saved', at) = IF Packed(s) = "pinned" THEN Site[s].bytes ELSE 0
  BY <1>2, <1>4, <1>5 DEF Weight
<1>7. Pinned(saved', Position) = Pinned(saved, Position) - Weight(saved, at) + Weight(saved', at)
  BY <1>2, <1>4, OnePinned
<1>8. activeBytes = Pinned(saved, Position)
  BY PinnedIs DEF Budget
<1>9. activeBytes' = Pinned(saved', Position)
  BY <1>1, <1>2, <1>3, <1>6, <1>7, <1>8
<1>10. activeBytes' <= MaxPinned
  <2>1. CASE Packed(s) = "pinned"
    <3>1. activeBytes + Site[s].bytes <= MaxPinned
      BY <1>2, <1>3, <2>1 DEF Packed
    <3>. QED
      BY <1>1, <2>1, <3>1
  <2>2. CASE Packed(s) # "pinned"
    BY <1>1, <2>2 DEF Budget
  <2>. QED
    BY <2>1, <2>2
<1>11. Freed'
  <2>1. \A p \in Position : p >= at + 1 => saved'[p] = "none"
    <3>1. \A p \in Position : p \in Nat
      BY PositionFacts
    <3>. QED
      BY <1>1, <1>2, <1>4, <3>1 DEF Budget, Freed
  <2>. QED
    BY <1>1, <2>1 DEF Freed
<1>. QED
  BY <1>9, <1>10, <1>11, PinnedIs DEF Budget

LEMMA BudgetBackward ==
  ASSUME Bounds, Budget, NEW k \in Key, BackwardHook(k)
  PROVE  Budget'
<1> DEFINE p == PositionOf(k)
<1>1. /\ pc = "backward" /\ pc' = "backward"
      /\ activeBytes' = activeBytes - PinnedBytes({p})
      /\ saved' = [saved EXCEPT ![p] = "none"]
  BY DEF BackwardHook, Release
<1>2. p \in Position
  BY KeyPosition
<1>3. saved \in [Position -> Memory \cup {"none"}] /\ activeBytes \in Nat
  BY DEF Bounds, TypeOK
<1>4. \A q \in Position : saved'[q] = IF q = p THEN "none" ELSE saved[q]
  BY <1>1, <1>3
<1> HIDE DEF p
<1>5. PinnedBytes({p}) = Weight(saved, p)
  <2>1. Pinned(saved, {p}) = Weight(saved, p) + Pinned(saved, {p} \ {p})
    BY <1>2, PinnedFacts
  <2>2. Pinned(saved, {p} \ {p}) = 0
    BY <1>2, NonePinned
  <2>3. Weight(saved, p) \in Nat
    BY <1>2, PinnedFacts
  <2>. QED
    BY <2>1, <2>2, <2>3, PinnedIs
<1>6. Pinned(saved', Position) = Pinned(saved, Position) - Weight(saved, p) + Weight(saved', p)
  BY <1>2, <1>4, OnePinned
<1>7. Weight(saved', p) = 0
  BY <1>2, <1>4 DEF Weight
<1>8. activeBytes = Pinned(saved, Position) /\ activeBytes <= MaxPinned
  BY PinnedIs DEF Budget
<1>9. Weight(saved, p) \in Nat /\ MaxPinned \in Nat
  BY <1>2, PinnedFacts, CollectorAssumption
<1>10. activeBytes' = Pinned(saved', Position) /\ activeBytes' <= MaxPinned
  BY <1>1, <1>3, <1>5, <1>6, <1>7, <1>8, <1>9
<1>11. Freed'
  BY <1>1 DEF Freed
<1>. QED
  BY <1>10, <1>11, PinnedIs DEF Budget

\* Where all is given up.
LEMMA BudgetCleared ==
  ASSUME saved' = NothingSaved, activeBytes' = 0
  PROVE  Budget'
<1>1. Pinned(saved', Position) = 0
  BY NonePinned DEF NothingSaved
<1>2. Freed'
  BY DEF Freed, NothingSaved
<1>3. MaxPinned \in Nat
  BY CollectorAssumption
<1>. QED
  BY <1>1, <1>2, <1>3, PinnedIs DEF Budget

LEMMA BudgetStep ==
  ASSUME IInv, Bounds, Budget, [Next]_vars
  PROVE  Budget'
<1>1. CASE Open
  BY <1>1, BudgetSame DEF Open, offloading, Budget, Freed
<1>2. CASE ResetObservation
  BY <1>2, BudgetSame DEF ResetObservation, offloading, Budget, Freed
<1>3. CASE BeginProbe
  BY <1>3, BudgetSame DEF BeginProbe, offloading, Budget, Freed, NothingSaved
<1>4. CASE NextInput
  BY <1>4, BudgetSame DEF NextInput, offloading, Budget, Freed
<1>5. CASE LinearRuns
  BY <1>5, BudgetLinear
<1>6. CASE EndForward
  BY <1>6, BudgetSame DEF EndForward, offloading, Budget, Freed
<1>7. CASE \E k \in Key : BackwardHook(k)
  BY <1>7, BudgetBackward
<1>8. CASE EndBackward
  <2>1. activeBytes' = activeBytes - PinnedBytes(Position) /\ saved' = NothingSaved
    BY <1>8 DEF EndBackward, Release
  <2>2. activeBytes = PinnedBytes(Position) /\ activeBytes \in Nat
    BY DEF Budget, Bounds, TypeOK
  <2>3. activeBytes' = 0
    BY <2>1, <2>2
  <2>. QED
    BY <2>1, <2>3, BudgetCleared
<1>9. CASE FinishObservation
  BY <1>9, BudgetSame DEF FinishObservation, offloading, Budget, Freed
<1>10. CASE Commit
  BY <1>10, BudgetSame DEF Commit, offloading, Budget, Freed
<1>11. CASE Publish
  BY <1>11, BudgetSame DEF Publish, offloading, Budget, Freed
<1>12. CASE MergeArtifacts
  BY <1>12, BudgetSame DEF MergeArtifacts, offloading, Budget, Freed
<1>13. CASE Crash
  BY <1>13, BudgetCleared DEF Crash
<1>14. CASE UNCHANGED vars
  BY <1>14, BudgetSame DEF vars, offloading, Budget, Freed
<1>15. CASE Over
  BY <1>14, <1>15 DEF Over
<1>. QED
  BY <1>1, <1>2, <1>3, <1>4, <1>5, <1>6, <1>7, <1>8, <1>9, <1>10, <1>11, <1>12, <1>13,
     <1>14, <1>15 DEF Next

\* A capture is what its Linear was given in its call, whatever ids are reused
\* and whatever is written to in place (_offload_input, _forward_hook).
THEOREM Faithful == Spec => []CapturesFaithful
<1>1. Init => IInv
  BY InitHolds
<1>2. IInv /\ [Next]_vars => IInv'
  BY NextHolds
<1>3. IInv => CapturesFaithful
  BY DEF IInv
<1>. QED
  BY <1>1, <1>2, <1>3, PTL DEF Spec

-----------------------------------------------------------------------------
LEMMA BoundsLinear ==
  ASSUME IInv, Bounds, activeBytes' \in Nat, LinearRuns
  PROVE  Bounds'
<1> DEFINE k == <<SiteAt(at), call>>
           host == OffloadInput(input)
<1>1. /\ pc = "linear" /\ at' = at + 1
      /\ pc' = (IF at + 1 \in Position THEN "input" ELSE "check")
      /\ captures' = [captures EXCEPT ![k] = host]
      /\ offloads' = IF setting.optimized
                     THEN [offloads EXCEPT ![input] =
                             [object |-> tensors[input].object,
                              version |-> tensors[input].version, host |-> host]]
                     ELSE offloads
      /\ hooks' = hooks \cup {k}
      /\ saved' = [saved EXCEPT ![at] = Packed(SiteAt(at))]
      /\ UNCHANGED <<setting, shard, done, probe, call, tensors, input, feeding, progress>>
  BY DEF LinearRuns, model, disk
<1>2. /\ at \in Position /\ at \in Nat /\ at >= 1 /\ k \in Key /\ host = Content(Current, at)
      /\ NumCalls * Len(Site) \in Nat
  BY HostFaithful, PositionFacts
<1>3. TypeOK /\ done < Len(Shard[shard])
      /\ (progress # None => progress.completed \in 0 .. Len(Shard[shard]))
  BY <1>1 DEF Bounds, InObservation
<1>4. host \in Observation \X (Position \cup {0})
  <2>1. Current \in Observation
    <3>1. shard \in DOMAIN Shard /\ done \in 0 .. Len(Shard[shard])
      BY <1>3 DEF TypeOK
    <3>2. done + 1 \in DOMAIN Shard[shard]
      BY <1>3, <3>1, ShardFacts
    <3>. QED
      BY <3>1, <3>2, ShardFacts DEF Current
  <2>2. Origin(at) \in Position \cup {0}
    BY <1>2, <1>3, OriginTyped DEF TypeOK
  <2>. QED
    BY <1>2, <2>1, <2>2 DEF Content
<1>5. Packed(SiteAt(at)) \in Memory
  BY DEF Packed, Memory
<1> HIDE DEF k, host
<1>6. captures' \in [Key -> (Observation \X (Position \cup {0})) \cup {None}]
  BY <1>1, <1>2, <1>3, <1>4 DEF TypeOK
<1>7. saved' \in [Position -> Memory \cup {"none"}]
  BY <1>1, <1>2, <1>3, <1>5 DEF TypeOK
<1>8. at' \in 1 .. NumCalls * Len(Site) + 1
  BY <1>1, <1>2 DEF Position
<1>9. DOMAIN offloads' = Id /\ hooks' \subseteq Key
  BY <1>1, <1>2, <1>3 DEF TypeOK
<1>10. TypeOK'
  BY <1>1, <1>3, <1>6, <1>7, <1>8, <1>9 DEF TypeOK
<1>. QED
  BY <1>1, <1>3, <1>10 DEF Bounds, InObservation

LEMMA BoundsInput ==
  ASSUME Bounds, NextInput
  PROVE  Bounds'
<1>1. /\ pc = "input" /\ pc' = "linear" /\ CallAt(at) \in Call
      /\ call' = IF SiteAt(at) = 1 THEN CallAt(at) ELSE call
      /\ UNCHANGED <<setting, shard, done, probe, at, captures, hooks, feeding, offloads,
                     saved, activeBytes, progress>>
  BY DEF NextInput, hooked, offloading, disk
<1>2. TypeOK
  BY DEF Bounds
<1>3. input' \in Id \cup {None} /\ DOMAIN tensors' = Id
  BY <1>2 DEF NextInput, IsContext, TypeOK
<1>4. TypeOK'
  BY <1>1, <1>2, <1>3 DEF TypeOK
<1>. QED
  BY <1>1, <1>4 DEF Bounds, InObservation

LEMMA BoundsBackward ==
  ASSUME Bounds, activeBytes' \in Nat, NEW k \in Key, BackwardHook(k)
  PROVE  Bounds'
<1>1. /\ pc = "backward"
      /\ captures' = [captures EXCEPT ![k] = None]
      /\ hooks' = hooks \ {k}
      /\ saved' = [saved EXCEPT ![PositionOf(k)] = "none"]
      /\ UNCHANGED <<setting, shard, pc, done, probe, at, call, tensors, input, feeding,
                     offloads, progress>>
  BY DEF BackwardHook, model, disk
<1>2. TypeOK
  BY DEF Bounds
<1>3. captures' \in [Key -> (Observation \X (Position \cup {0})) \cup {None}]
      /\ saved' \in [Position -> Memory \cup {"none"}]
  BY <1>1, <1>2 DEF TypeOK
<1>4. TypeOK'
  BY <1>1, <1>2, <1>3 DEF TypeOK
<1>. QED
  BY <1>1, <1>4 DEF Bounds, InObservation

\* The variables of a trajectory, before it starts.
LEMMA Initially ==
  /\ 1 \in Probe /\ 1 \in 1 .. NumCalls * Len(Site) + 1
  /\ DOMAIN NoTensor = Id
  /\ NoCapture \in [Key -> (Observation \X (Position \cup {0})) \cup {None}]
  /\ NothingSaved \in [Position -> Memory \cup {"none"}]
<1>1. NumProbes \in Nat \ {0} /\ NumCalls * Len(Site) \in Nat
  BY CollectorAssumption, PositionFacts
<1>. QED
  BY <1>1 DEF Probe, NoTensor, NoCapture, NothingSaved

\* Between the observations only these change.
Trajectory ==
  <<probe, at, call, tensors, input, captures, hooks, feeding, offloads, saved, activeBytes>>

LEMMA BoundsBetween ==
  ASSUME Bounds, UNCHANGED <<setting, Trajectory>>,
         shard' \in DOMAIN Shard, done' \in 0 .. Len(Shard[shard']),
         pc' \in {"open", "observe", "commit", "merge", "over"},
         progress' # None => progress'.completed \in 0 .. Len(Shard[shard'])
  PROVE  Bounds'
BY DEF Bounds, TypeOK, InObservation, Trajectory

LEMMA BoundsStep ==
  ASSUME IInv, Bounds, Budget', [Next]_vars
  PROVE  Bounds'
<1>1. activeBytes' \in Nat
  <2>1. Pinned(saved', Position) \in Nat
    BY PinnedFacts
  <2>. QED
    BY <2>1, PinnedIs DEF Budget
<1>2. TypeOK /\ shard \in DOMAIN Shard /\ done \in 0 .. Len(Shard[shard])
      /\ Len(Shard[shard]) \in Nat
  BY ShardFacts DEF Bounds, TypeOK
<1>3. CASE Open
  <2>1. UNCHANGED <<setting, Trajectory, shard, progress>> /\ pc' = "observe"
    BY <1>3 DEF Open, Trajectory, model, hooked, offloading, disk
  <2>2. done' \in 0 .. Len(Shard[shard'])
    BY <1>2, <1>3, <2>1 DEF Open, Bounds
  <2>3. progress' # None => progress'.completed \in 0 .. Len(Shard[shard'])
    BY <2>1 DEF Bounds
  <2>. QED
    BY <1>2, <2>1, <2>2, <2>3, BoundsBetween
<1>4. CASE ResetObservation
  <2>1. /\ pc' = "probe" /\ done < Len(Shard[shard]) /\ captures' = NoCapture
        /\ offloads' = NoTensor /\ feeding' = "none" /\ probe' = 1
        /\ UNCHANGED <<setting, shard, done, at, call, tensors, input, hooks, saved, activeBytes,
                       progress>>
    BY <1>4 DEF ResetObservation, model, offloading, disk
  <2>. QED
    BY <2>1, Initially DEF Bounds, TypeOK, InObservation
<1>5. CASE BeginProbe
  <2>1. /\ pc = "probe" /\ pc' = "input" /\ at' = 1 /\ captures' = NoCapture
        /\ offloads' = NoTensor /\ feeding' \in {"none", "capture", "prehook"}
        /\ DOMAIN tensors' = Id
        /\ UNCHANGED <<setting, shard, done, probe, call, input, hooks, saved, activeBytes,
                       progress>>
    BY <1>5 DEF BeginProbe, offloading, disk, NoTensor
  <2>. QED
    BY <2>1, Initially DEF Bounds, TypeOK, InObservation
<1>6. CASE EndForward
  <2>1. /\ pc = "check" /\ pc' = "backward" /\ call' = None /\ feeding' = "none"
        /\ offloads' = NoTensor
        /\ UNCHANGED <<setting, shard, done, probe, at, tensors, input, captures, hooks, saved,
                       activeBytes, progress>>
    BY <1>6 DEF EndForward, offloading, disk
  <2>. QED
    BY <2>1, Initially DEF Bounds, TypeOK, InObservation
<1>7. CASE EndBackward
  <2>1. /\ pc = "backward" /\ pc' \in {"probe", "finish"} /\ hooks' = {}
        /\ saved' = NothingSaved /\ tensors' = NoTensor /\ input' = None
        /\ (probe' = probe \/ (probe < NumProbes /\ probe' = probe + 1))
        /\ UNCHANGED <<setting, shard, done, at, call, captures, feeding, offloads, progress>>
    BY <1>7 DEF EndBackward, MoreProbes, disk
  <2>2. probe' \in Probe
    BY SMTT(30), <1>2, <2>1, CollectorAssumption DEF TypeOK, Probe
  <2>. QED
    BY <1>1, <2>1, <2>2, Initially DEF Bounds, TypeOK, InObservation
<1>8. CASE FinishObservation
  <2>1. UNCHANGED <<setting, Trajectory, shard, progress>> /\ pc' = "commit"
        /\ pc = "finish" /\ done' = done + 1
    BY <1>8 DEF FinishObservation, Trajectory, model, hooked, offloading, disk
  <2>2. done' \in 0 .. Len(Shard[shard'])
    BY <1>2, <2>1 DEF Bounds, InObservation
  <2>3. progress' # None => progress'.completed \in 0 .. Len(Shard[shard'])
    BY <2>1 DEF Bounds
  <2>. QED
    BY <1>2, <2>1, <2>2, <2>3, BoundsBetween
<1>9. CASE Commit
  <2>1. UNCHANGED <<setting, Trajectory, shard, done>> /\ pc' = "observe"
    BY <1>9 DEF Commit, Trajectory, model, hooked, offloading
  <2>2. progress' # None => progress'.completed \in 0 .. Len(Shard[shard'])
    <3>1. CASE progress' = progress
      BY <2>1, <3>1 DEF Bounds
    <3>2. CASE progress' = [completed |-> done, cache |-> StateDict(cache),
                            accumulator |-> accumulator]
      BY <1>2, <2>1, <3>2
    <3>. QED
      BY <1>9, <3>1, <3>2 DEF Commit
  <2>. QED
    BY <1>2, <2>1, <2>2, BoundsBetween
<1>10. CASE Publish
  <2>1. UNCHANGED <<setting, Trajectory>> /\ done' = 0 /\ progress' = None
    BY <1>10 DEF Publish, Trajectory, model, hooked, offloading
  <2>2. pc' \in {"open", "merge"} /\ shard' \in DOMAIN Shard
    <3>1. CASE shard < Len(Shard)
      BY <1>2, <1>10, <3>1, ShardFacts DEF Publish
    <3>2. CASE ~(shard < Len(Shard))
      BY <1>2, <1>10, <3>2 DEF Publish
    <3>. QED
      BY <3>1, <3>2
  <2>3. done' \in 0 .. Len(Shard[shard'])
    BY <2>1, <2>2, ShardFacts
  <2>. QED
    BY <2>1, <2>2, <2>3, BoundsBetween
<1>11. CASE MergeArtifacts
  <2>1. UNCHANGED <<setting, Trajectory, shard, done, progress>> /\ pc' = "over"
    BY <1>11 DEF MergeArtifacts, Trajectory, model, hooked, offloading
  <2>2. progress' # None => progress'.completed \in 0 .. Len(Shard[shard'])
    BY <2>1 DEF Bounds
  <2>. QED
    BY <1>2, <2>1, <2>2, BoundsBetween
<1>12. CASE Crash
  <2>1. /\ pc' = "open" /\ probe' = 1 /\ at' = 1 /\ call' = None /\ tensors' = NoTensor
        /\ input' = None /\ captures' = NoCapture /\ hooks' = {} /\ feeding' = "none"
        /\ offloads' = NoTensor /\ saved' = NothingSaved /\ done' = 0
        /\ UNCHANGED <<setting, shard, progress>>
    BY <1>12 DEF Crash, disk
  <2>. QED
    BY <1>1, <1>2, <2>1, Initially DEF Bounds, TypeOK, InObservation
<1>13. CASE UNCHANGED vars
  BY <1>13 DEF Bounds, TypeOK, InObservation, vars, model, hooked, offloading, disk
<1>14. CASE Over
  BY <1>13, <1>14 DEF Over
<1>15. CASE \E k \in Key : BackwardHook(k)
  BY <1>1, <1>15, BoundsBackward
<1>. QED
  BY <1>1, <1>3, <1>4, <1>5, <1>6, <1>7, <1>8, <1>9, <1>10, <1>11, <1>12, <1>13, <1>14, <1>15,
     BoundsLinear, BoundsInput DEF Next

LEMMA BoundsInit == Init => Bounds /\ Budget
<1>1. SUFFICES ASSUME Init PROVE Bounds /\ Budget
  OBVIOUS
<1>2. saved = NothingSaved /\ activeBytes = 0
  BY <1>1 DEF Init
<1>3. Pinned(saved, Position) = 0 /\ MaxPinned \in Nat
  BY <1>2, NonePinned, CollectorAssumption DEF NothingSaved
<1>4. Budget
  BY <1>2, <1>3, PinnedIs DEF Budget, Freed, NothingSaved
<1>5. Bounds
  <2>1. 1 \in DOMAIN Shard /\ Len(Shard[1]) \in Nat
    BY ShardFacts
  <2>. QED
    BY <1>1, <1>2, <2>1, Initially DEF Init, Bounds, TypeOK, InObservation
<1>. QED
  BY <1>4, <1>5

CInv == IInv /\ Bounds /\ Budget

LEMMA CInvHolds == Spec => []CInv
<1>1. Init => CInv
  BY InitHolds, BoundsInit DEF CInv
<1>2. CInv /\ [Next]_vars => CInv'
  BY NextHolds, BudgetStep, BoundsStep DEF CInv
<1>. QED
  BY <1>1, <1>2, PTL DEF Spec

\* Every variable has its type; in particular the pinned bytes in use never
\* turn negative, and no more observations are counted than the shard has.
THEOREM Typed == Spec => []TypeOK
<1>1. CInv => TypeOK
  BY DEF CInv, Bounds
<1>. QED
  BY <1>1, CInvHolds, PTL

\* The budget of pinned memory is never exceeded, and all of it is given back,
\* whatever part of the graph gradients reach and in whatever order they come
\* (BoundedSavedTensorOffload, _PinnedTensor.__del__).
THEOREM Kept == Spec => []BudgetKept
<1>1. CInv => BudgetKept
  <2>1. SUFFICES ASSUME CInv PROVE BudgetKept
    OBVIOUS
  <2>2. Budget
    BY <2>1 DEF CInv
  <2>3. ASSUME pc \in {"probe", "finish", "commit", "observe"} PROVE activeBytes = 0
    <3>1. saved = NothingSaved
      BY <2>2, <2>3 DEF Budget, Freed
    <3>2. Pinned(saved, Position) = 0
      BY <3>1, NonePinned DEF NothingSaved
    <3>. QED
      BY <2>2, <3>2, PinnedIs DEF Budget
  <2>. QED
    BY <2>2, <2>3 DEF Budget, BudgetKept
<1>. QED
  BY <1>1, CInvHolds, PTL

-----------------------------------------------------------------------------
\* Sums over 1 .. n grow by their last term.

UptoSum(e, n) == SumFunction([m \in 1 .. n |-> e[m]])

LEMMA SumUpto ==
  ASSUME NEW e, NEW n \in Nat, \A m \in 1 .. n + 1 : e[m] \in Nat
  PROVE  /\ UptoSum(e, n) \in Nat
         /\ UptoSum(e, n + 1) = UptoSum(e, n) + e[n + 1]
<1> DEFINE f == [m \in 1 .. n + 1 |-> e[m]]
           g == [m \in 1 .. n |-> e[m]]
<1>1. IsFiniteSet(1 .. n + 1) /\ IsFiniteSet(1 .. n)
  BY FS_Interval
<1>2. (1 .. n + 1) \ {n + 1} = 1 .. n
  OBVIOUS
<1>3. \A m \in 1 .. n : m \in 1 .. n + 1
  OBVIOUS
<1>4. DOMAIN f = 1 .. n + 1 /\ \A m \in 1 .. n + 1 : f[m] \in Nat
  OBVIOUS
<1>5. DOMAIN g = 1 .. n /\ \A m \in 1 .. n : g[m] \in Nat
  BY <1>3
<1>6. [m \in DOMAIN f \ {n + 1} |-> f[m]] = g
  BY <1>2, <1>3, <1>4
<1>7. SumFunction(g) \in Nat
  <2> HIDE DEF g
  <2>. QED
    BY <1>1, <1>5, SumNat
<1>8. SumFunction(f) = f[n + 1] + SumFunction([m \in DOMAIN f \ {n + 1} |-> f[m]])
  <2>1. n + 1 \in DOMAIN f
    BY <1>4
  <2> HIDE DEF f
  <2>. QED
    BY <1>1, <1>4, <2>1, SumSplit
<1>9. f[n + 1] = e[n + 1] /\ f[n + 1] \in Nat
  BY <1>4
<1>10. SumFunction(f) = e[n + 1] + SumFunction(g)
  BY <1>6, <1>8, <1>9
<1>11. UptoSum(e, n) = SumFunction(g) /\ UptoSum(e, n + 1) = SumFunction(f)
  BY DEF UptoSum
<1> HIDE DEF f, g
<1>. QED
  BY <1>7, <1>9, <1>10, <1>11

LEMMA SumUptoNone ==
  ASSUME NEW e
  PROVE  UptoSum(e, 0) = 0
<1> DEFINE g == [m \in 1 .. 0 |-> e[m]]
<1>1. IsFiniteSet(DOMAIN g) /\ \A m \in DOMAIN g : g[m] = 0
  BY FS_Interval
<1>2. UptoSum(e, 0) = SumFunction(g)
  BY DEF UptoSum
<1> HIDE DEF g
<1>. QED
  BY <1>1, <1>2, SumZero

-----------------------------------------------------------------------------
\* Device sums are flattened and found again.

IsFlatTable(g, seqs, D) ==
  g = [i \in D |-> IF i = 1 THEN seqs[i] ELSE g[i - 1] \o seqs[i]]

LEMMA FlatTableExists ==
  ASSUME NEW seqs, NEW n \in Nat
  PROVE  \E g : IsFlatTable(g, seqs, 1 .. n)
<1> DEFINE N == {m \in Nat : \E g : IsFlatTable(g, seqs, 1 .. m)}
<1>1. 0 \in N
  <2>1. IsFlatTable([i \in 1 .. 0 |-> seqs[i]], seqs, 1 .. 0)
    BY DEF IsFlatTable
  <2>. QED
    BY <2>1
<1>2. ASSUME NEW m \in Nat, m \in N PROVE m + 1 \in N
  <2>1. PICK g : IsFlatTable(g, seqs, 1 .. m)
    BY <1>2
  <2> DEFINE h == [i \in 1 .. m + 1 |-> IF i = 1 THEN seqs[i] ELSE g[i - 1] \o seqs[i]]
  <2>2. ASSUME NEW i \in 1 .. m PROVE i \in 1 .. m + 1 /\ h[i] = g[i]
    <3>1. g[i] = IF i = 1 THEN seqs[i] ELSE g[i - 1] \o seqs[i]
      BY <2>1 DEF IsFlatTable
    <3>. QED
      BY <3>1
  <2>3. \A i \in 1 .. m + 1 : i # 1 => i - 1 \in 1 .. m
    OBVIOUS
  <2>4. IsFlatTable(h, seqs, 1 .. m + 1)
    BY <2>2, <2>3 DEF IsFlatTable
  <2>. QED
    BY <2>4
<1>3. Nat \subseteq N
  <2> HIDE DEF N
  <2>. QED
    BY <1>1, <1>2, NatSetInduction
<1>. QED
  BY <1>3

\* The sequence s lies in flat, behind its first off elements.
InPlace(s, off, flat) ==
  \A l \in 1 .. Len(s) : off + l \in 1 .. Len(flat) /\ flat[off + l] = s[l]

LEMMA Concatenated ==
  ASSUME NEW V, NEW a \in Seq(V), NEW b \in Seq(V)
  PROVE  /\ a \o b \in Seq(V) /\ Len(a \o b) = Len(a) + Len(b)
         /\ InPlace(b, Len(a), a \o b)
         /\ \A s, off : InPlace(s, off, a) => InPlace(s, off, a \o b)
<1>1. Len(a) \in Nat /\ Len(b) \in Nat /\ a \o b \in Seq(V) /\ Len(a \o b) = Len(a) + Len(b)
  OBVIOUS
<1>2. ASSUME NEW l \in 1 .. Len(a) PROVE (a \o b)[l] = a[l] /\ l \in 1 .. Len(a \o b)
  BY <1>1
<1>3. ASSUME NEW l \in 1 .. Len(b)
      PROVE  (a \o b)[Len(a) + l] = b[l] /\ Len(a) + l \in 1 .. Len(a \o b)
  BY <1>1
<1>4. InPlace(b, Len(a), a \o b)
  BY <1>3 DEF InPlace
<1>5. ASSUME NEW s, NEW off, InPlace(s, off, a) PROVE InPlace(s, off, a \o b)
  BY <1>2, <1>5 DEF InPlace
<1>. QED
  BY <1>1, <1>4, <1>5

\* Sequence n of seqs is found behind those before it.
LEMMA Flattened ==
  ASSUME NEW V, NEW seqs \in Seq(Seq(V)), NEW e, \A m \in 1 .. Len(seqs) : e[m] = Len(seqs[m]),
         NEW n \in 1 .. Len(seqs)
  PROVE  InPlace(seqs[n], UptoSum(e, n - 1), FlattenSeq(seqs))
<1> DEFINE L == Len(seqs)
           G == CHOOSE g : IsFlatTable(g, seqs, 1 .. L)
           Done(m) == /\ G[m] \in Seq(V) /\ Len(G[m]) = UptoSum(e, m)
                      /\ \A j \in 1 .. m : InPlace(seqs[j], UptoSum(e, j - 1), G[m])
           N == {m \in Nat : m + 1 \in 1 .. L => Done(m + 1)}
<1>1. L \in Nat /\ \A m \in 1 .. L : seqs[m] \in Seq(V) /\ e[m] = Len(seqs[m]) /\ e[m] \in Nat
  OBVIOUS
<1>2. IsFlatTable(G, seqs, 1 .. L)
  BY <1>1, FlatTableExists
<1>3. FlattenSeq(seqs) = G[L]
  <2>1. L # 0
    OBVIOUS
  <2>. QED
    BY <2>1 DEF FlattenSeq, IsFlatTable
<1>4. \A m \in 1 .. L : G[m] = IF m = 1 THEN seqs[m] ELSE G[m - 1] \o seqs[m]
  BY <1>2 DEF IsFlatTable
<1>5. n \in 1 .. L
  OBVIOUS
<1> HIDE DEF G, L
<1>6. 0 \in N
  <2>1. SUFFICES ASSUME 1 \in 1 .. L PROVE Done(1)
    OBVIOUS
  <2>2. G[1] = seqs[1] /\ seqs[1] \in Seq(V) /\ e[1] = Len(seqs[1]) /\ e[1] \in Nat
    BY <1>1, <1>4, <2>1
  <2>3. \A m \in 1 .. 0 + 1 : e[m] \in Nat
    BY <2>2
  <2>4. UptoSum(e, 0) = 0 /\ UptoSum(e, 0 + 1) = UptoSum(e, 0) + e[0 + 1]
    BY <2>3, SumUpto, SumUptoNone
  <2>5. UptoSum(e, 1) = Len(seqs[1])
    BY <2>2, <2>4
  <2>6. InPlace(seqs[1], 0, G[1])
    BY <2>2 DEF InPlace
  <2>7. ASSUME NEW j \in 1 .. 1 PROVE InPlace(seqs[j], UptoSum(e, j - 1), G[1])
    BY <2>4, <2>6
  <2>. QED
    BY <2>2, <2>5, <2>7
<1>7. ASSUME NEW m \in Nat, m \in N PROVE m + 1 \in N
  <2> DEFINE M == m + 1
  <2>1. SUFFICES ASSUME M + 1 \in 1 .. L PROVE Done(M + 1)
    OBVIOUS
  <2>2. M \in 1 .. L /\ M \in Nat /\ (M + 1) - 1 = M /\ M + 1 # 1
    BY <1>1, <2>1
  <2>3. Done(M)
    BY <1>7, <2>2
  <2> HIDE DEF M
  <2>4. G[M + 1] = G[M] \o seqs[M + 1]
    BY <1>4, <2>1, <2>2
  <2>5. seqs[M + 1] \in Seq(V) /\ e[M + 1] = Len(seqs[M + 1])
        /\ \A l \in 1 .. M + 1 : e[l] \in Nat
    BY <1>1, <2>1, <2>2
  <2>6. UptoSum(e, M) \in Nat /\ UptoSum(e, M + 1) = UptoSum(e, M) + e[M + 1]
    BY <2>2, <2>5, SumUpto
  <2>7. /\ G[M + 1] \in Seq(V) /\ Len(G[M + 1]) = Len(G[M]) + Len(seqs[M + 1])
        /\ InPlace(seqs[M + 1], Len(G[M]), G[M + 1])
        /\ \A s, off : InPlace(s, off, G[M]) => InPlace(s, off, G[M + 1])
    <3> DEFINE a == G[M]
               b == seqs[M + 1]
    <3>1. a \in Seq(V) /\ b \in Seq(V) /\ G[M + 1] = a \o b
      BY <2>3, <2>4, <2>5
    <3> HIDE DEF a, b
    <3>2. /\ a \o b \in Seq(V) /\ Len(a \o b) = Len(a) + Len(b)
          /\ InPlace(b, Len(a), a \o b)
          /\ \A s, off : InPlace(s, off, a) => InPlace(s, off, a \o b)
      BY <3>1, Concatenated
    <3>. QED
      BY <3>1, <3>2 DEF a, b
  <2>8. Len(G[M + 1]) = UptoSum(e, M + 1)
    BY <2>3, <2>5, <2>6, <2>7
  <2>9. ASSUME NEW j \in 1 .. M + 1 PROVE InPlace(seqs[j], UptoSum(e, j - 1), G[M + 1])
    <3>1. CASE j \in 1 .. M
      BY <2>3, <2>7, <3>1
    <3>2. CASE j = M + 1
      BY <2>2, <2>3, <2>7, <3>2
    <3>. QED
      BY <2>2, <3>1, <3>2
  <2>. QED
    BY <2>7, <2>8, <2>9
<1>8. Nat \subseteq N
  <2> HIDE DEF N
  <2>. QED
    BY <1>6, <1>7, NatSetInduction
<1>9. L - 1 \in Nat /\ (L - 1) + 1 = L /\ L \in 1 .. L
  BY <1>1, <1>5
<1>10. Done(L)
  <2>1. L - 1 \in N
    BY <1>8, <1>9
  <2>2. (L - 1) + 1 \in 1 .. L => Done((L - 1) + 1)
    BY <2>1
  <2> HIDE DEF Done, N
  <2>. QED
    BY <1>9, <2>2
<1>. QED
  BY <1>3, <1>5, <1>10

\* The keys in order: each of them, and nothing else.
LEMMA SortedFacts ==
  ASSUME NEW K \in SUBSET Key
  PROVE  /\ IsFiniteSet(K) /\ Cardinality(K) \in Nat
         /\ DOMAIN Sorted(K) = 1 .. Cardinality(K)
         /\ \A n \in 1 .. Cardinality(K) : Sorted(K)[n] \in K
         /\ \A k \in K : \E n \in 1 .. Cardinality(K) : Sorted(K)[n] = k
<1> DEFINE n == Cardinality(K)
           Less(k) == {l \in K : Before(l, k)}
           r == [k \in K |-> Rank(k, K)]
<1>1. IsFiniteSet(K) /\ n \in Nat
  <2>1. NumCalls - 1 \in Int /\ Len(Site) \in Int
    BY PositionFacts
  <2>2. IsFiniteSet(Call) /\ IsFiniteSet(SiteIndex)
    BY <2>1, FS_Interval, CollectorAssumption DEF Call
  <2>3. IsFiniteSet(Key)
    BY <2>2, FS_Product DEF Key
  <2>. QED
    BY <2>3, FS_Subset, FS_CardinalityType
<1>2. \A k \in K : k = <<k[1], k[2]>> /\ k[1] \in Nat /\ k[2] \in Nat
  BY CollectorAssumption DEF Key, Call
<1>3. \A k \in K : /\ IsFiniteSet(Less(k)) /\ Cardinality(Less(k)) \in Nat
                   /\ Rank(k, K) = Cardinality(Less(k)) + 1
  BY <1>1, FS_Subset, FS_CardinalityType DEF Rank
<1>4. ASSUME NEW k \in K PROVE Rank(k, K) \in 1 .. n
  <2>1. ~Before(k, k)
    BY <1>2 DEF Before
  <2>2. Less(k) \subseteq K \ {k}
    BY <2>1
  <2>3. IsFiniteSet(K \ {k}) /\ n = Cardinality(K \ {k}) + 1 /\ Cardinality(K \ {k}) \in Nat
    BY <1>1, Smaller
  <2>4. Cardinality(Less(k)) <= Cardinality(K \ {k})
    BY <2>2, <2>3, FS_Subset
  <2>. QED
    BY <1>1, <1>3, <2>3, <2>4
<1>5. ASSUME NEW k \in K, NEW m \in K, Before(k, m) PROVE Rank(k, K) < Rank(m, K)
  <2>1. Less(k) \subseteq Less(m) \ {k}
    <3>1. ASSUME NEW l \in Less(k) PROVE l \in Less(m) \ {k}
      BY <1>2, <1>5, <3>1 DEF Before
    <3>. QED
      BY <3>1
  <2>2. k \in Less(m)
    BY <1>5
  <2> HIDE DEF Less
  <2>3. IsFiniteSet(Less(m) \ {k}) /\ Cardinality(Less(m)) = Cardinality(Less(m) \ {k}) + 1
        /\ Cardinality(Less(m) \ {k}) \in Nat
    BY <1>3, <2>2, Smaller
  <2>4. Cardinality(Less(k)) <= Cardinality(Less(m) \ {k})
    BY <2>1, <2>3, FS_Subset
  <2>. QED
    BY <1>3, <2>3, <2>4
<1>6. \A k, m \in K : k # m => Before(k, m) \/ Before(m, k)
  BY <1>2 DEF Before
<1>7. \A k, m \in K : Rank(k, K) = Rank(m, K) => k = m
  <2>1. \A k \in K : Rank(k, K) \in Nat
    BY <1>1, <1>4
  <2>. QED
    BY <1>5, <1>6, <2>1
<1>8. \A j \in 1 .. n : \E k \in K : Rank(k, K) = j
  <2>1. r \in Injection(K, 1 .. n)
    BY <1>4, <1>7 DEF Injection, IsInjective
  <2>2. IsFiniteSet(1 .. n) /\ Cardinality(1 .. n) = n
    BY <1>1, FS_Interval
  <2>3. r \in Surjection(K, 1 .. n)
    <3> HIDE DEF r
    <3>. QED
      BY <2>1, <2>2, FS_Injection
  <2>. QED
    BY <2>3 DEF Surjection
<1>9. DOMAIN Sorted(K) = 1 .. n
  BY DEF Sorted
<1>10. ASSUME NEW j \in 1 .. n PROVE Sorted(K)[j] \in K /\ Rank(Sorted(K)[j], K) = j
  <2>1. Sorted(K)[j] = CHOOSE k \in K : Rank(k, K) = j
    BY DEF Sorted
  <2>. QED
    BY <1>8, <2>1
<1>11. ASSUME NEW k \in K PROVE \E j \in 1 .. n : Sorted(K)[j] = k
  BY <1>4, <1>7, <1>10
<1>. QED
  BY <1>1, <1>9, <1>10, <1>11

-----------------------------------------------------------------------------
\* Scores.  While an observation is collected, the probes whose score of k is
\* in, and what those scores are.

Scored(k) ==
  IF k \notin Reached THEN 0
  ELSE IF pc = "finish" THEN NumProbes
  ELSE IF pc = "backward" /\ k \notin hooks THEN probe
  ELSE probe - 1

ScoresOf(c, n) ==
  [r \in 1 .. n |-> Impact(c, r, Content(Current, PositionOf(<<c[1], c[2]>>)))]

Hooked ==
  /\ pc \notin {"input", "linear", "check", "backward"} => hooks = {}
  /\ pc \in {"input", "linear", "check"} => \A k \in Key : captures[k] # None => k \in hooks

Scoring ==
  pc \in InObservation =>
    IF setting.optimized
    THEN /\ sums = [c \in Cell |-> <<>>]
         /\ deviceSums = [k \in {l \in Key : Scored(l) > 0} |->
              [i \in DOMAIN Layout(k[1]) |-> ScoresOf(<<k[1], k[2], i>>, Scored(k))]]
    ELSE /\ deviceSums = NoSums
         /\ sums = [c \in Cell |-> ScoresOf(c, Scored(<<c[1], c[2]>>))]

LEMMA AppendNext ==
  ASSUME NEW g, NEW n \in Nat
  PROVE  Append([r \in 1 .. n |-> g[r]], g[n + 1]) = [r \in 1 .. n + 1 |-> g[r]]
<1> DEFINE V == {g[r] : r \in 1 .. n + 1}
           a == [r \in 1 .. n |-> g[r]]
           b == [r \in 1 .. n + 1 |-> g[r]]
<1>1. a \in Seq(V) /\ Len(a) = n /\ \A r \in 1 .. n : a[r] = g[r]
  <2>1. a \in [1 .. n -> V]
    OBVIOUS
  <2>2. a \in Seq(V)
    <3> HIDE DEF a, V
    <3>. QED
      BY <2>1, SeqDef
  <2>. QED
    BY <2>1, <2>2
<1>2. b \in Seq(V) /\ Len(b) = n + 1 /\ \A r \in 1 .. n + 1 : b[r] = g[r]
  <2>1. b \in [1 .. n + 1 -> V]
    OBVIOUS
  <2>2. b \in Seq(V)
    <3> HIDE DEF b, V
    <3>. QED
      BY <2>1, SeqDef
  <2>. QED
    BY <2>1, <2>2
<1>3. g[n + 1] \in V
  OBVIOUS
<1> HIDE DEF a, b, V
<1> DEFINE t == Append(a, g[n + 1])
<1>4. t \in Seq(V) /\ Len(t) = n + 1
      /\ (\A r \in 1 .. n : t[r] = a[r]) /\ t[n + 1] = g[n + 1]
  BY <1>1, <1>3
<1>5. \A r \in 1 .. n + 1 : r = n + 1 \/ r \in 1 .. n
  OBVIOUS
<1>6. \A r \in 1 .. Len(t) : t[r] = b[r]
  BY <1>1, <1>2, <1>4, <1>5
<1>7. t = b
  <2> HIDE DEF t
  <2>. QED
    BY <1>2, <1>4, <1>6, SeqEqual
<1>. QED
  BY <1>7 DEF a, b

LEMMA NextScore ==
  ASSUME NEW c, NEW n \in Nat
  PROVE  Append(ScoresOf(c, n),
                Impact(c, n + 1, Content(Current, PositionOf(<<c[1], c[2]>>)))) = ScoresOf(c, n + 1)
<1> DEFINE x == Content(Current, PositionOf(<<c[1], c[2]>>))
           g == [r \in 1 .. n + 1 |-> Impact(c, r, x)]
<1>1. Append([r \in 1 .. n |-> g[r]], g[n + 1]) = [r \in 1 .. n + 1 |-> g[r]]
  <2> HIDE DEF g
  <2>. QED
    BY AppendNext
<1>2. [r \in 1 .. n |-> g[r]] = [r \in 1 .. n |-> Impact(c, r, x)]
  OBVIOUS
<1>3. [r \in 1 .. n + 1 |-> g[r]] = [r \in 1 .. n + 1 |-> Impact(c, r, x)]
      /\ g[n + 1] = Impact(c, n + 1, x)
  OBVIOUS
<1>. QED
  BY <1>1, <1>2, <1>3 DEF ScoresOf

LEMMA NoScores ==
  ASSUME NEW c
  PROVE  ScoresOf(c, 0) = <<>>
<1>1. 1 .. 0 = {}
  OBVIOUS
<1>. QED
  BY <1>1 DEF ScoresOf

LEMMA FirstScore ==
  ASSUME NEW c
  PROVE  <<Impact(c, 1, Content(Current, PositionOf(<<c[1], c[2]>>)))>> = ScoresOf(c, 1)
<1>1. 1 .. 1 = {1}
  OBVIOUS
<1>. QED
  BY <1>1 DEF ScoresOf

LEMMA Cells ==
  /\ \A c \in Cell : /\ c = <<c[1], c[2], c[3]>> /\ <<c[1], c[2]>> \in Key
                     /\ c[3] \in DOMAIN Layout(c[1])
  /\ \A k \in Key : /\ k = <<k[1], k[2]>>
                    /\ \A i \in DOMAIN Layout(k[1]) : <<k[1], k[2], i>> \in Cell
<1>1. ASSUME NEW c \in Cell
      PROVE  /\ c = <<c[1], c[2], c[3]>> /\ <<c[1], c[2]>> \in Key
             /\ c[3] \in DOMAIN Layout(c[1])
  <2>1. PICK k \in Key : c \in {<<k[1], k[2], i>> : i \in DOMAIN Layout(k[1])}
    BY DEF Cell
  <2>2. PICK i \in DOMAIN Layout(k[1]) : c = <<k[1], k[2], i>>
    BY <2>1
  <2>3. k = <<k[1], k[2]>>
    BY DEF Key
  <2>4. c[1] = k[1] /\ c[2] = k[2] /\ c[3] = i
    BY <2>2
  <2>. QED
    BY <2>2, <2>3, <2>4
<1>2. ASSUME NEW k \in Key
      PROVE  k = <<k[1], k[2]>> /\ \A i \in DOMAIN Layout(k[1]) : <<k[1], k[2], i>> \in Cell
  BY DEF Key, Cell
<1>. QED
  BY <1>1, <1>2

LEMMA HookedStep ==
  ASSUME IInv, Bounds, Hooked, [Next]_vars
  PROVE  Hooked'
<1>1. CASE Open
  BY <1>1 DEF Open, hooked, Hooked
<1>2. CASE ResetObservation
  BY <1>2 DEF ResetObservation, Hooked
<1>3. CASE BeginProbe
  BY <1>3 DEF BeginProbe, Hooked, NoCapture
<1>4. CASE NextInput
  BY <1>4 DEF NextInput, hooked, Hooked
<1>5. CASE LinearRuns
  <2> DEFINE k == <<SiteAt(at), call>>
             host == OffloadInput(input)
  <2>1. /\ pc = "linear" /\ pc' \in {"input", "check"} /\ hooks' = hooks \cup {k}
        /\ captures' = [captures EXCEPT ![k] = host]
    BY <1>5 DEF LinearRuns
  <2> HIDE DEF k, host
  <2>2. \A l \in Key : l # k => captures'[l] = captures[l]
    BY <2>1 DEF IInv, Domains
  <2>. QED
    BY <2>1, <2>2 DEF Hooked
<1>6. CASE EndForward
  BY <1>6 DEF EndForward, Hooked
<1>7. CASE \E k \in Key : BackwardHook(k)
  BY <1>7 DEF BackwardHook, Hooked
<1>8. CASE EndBackward
  BY <1>8 DEF EndBackward, Hooked
<1>9. CASE FinishObservation
  BY <1>9 DEF FinishObservation, hooked, Hooked
<1>10. CASE Commit
  BY <1>10 DEF Commit, hooked, Hooked
<1>11. CASE Publish
  BY <1>11 DEF Publish, hooked, Hooked
<1>12. CASE MergeArtifacts
  BY <1>12 DEF MergeArtifacts, hooked, Hooked
<1>13. CASE Crash
  BY <1>13 DEF Crash, Hooked
<1>14. CASE UNCHANGED vars
  BY <1>14 DEF vars, hooked, Hooked
<1>15. CASE Over
  BY <1>14, <1>15 DEF Over
<1>. QED
  BY <1>1, <1>2, <1>3, <1>4, <1>5, <1>6, <1>7, <1>8, <1>9, <1>10, <1>11, <1>12, <1>13,
     <1>14, <1>15 DEF Next

\* What an observation is scored with is the same as long as it is collected.
LEMMA SameScores ==
  ASSUME UNCHANGED <<setting, shard, done>>
  PROVE  \A c, n : ScoresOf(c, n)' = ScoresOf(c, n)
<1>1. Current' = Current /\ (\A o, p : Content(o, p)' = Content(o, p))
      /\ \A l : PositionOf(l)' = PositionOf(l)
  BY DEF Current, Content, Origin, LastFed, HowFed, PositionOf
<1>. QED
  BY <1>1 DEF ScoresOf, Impact

LEMMA ScoringSame ==
  ASSUME Scoring, pc \in InObservation, UNCHANGED <<setting, shard, done, sums, deviceSums>>,
         \A k \in Key : Scored(k)' = Scored(k)
  PROVE  Scoring'
<1>1. \A c, n : ScoresOf(c, n)' = ScoresOf(c, n)
  BY SameScores
<1>2. {l \in Key : Scored(l)' > 0} = {l \in Key : Scored(l) > 0}
  OBVIOUS
<1>3. [k \in {l \in Key : Scored(l)' > 0} |->
        [i \in DOMAIN Layout(k[1]) |-> ScoresOf(<<k[1], k[2], i>>, Scored(k))']]
      = [k \in {l \in Key : Scored(l) > 0} |->
        [i \in DOMAIN Layout(k[1]) |-> ScoresOf(<<k[1], k[2], i>>, Scored(k))]]
  BY <1>1, <1>2
<1>4. [c \in Cell |-> ScoresOf(c, Scored(<<c[1], c[2]>>))']
      = [c \in Cell |-> ScoresOf(c, Scored(<<c[1], c[2]>>))]
  BY <1>1, Cells
<1>. QED
  BY <1>3, <1>4 DEF Scoring, NoSums

LEMMA ScoringBackward ==
  ASSUME IInv, Bounds, Scoring, NEW k \in Key, BackwardHook(k)
  PROVE  Scoring'
<1> DEFINE squares == [i \in DOMAIN Layout(k[1]) |-> Impact(<<k[1], k[2], i>>, probe, captures[k])]
<1>1. /\ pc = "backward" /\ pc' = "backward" /\ k \in hooks /\ k \in Reached
      /\ captures[k] # None /\ hooks' = hooks \ {k}
      /\ UNCHANGED <<setting, shard, done, probe>>
  BY DEF BackwardHook
<1>2. IF setting.optimized
      THEN /\ deviceSums' = [l \in DOMAIN deviceSums \cup {k} |->
                IF l # k THEN deviceSums[l]
                ELSE [i \in DOMAIN squares |->
                        IF k \in DOMAIN deviceSums THEN Append(deviceSums[k][i], squares[i])
                        ELSE <<squares[i]>>]]
           /\ UNCHANGED sums
      ELSE /\ sums' = [c \in Cell |-> IF <<c[1], c[2]>> = k
                                      THEN Append(sums[c], squares[c[3]]) ELSE sums[c]]
           /\ UNCHANGED deviceSums
  BY DEF BackwardHook
<1>3. captures[k] = Content(Current, PositionOf(k))
  BY <1>1 DEF IInv, CapturesFaithful
<1>4. probe \in Nat /\ probe >= 1
  BY CollectorAssumption DEF Bounds, TypeOK, Probe
<1>5. Scored(k) = probe - 1 /\ Scored(k)' = probe
  BY <1>1 DEF Scored
<1>6. \A l \in Key : l # k => Scored(l)' = Scored(l)
  BY <1>1 DEF Scored
<1>7. \A c, n : ScoresOf(c, n)' = ScoresOf(c, n)
  BY <1>1, SameScores
<1>8. k = <<k[1], k[2]>>
  BY Cells
\* Its scores, with that of this probe.
<1>9. ASSUME NEW i \in DOMAIN Layout(k[1])
      PROVE  LET c == <<k[1], k[2], i>>
             IN /\ Append(ScoresOf(c, probe - 1), squares[i]) = ScoresOf(c, probe)
                /\ probe = 1 => <<squares[i]>> = ScoresOf(c, probe)
  <2> DEFINE c == <<k[1], k[2], i>>
  <2>1. squares[i] = Impact(c, probe, Content(Current, PositionOf(<<c[1], c[2]>>)))
    BY <1>3, <1>8
  <2>2. probe - 1 \in Nat /\ (probe - 1) + 1 = probe
    BY <1>4
  <2> HIDE DEF c, squares
  <2>3. Append(ScoresOf(c, probe - 1), squares[i]) = ScoresOf(c, probe)
    BY <2>1, <2>2, NextScore
  <2>4. probe = 1 => <<squares[i]>> = ScoresOf(c, probe)
    BY <2>1, FirstScore
  <2>. QED
    BY <2>3, <2>4 DEF c
<1>10. CASE setting.optimized
  <2> DEFINE Table == [l \in {m \in Key : Scored(m)' > 0} |->
                        [i \in DOMAIN Layout(l[1]) |-> ScoresOf(<<l[1], l[2], i>>, Scored(l)')]]
  <2>1. /\ sums = [c \in Cell |-> <<>>]
        /\ deviceSums = [l \in {m \in Key : Scored(m) > 0} |->
             [i \in DOMAIN Layout(l[1]) |-> ScoresOf(<<l[1], l[2], i>>, Scored(l))]]
    BY <1>1, <1>10 DEF Scoring, InObservation
  <2>2. DOMAIN deviceSums = {m \in Key : Scored(m) > 0}
        /\ \A l \in DOMAIN deviceSums : deviceSums[l] =
             [i \in DOMAIN Layout(l[1]) |-> ScoresOf(<<l[1], l[2], i>>, Scored(l))]
    BY <2>1
  <2>3. {m \in Key : Scored(m)' > 0} = DOMAIN deviceSums \cup {k}
    BY <1>4, <1>5, <1>6, <2>2
  <2>4. DOMAIN squares = DOMAIN Layout(k[1])
    OBVIOUS
  <2> HIDE DEF squares
  <2>5. [i \in DOMAIN squares |->
           IF k \in DOMAIN deviceSums THEN Append(deviceSums[k][i], squares[i])
           ELSE <<squares[i]>>]
        = [i \in DOMAIN Layout(k[1]) |-> ScoresOf(<<k[1], k[2], i>>, probe)]
    <3>1. CASE k \in DOMAIN deviceSums
      <4>1. \A i \in DOMAIN Layout(k[1]) :
              deviceSums[k][i] = ScoresOf(<<k[1], k[2], i>>, probe - 1)
        BY <1>5, <2>2, <3>1
      <4>. QED
        BY <1>9, <2>4, <3>1, <4>1
    <3>2. CASE k \notin DOMAIN deviceSums
      <4>1. probe = 1
        BY <1>4, <1>5, <2>2, <3>2
      <4>. QED
        BY <1>9, <2>4, <3>2, <4>1
    <3>. QED
      BY <3>1, <3>2
  <2>6. \A l \in DOMAIN deviceSums \cup {k} :
          deviceSums'[l] = [i \in DOMAIN Layout(l[1]) |-> ScoresOf(<<l[1], l[2], i>>, Scored(l)')]
    <3>1. ASSUME NEW l \in DOMAIN deviceSums, l # k
          PROVE  deviceSums'[l] =
                   [i \in DOMAIN Layout(l[1]) |-> ScoresOf(<<l[1], l[2], i>>, Scored(l)')]
      <4>1. deviceSums'[l] = deviceSums[l]
        BY <1>2, <1>10, <3>1
      <4>2. Scored(l)' = Scored(l)
        BY <1>6, <2>2, <3>1
      <4>. QED
        BY <2>2, <4>1, <4>2
    <3>2. deviceSums'[k] = [i \in DOMAIN Layout(k[1]) |-> ScoresOf(<<k[1], k[2], i>>, probe)]
      BY <1>2, <1>10, <2>5
    <3>. QED
      BY <1>5, <3>1, <3>2
  <2>7. DOMAIN deviceSums' = DOMAIN deviceSums \cup {k}
        /\ deviceSums' = [l \in DOMAIN deviceSums' |-> deviceSums'[l]]
    BY <1>2, <1>10
  <2>8. deviceSums' = Table
    BY <2>3, <2>6, <2>7
  <2>9. sums' = [c \in Cell |-> <<>>]
    BY <1>2, <1>10, <2>1
  <2>10. setting'.optimized
    BY <1>1, <1>10
  <2>. QED
    BY <1>7, <2>8, <2>9, <2>10 DEF Scoring
<1>11. CASE ~setting.optimized
  <2>1. /\ deviceSums = NoSums
        /\ sums = [c \in Cell |-> ScoresOf(c, Scored(<<c[1], c[2]>>))]
    BY <1>1, <1>11 DEF Scoring, InObservation
  <2>2. ASSUME NEW c \in Cell PROVE sums'[c] = ScoresOf(c, Scored(<<c[1], c[2]>>)')
    <3>1. sums[c] = ScoresOf(c, Scored(<<c[1], c[2]>>)) /\ <<c[1], c[2]>> \in Key
          /\ c = <<c[1], c[2], c[3]>> /\ c[3] \in DOMAIN Layout(c[1])
      BY <2>1, Cells
    <3>2. CASE <<c[1], c[2]>> = k
      <4>1. c[1] = k[1] /\ c[2] = k[2] /\ c = <<k[1], k[2], c[3]>>
        BY <3>1, <3>2
      <4>2. sums'[c] = Append(sums[c], squares[c[3]])
        BY <1>2, <1>11, <3>2
      <4>3. sums[c] = ScoresOf(c, probe - 1)
        BY <1>5, <3>1, <3>2
      <4>4. c[3] \in DOMAIN Layout(k[1])
        BY <3>1, <4>1
      <4> HIDE DEF squares
      <4>5. Append(ScoresOf(c, probe - 1), squares[c[3]]) = ScoresOf(c, probe)
        BY <1>9, <4>1, <4>4
      <4>. QED
        BY <1>5, <3>2, <4>2, <4>3, <4>5
    <3>3. CASE <<c[1], c[2]>> # k
      BY <1>2, <1>6, <1>11, <3>1, <3>3
    <3>. QED
      BY <3>2, <3>3
  <2>3. sums' = [c \in Cell |-> sums'[c]]
    BY <1>2, <1>11
  <2>4. sums' = [c \in Cell |-> ScoresOf(c, Scored(<<c[1], c[2]>>)')]
    BY <2>2, <2>3
  <2>5. ~setting'.optimized /\ deviceSums' = NoSums
    BY <1>1, <1>2, <1>11, <2>1
  <2>6. NoSums' = NoSums
    BY DEF NoSums
  <2>. QED
    BY <1>7, <2>4, <2>5, <2>6 DEF Scoring
<1>. QED
  BY <1>10, <1>11

LEMMA ScoringStep ==
  ASSUME IInv, Bounds, Hooked, Scoring, [Next]_vars
  PROVE  Scoring'
<1>1. probe \in 1 .. NumProbes /\ NumProbes \in Nat
  BY CollectorAssumption DEF Bounds, TypeOK, Probe
<1>2. CASE ResetObservation
  <2>1. /\ pc' = "probe" /\ probe' = 1 /\ sums' = [c \in Cell |-> <<>>] /\ deviceSums' = NoSums
    BY <1>2 DEF ResetObservation
  <2>2. \A k : Scored(k)' = 0
    BY <2>1 DEF Scored
  <2>3. \A c : ScoresOf(c, 0)' = <<>>
    <3>1. 1 .. 0 = {}
      OBVIOUS
    <3>. QED
      BY <3>1 DEF ScoresOf
  <2>4. {l \in Key : Scored(l)' > 0} = {}
    BY <2>2
  <2>5. sums' = [c \in Cell |-> ScoresOf(c, Scored(<<c[1], c[2]>>))']
    BY <2>1, <2>2, <2>3
  <2>6. deviceSums' = [k \in {l \in Key : Scored(l)' > 0} |->
          [i \in DOMAIN Layout(k[1]) |-> ScoresOf(<<k[1], k[2], i>>, Scored(k))']]
    BY <2>1, <2>4 DEF NoSums
  <2>7. NoSums' = NoSums
    BY DEF NoSums
  <2>. QED
    BY <2>1, <2>5, <2>6, <2>7 DEF Scoring
<1>3. CASE BeginProbe
  <2>1. pc = "probe" /\ pc' = "input"
        /\ UNCHANGED <<setting, shard, done, probe, sums, deviceSums>>
    BY <1>3 DEF BeginProbe, scores
  <2>2. \A k \in Key : Scored(k)' = Scored(k)
    BY <2>1 DEF Scored
  <2>. QED
    BY <2>1, <2>2, ScoringSame DEF InObservation
<1>4. CASE NextInput
  <2>1. pc = "input" /\ pc' = "linear"
        /\ UNCHANGED <<setting, shard, done, probe, sums, deviceSums>>
    BY <1>4 DEF NextInput, scores
  <2>2. \A k \in Key : Scored(k)' = Scored(k)
    BY <2>1 DEF Scored
  <2>. QED
    BY <2>1, <2>2, ScoringSame DEF InObservation
<1>5. CASE LinearRuns
  <2>1. pc = "linear" /\ pc' \in {"input", "check"}
        /\ UNCHANGED <<setting, shard, done, probe, sums, deviceSums>>
    BY <1>5 DEF LinearRuns, scores
  <2>2. \A k \in Key : Scored(k)' = Scored(k)
    BY <2>1 DEF Scored
  <2>. QED
    BY <2>1, <2>2, ScoringSame DEF InObservation
<1>6. CASE EndForward
  <2>1. pc = "check" /\ pc' = "backward" /\ hooks' = hooks
        /\ (\A k \in Key : captures[k] # None)
        /\ UNCHANGED <<setting, shard, done, probe, sums, deviceSums>>
    BY <1>6 DEF EndForward, scores
  <2>2. \A k \in Key : k \in hooks
    BY <2>1 DEF Hooked
  <2>3. \A k \in Key : Scored(k)' = Scored(k)
    BY <2>1, <2>2 DEF Scored
  <2>. QED
    BY <2>1, <2>3, ScoringSame DEF InObservation
<1>7. CASE \E k \in Key : BackwardHook(k)
  BY <1>7, ScoringBackward
<1>8. CASE EndBackward
  <2>1. pc = "backward" /\ hooks \cap Reached = {}
        /\ ((probe < NumProbes /\ probe' = probe + 1 /\ pc' = "probe")
            \/ (~(probe < NumProbes) /\ probe' = probe /\ pc' = "finish"))
        /\ UNCHANGED <<setting, shard, done, sums, deviceSums>>
    BY <1>8 DEF EndBackward, MoreProbes, scores
  <2>2. \A k \in Key : Scored(k)' = Scored(k)
    BY <1>1, <2>1 DEF Scored
  <2>. QED
    BY <2>1, <2>2, ScoringSame DEF InObservation
<1>9. CASE UNCHANGED vars
  <2>1. UNCHANGED <<setting, shard, done, pc, probe, hooks, sums, deviceSums>>
    BY <1>9 DEF vars, scores, hooked
  <2>2. \A k \in Key : Scored(k)' = Scored(k)
    BY <2>1 DEF Scored
  <2>3. CASE pc \in InObservation
    BY <2>1, <2>2, <2>3, ScoringSame
  <2>4. CASE pc \notin InObservation
    BY <2>1, <2>4 DEF Scoring, InObservation
  <2>. QED
    BY <2>3, <2>4
<1>10. CASE Open \/ FinishObservation \/ Commit \/ Publish \/ MergeArtifacts \/ Crash
  <2>1. pc' \in {"observe", "commit", "open", "merge", "over"}
    BY <1>10 DEF Open, FinishObservation, Commit, Publish, MergeArtifacts, Crash
  <2>. QED
    BY <2>1 DEF Scoring, InObservation
<1>11. CASE Over
  BY <1>9, <1>11 DEF Over
<1>. QED
  BY <1>2, <1>3, <1>4, <1>5, <1>6, <1>7, <1>8, <1>9, <1>10, <1>11 DEF Next

-----------------------------------------------------------------------------
\* A layout is a sequence of streams that hold all tokens of the site.
LEMMA LayoutShape ==
  ASSUME NEW s \in SiteIndex
  PROVE  /\ Len(Layout(s)) \in Nat /\ DOMAIN Layout(s) = 1 .. Len(Layout(s))
         /\ \A i \in DOMAIN Layout(s) : Layout(s)[i].tokens \in Nat
         /\ TokensUpto(Layout(s), Len(Layout(s))) = Site[s].tokens
<1> DEFINE site == Site[s]
           layout == IF site.kind = "context" THEN ContextLayout(site.tokens, StreamConfig)
                     ELSE IF site.expert = "video"
                          THEN EqualGroups("latent_frame", site.tokens, StreamConfig.frames)
                          ELSE EqualGroups("action_chunk", site.tokens, StreamConfig.chunks)
<1>1. Layout(s) # Rejected
  BY CollectorAssumption
<1>2. /\ ValidConfig(StreamConfig) /\ site.tokens > 0 /\ ValidLayout(layout, site.tokens)
      /\ Layout(s) = layout
  BY <1>1 DEF Layout, ResolveStreamLayout
<1>3. /\ TokensUpto(layout, Len(layout)) = site.tokens
      /\ \A i \in DOMAIN layout : layout[i].tokens > 0
  BY <1>2 DEF ValidLayout
<1>4. /\ StreamConfig.frames \in Nat /\ StreamConfig.chunks \in Nat /\ StreamConfig.proprio \in Nat
      /\ site.tokens \in Nat
  BY CollectorAssumption
<1>5. ASSUME NEW prefix, NEW n \in Nat, NEW g \in Nat, g > 0, EqualGroups(prefix, n, g) # Rejected
      PROVE  /\ Len(EqualGroups(prefix, n, g)) \in Nat
             /\ DOMAIN EqualGroups(prefix, n, g) = 1 .. Len(EqualGroups(prefix, n, g))
             /\ \A i \in DOMAIN EqualGroups(prefix, n, g) :
                  EqualGroups(prefix, n, g)[i].tokens \in Nat
  <2> DEFINE t == n \div g
  <2>1. EqualGroups(prefix, n, g) = [i \in 1 .. g |-> Stream(<<prefix, i>>, t)]
    BY <1>5 DEF EqualGroups
  <2>2. t \in Nat
    BY <1>5, Division
  <2> HIDE DEF t
  <2>3. DOMAIN EqualGroups(prefix, n, g) = 1 .. g
        /\ \A i \in 1 .. g : EqualGroups(prefix, n, g)[i].tokens = t
    BY <2>1 DEF Stream
  <2>4. Len(EqualGroups(prefix, n, g)) = g
    BY <2>3
  <2>. QED
    BY <2>2, <2>3, <2>4
<1>6. CASE site.kind = "context"
  <2> DEFINE a == <<Stream(<<"context">>, site.tokens)>>
             b == <<Stream(<<"text">>, site.tokens - StreamConfig.proprio),
                    Stream(<<"proprio">>, StreamConfig.proprio)>>
  <2>1. layout = a \/ layout = b
    BY <1>6 DEF ContextLayout
  <2>2. CASE layout = a
    BY SMTT(30), <1>2, <1>3, <1>4, <2>2 DEF Stream
  <2>3. CASE layout = b
    <3>1. Len(layout) = 2 /\ DOMAIN layout = 1 .. 2
      BY <2>3
    <3>2. /\ layout[1].tokens = site.tokens - StreamConfig.proprio
          /\ layout[2].tokens = StreamConfig.proprio
      BY <2>3 DEF Stream
    <3> HIDE DEF layout
    <3>3. layout[1].tokens \in Nat /\ layout[2].tokens \in Nat
      BY <1>3, <1>4, <3>1, <3>2
    <3>. QED
      BY <1>2, <1>3, <3>1, <3>3
  <2>. QED
    BY <2>1, <2>2, <2>3
<1>7. CASE site.kind # "context"
  <2>1. PICK prefix, g : /\ g \in {StreamConfig.frames, StreamConfig.chunks}
                         /\ layout = EqualGroups(prefix, site.tokens, g)
    BY <1>7
  <2>2. g \in Nat /\ g > 0
    BY <1>2, <1>4, <2>1 DEF ValidConfig
  <2>. QED
    BY SMTT(30), <1>1, <1>2, <1>3, <1>4, <1>5, <2>1, <2>2
<1>. QED
  BY <1>6, <1>7

\* What finish_observation takes out of the one flat tensor is, cell by cell,
\* the scores of that cell.
LEMMA FinalScores ==
  ASSUME Bounds, Scoring, pc = "finish", NEW c \in Cell
  PROVE  FinalSums[c] = ScoresOf(c, Scored(<<c[1], c[2]>>))
<1> DEFINE k == <<c[1], c[2]>>
           keys == ScoredKeys
           flat == FlattenSeq([n \in DOMAIN keys |-> deviceSums[keys[n]]])
<1>1. c = <<c[1], c[2], c[3]>> /\ k \in Key /\ c[3] \in DOMAIN Layout(c[1])
  BY Cells
<1>2. FinalSums[c] =
        IF k \notin DOMAIN deviceSums THEN sums[c]
        ELSE flat[Offset(keys, CHOOSE n \in DOMAIN keys : keys[n] = k) + c[3]]
  BY DEF FinalSums
<1> HIDE DEF k
<1>3. CASE ~setting.optimized
  <2>1. deviceSums = NoSums /\ sums[c] = ScoresOf(c, Scored(k))
    BY <1>3 DEF Scoring, InObservation, k
  <2>. QED
    BY <1>2, <2>1 DEF NoSums, k
<1>4. CASE setting.optimized
  <2> DEFINE K == {l \in Key : Scored(l) > 0}
  <2>1. /\ sums = [d \in Cell |-> <<>>] /\ DOMAIN deviceSums = K
        /\ \A l \in K : deviceSums[l] =
             [i \in DOMAIN Layout(l[1]) |-> ScoresOf(<<l[1], l[2], i>>, Scored(l))]
    BY <1>4 DEF Scoring, InObservation
  <2>2. \A l : Scored(l) \in {0, NumProbes} /\ NumProbes \in Nat \ {0}
    BY CollectorAssumption DEF Scored
  <2>3. CASE k \notin K
    <3>1. Scored(k) = 0
      BY <1>1, <2>2, <2>3
    <3>2. FinalSums[c] = <<>>
      BY <1>2, <2>1, <2>3
    <3>. QED
      BY <3>1, <3>2, NoScores DEF k
  <2>4. CASE k \in K
    <3> DEFINE N == Cardinality(K)
               V == {deviceSums[l][i] : l \in K, i \in UNION {DOMAIN Layout(l[1]) : l \in K}}
               seqs == [n \in DOMAIN keys |-> deviceSums[keys[n]]]
               e == [m \in 1 .. N |-> Len(Layout(keys[m][1]))]
    <3>1. /\ IsFiniteSet(K) /\ N \in Nat /\ DOMAIN keys = 1 .. N
          /\ (\A n \in 1 .. N : keys[n] \in K)
          /\ \E n \in 1 .. N : keys[n] = k
      <4>1. K \in SUBSET Key
        OBVIOUS
      <4>2. keys = Sorted(K)
        BY <2>1 DEF ScoredKeys
      <4> HIDE DEF K, keys
      <4>. QED
        BY <2>4, <4>1, <4>2, SortedFacts
    <3>2. \A l \in K : /\ Len(Layout(l[1])) \in Nat
                       /\ DOMAIN Layout(l[1]) = 1 .. Len(Layout(l[1]))
                       /\ DOMAIN deviceSums[l] = 1 .. Len(Layout(l[1]))
      BY <2>1, LayoutShape DEF Key
    <3>3. ASSUME NEW l \in K
          PROVE  deviceSums[l] \in Seq(V) /\ Len(deviceSums[l]) = Len(Layout(l[1]))
      <4> DEFINE q == deviceSums[l]
                 z == Len(Layout(l[1]))
      <4>1. DOMAIN q = 1 .. z /\ z \in Nat /\ q = [i \in 1 .. z |-> q[i]]
        BY <2>1, <3>2
      <4>2. \A i \in 1 .. z : q[i] \in V
        BY <3>2
      <4> HIDE DEF q, z, V
      <4>3. q \in [1 .. z -> V]
        BY <4>1, <4>2
      <4>4. q \in Seq(V)
        BY <4>1, <4>3, SeqDef
      <4>. QED
        BY <4>1, <4>4 DEF q, z
    <3> DEFINE n == CHOOSE j \in DOMAIN keys : keys[j] = k
    <3>4. n \in 1 .. N /\ keys[n] = k
      BY <3>1
    <3> HIDE DEF K, V, keys, n
    <3>5. seqs \in Seq(Seq(V)) /\ Len(seqs) = N
      <4> DEFINE W == Seq(V)
      <4>1. seqs \in [1 .. N -> W]
        BY <3>1, <3>3
      <4> HIDE DEF W, seqs, N
      <4>2. seqs \in Seq(W)
        BY <3>1, <4>1, SeqDef
      <4>. QED
        BY <3>1, <4>1, <4>2 DEF W
    <3>6. \A m \in 1 .. Len(seqs) : e[m] = Len(seqs[m])
      BY <3>1, <3>3, <3>5
    <3>7. Offset(keys, n) = UptoSum(e, n - 1)
      <4>1. \A m \in 1 .. n - 1 : e[m] = Len(Layout(keys[m][1]))
        BY <3>1, <3>4
      <4> HIDE DEF e
      <4>2. [m \in 1 .. n - 1 |-> Len(Layout(keys[m][1]))] = [m \in 1 .. n - 1 |-> e[m]]
        BY <4>1
      <4>. QED
        BY <4>2 DEF Offset, UptoSum
    <3>8. seqs[n] = deviceSums[k]
      BY <3>1, <3>4
    <3>9. c[3] \in 1 .. Len(seqs[n])
      BY <1>1, <2>4, <3>2, <3>3, <3>8 DEF k
    <3> HIDE DEF seqs, e
    <3>10. flat[UptoSum(e, n - 1) + c[3]] = seqs[n][c[3]]
      <4>1. InPlace(seqs[n], UptoSum(e, n - 1), FlattenSeq(seqs))
        BY <3>4, <3>5, <3>6, Flattened
      <4>. QED
        BY <3>9, <4>1 DEF InPlace, seqs
    <3>11. FinalSums[c] = deviceSums[k][c[3]]
      BY <1>2, <2>1, <2>4, <3>7, <3>8, <3>10 DEF n
    <3>12. deviceSums[k][c[3]] = ScoresOf(<<k[1], k[2], c[3]>>, Scored(k))
      BY <1>1, <2>1, <2>4 DEF k
    <3>. QED
      BY <1>1, <3>11, <3>12 DEF k
  <2>. QED
    BY <2>3, <2>4
<1>. QED
  BY <1>3, <1>4

LEMMA Finished ==
  ASSUME Bounds, Scoring, pc = "finish", NEW s \in SiteIndex
  PROVE  [c \in CellsOf(s) |-> FinalSums[c]] = Reference(Current, s)
<1>1. ASSUME NEW c \in CellsOf(s)
      PROVE  FinalSums[c] =
               IF <<s, c[2]>> \notin Reached THEN <<>>
               ELSE [r \in Probe |-> Impact(c, r, Content(Current, PositionOf(<<s, c[2]>>)))]
  <2>1. c \in Cell /\ c[1] = s
    BY DEF CellsOf
  <2>2. FinalSums[c] = ScoresOf(c, Scored(<<s, c[2]>>))
    BY <2>1, FinalScores
  <2>3. CASE <<s, c[2]>> \notin Reached
    BY <2>2, <2>3, NoScores DEF Scored
  <2>4. CASE <<s, c[2]>> \in Reached
    <3>1. Scored(<<s, c[2]>>) = NumProbes
      BY <2>4 DEF Scored
    <3>. QED
      BY <2>1, <2>2, <2>4, <3>1 DEF ScoresOf, Probe
  <2>. QED
    BY <2>3, <2>4
<1>. QED
  BY <1>1 DEF Reference

-----------------------------------------------------------------------------
\* Counting.  What the accumulator, the snapshot and the artifacts hold.

LEMMA Appended ==
  ASSUME NEW q, \E S : q \in Seq(S), NEW x
  PROVE  /\ \E S : Append(q, x) \in Seq(S)
         /\ Len(q) \in Nat /\ DOMAIN q = 1 .. Len(q)
         /\ Len(Append(q, x)) = Len(q) + 1 /\ DOMAIN Append(q, x) = 1 .. Len(q) + 1
         /\ \A i \in 1 .. Len(q) : Append(q, x)[i] = q[i]
         /\ Append(q, x)[Len(q) + 1] = x
<1>1. PICK S : q \in Seq(S)
  OBVIOUS
<1>2. q \in Seq(S \cup {x}) /\ x \in S \cup {x}
  BY <1>1
<1>3. Append(q, x) \in Seq(S \cup {x})
  BY <1>2
<1>. QED
  BY <1>2, <1>3

\* Disjoint sets have together as many elements as each of them in sum.
LEMMA UnionCardinality ==
  ASSUME NEW A, NEW n \in Nat, \A i \in 1 .. n : IsFiniteSet(A[i]),
         \A i, j \in 1 .. n : i # j => A[i] \cap A[j] = {}
  PROVE  /\ IsFiniteSet(UNION {A[i] : i \in 1 .. n})
         /\ Cardinality(UNION {A[i] : i \in 1 .. n}) =
              SumFunction([i \in 1 .. n |-> Cardinality(A[i])])
<1> DEFINE e == [i \in 1 .. n |-> Cardinality(A[i])]
           U(m) == UNION {A[i] : i \in 1 .. m}
           Good(m) == m <= n => IsFiniteSet(U(m)) /\ Cardinality(U(m)) = UptoSum(e, m)
           S == {m \in Nat : Good(m)}
<1>1. \A m \in 1 .. n : e[m] = Cardinality(A[m]) /\ e[m] \in Nat
  BY FS_CardinalityType
<1>2. 0 \in S
  <2>1. U(0) = {}
    OBVIOUS
  <2> HIDE DEF e, U
  <2>. QED
    BY <2>1, FS_EmptySet, SumUptoNone
<1>3. ASSUME NEW m \in Nat, m \in S PROVE m + 1 \in S
  <2>1. SUFFICES ASSUME m + 1 <= n PROVE Good(m + 1)
    OBVIOUS
  <2>2. m + 1 \in 1 .. n /\ IsFiniteSet(U(m)) /\ Cardinality(U(m)) = UptoSum(e, m)
    BY <1>3, <2>1
  <2>3. U(m + 1) = U(m) \cup A[m + 1]
    <3>1. 1 .. m + 1 = (1 .. m) \cup {m + 1}
      OBVIOUS
    <3>. QED
      BY <3>1
  <2>4. U(m) \cap A[m + 1] = {}
    <3>1. \A i \in 1 .. m : i \in 1 .. n /\ i # m + 1
      BY <2>2
    <3>2. \A i \in 1 .. m : A[i] \cap A[m + 1] = {}
      BY <2>2, <3>1
    <3>. QED
      BY <3>2
  <2>5. IsFiniteSet(A[m + 1])
    BY <2>2
  <2> HIDE DEF U
  <2>6. /\ IsFiniteSet(U(m + 1))
        /\ Cardinality(U(m + 1)) = Cardinality(U(m)) + Cardinality(A[m + 1])
    <3>1. Cardinality({}) = 0 /\ Cardinality(U(m)) \in Nat /\ Cardinality(A[m + 1]) \in Nat
      BY <2>2, <2>5, FS_EmptySet, FS_CardinalityType
    <3>2. /\ IsFiniteSet(U(m) \cup A[m + 1])
          /\ Cardinality(U(m) \cup A[m + 1]) =
               Cardinality(U(m)) + Cardinality(A[m + 1]) - Cardinality(U(m) \cap A[m + 1])
      BY <2>2, <2>5, FS_Union
    <3>3. Cardinality(U(m) \cap A[m + 1]) = 0
      BY <2>4, <3>1
    <3>4. IsFiniteSet(U(m + 1)) /\ Cardinality(U(m + 1)) = Cardinality(U(m) \cup A[m + 1])
      BY <2>3, <3>2
    <3>. QED
      BY <3>1, <3>2, <3>3, <3>4
  <2>7. UptoSum(e, m + 1) = UptoSum(e, m) + e[m + 1]
    <3>1. \A i \in 1 .. m + 1 : e[i] \in Nat
      BY <1>1, <2>2
    <3> HIDE DEF e
    <3>. QED
      BY <3>1, SumUpto
  <2>. QED
    BY <1>1, <2>2, <2>6, <2>7
<1> HIDE DEF Good
<1>4. n \in S
  <2> HIDE DEF S
  <2>. QED
    BY <1>2, <1>3, NatSetInduction
<1>5. Good(n)
  BY <1>4
<1>6. UptoSum(e, n) = SumFunction([i \in 1 .. n |-> Cardinality(A[i])])
  BY DEF UptoSum
<1>. QED
  BY <1>5, <1>6 DEF Good

LEMMA UptoFacts ==
  ASSUME NEW h \in DOMAIN Shard
  PROVE  /\ Upto(h, 0) = {}
         /\ \A n \in 0 .. Len(Shard[h]) : IsFiniteSet(Upto(h, n))
         /\ \A n \in 0 .. Len(Shard[h]) : n < Len(Shard[h]) =>
              /\ Shard[h][n + 1] \notin Upto(h, n)
              /\ Upto(h, n + 1) = Upto(h, n) \cup {Shard[h][n + 1]}
<1>1. Len(Shard[h]) \in Nat /\ DOMAIN Shard[h] = 1 .. Len(Shard[h])
  BY ShardFacts
<1>2. Upto(h, 0) = {}
  BY DEF Upto
<1>3. ASSUME NEW n \in 0 .. Len(Shard[h]), n < Len(Shard[h])
      PROVE  /\ Shard[h][n + 1] \notin Upto(h, n)
             /\ Upto(h, n + 1) = Upto(h, n) \cup {Shard[h][n + 1]}
  <2>1. n + 1 \in DOMAIN Shard[h] /\ \A m \in 1 .. n : m \in DOMAIN Shard[h] /\ m # n + 1
    BY <1>1, <1>3
  <2>2. \A m \in 1 .. n : Shard[h][n + 1] # Shard[h][m]
    BY <2>1, CollectorAssumption
  <2>3. 1 .. n + 1 = (1 .. n) \cup {n + 1}
    OBVIOUS
  <2>. QED
    BY <2>2, <2>3 DEF Upto
<1>4. \A n \in 0 .. Len(Shard[h]) : IsFiniteSet(Upto(h, n))
  <2> DEFINE S == {n \in Nat : n <= Len(Shard[h]) => IsFiniteSet(Upto(h, n))}
  <2>1. 0 \in S
    BY <1>2, FS_EmptySet
  <2>2. ASSUME NEW n \in Nat, n \in S PROVE n + 1 \in S
    <3>1. SUFFICES ASSUME n + 1 <= Len(Shard[h]) PROVE IsFiniteSet(Upto(h, n + 1))
      OBVIOUS
    <3>2. n \in 0 .. Len(Shard[h]) /\ n < Len(Shard[h])
      BY <1>1, <3>1
    <3>3. IsFiniteSet(Upto(h, n)) /\ Upto(h, n + 1) = Upto(h, n) \cup {Shard[h][n + 1]}
      BY <1>3, <2>2, <3>2
    <3>. QED
      BY <3>3, FS_AddElement
  <2> HIDE DEF S
  <2>3. Nat \subseteq S
    BY <2>1, <2>2, NatSetInduction
  <2>. QED
    BY <1>1, <2>3 DEF S
<1>. QED
  BY <1>2, <1>3, <1>4

LEMMA SameReference ==
  ASSUME UNCHANGED setting
  PROVE  /\ \A o, s : Reference(o, s)' = Reference(o, s)
         /\ \A sites, seen : ScoresAre(sites, seen)' = ScoresAre(sites, seen)
<1>1. \A o, p : Content(o, p)' = Content(o, p)
  BY DEF Content, Origin, LastFed, HowFed
<1>2. \A o, s : Reference(o, s)' = Reference(o, s)
  BY <1>1 DEF Reference, Impact, PositionOf
<1>. QED
  BY <1>2 DEF ScoresAre

LEMMA NothingCounted == ScoresAre(NewAccumulator, {})
<1>1. Cardinality({}) = 0
  BY FS_EmptySet
<1>. QED
  BY <1>1 DEF ScoresAre, NewAccumulator

LEMMA Added ==
  ASSUME NEW sites, NEW seen, IsFiniteSet(seen), ScoresAre(sites, seen), NEW o, o \notin seen,
         NEW values, \A s \in SiteIndex : values[s] = Reference(o, s)
  PROVE  ScoresAre(AddObservation(sites, values), seen \cup {o})
<1>1. Cardinality(seen \cup {o}) = Cardinality(seen) + 1
  BY FS_AddElement
<1>2. ASSUME NEW s \in SiteIndex
      PROVE  AddObservation(sites, values)[s] =
               [terms |-> {Reference(q, s) : q \in seen \cup {o}},
                count |-> Cardinality(seen \cup {o})]
  <2>1. sites[s] = [terms |-> {Reference(q, s) : q \in seen}, count |-> Cardinality(seen)]
    BY DEF ScoresAre
  <2>2. {Reference(q, s) : q \in seen \cup {o}} = {Reference(q, s) : q \in seen} \cup {values[s]}
    OBVIOUS
  <2>3. /\ sites[s].terms = {Reference(q, s) : q \in seen}
        /\ sites[s].count = Cardinality(seen)
    BY <2>1
  <2>. QED
    BY <1>1, <2>2, <2>3 DEF AddObservation
<1>. QED
  BY <1>2 DEF ScoresAre

\* SensitivityField.merge adds up what the shards have counted.
LEMMA MergedFields ==
  ASSUME NEW fields, DOMAIN fields = DOMAIN Shard,
         \A h \in DOMAIN Shard : ScoresAre(fields[h].sites, Upto(h, Len(Shard[h])))
  PROVE  ScoresAre(MergeFields(fields).sites, Observation)
<1> DEFINE N == Len(Shard)
           A == [h \in 1 .. N |-> Upto(h, Len(Shard[h]))]
<1>1. N \in Nat /\ DOMAIN Shard = 1 .. N
      /\ \A h \in 1 .. N : Len(Shard[h]) \in Nat /\ DOMAIN Shard[h] = 1 .. Len(Shard[h])
  BY ShardFacts
<1>2. Observation = UNION {A[h] : h \in 1 .. N}
  BY <1>1 DEF Observation, Upto
<1>3. \A h \in 1 .. N : IsFiniteSet(A[h])
  <2>1. \A h \in 1 .. N : Len(Shard[h]) \in 0 .. Len(Shard[h])
    BY <1>1
  <2>. QED
    BY <1>1, <2>1, UptoFacts
<1>4. \A h, g \in 1 .. N : h # g => A[h] \cap A[g] = {}
  <2>1. ASSUME NEW h \in 1 .. N, NEW g \in 1 .. N, h # g, NEW o \in A[h], o \in A[g] PROVE FALSE
    <3>1. PICK n \in DOMAIN Shard[h] : o = Shard[h][n]
      BY <1>1, <2>1 DEF Upto
    <3>2. PICK m \in DOMAIN Shard[g] : o = Shard[g][m]
      BY <1>1, <2>1 DEF Upto
    <3>. QED
      BY <1>1, <2>1, <3>1, <3>2, CollectorAssumption
  <2>. QED
    BY <2>1
<1>5. Cardinality(Observation) = SumFunction([h \in 1 .. N |-> Cardinality(A[h])])
  <2> HIDE DEF A, N
  <2>. QED
    BY <1>1, <1>2, <1>3, <1>4, UnionCardinality
<1>6. ASSUME NEW s \in SiteIndex
      PROVE  MergeFields(fields).sites[s] =
               [terms |-> {Reference(o, s) : o \in Observation},
                count |-> Cardinality(Observation)]
  <2>1. \A h \in 1 .. N : fields[h].sites[s] =
          [terms |-> {Reference(o, s) : o \in A[h]}, count |-> Cardinality(A[h])]
    BY <1>1 DEF ScoresAre
  <2> HIDE DEF A
  <2>2. ASSUME NEW h \in 1 .. N
        PROVE  /\ fields[h].sites[s].terms = {Reference(o, s) : o \in A[h]}
               /\ fields[h].sites[s].count = Cardinality(A[h])
    <3> DEFINE T == {Reference(o, s) : o \in A[h]}
    <3>1. fields[h].sites[s] = [terms |-> T, count |-> Cardinality(A[h])]
      BY <2>1
    <3> HIDE DEF T
    <3>2. fields[h].sites[s].terms = T /\ fields[h].sites[s].count = Cardinality(A[h])
      BY <3>1
    <3>. QED
      BY <3>2 DEF T
  <2>3. UNION {fields[h].sites[s].terms : h \in 1 .. N} = {Reference(o, s) : o \in Observation}
    BY <1>2, <2>2
  <2>4. [h \in 1 .. N |-> fields[h].sites[s].count] = [h \in 1 .. N |-> Cardinality(A[h])]
    BY <2>2
  <2>5. MergeFields(fields).sites[s] =
          [terms |-> UNION {fields[h].sites[s].terms : h \in 1 .. N},
           count |-> SumFunction([h \in 1 .. N |-> fields[h].sites[s].count])]
    BY <1>1 DEF MergeFields
  <2>. QED
    BY <1>5, <2>3, <2>4, <2>5
<1>. QED
  BY <1>6 DEF ScoresAre

Ended == {"merge", "over"}

\* MatchesReference, and which artifacts there are.
Counted ==
  /\ MatchesReference
  /\ \E S : published \in Seq(S)
  /\ Len(published) = IF pc \in Ended THEN Len(Shard) ELSE shard - 1
  /\ pc \in Ended => shard = Len(Shard)

LEMMA CountedSame ==
  ASSUME Counted, pc \notin Ended \cup {"open"}, pc' \notin Ended \cup {"open"},
         UNCHANGED <<setting, shard, done, accumulator, progress, published, merged>>
  PROVE  Counted'
<1>1. \A sites, seen : ScoresAre(sites, seen)' = ScoresAre(sites, seen)
  BY SameReference
<1>2. \A h, n : Upto(h, n)' = Upto(h, n)
  BY DEF Upto
<1>. QED
  BY <1>1, <1>2 DEF Counted, MatchesReference, Ended

LEMMA CountedFinish ==
  ASSUME Bounds, Scoring, Counted, FinishObservation
  PROVE  Counted'
<1> DEFINE values == [s \in SiteIndex |-> [c \in CellsOf(s) |-> FinalSums[c]]]
           seen == Upto(shard, done)
<1>1. /\ pc = "finish" /\ pc' = "commit" /\ accumulator' = AddObservation(accumulator, values)
      /\ done' = done + 1 /\ UNCHANGED <<setting, shard, progress, published, merged>>
  BY DEF FinishObservation, disk
<1>2. /\ shard \in DOMAIN Shard /\ done \in 0 .. Len(Shard[shard]) /\ done < Len(Shard[shard])
  BY <1>1 DEF Bounds, TypeOK, InObservation
<1>3. \A s \in SiteIndex : values[s] = Reference(Current, s)
  BY <1>1, Finished
<1>4. /\ IsFiniteSet(seen) /\ Current \notin seen
      /\ Upto(shard, done + 1) = seen \cup {Current}
  BY <1>2, UptoFacts DEF Current
<1>5. ScoresAre(accumulator, seen)
  BY <1>1 DEF Counted, MatchesReference
<1>6. ScoresAre(accumulator', Upto(shard, done + 1))
  <2> HIDE DEF values, seen
  <2>. QED
    BY <1>1, <1>3, <1>4, <1>5, Added
<1>7. \A sites, set : ScoresAre(sites, set)' = ScoresAre(sites, set)
  BY <1>1, SameReference
<1>8. \A h, n : Upto(h, n)' = Upto(h, n)
  BY DEF Upto
<1>. QED
  BY <1>1, <1>6, <1>7, <1>8 DEF Counted, MatchesReference, Ended

\* A published artifact comes behind those of the shards before.
NewArtifact == [field |-> Finalize(accumulator, cache.config), cache |-> StateDict(cache)]

LEMMA PublishAppends ==
  ASSUME Bounds, Counted, Publish
  PROVE  /\ \E S : published' \in Seq(S)
         /\ shard \in DOMAIN Shard /\ Len(published') = shard
         /\ DOMAIN published' = 1 .. shard /\ DOMAIN published = 1 .. shard - 1
         /\ \A h \in 1 .. shard - 1 : published'[h] = published[h]
         /\ published'[shard] = NewArtifact
<1> DEFINE q == published
           r == Append(q, NewArtifact)
<1>1. shard \in DOMAIN Shard /\ shard \in Nat /\ (shard - 1) + 1 = shard
  BY ShardFacts DEF Bounds, TypeOK
<1>2. pc = "observe" /\ published' = r
  BY DEF Publish, NewArtifact
<1>3. Len(q) = shard - 1 /\ \E S : q \in Seq(S)
  BY <1>2 DEF Counted, Ended
<1> HIDE DEF q
<1>4. \E S : r \in Seq(S)
  BY <1>3, Appended
<1>5. DOMAIN q = 1 .. Len(q) /\ \A i \in 1 .. Len(q) : r[i] = q[i]
  BY <1>3, Appended
<1>6. Len(r) = Len(q) + 1 /\ DOMAIN r = 1 .. Len(q) + 1
  BY <1>3, Appended
<1>7. r[Len(q) + 1] = NewArtifact
  BY <1>3, Appended
<1> HIDE DEF r
<1>8. /\ \E S : published' \in Seq(S)
      /\ DOMAIN q = 1 .. shard - 1 /\ Len(published') = shard /\ DOMAIN published' = 1 .. shard
      /\ \A i \in 1 .. shard - 1 : published'[i] = q[i]
      /\ published'[shard] = NewArtifact
  BY <1>1, <1>2, <1>3, <1>4, <1>5, <1>6, <1>7
<1>. QED
  BY <1>1, <1>8 DEF q

LEMMA CountedPublish ==
  ASSUME Bounds, Counted, Publish
  PROVE  Counted'
<1>1. /\ pc = "observe" /\ done = Len(Shard[shard])
      /\ progress' = None /\ done' = 0 /\ UNCHANGED <<setting, merged>>
      /\ \/ shard < Len(Shard) /\ shard' = shard + 1 /\ pc' = "open"
         \/ ~(shard < Len(Shard)) /\ pc' = "merge" /\ UNCHANGED <<shard, accumulator>>
  BY DEF Publish, collected
<1>2. shard \in DOMAIN Shard /\ DOMAIN Shard = 1 .. Len(Shard) /\ Len(Shard) \in Nat
  BY ShardFacts DEF Bounds, TypeOK
<1>3. NewArtifact.field.sites = accumulator
  BY DEF Finalize, NewArtifact
<1>4. ScoresAre(accumulator, Upto(shard, Len(Shard[shard])))
  BY <1>1 DEF Counted, MatchesReference
<1>6. /\ \E S : published' \in Seq(S)
      /\ Len(published') = shard /\ DOMAIN published' = 1 .. shard /\ DOMAIN published = 1 .. shard - 1
      /\ \A h \in 1 .. shard - 1 : published'[h] = published[h]
      /\ published'[shard] = NewArtifact
  BY PublishAppends
<1>7. \A h \in 1 .. shard : ScoresAre(published'[h].field.sites, Upto(h, Len(Shard[h])))
  <2>1. \A h \in 1 .. shard - 1 : ScoresAre(published[h].field.sites, Upto(h, Len(Shard[h])))
    BY <1>6 DEF Counted, MatchesReference
  <2>2. \A h \in 1 .. shard : h = shard \/ h \in 1 .. shard - 1
    BY <1>2
  <2>. QED
    BY <1>3, <1>4, <1>6, <2>1, <2>2
<1>8. \A sites, set : ScoresAre(sites, set)' = ScoresAre(sites, set)
  BY <1>1, SameReference
<1>9. \A h, n : Upto(h, n)' = Upto(h, n)
  BY DEF Upto
<1>10. merged # None => ScoresAre(merged.field.sites, Observation)
  BY DEF Counted, MatchesReference
<1>11. CASE shard < Len(Shard)
  BY <1>1, <1>2, <1>6, <1>7, <1>8, <1>9, <1>10, <1>11 DEF Counted, MatchesReference, Ended
<1>12. CASE ~(shard < Len(Shard))
  <2>1. shard = Len(Shard)
    BY <1>2, <1>12
  <2>. QED
    BY <1>1, <1>4, <1>6, <1>7, <1>8, <1>9, <1>10, <1>12, <2>1
       DEF Counted, MatchesReference, Ended
<1>. QED
  BY <1>11, <1>12

LEMMA CountedMerge ==
  ASSUME Bounds, Counted, MergeArtifacts
  PROVE  Counted'
<1> DEFINE fields == [h \in DOMAIN published |-> published[h].field]
           caches == [h \in DOMAIN published |-> FromStateDict(published[h].cache)]
<1>1. /\ pc = "merge" /\ pc' = "over"
      /\ UNCHANGED <<setting, shard, done, accumulator, progress, published>>
      /\ \/ merged' = [field |-> MergeFields(fields), cache |-> Merge(caches)]
         \/ merged' = merged
  BY DEF MergeArtifacts, collected
<1> HIDE DEF caches
<1>2. DOMAIN published = DOMAIN Shard
  <2>1. Len(published) = Len(Shard) /\ \E S : published \in Seq(S)
    BY <1>1 DEF Counted, Ended
  <2>. QED
    BY <2>1, ShardFacts
<1>3. \A h \in DOMAIN Shard : ScoresAre(fields[h].sites, Upto(h, Len(Shard[h])))
  BY <1>2 DEF Counted, MatchesReference
<1>4. DOMAIN fields = DOMAIN Shard
  BY <1>2
<1> HIDE DEF fields
<1>5. ScoresAre(MergeFields(fields).sites, Observation)
  BY <1>3, <1>4, MergedFields
<1>6. merged' # None => ScoresAre(merged'.field.sites, Observation)
  BY <1>1, <1>5 DEF Counted, MatchesReference
<1>7. \A sites, set : ScoresAre(sites, set)' = ScoresAre(sites, set)
  BY <1>1, SameReference
<1>8. \A h, n : Upto(h, n)' = Upto(h, n)
  BY DEF Upto
<1>. QED
  BY <1>1, <1>6, <1>7, <1>8 DEF Counted, MatchesReference, Ended

LEMMA CountedStep ==
  ASSUME Bounds, Scoring, Counted, [Next]_vars
  PROVE  Counted'
<1>1. \A h, n : Upto(h, n)' = Upto(h, n)
  BY DEF Upto
<1>2. \A h \in DOMAIN Shard : Upto(h, 0) = {}
  BY UptoFacts
<1>3. shard \in DOMAIN Shard
  BY DEF Bounds, TypeOK
<1>4. CASE Open
  <2>1. /\ pc = "open" /\ pc' = "observe" /\ UNCHANGED <<setting, shard, progress, published, merged>>
        /\ \/ progress # None /\ done' = progress.completed /\ accumulator' = progress.accumulator
           \/ progress = None /\ done' = 0 /\ accumulator' = NewAccumulator
    BY <1>4 DEF Open, disk
  <2>2. \A sites, set : ScoresAre(sites, set)' = ScoresAre(sites, set)
    BY <2>1, SameReference
  <2>3. ScoresAre(accumulator', Upto(shard, done'))
    BY <1>2, <1>3, <2>1, NothingCounted DEF Counted, MatchesReference
  <2>. QED
    BY <1>1, <2>1, <2>2, <2>3 DEF Counted, MatchesReference, Ended
<1>5. CASE Commit
  <2>1. /\ pc = "commit" /\ pc' = "observe"
        /\ UNCHANGED <<setting, shard, done, accumulator, published, merged>>
        /\ \/ progress' = [completed |-> done, cache |-> StateDict(cache),
                           accumulator |-> accumulator]
           \/ progress' = progress
    BY <1>5 DEF Commit, collected
  <2>2. \A sites, set : ScoresAre(sites, set)' = ScoresAre(sites, set)
    BY <2>1, SameReference
  <2>3. ScoresAre(accumulator, Upto(shard, done))
    BY <2>1 DEF Counted, MatchesReference
  <2>4. progress' # None => ScoresAre(progress'.accumulator, Upto(shard, progress'.completed))
    <3>1. CASE progress' = progress
      BY <3>1 DEF Counted, MatchesReference
    <3>2. CASE progress' # progress
      BY <2>1, <2>3, <3>2
    <3>. QED
      BY <3>1, <3>2
  <2>. QED
    BY <1>1, <2>1, <2>2, <2>3, <2>4 DEF Counted, MatchesReference, Ended
<1>6. CASE Crash
  <2>1. /\ pc' = "open" /\ pc \notin Ended /\ UNCHANGED <<setting, shard, progress, published, merged>>
    BY <1>6 DEF Crash, disk, Ended
  <2>2. \A sites, set : ScoresAre(sites, set)' = ScoresAre(sites, set)
    BY <2>1, SameReference
  <2>. QED
    BY <1>1, <2>1, <2>2 DEF Counted, MatchesReference, Ended
<1>7. CASE ResetObservation \/ BeginProbe \/ NextInput \/ LinearRuns \/ EndForward
           \/ (\E k \in Key : BackwardHook(k)) \/ EndBackward
  <2>1. pc \notin Ended \cup {"open"} /\ pc' \notin Ended \cup {"open"}
    BY <1>7 DEF ResetObservation, BeginProbe, NextInput, LinearRuns, EndForward, BackwardHook,
         EndBackward, Ended
  <2>2. UNCHANGED <<setting, shard, done, accumulator, progress, published, merged>>
    BY <1>7 DEF ResetObservation, BeginProbe, NextInput, LinearRuns, EndForward, BackwardHook,
         EndBackward, collected, disk
  <2>. QED
    BY <2>1, <2>2, CountedSame
<1>8. CASE UNCHANGED vars
  <2>1. UNCHANGED <<setting, shard, pc, done, accumulator, progress, published, merged>>
    BY <1>8 DEF vars, collected, disk
  <2>2. \A sites, set : ScoresAre(sites, set)' = ScoresAre(sites, set)
    BY <2>1, SameReference
  <2>. QED
    BY <1>1, <2>1, <2>2 DEF Counted, MatchesReference, Ended
<1>9. CASE Over
  BY <1>8, <1>9 DEF Over
<1>. QED
  BY <1>4, <1>5, <1>6, <1>7, <1>8, <1>9, CountedFinish, CountedPublish, CountedMerge DEF Next

LEMMA CountedInit == Init => Hooked /\ Scoring /\ Counted
<1>1. SUFFICES ASSUME Init PROVE Hooked /\ Scoring /\ Counted
  OBVIOUS
<1>2. /\ pc = "open" /\ hooks = {} /\ shard = 1 /\ progress = None /\ published = <<>>
      /\ merged = None
  BY <1>1 DEF Init
<1>3. published \in Seq({}) /\ Len(published) = 0 /\ DOMAIN published = {}
  BY <1>2
<1>. QED
  BY <1>2, <1>3 DEF Hooked, Scoring, InObservation, Counted, MatchesReference, Ended

SInv == CInv /\ Hooked /\ Scoring /\ Counted

LEMMA SInvHolds == Spec => []SInv
<1>1. Init => SInv
  BY InitHolds, BoundsInit, CountedInit DEF SInv, CInv
<1>2. SInv /\ [Next]_vars => SInv'
  BY NextHolds, BudgetStep, BoundsStep, HookedStep, ScoringStep, CountedStep DEF SInv, CInv
<1>. QED
  BY <1>1, <1>2, PTL DEF Spec

\* The statistics in memory, in a snapshot, in each artifact and in their merge
\* are those estimate_action_sensitivity computes, each observation counted
\* once: in whatever order gradients arrive, whichever sites they reach, with
\* or without device sums, and wherever the process dies and resumes
\* (LazyActionSensitivityCollector.finish_observation, SensitivityField.merge).
THEOREM Matches == Spec => []MatchesReference
<1>1. SInv => MatchesReference
  BY DEF SInv, Counted
<1>. QED
  BY <1>1, SInvHolds, PTL

-----------------------------------------------------------------------------
\* Reservoirs.  What the rows of highest priority of a set are.

LEMMA MinOfTwo ==
  ASSUME NEW a \in Int, NEW b \in Int
  PROVE  Min({a, b}) = IF a <= b THEN a ELSE b
<1> DEFINE x == IF a <= b THEN a ELSE b
<1>1. x \in {a, b} /\ \A y \in {a, b} : x <= y
  OBVIOUS
<1>2. \A z \in {a, b} : (\A y \in {a, b} : z <= y) => z = x
  OBVIOUS
<1> HIDE DEF x
<1>3. Min({a, b}) = x
  BY <1>1, <1>2 DEF Min
<1>. QED
  BY <1>3 DEF x

LEMMA TopCard ==
  ASSUME NEW S, IsFiniteSet(S)
  PROVE  /\ MaxRows \in Nat /\ Cardinality(S) \in Nat
         /\ Min({MaxRows, Cardinality(S)}) =
              IF MaxRows <= Cardinality(S) THEN MaxRows ELSE Cardinality(S)
<1>1. MaxRows \in Nat /\ Cardinality(S) \in Nat
  BY CollectorAssumption, FS_CardinalityType
<1>2. MaxRows \in Int /\ Cardinality(S) \in Int
  BY <1>1
<1>. QED
  BY <1>1, <1>2, MinOfTwo

Ranked(S) == \A e \in S : e.priority \in Int

\* A finite set of rows has one of highest priority.
LEMMA Highest ==
  ASSUME NEW S, IsFiniteSet(S), S # {}, Ranked(S)
  PROVE  \E e \in S : \A f \in S : e.priority >= f.priority
<1> DEFINE Good(T) == T # {} => \E e \in T : \A f \in T : e.priority >= f.priority
           N == {n \in Nat : \A T \in SUBSET S : Cardinality(T) = n => Good(T)}
<1>1. \A T \in SUBSET S : IsFiniteSet(T) /\ Cardinality(T) \in Nat
  BY FS_Subset, FS_CardinalityType
<1>2. 0 \in N
  <2>1. \A T \in SUBSET S : Cardinality(T) = 0 => T = {}
    BY <1>1, FS_EmptySet
  <2>. QED
    BY <2>1
<1>3. ASSUME NEW n \in Nat, n \in N PROVE n + 1 \in N
  <2>1. SUFFICES ASSUME NEW T \in SUBSET S, Cardinality(T) = n + 1, T # {} PROVE Good(T)
    OBVIOUS
  <2>2. PICK x \in T : TRUE
    BY <2>1
  <2>3. T \ {x} \in SUBSET S /\ Cardinality(T \ {x}) = n
    BY <1>1, <2>1, <2>2, Smaller
  <2>4. Good(T \ {x})
    BY <1>3, <2>3
  <2>5. CASE T \ {x} = {}
    <3>1. \A f \in T : f = x
      BY <2>5
    <3>2. x.priority \in Int
      BY <2>2 DEF Ranked
    <3>. QED
      BY <2>2, <3>1, <3>2
  <2>6. CASE T \ {x} # {}
    <3>1. PICK e \in T \ {x} : \A f \in T \ {x} : e.priority >= f.priority
      BY <2>4, <2>6
    <3>2. \A f \in T : f.priority \in Int /\ (f = x \/ f \in T \ {x})
      BY DEF Ranked
    <3>3. CASE e.priority >= x.priority
      BY <3>1, <3>2, <3>3
    <3>4. CASE ~(e.priority >= x.priority)
      <4>1. \A f \in T : x.priority >= f.priority
        BY <2>2, <3>1, <3>2, <3>4
      <4>. QED
        BY <2>2, <4>1
    <3>. QED
      BY <3>3, <3>4
  <2>. QED
    BY <2>5, <2>6
<1> HIDE DEF Good
<1>4. Cardinality(S) \in N
  <2> HIDE DEF N
  <2>. QED
    BY <1>1, <1>2, <1>3, NatSetInduction
<1>5. Good(S)
  BY <1>4
<1>. QED
  BY <1>5 DEF Good

Dominates(K, S) == \A e \in K, f \in S \ K : e.priority >= f.priority

LEMMA DominatingSubset ==
  ASSUME NEW S, IsFiniteSet(S), Ranked(S), NEW k \in Nat, k <= Cardinality(S)
  PROVE  \E K \in SUBSET S : Cardinality(K) = k /\ Dominates(K, S)
<1> DEFINE Good(n) == n <= Cardinality(S) =>
                        \E K \in SUBSET S : Cardinality(K) = n /\ Dominates(K, S)
           N == {n \in Nat : Good(n)}
<1>1. \A T \in SUBSET S : IsFiniteSet(T) /\ Cardinality(T) \in Nat
  BY FS_Subset, FS_CardinalityType
<1>2. 0 \in N
  <2>1. {} \in SUBSET S /\ Cardinality({}) = 0 /\ Dominates({}, S)
    BY FS_EmptySet DEF Dominates
  <2>. QED
    BY <2>1
<1>3. ASSUME NEW n \in Nat, n \in N PROVE n + 1 \in N
  <2>1. SUFFICES ASSUME n + 1 <= Cardinality(S)
                 PROVE  \E K \in SUBSET S : Cardinality(K) = n + 1 /\ Dominates(K, S)
    OBVIOUS
  <2>2. PICK K \in SUBSET S : Cardinality(K) = n /\ Dominates(K, S)
    <3>1. n <= Cardinality(S)
      BY <1>1, <2>1
    <3>. QED
      BY <1>3, <3>1
  <2>3. S \ K # {}
    <3>1. S \ K = {} => K = S
      BY <2>2
    <3>. QED
      BY <1>1, <2>1, <2>2, <3>1
  <2>4. IsFiniteSet(S \ K) /\ Ranked(S \ K)
    BY <1>1 DEF Ranked
  <2>5. PICK x \in S \ K : \A f \in S \ K : x.priority >= f.priority
    BY <2>3, <2>4, Highest
  <2>6. K \cup {x} \in SUBSET S /\ Cardinality(K \cup {x}) = n + 1
    BY <1>1, <2>2, <2>5, FS_AddElement
  <2>7. Dominates(K \cup {x}, S)
    BY <2>2, <2>5 DEF Dominates
  <2>. QED
    BY <2>6, <2>7
<1> HIDE DEF Good
<1>4. k \in N
  <2> HIDE DEF N
  <2>. QED
    BY <1>2, <1>3, NatSetInduction
<1>5. Good(k)
  BY <1>4
<1>. QED
  BY <1>5 DEF Good

\* Such a top there always is, and Top returns one.
LEMMA TopIsTop ==
  ASSUME NEW S, IsFiniteSet(S), Ranked(S)
  PROVE  IsTop(Top(S), S)
<1>1. /\ MaxRows \in Nat /\ Cardinality(S) \in Nat
      /\ Min({MaxRows, Cardinality(S)}) =
              IF MaxRows <= Cardinality(S) THEN MaxRows ELSE Cardinality(S)
  BY TopCard
<1>2. CASE Cardinality(S) <= MaxRows
  <2>1. Top(S) = S
    BY <1>2 DEF Top
  <2>2. Min({MaxRows, Cardinality(S)}) = Cardinality(S)
    BY <1>1, <1>2
  <2>. QED
    BY <2>1, <2>2 DEF IsTop
<1>3. CASE ~(Cardinality(S) <= MaxRows)
  <2>1. Min({MaxRows, Cardinality(S)}) = MaxRows /\ MaxRows <= Cardinality(S)
    BY <1>1, <1>3
  <2>2. PICK K \in SUBSET S : Cardinality(K) = MaxRows /\ Dominates(K, S)
    BY <1>1, <2>1, DominatingSubset
  <2>3. K \in kSubset(MaxRows, S) /\ IsTop(K, S)
    BY <2>1, <2>2 DEF kSubset, IsTop, Dominates
  <2>4. Top(S) = CHOOSE kept \in kSubset(MaxRows, S) : IsTop(kept, S)
    BY <1>3 DEF Top
  <2>. QED
    BY <2>3, <2>4
<1>. QED
  BY <1>2, <1>3

\* What is left of rows R when only K is kept is enough for any top of more.
Enough(K, R) == K \subseteq R /\ (K = R \/ (Cardinality(K) >= MaxRows /\ Dominates(K, R)))

LEMMA TopEnough ==
  ASSUME NEW S, IsFiniteSet(S), NEW T, IsTop(T, S)
  PROVE  Enough(T, S)
<1>1. /\ MaxRows \in Nat /\ Cardinality(S) \in Nat
      /\ Min({MaxRows, Cardinality(S)}) =
              IF MaxRows <= Cardinality(S) THEN MaxRows ELSE Cardinality(S)
  BY TopCard
<1>2. T \subseteq S /\ Dominates(T, S) /\ Cardinality(T) = Min({MaxRows, Cardinality(S)})
  BY DEF IsTop, Dominates
<1>3. CASE MaxRows <= Cardinality(S)
  BY <1>1, <1>2, <1>3 DEF Enough
<1>4. CASE ~(MaxRows <= Cardinality(S))
  <2>1. Cardinality(T) = Cardinality(S)
    BY <1>1, <1>2, <1>4
  <2>2. T = S
    BY <1>2, <2>1, FS_Subset
  <2>. QED
    BY <2>2 DEF Enough
<1>. QED
  BY <1>3, <1>4

Whole(f, I) == UNION {f[i] : i \in I}

LEMMA TopOfKept ==
  ASSUME NEW I, NEW K, NEW R, \A i \in I : Enough(K[i], R[i]),
         IsFiniteSet(Whole(R, I)), Ranked(Whole(R, I)), NEW T, IsTop(T, Whole(K, I))
  PROVE  IsTop(T, Whole(R, I))
<1> DEFINE A == Whole(K, I)
           B == Whole(R, I)
<1>1. A \subseteq B /\ \A i \in I : K[i] \subseteq A /\ R[i] \subseteq B /\ K[i] \subseteq R[i]
  BY DEF Enough, Whole
<1>2. \A U \in SUBSET B : IsFiniteSet(U) /\ Cardinality(U) \in Nat
  BY FS_Subset, FS_CardinalityType
<1>3. IsTop(T, A) /\ Ranked(B) /\ IsFiniteSet(B) /\ IsFiniteSet(A)
  BY <1>1, <1>2
<1>4. \A b \in B : \E i \in I : b \in R[i]
  BY DEF Whole
<1>12. \A b \in B : b \notin A => \E i \in I : b \in R[i] /\ b \notin K[i]
  BY <1>1, <1>4
<1>13. (\A i \in I : K[i] = R[i]) => A = B
  BY DEF Whole
<1> HIDE DEF A, B
<1>5. T \subseteq A /\ T \subseteq B /\ Cardinality(T) = Min({MaxRows, Cardinality(A)})
      /\ \A e \in T, f \in A \ T : e.priority >= f.priority
  BY <1>1, <1>3 DEF IsTop
<1>6. /\ MaxRows \in Nat /\ Cardinality(A) \in Nat /\ Cardinality(B) \in Nat
      /\ Cardinality(T) = IF MaxRows <= Cardinality(A) THEN MaxRows ELSE Cardinality(A)
      /\ Min({MaxRows, Cardinality(B)}) =
           IF MaxRows <= Cardinality(B) THEN MaxRows ELSE Cardinality(B)
  BY <1>3, <1>5, TopCard
<1>7. Cardinality(T) <= MaxRows /\ Cardinality(T) \in Nat
  BY <1>6
<1>8. CASE A = B
  BY <1>3, <1>8 DEF B
<1>9. CASE A # B
  <2>1. PICK j \in I : K[j] # R[j]
    BY <1>9, <1>13
  <2>2. Cardinality(K[j]) >= MaxRows /\ K[j] \subseteq A
    BY <1>1, <2>1 DEF Enough
  <2>3. Cardinality(T) = Min({MaxRows, Cardinality(B)})
    <3>1. Cardinality(K[j]) <= Cardinality(A)
      BY <1>3, <2>2, FS_Subset
    <3>2. Cardinality(A) <= Cardinality(B)
      BY <1>1, <1>3, FS_Subset
    <3>3. Cardinality(K[j]) \in Nat
      BY <1>1, <1>2, <2>2
    <3>. QED
      BY <1>6, <2>2, <3>1, <3>2, <3>3
  <2>4. ASSUME NEW e \in T, NEW f \in B \ T PROVE e.priority >= f.priority
    <3>1. CASE f \in A
      BY <1>5, <3>1
    <3>2. CASE f \notin A
      <4>1. PICK i \in I : f \in R[i] /\ f \notin K[i]
        BY <1>12, <3>2
      <4>2. Cardinality(K[i]) >= MaxRows /\ Dominates(K[i], R[i])
        BY <4>1 DEF Enough
      <4>3. CASE e \in K[i]
        BY <4>1, <4>2, <4>3 DEF Dominates
      <4>4. CASE e \notin K[i]
        <5>1. ~(K[i] \subseteq T)
          <6>1. SUFFICES ASSUME K[i] \subseteq T PROVE FALSE
            OBVIOUS
          <6>2. IsFiniteSet(T)
            BY <1>2, <1>5
          <6>3. Cardinality(K[i]) <= Cardinality(T)
                /\ (Cardinality(T) = Cardinality(K[i]) => T = K[i])
            BY <6>1, <6>2, FS_Subset
          <6>4. Cardinality(K[i]) \in Nat
            BY <1>1, <1>2
          <6>5. Cardinality(T) = Cardinality(K[i])
            BY <1>6, <1>7, <4>2, <6>3, <6>4
          <6>. QED
            BY <4>4, <6>3, <6>5
        <5>2. PICK t \in K[i] : t \notin T
          BY <5>1
        <5>3. e.priority >= t.priority
          BY <1>1, <1>5, <5>2
        <5>4. t.priority >= f.priority
          BY <4>1, <4>2, <5>2 DEF Dominates
        <5>5. e.priority \in Int /\ t.priority \in Int /\ f.priority \in Int
          BY <1>1, <1>3, <1>5, <5>2 DEF Ranked
        <5>. QED
          BY <5>3, <5>4, <5>5
      <4>. QED
        BY <4>3, <4>4
    <3>. QED
      BY <3>1, <3>2
  <2>5. IsTop(T, B)
    BY <1>5, <2>3, <2>4 DEF IsTop
  <2>. QED
    BY <2>5 DEF B
<1>. QED
  BY <1>8, <1>9

-----------------------------------------------------------------------------
\* Rows.  How many each position feeds, and which draws they get.

LEMMA UptoGrows ==
  ASSUME NEW e, NEW n \in Nat, \A m \in 1 .. n : e[m] \in Nat
  PROVE  \A a, b \in 0 .. n : a <= b => UptoSum(e, a) \in Nat /\ UptoSum(e, b) \in Nat
                                        /\ UptoSum(e, a) <= UptoSum(e, b)
<1> DEFINE N == {m \in Nat : m <= n =>
                   /\ UptoSum(e, m) \in Nat
                   /\ \A a \in 0 .. m : UptoSum(e, a) \in Nat /\ UptoSum(e, a) <= UptoSum(e, m)}
<1>1. 0 \in N
  BY SumUptoNone
<1>2. ASSUME NEW m \in Nat, m \in N PROVE m + 1 \in N
  <2>1. SUFFICES ASSUME m + 1 <= n
                 PROVE  /\ UptoSum(e, m + 1) \in Nat
                        /\ \A a \in 0 .. m + 1 : /\ UptoSum(e, a) \in Nat
                                                 /\ UptoSum(e, a) <= UptoSum(e, m + 1)
    OBVIOUS
  <2>2. \A a \in 0 .. m : UptoSum(e, a) \in Nat /\ UptoSum(e, a) <= UptoSum(e, m)
    BY <1>2, <2>1
  <2>3. \A i \in 1 .. m + 1 : e[i] \in Nat
    BY <2>1
  <2>4. UptoSum(e, m) \in Nat /\ UptoSum(e, m + 1) = UptoSum(e, m) + e[m + 1]
    BY <2>3, SumUpto
  <2>5. e[m + 1] \in Nat /\ UptoSum(e, m + 1) \in Nat /\ UptoSum(e, m) <= UptoSum(e, m + 1)
    BY <2>3, <2>4
  <2>6. \A a \in 0 .. m + 1 : a = m + 1 \/ a \in 0 .. m
    OBVIOUS
  <2>7. ASSUME NEW a \in 0 .. m + 1
        PROVE  UptoSum(e, a) \in Nat /\ UptoSum(e, a) <= UptoSum(e, m + 1)
    <3>1. CASE a = m + 1
      BY <2>5, <3>1
    <3>2. CASE a \in 0 .. m
      BY <2>2, <2>4, <2>5, <3>2
    <3>. QED
      BY <2>6, <3>1, <3>2
  <2>. QED
    BY <2>5, <2>7
<1>3. Nat \subseteq N
  <2> HIDE DEF N
  <2>. QED
    BY <1>1, <1>2, NatSetInduction
<1>. QED
  BY <1>3

\* The streams of a layout lie one behind the other.
LEMMA StreamSums ==
  ASSUME NEW s \in SiteIndex
  PROVE  /\ TokensUpto(Layout(s), 0) = 0
         /\ \A i \in DOMAIN Layout(s) :
              /\ Layout(s)[i].tokens \in Nat
              /\ TokensUpto(Layout(s), i - 1) \in Nat /\ TokensUpto(Layout(s), i) \in Nat
              /\ TokensUpto(Layout(s), i) = TokensUpto(Layout(s), i - 1) + Layout(s)[i].tokens
              /\ TokensUpto(Layout(s), i) <= Site[s].tokens
<1> DEFINE n == Len(Layout(s))
           e == [i \in 1 .. n |-> Layout(s)[i].tokens]
<1>1. /\ n \in Nat /\ DOMAIN Layout(s) = 1 .. n
      /\ \A i \in 1 .. n : Layout(s)[i].tokens \in Nat
      /\ TokensUpto(Layout(s), n) = Site[s].tokens
  BY LayoutShape
<1>2. ASSUME NEW i \in 0 .. n PROVE TokensUpto(Layout(s), i) = UptoSum(e, i)
  <2>1. \A j \in 1 .. i : e[j] = Layout(s)[j].tokens
    BY <1>1
  <2> HIDE DEF e
  <2>2. [j \in 1 .. i |-> Layout(s)[j].tokens] = [j \in 1 .. i |-> e[j]]
    BY <2>1
  <2>. QED
    BY <2>2 DEF TokensUpto, UptoSum
<1>3. \A i \in 1 .. n : e[i] \in Nat /\ e[i] = Layout(s)[i].tokens
  BY <1>1
<1> HIDE DEF e, n
<1>4. \A a, b \in 0 .. n : a <= b => UptoSum(e, a) \in Nat /\ UptoSum(e, b) \in Nat
                                     /\ UptoSum(e, a) <= UptoSum(e, b)
  BY <1>1, <1>3, UptoGrows
<1>5. ASSUME NEW i \in 1 .. n
      PROVE  /\ Layout(s)[i].tokens \in Nat
             /\ TokensUpto(Layout(s), i - 1) \in Nat /\ TokensUpto(Layout(s), i) \in Nat
             /\ TokensUpto(Layout(s), i) = TokensUpto(Layout(s), i - 1) + Layout(s)[i].tokens
             /\ TokensUpto(Layout(s), i) <= Site[s].tokens
  <2> DEFINE j == i - 1
  <2>1. j \in Nat /\ j + 1 = i /\ j \in 0 .. n /\ i \in 0 .. n /\ n \in 0 .. n /\ j <= i /\ i <= n
    BY <1>1
  <2>2. \A m \in 1 .. i : e[m] \in Nat
    BY <1>1, <1>3
  <2> HIDE DEF j
  <2>3. UptoSum(e, j + 1) = UptoSum(e, j) + e[j + 1]
    BY <2>1, <2>2, SumUpto
  <2>4. /\ TokensUpto(Layout(s), j) = UptoSum(e, j) /\ TokensUpto(Layout(s), i) = UptoSum(e, i)
        /\ Site[s].tokens = UptoSum(e, n)
    BY <1>1, <1>2, <2>1
  <2>. QED
    BY <1>3, <1>4, <2>1, <2>3, <2>4 DEF j
<1>6. TokensUpto(Layout(s), 0) = 0
  BY <1>1, <1>2, SumUptoNone
<1>. QED
  BY <1>1, <1>5, <1>6

\* The streams of an accepted layout divide the tokens of a site among them: no
\* token is in two streams, none is in no stream, and none of them is beyond
\* the sequence, for any sequence length and any configuration
\* (resolve_stream_layout, ResolvedStreamLayout.slices).
THEOREM StreamsPartition ==
  ASSUME NEW s \in SiteIndex
  PROVE  /\ UNION {Slice(Layout(s), i) : i \in DOMAIN Layout(s)} = 1 .. Site[s].tokens
         /\ \A i, j \in DOMAIN Layout(s) :
              i # j => Slice(Layout(s), i) \cap Slice(Layout(s), j) = {}
<1> DEFINE n == Len(Layout(s))
           U(i) == TokensUpto(Layout(s), i)
           Part(i) == Slice(Layout(s), i)
           Divided(i) == /\ \A t \in 1 .. U(i) : \E j \in 1 .. i : t \in Part(j)
                         /\ \A j \in 1 .. i : Part(j) \subseteq 1 .. U(i)
           S == {i \in Nat : i <= n => Divided(i)}
<1>1. n \in Nat /\ DOMAIN Layout(s) = 1 .. n /\ U(n) = Site[s].tokens /\ U(0) = 0
  BY LayoutShape, StreamSums
<1>2. \A i \in 1 .. n : /\ U(i - 1) \in Nat /\ U(i) \in Nat /\ U(i - 1) <= U(i)
                        /\ Part(i) = U(i - 1) + 1 .. U(i)
  <2>1. SUFFICES ASSUME NEW i \in 1 .. n
                 PROVE  /\ U(i - 1) \in Nat /\ U(i) \in Nat /\ U(i - 1) <= U(i)
                        /\ Part(i) = U(i - 1) + 1 .. U(i)
    OBVIOUS
  <2>2. /\ U(i - 1) \in Nat /\ U(i) \in Nat /\ Layout(s)[i].tokens \in Nat
        /\ U(i) = U(i - 1) + Layout(s)[i].tokens
    BY <1>1, StreamSums
  <2>3. Part(i) = U(i - 1) + 1 .. U(i)
    BY DEF Slice
  <2> HIDE DEF U
  <2>. QED
    BY <2>2, <2>3
<1> HIDE DEF n, U, Part
<1>3. 0 \in S
  BY <1>1
<1>4. ASSUME NEW i \in Nat, i \in S PROVE i + 1 \in S
  <2>1. SUFFICES ASSUME i + 1 <= n PROVE Divided(i + 1)
    OBVIOUS
  <2> DEFINE k == i + 1
  <2>2. k \in 1 .. n /\ k - 1 = i /\ Divided(i)
    BY <1>1, <1>4, <2>1
  <2>3. U(i) \in Nat /\ U(k) \in Nat /\ U(i) <= U(k) /\ Part(k) = U(i) + 1 .. U(k)
    BY <1>2, <2>2
  <2>4. \A j \in 1 .. k : j \in 1 .. i \/ j = k
    BY <2>2
  <2>5. \A j \in 1 .. i : j \in 1 .. k
    BY <2>2
  <2>6. ASSUME NEW t \in 1 .. U(k) PROVE \E j \in 1 .. k : t \in Part(j)
    <3>1. CASE t \in 1 .. U(i)
      BY <2>2, <2>5, <3>1
    <3>2. CASE t \notin 1 .. U(i)
      <4>1. t \in Part(k)
        BY <2>3, <3>2
      <4>. QED
        BY <2>2, <4>1
    <3>. QED
      BY <3>1, <3>2
  <2>7. ASSUME NEW j \in 1 .. k PROVE Part(j) \subseteq 1 .. U(k)
    <3>1. 1 .. U(i) \subseteq 1 .. U(k) /\ Part(k) \subseteq 1 .. U(k)
      BY <2>3
    <3>2. CASE j = k
      BY <3>1, <3>2
    <3>3. CASE j \in 1 .. i
      BY <2>2, <3>1, <3>3
    <3>. QED
      BY <2>4, <3>2, <3>3
  <2>. QED
    BY <2>6, <2>7
<1>5. \A i \in 0 .. n : Divided(i)
  <2>1. Nat \subseteq S
    <3> HIDE DEF S
    <3>. QED
      BY <1>3, <1>4, NatSetInduction
  <2>2. \A i \in 0 .. n : i \in Nat /\ i <= n
    BY <1>1
  <2>. QED
    BY <2>1, <2>2
<1>6. UNION {Part(i) : i \in 1 .. n} = 1 .. U(n)
  <2>1. Divided(n)
    BY <1>1, <1>5
  <2>. QED
    BY <2>1
<1>7. ASSUME NEW i \in 1 .. n, NEW j \in 1 .. n, i < j PROVE Part(i) \cap Part(j) = {}
  <2>1. j - 1 \in 0 .. n /\ i \in 1 .. j - 1
    BY <1>1, <1>7
  <2>2. Part(i) \subseteq 1 .. U(j - 1)
    BY <1>5, <2>1
  <2>3. U(j - 1) \in Nat /\ U(j) \in Nat /\ Part(j) = U(j - 1) + 1 .. U(j)
    BY <1>2
  <2> DEFINE u == U(j - 1)
  <2> HIDE DEF u
  <2>4. u \in Nat /\ U(j) \in Nat /\ Part(j) = u + 1 .. U(j) /\ Part(i) \subseteq 1 .. u
    BY <2>2, <2>3 DEF u
  <2>. QED
    BY <2>4
<1>8. ASSUME NEW i \in 1 .. n, NEW j \in 1 .. n, i # j PROVE Part(i) \cap Part(j) = {}
  <2>1. CASE i < j
    BY <1>7, <2>1
  <2>2. CASE j < i
    <3>1. Part(j) \cap Part(i) = {}
      BY <1>7, <2>2
    <3>. QED
      BY <3>1
  <2>. QED
    BY <1>1, <1>8, <2>1, <2>2
<1>. QED
  BY <1>1, <1>6, <1>8 DEF Part

LEMMA RowsFed ==
  /\ RowsBefore(1) = 0 /\ RowsInAll \in Nat
  /\ \A p \in Position : /\ RowsBefore(p) \in Nat
                         /\ RowsBefore(p + 1) = RowsBefore(p) + Site[SiteAt(p)].tokens
                         /\ RowsBefore(p + 1) <= RowsInAll
<1> DEFINE n == NumCalls * Len(Site)
           e == [q \in 1 .. n |-> Site[SiteAt(q)].tokens]
<1>1. n \in Nat /\ Position = 1 .. n /\ RowsInAll = RowsBefore(n + 1)
  BY PositionFacts DEF Position, RowsInAll
<1>2. \A q \in 1 .. n : Site[SiteAt(q)].tokens \in Nat /\ e[q] = Site[SiteAt(q)].tokens
  BY <1>1, KeyAt, CollectorAssumption
<1> HIDE DEF e, n
<1>3. ASSUME NEW m \in 0 .. n PROVE RowsBefore(m + 1) = UptoSum(e, m)
  <2>1. \A q \in 1 .. m : e[q] = Site[SiteAt(q)].tokens
    BY <1>1, <1>2
  <2>2. [q \in 1 .. m |-> Site[SiteAt(q)].tokens] = [q \in 1 .. m |-> e[q]]
    BY <2>1
  <2>3. (m + 1) - 1 = m
    OBVIOUS
  <2>. QED
    BY <2>2, <2>3 DEF RowsBefore, UptoSum
<1>4. \A a, b \in 0 .. n : a <= b => UptoSum(e, a) \in Nat /\ UptoSum(e, b) \in Nat
                                     /\ UptoSum(e, a) <= UptoSum(e, b)
  BY <1>1, <1>2, UptoGrows
<1>5. 0 \in 0 .. n /\ n \in 0 .. n
  BY <1>1
<1>6. RowsBefore(1) = 0
  <2>1. 0 + 1 = 1
    OBVIOUS
  <2>. QED
    BY <1>3, <1>5, <2>1, SumUptoNone
<1>7. ASSUME NEW p \in 1 .. n
      PROVE  /\ RowsBefore(p) \in Nat
             /\ RowsBefore(p + 1) = RowsBefore(p) + Site[SiteAt(p)].tokens
             /\ RowsBefore(p + 1) <= RowsInAll
  <2> DEFINE j == p - 1
  <2>1. j \in Nat /\ j + 1 = p /\ j \in 0 .. n /\ p \in 0 .. n /\ j <= p /\ p <= n
    BY <1>1
  <2>2. \A m \in 1 .. p : e[m] \in Nat
    BY <1>1, <1>2
  <2> HIDE DEF j
  <2>3. UptoSum(e, j + 1) = UptoSum(e, j) + e[j + 1]
    BY <2>1, <2>2, SumUpto
  <2>4. RowsBefore(p) = UptoSum(e, j) /\ RowsBefore(p + 1) = UptoSum(e, p)
        /\ RowsInAll = UptoSum(e, n)
    BY <1>1, <1>3, <1>5, <2>1
  <2>. QED
    BY <1>2, <1>4, <1>5, <2>1, <2>3, <2>4
<1>8. RowsInAll \in Nat
  BY <1>1, <1>3, <1>4, <1>5
<1>. QED
  BY <1>1, <1>6, <1>7, <1>8

\* Every draw is one of those the run makes.
LEMMA DrawBound ==
  ASSUME NEW l \in Nat, NEW m \in 1 .. l, NEW r \in Nat, NEW x \in 1 .. r
  PROVE  (m - 1) * r + x \in 1 .. l * r
<1> DEFINE i == m - 1
           d == l - m
<1>1. i \in Nat /\ d \in Nat /\ l = i + d + 1
  OBVIOUS
<1>2. l * r = i * r + d * r + r
  BY <1>1
<1>3. i * r \in Nat /\ d * r \in Nat
  BY <1>1
<1> DEFINE a == i * r
           b == d * r
           t == l * r
<1>4. a \in Nat /\ b \in Nat /\ t = a + b + r
  BY <1>2, <1>3
<1> HIDE DEF a, b, t
<1>5. a + x \in 1 .. t
  BY <1>4
<1>. QED
  BY <1>5 DEF a, t

Entry(h, c, m, t) ==
  [row |-> <<Content(Shard[h][m], PositionOf(c)), t>>,
   priority |-> Random(Seed[h], (m - 1) * RowsInAll + RowsBefore(PositionOf(c)) + t)]

NewRows(h, c, m) == {Entry(h, c, m, t) : t \in Slice(Layout(c[1]), c[3])}

LEMMA CellFacts ==
  ASSUME NEW c \in Cell
  PROVE  /\ c[1] \in SiteIndex /\ c[3] \in DOMAIN Layout(c[1])
         /\ PositionOf(c) \in Position /\ PositionOf(c) = PositionOf(<<c[1], c[2]>>)
         /\ SiteAt(PositionOf(c)) = c[1]
<1>1. <<c[1], c[2]>> \in Key /\ c[3] \in DOMAIN Layout(c[1])
  BY Cells
<1>2. c[1] \in SiteIndex /\ PositionOf(c) = PositionOf(<<c[1], c[2]>>)
  BY <1>1 DEF Key, PositionOf
<1>3. PositionOf(c) \in Position
  BY <1>1, <1>2, KeyPosition
<1>4. SiteAt(PositionOf(c)) = c[1]
  <2> DEFINE p == PositionOf(c)
             s == SiteAt(p)
             L == Len(Site)
  <2>1. s \in 1 .. L /\ CallAt(p) \in Nat /\ CallAt(p) * L + s = p /\ L \in Nat \ {0}
    BY <1>3, KeyAt, PositionFacts, CollectorAssumption DEF PositionOf
  <2>2. c[1] \in 1 .. L /\ c[2] \in Nat /\ c[2] * L + c[1] = p
    BY <1>1, CollectorAssumption DEF Key, Call, PositionOf
  <2> DEFINE q == CallAt(p)
             r == c[2]
             u == c[1]
  <2>3. s - 1 \in 0 .. L - 1 /\ u - 1 \in 0 .. L - 1
    BY SMTT(30), <2>1, <2>2
  <2>4. q * L + (s - 1) = r * L + (u - 1)
    <3> DEFINE a == q * L
               b == r * L
    <3>1. a \in Nat /\ b \in Nat /\ a + s = b + u /\ s \in Nat /\ u \in Nat
      BY SMTT(30), <2>1, <2>2
    <3> HIDE DEF a, b, s, u
    <3>2. a + (s - 1) = b + (u - 1)
      BY <3>1
    <3>. QED
      BY <3>2 DEF a, b
  <2>5. q \in Nat /\ r \in Nat /\ L \in Nat \ {0} /\ s \in Int /\ u \in Int
    BY <2>1, <2>2
  <2> DEFINE v == s - 1
             w == u - 1
  <2>6. v = w
    <3> HIDE DEF L, q, r, v, w
    <3>1. v \in 0 .. L - 1 /\ w \in 0 .. L - 1 /\ q * L + v = r * L + w
      BY <2>3, <2>4 DEF v, w
    <3>. QED
      BY <2>5, <3>1, OneQuotient
  <2> HIDE DEF p, s, u
  <2>8. s = u
    BY <2>5, <2>6
  <2>. QED
    BY <2>8 DEF p, s, u
<1>. QED
  BY <1>1, <1>2, <1>3, <1>4

\* The rows of stream c[3] at its site, and their draws in the observation.
LEMMA SliceFacts ==
  ASSUME NEW c \in Cell
  PROVE  LET slice == Slice(Layout(c[1]), c[3])
             tokens == Layout(c[1])[c[3]].tokens
         IN /\ tokens \in Nat /\ IsFiniteSet(slice) /\ Cardinality(slice) = tokens
            /\ \A t \in slice : t \in Nat /\ RowsBefore(PositionOf(c)) + t \in 1 .. RowsInAll
<1> DEFINE a == TokensUpto(Layout(c[1]), c[3] - 1)
           b == TokensUpto(Layout(c[1]), c[3])
           l == Layout(c[1])[c[3]].tokens
           p == PositionOf(c)
<1>1. /\ a \in Nat /\ b \in Nat /\ l \in Nat /\ b = a + l /\ b <= Site[c[1]].tokens
      /\ Slice(Layout(c[1]), c[3]) = a + 1 .. b
  BY CellFacts, StreamSums DEF Slice
<1>2. /\ RowsBefore(p) \in Nat /\ RowsInAll \in Nat /\ Site[c[1]].tokens \in Nat
      /\ RowsBefore(p) + Site[c[1]].tokens <= RowsInAll
  <2>1. c[1] \in SiteIndex /\ p \in Position /\ SiteAt(p) = c[1]
    BY CellFacts
  <2>2. Site[c[1]].tokens \in Nat
    BY <2>1, CollectorAssumption
  <2> HIDE DEF p
  <2>. QED
    BY <2>1, <2>2, RowsFed
<1> HIDE DEF a, b, p
<1>3. IsFiniteSet(a + 1 .. b) /\ Cardinality(a + 1 .. b) = l
  <2>1. a + 1 \in Int /\ b \in Int
    BY <1>1
  <2>2. IsFiniteSet(a + 1 .. b)
        /\ Cardinality(a + 1 .. b) = IF a + 1 > b THEN 0 ELSE b - (a + 1) + 1
    BY <2>1, FS_Interval
  <2>. QED
    BY <1>1, <2>2
<1>4. \A t \in a + 1 .. b : t \in Nat /\ RowsBefore(p) + t \in 1 .. RowsInAll
  <2> DEFINE x == RowsBefore(p)
             y == Site[c[1]].tokens
  <2>1. /\ x \in Nat /\ y \in Nat /\ RowsInAll \in Nat /\ x + y <= RowsInAll
        /\ a \in Nat /\ b \in Nat /\ b <= y
    BY <1>1, <1>2
  <2> HIDE DEF x, y
  <2>2. \A t \in a + 1 .. b : t \in Nat /\ x + t \in 1 .. RowsInAll
    BY <2>1
  <2>. QED
    BY <2>2 DEF x
<1>. QED
  BY <1>1, <1>3, <1>4 DEF p

\* What one observation adds: rows no other has, with draws that are numbers.
LEMMA NewRowsFacts ==
  ASSUME NEW h \in DOMAIN Shard, NEW c \in Cell, NEW m \in DOMAIN Shard[h]
  PROVE  /\ IsFiniteSet(NewRows(h, c, m)) /\ Ranked(NewRows(h, c, m))
         /\ Cardinality(NewRows(h, c, m)) = Layout(c[1])[c[3]].tokens
         /\ \A e \in NewRows(h, c, m) : e.row[1][1] = Shard[h][m]
<1> DEFINE slice == Slice(Layout(c[1]), c[3])
           f == [t \in slice |-> Entry(h, c, m, t)]
           T == NewRows(h, c, m)
<1>1. /\ IsFiniteSet(slice) /\ Cardinality(slice) = Layout(c[1])[c[3]].tokens
      /\ \A t \in slice : t \in Nat /\ RowsBefore(PositionOf(c)) + t \in 1 .. RowsInAll
  BY SliceFacts
<1>2. T = {Entry(h, c, m, t) : t \in slice}
  BY DEF NewRows
<1> HIDE DEF slice, T
<1>3. \A t \in slice : Entry(h, c, m, t).row = <<Content(Shard[h][m], PositionOf(c)), t>>
  BY DEF Entry
<1>4. f \in Surjection(slice, T)
  <2>1. f \in [slice -> T] /\ \A x \in T : \E t \in slice : f[t] = x
    BY <1>2
  <2>. QED
    BY <2>1 DEF Surjection
<1>5. f \in Injection(slice, T)
  <2>1. \A t, u \in slice : f[t] = f[u] => t = u
    BY <1>3
  <2>2. f \in [slice -> T]
    BY <1>2
  <2> HIDE DEF f
  <2>. QED
    BY <2>1, <2>2 DEF Injection, IsInjective
<1>6. IsFiniteSet(T) /\ Cardinality(T) = Cardinality(slice)
  <2> HIDE DEF f
  <2>. QED
    BY <1>1, <1>4, <1>5, FS_Surjection
<1>7. ASSUME NEW t \in slice PROVE Entry(h, c, m, t).priority \in Int
  <2> DEFINE b == RowsBefore(PositionOf(c))
             x == b + t
             n == (m - 1) * RowsInAll + x
  <2>1. Len(Shard[h]) \in Nat /\ m \in 1 .. Len(Shard[h]) /\ RowsInAll \in Nat
    BY ShardFacts, RowsFed
  <2>2. x \in 1 .. RowsInAll /\ b \in Nat /\ t \in Nat
    BY <1>1, CellFacts, RowsFed
  <2>3. n \in 1 .. Len(Shard[h]) * RowsInAll
    <3> HIDE DEF x
    <3>. QED
      BY <2>1, <2>2, DrawBound
  <2>4. Random(Seed[h], n) \in Int
    <3> HIDE DEF n
    <3>. QED
      BY <2>3, CollectorAssumption
  <2>5. (m - 1) * RowsInAll + b + t = n
    <3> DEFINE a == (m - 1) * RowsInAll
    <3>1. a \in Int
      BY <2>1
    <3> HIDE DEF a, b
    <3>2. a + b + t = a + (b + t)
      BY <2>2, <3>1
    <3>. QED
      BY <3>2 DEF a
  <2>. QED
    BY <2>4, <2>5 DEF Entry
<1>8. Ranked(T)
  BY <1>2, <1>7 DEF Ranked
<1>9. \A e \in T : e.row[1][1] = Shard[h][m]
  BY <1>2, <1>3 DEF Content
<1>. QED
  BY <1>1, <1>6, <1>8, <1>9 DEF T

LEMMA RowsFacts ==
  ASSUME NEW h \in DOMAIN Shard, NEW c \in Cell
  PROVE  /\ RowsOf(h, c, 0) = {}
         /\ \A n \in 0 .. Len(Shard[h]) :
              /\ IsFiniteSet(RowsOf(h, c, n)) /\ Ranked(RowsOf(h, c, n))
              /\ \A e \in RowsOf(h, c, n) : e.row[1][1] \in Upto(h, n)
         /\ \A n \in 0 .. Len(Shard[h]) : n < Len(Shard[h]) =>
              /\ RowsOf(h, c, n + 1) = RowsOf(h, c, n) \cup NewRows(h, c, n + 1)
              /\ RowsOf(h, c, n) \cap NewRows(h, c, n + 1) = {}
<1>1. Len(Shard[h]) \in Nat /\ DOMAIN Shard[h] = 1 .. Len(Shard[h])
  BY ShardFacts
<1>2. \A n : RowsOf(h, c, n) = {Entry(h, c, m, t) : m \in 1 .. n, t \in Slice(Layout(c[1]), c[3])}
  BY DEF RowsOf, Entry
<1>3. \A n : RowsOf(h, c, n) = UNION {NewRows(h, c, m) : m \in 1 .. n}
  BY <1>2 DEF NewRows
<1>4. RowsOf(h, c, 0) = {}
  BY <1>3
<1>5. ASSUME NEW n \in Nat PROVE RowsOf(h, c, n + 1) = RowsOf(h, c, n) \cup NewRows(h, c, n + 1)
  <2>1. 1 .. n + 1 = (1 .. n) \cup {n + 1}
    OBVIOUS
  <2>. QED
    BY <1>3, <2>1
<1> DEFINE Good(n) == /\ IsFiniteSet(RowsOf(h, c, n)) /\ Ranked(RowsOf(h, c, n))
                      /\ \A e \in RowsOf(h, c, n) : e.row[1][1] \in Upto(h, n)
           S == {n \in Nat : n <= Len(Shard[h]) => Good(n)}
<1>6. 0 \in S
  BY <1>4, FS_EmptySet DEF Ranked
<1>7. ASSUME NEW n \in Nat, n \in S PROVE n + 1 \in S
  <2>1. SUFFICES ASSUME n + 1 <= Len(Shard[h]) PROVE Good(n + 1)
    OBVIOUS
  <2>2. n + 1 \in DOMAIN Shard[h] /\ n \in 0 .. Len(Shard[h]) /\ n < Len(Shard[h])
    BY <1>1, <2>1
  <2>3. Good(n)
    BY <1>7, <2>2
  <2>4. /\ IsFiniteSet(NewRows(h, c, n + 1)) /\ Ranked(NewRows(h, c, n + 1))
        /\ \A e \in NewRows(h, c, n + 1) : e.row[1][1] = Shard[h][n + 1]
    BY <2>2, NewRowsFacts
  <2>5. Upto(h, n + 1) = Upto(h, n) \cup {Shard[h][n + 1]}
    BY <2>2, UptoFacts
  <2>6. RowsOf(h, c, n + 1) = RowsOf(h, c, n) \cup NewRows(h, c, n + 1)
    BY <1>5
  <2>7. IsFiniteSet(RowsOf(h, c, n + 1))
    <3>1. IsFiniteSet(RowsOf(h, c, n)) /\ IsFiniteSet(NewRows(h, c, n + 1))
      BY <2>3, <2>4
    <3>2. IsFiniteSet(RowsOf(h, c, n) \cup NewRows(h, c, n + 1))
      BY <3>1, FS_Union
    <3>. QED
      BY <2>6, <3>2
  <2>8. Ranked(RowsOf(h, c, n + 1))
    BY <2>3, <2>4, <2>6 DEF Ranked
  <2>. QED
    BY <2>3, <2>4, <2>5, <2>6, <2>7, <2>8
<1> HIDE DEF Good
<1>8. Nat \subseteq S
  <2> HIDE DEF S
  <2>. QED
    BY <1>6, <1>7, NatSetInduction
<1>9. \A n \in 0 .. Len(Shard[h]) : Good(n)
  BY <1>1, <1>8
<1>10. ASSUME NEW n \in 0 .. Len(Shard[h]), n < Len(Shard[h])
       PROVE  RowsOf(h, c, n) \cap NewRows(h, c, n + 1) = {}
  <2>1. n + 1 \in DOMAIN Shard[h]
    BY <1>1, <1>10
  <2>2. Shard[h][n + 1] \notin Upto(h, n)
    BY <1>10, UptoFacts
  <2>3. \A e \in NewRows(h, c, n + 1) : e.row[1][1] = Shard[h][n + 1]
    BY <2>1, NewRowsFacts
  <2>. QED
    BY <1>9, <2>2, <2>3 DEF Good
<1>. QED
  BY <1>1, <1>4, <1>5, <1>9, <1>10 DEF Good

-----------------------------------------------------------------------------
\* Feeding.  What one Linear adds to the cache, stream by stream.

IsCache(v) ==
  v = [seed |-> v.seed, drawn |-> v.drawn, config |-> v.config,
       cells |-> [k \in Cell |-> v.cells[k]]]

\* The rows with the priorities drawn for them.
Drawn(v, rows) ==
  {[row |-> rows[i], priority |-> Random(v.seed, v.drawn + i)] : i \in DOMAIN rows}

LEMMA AddIs ==
  ASSUME NEW v, IsCache(v), NEW key \in Cell, NEW rows
  PROVE  /\ IsCache(Add(v, key, rows))
         /\ Add(v, key, rows).seed = v.seed /\ Add(v, key, rows).config = v.config
         /\ Add(v, key, rows).drawn = v.drawn + Len(rows)
         /\ \A k \in Cell : Add(v, key, rows).cells[k] =
              IF k # key THEN v.cells[k]
              ELSE [entries |-> Top(v.cells[key].entries \cup Drawn(v, rows)),
                    seen |-> v.cells[key].seen + Len(rows)]
<1> DEFINE new == Drawn(v, rows)
           x == [entries |-> Top(v.cells[key].entries \cup new),
                 seen |-> v.cells[key].seen + Len(rows)]
           a == [v EXCEPT !.drawn = @ + Len(rows)]
           b == [a EXCEPT !.cells[key] = x]
<1>1. Add(v, key, rows) = b
  BY DEF Add, Drawn
<1> HIDE DEF new
<1>2. DOMAIN v = {"seed", "drawn", "config", "cells"} /\ DOMAIN v.cells = Cell
  BY DEF IsCache
<1>3. a = [seed |-> v.seed, drawn |-> v.drawn + Len(rows), config |-> v.config, cells |-> v.cells]
  BY <1>2 DEF IsCache
<1> HIDE DEF a, x
<1>4. b = [seed |-> v.seed, drawn |-> v.drawn + Len(rows), config |-> v.config,
           cells |-> [v.cells EXCEPT ![key] = x]]
  BY <1>3
<1>5. [v.cells EXCEPT ![key] = x] = [k \in Cell |-> IF k # key THEN v.cells[k] ELSE x]
  BY <1>2
<1> HIDE DEF b
<1>6. /\ b.seed = v.seed /\ b.config = v.config /\ b.drawn = v.drawn + Len(rows)
      /\ b.cells = [k \in Cell |-> IF k # key THEN v.cells[k] ELSE x]
      /\ b = [seed |-> b.seed, drawn |-> b.drawn, config |-> b.config, cells |-> b.cells]
  BY <1>4, <1>5
<1>7. b.cells = [k \in Cell |-> b.cells[k]]
  BY <1>6
<1>8. IsCache(b)
  BY <1>6, <1>7 DEF IsCache
<1>. QED
  BY <1>1, <1>6, <1>8 DEF x, new

\* Stream i is added to v.
FedOn(v, s, c, x, i) ==
  Add(v, <<s, c, i>>,
      [n \in 1 .. Layout(s)[i].tokens |-> <<x, TokensUpto(Layout(s), i - 1) + n>>])

IsFedTable(g, s, c, x, D) ==
  g = [i \in D |-> IF i = 0 THEN cache ELSE FedOn(g[i - 1], s, c, x, i)]

LEMMA FedTableExists ==
  ASSUME NEW s, NEW c, NEW x, NEW n \in Nat
  PROVE  \E g : IsFedTable(g, s, c, x, 0 .. n)
<1> DEFINE N == {m \in Nat : \E g : IsFedTable(g, s, c, x, 0 .. m)}
<1>1. 0 \in N
  <2> DEFINE g == [i \in 0 .. 0 |-> cache]
  <2>1. g = [i \in 0 .. 0 |-> IF i = 0 THEN cache ELSE FedOn(g[i - 1], s, c, x, i)]
    OBVIOUS
  <2>2. IsFedTable(g, s, c, x, 0 .. 0)
    <3> HIDE DEF g
    <3>. QED
      BY <2>1 DEF IsFedTable
  <2>. QED
    BY <2>2
<1>2. ASSUME NEW m \in Nat, m \in N PROVE m + 1 \in N
  <2>1. PICK g : IsFedTable(g, s, c, x, 0 .. m)
    BY <1>2
  <2> DEFINE h == [i \in 0 .. m + 1 |-> IF i = 0 THEN cache ELSE FedOn(g[i - 1], s, c, x, i)]
  <2>2. ASSUME NEW i \in 0 .. m PROVE i \in 0 .. m + 1 /\ h[i] = g[i]
    <3>1. g = [j \in 0 .. m |-> IF j = 0 THEN cache ELSE FedOn(g[j - 1], s, c, x, j)]
      BY <2>1 DEF IsFedTable
    <3>2. g[i] = IF i = 0 THEN cache ELSE FedOn(g[i - 1], s, c, x, i)
      BY <3>1
    <3>. QED
      BY <3>2
  <2>3. \A i \in 0 .. m + 1 : i # 0 => i - 1 \in 0 .. m
    OBVIOUS
  <2>4. h = [i \in 0 .. m + 1 |-> IF i = 0 THEN cache ELSE FedOn(h[i - 1], s, c, x, i)]
    BY <2>2, <2>3
  <2>5. IsFedTable(h, s, c, x, 0 .. m + 1)
    <3> HIDE DEF h
    <3>. QED
      BY <2>4 DEF IsFedTable
  <2>. QED
    BY <2>5
<1>3. Nat \subseteq N
  <2> HIDE DEF N
  <2>. QED
    BY <1>1, <1>2, NatSetInduction
<1>. QED
  BY <1>3

\* The rows of content x that stream i of site s is fed.
Rows(s, i, x) ==
  {[row |-> <<x, t>>, priority |-> Random(cache.seed, cache.drawn + t)] : t \in Slice(Layout(s), i)}

Fed(k, x) ==
  [entries |-> Top(cache.cells[k].entries \cup Rows(k[1], k[3], x)),
   seen |-> cache.cells[k].seen + Layout(k[1])[k[3]].tokens]

LEMMA FeedStep ==
  ASSUME NEW s \in SiteIndex, NEW c \in Call, NEW x, NEW i \in DOMAIN Layout(s), cache.drawn \in Nat,
         NEW v, IsCache(v), v.seed = cache.seed,
         v.drawn = cache.drawn + TokensUpto(Layout(s), i - 1),
         v.cells[<<s, c, i>>] = cache.cells[<<s, c, i>>]
  PROVE  /\ IsCache(FedOn(v, s, c, x, i)) /\ FedOn(v, s, c, x, i).seed = cache.seed
         /\ FedOn(v, s, c, x, i).config = v.config
         /\ FedOn(v, s, c, x, i).drawn = cache.drawn + TokensUpto(Layout(s), i)
         /\ \A k \in Cell : FedOn(v, s, c, x, i).cells[k] =
              IF k # <<s, c, i>> THEN v.cells[k] ELSE Fed(k, x)
<1> DEFINE l == Layout(s)[i].tokens
           a == TokensUpto(Layout(s), i - 1)
           b == TokensUpto(Layout(s), i)
           key == <<s, c, i>>
           rows == [n \in 1 .. l |-> <<x, a + n>>]
           new == Drawn(v, rows)
           w == Add(v, key, rows)
<1>11. v.drawn = cache.drawn + a /\ v.seed = cache.seed /\ cache.drawn \in Nat
  OBVIOUS
<1>12. FedOn(v, s, c, x, i) = w
  BY DEF FedOn
<1>1. /\ l \in Nat /\ a \in Nat /\ b \in Nat /\ b = a + l /\ Slice(Layout(s), i) = a + 1 .. b
  BY StreamSums DEF Slice
<1>2. key \in Cell
  <2>1. <<s, c>> \in Key
    BY DEF Key
  <2>. QED
    BY <2>1, Cells
<1>3. Len(rows) = l /\ DOMAIN rows = 1 .. l
  BY <1>1
<1>4. new = Rows(s, i, x)
  <2> DEFINE f(t) == [row |-> <<x, t>>, priority |-> Random(cache.seed, cache.drawn + t)]
  <2>1. Rows(s, i, x) = {f(t) : t \in a + 1 .. b}
    BY <1>1 DEF Rows
  <2>2. ASSUME NEW n \in 1 .. l
        PROVE  /\ a + n \in a + 1 .. b
               /\ [row |-> rows[n], priority |-> Random(v.seed, v.drawn + n)] = f(a + n)
    <3>1. v.drawn + n = cache.drawn + (a + n)
      <4> HIDE DEF a, b, l
      <4>. QED
        BY <1>1, <1>11
    <3>2. rows[n] = <<x, a + n>>
      OBVIOUS
    <3>3. a + n \in a + 1 .. b
      <4> HIDE DEF a, b, l
      <4>. QED
        BY <1>1
    <3>. QED
      BY <1>11, <3>1, <3>2, <3>3
  <2>3. new = {[row |-> rows[n], priority |-> Random(v.seed, v.drawn + n)] : n \in 1 .. l}
    BY <1>3 DEF Drawn
  <2>4. \A t \in a + 1 .. b : t - a \in 1 .. l /\ a + (t - a) = t
    <3> HIDE DEF a, b, l
    <3>. QED
      BY <1>1
  <2> DEFINE g(n) == [row |-> rows[n], priority |-> Random(v.seed, v.drawn + n)]
  <2>5. \A n \in 1 .. l : a + n \in a + 1 .. b /\ g(n) = f(a + n)
    BY <2>2
  <2>6. new = {g(n) : n \in 1 .. l}
    BY <2>3
  <2> HIDE DEF f, g, new, rows, a, b, l
  <2>7. ASSUME NEW e \in new PROVE e \in Rows(s, i, x)
    BY <2>1, <2>5, <2>6
  <2>8. ASSUME NEW e \in Rows(s, i, x) PROVE e \in new
    <3>1. PICK t \in a + 1 .. b : e = f(t)
      BY <2>1
    <3>2. t - a \in 1 .. l /\ a + (t - a) = t
      BY <2>4
    <3>3. g(t - a) = f(t)
      BY <2>5, <3>2
    <3>. QED
      BY <2>6, <3>1, <3>2, <3>3
  <2>. QED
    BY <2>7, <2>8
<1> HIDE DEF rows, new
<1>5. /\ IsCache(w) /\ w.seed = v.seed /\ w.config = v.config /\ w.drawn = v.drawn + Len(rows)
      /\ \A k \in Cell : w.cells[k] =
           IF k # key THEN v.cells[k]
           ELSE [entries |-> Top(v.cells[key].entries \cup new),
                 seen |-> v.cells[key].seen + Len(rows)]
  <2> HIDE DEF key
  <2>. QED
    BY <1>2, AddIs DEF new
<1>6. w.drawn = cache.drawn + b
  <2> HIDE DEF w, a, b, l
  <2>1. w.drawn = cache.drawn + a + l
    BY <1>3, <1>5 DEF a
  <2>. QED
    BY <1>1, <2>1
<1>7. key[1] = s /\ key[3] = i /\ v.cells[key] = cache.cells[key]
  OBVIOUS
<1>8. [entries |-> Top(v.cells[key].entries \cup new), seen |-> v.cells[key].seen + Len(rows)]
      = Fed(key, x)
  <2> HIDE DEF key
  <2>. QED
    BY <1>3, <1>4, <1>7 DEF Fed
<1>9. \A k \in Cell : w.cells[k] = IF k # key THEN v.cells[k] ELSE Fed(k, x)
  <2> HIDE DEF w, key
  <2>. QED
    BY <1>5, <1>8
<1> HIDE DEF w
<1>. QED
  BY <1>5, <1>6, <1>9, <1>11, <1>12

LEMMA FeedIs ==
  ASSUME NEW s \in SiteIndex, NEW c \in Call, NEW x, IsCache(cache), cache.drawn \in Nat
  PROVE  LET w == FeedCache(s, c, x)
         IN /\ IsCache(w) /\ w.seed = cache.seed /\ w.config = cache.config
            /\ w.drawn = cache.drawn + Site[s].tokens
            /\ \A k \in Cell : w.cells[k] =
                 IF <<k[1], k[2]>> # <<s, c>> THEN cache.cells[k] ELSE Fed(k, x)
<1> DEFINE n == Len(Layout(s))
           G == CHOOSE g : IsFedTable(g, s, c, x, 0 .. n)
           Good(i, w) == /\ IsCache(w) /\ w.seed = cache.seed /\ w.config = cache.config
                         /\ w.drawn = cache.drawn + TokensUpto(Layout(s), i)
                         /\ \A k \in Cell : w.cells[k] =
                              IF <<k[1], k[2]>> = <<s, c>> /\ k[3] <= i THEN Fed(k, x)
                              ELSE cache.cells[k]
           S == {i \in Nat : i <= n => Good(i, G[i])}
<1>1. /\ n \in Nat /\ DOMAIN Layout(s) = 1 .. n
      /\ TokensUpto(Layout(s), n) = Site[s].tokens /\ TokensUpto(Layout(s), 0) = 0
  BY LayoutShape, StreamSums
<1>2. IsFedTable(G, s, c, x, 0 .. n)
  BY <1>1, FedTableExists
<1>3. FeedCache(s, c, x) = G[n]
  BY DEF FeedCache, IsFedTable, FedOn
<1>4. /\ G[0] = cache
      /\ \A i \in 1 .. n : G[i] = FedOn(G[i - 1], s, c, x, i)
  <2> HIDE DEF G, n
  <2>1. \A i \in 0 .. n : G[i] = IF i = 0 THEN cache ELSE FedOn(G[i - 1], s, c, x, i)
    BY <1>2 DEF IsFedTable
  <2>2. 0 \in 0 .. n /\ \A i \in 1 .. n : i \in 0 .. n /\ i # 0
    BY <1>1
  <2>. QED
    BY <2>1, <2>2
<1>5. \A k \in Cell : <<k[1], k[2]>> = <<s, c>> => k[3] \in 1 .. n /\ k = <<s, c, k[3]>>
  BY <1>1, Cells
<1> HIDE DEF G, n
<1>6. 0 \in S
  <2>1. cache.drawn + 0 = cache.drawn
    OBVIOUS
  <2>2. \A k \in Cell : ~(<<k[1], k[2]>> = <<s, c>> /\ k[3] <= 0)
    BY <1>5
  <2>. QED
    BY <1>1, <1>4, <2>1, <2>2
<1>7. ASSUME NEW j \in Nat, j \in S PROVE j + 1 \in S
  <2> DEFINE i == j + 1
             key == <<s, c, i>>
             v == G[j]
             w == FedOn(v, s, c, x, i)
  <2>1. SUFFICES ASSUME i <= n PROVE Good(i, G[i])
    OBVIOUS
  <2>2. i \in 1 .. n /\ i \in DOMAIN Layout(s) /\ i - 1 = j /\ j <= n
    BY <1>1, <2>1
  <2>3. G[i] = w
    BY <1>4, <2>2
  <2>4. Good(j, v)
    BY <1>7, <2>2
  <2>5. key \in Cell
    <3>1. <<s, c>> \in Key
      BY DEF Key
    <3>. QED
      BY <2>2, <3>1, Cells
  <2>6. v.cells[key] = cache.cells[key]
    <3>1. key[3] = i /\ ~(i <= j)
      OBVIOUS
    <3> HIDE DEF key
    <3>. QED
      BY <2>4, <2>5, <3>1
  <2> HIDE DEF i
  <2>7. /\ IsCache(w) /\ w.seed = cache.seed /\ w.config = v.config
        /\ w.drawn = cache.drawn + TokensUpto(Layout(s), i)
        /\ \A k \in Cell : w.cells[k] = IF k # <<s, c, i>> THEN v.cells[k] ELSE Fed(k, x)
    <3>1. /\ IsCache(v) /\ v.seed = cache.seed
          /\ v.drawn = cache.drawn + TokensUpto(Layout(s), i - 1)
          /\ v.cells[<<s, c, i>>] = cache.cells[<<s, c, i>>]
      BY <2>2, <2>4, <2>6
    <3>2. i \in DOMAIN Layout(s)
      BY <2>2
    <3> HIDE DEF v
    <3>3. /\ IsCache(w) /\ w.seed = cache.seed /\ w.config = v.config
          /\ w.drawn = cache.drawn + TokensUpto(Layout(s), i)
      BY <3>1, <3>2, FeedStep
    <3>4. \A k \in Cell : w.cells[k] = IF k # <<s, c, i>> THEN v.cells[k] ELSE Fed(k, x)
      BY <3>1, <3>2, FeedStep
    <3>. QED
      BY <3>3, <3>4
  <2> HIDE DEF w, v
  <2>8. ASSUME NEW k \in Cell
        PROVE  w.cells[k] = IF <<k[1], k[2]>> = <<s, c>> /\ k[3] <= i THEN Fed(k, x)
                            ELSE cache.cells[k]
    <3>1. v.cells[k] = IF <<k[1], k[2]>> = <<s, c>> /\ k[3] <= j THEN Fed(k, x)
                       ELSE cache.cells[k]
      BY <2>4
    <3>2. w.cells[k] = IF k # <<s, c, i>> THEN v.cells[k] ELSE Fed(k, x)
      BY <2>7
    <3>3. CASE <<k[1], k[2]>> = <<s, c>>
      <4>1. k[3] \in 1 .. n /\ k = <<s, c, k[3]>>
        BY <1>5, <3>3
      <4>2. k = <<s, c, i>> <=> k[3] = i
        BY <4>1
      <4>3. k[3] <= i <=> k[3] <= j \/ k[3] = i
        BY <4>1 DEF i
      <4>. QED
        BY <3>1, <3>2, <3>3, <4>2, <4>3
    <3>4. CASE <<k[1], k[2]>> # <<s, c>>
      <4>1. k # <<s, c, i>>
        BY <3>4
      <4>. QED
        BY <3>1, <3>2, <3>4, <4>1
    <3>. QED
      BY <3>3, <3>4
  <2>9. w.config = cache.config
    BY <2>4, <2>7
  <2>. QED
    BY <2>3, <2>7, <2>8, <2>9
<1> HIDE DEF Good
<1>8. n \in S
  <2> HIDE DEF S
  <2>. QED
    BY <1>1, <1>6, <1>7, NatSetInduction
<1>9. Good(n, G[n])
  BY <1>8
<1>10. \A k \in Cell : <<k[1], k[2]>> = <<s, c>> => k[3] <= n
  BY <1>1, <1>5
<1> HIDE DEF S
<1>. QED
  BY <1>1, <1>3, <1>9, <1>10 DEF Good

-----------------------------------------------------------------------------
\* The reservoirs as the run goes on.

LEMMA Grown ==
  ASSUME NEW cell, NEW R, NEW N, IsReservoir(cell, R), IsFiniteSet(R), IsFiniteSet(N),
         Ranked(R), Ranked(N), R \cap N = {}
  PROVE  IsReservoir([entries |-> Top(cell.entries \cup N), seen |-> cell.seen + Cardinality(N)],
                     R \cup N)
<1> DEFINE I == {1, 2}
           K2 == [i \in I |-> IF i = 1 THEN cell.entries ELSE N]
           R2 == [i \in I |-> IF i = 1 THEN R ELSE N]
           T == Top(cell.entries \cup N)
<1>1. IsTop(cell.entries, R) /\ cell.seen = Cardinality(R)
  BY DEF IsReservoir
<1>2. Enough(cell.entries, R) /\ cell.entries \subseteq R
  BY <1>1, TopEnough DEF IsTop
<1>3. Whole(K2, I) = cell.entries \cup N /\ Whole(R2, I) = R \cup N
  BY DEF Whole
<1>4. \A i \in I : Enough(K2[i], R2[i])
  BY <1>2 DEF Enough
<1>5. IsFiniteSet(R \cup N) /\ Ranked(R \cup N)
  BY FS_Union DEF Ranked
<1>6. IsFiniteSet(cell.entries \cup N) /\ Ranked(cell.entries \cup N)
  <2>1. cell.entries \cup N \in SUBSET (R \cup N)
    BY <1>2
  <2>. QED
    BY <1>5, <2>1, FS_Subset DEF Ranked
<1>7. IsTop(T, cell.entries \cup N)
  BY <1>6, TopIsTop
<1> HIDE DEF I, K2, R2, T
<1>8. IsTop(T, Whole(K2, I))
  BY <1>3, <1>7
<1>9. IsFiniteSet(Whole(R2, I)) /\ Ranked(Whole(R2, I))
  BY <1>3, <1>5
<1>10. IsTop(T, Whole(R2, I))
  BY <1>4, <1>8, <1>9, TopOfKept
<1>11. IsTop(T, R \cup N)
  BY <1>3, <1>10
<1>12. Cardinality(R \cup N) = cell.seen + Cardinality(N)
  <2>1. Cardinality({}) = 0 /\ Cardinality(R) \in Nat /\ Cardinality(N) \in Nat
    BY FS_EmptySet, FS_CardinalityType
  <2>2. Cardinality(R \cup N) = Cardinality(R) + Cardinality(N) - Cardinality(R \cap N)
    BY FS_Union
  <2>3. Cardinality(R \cap N) = 0
    BY <2>1
  <2>. QED
    BY <1>1, <2>1, <2>2, <2>3
<1>. QED
  BY <1>11, <1>12 DEF IsReservoir, T

\* The cache of shard h, fed with n observations and with the positions of the
\* next one before p.
IsCacheOf(v, h, n, p) ==
  /\ IsCache(v)
  /\ v.seed = Seed[h] /\ v.drawn = n * RowsInAll + RowsBefore(p)
  /\ \A c \in Cell :
       IsReservoir(v.cells[c], RowsOf(h, c, IF PositionOf(c) < p THEN n + 1 ELSE n))

AllPositions == NumCalls * Len(Site) + 1

LEMMA Ends ==
  ASSUME NEW c \in Cell
  PROVE  ~(PositionOf(c) < 1) /\ PositionOf(c) < AllPositions
<1> DEFINE n == NumCalls * Len(Site)
<1>1. PositionOf(c) \in 1 .. n /\ n \in Nat
  <2>1. PositionOf(c) \in Position /\ Position = 1 .. n
    BY CellFacts DEF Position
  <2>. QED
    BY <2>1, PositionFacts
<1>2. AllPositions = n + 1
  BY DEF AllPositions
<1> HIDE DEF n
<1>. QED
  BY <1>1, <1>2

LEMMA EmptyReservoir == IsReservoir(EmptyCell, {})
<1>1. IsFiniteSet({}) /\ Cardinality({}) = 0
  BY FS_EmptySet
<1>2. Min({MaxRows, Cardinality({})}) = 0
  <2>1. MaxRows \in Nat /\ Min({MaxRows, Cardinality({})}) =
                             IF MaxRows <= Cardinality({}) THEN MaxRows ELSE Cardinality({})
    BY <1>1, TopCard
  <2>. QED
    BY <1>1, <2>1
<1>. QED
  BY <1>1, <1>2 DEF IsReservoir, IsTop, EmptyCell

LEMMA NewCacheIs ==
  ASSUME NEW h \in DOMAIN Shard, NEW config
  PROVE  IsCacheOf(NewCache(Seed[h], config), h, 0, 1)
<1> DEFINE v == NewCache(Seed[h], config)
<1>1. /\ IsCache(v) /\ v.seed = Seed[h] /\ v.drawn = 0 /\ \A c \in Cell : v.cells[c] = EmptyCell
  BY DEF NewCache, IsCache
<1>2. 0 * RowsInAll + RowsBefore(1) = 0
  BY RowsFed
<1>3. ASSUME NEW c \in Cell
      PROVE  RowsOf(h, c, IF PositionOf(c) < 1 THEN 0 + 1 ELSE 0) = {}
  BY Ends, RowsFacts
<1> HIDE DEF v
<1>4. IsCacheOf(v, h, 0, 1)
  BY <1>1, <1>2, <1>3, EmptyReservoir DEF IsCacheOf
<1>. QED
  BY <1>4 DEF v

\* At the end of an observation the next one begins.
LEMMA FinishIs ==
  ASSUME NEW h \in DOMAIN Shard, NEW n \in Nat, NEW v, IsCacheOf(v, h, n, AllPositions)
  PROVE  IsCacheOf(v, h, n + 1, 1)
<1>1. n * RowsInAll + RowsBefore(AllPositions) = (n + 1) * RowsInAll + RowsBefore(1)
  <2>1. RowsBefore(AllPositions) = RowsInAll /\ RowsBefore(1) = 0 /\ RowsInAll \in Nat
    BY RowsFed DEF AllPositions, RowsInAll
  <2> HIDE DEF RowsInAll
  <2>2. (n + 1) * RowsInAll = n * RowsInAll + RowsInAll
    BY <2>1
  <2>3. n * RowsInAll \in Nat
    BY <2>1
  <2>. QED
    BY <2>1, <2>2, <2>3
<1>2. ASSUME NEW c \in Cell
      PROVE  (IF PositionOf(c) < AllPositions THEN n + 1 ELSE n)
             = (IF PositionOf(c) < 1 THEN (n + 1) + 1 ELSE n + 1)
  BY Ends
<1>. QED
  BY <1>1, <1>2 DEF IsCacheOf

LEMMA LoadIs ==
  ASSUME NEW v, IsCache(v)
  PROVE  LET w == FromStateDict(StateDict(v))
         IN IsCache(w) /\ w.seed = v.seed /\ w.drawn = v.drawn /\ w.cells = v.cells
<1> DEFINE w == FromStateDict(StateDict(v))
           a == NewCache(0, v.config)
           b == [a EXCEPT !.cells = v.cells]
           d == [b EXCEPT !.seed = v.seed]
           e == [d EXCEPT !.drawn = v.drawn]
<1>1. w = e
  BY DEF FromStateDict, StateDict
<1>2. b = [seed |-> 0, drawn |-> 0, config |-> v.config, cells |-> v.cells]
  BY DEF NewCache
<1> HIDE DEF b
<1>3. d = [seed |-> v.seed, drawn |-> 0, config |-> v.config, cells |-> v.cells]
  BY <1>2
<1> HIDE DEF d
<1>4. e = [seed |-> v.seed, drawn |-> v.drawn, config |-> v.config, cells |-> v.cells]
  BY <1>3
<1> HIDE DEF e, w
<1>5. v.cells = [k \in Cell |-> v.cells[k]]
  BY DEF IsCache
<1>6. /\ w.seed = v.seed /\ w.drawn = v.drawn /\ w.cells = v.cells
      /\ w = [seed |-> w.seed, drawn |-> w.drawn, config |-> w.config, cells |-> w.cells]
  BY <1>1, <1>4
<1>7. IsCache(w)
  BY <1>5, <1>6 DEF IsCache
<1>. QED
  BY <1>6, <1>7 DEF w

LEMMA LoadedIs ==
  ASSUME NEW v, NEW h, NEW n, NEW p, IsCacheOf(v, h, n, p)
  PROVE  IsCacheOf(FromStateDict(StateDict(v)), h, n, p)
<1> DEFINE w == FromStateDict(StateDict(v))
<1>1. IsCache(w) /\ w.seed = v.seed /\ w.drawn = v.drawn /\ w.cells = v.cells
  BY LoadIs DEF IsCacheOf
<1> HIDE DEF w
<1>2. IsCacheOf(w, h, n, p)
  BY <1>1 DEF IsCacheOf
<1>. QED
  BY <1>2 DEF w

LEMMA FeedOfIs ==
  ASSUME NEW h \in DOMAIN Shard, NEW n \in Nat, n < Len(Shard[h]), NEW p \in Position,
         CallAt(p) \in Call, IsCacheOf(cache, h, n, p)
  PROVE  IsCacheOf(FeedCache(SiteAt(p), CallAt(p), Content(Shard[h][n + 1], p)), h, n, p + 1)
<1> DEFINE s == SiteAt(p)
           c == CallAt(p)
           x == Content(Shard[h][n + 1], p)
           w == FeedCache(s, c, x)
           base == n * RowsInAll
<1>1. s \in SiteIndex /\ c \in Call /\ PositionOf(<<s, c>>) = p /\ p \in Nat
  BY KeyAt, PositionFacts
<1>2. /\ RowsBefore(p) \in Nat /\ RowsBefore(p + 1) = RowsBefore(p) + Site[s].tokens
      /\ base \in Nat /\ Site[s].tokens \in Nat
  BY SMTT(30), <1>1, RowsFed, CollectorAssumption
<1>3. IsCache(cache) /\ cache.seed = Seed[h] /\ cache.drawn = base + RowsBefore(p)
      /\ \A k \in Cell :
           IsReservoir(cache.cells[k], RowsOf(h, k, IF PositionOf(k) < p THEN n + 1 ELSE n))
  BY DEF IsCacheOf
<1> HIDE DEF base
<1>4. cache.drawn \in Nat
  BY <1>2, <1>3
<1> HIDE DEF s, c, x
<1>5. /\ IsCache(w) /\ w.seed = cache.seed
      /\ w.drawn = cache.drawn + Site[s].tokens
      /\ \A k \in Cell : w.cells[k] =
           IF <<k[1], k[2]>> # <<s, c>> THEN cache.cells[k] ELSE Fed(k, x)
  BY <1>1, <1>3, <1>4, FeedIs
<1> HIDE DEF w
<1>6. w.drawn = base + RowsBefore(p + 1)
  BY <1>2, <1>3, <1>5
<1>7. n \in 0 .. Len(Shard[h]) /\ n + 1 \in DOMAIN Shard[h]
  BY ShardFacts
<1>8. ASSUME NEW k \in Cell
      PROVE  IsReservoir(w.cells[k], RowsOf(h, k, IF PositionOf(k) < p + 1 THEN n + 1 ELSE n))
  <2>1. /\ PositionOf(k) \in Nat /\ PositionOf(k) = PositionOf(<<k[1], k[2]>>)
        /\ SiteAt(PositionOf(k)) = k[1]
    BY CellFacts, PositionFacts
  <2>2. CASE <<k[1], k[2]>> # <<s, c>>
    <3>1. PositionOf(k) # p
      <4>1. SUFFICES ASSUME PositionOf(k) = p PROVE FALSE
        OBVIOUS
      <4>2. k[1] = s
        BY <2>1, <4>1 DEF s
      <4> DEFINE q == k[2] * Len(Site)
                 r == c * Len(Site)
      <4>3. k[2] \in Nat /\ c \in Nat /\ Len(Site) \in Nat \ {0} /\ k[1] \in Nat
        <5>1. Len(Site) \in Nat \ {0} /\ NumCalls \in Nat \ {0} /\ SiteIndex = 1 .. Len(Site)
          BY PositionFacts, CollectorAssumption
        <5>2. k[1] \in SiteIndex /\ k[2] \in Call
          BY Cells DEF Key
        <5>. QED
          BY <1>1, <5>1, <5>2 DEF Call
      <4>4. q + k[1] = r + s
        BY <1>1, <4>1 DEF PositionOf
      <4>5. q \in Nat /\ r \in Nat
        BY <4>3
      <4>6. q = r
        <5> HIDE DEF q, r
        <5>. QED
          BY <4>2, <4>3, <4>4, <4>5
      <4> DEFINE l == Len(Site)
                 kc == k[2]
      <4>7. kc * l + 0 = c * l + 0 /\ kc \in Nat /\ c \in Nat /\ l \in Nat \ {0}
        BY <4>3, <4>6
      <4>8. 0 \in 0 .. l - 1
        BY <4>7
      <4> HIDE DEF l, kc
      <4>9. kc = c
        BY <4>7, <4>8, OneQuotient
      <4>. QED
        BY <2>2, <4>2, <4>9 DEF kc
    <3>2. PositionOf(k) < p + 1 <=> PositionOf(k) < p
      BY <1>1, <2>1, <3>1
    <3>. QED
      BY <1>3, <1>5, <2>2, <3>2
  <2>3. CASE <<k[1], k[2]>> = <<s, c>>
    <3> DEFINE R == RowsOf(h, k, n)
               N == NewRows(h, k, n + 1)
    <3>1. PositionOf(k) = p /\ k[1] = s
      BY <1>1, <2>1, <2>3
    <3>2. PositionOf(k) < p + 1 /\ ~(PositionOf(k) < p)
      BY <1>1, <3>1
    <3>3. IsReservoir(cache.cells[k], R)
      BY <1>3, <3>2
    <3>4. Rows(k[1], k[3], x) = N
      <4>1. \A t \in Slice(Layout(k[1]), k[3]) : t \in Nat
        BY SliceFacts
      <4>2. ASSUME NEW t \in Nat
            PROVE  [row |-> <<x, t>>, priority |-> Random(cache.seed, cache.drawn + t)]
                   = Entry(h, k, n + 1, t)
        <5>1. Entry(h, k, n + 1, t) =
                [row |-> <<Content(Shard[h][n + 1], p), t>>,
                 priority |-> Random(Seed[h], ((n + 1) - 1) * RowsInAll + RowsBefore(p) + t)]
          BY <3>1 DEF Entry
        <5>2. ((n + 1) - 1) * RowsInAll = base
          <6>1. (n + 1) - 1 = n
            OBVIOUS
          <6>. QED
            BY <6>1 DEF base
        <5>. QED
          BY <1>3, <5>1, <5>2 DEF x
      <4>. QED
        BY <4>1, <4>2 DEF Rows, NewRows
    <3>5. /\ IsFiniteSet(N) /\ Ranked(N) /\ Cardinality(N) = Layout(k[1])[k[3]].tokens
          /\ IsFiniteSet(R) /\ Ranked(R) /\ R \cap N = {} /\ RowsOf(h, k, n + 1) = R \cup N
      BY <1>7, NewRowsFacts, RowsFacts
    <3> HIDE DEF R, N
    <3>6. w.cells[k] = [entries |-> Top(cache.cells[k].entries \cup N),
                        seen |-> cache.cells[k].seen + Cardinality(N)]
      BY <1>5, <2>3, <3>4, <3>5 DEF Fed
    <3>7. IsReservoir(w.cells[k], R \cup N)
      BY <3>3, <3>5, <3>6, Grown
    <3>. QED
      BY <3>2, <3>5, <3>7
  <2>. QED
    BY <2>2, <2>3
<1>9. IsCacheOf(w, h, n, p + 1)
  BY <1>3, <1>5, <1>6, <1>8 DEF IsCacheOf, base
<1>. QED
  BY <1>9 DEF w, s, c, x

\* ActivationCache.merge keeps the top of all that was ever fed.
LEMMA MergedCaches ==
  ASSUME NEW caches, DOMAIN caches = DOMAIN Shard, NEW c \in Cell,
         \A h \in DOMAIN Shard : IsReservoir(caches[h].cells[c], RowsOf(h, c, Len(Shard[h])))
  PROVE  IsReservoir(Merge(caches).cells[c],
                     UNION {RowsOf(h, c, Len(Shard[h])) : h \in DOMAIN Shard})
<1> DEFINE n == Len(Shard)
           K == [h \in 1 .. n |-> caches[h].cells[c].entries]
           R == [h \in 1 .. n |-> RowsOf(h, c, Len(Shard[h]))]
           I == 1 .. n
           A == Whole(K, I)
           B == Whole(R, I)
           seen == [h \in 1 .. n |-> caches[h].cells[c].seen]
<1>1. /\ n \in Nat /\ DOMAIN Shard = 1 .. n
      /\ \A h \in 1 .. n : Len(Shard[h]) \in Nat /\ DOMAIN Shard[h] = 1 .. Len(Shard[h])
  BY ShardFacts
<1>2. Merge(caches).cells[c] =
        [entries |-> Top(A), seen |-> SumFunction(seen)]
  <2> DEFINE f == [k \in Cell |->
                     [entries |-> Top(UNION {[j \in DOMAIN caches |-> caches[j].cells[k]][i].entries :
                                               i \in DOMAIN caches}),
                      seen |-> SumFunction([i \in DOMAIN caches |->
                                 [j \in DOMAIN caches |-> caches[j].cells[k]][i].seen])]]
             z == NewCache(0, caches[1].config)
  <2>1. Merge(caches) = [z EXCEPT !.cells = f]
    BY DEF Merge
  <2>2. "cells" \in DOMAIN z
    BY DEF NewCache
  <2> HIDE DEF z, f
  <2>3. Merge(caches).cells = f
    BY <2>1, <2>2
  <2>4. f[c] = [entries |-> Top(UNION {[j \in 1 .. n |-> caches[j].cells[c]][i].entries : i \in 1 .. n}),
                seen |-> SumFunction([i \in 1 .. n |->
                           [j \in 1 .. n |-> caches[j].cells[c]][i].seen])]
    BY <1>1 DEF f
  <2>5. UNION {[j \in 1 .. n |-> caches[j].cells[c]][i].entries : i \in 1 .. n} = A
    BY DEF Whole
  <2>6. [i \in 1 .. n |-> [j \in 1 .. n |-> caches[j].cells[c]][i].seen]
        = seen
    OBVIOUS
  <2> HIDE DEF A, seen
  <2>. QED
    BY <2>3, <2>4, <2>5, <2>6
<1>3. ASSUME NEW h \in 1 .. n
      PROVE  /\ IsFiniteSet(R[h]) /\ Ranked(R[h]) /\ IsTop(K[h], R[h])
             /\ caches[h].cells[c].seen = Cardinality(R[h])
             /\ \A e \in R[h] : e.row[1][1] \in Upto(h, Len(Shard[h]))
  <2>1. Len(Shard[h]) \in 0 .. Len(Shard[h]) /\ h \in DOMAIN Shard
    BY <1>1
  <2>2. IsReservoir(caches[h].cells[c], R[h])
    BY <2>1
  <2>. QED
    BY <2>1, <2>2, RowsFacts DEF IsReservoir
<1>4. ASSUME NEW h \in 1 .. n, NEW g \in 1 .. n, h # g PROVE R[h] \cap R[g] = {}
  <2>1. SUFFICES ASSUME NEW e \in R[h], e \in R[g] PROVE FALSE
    OBVIOUS
  <2>2. e.row[1][1] \in Upto(h, Len(Shard[h])) /\ e.row[1][1] \in Upto(g, Len(Shard[g]))
    BY <1>3, <2>1
  <2>3. PICK m \in DOMAIN Shard[h] : e.row[1][1] = Shard[h][m]
    BY <1>1, <2>2 DEF Upto
  <2>4. PICK l \in DOMAIN Shard[g] : e.row[1][1] = Shard[g][l]
    BY <1>1, <2>2 DEF Upto
  <2>. QED
    BY <1>1, <1>4, <2>3, <2>4, CollectorAssumption
<1>11. B = UNION {RowsOf(h, c, Len(Shard[h])) : h \in DOMAIN Shard}
  BY <1>1 DEF Whole
<1>5. seen = [h \in 1 .. n |-> Cardinality(R[h])]
  <2> HIDE DEF R
  <2>. QED
    BY <1>3
<1>6. \A h \in 1 .. n : Enough(K[h], R[h])
  <2> HIDE DEF K, R
  <2>. QED
    BY <1>3, TopEnough
<1>7. IsFiniteSet(B) /\ Cardinality(B) = SumFunction(seen)
  <2> HIDE DEF K, R, n, seen
  <2>1. B = UNION {R[h] : h \in 1 .. n}
    BY DEF Whole
  <2>2. /\ IsFiniteSet(UNION {R[h] : h \in 1 .. n})
        /\ Cardinality(UNION {R[h] : h \in 1 .. n}) =
             SumFunction([h \in 1 .. n |-> Cardinality(R[h])])
    BY <1>1, <1>3, <1>4, UnionCardinality
  <2>. QED
    BY <1>5, <2>1, <2>2
<1> HIDE DEF K, R, n, seen
<1>8. Ranked(B)
  BY <1>3 DEF Ranked, Whole
<1>9. IsFiniteSet(A) /\ Ranked(A)
  <2>1. A \in SUBSET B
    BY <1>6 DEF Enough, Whole
  <2> HIDE DEF A, B
  <2>. QED
    BY <1>7, <1>8, <2>1, FS_Subset DEF Ranked
<1>10. IsTop(Top(A), B)
  <2>1. IsTop(Top(A), A)
    <3> HIDE DEF A
    <3>. QED
      BY <1>9, TopIsTop
  <2> DEFINE T == Top(A)
  <2>2. \A h \in I : Enough(K[h], R[h])
    BY <1>6
  <2> HIDE DEF T, I
  <2>4. IsTop(T, B)
    BY <1>7, <1>8, <2>1, <2>2, TopOfKept DEF T
  <2>. QED
    BY <2>4 DEF T
<1> HIDE DEF A, B
<1>. QED
  BY <1>2, <1>7, <1>10, <1>11 DEF IsReservoir

-----------------------------------------------------------------------------
\* The positions before HowFar of the observation in progress are fed.
HowFar ==
  IF pc \in {"input", "linear"} /\ probe = 1 THEN at
  ELSE IF pc \in {"input", "linear", "check", "backward", "finish"} \/ (pc = "probe" /\ probe > 1)
       THEN AllPositions
  ELSE 1

Feeders ==
  pc \in {"input", "linear"} =>
    feeding = IF probe > 1 THEN "none" ELSE IF setting.optimized THEN "capture" ELSE "prehook"

Everything(c) == UNION {RowsOf(h, c, Len(Shard[h])) : h \in DOMAIN Shard}

Reservoirs ==
  /\ pc \notin Ended \cup {"open"} => IsCacheOf(cache, shard, done, HowFar)
  /\ progress # None => IsCacheOf(FromStateDict(progress.cache), shard, progress.completed, 1)
  /\ \A h \in DOMAIN published : \A c \in Cell :
       IsReservoir(published[h].cache.cells[c], RowsOf(h, c, Len(Shard[h])))
  /\ merged # None => \A c \in Cell : IsReservoir(merged.cache.cells[c], Everything(c))

LEMMA FeedersStep ==
  ASSUME Bounds, Feeders, [Next]_vars
  PROVE  Feeders'
<1>1. CASE Open \/ ResetObservation \/ EndForward \/ (\E k \in Key : BackwardHook(k)) \/ EndBackward
           \/ FinishObservation \/ Commit \/ Publish \/ MergeArtifacts \/ Crash
  <2>1. pc' \notin {"input", "linear"}
    BY <1>1 DEF Open, ResetObservation, EndForward, BackwardHook, EndBackward, FinishObservation,
         Commit, Publish, MergeArtifacts, Crash
  <2>. QED
    BY <2>1 DEF Feeders
<1>2. CASE BeginProbe
  BY <1>2 DEF BeginProbe, Feeders
<1>3. CASE NextInput
  BY <1>3 DEF NextInput, Feeders, hooked
<1>4. CASE LinearRuns
  <2>1. pc = "linear" /\ UNCHANGED <<setting, probe, feeding>>
    BY <1>4 DEF LinearRuns
  <2>. QED
    BY <2>1 DEF Feeders
<1>5. CASE UNCHANGED vars
  BY <1>5 DEF vars, hooked, Feeders
<1>6. CASE Over
  BY <1>5, <1>6 DEF Over
<1>. QED
  BY <1>1, <1>2, <1>3, <1>4, <1>5, <1>6 DEF Next

LEMMA SameRows ==
  ASSUME UNCHANGED setting
  PROVE  /\ \A h, c, n : RowsOf(h, c, n)' = RowsOf(h, c, n)
         /\ \A c : Everything(c)' = Everything(c)
         /\ \A v, h, n, p : IsCacheOf(v, h, n, p)' = IsCacheOf(v, h, n, p)
<1>1. \A o, p : Content(o, p)' = Content(o, p)
  BY DEF Content, Origin, LastFed, HowFed
<1>2. \A h, c, n : RowsOf(h, c, n)' = RowsOf(h, c, n)
  BY <1>1 DEF RowsOf
<1>3. \A c : Everything(c)' = Everything(c)
  BY <1>2 DEF Everything
<1>4. \A v, h, n, p : IsCacheOf(v, h, n, p)' = IsCacheOf(v, h, n, p)
  BY <1>2 DEF IsCacheOf
<1>. QED
  BY <1>2, <1>3, <1>4

\* The cache changes in a known way, and what is on disk does not.
LEMMA ReservoirsKept ==
  ASSUME Reservoirs, UNCHANGED <<setting, shard, progress, published, merged>>,
         pc' \notin Ended \cup {"open"} => IsCacheOf(cache', shard, done', HowFar')
  PROVE  Reservoirs'
<1>1. \A v, h, n, p : IsCacheOf(v, h, n, p)' = IsCacheOf(v, h, n, p)
  BY SameRows
<1>2. /\ \A h, c, n : RowsOf(h, c, n)' = RowsOf(h, c, n)
      /\ \A c : Everything(c)' = Everything(c)
  BY SameRows
<1>3. pc' \notin Ended \cup {"open"} => (IsCacheOf(cache, shard, done, HowFar))'
  BY <1>1
<1>4. progress' # None =>
        (IsCacheOf(FromStateDict(progress.cache), shard, progress.completed, 1))'
  BY <1>1 DEF Reservoirs
<1>. QED
  BY <1>2, <1>3, <1>4 DEF Reservoirs, Ended

LEMMA ReservoirsLinear ==
  ASSUME IInv, Bounds, Feeders, Reservoirs, LinearRuns
  PROVE  Reservoirs'
<1> DEFINE x == Content(Current, at)
<1>1. /\ at \in Position /\ call = CallAt(at) /\ <<SiteAt(at), call>> \in Key
      /\ tensors[input].content = x /\ OffloadInput(input) = x
  BY HostFaithful
<1>2. /\ pc = "linear" /\ at' = at + 1 /\ pc' = (IF at + 1 \in Position THEN "input" ELSE "check")
      /\ UNCHANGED <<setting, shard, done, probe, progress, published, merged>>
      /\ cache' = CASE feeding = "prehook" -> FeedCache(SiteAt(at), call, tensors[input].content)
                    [] feeding = "capture" -> FeedCache(SiteAt(at), call, OffloadInput(input))
                    [] OTHER -> cache
  BY DEF LinearRuns, disk
<1>3. shard \in DOMAIN Shard /\ done \in Nat /\ done < Len(Shard[shard]) /\ probe \in Nat /\ probe >= 1
  BY SMTT(30), <1>2, ShardFacts, CollectorAssumption DEF Bounds, TypeOK, InObservation, Probe
<1>4. IsCacheOf(cache, shard, done, HowFar)
  BY <1>2 DEF Reservoirs, Ended
<1>5. CASE probe = 1
  <2>1. cache' = FeedCache(SiteAt(at), CallAt(at), x)
    <3>1. feeding \in {"prehook", "capture"}
      BY <1>2, <1>5 DEF Feeders
    <3>. QED
      BY <1>1, <1>2, <3>1
  <2>2. HowFar = at
    BY <1>2, <1>5 DEF HowFar
  <2>3. CallAt(at) \in Call
    BY <1>1 DEF Key
  <2>4. IsCacheOf(cache', shard, done, at + 1)
    BY <1>1, <1>3, <1>4, <2>1, <2>2, <2>3, FeedOfIs DEF Current
  <2>5. HowFar' = at + 1
    <3>1. CASE at + 1 \in Position
      BY <1>2, <1>5, <3>1 DEF HowFar
    <3>2. CASE at + 1 \notin Position
      <4> DEFINE n == NumCalls * Len(Site)
      <4>1. at \in 1 .. n /\ at + 1 \notin 1 .. n /\ n \in Nat /\ AllPositions = n + 1
        BY <1>1, <3>2, PositionFacts DEF Position, AllPositions
      <4> HIDE DEF n
      <4>2. AllPositions = at + 1
        BY <4>1
      <4>3. HowFar' = AllPositions
        BY <1>2, <3>2 DEF HowFar, AllPositions
      <4>. QED
        BY <4>2, <4>3
    <3>. QED
      BY <3>1, <3>2
  <2>. QED
    BY <1>2, <2>4, <2>5, ReservoirsKept
<1>6. CASE probe # 1
  <2>1. cache' = cache
    BY <1>2, <1>3, <1>6 DEF Feeders
  <2>2. HowFar' = AllPositions /\ HowFar = AllPositions
    BY <1>2, <1>6 DEF HowFar, AllPositions
  <2>. QED
    BY <1>2, <1>4, <2>1, <2>2, ReservoirsKept
<1>. QED
  BY <1>5, <1>6

LEMMA ReservoirsPublish ==
  ASSUME Bounds, Counted, Reservoirs, Publish
  PROVE  Reservoirs'
<1>1. /\ pc = "observe" /\ done = Len(Shard[shard]) /\ pc' \in {"open", "merge"}
      /\ progress' = None /\ UNCHANGED <<setting, merged>>
  BY DEF Publish
<1>2. /\ shard \in DOMAIN Shard
      /\ DOMAIN published' = 1 .. shard /\ DOMAIN published = 1 .. shard - 1
      /\ \A h \in 1 .. shard - 1 : published'[h] = published[h]
      /\ published'[shard] = NewArtifact
  BY PublishAppends
<1>3. IsCacheOf(cache, shard, done, 1)
  BY <1>1 DEF Reservoirs, Ended, HowFar
<1>4. \A c \in Cell : IsReservoir(NewArtifact.cache.cells[c], RowsOf(shard, c, Len(Shard[shard])))
  <2>1. NewArtifact.cache.cells = cache.cells
    BY DEF NewArtifact, StateDict
  <2>. QED
    BY <1>1, <1>3, <2>1, Ends DEF IsCacheOf
<1>5. ASSUME NEW h \in DOMAIN published', NEW c \in Cell
      PROVE  IsReservoir(published'[h].cache.cells[c], RowsOf(h, c, Len(Shard[h])))
  <2>1. CASE h = shard
    BY <1>2, <1>4, <2>1
  <2>2. CASE h # shard
    <3>1. h \in 1 .. shard - 1
      BY <1>2, <2>2, ShardFacts
    <3>. QED
      BY <1>2, <3>1 DEF Reservoirs
  <2>. QED
    BY <2>1, <2>2
<1>6. /\ \A h, c, n : RowsOf(h, c, n)' = RowsOf(h, c, n)
      /\ \A c : Everything(c)' = Everything(c)
  BY <1>1, SameRows
<1>7. merged # None => \A c \in Cell : IsReservoir(merged.cache.cells[c], Everything(c))
  BY DEF Reservoirs
<1>8. pc' \in Ended \cup {"open"}
  BY <1>1 DEF Ended
<1>9. (pc \in Ended \cup {"open"})'
  BY <1>8 DEF Ended
<1>. QED
  BY <1>1, <1>5, <1>6, <1>7, <1>9 DEF Reservoirs

LEMMA ReservoirsMerge ==
  ASSUME Bounds, Counted, Reservoirs, MergeArtifacts
  PROVE  Reservoirs'
<1> DEFINE fields == [h \in DOMAIN published |-> published[h].field]
           caches == [h \in DOMAIN published |-> FromStateDict(published[h].cache)]
<1>1. /\ pc = "merge" /\ pc' = "over"
      /\ UNCHANGED <<setting, shard, done, progress, published>>
      /\ \/ merged' = [field |-> MergeFields(fields), cache |-> Merge(caches)]
         \/ merged' = merged
  BY DEF MergeArtifacts
<1> HIDE DEF fields
<1>2. DOMAIN published = DOMAIN Shard
  <2>1. Len(published) = Len(Shard) /\ \E S : published \in Seq(S)
    BY <1>1 DEF Counted, Ended
  <2>. QED
    BY <2>1, ShardFacts
<1>3. \A h \in DOMAIN Shard : caches[h].cells = published[h].cache.cells
  <2>1. \A h \in DOMAIN Shard : caches[h] = FromStateDict(published[h].cache)
    BY <1>2
  <2>2. ASSUME NEW v PROVE FromStateDict(v).cells = v.cells
    <3> DEFINE a == [NewCache(0, v.config) EXCEPT !.cells = v.cells]
               b == [a EXCEPT !.seed = v.generator_state.seed]
               d == [b EXCEPT !.drawn = v.generator_state.drawn]
    <3>1. FromStateDict(v) = d
      BY DEF FromStateDict
    <3>2. a.cells = v.cells
      BY DEF NewCache
    <3> HIDE DEF a
    <3>3. d.cells = a.cells
      OBVIOUS
    <3>. QED
      BY <3>1, <3>2, <3>3
  <2>. QED
    BY <2>1, <2>2
<1>4. DOMAIN caches = DOMAIN Shard
  BY <1>2
<1> HIDE DEF caches
<1>5. ASSUME NEW c \in Cell PROVE IsReservoir(Merge(caches).cells[c], Everything(c))
  <2>1. \A h \in DOMAIN Shard : IsReservoir(caches[h].cells[c], RowsOf(h, c, Len(Shard[h])))
    BY <1>2, <1>3 DEF Reservoirs
  <2>. QED
    BY <1>4, <2>1, MergedCaches DEF Everything
<1>6. merged' # None => \A c \in Cell : IsReservoir(merged'.cache.cells[c], Everything(c))
  BY <1>1, <1>5 DEF Reservoirs
<1>7. /\ \A h, c, n : RowsOf(h, c, n)' = RowsOf(h, c, n)
      /\ \A c : Everything(c)' = Everything(c)
      /\ \A v, h, n, p : IsCacheOf(v, h, n, p)' = IsCacheOf(v, h, n, p)
  BY <1>1, SameRows
<1>8. progress' # None =>
        (IsCacheOf(FromStateDict(progress.cache), shard, progress.completed, 1))'
  BY <1>1, <1>7 DEF Reservoirs
<1>. QED
  BY <1>1, <1>6, <1>7, <1>8 DEF Reservoirs, Ended

LEMMA ReservoirsStep ==
  ASSUME IInv, Bounds, Counted, Feeders, Reservoirs, [Next]_vars
  PROVE  Reservoirs'
<1>1. shard \in DOMAIN Shard /\ done \in Nat /\ probe \in Nat /\ probe >= 1
  BY ShardFacts, CollectorAssumption DEF Bounds, TypeOK, Probe
<1>2. pc \notin Ended \cup {"open"} => IsCacheOf(cache, shard, done, HowFar)
  BY DEF Reservoirs
<1>3. CASE Open
  <2>1. /\ pc' = "observe" /\ UNCHANGED <<setting, shard, progress, published, merged>>
        /\ \/ /\ progress # None /\ done' = progress.completed
              /\ cache' = FromStateDict(progress.cache)
           \/ /\ progress = None /\ done' = 0
              /\ cache' = NewCache(Seed[shard], setting.config[shard])
    BY <1>3 DEF Open, disk
  <2>2. HowFar' = 1
    BY <2>1 DEF HowFar
  <2>3. IsCacheOf(cache', shard, done', 1)
    BY <1>1, <2>1, NewCacheIs DEF Reservoirs
  <2>. QED
    BY <2>1, <2>2, <2>3, ReservoirsKept
<1>4. CASE ResetObservation
  <2>1. pc = "observe" /\ pc' = "probe" /\ probe' = 1
        /\ UNCHANGED <<setting, shard, done, cache, progress, published, merged>>
    BY <1>4 DEF ResetObservation, collected, disk
  <2>2. HowFar = 1 /\ HowFar' = 1
    BY <2>1 DEF HowFar
  <2>. QED
    BY <1>2, <2>1, <2>2, ReservoirsKept DEF Ended
<1>5. CASE BeginProbe
  <2>1. pc = "probe" /\ pc' = "input" /\ at' = 1
        /\ UNCHANGED <<setting, shard, done, probe, cache, progress, published, merged>>
    BY <1>5 DEF BeginProbe, collected, disk
  <2>2. HowFar = HowFar'
    BY <1>1, <2>1 DEF HowFar, AllPositions
  <2>. QED
    BY <1>2, <2>1, <2>2, ReservoirsKept DEF Ended
<1>6. CASE NextInput
  <2>1. pc = "input" /\ pc' = "linear"
        /\ UNCHANGED <<setting, shard, done, probe, at, cache, progress, published, merged>>
    BY <1>6 DEF NextInput, collected, disk
  <2>2. HowFar = HowFar'
    BY <2>1 DEF HowFar, AllPositions
  <2>. QED
    BY <1>2, <2>1, <2>2, ReservoirsKept DEF Ended
<1>7. CASE EndForward
  <2>1. pc = "check" /\ pc' = "backward"
        /\ UNCHANGED <<setting, shard, done, cache, progress, published, merged>>
    BY <1>7 DEF EndForward, collected, disk
  <2>2. HowFar = HowFar'
    BY <2>1 DEF HowFar, AllPositions
  <2>. QED
    BY <1>2, <2>1, <2>2, ReservoirsKept DEF Ended
<1>8. CASE \E k \in Key : BackwardHook(k)
  <2>1. pc = "backward" /\ pc' = "backward"
        /\ UNCHANGED <<setting, shard, done, cache, progress, published, merged>>
    BY <1>8 DEF BackwardHook, collected, disk
  <2>2. HowFar = HowFar'
    BY <2>1 DEF HowFar, AllPositions
  <2>. QED
    BY <1>2, <2>1, <2>2, ReservoirsKept DEF Ended
<1>9. CASE EndBackward
  <2>1. pc = "backward" /\ ((pc' = "probe" /\ probe' = probe + 1) \/ pc' = "finish")
        /\ UNCHANGED <<setting, shard, done, cache, progress, published, merged>>
    BY <1>9 DEF EndBackward, collected, disk
  <2>2. HowFar = AllPositions /\ HowFar' = AllPositions
    BY <1>1, <2>1 DEF HowFar, AllPositions
  <2>. QED
    BY <1>2, <2>1, <2>2, ReservoirsKept DEF Ended
<1>10. CASE FinishObservation
  <2>1. pc = "finish" /\ pc' = "commit" /\ done' = done + 1
        /\ UNCHANGED <<setting, shard, cache, progress, published, merged>>
    BY <1>10 DEF FinishObservation, disk
  <2>2. HowFar = AllPositions /\ HowFar' = 1
    BY <2>1 DEF HowFar
  <2>3. IsCacheOf(cache, shard, done + 1, 1)
    BY <1>1, <1>2, <2>1, <2>2, FinishIs DEF Ended
  <2>. QED
    BY <2>1, <2>2, <2>3, ReservoirsKept
<1>11. CASE Commit
  <2>1. /\ pc = "commit" /\ pc' = "observe"
        /\ UNCHANGED <<setting, shard, done, cache, published, merged>>
        /\ \/ progress' = [completed |-> done, cache |-> StateDict(cache),
                           accumulator |-> accumulator]
           \/ progress' = progress
    BY <1>11 DEF Commit, collected
  <2>2. HowFar = 1 /\ HowFar' = 1
    BY <2>1 DEF HowFar
  <2>3. IsCacheOf(cache, shard, done, 1)
    BY <1>2, <2>1, <2>2 DEF Ended
  <2>4. progress' # None =>
          IsCacheOf(FromStateDict(progress'.cache), shard, progress'.completed, 1)
    <3>1. CASE progress' = progress
      BY <3>1 DEF Reservoirs
    <3>2. CASE progress' # progress
      <4>1. progress'.cache = StateDict(cache) /\ progress'.completed = done
        BY <2>1, <3>2
      <4>. QED
        BY <2>3, <4>1, LoadedIs
    <3>. QED
      BY <3>1, <3>2
  <2>5. /\ \A h, c, n : RowsOf(h, c, n)' = RowsOf(h, c, n)
        /\ \A c : Everything(c)' = Everything(c)
        /\ \A v, h, n, p : IsCacheOf(v, h, n, p)' = IsCacheOf(v, h, n, p)
    BY <2>1, SameRows
  <2>6. (IsCacheOf(cache, shard, done, HowFar))'
    BY <2>1, <2>2, <2>3, <2>5
  <2>7. progress' # None =>
          (IsCacheOf(FromStateDict(progress.cache), shard, progress.completed, 1))'
    BY <2>1, <2>4, <2>5
  <2>. QED
    BY <2>1, <2>5, <2>6, <2>7 DEF Reservoirs, Ended
<1>12. CASE Crash
  <2>1. pc' = "open" /\ UNCHANGED <<setting, shard, progress, published, merged>>
    BY <1>12 DEF Crash, disk
  <2>. QED
    BY <2>1, ReservoirsKept DEF Ended
<1>13. CASE UNCHANGED vars
  <2>1. UNCHANGED <<setting, shard, pc, done, probe, at, cache, progress, published, merged>>
    BY <1>13 DEF vars, collected, disk
  <2>2. HowFar = HowFar'
    BY <2>1 DEF HowFar, AllPositions
  <2>. QED
    BY <1>2, <2>1, <2>2, ReservoirsKept DEF Ended
<1>14. CASE Over
  BY <1>13, <1>14 DEF Over
<1>. QED
  BY <1>3, <1>4, <1>5, <1>6, <1>7, <1>8, <1>9, <1>10, <1>11, <1>12, <1>13, <1>14,
     ReservoirsLinear, ReservoirsPublish, ReservoirsMerge DEF Next

LEMMA ReservoirsInit == Init => Feeders /\ Reservoirs
<1>1. SUFFICES ASSUME Init PROVE Feeders /\ Reservoirs
  OBVIOUS
<1>2. /\ pc = "open" /\ progress = None /\ published = <<>> /\ merged = None
  BY <1>1 DEF Init
<1>3. DOMAIN published = {}
  BY <1>2
<1>. QED
  BY <1>2, <1>3 DEF Feeders, Reservoirs, Ended

RInv == SInv /\ Feeders /\ Reservoirs

LEMMA RInvHolds == Spec => []RInv
<1>1. Init => RInv
  BY InitHolds, BoundsInit, CountedInit, ReservoirsInit DEF RInv, SInv, CInv
<1>2. RInv /\ [Next]_vars => RInv'
  BY NextHolds, BudgetStep, BoundsStep, HookedStep, ScoringStep, CountedStep,
     FeedersStep, ReservoirsStep DEF RInv, SInv, CInv
<1>. QED
  BY <1>1, <1>2, PTL DEF Spec

\* Each reservoir keeps the rows of highest priority of all rows its cell was
\* ever fed, with the priorities an uninterrupted run draws, however often the
\* process dies and resumes from whichever snapshot; and so does the merge of
\* the shards (ActivationCache.add, from_state_dict, merge).
THEOREM Uninterrupted == Spec => []ReservoirUninterrupted
<1>1. RInv => ReservoirUninterrupted
  <2>1. SUFFICES ASSUME RInv PROVE ReservoirUninterrupted
    OBVIOUS
  <2>2. Bounds /\ Reservoirs
    BY <2>1 DEF RInv, SInv, CInv
  <2>3. ASSUME pc \notin {"open", "merge", "over"}, NEW c \in Cell
        PROVE  IsReservoir(cache.cells[c],
                 RowsOf(shard, c, IF HasFed(PositionOf(c)) THEN done + 1 ELSE done))
    <3>1. IsReservoir(cache.cells[c],
            RowsOf(shard, c, IF PositionOf(c) < HowFar THEN done + 1 ELSE done))
      BY <2>2, <2>3 DEF Reservoirs, Ended, IsCacheOf
    <3>2. HasFed(PositionOf(c)) <=> PositionOf(c) < HowFar
      <4>1. ~(PositionOf(c) < 1) /\ PositionOf(c) < AllPositions
        BY Ends
      <4>2. probe \in Nat /\ probe >= 1
        BY <2>2, CollectorAssumption DEF Bounds, TypeOK, Probe
      <4>3. probe > 1 <=> probe # 1
        BY <4>2
      <4>4. pc \in {"observe", "probe", "input", "linear", "check", "backward", "finish", "commit"}
        BY <2>2, <2>3 DEF Bounds, TypeOK
      <4>. QED
        BY <4>1, <4>3, <4>4 DEF HasFed, HowFar
    <3>. QED
      BY <3>1, <3>2
  <2>4. ASSUME merged # None, NEW c \in Cell
        PROVE  IsReservoir(merged.cache.cells[c],
                 UNION {RowsOf(h, c, Len(Shard[h])) : h \in DOMAIN Shard})
    BY <2>2, <2>4 DEF Reservoirs, Everything
  <2>. QED
    BY <2>3, <2>4 DEF ReservoirUninterrupted
<1>. QED
  BY <1>1, RInvHolds, PTL
=============================================================================
