--------------------------- MODULE RunMergeProofs ---------------------------
(***************************************************************************)
(* What RunMerge promises of a merged run, proved for any finite number of *)
(* spec files and tests, and for any shards, reports and live events.  The *)
(* sums over files and tests come first: what SumFunction of the community *)
(* modules computes, by induction over the subsets of a finite set.        *)
(***************************************************************************)
EXTENDS RunMerge, FiniteSetTheorems, WellFoundedInduction, TLAPS

\* A set of numbers has a least one.
LEMMA LeastNumber ==
  ASSUME NEW T \in SUBSET Nat, T # {}
  PROVE  \E m \in T : \A n \in T : m <= n
<1>. DEFINE R == {ss \in Nat \X Nat : ss[1] < ss[2]}
<1>1. IsWellFoundedOn(R, Nat)
  BY NatLessThanWellFounded DEF OpToRel
<1>. HIDE DEF R
<1>2. PICK x \in T : \A y \in T : ~ (<<y, x>> \in R)
  BY <1>1, WFMin
<1>3. ASSUME NEW y \in T PROVE x <= y
  <2>1. <<y, x>> \in Nat \X Nat /\ <<y, x>>[1] = y /\ <<y, x>>[2] = x
    OBVIOUS
  <2>. QED BY <1>2, <2>1 DEF R
<1>. QED BY <1>3

\* Induction over the subsets of a finite set, for a set in place of a predicate.
LEMMA SubsetInduction ==
  ASSUME NEW S, IsFiniteSet(S), NEW G, {} \in G,
         \A U \in SUBSET S : U # {} /\ (\A x \in U : U \ {x} \in G) => U \in G
  PROVE  \A U \in SUBSET S : U \in G
<1>. DEFINE T == {n \in Nat : \E U \in SUBSET S : U \notin G /\ n = Cardinality(U)}
<1>1. \A U \in SUBSET S : IsFiniteSet(U) /\ Cardinality(U) \in Nat
  BY FS_Subset, FS_CardinalityType
<1>2. SUFFICES ASSUME T # {} PROVE FALSE
  BY <1>1
<1>3. PICK m \in T : \A n \in T : m <= n
  BY <1>2, LeastNumber
<1>4. PICK U \in SUBSET S : U \notin G /\ m = Cardinality(U)
  BY <1>3
<1>5. ASSUME NEW x \in U
      PROVE  U \ {x} \in G
  <2>1. Cardinality(U \ {x}) = m - 1 /\ U \ {x} \in SUBSET S /\ m \in Nat
    BY <1>1, <1>4, <1>5, FS_RemoveElement
  <2>2. U \ {x} \notin G => m - 1 \in T
    BY <1>1, <2>1
  <2>. QED BY <1>3, <2>1, <2>2
<1>. QED BY <1>4, <1>5

-----------------------------------------------------------------------------
(* Sums.                                                                   *)

\* The recursion behind SumFunctionOnSet: an element is taken and added last.
Taken(s) == CHOOSE x \in s : TRUE
Add(g, h, s) == IF s = {} THEN 0 ELSE g[Taken(s)] + h[s \ {Taken(s)}]
SumOver(g, S) == CHOOSE h : h = [s \in SUBSET S |-> Add(g, h, s)]

\* It is the library's definition.
LEMMA SumUnfold ==
  ASSUME NEW g, NEW S
  PROVE  SumFunctionOnSet(g, S) = SumOver(g, S)[S]
BY DEF SumFunctionOnSet, FoldFunctionOnSet, MapThenFoldSet, SumOver, Taken, Add

\* A set that is not empty has an element to take.
LEMMA TakenElement ==
  ASSUME NEW S, S # {}
  PROVE  Taken(S) \in S
BY DEF Taken

\* The recursion defines a function on the subsets of a finite set.
LEMMA SumOverIs ==
  ASSUME NEW S, IsFiniteSet(S), NEW g
  PROVE  SumOver(g, S) = [s \in SUBSET S |-> Add(g, SumOver(g, S), s)]
<1>. DEFINE Upto(n, h) == \A s \in SUBSET S : Cardinality(s) <= n => h[s] = Add(g, h, s)
            T == {n \in Nat : ~ \E h : Upto(n, h)}
<1>1. \A s \in SUBSET S : /\ IsFiniteSet(s) /\ Cardinality(s) \in Nat
                          /\ Cardinality(s) = 0 <=> s = {}
                          /\ s # {} => /\ Taken(s) \in s /\ s \ {Taken(s)} \in SUBSET S
                                       /\ Cardinality(s \ {Taken(s)}) = Cardinality(s) - 1
  BY FS_Subset, FS_CardinalityType, FS_EmptySet, FS_RemoveElement, TakenElement
<1>2. T = {}
  <2>1. SUFFICES ASSUME T # {} PROVE FALSE
    OBVIOUS
  <2>2. PICK m \in T : \A n \in T : m <= n
    BY <2>1, LeastNumber
  <2>3. Upto(0, [s \in SUBSET S |-> 0])
    <3>1. ASSUME NEW s \in SUBSET S, Cardinality(s) <= 0
          PROVE  s = {}
      <4>1. Cardinality(s) \in Nat /\ (Cardinality(s) = 0 <=> s = {})
        BY <1>1
      <4>. QED BY <3>1, <4>1
    <3>. QED BY <3>1 DEF Add
  <2>4. m # 0 /\ m - 1 \in Nat /\ m - 1 \notin T
    BY <2>2, <2>3
  <2>5. PICK h : Upto(m - 1, h)
    BY <2>4
  <2>. DEFINE k == [s \in SUBSET S |-> Add(g, h, s)]
  <2>6. \A s \in SUBSET S : Cardinality(s) <= m - 1 => k[s] = h[s]
    BY <2>5
  <2>7. ASSUME NEW s \in SUBSET S, Cardinality(s) <= m
        PROVE  k[s] = Add(g, k, s)
    <3>1. s # {} => k[s \ {Taken(s)}] = h[s \ {Taken(s)}]
      <4>1. s # {} => Cardinality(s \ {Taken(s)}) <= m - 1 /\ s \ {Taken(s)} \in SUBSET S
        BY <1>1, <2>2, <2>7
      <4>. QED BY <2>6, <4>1
    <3>2. k[s] = Add(g, h, s)
      OBVIOUS
    <3>. HIDE DEF k
    <3>. QED BY <3>1, <3>2 DEF Add
  <2>. QED BY <2>2, <2>7
<1>3. Cardinality(S) \in Nat /\ \A s \in SUBSET S : Cardinality(s) <= Cardinality(S)
  BY FS_CardinalityType, FS_Subset
<1>4. PICK h : Upto(Cardinality(S), h)
  BY <1>2, <1>3
<1>. DEFINE k == [s \in SUBSET S |-> h[s]]
<1>5. \A s \in SUBSET S : k[s] = Add(g, k, s)
  BY <1>1, <1>3, <1>4 DEF Add
<1>6. k = [s \in SUBSET S |-> Add(g, k, s)]
  BY <1>5
<1>. HIDE DEF k
<1>. QED BY <1>6 DEF SumOver

\* A sum over no index is zero; one element at a time is added.
LEMMA SumStep ==
  ASSUME NEW S, IsFiniteSet(S), NEW g
  PROVE  /\ SumFunctionOnSet(g, {}) = 0
         /\ S # {} => SumFunctionOnSet(g, S) = g[Taken(S)] + SumFunctionOnSet(g, S \ {Taken(S)})
<1>1. ASSUME NEW U \in SUBSET S
      PROVE  SumOver(g, U)[U] = SumOver(g, S)[U]
  <2>. DEFINE G == {s \in SUBSET U : SumOver(g, U)[s] = SumOver(g, S)[s]}
  <2>1. IsFiniteSet(U)
    BY FS_Subset
  <2>2. \A s \in SUBSET U : /\ SumOver(g, U)[s] = Add(g, SumOver(g, U), s)
                            /\ SumOver(g, S)[s] = Add(g, SumOver(g, S), s)
    <3>1. SumOver(g, U) = [s \in SUBSET U |-> Add(g, SumOver(g, U), s)]
      BY <2>1, SumOverIs
    <3>2. SumOver(g, S) = [s \in SUBSET S |-> Add(g, SumOver(g, S), s)]
      BY SumOverIs
    <3>3. ASSUME NEW s \in SUBSET U
          PROVE  /\ SumOver(g, U)[s] = Add(g, SumOver(g, U), s)
                 /\ SumOver(g, S)[s] = Add(g, SumOver(g, S), s)
      BY <3>1, <3>2
    <3>. QED BY <3>3
  <2>3. {} \in G
    BY <2>2 DEF Add
  <2>4. \A s \in SUBSET U : s # {} /\ (\A x \in s : s \ {x} \in G) => s \in G
    BY <2>2, TakenElement DEF Add
  <2>5. U \in G
    <3>. HIDE DEF G
    <3>. QED BY <2>1, <2>3, <2>4, SubsetInduction
  <2>. QED BY <2>5
<1>2. ASSUME NEW U \in SUBSET S
      PROVE  SumFunctionOnSet(g, U) = SumOver(g, S)[U]
  BY <1>1, SumUnfold
<1>3. SumOver(g, S) = [s \in SUBSET S |-> Add(g, SumOver(g, S), s)]
  BY SumOverIs
<1>4. \A s \in SUBSET S : SumOver(g, S)[s] = Add(g, SumOver(g, S), s)
  BY <1>3
<1>5. SumFunctionOnSet(g, {}) = 0
  BY <1>2, <1>4 DEF Add
<1>6. S # {} => SumFunctionOnSet(g, S) = g[Taken(S)] + SumFunctionOnSet(g, S \ {Taken(S)})
  BY <1>2, <1>4 DEF Add
<1>. QED BY <1>5, <1>6

\* A sum of natural numbers is one.
LEMMA SumNat ==
  ASSUME NEW S, IsFiniteSet(S), NEW g, \A x \in S : g[x] \in Nat
  PROVE  \A U \in SUBSET S : SumFunctionOnSet(g, U) \in Nat
<1>. DEFINE G == {U \in SUBSET S : SumFunctionOnSet(g, U) \in Nat}
<1>1. \A U \in SUBSET S : IsFiniteSet(U)
  BY FS_Subset
<1>2. {} \in G
  <2>1. SumFunctionOnSet(g, {}) = 0
    BY SumStep
  <2>. QED BY <2>1
<1>3. ASSUME NEW U \in SUBSET S, U # {}, \A x \in U : U \ {x} \in G
      PROVE  U \in G
  <2>1. PICK a : a = Taken(U)
    OBVIOUS
  <2>2. SumFunctionOnSet(g, U) = g[a] + SumFunctionOnSet(g, U \ {a})
    BY <1>1, <1>3, <2>1, SumStep
  <2>3. a \in U
    BY <1>3, <2>1, TakenElement
  <2>. QED BY <1>3, <2>2, <2>3
<1>4. \A U \in SUBSET S : U \in G
  <2>. HIDE DEF G
  <2>. QED BY <1>2, <1>3, SubsetInduction
<1>. QED BY <1>4

\* Any element can be the one that is added last.
LEMMA SumRemove ==
  ASSUME NEW S, IsFiniteSet(S), NEW g, \A x \in S : g[x] \in Nat
  PROVE  \A x \in S : SumFunctionOnSet(g, S) = g[x] + SumFunctionOnSet(g, S \ {x})
<1>. DEFINE F(U) == SumFunctionOnSet(g, U)
            G == {U \in SUBSET S : \A x \in U : F(U) = g[x] + F(U \ {x})}
<1>1. \A U \in SUBSET S : F(U) \in Nat /\ (U # {} => Taken(U) \in U /\ F(U) = g[Taken(U)] + F(U \ {Taken(U)}))
  BY SumStep, SumNat, FS_Subset, TakenElement
<1>. HIDE DEF F
<1>2. {} \in G
  OBVIOUS
<1>3. ASSUME NEW U \in SUBSET S, U # {}, \A x \in U : U \ {x} \in G
      PROVE  U \in G
  <2>1. PICK a : a = Taken(U)
    OBVIOUS
  <2>2. a \in U /\ F(U) = g[a] + F(U \ {a})
    BY <1>1, <1>3, <2>1
  <2>3. ASSUME NEW x \in U, x # a
        PROVE  F(U) = g[x] + F(U \ {x})
    <3>1. F(U \ {a}) = g[x] + F((U \ {a}) \ {x}) /\ F(U \ {x}) = g[a] + F((U \ {x}) \ {a})
      BY <1>3, <2>2, <2>3
    <3>2. (U \ {a}) \ {x} = (U \ {x}) \ {a}
      OBVIOUS
    <3>3. F((U \ {a}) \ {x}) \in Nat /\ g[x] \in Nat /\ g[a] \in Nat
      BY <1>1, <2>2
    <3>. QED BY <2>2, <3>1, <3>2, <3>3
  <2>. QED BY <2>2, <2>3
<1>4. S \in G
  <2>. HIDE DEF G
  <2>1. \A U \in SUBSET S : U \in G
    BY <1>2, <1>3, SubsetInduction
  <2>. QED BY <2>1
<1>. QED BY <1>4 DEF F

\* Sums of the same numbers are the same.
LEMMA SumSame ==
  ASSUME NEW S, IsFiniteSet(S), NEW g, NEW h, \A x \in S : g[x] = h[x]
  PROVE  SumFunctionOnSet(g, S) = SumFunctionOnSet(h, S)
<1>. DEFINE G == {U \in SUBSET S : SumFunctionOnSet(g, U) = SumFunctionOnSet(h, U)}
<1>1. \A U \in SUBSET S : IsFiniteSet(U)
  BY FS_Subset
<1>2. {} \in G
  BY SumStep
<1>3. ASSUME NEW U \in SUBSET S, U # {}, \A x \in U : U \ {x} \in G
      PROVE  U \in G
  <2>1. PICK a : a = Taken(U)
    OBVIOUS
  <2>2. /\ SumFunctionOnSet(g, U) = g[a] + SumFunctionOnSet(g, U \ {a})
        /\ SumFunctionOnSet(h, U) = h[a] + SumFunctionOnSet(h, U \ {a})
    BY <1>1, <1>3, <2>1, SumStep
  <2>3. a \in U
    BY <1>3, <2>1, TakenElement
  <2>. QED BY <1>3, <2>2, <2>3
<1>4. S \in G
  <2>. HIDE DEF G
  <2>1. \A U \in SUBSET S : U \in G
    BY <1>2, <1>3, SubsetInduction
  <2>. QED BY <2>1
<1>. QED BY <1>4

\* A sum of zeros is zero.
LEMMA SumZero ==
  ASSUME NEW S, IsFiniteSet(S), NEW g, \A x \in S : g[x] = 0
  PROVE  SumFunctionOnSet(g, S) = 0
<1>. DEFINE G == {U \in SUBSET S : SumFunctionOnSet(g, U) = 0}
<1>1. \A U \in SUBSET S : IsFiniteSet(U)
  BY FS_Subset
<1>2. {} \in G
  BY SumStep
<1>3. ASSUME NEW U \in SUBSET S, U # {}, \A x \in U : U \ {x} \in G
      PROVE  U \in G
  <2>1. PICK a : a = Taken(U)
    OBVIOUS
  <2>2. SumFunctionOnSet(g, U) = g[a] + SumFunctionOnSet(g, U \ {a})
    BY <1>1, <1>3, <2>1, SumStep
  <2>3. a \in U
    BY <1>3, <2>1, TakenElement
  <2>. QED BY <1>3, <2>2, <2>3
<1>4. S \in G
  <2>. HIDE DEF G
  <2>1. \A U \in SUBSET S : U \in G
    BY <1>2, <1>3, SubsetInduction
  <2>. QED BY <2>1
<1>. QED BY <1>4

\* A sum of ones counts them.
LEMMA SumOfOnes ==
  ASSUME NEW S, IsFiniteSet(S), NEW A \in SUBSET S, NEW g, \A x \in S : g[x] = IF x \in A THEN 1 ELSE 0
  PROVE  SumFunctionOnSet(g, S) = Cardinality(A)
<1>. DEFINE G == {U \in SUBSET S : SumFunctionOnSet(g, U) = Cardinality(A \cap U)}
<1>1. \A U \in SUBSET S : IsFiniteSet(U)
  BY FS_Subset
<1>2. {} \in G
  BY SumStep, FS_EmptySet
<1>3. ASSUME NEW U \in SUBSET S, U # {}, \A x \in U : U \ {x} \in G
      PROVE  U \in G
  <2>1. PICK a : a = Taken(U)
    OBVIOUS
  <2>2. a \in U /\ SumFunctionOnSet(g, U) = g[a] + Cardinality(A \cap (U \ {a}))
    <3>1. SumFunctionOnSet(g, U) = g[a] + SumFunctionOnSet(g, U \ {a})
      BY <1>1, <1>3, <2>1, SumStep
    <3>2. a \in U
      BY <1>3, <2>1, TakenElement
    <3>. QED BY <1>3, <3>1, <3>2
  <2>3. IsFiniteSet(A \cap U) /\ Cardinality(A \cap U) \in Nat
    BY FS_Subset, FS_CardinalityType
  <2>4. CASE a \in A
    <3>1. A \cap (U \ {a}) = (A \cap U) \ {a} /\ a \in A \cap U
      BY <2>2, <2>4
    <3>2. Cardinality((A \cap U) \ {a}) = Cardinality(A \cap U) - 1
      BY <2>3, <3>1, FS_RemoveElement
    <3>3. g[a] = 1 /\ g[a] + (Cardinality(A \cap U) - 1) = Cardinality(A \cap U)
      BY <2>2, <2>3, <2>4
    <3>. QED BY <2>2, <3>1, <3>2, <3>3
  <2>5. CASE a \notin A
    <3>1. A \cap (U \ {a}) = A \cap U
      BY <2>5
    <3>. QED BY <2>2, <2>3, <2>5, <3>1
  <2>. QED BY <2>4, <2>5
<1>4. S \in G
  <2>. HIDE DEF G
  <2>1. \A U \in SUBSET S : U \in G
    BY <1>2, <1>3, SubsetInduction
  <2>. QED BY <2>1
<1>5. A \cap S = A
  OBVIOUS
<1>. QED BY <1>4, <1>5

-----------------------------------------------------------------------------
(* Counts.                                                                 *)

\* The counters of a spec file with rows r.
CountOf(r) == [s \in Statuses |-> SumFunction([t \in Tests |-> r[t][s]])]

\* CountRows is about the rows of one file.
LEMMA CountRowsIs == \A f : CountRows(f) = CountOf(rows[f])
BY DEF CountRows, CountOf

\* Counters are natural numbers.
LEMMA CountOfType ==
  ASSUME NEW r \in [Tests -> Counts]
  PROVE  CountOf(r) \in Counts
<1>1. ASSUME NEW s \in Statuses
      PROVE  SumFunction([t \in Tests |-> r[t][s]]) \in Nat
  <2>1. PICK g : g = [t \in Tests |-> r[t][s]]
    OBVIOUS
  <2>2. DOMAIN g = Tests /\ \A t \in Tests : g[t] \in Nat
    BY <2>1 DEF Counts
  <2>3. SumFunctionOnSet(g, Tests) \in Nat
    BY <2>2, SumNat, ShardAssumption
  <2>. QED BY <2>1, <2>2, <2>3 DEF SumFunction
<1>. QED BY <1>1 DEF CountOf, Counts

\* So are the stats of a report.
LEMMA StatsType ==
  ASSUME NEW k \in Shards
  PROVE  Stats(k) \in Counts
<1>1. \A s : Cardinality({t \in Tests : Report[k][t] = s}) \in Nat
  BY FS_Subset, FS_CardinalityType, ShardAssumption
<1>. QED BY <1>1 DEF Stats, Counts

\* One row per reported test is counted as the report counts it.
LEMMA CountOfReport ==
  ASSUME NEW k \in Shards, NEW r,
         \A t \in Tests : r[t] = [s \in Statuses |-> IF s = Report[k][t] THEN 1 ELSE 0]
  PROVE  CountOf(r) = Stats(k)
<1>1. ASSUME NEW s \in Statuses
      PROVE  SumFunction([t \in Tests |-> r[t][s]]) = Cardinality({t \in Tests : Report[k][t] = s})
  <2>1. PICK g : g = [t \in Tests |-> r[t][s]]
    OBVIOUS
  <2>2. PICK A : A = {t \in Tests : Report[k][t] = s}
    OBVIOUS
  <2>3. DOMAIN g = Tests /\ A \in SUBSET Tests /\ \A t \in Tests : g[t] = IF t \in A THEN 1 ELSE 0
    <3>1. \A t \in Tests : r[t][s] = IF s = Report[k][t] THEN 1 ELSE 0
      OBVIOUS
    <3>. QED BY <2>1, <2>2, <3>1
  <2>4. SumFunctionOnSet(g, Tests) = Cardinality(A)
    BY <2>3, SumOfOnes, ShardAssumption
  <2>. QED BY <2>1, <2>2, <2>3, <2>4 DEF SumFunction
<1>. QED BY <1>1 DEF CountOf, Stats

\* The counters of the run are numbers, and at least those of each spec.
LEMMA SumSpecsType ==
  ASSUME NEW c \in [Files -> Counts]
  PROVE  /\ SumSpecs(c) \in Counts
         /\ \A f \in Files, s \in Statuses : c[f][s] <= SumSpecs(c)[s]
<1>1. ASSUME NEW s \in Statuses
      PROVE  /\ SumFunction([f \in Files |-> c[f][s]]) \in Nat
             /\ \A f \in Files : c[f][s] <= SumFunction([e \in Files |-> c[e][s]])
  <2>1. PICK g : g = [f \in Files |-> c[f][s]]
    OBVIOUS
  <2>2. DOMAIN g = Files /\ \A f \in Files : g[f] \in Nat
    BY <2>1 DEF Counts
  <2>3. \A U \in SUBSET Files : SumFunctionOnSet(g, U) \in Nat
    BY <2>2, SumNat, ShardAssumption
  <2>4. \A f \in Files : SumFunctionOnSet(g, Files) = g[f] + SumFunctionOnSet(g, Files \ {f})
    BY <2>2, SumRemove, ShardAssumption
  <2>5. SumFunctionOnSet(g, Files) \in Nat
    BY <2>3
  <2>6. ASSUME NEW f \in Files
        PROVE  g[f] <= SumFunctionOnSet(g, Files)
    <3>1. SumFunctionOnSet(g, Files \ {f}) \in Nat
      BY <2>3
    <3>2. SumFunctionOnSet(g, Files) = g[f] + SumFunctionOnSet(g, Files \ {f}) /\ g[f] \in Nat
      BY <2>2, <2>4
    <3>. QED BY <3>1, <3>2
  <2>. QED BY <2>1, <2>2, <2>5, <2>6 DEF SumFunction
<1>. QED BY <1>1 DEF SumSpecs, Counts

\* A run with one spec has its counters; one with none has zeros.
LEMMA SumSpecsOfOne ==
  ASSUME NEW c \in [Files -> Counts], NEW f \in Files, \A g \in Files \ {f} : c[g] = Zero
  PROVE  SumSpecs(c) = c[f]
<1>1. ASSUME NEW s \in Statuses
      PROVE  SumFunction([e \in Files |-> c[e][s]]) = c[f][s]
  <2>1. PICK g : g = [e \in Files |-> c[e][s]]
    OBVIOUS
  <2>2. DOMAIN g = Files /\ (\A e \in Files : g[e] \in Nat) /\ \A e \in Files \ {f} : g[e] = 0
    BY <2>1 DEF Counts, Zero
  <2>3. SumFunctionOnSet(g, Files) = g[f] + SumFunctionOnSet(g, Files \ {f})
    BY <2>2, SumRemove, ShardAssumption
  <2>4. IsFiniteSet(Files \ {f})
    BY FS_Subset, ShardAssumption
  <2>5. SumFunctionOnSet(g, Files \ {f}) = 0
    BY <2>2, <2>4, SumZero
  <2>. QED BY <2>1, <2>2, <2>3, <2>5 DEF SumFunction
<1>. QED BY <1>1 DEF SumSpecs, Counts

\* Specs without counts add nothing up.
LEMMA SumSpecsOfNone ==
  ASSUME NEW c, \A f \in Files : c[f] = Zero
  PROVE  SumSpecs(c) = Zero
<1>1. ASSUME NEW s \in Statuses
      PROVE  SumFunction([e \in Files |-> c[e][s]]) = 0
  <2>1. PICK g : g = [e \in Files |-> c[e][s]]
    OBVIOUS
  <2>2. DOMAIN g = Files /\ \A e \in Files : g[e] = 0
    BY <2>1 DEF Zero
  <2>3. SumFunctionOnSet(g, Files) = 0
    BY <2>2, SumZero, ShardAssumption
  <2>. QED BY <2>1, <2>2, <2>3 DEF SumFunction
<1>. QED BY <1>1 DEF SumSpecs, Zero

-----------------------------------------------------------------------------
(* The invariant.                                                          *)

Active(k) == upload[k].pc # "idle"
Shown(k) == upload[k].pc \in {"read", "summed"}

\* The upsert of the run keeps its row: one upload at a time.
OneUpload == \A j, k \in Shards : Active(j) /\ Active(k) => j = k

\* An upload that has inserted the run is about to make it; before there is a run
\* nothing is counted.
NewRun ==
  /\ \A k \in Shards : Active(k) => upload[k].inserted = ~ run.there
  /\ ~ run.there =>
       /\ run.counts = Zero /\ live.pc = "spec" /\ past.clean = {}
       /\ \A f \in Files : specs[f].counts = Zero

\* The chain is at an event while it has begun one.
Within == live.pc # "spec" => live.at \in DOMAIN Events

Failing(k) == Stats(k)["failed"] > 0

\* A failure of a merged report is in the counters of the run, in those an upload
\* is about to give it, and in the sum the chain is about to write.
FailureKept ==
  /\ \A k \in Shards : upload[k].pc = "summed" =>
       \A j \in {k} \cup (past.clean \cap Elsewhere(FileOf[k])) : Failing(j) => upload[k].counts["failed"] > 0
  /\ ~ past.torn => \A k \in past.clean : Failing(k) =>
       run.counts["failed"] > 0 /\ (live.pc = "summed" => live.counts["failed"] > 0)

\* The chain has written a row of file f and not yet its counters.
Counting(f) == live.pc \in {"count", "counted"} /\ Event.file = f

\* What is not being counted is in sum, and what was counted is as it was.
InSum ==
  /\ \A f \in Files : specs[f].counts = CountRows(f) \/ Counting(f)
  /\ live.pc \in {"sum", "summed"} \/ run.counts = SumSpecs(SpecCounts)
  /\ live.pc = "counted" => live.counts = CountRows(Event.file)
  /\ live.pc = "summed" => live.counts = SumSpecs(SpecCounts)

\* So is what an upload is about to write; a row it has not read is still to be counted.
SumOfUpload(k) == SumSpecs([SpecCounts EXCEPT ![FileOf[k]] = Stats(k)])
UploadInSum(k) ==
  /\ upload[k].pc = "summed" /\ live.pc \notin {"sum", "summed"} => upload[k].counts = SumOfUpload(k)
  /\ Shown(k) => Counting(FileOf[k]) \/ \A t \in Tests \ upload[k].seen : Number(FileOf[k], t) = 0

MergeInv ==
  /\ TypeOK /\ OneUpload /\ NewRun /\ Within /\ ReportKept /\ FailureKept
  /\ ~ past.torn => InSum /\ \A k \in Shards : UploadInSum(k)

UploadRow == [pc : {"idle", "run", "read", "summed"}, inserted : BOOLEAN,
              seen : SUBSET Tests, counts : Counts, begun : 0 .. MaxUploads]

\* The counters of the specs, and zeros, are counters.
LEMMA CountsTypes ==
  ASSUME TypeOK
  PROVE  Zero \in Counts /\ SpecCounts \in [Files -> Counts]
BY DEF TypeOK, SpecCounts, Counts, Zero

\* The event of a chain that is at one.
LEMMA EventType ==
  ASSUME live.at \in DOMAIN Events
  PROVE  Event.file \in Files /\ Event.test \in Tests /\ Event.to \in Statuses
<1>0. ASSUME NEW S, NEW q \in Seq(S)
      PROVE  \A i \in DOMAIN q : q[i] \in S
  OBVIOUS
<1>1. \A i \in DOMAIN Events : Events[i] \in [file : Files, test : Tests, to : Statuses]
  BY <1>0, EventAssumption
<1>2. Event \in [file : Files, test : Tests, to : Statuses]
  BY <1>1 DEF Event
<1>. QED BY <1>2

\* The rows of a test are a number.
LEMMA NumberType ==
  ASSUME TypeOK, NEW f \in Files, NEW t \in Tests
  PROVE  Number(f, t) \in Nat /\ rows[f][t] \in Counts
<1>1. rows[f][t] \in Counts
  BY DEF TypeOK
<1>. QED BY <1>1 DEF Number, Counts, Statuses

\* Nothing is left to be asked of an idle upload.
LEMMA IdleShards ==
  ASSUME NEW k \in Shards, upload[k].pc = "idle"
  PROVE  UploadInSum(k) /\ ~ Shown(k)
BY DEF UploadInSum, Shown

-----------------------------------------------------------------------------
(* The steps of an upload before its commit.                               *)

\* Such a step changes what one upload holds.
LEMMA UploadMoves ==
  ASSUME MergeInv, NEW k \in Shards, NEW u \in UploadRow, upload' = [upload EXCEPT ![k] = u],
         UNCHANGED <<run, specs, rows, live, past>>,
         \A j \in Shards \ {k} : Active(j) => u.pc = "idle",
         u.pc # "idle" => u.inserted = ~ run.there,
         u.pc = "summed" => \A j \in {k} \cup (past.clean \cap Elsewhere(FileOf[k])) :
                              Failing(j) => u.counts["failed"] > 0,
         ~ past.torn => UploadInSum(k)'
  PROVE  MergeInv'
<1>1. TypeOK'
  BY DEF MergeInv, TypeOK, UploadRow
<1>2. upload'[k] = u /\ \A j \in Shards \ {k} : upload'[j] = upload[j]
  BY DEF MergeInv, TypeOK
<1>3. OneUpload'
  BY <1>2 DEF MergeInv, OneUpload, Active
<1>4. NewRun'
  BY <1>2 DEF MergeInv, NewRun, Active
<1>5. Within' /\ ReportKept'
  BY DEF MergeInv, Within, ReportKept
<1>6. FailureKept'
  <2>1. ASSUME NEW j \in Shards, upload'[j].pc = "summed",
               NEW i \in {j} \cup (past.clean \cap Elsewhere(FileOf[j])), Failing(i)
        PROVE  upload'[j].counts["failed"] > 0
    BY <1>2, <2>1 DEF MergeInv, FailureKept
  <2>2. past' = past /\ run' = run /\ live' = live
    OBVIOUS
  <2>. QED BY <2>1, <2>2 DEF MergeInv, FailureKept, Failing, Stats, Elsewhere
<1>7. ASSUME ~ past'.torn
      PROVE  InSum' /\ \A j \in Shards : UploadInSum(j)'
  <2>1. InSum'
    BY <1>7 DEF MergeInv, InSum, Counting, Event, CountRows, SpecCounts
  <2>2. ASSUME NEW j \in Shards \ {k}
        PROVE  UploadInSum(j)'
    BY <1>2, <1>7 DEF MergeInv, UploadInSum, Shown, SumOfUpload, Counting, Event, Number, SpecCounts, Stats
  <2>. QED BY <1>7, <2>1, <2>2
<1>. QED BY <1>1, <1>3, <1>4, <1>5, <1>6, <1>7 DEF MergeInv

\* The upsert of the run waits for every other upload.
LEMMA UpsertRunStep ==
  ASSUME MergeInv, NEW k \in Shards, UpsertRun(k)
  PROVE  MergeInv'
<1>. DEFINE new == ~ run.there
            u == [upload[k] EXCEPT !.pc = "run", !.inserted = new, !.begun = @ + 1]
<1>1. upload[k] \in UploadRow /\ upload[k].pc = "idle" /\ upload[k].begun < MaxUploads
  BY DEF UpsertRun, MergeInv, TypeOK, UploadRow
<1>2. upload' = [upload EXCEPT ![k] = u] /\ UNCHANGED <<run, specs, rows, live, past>>
  BY DEF UpsertRun, MergeInv, TypeOK
<1>3. new \in BOOLEAN /\ (new <=> ~ run.there)
  OBVIOUS
<1>. HIDE DEF new
<1>4. upload[k].begun + 1 \in 0 .. MaxUploads
  <2>1. upload[k].begun \in 0 .. MaxUploads /\ MaxUploads \in Nat
    BY <1>1, ShardAssumption DEF UploadRow
  <2>. QED BY <1>1, <2>1
<1>5. u \in UploadRow /\ u.pc = "run" /\ u.inserted = new
  BY <1>1, <1>3, <1>4 DEF UploadRow
<1>6. \A j \in Shards \ {k} : ~ Active(j)
  BY DEF UpsertRun, RunFree, Active
<1>. HIDE DEF u
<1>7. UploadInSum(k)'
  <2>1. upload'[k].pc = "run"
    BY <1>2, <1>5 DEF MergeInv, TypeOK
  <2>. QED BY <2>1 DEF UploadInSum, Shown
<1>. QED BY <1>2, <1>5, <1>6, <1>7, UploadMoves DEF new

\* The rows an upload has not read are none yet.
LEMMA UpsertSpecStep ==
  ASSUME MergeInv, NEW k \in Shards, UpsertSpec(k)
  PROVE  MergeInv'
<1>. DEFINE seen == {t \in Tests : Number(FileOf[k], t) > 0}
            u == [upload[k] EXCEPT !.pc = "read", !.seen = seen]
<1>1. upload[k] \in UploadRow /\ upload[k].pc = "run"
  BY DEF UpsertSpec, MergeInv, TypeOK, UploadRow
<1>2. u \in UploadRow /\ u.pc = "read" /\ u.inserted = upload[k].inserted /\ u.seen = seen
  BY <1>1 DEF UploadRow
<1>3. upload' = [upload EXCEPT ![k] = u] /\ UNCHANGED <<run, specs, rows, live, past>>
  BY DEF UpsertSpec, MergeInv, TypeOK
<1>4. Active(k) /\ \A j \in Shards \ {k} : ~ Active(j)
  BY <1>1 DEF MergeInv, OneUpload, Active
<1>. HIDE DEF u
<1>5. upload'[k] = u
  BY <1>3 DEF MergeInv, TypeOK
<1>6. UploadInSum(k)'
  <2>1. \A t \in Tests : Number(FileOf[k], t) \in Nat
    BY NumberType, ShardAssumption DEF MergeInv
  <2>2. \A t \in Tests \ seen : Number(FileOf[k], t) = 0
    BY <2>1
  <2>3. \A t : Number(FileOf[k], t)' = Number(FileOf[k], t)
    BY <1>3 DEF Number
  <2>. QED BY <1>2, <1>5, <2>2, <2>3 DEF UploadInSum
<1>. QED BY <1>2, <1>3, <1>4, <1>6, UploadMoves DEF MergeInv, NewRun

\* The counters of the upload are the sums with its own spec in it.
LEMMA RecalculateStep ==
  ASSUME MergeInv, NEW k \in Shards, Recalculate(k)
  PROVE  MergeInv'
<1>. DEFINE u == [upload[k] EXCEPT !.pc = "summed", !.counts = RunCounts(k)]
            c == [SpecCounts EXCEPT ![FileOf[k]] = Stats(k)]
<1>1. upload[k] \in UploadRow /\ upload[k].pc = "read" /\ FileOf[k] \in Files
  BY ShardAssumption DEF Recalculate, MergeInv, TypeOK, UploadRow
<1>2. /\ c \in [Files -> Counts] /\ c[FileOf[k]] = Stats(k)
      /\ \A f \in Files \ {FileOf[k]} : c[f] = specs[f].counts
  BY <1>1, CountsTypes, StatsType DEF MergeInv, SpecCounts
<1>3. Active(k) /\ (\A j \in Shards \ {k} : ~ Active(j)) /\ upload[k].inserted = ~ run.there
  BY <1>1 DEF MergeInv, OneUpload, NewRun, Active
<1>. HIDE DEF c
<1>4. RunCounts(k) = SumSpecs(c)
  <2>1. CASE upload[k].inserted
    <3>1. \A f \in Files \ {FileOf[k]} : c[f] = Zero
      BY <1>2, <1>3, <2>1 DEF MergeInv, NewRun
    <3>. QED BY <1>1, <1>2, <2>1, <3>1, SumSpecsOfOne DEF RunCounts
  <2>2. CASE ~ upload[k].inserted
    BY <2>2 DEF RunCounts, c
  <2>. QED BY <2>1, <2>2
<1>5. RunCounts(k) \in Counts /\ \A f \in Files : c[f]["failed"] <= RunCounts(k)["failed"]
  BY <1>2, <1>4, SumSpecsType DEF Statuses
<1>6. /\ u \in UploadRow /\ u.pc = "summed" /\ u.inserted = upload[k].inserted /\ u.counts = RunCounts(k)
      /\ u.seen = upload[k].seen
  BY <1>1, <1>5 DEF UploadRow
<1>7. upload' = [upload EXCEPT ![k] = u] /\ UNCHANGED <<run, specs, rows, live, past>>
  BY DEF Recalculate, MergeInv, TypeOK
<1>. HIDE DEF u
<1>8. upload'[k] = u
  BY <1>7 DEF MergeInv, TypeOK
<1>9. ASSUME NEW j \in {k} \cup (past.clean \cap Elsewhere(FileOf[k])), Failing(j)
      PROVE  u.counts["failed"] > 0
  <2>1. c[FileOf[j]] = Stats(j) /\ FileOf[j] \in Files
    BY <1>1, <1>2, ShardAssumption DEF MergeInv, ReportKept, Elsewhere, TypeOK, Past
  <2>2. c[FileOf[j]]["failed"] \in Nat /\ RunCounts(k)["failed"] \in Nat
    BY <1>2, <1>5, <2>1 DEF Counts, Statuses
  <2>. QED BY <1>5, <1>6, <1>9, <2>1, <2>2 DEF Failing
<1>10. ASSUME ~ past.torn
       PROVE  UploadInSum(k)'
  <2>1. SumOfUpload(k)' = RunCounts(k)
    BY <1>4, <1>7 DEF SumOfUpload, SpecCounts, Stats, c
  <2>2. /\ \A t : Number(FileOf[k], t)' = Number(FileOf[k], t)
        /\ Counting(FileOf[k])' <=> Counting(FileOf[k])
    BY <1>7 DEF Number, Counting, Event
  <2>3. Counting(FileOf[k]) \/ \A t \in Tests \ upload[k].seen : Number(FileOf[k], t) = 0
    BY <1>1, <1>10 DEF MergeInv, UploadInSum, Shown
  <2>. QED BY <1>6, <1>8, <2>1, <2>2, <2>3 DEF UploadInSum
<1>. QED BY <1>3, <1>6, <1>7, <1>9, <1>10, UploadMoves

\* A rollback leaves nothing.
LEMMA RollbackStep ==
  ASSUME MergeInv, NEW k \in Shards, RollbackUpload(k)
  PROVE  MergeInv'
<1>1. upload[k] \in UploadRow /\ Zero \in Counts
  BY CountsTypes DEF MergeInv, TypeOK, UploadRow
<1>2. Ended(k) \in UploadRow /\ Ended(k).pc = "idle"
  BY <1>1 DEF UploadRow, Ended
<1>3. upload' = [upload EXCEPT ![k] = Ended(k)] /\ UNCHANGED <<run, specs, rows, live, past>>
  BY DEF RollbackUpload
<1>4. upload'[k].pc = "idle"
  BY <1>2, <1>3 DEF MergeInv, TypeOK
<1>5. UploadInSum(k)'
  BY <1>4 DEF UploadInSum, Shown
<1>. QED BY <1>2, <1>3, <1>5, UploadMoves

-----------------------------------------------------------------------------
(* The commit.                                                             *)

\* The later of two clocks is one of them.
LEMMA LatestType ==
  ASSUME NEW a \in Nat, NEW b \in Nat
  PROVE  Latest(a, b) \in Nat
<1>1. \E x \in {a, b} : \A y \in {a, b} : x >= y
  OBVIOUS
<1>2. Max({a, b}) \in {a, b}
  BY <1>1 DEF Max
<1>. QED BY <1>2 DEF Latest

\* What a commit makes of the rows of its spec.
LEMMA ReconciledRows ==
  ASSUME TypeOK, NEW k \in Shards
  PROVE  /\ [t \in Tests |-> Reconciled(k, t)] \in [Tests -> Counts]
         /\ (\A t \in Tests \ upload[k].seen : Number(FileOf[k], t) = 0) =>
              \A t \in Tests : Reconciled(k, t) = [s \in Statuses |-> IF s = Report[k][t] THEN 1 ELSE 0]
<1>1. \A t \in Tests : rows[FileOf[k]][t] \in Counts
  BY NumberType, ShardAssumption
<1>2. \A t \in Tests, s \in Statuses : rows[FileOf[k]][t][s] \in Nat
  BY <1>1 DEF Counts
<1>3. ASSUME NEW t \in Tests
      PROVE  Reconciled(k, t) \in Counts
  BY <1>2 DEF Reconciled, Counts
<1>4. ASSUME NEW t \in Tests, t \in upload[k].seen \/ Number(FileOf[k], t) = 0
      PROVE  Reconciled(k, t) = [s \in Statuses |-> IF s = Report[k][t] THEN 1 ELSE 0]
  <2>1. ASSUME Number(FileOf[k], t) = 0, NEW s \in Statuses
        PROVE  rows[FileOf[k]][t][s] = 0
    <3>1. PICK r : r = rows[FileOf[k]][t]
      OBVIOUS
    <3>2. r["passed"] \in Nat /\ r["failed"] \in Nat /\ r["pending"] \in Nat
      BY <1>2, <3>1 DEF Statuses
    <3>3. r["passed"] + r["failed"] + r["pending"] = 0
      BY <2>1, <3>1 DEF Number
    <3>4. s = "passed" \/ s = "failed" \/ s = "pending"
      BY DEF Statuses
    <3>5. ASSUME NEW a \in Nat, NEW b \in Nat, NEW c \in Nat, a + b + c = 0
          PROVE  a = 0 /\ b = 0 /\ c = 0
      BY <3>5
    <3>6. r["passed"] = 0 /\ r["failed"] = 0 /\ r["pending"] = 0
      BY <3>2, <3>3, <3>5
    <3>. QED BY <3>1, <3>4, <3>6
  <2>2. ASSUME NEW s \in Statuses
        PROVE  (IF t \in upload[k].seen THEN 0 ELSE rows[FileOf[k]][t][s]) = 0
    BY <1>4, <2>1
  <2>. QED BY <2>2 DEF Reconciled
<1>. QED BY <1>3, <1>4

\* The commit keeps what is clean elsewhere, and makes its own report so.
LEMMA CommitStep ==
  ASSUME MergeInv, NEW k \in Shards, CommitUpload(k)
  PROVE  MergeInv'
<1>0. PICK f \in Files : f = FileOf[k]
  BY ShardAssumption
<1>1. /\ upload[k].pc = "summed" /\ live' = live /\ upload' = [upload EXCEPT ![k] = Ended(k)]
      /\ run' = [there |-> TRUE, counts |-> upload[k].counts, finished |-> Latest(run.finished, EndOf[k])]
      /\ specs' = [specs EXCEPT ![f] = [there |-> TRUE, counts |-> Stats(k)]]
      /\ rows' = [rows EXCEPT ![f] = [t \in Tests |-> Reconciled(k, t)]]
  BY <1>0 DEF CommitUpload
<1>2. /\ past'.merged = past.merged \cup {k}
      /\ past'.clean = (past.clean \cap Elsewhere(f))
                       \cup {j \in {k} : \A t \in Tests \ upload[k].seen : Number(f, t) = 0}
      /\ past'.torn <=> past.torn \/ live.pc = "summed" \/ (live.pc = "counted" /\ Event.file = f)
  BY <1>0 DEF CommitUpload, Event
<1>3. past' \in Past
  <2>. DEFINE torn == past.torn \/ live.pc = "summed" \/ (live.pc = "counted" /\ Events[live.at].file = f)
              clean == (past.clean \cap Elsewhere(f))
                       \cup {j \in {k} : \A t \in Tests \ upload[k].seen : Number(f, t) = 0}
  <2>1. past' = [merged |-> past.merged \cup {k}, clean |-> clean, torn |-> torn]
    BY <1>0 DEF CommitUpload
  <2>2. torn \in BOOLEAN /\ clean \in SUBSET Shards /\ past.merged \in SUBSET Shards
    BY DEF MergeInv, TypeOK, Past
  <2>. HIDE DEF torn, clean
  <2>. QED BY <2>1, <2>2 DEF Past
<1>4. /\ upload[k] \in UploadRow /\ Zero \in Counts
      /\ \A j \in Shards \ {k} : upload[j].pc = "idle"
  BY <1>1, CountsTypes DEF MergeInv, TypeOK, UploadRow, OneUpload, Active
<1>5. Ended(k) \in UploadRow /\ Ended(k).pc = "idle"
  BY <1>4 DEF UploadRow, Ended
<1>6. \A j \in Shards : upload'[j].pc = "idle"
  BY <1>1, <1>4, <1>5 DEF MergeInv, TypeOK
<1>7. /\ specs'[f].counts = Stats(k) /\ rows'[f] = [t \in Tests |-> Reconciled(k, t)]
      /\ \A g \in Files \ {f} : specs'[g] = specs[g] /\ rows'[g] = rows[g]
  BY <1>1 DEF MergeInv, TypeOK
<1>8. TypeOK'
  <2>1. run' \in [there : BOOLEAN, counts : Counts, finished : Nat]
    <3>1. Latest(run.finished, EndOf[k]) \in Nat
      BY LatestType, ShardAssumption DEF MergeInv, TypeOK
    <3>. QED BY <1>1, <1>4, <3>1 DEF UploadRow
  <2>2. specs' \in [Files -> [there : BOOLEAN, counts : Counts]]
    BY <1>1, StatsType DEF MergeInv, TypeOK
  <2>3. rows' \in [Files -> [Tests -> Counts]]
    BY <1>1, ReconciledRows DEF MergeInv, TypeOK
  <2>4. upload' \in [Shards -> UploadRow]
    BY <1>1, <1>5 DEF MergeInv, TypeOK, UploadRow
  <2>. QED BY <1>1, <1>3, <2>1, <2>2, <2>3, <2>4 DEF MergeInv, TypeOK, UploadRow
<1>9. OneUpload' /\ NewRun' /\ Within'
  BY <1>1, <1>6 DEF MergeInv, OneUpload, NewRun, Within, Active
<1>10. ASSUME NEW j \in past'.clean
       PROVE  /\ j \in Shards
              /\ \/ j \in past.clean \cap Elsewhere(f) /\ FileOf[j] \in Files \ {f}
                 \/ j = k /\ \A t \in Tests \ upload[k].seen : Number(f, t) = 0
  BY <1>2, <1>10, ShardAssumption DEF MergeInv, TypeOK, Past, Elsewhere
<1>11. ReportKept'
  <2>1. SUFFICES ASSUME NEW j \in past'.clean
                 PROVE  /\ specs'[FileOf[j]].counts = Stats(j)
                        /\ \A t \in Tests : rows'[FileOf[j]][t] =
                             [s \in Statuses |-> IF s = Report[j][t] THEN 1 ELSE 0]
    BY DEF ReportKept, Stats
  <2>2. CASE j \in past.clean \cap Elsewhere(f) /\ FileOf[j] \in Files \ {f}
    BY <1>7, <2>2 DEF MergeInv, ReportKept
  <2>3. CASE j = k /\ \A t \in Tests \ upload[k].seen : Number(f, t) = 0
    <3>1. \A t \in Tests : Reconciled(k, t) = [s \in Statuses |-> IF s = Report[k][t] THEN 1 ELSE 0]
      BY <1>0, <2>3, ReconciledRows DEF MergeInv
    <3>. QED BY <1>0, <1>7, <2>3, <3>1
  <2>. QED BY <1>10, <2>2, <2>3
<1>12. FailureKept'
  <2>1. ASSUME ~ past'.torn, NEW j \in past'.clean, Failing(j)
        PROVE  run'.counts["failed"] > 0 /\ live'.pc # "summed"
    <3>1. j \in {k} \cup (past.clean \cap Elsewhere(FileOf[k]))
      BY <1>0, <1>10
    <3>2. upload[k].counts["failed"] > 0
      BY <1>1, <2>1, <3>1 DEF MergeInv, FailureKept
    <3>. QED BY <1>1, <1>2, <2>1, <3>2
  <2>2. \A j : Failing(j)' <=> Failing(j)
    BY DEF Failing, Stats
  <2>. QED BY <1>6, <2>1, <2>2 DEF FailureKept
<1>13. ASSUME ~ past'.torn
       PROVE  InSum' /\ \A j \in Shards : UploadInSum(j)'
  <2>1. ~ past.torn /\ live.pc # "summed" /\ ~ (live.pc = "counted" /\ Event.file = f)
    BY <1>2, <1>13
  <2>2. \A g : (Counting(g)' <=> Counting(g)) /\ CountRows(g)' = CountOf(rows'[g]) /\ CountRows(g) = CountOf(rows[g])
    BY <1>1 DEF Counting, Event, CountRows, CountOf
  <2>3. \A g \in Files \ {f} : CountRows(g)' = CountRows(g)
    BY <1>7, <2>2
  <2>4. InSum /\ UploadInSum(k)
    BY <2>1 DEF MergeInv
  <2>5. specs'[f].counts = CountRows(f)' \/ Counting(f)
    <3>1. SUFFICES ASSUME ~ Counting(f)
                   PROVE  CountOf(rows'[f]) = Stats(k)
      BY <1>7, <2>2
    <3>2. \A t \in Tests \ upload[k].seen : Number(FileOf[k], t) = 0
      BY <1>0, <1>1, <2>4, <3>1 DEF UploadInSum, Shown
    <3>3. \A t \in Tests : rows'[f][t] = [s \in Statuses |-> IF s = Report[k][t] THEN 1 ELSE 0]
      BY <1>7, <3>2, ReconciledRows DEF MergeInv
    <3>. QED BY <3>3, CountOfReport
  <2>6. \A g \in Files : specs'[g].counts = CountRows(g)' \/ Counting(g)'
    <3>1. ASSUME NEW g \in Files \ {f}
          PROVE  specs'[g].counts = CountRows(g)' \/ Counting(g)'
      BY <1>7, <2>2, <2>3, <2>4 DEF InSum
    <3>. QED BY <2>2, <2>5, <3>1
  <2>7. live.pc \in {"sum", "summed"} \/ run'.counts = SumSpecs(SpecCounts)'
    <3>1. SUFFICES ASSUME live.pc \notin {"sum", "summed"}
                   PROVE  upload[k].counts = SumSpecs(SpecCounts)'
      BY <1>1
    <3>2. SpecCounts' = [SpecCounts EXCEPT ![f] = Stats(k)]
      BY <1>7 DEF SpecCounts
    <3>3. upload[k].counts = SumSpecs([SpecCounts EXCEPT ![f] = Stats(k)])
      BY <1>0, <1>1, <2>4, <3>1 DEF UploadInSum, SumOfUpload
    <3>4. SumSpecs(SpecCounts)' = SumSpecs([SpecCounts EXCEPT ![f] = Stats(k)])
      BY <3>2 DEF SumSpecs
    <3>. QED BY <3>3, <3>4
  <2>8. live.pc = "counted" => live.counts = CountRows(Event.file)'
    <3>1. SUFFICES ASSUME live.pc = "counted"
                   PROVE  live.counts = CountRows(Event.file)'
      OBVIOUS
    <3>2. PICK e : e = Event.file
      OBVIOUS
    <3>3. e \in Files \ {f} /\ Event' = Event
      BY <1>1, <2>1, <3>1, <3>2, EventType DEF MergeInv, Within, Event
    <3>4. live.counts = CountRows(e)'
      BY <2>3, <2>4, <3>1, <3>2, <3>3 DEF InSum
    <3>5. Event'.file = e
      BY <3>2, <3>3
    <3>. QED BY <3>4, <3>5 DEF CountRows
  <2>9. InSum'
    BY <1>1, <2>1, <2>6, <2>7, <2>8 DEF InSum
  <2>10. \A j \in Shards : UploadInSum(j)'
    BY <1>6 DEF UploadInSum, Shown
  <2>. QED BY <2>9, <2>10
<1>. QED BY <1>8, <1>9, <1>11, <1>12, <1>13 DEF MergeInv

-----------------------------------------------------------------------------
(* The live path.                                                          *)

\* The run is made while no upload is under way.
LEMMA StartLiveStep ==
  ASSUME MergeInv, StartLive
  PROVE  MergeInv'
<1>1. run' = [run EXCEPT !.there = TRUE] /\ UNCHANGED <<specs, rows, upload, live, past>>
  BY DEF StartLive
<1>2. TypeOK' /\ run'.there /\ run'.counts = run.counts
  BY <1>1 DEF MergeInv, TypeOK
<1>3. \A k \in Shards : ~ Active(k)
  BY DEF StartLive, RunFree, Active
<1>4. NewRun'
  BY <1>1, <1>2, <1>3 DEF NewRun, Active
<1>5. OneUpload' /\ Within' /\ ReportKept' /\ FailureKept'
  BY <1>1, <1>2 DEF MergeInv, OneUpload, Active, Within, ReportKept, Stats, FailureKept, Failing, Elsewhere
<1>6. ASSUME ~ past'.torn
      PROVE  InSum' /\ \A k \in Shards : UploadInSum(k)'
  <2>1. InSum'
    BY <1>1, <1>2, <1>6 DEF MergeInv, InSum, Counting, Event, CountRows, SpecCounts
  <2>2. \A k \in Shards : UploadInSum(k)'
    BY <1>1, <1>3 DEF UploadInSum, Shown, Active
  <2>. QED BY <2>1, <2>2
<1>. QED BY <1>2, <1>4, <1>5, <1>6 DEF MergeInv

\* A step of the chain that leaves the rows and all counters of specs and run alone.
LEMMA ChainMoves ==
  ASSUME MergeInv, run.there, UNCHANGED <<run, rows, upload>>, TypeOK', Within',
         \A f \in Files : specs'[f].counts = specs[f].counts,
         past'.clean = past.clean, past.torn => past'.torn,
         ~ past'.torn => \A f \in Files : Counting(f)' <=> Counting(f),
         ~ past'.torn => (live.pc \in {"sum", "summed"} => live'.pc \in {"sum", "summed"}),
         ~ past'.torn => (live'.pc = "counted" => live'.counts = CountRows(Event'.file)),
         ~ past'.torn => (live'.pc = "summed" => live'.counts = SumSpecs(SpecCounts))
  PROVE  MergeInv'
<1>1. OneUpload' /\ NewRun'
  BY DEF MergeInv, OneUpload, NewRun, Active
<1>2. ReportKept'
  <2>1. \A k \in past.clean : FileOf[k] \in Files
    BY ShardAssumption DEF MergeInv, TypeOK, Past
  <2>2. \A k : Stats(k)' = Stats(k)
    BY DEF Stats
  <2>. QED BY <2>1, <2>2 DEF MergeInv, ReportKept
<1>3. FailureKept'
  <2>1. ASSUME ~ past'.torn, live'.pc = "summed", NEW k \in past.clean, Failing(k)
        PROVE  live'.counts["failed"] > 0
    <3>1. SpecCounts \in [Files -> Counts] /\ FileOf[k] \in Files /\ SpecCounts[FileOf[k]] = Stats(k)
      BY CountsTypes, ShardAssumption DEF MergeInv, TypeOK, Past, SpecCounts, ReportKept
    <3>2. Stats(k)["failed"] <= SumSpecs(SpecCounts)["failed"] /\ SumSpecs(SpecCounts) \in Counts
      BY <3>1, SumSpecsType DEF Statuses
    <3>3. SumSpecs(SpecCounts)["failed"] \in Nat /\ Stats(k)["failed"] \in Nat
      BY <3>1, <3>2 DEF Counts, Statuses
    <3>. QED BY <2>1, <3>2, <3>3 DEF Failing
  <2>. QED BY <2>1 DEF MergeInv, FailureKept, Failing, Stats, Elsewhere
<1>4. ASSUME ~ past'.torn
      PROVE  InSum' /\ \A k \in Shards : UploadInSum(k)'
  <2>1. SpecCounts' = SpecCounts /\ \A f : CountRows(f)' = CountRows(f)
    BY DEF SpecCounts, CountRows
  <2>2. SumSpecs(SpecCounts)' = SumSpecs(SpecCounts) /\ CountRows(Event.file)' = CountRows(Event'.file)
    BY <2>1 DEF SumSpecs, CountRows
  <2>3. InSum /\ \A k \in Shards : UploadInSum(k)
    BY <1>4 DEF MergeInv
  <2>4. InSum'
    BY <1>4, <2>1, <2>2, <2>3 DEF InSum
  <2>5. ASSUME NEW k \in Shards
        PROVE  UploadInSum(k)'
    <3>1. SumOfUpload(k)' = SumOfUpload(k) /\ FileOf[k] \in Files
      BY <2>1, ShardAssumption DEF SumOfUpload, SumSpecs, Stats
    <3>2. \A t : Number(FileOf[k], t)' = Number(FileOf[k], t)
      BY DEF Number
    <3>. QED BY <1>4, <2>3, <3>1, <3>2 DEF UploadInSum, Shown
  <2>. QED BY <2>4, <2>5
<1>. QED BY <1>1, <1>2, <1>3, <1>4 DEF MergeInv

\* The chain at a statement.
LEMMA AtEvent ==
  ASSUME TypeOK, NEW pc, At(pc)
  PROVE  /\ live.pc = pc /\ live.at \in DOMAIN Events /\ run.there
         /\ live.at \in 1 .. Len(Events) /\ Event.file \in Files /\ Event.test \in Tests /\ Event.to \in Statuses
<1>1. ASSUME NEW S, NEW q \in Seq(S)
      PROVE  DOMAIN q = 1 .. Len(q)
  OBVIOUS
<1>2. DOMAIN Events = 1 .. Len(Events)
  BY <1>1, EventAssumption
<1>. QED BY <1>2, EventType DEF At

\* The chain goes to another statement, or to the next event.
LEMMA ChainType ==
  ASSUME TypeOK, NEW pc, At(pc)
  PROVE  /\ \A s \in {"spec", "write", "insert", "count", "counted", "sum", "summed"} :
              GoTo(s) => /\ live' \in [at : 1 .. Len(Events) + 1, counts : Counts,
                                       pc : {"spec", "write", "insert", "count", "counted", "sum", "summed"}]
                         /\ live'.pc = s /\ live'.counts = live.counts /\ live'.at = live.at
         /\ NextEvent => /\ live' \in [at : 1 .. Len(Events) + 1, counts : Counts,
                                       pc : {"spec", "write", "insert", "count", "counted", "sum", "summed"}]
                         /\ live'.pc = "spec"
<1>1. Len(Events) \in Nat /\ live.at \in 1 .. Len(Events) /\ Zero \in Counts
  BY AtEvent, CountsTypes, EventAssumption
<1>2. live.at + 1 \in 1 .. Len(Events) + 1
  BY <1>1
<1>. QED BY <1>1, <1>2 DEF GoTo, NextEvent, TypeOK

\* findOrCreateSpec counts nothing.
LEMMA LiveSpecStep ==
  ASSUME MergeInv, LiveSpec
  PROVE  MergeInv'
<1>1. At("spec") /\ GoTo("write") /\ UNCHANGED <<run, rows, upload, past>> /\ TypeOK
  BY DEF LiveSpec, MergeInv
<1>2. live.pc = "spec" /\ live.at \in DOMAIN Events /\ run.there
  BY <1>1 DEF At
<1>3. /\ live' \in [at : 1 .. Len(Events) + 1, counts : Counts,
                    pc : {"spec", "write", "insert", "count", "counted", "sum", "summed"}]
      /\ live'.pc = "write" /\ live'.at = live.at
  BY <1>1, ChainType
<1>4. specs' \in [Files -> [there : BOOLEAN, counts : Counts]] /\ \A f \in Files : specs'[f].counts = specs[f].counts
  <2>. DEFINE r == [specs[Event.file] EXCEPT !.there = TRUE]
  <2>1. Event.file \in Files /\ specs[Event.file] \in [there : BOOLEAN, counts : Counts]
    BY <1>1, AtEvent DEF TypeOK
  <2>2. r \in [there : BOOLEAN, counts : Counts] /\ r.counts = specs[Event.file].counts
    BY <2>1
  <2>3. specs' = [specs EXCEPT ![Event.file] = r]
    BY DEF LiveSpec
  <2>. HIDE DEF r
  <2>. QED BY <1>1, <2>1, <2>2, <2>3 DEF TypeOK
<1>5. TypeOK'
  BY <1>1, <1>3, <1>4 DEF TypeOK
<1>6. \A f : ~ Counting(f) /\ ~ Counting(f)'
  BY <1>2, <1>3 DEF Counting
<1>7. Within'
  BY <1>2, <1>3 DEF Within
<1>. QED BY <1>1, <1>2, <1>3, <1>4, <1>5, <1>6, <1>7, ChainMoves

\* A statement that fails tears what was being counted.
LEMMA LiveFailsStep ==
  ASSUME MergeInv, LiveFails
  PROVE  MergeInv'
<1>1. At(live.pc) /\ NextEvent /\ UNCHANGED <<run, specs, rows, upload>> /\ TypeOK
  BY DEF LiveFails, MergeInv
<1>2. run.there /\ live'.pc = "spec" /\ live' \in [at : 1 .. Len(Events) + 1, counts : Counts,
        pc : {"spec", "write", "insert", "count", "counted", "sum", "summed"}]
  BY <1>1, ChainType, AtEvent
<1>3. /\ past' \in Past /\ past'.clean = past.clean
      /\ past'.torn <=> past.torn \/ live.pc \in {"count", "counted", "sum", "summed"}
  <2>. DEFINE torn == past.torn \/ live.pc \in {"count", "counted", "sum", "summed"}
  <2>1. past' = [past EXCEPT !.torn = torn]
    BY DEF LiveFails
  <2>2. torn \in BOOLEAN /\ (torn <=> past.torn \/ live.pc \in {"count", "counted", "sum", "summed"})
    BY <1>1 DEF TypeOK, Past
  <2>. HIDE DEF torn
  <2>. QED BY <1>1, <2>1, <2>2 DEF TypeOK, Past
<1>4. TypeOK' /\ Within'
  BY <1>1, <1>2, <1>3 DEF TypeOK, Within
<1>5. ~ past'.torn => \A f : ~ Counting(f) /\ ~ Counting(f)'
  BY <1>2, <1>3 DEF Counting
<1>. QED BY <1>1, <1>2, <1>3, <1>4, <1>5, ChainMoves

\* The subquery of the counters of a spec sees the rows.
LEMMA LiveCountStep ==
  ASSUME MergeInv, LiveCount
  PROVE  MergeInv'
<1>1. /\ At("count") /\ TypeOK /\ UNCHANGED <<run, specs, rows, upload, past>>
      /\ live' = [live EXCEPT !.pc = "counted", !.counts = CountRows(Event.file)]
  BY DEF LiveCount, MergeInv
<1>2. live.pc = "count" /\ live.at \in DOMAIN Events /\ run.there /\ Event.file \in Files
  BY <1>1, AtEvent
<1>3. CountRows(Event.file) \in Counts
  BY <1>1, <1>2, CountRowsIs, CountOfType DEF TypeOK
<1>4. TypeOK' /\ live'.pc = "counted" /\ live'.at = live.at /\ live'.counts = CountRows(Event.file)
  BY <1>1, <1>3 DEF TypeOK
<1>5. Event' = Event /\ Within'
  BY <1>2, <1>4 DEF Event, Within
<1>6. \A f : Counting(f)' <=> Counting(f)
  BY <1>2, <1>4, <1>5 DEF Counting
<1>. QED BY <1>1, <1>2, <1>4, <1>5, <1>6, ChainMoves

\* The subquery of the counters of the run sees the specs.
LEMMA LiveSumStep ==
  ASSUME MergeInv, LiveSum
  PROVE  MergeInv'
<1>1. /\ At("sum") /\ TypeOK /\ UNCHANGED <<run, specs, rows, upload, past>>
      /\ live' = [live EXCEPT !.pc = "summed", !.counts = SumSpecs(SpecCounts)]
  BY DEF LiveSum, MergeInv
<1>2. live.pc = "sum" /\ live.at \in DOMAIN Events /\ run.there
  BY <1>1, AtEvent
<1>3. SumSpecs(SpecCounts) \in Counts
  BY <1>1, CountsTypes, SumSpecsType
<1>4. TypeOK' /\ live'.pc = "summed" /\ live'.at = live.at /\ live'.counts = SumSpecs(SpecCounts)
  BY <1>1, <1>3 DEF TypeOK
<1>5. Within' /\ \A f : ~ Counting(f) /\ ~ Counting(f)'
  BY <1>2, <1>4 DEF Counting, Within
<1>. QED BY <1>1, <1>2, <1>4, <1>5, ChainMoves

\* A written row of a file is counted next, and nothing of that file stays clean.
LEMMA RowsMove ==
  ASSUME MergeInv, live.pc \in {"write", "insert"}, At(live.pc), UNCHANGED <<run, specs, upload>>,
         GoTo("count"), Written(Event.file), NEW c \in Counts,
         rows' = [rows EXCEPT ![Event.file] = [rows[Event.file] EXCEPT ![Event.test] = c]]
  PROVE  MergeInv'
<1>0. PICK e : e = Event.file
  OBVIOUS
<1>1. TypeOK /\ e \in Files /\ Event.test \in Tests /\ run.there /\ live.at \in DOMAIN Events
  BY <1>0, AtEvent DEF MergeInv
<1>2. /\ live' \in [at : 1 .. Len(Events) + 1, counts : Counts,
                    pc : {"spec", "write", "insert", "count", "counted", "sum", "summed"}]
      /\ live'.pc = "count" /\ live'.at = live.at /\ Event' = Event
  BY <1>1, ChainType DEF Event
<1>3. rows' \in [Files -> [Tests -> Counts]] /\ \A f \in Files \ {e} : rows'[f] = rows[f]
  BY <1>0, <1>1 DEF TypeOK
<1>4. past' \in Past /\ past'.clean = past.clean \cap Elsewhere(e) /\ past'.torn = past.torn
  BY <1>0, <1>1 DEF Written, TypeOK, Past
<1>5. TypeOK' /\ Within' /\ OneUpload' /\ NewRun'
  BY <1>1, <1>2, <1>3, <1>4 DEF MergeInv, TypeOK, Within, OneUpload, NewRun, Active
<1>6. ReportKept'
  <2>1. \A k \in past'.clean : k \in past.clean /\ FileOf[k] \in Files \ {e}
    BY <1>1, <1>4, ShardAssumption DEF Elsewhere, TypeOK, Past
  <2>2. \A k : Stats(k)' = Stats(k)
    BY DEF Stats
  <2>. QED BY <1>3, <2>1, <2>2 DEF MergeInv, ReportKept
<1>7. FailureKept'
  BY <1>2, <1>4 DEF MergeInv, FailureKept, Failing, Stats, Elsewhere
<1>8. ASSUME ~ past'.torn
      PROVE  InSum' /\ \A k \in Shards : UploadInSum(k)'
  <2>1. \A f : ~ Counting(f) /\ (Counting(f)' <=> f = e)
    BY <1>0, <1>2 DEF Counting
  <2>2. \A f \in Files \ {e} : CountRows(f)' = CountRows(f)
    BY <1>3 DEF CountRows
  <2>3. InSum /\ \A k \in Shards : UploadInSum(k)
    BY <1>4, <1>8 DEF MergeInv
  <2>4. SumSpecs(SpecCounts)' = SumSpecs(SpecCounts) /\ \A k : SumOfUpload(k)' = SumOfUpload(k)
    BY DEF SumSpecs, SpecCounts, SumOfUpload, Stats
  <2>5. InSum'
    BY <1>2, <2>1, <2>2, <2>3, <2>4 DEF InSum
  <2>6. ASSUME NEW k \in Shards
        PROVE  UploadInSum(k)'
    <3>1. FileOf[k] # e => \A t : Number(FileOf[k], t)' = Number(FileOf[k], t)
      BY <1>3, ShardAssumption DEF Number
    <3>. QED BY <1>2, <2>1, <2>3, <2>4, <3>1 DEF UploadInSum, Shown
  <2>. QED BY <2>5, <2>6
<1>. QED BY <1>5, <1>6, <1>7, <1>8 DEF MergeInv

\* The statements that write the rows of a test.
LEMMA LiveWriteStep ==
  ASSUME MergeInv, LiveWrite \/ LiveInsert
  PROVE  MergeInv'
<1>0. PICK f : f = Event.file
  OBVIOUS
<1>00. PICK t : t = Event.test
  OBVIOUS
<1>1. /\ live.pc \in {"write", "insert"} /\ At(live.pc) /\ TypeOK /\ UNCHANGED <<run, specs, upload>>
      /\ f \in Files /\ t \in Tests /\ Event.to \in Statuses /\ run.there /\ live.at \in DOMAIN Events
      /\ rows[f][t] \in Counts /\ Number(f, t) \in Nat
  BY <1>0, <1>00, AtEvent, NumberType DEF LiveWrite, LiveInsert, MergeInv, At
<1>2. CASE (NextEvent \/ GoTo("insert")) /\ UNCHANGED <<rows, past>>
  <2>1. /\ live' \in [at : 1 .. Len(Events) + 1, counts : Counts,
                      pc : {"spec", "write", "insert", "count", "counted", "sum", "summed"}]
        /\ live'.pc = "spec" \/ (live'.pc = "insert" /\ live'.at = live.at)
    BY <1>1, <1>2, ChainType
  <2>2. TypeOK' /\ Within' /\ \A e : ~ Counting(e) /\ ~ Counting(e)'
    BY <1>1, <1>2, <2>1 DEF TypeOK, Within, Counting
  <2>. QED BY <1>1, <1>2, <2>1, <2>2, ChainMoves
<1>3. ASSUME NEW c \in Counts, rows' = [rows EXCEPT ![f] = [rows[f] EXCEPT ![t] = c]], Written(f), GoTo("count")
      PROVE  MergeInv'
  BY <1>0, <1>00, <1>1, <1>3, RowsMove
<1>4. CASE LiveInsert
  <2>. DEFINE c == [rows[f][t] EXCEPT ![Event.to] = @ + 1]
  <2>1. c \in Counts
    BY <1>1 DEF Counts
  <2>2. rows' = [rows EXCEPT ![f] = [rows[f] EXCEPT ![t] = c]]
    BY <1>0, <1>00, <1>4 DEF LiveInsert
  <2>. QED BY <1>0, <1>3, <1>4, <2>1, <2>2 DEF LiveInsert
<1>5. CASE LiveWrite
  <2>1. CASE (NextEvent \/ GoTo("insert")) /\ UNCHANGED <<rows, past>>
    BY <1>2, <2>1
  <2>2. CASE rows' = [rows EXCEPT ![f][t]["pending"] = 1] /\ Written(f) /\ GoTo("count")
    <3>. DEFINE c == [rows[f][t] EXCEPT !["pending"] = 1]
    <3>1. c \in Counts
      BY <1>1 DEF Counts
    <3>2. rows' = [rows EXCEPT ![f] = [rows[f] EXCEPT ![t] = c]]
      BY <2>2
    <3>. QED BY <1>3, <2>2, <3>1, <3>2
  <2>3. CASE /\ rows' = [rows EXCEPT ![f][t] = [s \in Statuses |-> IF s = Event.to THEN Number(f, t) ELSE 0]]
             /\ Written(f) /\ GoTo("count")
    <3>. DEFINE c == [s \in Statuses |-> IF s = Event.to THEN Number(f, t) ELSE 0]
    <3>1. c \in Counts
      BY <1>1 DEF Counts
    <3>2. rows' = [rows EXCEPT ![f] = [rows[f] EXCEPT ![t] = c]]
      BY <2>3
    <3>. QED BY <1>3, <2>3, <3>1, <3>2
  <2>. QED BY <1>0, <1>00, <1>5, <2>1, <2>2, <2>3 DEF LiveWrite
<1>. QED BY <1>4, <1>5

\* The row of the spec is free: no upload has read its rows.
LEMMA LiveSetSpecStep ==
  ASSUME MergeInv, LiveSetSpec
  PROVE  MergeInv'
<1>0. PICK e : e = Event.file
  OBVIOUS
<1>1. /\ At("counted") /\ GoTo("sum") /\ SpecFree(e) /\ Written(e) /\ UNCHANGED <<run, rows, upload>>
      /\ TypeOK /\ e \in Files /\ run.there /\ live.pc = "counted" /\ live.at \in DOMAIN Events
  BY <1>0, AtEvent DEF LiveSetSpec, MergeInv
<1>2. /\ live' \in [at : 1 .. Len(Events) + 1, counts : Counts,
                    pc : {"spec", "write", "insert", "count", "counted", "sum", "summed"}]
      /\ live'.pc = "sum" /\ live'.at = live.at
  BY <1>1, ChainType
<1>3. /\ specs' \in [Files -> [there : BOOLEAN, counts : Counts]] /\ specs'[e].counts = live.counts
      /\ \A f \in Files \ {e} : specs'[f] = specs[f]
  <2>. DEFINE r == [specs[e] EXCEPT !.counts = live.counts]
  <2>1. specs[e] \in [there : BOOLEAN, counts : Counts] /\ live.counts \in Counts
    BY <1>1 DEF TypeOK
  <2>2. r \in [there : BOOLEAN, counts : Counts] /\ r.counts = live.counts
    BY <2>1
  <2>3. specs' = [specs EXCEPT ![e] = r]
    BY <1>0 DEF LiveSetSpec
  <2>. HIDE DEF r
  <2>. QED BY <1>1, <2>2, <2>3 DEF TypeOK
<1>4. past' \in Past /\ past'.clean = past.clean \cap Elsewhere(e) /\ past'.torn = past.torn
  BY <1>1 DEF Written, TypeOK, Past
<1>5. TypeOK' /\ Within' /\ OneUpload' /\ NewRun'
  BY <1>1, <1>2, <1>3, <1>4 DEF MergeInv, TypeOK, Within, OneUpload, NewRun, Active
<1>6. ReportKept'
  <2>1. \A k \in past'.clean : k \in past.clean /\ FileOf[k] \in Files \ {e}
    BY <1>1, <1>4, ShardAssumption DEF Elsewhere, TypeOK, Past
  <2>2. \A k : Stats(k)' = Stats(k)
    BY DEF Stats
  <2>. QED BY <1>1, <1>3, <2>1, <2>2 DEF MergeInv, ReportKept
<1>7. FailureKept'
  BY <1>1, <1>2, <1>4 DEF MergeInv, FailureKept, Failing, Stats, Elsewhere
<1>8. ASSUME ~ past'.torn
      PROVE  InSum' /\ \A k \in Shards : UploadInSum(k)'
  <2>1. \A f : (Counting(f) <=> f = e) /\ ~ Counting(f)'
    BY <1>0, <1>1, <1>2 DEF Counting
  <2>2. \A f : CountRows(f)' = CountRows(f)
    BY <1>1 DEF CountRows
  <2>3. InSum /\ \A k \in Shards : UploadInSum(k)
    BY <1>4, <1>8 DEF MergeInv
  <2>4. InSum'
    BY <1>0, <1>1, <1>2, <1>3, <2>1, <2>2, <2>3 DEF InSum
  <2>5. ASSUME NEW k \in Shards
        PROVE  UploadInSum(k)'
    <3>1. Shown(k) => FileOf[k] # e
      BY <1>1 DEF SpecFree, Shown
    <3>2. \A t : Number(FileOf[k], t)' = Number(FileOf[k], t)
      BY <1>1 DEF Number
    <3>. QED BY <1>1, <1>2, <2>1, <2>3, <3>1, <3>2 DEF UploadInSum, Shown
  <2>. QED BY <2>4, <2>5
<1>. QED BY <1>5, <1>6, <1>7, <1>8 DEF MergeInv

\* The row of the run is free: no upload is under way.
LEMMA LiveSetRunStep ==
  ASSUME MergeInv, LiveSetRun
  PROVE  MergeInv'
<1>1. /\ At("summed") /\ NextEvent /\ RunFree /\ UNCHANGED <<specs, rows, upload, past>>
      /\ run' = [run EXCEPT !.counts = live.counts]
      /\ TypeOK /\ run.there /\ live.pc = "summed"
  BY AtEvent DEF LiveSetRun, MergeInv
<1>2. /\ live' \in [at : 1 .. Len(Events) + 1, counts : Counts,
                    pc : {"spec", "write", "insert", "count", "counted", "sum", "summed"}]
      /\ live'.pc = "spec"
  BY <1>1, ChainType
<1>3. run' \in [there : BOOLEAN, counts : Counts, finished : Nat] /\ run'.counts = live.counts /\ run'.there
  BY <1>1 DEF TypeOK
<1>4. \A k \in Shards : upload[k].pc = "idle"
  BY <1>1 DEF RunFree
<1>5. TypeOK' /\ Within' /\ OneUpload' /\ NewRun'
  BY <1>1, <1>2, <1>3, <1>4 DEF MergeInv, TypeOK, Within, OneUpload, NewRun, Active
<1>6. ReportKept' /\ FailureKept'
  BY <1>1, <1>2, <1>3, <1>4 DEF MergeInv, ReportKept, FailureKept, Failing, Stats
<1>7. ASSUME ~ past'.torn
      PROVE  InSum' /\ \A k \in Shards : UploadInSum(k)'
  <2>1. \A f : ~ Counting(f)
    BY <1>1 DEF Counting
  <2>2. (\A f : CountRows(f)' = CountRows(f)) /\ SumSpecs(SpecCounts)' = SumSpecs(SpecCounts)
    BY <1>1 DEF CountRows, SumSpecs, SpecCounts
  <2>3. InSum
    BY <1>1, <1>7 DEF MergeInv
  <2>4. InSum'
    BY <1>1, <1>2, <1>3, <2>1, <2>2, <2>3 DEF InSum
  <2>5. \A k \in Shards : UploadInSum(k)'
    BY <1>1, <1>4 DEF UploadInSum, Shown
  <2>. QED BY <2>4, <2>5
<1>. QED BY <1>5, <1>6, <1>7 DEF MergeInv

-----------------------------------------------------------------------------
\* Nothing is there in the beginning.
LEMMA MergeInit ==
  ASSUME Init
  PROVE  MergeInv
<1>1. Zero \in Counts /\ Len(Events) \in Nat
  BY EventAssumption DEF Zero, Counts
<1>2. TypeOK
  BY <1>1, ShardAssumption DEF Init, TypeOK, Past
<1>3. (\A k \in Shards : upload[k].pc = "idle") /\ live.pc = "spec" /\ past.clean = {} /\ run.counts = Zero
  BY DEF Init
<1>4. OneUpload /\ NewRun /\ Within /\ ReportKept /\ FailureKept
  BY <1>3 DEF Init, OneUpload, NewRun, Within, ReportKept, FailureKept, Active
<1>5. \A f \in Files : specs[f].counts = CountRows(f)
  <2>1. ASSUME NEW f \in Files, NEW s \in Statuses
        PROVE  SumFunction([t \in Tests |-> rows[f][t][s]]) = 0
    <3>1. PICK g : g = [t \in Tests |-> rows[f][t][s]]
      OBVIOUS
    <3>2. DOMAIN g = Tests /\ \A t \in Tests : g[t] = 0
      BY <3>1 DEF Init, Zero
    <3>3. SumFunctionOnSet(g, Tests) = 0
      BY <3>2, SumZero, ShardAssumption
    <3>. QED BY <3>1, <3>2, <3>3 DEF SumFunction
  <2>. QED BY <2>1 DEF Init, CountRows, Zero
<1>6. run.counts = SumSpecs(SpecCounts)
  <2>1. \A f \in Files : SpecCounts[f] = Zero
    BY DEF Init, SpecCounts
  <2>. QED BY <1>3, <2>1, SumSpecsOfNone
<1>7. InSum /\ \A k \in Shards : UploadInSum(k)
  BY <1>3, <1>5, <1>6, IdleShards DEF InSum
<1>. QED BY <1>2, <1>4, <1>7 DEF MergeInv

\* Every step keeps the invariant.
LEMMA MergeStep ==
  ASSUME MergeInv, [Next]_vars
  PROVE  MergeInv'
<1>1. CASE UNCHANGED vars
  <2>1. UNCHANGED <<run, specs, rows, upload, live, past>>
    BY <1>1 DEF vars
  <2>2. TypeOK' /\ OneUpload' /\ NewRun' /\ Within'
    BY <2>1 DEF MergeInv, TypeOK, OneUpload, NewRun, Within, Active
  <2>3. ReportKept' /\ FailureKept'
    BY <2>1 DEF MergeInv, ReportKept, FailureKept, Failing, Stats, Elsewhere
  <2>4. ASSUME ~ past'.torn
        PROVE  InSum' /\ \A k \in Shards : UploadInSum(k)'
    <3>1. InSum /\ \A k \in Shards : UploadInSum(k)
      BY <2>1, <2>4 DEF MergeInv
    <3>2. InSum'
      BY <2>1, <3>1 DEF InSum, Counting, Event, CountRows, SpecCounts, SumSpecs
    <3>3. \A k : Counting(FileOf[k])' <=> Counting(FileOf[k])
      BY <2>1 DEF Counting, Event
    <3>4. \A k : SumOfUpload(k)' = SumOfUpload(k) /\ \A t : Number(FileOf[k], t)' = Number(FileOf[k], t)
      BY <2>1 DEF SumOfUpload, SpecCounts, SumSpecs, Stats, Number
    <3>5. \A k \in Shards : UploadInSum(k)'
      BY <2>1, <3>1, <3>3, <3>4 DEF UploadInSum, Shown
    <3>. QED BY <3>2, <3>5
  <2>. QED BY <2>2, <2>3, <2>4 DEF MergeInv
<1>2. ASSUME NEW k \in Shards, UploadStep(k)
      PROVE  MergeInv'
  BY <1>2, UpsertRunStep, UpsertSpecStep, RecalculateStep, CommitStep, RollbackStep DEF UploadStep
<1>3. CASE LiveStep
  BY <1>3, StartLiveStep, LiveSpecStep, LiveWriteStep, LiveCountStep, LiveSetSpecStep, LiveSumStep, LiveSetRunStep,
     LiveFailsStep DEF LiveStep
<1>. QED BY <1>1, <1>2, <1>3 DEF Next

\* All that holds of every state of a merged run.
THEOREM MergeInvariant == Spec => []MergeInv
BY MergeInit, MergeStep, PTL DEF Spec

\* The counters of specs and run are natural numbers, whatever is rolled back.
THEOREM MergeTypeCorrect == Spec => []TypeOK
<1>1. MergeInv => TypeOK
  BY DEF MergeInv
<1>. QED BY <1>1, MergeInvariant, PTL

\* A merged report is what the run shows, until something else writes its spec.
THEOREM MergedReportsAreKept == Spec => []ReportKept
<1>1. MergeInv => ReportKept
  BY DEF MergeInv
<1>. QED BY <1>1, MergeInvariant, PTL

\* The gate sees every failure of a merged report.
THEOREM FailuresShow == Spec => []FailureShows
<1>1. MergeInv => FailureShows
  BY DEF MergeInv, FailureKept, Failing, FailureShows, Status
<1>. QED BY <1>1, MergeInvariant, PTL

\* Between two live events the run is the sum of its specs, and they of their rows.
THEOREM CountersStayInSum == Spec => []CountersAgree
<1>1. MergeInv => CountersAgree
  BY DEF MergeInv, InSum, Counting, CountersAgree
<1>. QED BY <1>1, MergeInvariant, PTL
=============================================================================
