---------------------------- MODULE KernelProofs ----------------------------
(***************************************************************************)
(* Proofs about the Kernel: of every verdict a client can ask for, and of  *)
(* the book that grows out of its verdicts, whatever the limits, spreads   *)
(* and equity.                                                             *)
(*                                                                         *)
(* The Kernel adds up figures over the open policies, so first come the    *)
(* facts about such sums.  They are recursive, and are proved by induction *)
(* over the subsets of a finite set: every non-empty set of them has a     *)
(* least one (WFMin), in particular the set of those where a claim fails.  *)
(***************************************************************************)
EXTENDS Simulation, Portfolio, FiniteSetTheorems, TLAPS

(***************************************************************************)
(* Induction over finite sets                                              *)
(***************************************************************************)

\* What holds of a subset as soon as it holds of all smaller ones holds of all:
\* else there would be a least subset of which it does not.
LEMMA SubsetInduction ==
    ASSUME NEW S, IsFiniteSet(S), NEW G,
           \A s \in SUBSET S : (\A t \in SUBSET s : t # s => t \in G) => s \in G
    PROVE  SUBSET S \subseteq G
<1>. DEFINE Bad == (SUBSET S) \ G
<1>1. IsWellFoundedOn(StrictSubsetOrdering(S), SUBSET S)
  BY FS_StrictSubsetOrderingWellFounded, FS_FiniteSubsetsOfFinite
<1>. SUFFICES ASSUME Bad # {} PROVE FALSE
  OBVIOUS
<1>2. PICK s \in Bad : \A t \in Bad : <<t, s>> \notin StrictSubsetOrdering(S)
  <2>1. Bad \subseteq SUBSET S
    OBVIOUS
  <2>. HIDE DEF Bad
  <2>. QED
    BY <1>1, <2>1, WFMin
<1>3. ASSUME NEW t \in SUBSET s, t # s
      PROVE  t \in G
  <2>1. <<t, s>> \in StrictSubsetOrdering(S)
    BY <1>3 DEF StrictSubsetOrdering
  <2>. QED
    BY <1>2, <2>1
<1>. QED
  BY <1>2, <1>3

\* Counting up, with the set of the numbers for which a claim holds.
LEMMA CountingUp ==
    ASSUME NEW G, 0 \in G, \A n \in Nat : n \in G => n + 1 \in G
    PROVE  Nat \subseteq G
<1>. SUFFICES ASSUME NEW n \in Nat PROVE n \in G
  OBVIOUS
<1>. DEFINE N == 1 .. n
            H == {s \in SUBSET N : Cardinality(s) \in G}
<1>1. IsFiniteSet(N) /\ Cardinality(N) = n
  BY FS_Interval
<1>. HIDE DEF N
<1>2. ASSUME NEW s \in SUBSET N, \A t \in SUBSET s : t # s => t \in H
      PROVE  s \in H
  <2>1. IsFiniteSet(s)
    BY <1>1, FS_Subset
  <2>2. CASE s = {}
    BY <2>2, FS_EmptySet
  <2>3. CASE s # {}
    <3>1. PICK x \in s : TRUE
      BY <2>3
    <3>2. s \ {x} \in H
      BY <1>2, <3>1
    <3>3. /\ Cardinality(s \ {x}) \in Nat
          /\ Cardinality(s) = Cardinality(s \ {x}) + 1
      <4>1. /\ IsFiniteSet(s \ {x})
            /\ Cardinality(s \ {x}) = Cardinality(s) - 1
        BY <2>1, <3>1, FS_RemoveElement
      <4>2. Cardinality(s) \in Nat /\ Cardinality(s \ {x}) \in Nat
        BY <2>1, <4>1, FS_CardinalityType
      <4>. QED
        BY <4>1, <4>2
    <3>. QED
      BY <3>2, <3>3
  <2>. QED
    BY <2>2, <2>3
<1>3. N \in H
  <2>1. SUBSET N \subseteq H
    <3>. HIDE DEF H
    <3>. QED
      BY <1>1, <1>2, SubsetInduction
  <2>. QED
    BY <2>1
<1>. QED
  BY <1>1, <1>3

(***************************************************************************)
(* Sums over finite sets                                                   *)
(***************************************************************************)
Chosen(s) == CHOOSE x \in s : TRUE
Rest(s) == s \ {Chosen(s)}

\* g sums f over each set of D, an element at a time: the recursion inside
\* SumFunctionOnSet.
Sums(g, f, D) == g = [s \in D |-> IF s = {} THEN 0 ELSE f[Chosen(s)] + g[Rest(s)]]

Small(S, n) == {s \in SUBSET S : Cardinality(s) <= n}

LEMMA RestIsSmaller ==
    ASSUME NEW S, IsFiniteSet(S), NEW s \in SUBSET S, s # {}
    PROVE  /\ Chosen(s) \in s
           /\ Rest(s) \in SUBSET S /\ Rest(s) \in SUBSET s /\ Rest(s) # s
           /\ IsFiniteSet(s) /\ IsFiniteSet(Rest(s))
           /\ Cardinality(s) \in Nat
           /\ Cardinality(Rest(s)) \in Nat
           /\ Cardinality(Rest(s)) = Cardinality(s) - 1
<1>1. Chosen(s) \in s
  BY DEF Chosen
<1>2. IsFiniteSet(s)
  BY FS_Subset
<1>. QED
  BY <1>1, <1>2, FS_RemoveElement, FS_CardinalityType DEF Rest

\* The recursion is well-founded: there is a function that satisfies it.
LEMMA SumsExist ==
    ASSUME NEW S, IsFiniteSet(S), NEW f
    PROVE  \E g : Sums(g, f, SUBSET S)
<1>. DEFINE G == {n \in Nat : \E g : Sums(g, f, Small(S, n))}
<1>1. 0 \in G
  <2>1. \A s \in Small(S, 0) : s = {}
    <3>. TAKE s \in Small(S, 0)
    <3>1. IsFiniteSet(s) /\ Cardinality(s) <= 0
      BY FS_Subset DEF Small
    <3>. QED
      BY <3>1, FS_EmptySet, FS_CardinalityType
  <2>2. Sums([s \in Small(S, 0) |-> 0], f, Small(S, 0))
    BY <2>1 DEF Sums
  <2>. QED
    BY <2>2
<1>2. ASSUME NEW n \in Nat, n \in G
      PROVE  n + 1 \in G
  <2>1. PICK g : Sums(g, f, Small(S, n))
    BY <1>2
  <2>. DEFINE h == [s \in Small(S, n + 1) |->
                       IF s = {} THEN 0 ELSE f[Chosen(s)] + g[Rest(s)]]
  <2>2. ASSUME NEW s \in Small(S, n + 1), s # {}
        PROVE  Rest(s) \in Small(S, n)
    <3>1. s \in SUBSET S /\ Cardinality(s) <= n + 1
      BY DEF Small
    <3>2. /\ Rest(s) \in SUBSET S
          /\ Cardinality(Rest(s)) \in Nat
          /\ Cardinality(s) \in Nat
          /\ Cardinality(Rest(s)) = Cardinality(s) - 1
      BY <2>2, <3>1, RestIsSmaller
    <3>. QED
      BY <3>1, <3>2 DEF Small
  <2>3. ASSUME NEW s \in Small(S, n)
        PROVE  h[s] = g[s]
    <3>1. s \in Small(S, n + 1)
      BY FS_Subset, FS_CardinalityType DEF Small
    <3>2. g[s] = IF s = {} THEN 0 ELSE f[Chosen(s)] + g[Rest(s)]
      BY <2>1 DEF Sums
    <3>. QED
      BY <3>1, <3>2
  <2>4. ASSUME NEW s \in Small(S, n + 1)
        PROVE  h[s] = IF s = {} THEN 0 ELSE f[Chosen(s)] + h[Rest(s)]
    <3>1. CASE s = {}
      BY <3>1
    <3>2. CASE s # {}
      <4>1. h[s] = f[Chosen(s)] + g[Rest(s)]
        BY <3>2
      <4>2. h[Rest(s)] = g[Rest(s)]
        BY <3>2, <2>2, <2>3
      <4>. HIDE DEF h
      <4>. QED
        BY <3>2, <4>1, <4>2
    <3>. QED
      BY <3>1, <3>2
  <2>5. Sums(h, f, Small(S, n + 1))
    <3>1. h = [s \in Small(S, n + 1) |-> h[s]]
      OBVIOUS
    <3>. HIDE DEF h
    <3>. QED
      BY <2>4, <3>1 DEF Sums
  <2>. HIDE DEF h
  <2>. QED
    BY <2>5
<1>3. Cardinality(S) \in G
  <2>. HIDE DEF G
  <2>. QED
    BY <1>1, <1>2, CountingUp, FS_CardinalityType
<1>4. Small(S, Cardinality(S)) = SUBSET S
  BY FS_Subset DEF Small
<1>. QED
  BY <1>3, <1>4

LEMMA SumUnfolds ==
    ASSUME NEW S, IsFiniteSet(S), NEW f
    PROVE  \E g : Sums(g, f, SUBSET S) /\ SumFunctionOnSet(f, S) = g[S]
<1>. DEFINE g == CHOOSE h : Sums(h, f, SUBSET S)
<1>1. Sums(g, f, SUBSET S)
  BY SumsExist
<1>2. SumFunctionOnSet(f, S) = g[S]
  BY DEF SumFunctionOnSet, FoldFunctionOnSet, MapThenFoldSet, Sums, Chosen, Rest
<1>. QED
  BY <1>1, <1>2

\* The sum over a set does not depend on the set it is a part of.
LEMMA SumsAgree ==
    ASSUME NEW S, IsFiniteSet(S), NEW f, NEW T \in SUBSET S,
           NEW g, Sums(g, f, SUBSET S), NEW h, Sums(h, f, SUBSET T)
    PROVE  g[T] = h[T]
<1>. DEFINE G == {s \in SUBSET T : g[s] = h[s]}
<1>1. IsFiniteSet(T)
  BY FS_Subset
<1>2. ASSUME NEW s \in SUBSET T, \A t \in SUBSET s : t # s => t \in G
      PROVE  s \in G
  <2>1. s \in SUBSET S
    OBVIOUS
  <2>2. /\ g[s] = IF s = {} THEN 0 ELSE f[Chosen(s)] + g[Rest(s)]
        /\ h[s] = IF s = {} THEN 0 ELSE f[Chosen(s)] + h[Rest(s)]
    BY <2>1 DEF Sums
  <2>3. s # {} => Rest(s) \in G
    BY <1>1, <1>2, RestIsSmaller
  <2>. QED
    BY <2>2, <2>3
<1>3. SUBSET T \subseteq G
  <2>. HIDE DEF G
  <2>. QED
    BY <1>1, <1>2, SubsetInduction
<1>. QED
  BY <1>3

LEMMA SumOfNone == ASSUME NEW f PROVE SumFunctionOnSet(f, {}) = 0
<1>1. PICK g : Sums(g, f, SUBSET {}) /\ SumFunctionOnSet(f, {}) = g[{}]
  BY SumUnfolds, FS_EmptySet
<1>. QED
  BY <1>1 DEF Sums

LEMMA SumOfChosen ==
    ASSUME NEW S, IsFiniteSet(S), NEW f, S # {}
    PROVE  SumFunctionOnSet(f, S) = f[Chosen(S)] + SumFunctionOnSet(f, Rest(S))
<1>. DEFINE T == Rest(S)
<1>1. T \in SUBSET S /\ IsFiniteSet(T)
  BY RestIsSmaller
<1>2. PICK g : Sums(g, f, SUBSET S) /\ SumFunctionOnSet(f, S) = g[S]
  BY SumUnfolds
<1>3. g[S] = f[Chosen(S)] + g[T]
  BY <1>2 DEF Sums
<1>. HIDE DEF T
<1>4. PICK h : Sums(h, f, SUBSET T) /\ SumFunctionOnSet(f, T) = h[T]
  BY <1>1, SumUnfolds
<1>5. g[T] = h[T]
  BY <1>1, <1>2, <1>4, SumsAgree
<1>. QED
  BY <1>2, <1>3, <1>4, <1>5 DEF T

LEMMA SumIsInt ==
    ASSUME NEW S, IsFiniteSet(S), NEW f, \A x \in S : f[x] \in Int
    PROVE  SumFunctionOnSet(f, S) \in Int
<1>. DEFINE G == {s \in SUBSET S : SumFunctionOnSet(f, s) \in Int}
<1>1. ASSUME NEW s \in SUBSET S, \A t \in SUBSET s : t # s => t \in G
      PROVE  s \in G
  <2>1. CASE s = {}
    BY <2>1, SumOfNone
  <2>2. CASE s # {}
    <3>1. /\ Chosen(s) \in s /\ IsFiniteSet(s)
          /\ Rest(s) \in SUBSET s /\ Rest(s) # s
      BY <2>2, RestIsSmaller
    <3>2. f[Chosen(s)] \in Int /\ SumFunctionOnSet(f, Rest(s)) \in Int
      BY <1>1, <3>1
    <3>3. SumFunctionOnSet(f, s) = f[Chosen(s)] + SumFunctionOnSet(f, Rest(s))
      BY <2>2, <3>1, SumOfChosen
    <3>. QED
      BY <3>2, <3>3
  <2>. QED
    BY <2>1, <2>2
<1>2. SUBSET S \subseteq G
  <2>. HIDE DEF G
  <2>. QED
    BY <1>1, SubsetInduction
<1>. QED
  BY <1>2

\* Any element may be taken out of a sum, not only the one it takes first.
LEMMA SumWithout ==
    ASSUME NEW S, IsFiniteSet(S), NEW f, \A x \in S : f[x] \in Int, NEW x \in S
    PROVE  SumFunctionOnSet(f, S) = f[x] + SumFunctionOnSet(f, S \ {x})
<1>. DEFINE G == {s \in SUBSET S :
                    \A y \in s : SumFunctionOnSet(f, s)
                                    = f[y] + SumFunctionOnSet(f, s \ {y})}
<1>1. ASSUME NEW s \in SUBSET S, \A t \in SUBSET s : t # s => t \in G
      PROVE  s \in G
  <2>. SUFFICES ASSUME NEW y \in s
                PROVE  SumFunctionOnSet(f, s) = f[y] + SumFunctionOnSet(f, s \ {y})
    OBVIOUS
  <2>1. /\ Chosen(s) \in s /\ IsFiniteSet(s)
        /\ Rest(s) \in SUBSET s /\ Rest(s) # s
    BY RestIsSmaller
  <2>2. SumFunctionOnSet(f, s) = f[Chosen(s)] + SumFunctionOnSet(f, Rest(s))
    BY <2>1, SumOfChosen
  <2>3. CASE y = Chosen(s)
    BY <2>2, <2>3 DEF Rest
  <2>4. CASE y # Chosen(s)
    <3>. DEFINE both == s \ {y, Chosen(s)}
    <3>1. SumFunctionOnSet(f, Rest(s)) = f[y] + SumFunctionOnSet(f, both)
      <4>1. y \in Rest(s) /\ Rest(s) \ {y} = both
        BY <2>4 DEF Rest
      <4>. QED
        BY <1>1, <2>1, <4>1
    <3>2. SumFunctionOnSet(f, s \ {y}) = f[Chosen(s)] + SumFunctionOnSet(f, both)
      <4>1. /\ s \ {y} \in SUBSET s /\ s \ {y} # s
            /\ Chosen(s) \in s \ {y} /\ (s \ {y}) \ {Chosen(s)} = both
        BY <2>1, <2>4
      <4>. QED
        BY <1>1, <4>1
    <3>3. IsFiniteSet(both) /\ \A z \in both : f[z] \in Int
      BY <2>1, FS_Subset
    <3>4. SumFunctionOnSet(f, both) \in Int /\ f[y] \in Int /\ f[Chosen(s)] \in Int
      BY <2>1, <3>3, SumIsInt
    <3>. HIDE DEF both
    <3>. QED
      BY <2>2, <3>1, <3>2, <3>4
  <2>. QED
    BY <2>3, <2>4
<1>2. SUBSET S \subseteq G
  <2>. HIDE DEF G
  <2>. QED
    BY <1>1, SubsetInduction
<1>. QED
  BY <1>2

\* An element more adds its figure.
LEMMA SumWith ==
    ASSUME NEW S, NEW f, NEW x, IsFiniteSet(S), x \notin S,
           \A y \in S \cup {x} : f[y] \in Int
    PROVE  SumFunctionOnSet(f, S \cup {x}) = SumFunctionOnSet(f, S) + f[x]
<1>1. IsFiniteSet(S \cup {x}) /\ (S \cup {x}) \ {x} = S
  BY FS_AddElement
<1>2. SumFunctionOnSet(f, S \cup {x}) = f[x] + SumFunctionOnSet(f, S)
  BY <1>1, SumWithout
<1>. QED
  BY <1>2, SumIsInt

\* The same figures under other names have the same sum.
LEMMA SumRenamed ==
    ASSUME NEW S, IsFiniteSet(S), NEW f, NEW g, NEW h,
           \A x \in S : f[x] \in Int /\ g[h[x]] = f[x],
           \A x, y \in S : h[x] = h[y] => x = y
    PROVE  SumFunctionOnSet(g, {h[x] : x \in S}) = SumFunctionOnSet(f, S)
<1>. DEFINE Named(s) == {h[x] : x \in s}
            G == {s \in SUBSET S :
                    /\ IsFiniteSet(Named(s))
                    /\ SumFunctionOnSet(g, Named(s)) = SumFunctionOnSet(f, s)}
<1>1. ASSUME NEW s \in SUBSET S, \A t \in SUBSET s : t # s => t \in G
      PROVE  s \in G
  <2>1. CASE s = {}
    <3>1. Named(s) = {}
      BY <2>1
    <3>. QED
      BY <2>1, <3>1, SumOfNone, FS_EmptySet
  <2>2. CASE s # {}
    <3>. DEFINE x == Chosen(s)
    <3>1. /\ x \in s /\ IsFiniteSet(s)
          /\ Rest(s) \in SUBSET s /\ Rest(s) # s
      BY <2>2, RestIsSmaller
    <3>2. SumFunctionOnSet(f, s) = f[x] + SumFunctionOnSet(f, Rest(s))
      BY <2>2, <3>1, SumOfChosen
    <3>3. /\ IsFiniteSet(Named(Rest(s)))
          /\ SumFunctionOnSet(g, Named(Rest(s))) = SumFunctionOnSet(f, Rest(s))
      BY <1>1, <3>1
    <3>4. Named(s) = Named(Rest(s)) \cup {h[x]} /\ h[x] \notin Named(Rest(s))
      BY <3>1 DEF Rest
    <3>5. \A y \in Named(s) : g[y] \in Int
      OBVIOUS
    <3>6. /\ IsFiniteSet(Named(s))
          /\ SumFunctionOnSet(g, Named(s))
                = SumFunctionOnSet(g, Named(Rest(s))) + g[h[x]]
      <4>. DEFINE T == Named(Rest(s))
                  z == h[x]
      <4>1. \A y \in T \cup {z} : g[y] \in Int
        BY <3>4, <3>5
      <4>2. IsFiniteSet(T) /\ z \notin T
        BY <3>3, <3>4
      <4>. HIDE DEF T, z, Named, G, x
      <4>3. IsFiniteSet(T \cup {z})
        BY <4>2, FS_AddElement
      <4>4. SumFunctionOnSet(g, T \cup {z}) = SumFunctionOnSet(g, T) + g[z]
        BY ONLY <4>1, <4>2, SumWith
      <4>. QED
        BY <3>4, <4>3, <4>4 DEF T, z, x
    <3>7. g[h[x]] = f[x] /\ f[x] \in Int
      BY <3>1
    <3>8. SumFunctionOnSet(f, Rest(s)) \in Int
      <4>1. IsFiniteSet(Rest(s)) /\ \A y \in Rest(s) : f[y] \in Int
        BY <3>1, FS_Subset
      <4>. QED
        BY <4>1, SumIsInt
    <3>. HIDE DEF x, Named
    <3>. QED
      BY <3>2, <3>3, <3>6, <3>7, <3>8
  <2>. QED
    BY <2>1, <2>2
<1>2. SUBSET S \subseteq G
  <2>. HIDE DEF G
  <2>. QED
    BY <1>1, SubsetInduction
<1>. QED
  BY <1>2

\* Only the figures inside the set count.
LEMMA SumSame ==
    ASSUME NEW S, IsFiniteSet(S), NEW f, NEW g,
           \A x \in S : f[x] \in Int /\ g[x] = f[x]
    PROVE  SumFunctionOnSet(g, S) = SumFunctionOnSet(f, S)
<1>. DEFINE h == [x \in S |-> x]
<1>1. {h[x] : x \in S} = S
  OBVIOUS
<1>2. \A x \in S : h[x] = x
  OBVIOUS
<1>. HIDE DEF h
<1>3. SumFunctionOnSet(g, {h[x] : x \in S}) = SumFunctionOnSet(f, S)
  BY <1>2, SumRenamed
<1>. QED
  BY <1>1, <1>3

LEMMA SumOfZeros ==
    ASSUME NEW S, IsFiniteSet(S), NEW f, \A x \in S : f[x] = 0
    PROVE  SumFunctionOnSet(f, S) = 0
<1>. DEFINE G == {s \in SUBSET S : SumFunctionOnSet(f, s) = 0}
<1>1. ASSUME NEW s \in SUBSET S, \A t \in SUBSET s : t # s => t \in G
      PROVE  s \in G
  <2>1. CASE s = {}
    BY <2>1, SumOfNone
  <2>2. CASE s # {}
    <3>1. /\ Chosen(s) \in s /\ IsFiniteSet(s)
          /\ Rest(s) \in SUBSET s /\ Rest(s) # s
      BY <2>2, RestIsSmaller
    <3>2. SumFunctionOnSet(f, s) = f[Chosen(s)] + SumFunctionOnSet(f, Rest(s))
      BY <2>2, <3>1, SumOfChosen
    <3>. QED
      BY <1>1, <3>1, <3>2
  <2>. QED
    BY <2>1, <2>2
<1>2. SUBSET S \subseteq G
  <2>. HIDE DEF G
  <2>. QED
    BY <1>1, SubsetInduction
<1>. QED
  BY <1>2

(***************************************************************************)
(* The Kernel: the verdict                                                 *)
(***************************************************************************)

\* Every rule of the table answers, on every proposal and context.
LEMMA EveryRuleAnswers ==
    ASSUME NEW p, NEW c
    PROVE  DOMAIN Answers(p, c) = RuleIds
BY DEF Answers, RuleIds

\* A verdict either approves at least one contract and names no failure, or
\* approves none and names one.
LEMMA VerdictShape ==
    ASSUME NEW p, NEW n, NEW c,
           Approved(p, n, c) \in Int
    PROVE  LET v == Evaluate(p, n, c) IN
           /\ v.hash = p.hash
           /\ \/ /\ v.decision = "APPROVE"
                 /\ v.contracts \in Nat \ {0}
                 /\ v.failures = {}
              \/ /\ v.decision = "REJECT"
                 /\ v.contracts = 0
                 /\ v.failures # {}
<1>1. Failures(p, n, c) = {} => Approved(p, n, c) >= 1
  BY DEF Failures
<1>. QED
  BY <1>1 DEF Evaluate

\* Whichever rule raises, and when sizing or hashing does, a failure is named.
LEMMA RaisingFails ==
    ASSUME NEW p, NEW n, NEW c,
           p.raising # {}, p.raising \subseteq RuleIds \cup {"evaluate"}
    PROVE  Evaluate(p, n, c).decision = "REJECT"
<1>1. CASE "evaluate" \in p.raising
  BY <1>1 DEF Evaluate
<1>2. CASE "evaluate" \notin p.raising
  <2>1. PICK r \in p.raising : r \in RuleIds
    BY <1>2
  <2>2. r \in HardFailures(p, c)
    BY <2>1, EveryRuleAnswers DEF HardFailures
  <2>3. Failures(p, n, c) # {}
    BY <2>2 DEF Failures
  <2>. QED
    BY <1>2, <2>3 DEF Evaluate
<1>. QED
  BY <1>1, <1>2

\* The capital and the entry-quality rules let every close pass; SK-005 counts
\* what is open, whatever is asked.
LEMMA ClosesPass ==
    ASSUME NEW p, NEW c, Closing(p), Cardinality(c.open) \in 0 .. Limits.policies,
           NEW r \in CapitalRules \cup EntryRules
    PROVE  Answers(p, c)[r]
<1>1. SK005(p, c)
  BY LimitsAssumption DEF SK005
<1>2. SK001(p, c) /\ SK002(p, c) /\ SK003(p, c) /\ SK006(p, c)
  BY DEF SK001, SK002, SK003, SK006
<1>3. SK007(p, c) /\ SK012(p, c) /\ SK013(p, c)
  BY DEF SK007, SK012, SK013
<1>4. SK011(p, c) /\ SK014(p, c) /\ SK015(p, c) /\ SK016(p, c)
  BY DEF SK011, SK014, SK015, SK016
<1>. QED
  BY <1>1, <1>2, <1>3, <1>4 DEF Answers, CapitalRules, EntryRules

LEMMA ClosesFailElsewhere ==
    ASSUME NEW p, NEW n, NEW c, Closing(p), c.open = {}
    PROVE  Evaluate(p, n, c).failures \cap (CapitalRules \cup EntryRules)
               \subseteq p.raising
<1>. SUFFICES ASSUME NEW r \in CapitalRules \cup EntryRules,
                     r \in Evaluate(p, n, c).failures
              PROVE  r \in p.raising
  OBVIOUS
<1>1. r \notin {"SK020", "SK999"}
  BY DEF CapitalRules, EntryRules
<1>2. r \in HardFailures(p, c)
  BY <1>1 DEF Evaluate, Failures
<1>3. Cardinality(c.open) \in 0 .. Limits.policies
  BY FS_EmptySet, LimitsAssumption
<1>. QED
  BY <1>2, <1>3, ClosesPass DEF HardFailures

(***************************************************************************)
(* The Kernel: sizing                                                      *)
(***************************************************************************)

\* FloorDiv rounds down: to as many contracts as fit, and to none without room.
LEMMA FloorDivFits ==
    ASSUME NEW room \in Int, NEW cost \in Int
    PROVE  /\ FloorDiv(room, cost) \in Nat
           /\ \A k \in Nat \ {0} : k <= FloorDiv(room, cost) => k * cost <= room
<1>1. CASE cost <= 0 \/ room <= 0
  BY <1>1 DEF FloorDiv
<1>2. CASE cost > 0 /\ room > 0
  <2>1. FloorDiv(room, cost) = room \div cost
    BY <1>2 DEF FloorDiv
  <2>2. room \div cost \in Nat /\ (room \div cost) * cost <= room
    BY <1>2
  <2>3. ASSUME NEW k \in Nat, NEW q \in Nat, k <= q
        PROVE  k * cost <= q * cost
    BY <1>2, <2>3
  <2>. QED
    BY <2>1, <2>2, <2>3
<1>. QED
  BY <1>1, <1>2

LEMMA FloorDivIsMost ==
    ASSUME NEW room \in Int, NEW cost \in Nat \ {0}, NEW k \in Nat \ {0},
           k * cost <= room
    PROVE  k <= FloorDiv(room, cost)
<1>1. k * cost >= cost
  OBVIOUS
<1>2. room > 0 /\ FloorDiv(room, cost) = room \div cost
  BY <1>1 DEF FloorDiv
<1>. DEFINE q == room \div cost
<1>3. q \in Nat /\ room < q * cost + cost
  BY <1>2
<1>. HIDE DEF q
<1>4. CASE q < k
  <2>1. (q + 1) * cost <= k * cost /\ (q + 1) * cost = q * cost + cost
    BY <1>3, <1>4
  <2>. QED
    BY <2>1, <1>3
<1>. QED
  BY <1>2, <1>3, <1>4 DEF q

LEMMA MinOfTwo ==
    ASSUME NEW a \in Nat, NEW b \in Nat
    PROVE  /\ Min({a, b}) \in Nat
           /\ Min({a, b}) <= a /\ Min({a, b}) <= b
           /\ Min({a, b}) \in {a, b}
BY DEF Min

LEMMA MinOfFive ==
    ASSUME NEW a \in Nat, NEW b \in Nat, NEW c \in Nat, NEW d \in Nat, NEW e \in Nat
    PROVE  /\ Min({a, b, c, d, e}) \in Nat
           /\ Min({a, b, c, d, e}) \in {a, b, c, d, e}
           /\ \A x \in {a, b, c, d, e} : Min({a, b, c, d, e}) <= x
BY DEF Min

\* On an empty book nothing is reserved, at risk or to be delivered.
LEMMA EmptyBook ==
    ASSUME NEW c, c.open = {}
    PROVE  /\ PortfolioMaxLoss(c) = 0
           /\ TotalReserve(c) = 0
           /\ TotalAssignmentCost(c) = 0
           /\ \A u : ReserveFor(c, u) = 0
<1>1. PortfolioMaxLoss(c) = 0
  BY SumOfNone DEF PortfolioMaxLoss, SumFunction
<1>2. TotalReserve(c) = 0
  BY SumOfNone DEF TotalReserve, Reserved, SumFunction
<1>3. TotalAssignmentCost(c) = 0
  BY SumOfNone DEF TotalAssignmentCost, SumFunction
<1>4. ASSUME NEW u
      PROVE  ReserveFor(c, u) = 0
  <2>1. {o \in c.open : o.underlying = u} = {}
    OBVIOUS
  <2>. QED
    BY <2>1, SumOfNone DEF ReserveFor, Reserved, SumFunction
<1>. QED
  BY <1>1, <1>2, <1>3, <1>4

\* The figures the Kernel sizes with are numbers.
Figures(p, n, c) ==
    /\ p.maxLoss \in Int /\ p.short \in Int
    /\ n \in Int
    /\ c.nav \in Int /\ c.buyingPower \in Int
    /\ PortfolioMaxLoss(c) \in Int
    /\ TotalReserve(c) \in Int /\ ReserveFor(c, p.underlying) \in Int
    /\ TotalAssignmentCost(c) \in Int

\* k contracts of p, with what is open, stay inside every capital limit.
FitsBook(p, c, k) ==
    /\ 100 * (k * p.maxLoss) <= c.nav * Limits.position
    /\ 100 * (PortfolioMaxLoss(c) + k * p.maxLoss) <= c.nav * Limits.portfolio
    /\ 10000 * (ReserveFor(c, p.underlying) + k * p.maxLoss)
          <= c.nav * Limits.deployed * Limits.concentration
    /\ 100 * (TotalReserve(c) + k * p.maxLoss) <= c.nav * Limits.deployed
    /\ TotalAssignmentCost(c) + k * p.short <= c.buyingPower

\* Sizing permits what fits and, where a contract costs something, no less.
LEMMA PermittedFits ==
    ASSUME NEW p, NEW n, NEW c, Figures(p, n, c), ~Closing(p)
    PROVE  /\ Permitted(p, n, c) \in Nat
           /\ \A k \in Nat \ {0} : k <= Permitted(p, n, c) => FitsBook(p, c, k)
           /\ p.maxLoss > 0 /\ p.short > 0 =>
                 \A k \in Nat \ {0} : FitsBook(p, c, k) => k <= Permitted(p, n, c)
<1>. DEFINE atRisk == c.nav * Limits.position
            inBook == c.nav * Limits.portfolio
            inName == c.nav * Limits.deployed * Limits.concentration
            held == c.nav * Limits.deployed
            lost == PortfolioMaxLoss(c)
            kept == TotalReserve(c)
            named == ReserveFor(c, p.underlying)
            assigned == TotalAssignmentCost(c)
            room1 == atRisk
            room2 == inBook - 100 * lost
            room3 == inName - 10000 * named
            room4 == held - 100 * kept
            room5 == c.buyingPower - assigned
            loss == 100 * p.maxLoss
            fineLoss == 10000 * p.maxLoss
            five == {FloorDiv(room1, loss), FloorDiv(room2, loss),
                     FloorDiv(room3, fineLoss), FloorDiv(room4, loss),
                     FloorDiv(room5, p.short)}
<1>1. /\ Limits.position \in Nat /\ Limits.portfolio \in Nat
      /\ Limits.deployed \in Nat /\ Limits.concentration \in Nat
  BY LimitsAssumption
<1>2. /\ atRisk \in Int /\ inBook \in Int /\ inName \in Int /\ held \in Int
      /\ lost \in Int /\ kept \in Int /\ named \in Int /\ assigned \in Int
      /\ p.maxLoss \in Int /\ p.short \in Int /\ c.buyingPower \in Int
  BY <1>1 DEF Figures
<1>3. Sizes(p, c) = five
  BY DEF Sizes
<1>4. ASSUME NEW k \in Nat \ {0}
      PROVE  FitsBook(p, c, k) <=>
                /\ k * loss <= room1
                /\ k * loss <= room2
                /\ k * fineLoss <= room3
                /\ k * loss <= room4
                /\ k * p.short <= room5
  <2>. DEFINE total == k * p.maxLoss
  <2>1. total \in Int /\ k * loss = 100 * total /\ k * fineLoss = 10000 * total
        /\ k * p.short \in Int
    BY <1>2
  <2>2. FitsBook(p, c, k) <=>
            /\ 100 * total <= atRisk
            /\ 100 * (lost + total) <= inBook
            /\ 10000 * (named + total) <= inName
            /\ 100 * (kept + total) <= held
            /\ assigned + k * p.short <= c.buyingPower
    BY DEF FitsBook
  <2>. HIDE DEF total, atRisk, inBook, inName, held, lost, kept, named, assigned,
                loss, fineLoss
  <2>. QED
    BY <1>2, <2>1, <2>2
<1>5. /\ room1 \in Int /\ room2 \in Int /\ room3 \in Int /\ room4 \in Int
      /\ room5 \in Int /\ loss \in Int /\ fineLoss \in Int
      /\ p.maxLoss > 0 => loss > 0 /\ fineLoss > 0
  <2>. HIDE DEF atRisk, inBook, inName, held, lost, kept, named, assigned
  <2>. QED
    BY <1>2
<1>. HIDE DEF room1, room2, room3, room4, room5, loss, fineLoss
<1>6. five \subseteq Nat
  BY <1>2, <1>5, FloorDivFits
<1>7. /\ Permitted(p, n, c) \in Nat
      /\ Permitted(p, n, c) \in five
      /\ \A x \in five : Permitted(p, n, c) <= x
  BY <1>3, <1>6, MinOfFive DEF Permitted
<1>8. ASSUME NEW k \in Nat \ {0}, k <= Permitted(p, n, c)
      PROVE  FitsBook(p, c, k)
  <2>1. \A x \in five : k <= x
    <3>. HIDE DEF five
    <3>. QED
      BY <1>6, <1>7, <1>8
  <2>2. k * loss <= room1 /\ k * loss <= room2 /\ k * loss <= room4
    BY <1>5, <2>1, FloorDivFits
  <2>3. k * fineLoss <= room3
    BY <1>5, <2>1, FloorDivFits
  <2>4. k * p.short <= room5
    BY <1>2, <1>5, <2>1, FloorDivFits
  <2>. QED
    BY <1>4, <2>2, <2>3, <2>4
<1>9. ASSUME p.maxLoss > 0, p.short > 0,
             NEW k \in Nat \ {0}, FitsBook(p, c, k)
      PROVE  k <= Permitted(p, n, c)
  <2>1. loss \in Nat \ {0} /\ fineLoss \in Nat \ {0} /\ p.short \in Nat \ {0}
    BY <1>2, <1>5, <1>9
  <2>2. /\ k * loss <= room1 /\ k * loss <= room2 /\ k * fineLoss <= room3
        /\ k * loss <= room4 /\ k * p.short <= room5
    BY <1>4, <1>9
  <2>3. \A x \in five : k <= x
    <3>1. k <= FloorDiv(room1, loss) /\ k <= FloorDiv(room2, loss)
      BY <1>5, <2>1, <2>2, FloorDivIsMost
    <3>2. k <= FloorDiv(room3, fineLoss) /\ k <= FloorDiv(room4, loss)
      BY <1>5, <2>1, <2>2, FloorDivIsMost
    <3>3. k <= FloorDiv(room5, p.short)
      BY <1>5, <2>1, <2>2, FloorDivIsMost
    <3>. QED
      BY <3>1, <3>2, <3>3
  <2>. HIDE DEF five
  <2>. QED
    BY <1>7, <2>3
<1>. QED
  BY <1>7, <1>8, <1>9

\* Soft failures and the calibration only ever take contracts away.
LEMMA ApprovedShrinks ==
    ASSUME NEW p, NEW n \in Int, NEW c, Permitted(p, n, c) \in Nat
    PROVE  /\ Approved(p, n, c) \in Nat
           /\ Approved(p, n, c) <= Permitted(p, n, c)
           /\ Approved(p, n, c) <= Positive(n)
<1>. DEFINE raw == Min({Positive(n), Permitted(p, n, c)})
            divisor == SoftDivisor(p, c)
<1>1. Positive(n) \in Nat
  BY DEF Positive
<1>2. /\ raw \in Nat
      /\ raw <= Permitted(p, n, c)
      /\ raw <= Positive(n)
  BY <1>1, MinOfTwo
<1>3. divisor \in {1, 2, 4}
  BY DEF SoftDivisor
<1>4. Limits.calibration \in 0 .. 100
  BY LimitsAssumption, CalibrationAssumption
<1>5. raw * Limits.calibration \in Nat /\ raw * Limits.calibration <= raw * 100
  <2>. HIDE DEF raw
  <2>. QED
    BY <1>2, <1>4
<1>6. /\ (raw * Limits.calibration) \div (100 * divisor) \in Nat
      /\ (raw * Limits.calibration) \div (100 * divisor) <= raw
  <2>. DEFINE product == raw * Limits.calibration
  <2>. HIDE DEF raw, divisor, product
  <2>1. ASSUME NEW x \in Nat, NEW y \in Nat, x <= y * 100, NEW d \in {1, 2, 4}
        PROVE  x \div (100 * d) \in Nat /\ x \div (100 * d) <= y
    BY <2>1
  <2>2. product \in Nat /\ product <= raw * 100
    BY <1>5 DEF product
  <2>3. product \div (100 * divisor) \in Nat /\ product \div (100 * divisor) <= raw
    BY <1>2, <1>3, <2>1, <2>2
  <2>. QED
    BY <2>3 DEF product
<1>7. Approved(p, n, c) = (raw * Limits.calibration) \div (100 * divisor)
  BY DEF Approved
<1>. QED
  <2>. HIDE DEF raw, divisor
  <2>. QED
    BY <1>1, <1>2, <1>6, <1>7

LEMMA PermittedIsNat ==
    ASSUME NEW p, NEW n, NEW c, Figures(p, n, c)
    PROVE  Permitted(p, n, c) \in Nat
<1>1. CASE Closing(p)
  BY <1>1 DEF Permitted, Positive, Figures
<1>2. CASE ~Closing(p)
  BY <1>2, PermittedFits
<1>. QED
  BY <1>1, <1>2

(***************************************************************************)
(* Lemmas about the rules for opening                                      *)
(***************************************************************************)

\* What is approved failed no rule.
LEMMA ApprovalPasses ==
    ASSUME NEW p, NEW n, NEW c, Evaluate(p, n, c).decision = "APPROVE"
    PROVE  /\ \A r \in RuleIds \ SoftRules : Answers(p, c)[r]
           /\ Evaluate(p, n, c).contracts = Approved(p, n, c)
           /\ Approved(p, n, c) >= 1
<1>1. /\ Failures(p, n, c) = {}
      /\ Evaluate(p, n, c).contracts = Approved(p, n, c)
  BY DEF Evaluate
<1>2. HardFailures(p, c) = {} /\ Approved(p, n, c) >= 1
  BY <1>1 DEF Failures
<1>3. \A r \in RuleIds \ SoftRules : Answers(p, c)[r]
  BY <1>2, EveryRuleAnswers DEF HardFailures
<1>. QED
  BY <1>1, <1>2, <1>3

\* A short put alone is uncovered; what SK-004 passes has both its legs.
LEMMA CoveredMeansTwoLegs ==
    ASSUME NEW p, NEW c, NEW naked \in BOOLEAN, NEW short \in Int,
           p.legs = SimulatedLegs(naked, short), SK004(p, c)
    PROVE  Cardinality(p.legs) = 2
<1>. DEFINE sold == [side |-> "SELL", right |-> "PUT", strike |-> short, expiry |-> 1]
            bought == [side |-> "BUY", right |-> "PUT", strike |-> short - 1,
                       expiry |-> 1]
<1>1. CASE naked
  <2>1. p.legs = {sold}
    BY <1>1 DEF SimulatedLegs
  <2>2. {leg \in p.legs : leg.side = "BUY"} = {}
    BY <2>1
  <2>. QED
    BY <2>2 DEF SK004
<1>2. CASE ~naked
  <2>1. p.legs = {sold} \cup {bought}
    BY <1>2 DEF SimulatedLegs
  <2>2. IsFiniteSet({sold}) /\ Cardinality({sold}) = 1
    BY FS_Singleton
  <2>3. bought \notin {sold}
    OBVIOUS
  <2>. HIDE DEF sold, bought
  <2>4. Cardinality({sold} \cup {bought}) = 2
    BY <2>2, <2>3, FS_AddElement
  <2>. QED
    BY <2>1, <2>4
<1>. QED
  BY <1>1, <1>2

(***************************************************************************)
(* The invariant                                                           *)
(***************************************************************************)
Answered ==
    verdict # Nothing =>
        /\ asked # Nothing
        /\ verdict = Evaluate(asked.proposal, asked.contracts, asked.context)
        /\ asked.proposal.raising \in RaisingSets
        /\ Figures(asked.proposal, asked.contracts, asked.context)
        /\ asked.context.open = {}
        /\ \E naked \in BOOLEAN :
              asked.proposal.legs = SimulatedLegs(naked, asked.proposal.short)

LEMMA Inductive == SimSpec => []Answered
<1>1. SimInit => Answered
  BY DEF SimInit, Answered
<1>2. Answered /\ [SimNext]_simVars => Answered'
  <2>. SUFFICES ASSUME Answered, [SimNext]_simVars PROVE Answered'
    OBVIOUS
  <2>1. CASE Simulate
    <3>1. /\ asked' # Nothing
          /\ verdict' = Evaluate(asked'.proposal, asked'.contracts, asked'.context)
      BY <2>1 DEF Simulate, Nothing
    <3>2. /\ asked'.proposal.raising \in RaisingSets
          /\ asked'.proposal.maxLoss \in MaxLosses
          /\ asked'.proposal.short \in Strikes
          /\ asked'.contracts \in Requests
          /\ asked'.context.nav \in Navs
          /\ asked'.context.buyingPower \in BuyingPowers
          /\ asked'.context.open = {}
      BY <2>1 DEF Simulate
    <3>3. \E naked \in BOOLEAN :
              asked'.proposal.legs = SimulatedLegs(naked, asked'.proposal.short)
      BY <2>1 DEF Simulate
    <3>4. Figures(asked'.proposal, asked'.contracts, asked'.context)
      <4>. DEFINE p == asked'.proposal
                  n == asked'.contracts
                  c == asked'.context
      <4>1. /\ p.maxLoss \in Int /\ p.short \in Int /\ n \in Int
            /\ c.nav \in Int /\ c.buyingPower \in Int /\ c.open = {}
        BY <3>2, FiguresAssumption
      <4>. HIDE DEF p, n, c
      <4>2. Figures(p, n, c)
        BY <4>1, EmptyBook DEF Figures
      <4>. QED
        BY <4>2 DEF p, n, c
    <3>. QED
      BY <3>1, <3>2, <3>3, <3>4 DEF Answered
  <2>2. CASE Reply
    BY <2>2 DEF Reply, Answered
  <2>3. CASE UNCHANGED simVars
    BY <2>3 DEF simVars, Answered
  <2>. QED
    BY <2>1, <2>2, <2>3 DEF SimNext
<1>. QED
  BY <1>1, <1>2, PTL DEF SimSpec

(***************************************************************************)
(* The theorems                                                            *)
(***************************************************************************)

\* evaluate() always answers with a verdict of one of two shapes: an approval
\* of at least one contract, or a rejection with a reason.
THEOREM EvaluateAnswers == SimSpec => []SimTypeOK
<1>1. Answered => SimTypeOK
  <2>. SUFFICES ASSUME Answered, verdict # Nothing PROVE SimTypeOK
    BY DEF SimTypeOK
  <2>1. Approved(asked.proposal, asked.contracts, asked.context) \in Int
    BY PermittedIsNat, ApprovedShrinks DEF Answered, Figures
  <2>. QED
    BY <2>1, VerdictShape DEF Answered, SimTypeOK
<1>. QED
  BY <1>1, Inductive, PTL

\* Nothing is approved while any rule raises, whichever it is: _guarded turns
\* the exception into a hard failure, evaluate() into SK-999.
THEOREM RaisingIsNeverPermission == SimSpec => []RaisingFailsClosed
<1>1. Answered => RaisingFailsClosed
  BY RaisingFails, RaisingAssumption DEF Answered, RaisingFailsClosed
<1>. QED
  BY <1>1, Inductive, PTL

\* No capital rule and no entry-quality rule ever stands in a close's way: each
\* of them asks _exempt first.
THEOREM ClosesGoOut == SimSpec => []ClosesAreNotHeldBack
<1>1. Answered => ClosesAreNotHeldBack
  BY ClosesFailElsewhere DEF Answered, ClosesAreNotHeldBack, Closing, Figures
<1>. QED
  BY <1>1, Inductive, PTL

\* What is approved to open is covered, reserved in full, no more than was
\* asked for, and fits every capital limit at the approved size: compute_sizing
\* takes the least of what each limit has room for.
THEOREM OpeningsFit == SimSpec => []ApprovedOpeningsFit
<1>1. Answered => ApprovedOpeningsFit
  <2>. DEFINE p == asked.proposal
              n == asked.contracts
              c == asked.context
              k == verdict.contracts
  <2>. SUFFICES ASSUME Answered, verdict # Nothing,
                       verdict.decision = "APPROVE", p.action = "OPEN"
                PROVE  /\ 100 * (k * p.maxLoss) <= c.nav * Limits.position
                       /\ 100 * (k * p.maxLoss) <= c.nav * Limits.portfolio
                       /\ 10000 * (k * p.maxLoss)
                             <= c.nav * Limits.deployed * Limits.concentration
                       /\ k * p.short <= c.buyingPower
                       /\ k <= n
                       /\ Cardinality(p.legs) = 2
                       /\ p.reserve = p.maxLoss
    BY DEF ApprovedOpeningsFit
  <2>1. Figures(p, n, c) /\ verdict = Evaluate(p, n, c) /\ ~Closing(p)
    BY DEF Answered, Closing
  <2>2. SK002(p, c) /\ SK004(p, c) /\ k = Approved(p, n, c)
    <3>1. Answers(p, c)["SK002"] /\ Answers(p, c)["SK004"]
      BY <2>1, ApprovalPasses DEF RuleIds, SoftRules
    <3>2. SK002(p, c) /\ SK004(p, c)
      BY <3>1 DEF Answers
    <3>. QED
      BY <2>1, <3>2, ApprovalPasses
  <2>3. /\ k \in Nat
        /\ k <= Permitted(p, n, c)
        /\ k <= Positive(n)
    BY <2>1, <2>2, PermittedFits, ApprovedShrinks DEF Figures
  <2>4. k \in Nat \ {0}
    BY <2>1, <2>2, <2>3, VerdictShape
  <2>5. /\ 100 * (k * p.maxLoss) <= c.nav * Limits.position
        /\ 100 * (k * p.maxLoss) <= c.nav * Limits.portfolio
        /\ 10000 * (k * p.maxLoss)
              <= c.nav * Limits.deployed * Limits.concentration
        /\ k * p.short <= c.buyingPower
    <3>1. FitsBook(p, c, k)
      BY <2>1, <2>3, <2>4, PermittedFits
    <3>2. /\ PortfolioMaxLoss(c) = 0 /\ TotalAssignmentCost(c) = 0
          /\ ReserveFor(c, p.underlying) = 0
      BY EmptyBook DEF Answered
    <3>3. k * p.maxLoss \in Int /\ k * p.short \in Int
      BY <2>1, <2>4 DEF Figures
    <3>. HIDE DEF p, n, c, k
    <3>. QED
      BY <3>1, <3>2, <3>3 DEF FitsBook
  <2>6. k <= n
    BY <2>1, <2>3, <2>4 DEF Positive, Figures
  <2>7. Cardinality(p.legs) = 2
    BY <2>1, <2>2, CoveredMeansTwoLegs DEF Answered, Figures
  <2>8. p.reserve = p.maxLoss
    BY <2>1, <2>2 DEF SK002
  <2>. QED
    BY <2>5, <2>6, <2>7, <2>8
<1>. QED
  BY <1>1, Inductive, PTL

(***************************************************************************)
(* The desk's book: rows of the table, and what a row more adds to them    *)
(***************************************************************************)
LossOf(row) == row.contracts * row.spread.maxLoss
LossesIn(ps, rows) == SumFunctionOnSet([i \in rows |-> LossOf(ps[i])], rows)
OpenRows(ps) == {i \in DOMAIN ps : ps[i].status = "OPEN"}
OpenOn(ps, u) == {i \in OpenRows(ps) : ps[i].spread.underlying = u}

LEMMA RowsAreFinite ==
    ASSUME NEW ps \in Seq(Policy), NEW rows \in SUBSET DOMAIN ps
    PROVE  /\ IsFiniteSet(rows)
           /\ \A i \in rows : LossOf(ps[i]) \in Nat
           /\ LossesIn(ps, rows) \in Int
<1>1. IsFiniteSet(DOMAIN ps)
  <2>1. DOMAIN ps = 1 .. Len(ps) /\ Len(ps) \in Nat
    OBVIOUS
  <2>. QED
    BY <2>1, FS_Interval
<1>2. IsFiniteSet(rows)
  BY <1>1, FS_Subset
<1>3. \A i \in rows : LossOf(ps[i]) \in Nat
  <2>. SUFFICES ASSUME NEW i \in rows PROVE LossOf(ps[i]) \in Nat
    OBVIOUS
  <2>1. ps[i] \in Policy
    OBVIOUS
  <2>2. ps[i].contracts \in Nat /\ ps[i].spread.maxLoss \in Nat
    BY <2>1, SpreadsAssumption, BoundsAssumption DEF Policy
  <2>. QED
    BY <2>2 DEF LossOf
<1>. DEFINE f == [i \in rows |-> LossOf(ps[i])]
<1>4. \A i \in rows : f[i] \in Int
  BY <1>3
<1>. HIDE DEF f
<1>5. SumFunctionOnSet(f, rows) \in Int
  BY <1>2, <1>4, SumIsInt
<1>. QED
  BY <1>2, <1>3, <1>5 DEF LossesIn, f

\* Appending a row leaves the losses of the earlier ones alone, and adds its own
\* where it is counted.
LEMMA LossesGrow ==
    ASSUME NEW ps \in Seq(Policy), NEW row \in Policy, NEW rows \in SUBSET DOMAIN ps
    PROVE  /\ LossesIn(Append(ps, row), rows) = LossesIn(ps, rows)
           /\ LossesIn(Append(ps, row), rows \cup {Len(ps) + 1})
                 = LossesIn(ps, rows) + LossOf(row)
<1>. DEFINE new == Append(ps, row)
            last == Len(ps) + 1
            f == [i \in rows |-> LossOf(ps[i])]
            g == [i \in rows |-> LossOf(new[i])]
            h == [i \in rows \cup {last} |-> LossOf(new[i])]
<1>1. IsFiniteSet(rows) /\ \A i \in rows : LossOf(ps[i]) \in Nat
  BY RowsAreFinite
<1>2. /\ \A i \in rows : new[i] = ps[i]
      /\ new[last] = row /\ last \notin rows
  OBVIOUS
<1>3. LossOf(row) \in Nat
  <2>1. row.contracts \in Nat /\ row.spread.maxLoss \in Nat
    BY SpreadsAssumption, BoundsAssumption DEF Policy
  <2>. QED
    BY <2>1 DEF LossOf
<1>4. /\ \A i \in rows : f[i] \in Int /\ g[i] = f[i] /\ h[i] = f[i]
      /\ h[last] = LossOf(row)
  BY <1>1, <1>2
<1>5. \A i \in rows \cup {last} : h[i] \in Int
  BY <1>3, <1>4
<1>. HIDE DEF f, g, h, last
<1>6. SumFunctionOnSet(g, rows) = SumFunctionOnSet(f, rows)
  BY <1>1, <1>4, SumSame
<1>7. SumFunctionOnSet(h, rows) = SumFunctionOnSet(f, rows)
  BY <1>1, <1>4, SumSame
<1>8. SumFunctionOnSet(h, rows \cup {last}) = SumFunctionOnSet(h, rows) + h[last]
  <2>1. IsFiniteSet(rows) /\ last \notin rows
    BY <1>1, <1>2
  <2>. QED
    BY ONLY <1>5, <2>1, SumWith
<1>. QED
  BY <1>4, <1>6, <1>7, <1>8 DEF LossesIn, f, g, h, last

\* A row of either kind, and where it counts.
LEMMA OpenRowsGrow ==
    ASSUME NEW ps \in Seq(Policy), NEW row \in Policy
    PROVE  /\ row.status # "OPEN" =>
                 /\ OpenRows(Append(ps, row)) = OpenRows(ps)
                 /\ \A u : OpenOn(Append(ps, row), u) = OpenOn(ps, u)
           /\ row.status = "OPEN" =>
                 /\ OpenRows(Append(ps, row)) = OpenRows(ps) \cup {Len(ps) + 1}
                 /\ \A u : OpenOn(Append(ps, row), u) =
                              IF row.spread.underlying = u
                              THEN OpenOn(ps, u) \cup {Len(ps) + 1}
                              ELSE OpenOn(ps, u)
<1>. DEFINE new == Append(ps, row)
            last == Len(ps) + 1
<1>1. /\ DOMAIN new = DOMAIN ps \cup {last}
      /\ last \notin DOMAIN ps
      /\ new[last] = row
      /\ \A i \in DOMAIN ps : new[i] = ps[i]
  OBVIOUS
<1>. HIDE DEF new, last
<1>2. row.status # "OPEN" => OpenRows(new) = OpenRows(ps)
  BY <1>1 DEF OpenRows
<1>3. row.status = "OPEN" => OpenRows(new) = OpenRows(ps) \cup {last}
  BY <1>1 DEF OpenRows
<1>4. OpenRows(ps) \subseteq DOMAIN ps
  BY DEF OpenRows
<1>5. row.status # "OPEN" => \A u : OpenOn(new, u) = OpenOn(ps, u)
  BY <1>1, <1>2, <1>4 DEF OpenOn
<1>6. row.status = "OPEN" =>
        \A u : OpenOn(new, u) = IF row.spread.underlying = u
                                THEN OpenOn(ps, u) \cup {last} ELSE OpenOn(ps, u)
  <2>. SUFFICES ASSUME row.status = "OPEN", NEW u
                PROVE  OpenOn(new, u) = IF row.spread.underlying = u
                                        THEN OpenOn(ps, u) \cup {last}
                                        ELSE OpenOn(ps, u)
    OBVIOUS
  <2>1. OpenOn(new, u) = {i \in OpenRows(ps) \cup {last} :
                             new[i].spread.underlying = u}
    BY <1>3 DEF OpenOn
  <2>. QED
    BY <1>1, <1>4, <2>1 DEF OpenOn
<1>. QED
  BY <1>2, <1>3, <1>5, <1>6 DEF new, last

(***************************************************************************)
(* The context the Kernel is given                                         *)
(***************************************************************************)
Book == Rows({"OPEN"})
BookOn(u) == {i \in Book : policies[i].spread.underlying = u}

LEMMA BookIsOpenRows ==
    /\ Book = OpenRows(policies)
    /\ \A u : BookOn(u) = OpenOn(policies, u)
    /\ \A rows : LossOver(rows) = LossesIn(policies, rows)
<1>1. Book = OpenRows(policies)
  BY DEF Book, Rows, OpenRows
<1>2. \A u : BookOn(u) = OpenOn(policies, u)
  BY <1>1 DEF BookOn, OpenOn
<1>3. ASSUME NEW rows PROVE LossOver(rows) = LossesIn(policies, rows)
  BY DEF LossOver, LossesIn, MaxLossOf, LossOf, SumFunction
<1>. QED
  BY <1>1, <1>2, <1>3

LEMMA BookIsFinite ==
    ASSUME policies \in Seq(Policy), NEW rows \in SUBSET Book
    PROVE  /\ rows \in SUBSET DOMAIN policies
           /\ IsFiniteSet(rows)
           /\ \A i \in rows : MaxLossOf(i) \in Nat
           /\ LossOver(rows) \in Int
<1>1. rows \in SUBSET DOMAIN policies
  BY DEF Book, Rows
<1>2. IsFiniteSet(rows) /\ LossesIn(policies, rows) \in Int
  BY <1>1, RowsAreFinite
<1>3. \A i \in rows : LossOf(policies[i]) \in Nat
  BY <1>1, RowsAreFinite
<1>. QED
  BY <1>1, <1>2, <1>3, BookIsOpenRows DEF MaxLossOf, LossOf

\* Two rows never become the same open policy, so none is lost in the set.
LEMMA SumOverOpen ==
    ASSUME policies \in Seq(Policy), NEW rows \in SUBSET Book, NEW figure,
           \A i \in rows : figure[OpenPolicy(i)] = MaxLossOf(i)
    PROVE  SumFunctionOnSet(figure, {OpenPolicy(i) : i \in rows}) = LossOver(rows)
<1>. DEFINE f == [i \in rows |-> MaxLossOf(i)]
            h == [i \in rows |-> OpenPolicy(i)]
<1>1. IsFiniteSet(rows) /\ \A i \in rows : MaxLossOf(i) \in Nat
  BY BookIsFinite
<1>2. \A i \in rows : f[i] \in Int /\ figure[h[i]] = f[i]
  BY <1>1
<1>3. \A i, j \in rows : h[i] = h[j] => i = j
  BY DEF OpenPolicy
<1>4. {h[i] : i \in rows} = {OpenPolicy(i) : i \in rows}
  OBVIOUS
<1>5. LossOver(rows) = SumFunctionOnSet(f, rows)
  BY DEF LossOver, SumFunction
<1>. HIDE DEF f, h
<1>6. SumFunctionOnSet(figure, {h[i] : i \in rows}) = SumFunctionOnSet(f, rows)
  BY <1>1, <1>2, <1>3, SumRenamed
<1>. QED
  BY <1>4, <1>5, <1>6

LEMMA ContextFigures ==
    ASSUME policies \in Seq(Policy), NEW x
    PROVE  /\ PortfolioMaxLoss(Context(x)) = LossOver(Book)
           /\ TotalReserve(Context(x)) = LossOver(Book)
           /\ \A u : ReserveFor(Context(x), u) = LossOver(BookOn(u))
           /\ TotalAssignmentCost(Context(x)) = 0
           /\ Cardinality(Context(x).open) = Cardinality(Book)
<1>. DEFINE Open(rows) == {OpenPolicy(i) : i \in rows}
<1>1. Context(x).open = Open(Book)
  BY DEF Context, Book
<1>2. PortfolioMaxLoss(Context(x)) = LossOver(Book)
  <2>. DEFINE f == [o \in Open(Book) |-> o.maxLoss]
  <2>1. \A i \in Book : f[OpenPolicy(i)] = MaxLossOf(i)
    BY DEF OpenPolicy
  <2>2. PortfolioMaxLoss(Context(x)) = SumFunctionOnSet(f, Open(Book))
    BY <1>1 DEF PortfolioMaxLoss, SumFunction
  <2>. HIDE DEF f
  <2>. QED
    BY <2>1, <2>2, SumOverOpen
<1>3. ASSUME NEW rows \in SUBSET Book
      PROVE  Reserved(Open(rows)) = LossOver(rows)
  <2>. DEFINE f == [o \in Open(rows) |-> o.reserve]
  <2>1. \A i \in rows : f[OpenPolicy(i)] = MaxLossOf(i)
    BY DEF OpenPolicy
  <2>2. Reserved(Open(rows)) = SumFunctionOnSet(f, Open(rows))
    BY DEF Reserved, SumFunction
  <2>. HIDE DEF f
  <2>. QED
    BY <2>1, <2>2, SumOverOpen
<1>4. TotalReserve(Context(x)) = LossOver(Book)
  BY <1>1, <1>3 DEF TotalReserve
<1>5. ASSUME NEW u PROVE ReserveFor(Context(x), u) = LossOver(BookOn(u))
  <2>1. {o \in Open(Book) : o.underlying = u} = Open(BookOn(u))
    BY DEF OpenPolicy, BookOn
  <2>2. BookOn(u) \in SUBSET Book
    BY DEF BookOn
  <2>. QED
    BY <1>1, <1>3, <2>1, <2>2 DEF ReserveFor
<1>6. IsFiniteSet(Open(Book)) /\ Cardinality(Open(Book)) = Cardinality(Book)
  <2>. DEFINE h == [i \in Book |-> OpenPolicy(i)]
  <2>1. h \in [Book -> Open(Book)]
    OBVIOUS
  <2>2. \A i, j \in Book : h[i] = h[j] => i = j
    BY DEF OpenPolicy
  <2>3. \A o \in Open(Book) : \E i \in Book : h[i] = o
    OBVIOUS
  <2>4. h \in Bijection(Book, Open(Book))
    <3>. HIDE DEF h, Open
    <3>. QED
      BY <2>1, <2>2, <2>3 DEF Bijection, Injection, IsInjective, Surjection
  <2>5. IsFiniteSet(Book)
    BY BookIsFinite
  <2>. QED
    BY <2>4, <2>5, FS_Bijection DEF ExistsBijection
<1>7. TotalAssignmentCost(Context(x)) = 0
  <2>. DEFINE f == [o \in Open(Book) |-> o.short * o.contracts]
  <2>1. ASSUME NEW o \in Open(Book) PROVE f[o] = 0
    <3>1. PICK i \in Book : o = OpenPolicy(i)
      OBVIOUS
    <3>2. policies[i] \in Policy
      BY DEF Book, Rows
    <3>3. o.short = 0 /\ o.contracts \in Int
      BY <3>1, <3>2, BoundsAssumption DEF OpenPolicy, Policy
    <3>. QED
      BY <3>3
  <2>2. TotalAssignmentCost(Context(x)) = SumFunctionOnSet(f, Open(Book))
    BY <1>1 DEF TotalAssignmentCost, SumFunction
  <2>. HIDE DEF f
  <2>3. SumFunctionOnSet(f, Open(Book)) = 0
    BY <1>6, <2>1, SumOfZeros
  <2>. QED
    BY <2>2, <2>3
<1>. QED
  BY <1>1, <1>2, <1>4, <1>5, <1>6, <1>7

(***************************************************************************)
(* One proposal against the book                                           *)
(***************************************************************************)

\* Whatever the book, an opening is sized with numbers, and fits the Kernel's
\* context exactly when it fits the rows.
LEMMA OpeningFigures ==
    ASSUME TypeOK, NEW s \in Spreads, NEW n \in Int
    PROVE  /\ Figures(Opening(s), n, Context("priced"))
           /\ ~Closing(Opening(s))
           /\ \A k \in Int : FitsBook(Opening(s), Context("priced"), k)
                                <=> Fits(s, k, Book)
<1>. DEFINE p == Opening(s)
            c == Context("priced")
<1>1. /\ p.maxLoss = s.maxLoss /\ p.short = s.short /\ p.underlying = s.underlying
      /\ p.action = "OPEN" /\ c.nav = equity /\ c.buyingPower = 2 * equity
  BY DEF Opening, Context
<1>2. policies \in Seq(Policy) /\ equity \in Nat
  BY DEF TypeOK
<1>3. /\ PortfolioMaxLoss(c) = LossOver(Book)
      /\ TotalReserve(c) = LossOver(Book)
      /\ ReserveFor(c, s.underlying) = LossOver(BookOn(s.underlying))
      /\ TotalAssignmentCost(c) = 0
  BY <1>2, ContextFigures
<1>4. LossOver(Book) \in Int /\ LossOver(BookOn(s.underlying)) \in Int
  <2>1. BookOn(s.underlying) \in SUBSET Book
    BY DEF BookOn
  <2>. QED
    BY <1>2, <2>1, BookIsFinite
<1>5. s.maxLoss \in Int /\ s.short \in Int
  BY SpreadsAssumption
<1>. HIDE DEF p, c
<1>6. Figures(p, n, c)
  BY <1>1, <1>2, <1>3, <1>4, <1>5 DEF Figures
<1>7. ~Closing(p)
  BY <1>1 DEF Closing
<1>8. ASSUME NEW k \in Int
      PROVE  FitsBook(p, c, k) <=> Fits(s, k, Book)
  <2>1. FitsBook(p, c, k) <=>
          /\ 100 * (k * s.maxLoss) <= equity * Limits.position
          /\ 100 * (LossOver(Book) + k * s.maxLoss) <= equity * Limits.portfolio
          /\ 10000 * (LossOver(BookOn(s.underlying)) + k * s.maxLoss)
                <= equity * Limits.deployed * Limits.concentration
          /\ 100 * (LossOver(Book) + k * s.maxLoss) <= equity * Limits.deployed
          /\ 0 + k * s.short <= 2 * equity
    BY <1>1, <1>3 DEF FitsBook
  <2>2. k * s.short \in Int
    BY <1>5
  <2>3. 0 + k * s.short = k * s.short
    BY <2>2
  <2>. QED
    BY <2>1, <2>3 DEF Fits, BookOn
<1>. QED
  BY <1>6, <1>7, <1>8 DEF p, c

\* Sizing permits the contracts that fit the rows, and no more.
LEMMA PermittedFitsRows ==
    ASSUME TypeOK, NEW s \in Spreads, NEW n \in Int, NEW k \in Nat \ {0}
    PROVE  /\ Permitted(Opening(s), n, Context("priced")) \in Nat
           /\ k <= Permitted(Opening(s), n, Context("priced")) <=> Fits(s, k, Book)
<1>. DEFINE p == Opening(s)
            c == Context("priced")
<1>1. Figures(p, n, c) /\ ~Closing(p)
  BY OpeningFigures
<1>2. FitsBook(p, c, k) <=> Fits(s, k, Book)
  BY OpeningFigures
<1>3. p.maxLoss > 0 /\ p.short > 0
  BY SpreadsAssumption DEF Opening
<1>. HIDE DEF p, c
<1>4. /\ Permitted(p, n, c) \in Nat
      /\ k <= Permitted(p, n, c) => FitsBook(p, c, k)
      /\ FitsBook(p, c, k) => k <= Permitted(p, n, c)
  BY <1>1, <1>3, PermittedFits
<1>. QED
  BY <1>2, <1>4 DEF p, c

\* An approved opening fits at its approved size, there is room for one policy
\* more, and there is an account to measure against.
LEMMA ApprovedOpening ==
    ASSUME TypeOK, NEW s \in Spreads, NEW n \in Nat,
           Evaluate(Opening(s), n, Context("priced")).decision = "APPROVE"
    PROVE  LET k == Evaluate(Opening(s), n, Context("priced")).contracts IN
           /\ k \in 1 .. n
           /\ Fits(s, k, Book)
           /\ Cardinality(Book) + 1 <= Limits.policies
           /\ equity > 0
<1>. DEFINE p == Opening(s)
            c == Context("priced")
            k == Evaluate(p, n, c).contracts
<1>1. /\ \A r \in RuleIds \ SoftRules : Answers(p, c)[r]
      /\ k = Approved(p, n, c) /\ k >= 1
  BY ApprovalPasses
<1>2. Answers(p, c)["SK005"] /\ Answers(p, c)["SK025"]
  BY <1>1 DEF RuleIds, SoftRules
<1>3. SK005(p, c) /\ SK025(p, c)
  BY <1>2 DEF Answers
<1>4. equity > 0
  BY <1>3 DEF SK025, Context
<1>5. Cardinality(Book) + 1 <= Limits.policies
  <2>1. ~Closing(p) /\ Cardinality(c.open) = Cardinality(Book)
    BY ContextFigures, OpeningFigures DEF TypeOK
  <2>. HIDE DEF p, c
  <2>. QED
    BY <1>3, <2>1 DEF SK005
<1>6. Permitted(p, n, c) \in Nat
  BY PermittedFitsRows
<1>7. k \in Nat /\ k <= Permitted(p, n, c) /\ k <= Positive(n)
  <2>. HIDE DEF p, c
  <2>. QED
    BY <1>1, <1>6, ApprovedShrinks
<1>8. k \in 1 .. n
  <2>. HIDE DEF k
  <2>. QED
    BY <1>1, <1>7 DEF Positive
<1>9. Fits(s, k, Book)
  BY <1>7, <1>8, PermittedFitsRows
<1>. QED
  BY <1>4, <1>5, <1>8, <1>9

(***************************************************************************)
(* The invariant                                                           *)
(***************************************************************************)
\* What was written stays inside the limits; and nothing is written until the
\* account has been read, after which its equity never changes.
IInv ==
    /\ TypeOK
    /\ OpenBookWithinLimits
    /\ policies # <<>> => equity > 0

\* The limits, over any rows and equity; the products stay folded.
AtRisk(e) == e * Limits.position
InPortfolio(e) == e * Limits.portfolio
Deployable(e) == e * Limits.deployed
InOneName(e) == e * Limits.deployed * Limits.concentration

NamesWithin(ps, e) ==
    \A s \in Spreads :
        10000 * LossesIn(ps, OpenOn(ps, s.underlying)) <= InOneName(e)

Within(ps, e) ==
    /\ Cardinality(OpenRows(ps)) <= Limits.policies
    /\ \A i \in OpenRows(ps) : 100 * LossOf(ps[i]) <= AtRisk(e)
    /\ 100 * LossesIn(ps, OpenRows(ps)) <= InPortfolio(e)
    /\ 100 * LossesIn(ps, OpenRows(ps)) <= Deployable(e)
    /\ NamesWithin(ps, e)

LEMMA BookIsWithin == OpenBookWithinLimits <=> Within(policies, equity)
<1>1. /\ Rows({"OPEN"}) = OpenRows(policies)
      /\ \A rows : LossOver(rows) = LossesIn(policies, rows)
  BY BookIsOpenRows DEF Book
<1>2. \A i : MaxLossOf(i) = LossOf(policies[i])
  BY DEF MaxLossOf, LossOf
<1>3. \A u : {i \in Rows({"OPEN"}) : policies[i].spread.underlying = u}
                = OpenOn(policies, u)
  BY BookIsOpenRows DEF Book, BookOn
<1>4. (\A i \in Rows({"OPEN"}) : 100 * MaxLossOf(i) <= AtRisk(equity))
        <=> \A i \in OpenRows(policies) : 100 * LossOf(policies[i]) <= AtRisk(equity)
  BY <1>1, <1>2
<1>5. (\A s \in Spreads :
          10000 * LossOver({i \in Rows({"OPEN"}) :
                               policies[i].spread.underlying = s.underlying})
              <= InOneName(equity))
        <=> NamesWithin(policies, equity)
  <2>. DEFINE Lost(u) == LossOver({i \in Rows({"OPEN"}) :
                                      policies[i].spread.underlying = u})
  <2>1. \A u : Lost(u) = LossesIn(policies, OpenOn(policies, u))
    BY <1>1, <1>3
  <2>. HIDE DEF Lost
  <2>2. (\A s \in Spreads : 10000 * Lost(s.underlying) <= InOneName(equity))
          <=> NamesWithin(policies, equity)
    BY <2>1 DEF NamesWithin
  <2>. QED
    BY <2>2 DEF Lost
<1>6. OpenBookWithinLimits <=>
        /\ Cardinality(Rows({"OPEN"})) <= Limits.policies
        /\ \A i \in Rows({"OPEN"}) : 100 * MaxLossOf(i) <= AtRisk(equity)
        /\ 100 * LossOver(Rows({"OPEN"})) <= InPortfolio(equity)
        /\ 100 * LossOver(Rows({"OPEN"})) <= Deployable(equity)
        /\ \A s \in Spreads :
              10000 * LossOver({i \in Rows({"OPEN"}) :
                                   policies[i].spread.underlying = s.underlying})
                  <= InOneName(equity)
  BY DEF OpenBookWithinLimits, AtRisk, InPortfolio, Deployable, InOneName
<1>. QED
  BY <1>1, <1>4, <1>5, <1>6 DEF Within

\* The same of the next state.
LEMMA BookStaysWithin == Within(policies', equity') => OpenBookWithinLimits'
<1>1. Rows({"OPEN"})' = OpenRows(policies')
  BY DEF Rows, OpenRows
<1>2. LossOver(Rows({"OPEN"}))' = LossesIn(policies', OpenRows(policies'))
  BY <1>1 DEF LossOver, LossesIn, MaxLossOf, LossOf, SumFunction
<1>3. \A s \in Spreads :
          LossOver({i \in Rows({"OPEN"}) :
                       policies[i].spread.underlying = s.underlying})'
             = LossesIn(policies', OpenOn(policies', s.underlying))
  BY <1>1 DEF LossOver, LossesIn, OpenOn, MaxLossOf, LossOf, SumFunction
<1>4. \A i : MaxLossOf(i)' = LossOf(policies'[i])
  BY DEF MaxLossOf, LossOf
<1>5. Within(policies', equity') =>
        /\ (Cardinality(Rows({"OPEN"})) <= Limits.policies)'
        /\ (\A i \in Rows({"OPEN"}) : 100 * MaxLossOf(i) <= AtRisk(equity))'
        /\ (100 * LossOver(Rows({"OPEN"})) <= InPortfolio(equity))'
        /\ (100 * LossOver(Rows({"OPEN"})) <= Deployable(equity))'
        /\ (\A s \in Spreads :
               10000 * LossOver({i \in Rows({"OPEN"}) :
                                    policies[i].spread.underlying = s.underlying})
                   <= InOneName(equity))'
  BY <1>1, <1>2, <1>3, <1>4 DEF Within, NamesWithin
<1>. QED
  BY <1>5 DEF OpenBookWithinLimits, AtRisk, InPortfolio, Deployable, InOneName

\* An empty book is within any limits.
LEMMA EmptyIsWithin ==
    ASSUME NEW e \in Nat
    PROVE  Within(<<>>, e)
<1>1. OpenRows(<<>>) = {} /\ \A u : OpenOn(<<>>, u) = {}
  BY DEF OpenRows, OpenOn
<1>2. LossesIn(<<>>, {}) = 0
  BY SumOfNone DEF LossesIn
<1>3. Cardinality({}) = 0
  BY FS_EmptySet
<1>4. /\ Limits.policies \in Nat
      /\ e * Limits.portfolio \in Nat /\ e * Limits.deployed \in Nat
      /\ (e * Limits.deployed) * Limits.concentration \in Nat
  <2>1. /\ Limits.policies \in Nat /\ Limits.portfolio \in Nat
        /\ Limits.deployed \in Nat /\ Limits.concentration \in Nat
    BY LimitsAssumption
  <2>2. e * Limits.portfolio \in Nat /\ e * Limits.deployed \in Nat
    BY <2>1
  <2>. QED
    BY <2>1, <2>2
<1>5. NamesWithin(<<>>, e)
  <2>1. 10000 * LossesIn(<<>>, {}) <= InOneName(e)
    BY <1>2, <1>4 DEF InOneName
  <2>. QED
    BY <1>1, <2>1 DEF NamesWithin
<1>6. /\ 100 * LossesIn(<<>>, {}) <= InPortfolio(e)
      /\ 100 * LossesIn(<<>>, {}) <= Deployable(e)
      /\ Cardinality({}) <= Limits.policies
  BY <1>2, <1>3, <1>4 DEF InPortfolio, Deployable
<1>. QED
  BY <1>1, <1>5, <1>6 DEF Within

\* A row more is within them if it fits the rows, and if it is not open at all.
LEMMA AppendIsWithin ==
    ASSUME TypeOK, Within(policies, equity), NEW row \in Policy,
           row.status = "OPEN" =>
              /\ Fits(row.spread, row.contracts, Book)
              /\ Cardinality(Book) + 1 <= Limits.policies
    PROVE  Within(Append(policies, row), equity)
<1>. DEFINE new == Append(policies, row)
            last == Len(policies) + 1
<1>1. policies \in Seq(Policy)
  BY DEF TypeOK
<1>2. /\ \A i \in DOMAIN policies : new[i] = policies[i]
      /\ new[last] = row /\ last \notin DOMAIN policies
  BY <1>1
<1>3. /\ OpenRows(policies) \in SUBSET DOMAIN policies
      /\ \A u : OpenOn(policies, u) \in SUBSET DOMAIN policies
  BY DEF OpenRows, OpenOn
<1>4. ASSUME NEW rows \in SUBSET DOMAIN policies
      PROVE  /\ LossesIn(new, rows) = LossesIn(policies, rows)
             /\ LossesIn(new, rows \cup {last}) = LossesIn(policies, rows) + LossOf(row)
  BY <1>1, LossesGrow
<1>5. CASE row.status # "OPEN"
  <2>1. /\ OpenRows(new) = OpenRows(policies)
        /\ \A u : OpenOn(new, u) = OpenOn(policies, u)
    BY <1>1, <1>5, OpenRowsGrow
  <2>. HIDE DEF new
  <2>2. /\ LossesIn(new, OpenRows(new)) = LossesIn(policies, OpenRows(policies))
        /\ \A u : LossesIn(new, OpenOn(new, u)) = LossesIn(policies, OpenOn(policies, u))
    BY <1>3, <1>4, <2>1
  <2>3. NamesWithin(new, equity)
    <3>1. NamesWithin(policies, equity)
      BY DEF Within
    <3>. QED
      BY <2>2, <3>1 DEF NamesWithin
  <2>4. \A i \in OpenRows(new) : 100 * LossOf(new[i]) <= AtRisk(equity)
    BY <1>2, <1>3, <2>1 DEF Within
  <2>. QED
    BY <2>1, <2>2, <2>3, <2>4 DEF Within, new
<1>6. CASE row.status = "OPEN"
  <2>1. /\ OpenRows(new) = OpenRows(policies) \cup {last}
        /\ \A u : OpenOn(new, u) = IF row.spread.underlying = u
                                   THEN OpenOn(policies, u) \cup {last}
                                   ELSE OpenOn(policies, u)
    BY <1>1, <1>6, OpenRowsGrow
  <2>2. /\ Book = OpenRows(policies)
        /\ \A u : BookOn(u) = OpenOn(policies, u)
        /\ \A rows : LossOver(rows) = LossesIn(policies, rows)
    BY BookIsOpenRows
  <2>3. /\ 100 * LossOf(row) <= AtRisk(equity)
        /\ 100 * (LossesIn(policies, OpenRows(policies)) + LossOf(row))
              <= InPortfolio(equity)
        /\ 100 * (LossesIn(policies, OpenRows(policies)) + LossOf(row))
              <= Deployable(equity)
        /\ 10000 * (LossesIn(policies, OpenOn(policies, row.spread.underlying))
                       + LossOf(row))
              <= InOneName(equity)
    <3>1. Fits(row.spread, row.contracts, Book)
      BY <1>6
    <3>. QED
      BY <2>2, <3>1 DEF Fits, LossOf, BookOn, AtRisk, InPortfolio, Deployable, InOneName
  <2>4. Cardinality(OpenRows(new)) <= Limits.policies
    <3>1. IsFiniteSet(OpenRows(policies))
      BY <1>1, <1>3, RowsAreFinite
    <3>2. last \notin OpenRows(policies)
      BY <1>2, <1>3
    <3>3. Cardinality(OpenRows(new)) = Cardinality(OpenRows(policies)) + 1
      BY <2>1, <3>1, <3>2, FS_AddElement
    <3>. QED
      BY <1>6, <2>2, <3>3
  <2>. HIDE DEF new, last
  <2>5. \A i \in OpenRows(new) : 100 * LossOf(new[i]) <= AtRisk(equity)
    BY <1>2, <1>3, <2>1, <2>3 DEF Within
  <2>6. LossesIn(new, OpenRows(new))
          = LossesIn(policies, OpenRows(policies)) + LossOf(row)
    BY <1>3, <1>4, <2>1
  <2>7. ASSUME NEW s \in Spreads
        PROVE  10000 * LossesIn(new, OpenOn(new, s.underlying))
                  <= InOneName(equity)
    <3>1. CASE row.spread.underlying = s.underlying
      <4>1. OpenOn(new, s.underlying) = OpenOn(policies, row.spread.underlying) \cup {last}
        BY <2>1, <3>1
      <4>2. LossesIn(new, OpenOn(new, s.underlying))
              = LossesIn(policies, OpenOn(policies, row.spread.underlying)) + LossOf(row)
        BY <1>3, <1>4, <4>1
      <4>. QED
        BY <2>3, <4>2
    <3>2. CASE row.spread.underlying # s.underlying
      <4>1. OpenOn(new, s.underlying) = OpenOn(policies, s.underlying)
        BY <2>1, <3>2
      <4>2. LossesIn(new, OpenOn(new, s.underlying))
              = LossesIn(policies, OpenOn(policies, s.underlying))
        BY <1>3, <1>4, <4>1
      <4>. QED
        BY <4>2 DEF Within, NamesWithin
    <3>. QED
      BY <3>1, <3>2
  <2>8. NamesWithin(new, equity)
    BY <2>7 DEF NamesWithin
  <2>9. /\ 100 * LossesIn(new, OpenRows(new)) <= InPortfolio(equity)
        /\ 100 * LossesIn(new, OpenRows(new)) <= Deployable(equity)
    BY <2>3, <2>6
  <2>. QED
    BY <2>4, <2>5, <2>8, <2>9 DEF Within, new
<1>. QED
  BY <1>5, <1>6

LEMMA PortfolioInductive == Spec => []IInv
<1>1. Init => IInv
  <2>. SUFFICES ASSUME Init PROVE IInv
    OBVIOUS
  <2>1. equity \in Nat /\ policies = <<>>
    BY BaselinesAssumption DEF Init
  <2>2. TypeOK
    <3>1. <<>> \in Seq(Policy) /\ Len(<<>>) <= MaxWritten
      BY BoundsAssumption
    <3>. QED
      BY <2>1, <3>1 DEF Init, TypeOK
  <2>3. OpenBookWithinLimits
    BY <2>1, EmptyIsWithin, BookIsWithin
  <2>. QED
    BY <2>1, <2>2, <2>3 DEF IInv
<1>2. IInv /\ [Next]_vars => IInv'
  <2>. SUFFICES ASSUME IInv, [Next]_vars PROVE IInv'
    OBVIOUS
  <2>. USE DEF IInv
  <2>1. Within(policies, equity)
    BY BookIsWithin
  <2>2. CASE Underwrite
    <3>1. PICK s \in Spreads, n \in 1 .. MaxContracts,
               status \in {"OPEN", "LEG_RISK"} :
             LET v == Evaluate(Opening(s), n, Context("priced")) IN
             /\ v.decision = "APPROVE"
             /\ policies' = Append(policies, [spread |-> s, status |-> status,
                                              contracts |-> v.contracts])
      BY <2>2 DEF Underwrite
    <3>. DEFINE k == Evaluate(Opening(s), n, Context("priced")).contracts
                row == [spread |-> s, status |-> status, contracts |-> k]
    <3>2. n \in Nat /\ n <= MaxContracts
      BY BoundsAssumption
    <3>3. /\ k \in 1 .. n /\ Fits(s, k, Book)
          /\ Cardinality(Book) + 1 <= Limits.policies
          /\ equity > 0
      BY <3>1, <3>2, ApprovedOpening
    <3>4. policies' = Append(policies, row)
      BY <3>1
    <3>. HIDE DEF k
    <3>5. row \in Policy
      BY <3>2, <3>3, BoundsAssumption DEF Policy
    <3>6. row.spread = s /\ row.contracts = k
      OBVIOUS
    <3>. HIDE DEF row
    <3>7. UNCHANGED <<equity, mode, killSwitch>> /\ Len(policies) < MaxWritten
      BY <2>2 DEF Underwrite
    <3>8. TypeOK'
      BY <3>4, <3>5, <3>7, BoundsAssumption DEF TypeOK
    <3>9. Within(policies', equity')
      BY <2>1, <3>3, <3>4, <3>5, <3>6, <3>7, AppendIsWithin
    <3>. QED
      BY <3>3, <3>7, <3>8, <3>9, BookStaysWithin
  <2>3. CASE Reconcile \/ SetMode \/ SetKillSwitch \/ UNCHANGED vars
    <3>1. UNCHANGED <<equity, policies>>
      BY <2>3 DEF Reconcile, SetMode, SetKillSwitch, vars
    <3>2. TypeOK'
      BY <2>3, <3>1 DEF Reconcile, SetMode, SetKillSwitch, vars, TypeOK
    <3>. QED
      BY <2>1, <3>1, <3>2, BookStaysWithin
  <2>4. CASE Restart
    <3>1. equity' \in Nat /\ UNCHANGED <<killSwitch, policies>> /\ mode' = "MANAGE_ONLY"
      BY <2>4, BaselinesAssumption DEF Restart, TypeOK
    <3>2. TypeOK'
      BY <3>1 DEF TypeOK
    <3>3. CASE policies = <<>>
      <4>1. Within(policies', equity')
        BY <3>1, <3>3, EmptyIsWithin
      <4>. QED
        BY <3>1, <3>2, <3>3, <4>1, BookStaysWithin
    <3>4. CASE policies # <<>>
      <4>1. UNCHANGED equity
        BY <2>4, <3>4 DEF Restart
      <4>. QED
        BY <2>1, <3>1, <3>2, <4>1, BookStaysWithin
    <3>. QED
      BY <3>3, <3>4
  <2>. QED
    BY <2>2, <2>3, <2>4 DEF Next
<1>. QED
  BY <1>1, <1>2, PTL DEF Spec

(***************************************************************************)
(* The theorems                                                            *)
(***************************************************************************)

\* A policy is written for one contract at least and for no more than was
\* requested, whatever sizing, soft rules and calibration make of it.
THEOREM PolicyTypesCorrect == Spec => []TypeOK
<1>1. IInv => TypeOK
  BY DEF IInv
<1>. QED
  BY <1>1, PortfolioInductive, PTL

\* The Kernel looks at one proposal at a time, and build_kernel_context shows
\* it the open policies only.  It keeps all of them together inside every
\* capital limit, over any number of cycles, switches and restarts.
THEOREM BookStaysWithinLimits == Spec => []OpenBookWithinLimits
<1>1. IInv => OpenBookWithinLimits
  BY DEF IInv
<1>. QED
  BY <1>1, PortfolioInductive, PTL

\* compute_sizing returns the largest size that leaves every capital limit
\* intact: its five divisions lose nothing.
THEOREM SizingIsExact == Spec => []PermittedIsTheMostThatFits
<1>1. TypeOK => PermittedIsTheMostThatFits
  <2>. SUFFICES ASSUME TypeOK, NEW s \in Spreads, NEW k \in 1 .. MaxContracts + 1
                PROVE  k <= Permitted(Opening(s), k, Context("priced"))
                          <=> Fits(s, k, Rows({"OPEN"}))
    BY DEF PermittedIsTheMostThatFits
  <2>1. k \in Nat \ {0}
    BY BoundsAssumption
  <2>. QED
    BY <2>1, PermittedFitsRows DEF Book
<1>. QED
  BY <1>1, PolicyTypesCorrect, PTL

\* The rules and the sizing are written separately; a proposal fails no capital
\* rule exactly when sizing has room for a contract of it.
THEOREM RulesAgreeWithSizing == Spec => []RulesMeasureOneContract
<1>1. TypeOK => RulesMeasureOneContract
  <2>. SUFFICES ASSUME TypeOK, NEW s \in Spreads
                PROVE  HardFailures(Opening(s), Context("priced")) \cap SizedRules = {}
                          <=> Permitted(Opening(s), 1, Context("priced")) >= 1
    BY DEF RulesMeasureOneContract
  <2>. DEFINE p == Opening(s)
              c == Context("priced")
  <2>1. /\ p.raising = {} /\ p.reserve = p.maxLoss
        /\ Figures(p, 1, c) /\ ~Closing(p)
    BY OpeningFigures DEF Opening
  <2>2. Permitted(p, 1, c) >= 1 <=> FitsBook(p, c, 1)
    <3>1. 1 <= Permitted(p, 1, c) <=> Fits(s, 1, Book)
      BY PermittedFitsRows
    <3>2. FitsBook(p, c, 1) <=> Fits(s, 1, Book)
      BY OpeningFigures
    <3>3. Permitted(p, 1, c) \in Nat
      BY PermittedFitsRows
    <3>. HIDE DEF p, c
    <3>. QED
      BY <3>1, <3>2, <3>3
  <2>. HIDE DEF p, c
  <2>3. FitsBook(p, c, 1) <=>
          SK001(p, c) /\ SK002(p, c) /\ SK003(p, c) /\ SK006(p, c) /\ SK007(p, c)
          /\ SK012(p, c)
    <3>1. 1 * p.maxLoss = p.maxLoss /\ 1 * p.short = p.short
      BY <2>1 DEF Figures
    <3>. QED
      BY <2>1, <3>1 DEF FitsBook, SK001, SK002, SK003, SK006, SK007, SK012
  <2>4. HardFailures(p, c) \cap SizedRules = {} <=> \A r \in SizedRules : Answers(p, c)[r]
    BY <2>1, EveryRuleAnswers DEF HardFailures, SizedRules, SoftRules, RuleIds
  <2>5. (\A r \in SizedRules : Answers(p, c)[r]) <=>
          SK001(p, c) /\ SK002(p, c) /\ SK003(p, c) /\ SK006(p, c) /\ SK007(p, c)
          /\ SK012(p, c)
    BY DEF Answers, SizedRules
  <2>. QED
    BY <2>2, <2>3, <2>4, <2>5 DEF p, c
<1>. QED
  BY <1>1, PolicyTypesCorrect, PTL

\* As long as the calibration is whole, no rule refuses to close an open policy
\* and the verdict is for all of its contracts: even at the count limit, with
\* legs whose strikes the book reads as zero, and with no quote to judge by.
THEOREM BookCanAlwaysBeClosed ==
    ASSUME Limits.calibration = 100
    PROVE  Spec => []ExitsArePermitted
<1>1. IInv => ExitsArePermitted
  <2>. SUFFICES ASSUME IInv, mode # "HALT", ~killSwitch, NEW i \in Rows({"OPEN"})
                PROVE  LET v == Evaluate(Exit(i), policies[i].contracts, Context("exit"))
                       IN  v.decision = "APPROVE" /\ v.contracts = policies[i].contracts
    BY DEF ExitsArePermitted
  <2>. DEFINE s == policies[i].spread
              n == policies[i].contracts
              p == Exit(i)
              c == Context("exit")
  <2>1. /\ policies[i] \in Policy /\ policies # <<>>
        /\ equity \in Nat /\ equity > 0
    BY DEF IInv, TypeOK, Rows
  <2>2. /\ s.maxLoss \in Nat \ {0} /\ s.short \in Nat \ {0}
        /\ s.long \in Int /\ s.long < s.short /\ s.expiry \in Int
        /\ n \in Nat \ {0}
    BY <2>1, SpreadsAssumption, BoundsAssumption DEF Policy
  <2>3. /\ p.action = "CLOSE" /\ p.candidate = "exit" /\ p.hash = "exit"
        /\ p.maxLoss = s.maxLoss /\ p.short = s.short /\ p.legs = Legs(s)
        /\ p.netDelta = 0 /\ p.netVega = 0
        /\ p.faults = {"ILLIQUID", "INSUFFICIENT_EDGE"} /\ p.raising = {}
    BY DEF Exit, Opening
  <2>4. /\ c.open = {OpenPolicy(j) : j \in Book}
        /\ c.nav = equity /\ c.equity = equity /\ c.peak = equity
        /\ c.dailyPnl = 0 /\ c.readOk = (equity > 0)
        /\ c.mode = mode /\ c.killSwitch = killSwitch
        /\ c.session = "open" /\ c.stale = FALSE
        /\ c.netDelta = 0 /\ c.netVega = 0
        /\ c.candidates = {"exit"} /\ c.orderIds = {}
    BY DEF Context, Book
  <2>5. Cardinality(c.open) \in 0 .. Limits.policies
    <3>1. Cardinality(c.open) = Cardinality(Book) /\ IsFiniteSet(Book)
      BY ContextFigures, BookIsFinite DEF IInv, TypeOK
    <3>2. Cardinality(Book) <= Limits.policies /\ Cardinality(Book) \in Nat
      BY <3>1, FS_CardinalityType DEF IInv, OpenBookWithinLimits, Book
    <3>. HIDE DEF c
    <3>. QED
      BY <3>1, <3>2, LimitsAssumption
  <2>6. ~\E o \in c.open : Identical(o, p)
    BY <2>2, <2>3, <2>4 DEF Identical, OpenPolicy
  <2>7. SK004(p, c)
    <3>. DEFINE sold == [side |-> "SELL", right |-> "PUT", strike |-> s.short,
                         expiry |-> s.expiry]
                bought == [side |-> "BUY", right |-> "PUT", strike |-> s.long,
                           expiry |-> s.expiry]
    <3>1. /\ {leg \in p.legs : leg.side = "SELL"} = {sold}
          /\ {leg \in p.legs : leg.side = "BUY"} = {bought}
      BY <2>3 DEF Legs
    <3>2. Covers(bought, sold)
      BY <2>2 DEF Covers
    <3>3. p.maxLoss > 0
      BY <2>2, <2>3
    <3>. HIDE DEF sold, bought, s, n, p, c
    <3>. QED
      BY <3>1, <3>2, <3>3 DEF SK004
  <2>. HIDE DEF s, n, p, c
  <2>8. Closing(p)
    BY <2>3 DEF Closing
  <2>9. SK010(p, c) /\ SK022(p, c) /\ SK008(p, c) /\ SK009(p, c)
    <3>1. /\ Limits.dailyLoss \in Nat /\ Limits.drawdown \in Nat
          /\ Limits.delta \in Nat /\ Limits.vega \in Nat
      BY LimitsAssumption
    <3>2. equity * Limits.dailyLoss \in Nat /\ Limits.drawdown * equity \in Nat
          /\ Limits.delta * equity \in Nat /\ Limits.vega * equity \in Nat
      BY <2>1, <3>1
    <3>3. SK010(p, c)
      BY <2>4, <3>2 DEF SK010
    <3>4. SK022(p, c)
      BY <2>1, <2>4, <3>2 DEF SK022, DrawdownExceeds
    <3>5. Positive(c.nav) = equity
      BY <2>1, <2>4 DEF Positive
    <3>6. Magnitude(0 + 0) = 0
      BY DEF Magnitude
    <3>7. SK008(p, c) /\ SK009(p, c)
      BY <2>3, <2>4, <3>2, <3>5, <3>6 DEF SK008, SK009
    <3>. QED
      BY <3>3, <3>4, <3>7
  <2>10. SK017(p, c) /\ SK018(p, c) /\ SK019(p, c) /\ SK021(p, c) /\ SK023(p, c)
         /\ SK024(p, c) /\ SK025(p, c)
    BY <2>1, <2>3, <2>4, <2>6, <2>8 DEF SK017, SK018, SK019, SK021, SK023, SK024, SK025
  <2>11. SK001(p, c) /\ SK002(p, c) /\ SK003(p, c) /\ SK006(p, c) /\ SK007(p, c)
         /\ SK011(p, c) /\ SK012(p, c) /\ SK013(p, c) /\ SK014(p, c)
         /\ SK015(p, c) /\ SK016(p, c)
    BY <2>8 DEF SK001, SK002, SK003, SK006, SK007, SK011, SK012, SK013, SK014,
                SK015, SK016
  <2>12. SK005(p, c)
    BY <2>5, <2>8, LimitsAssumption DEF SK005
  <2>13. \A r \in RuleIds : Answers(p, c)[r]
    BY <2>7, <2>9, <2>10, <2>11, <2>12 DEF RuleIds, Answers
  <2>14. HardFailures(p, c) = {} /\ SoftFailures(p, c) = {}
    BY <2>3, <2>13, EveryRuleAnswers DEF HardFailures, SoftFailures, SoftRules, RuleIds
  <2>15. Permitted(p, n, c) = n /\ Positive(n) = n /\ SoftDivisor(p, c) = 1
    BY <2>2, <2>8, <2>14 DEF Permitted, Positive, SoftDivisor
  <2>16. Approved(p, n, c) = n
    <3>1. Min({n, n}) = n
      BY <2>2, MinOfTwo
    <3>2. (n * 100) \div (100 * 1) = n
      BY <2>2
    <3>. QED
      BY <2>15, <3>1, <3>2 DEF Approved
  <2>17. Failures(p, n, c) = {}
    BY <2>2, <2>14, <2>16 DEF Failures
  <2>. QED
    BY <2>3, <2>16, <2>17 DEF Evaluate, n, p, c
<1>. QED
  BY <1>1, PortfolioInductive, PTL

=============================================================================
