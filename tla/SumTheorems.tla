---------------------------- MODULE SumTheorems ----------------------------
(***************************************************************************)
(* Facts about SumFunctionOnSet, the sum of a function's values over a     *)
(* finite set, and about bounded sets of naturals.  The models add up      *)
(* amounts, shares, leases and tokens with it; their proofs need to know   *)
(* what one more element, one changed value or a larger set does to a sum. *)
(*                                                                         *)
(* Induction is stated over sets: the naturals, or the subsets of a finite *)
(* set, that have the property in question.  It follows from the least     *)
(* element of the set of counterexamples.                                  *)
(***************************************************************************)
EXTENDS Functions, FiniteSets, FiniteSetTheorems, TLAPS

-----------------------------------------------------------------------------
(* Least and greatest elements. *)

NatLess == {p \in Nat \X Nat : p[1] < p[2]}

(* The order of the naturals is well-founded. *)
LEMMA NatLessWellFounded == IsWellFoundedOn(NatLess, Nat)
  BY NatLessThanWellFounded, Zenon DEF OpToRel, NatLess

(* A nonempty set of naturals has a least element. *)
LEMMA LeastNatural ==
    ASSUME NEW T \in SUBSET Nat, T # {}
    PROVE  \E x \in T : \A y \in T : x <= y
  <1>1. PICK x \in T : \A y \in T : ~(<<y, x>> \in NatLess)
    BY Zenon, NatLessWellFounded, WFMin
  <1>2. \A y \in T : <<y, x>> \in NatLess <=> y < x
    BY Zenon DEF NatLess
  <1>3. \A y \in T : ~(y < x)
    BY Zenon, <1>1, <1>2
  <1> QED BY <1>3

(* A nonempty set of positions has a greatest element. *)
LEMMA GreatestPosition ==
    ASSUME NEW n \in Nat, NEW S \in SUBSET (1..n), S # {}
    PROVE  \E x \in S : \A y \in S : y <= x
  <1> DEFINE T == {m \in Nat : n - m \in S}
  <1>1. T \in SUBSET Nat /\ T # {}
    <2>1. PICK s \in S : TRUE
      BY Zenon
    <2>2. n - s \in Nat /\ n - (n - s) = s
      OBVIOUS
    <2> QED BY Zenon, <2>2
  <1>2. PICK t \in T : \A y \in T : t <= y
    BY Zenon, <1>1, LeastNatural
  <1>3. n - t \in S
    BY Zenon, <1>2
  <1>4. \A y \in S : n - y \in T
    <2> TAKE y \in S
    <2>1. n - y \in Nat /\ n - (n - y) = y
      OBVIOUS
    <2> QED BY Zenon, <2>1
  <1> QED BY <1>2, <1>3, <1>4

(* A set of naturals that holds 0 and the successor of each is everything. *)
LEMMA NaturalInduction ==
    ASSUME NEW G, 0 \in G, \A n \in Nat : n \in G => n + 1 \in G
    PROVE  \A n \in Nat : n \in G
  <1> SUFFICES ASSUME Nat \ G # {} PROVE FALSE
    BY Zenon
  <1>1. PICK n \in Nat \ G : \A m \in Nat \ G : n <= m
    BY Zenon, LeastNatural
  <1>2. n - 1 \in Nat /\ (n - 1) + 1 = n
    BY <1>1
  <1>3. n - 1 \in G
    BY <1>1, <1>2
  <1> QED BY Zenon, <1>1, <1>2, <1>3

(* Every subset of a finite set has a property that a set has whenever the *)
(* sets with one element less have it.                                     *)
LEMMA SubsetInduction ==
    ASSUME NEW S, IsFiniteSet(S), NEW G,
           \A s \in SUBSET S : (\A x \in s : s \ {x} \in G) => s \in G
    PROVE  \A s \in SUBSET S : s \in G
  <1> DEFINE Bad == {n \in Nat : \E s \in SUBSET S : Cardinality(s) = n /\ s \notin G}
  <1>1. \A s \in SUBSET S : IsFiniteSet(s) /\ Cardinality(s) \in Nat
    BY Zenon, FS_Subset, FS_CardinalityType
  <1>2. Bad = {}
    <2> SUFFICES ASSUME Bad # {} PROVE FALSE
      BY Zenon
    <2>1. PICK n \in Bad : \A m \in Bad : n <= m
      BY Zenon, LeastNatural
    <2>2. PICK s \in SUBSET S : Cardinality(s) = n /\ s \notin G
      BY Zenon, <2>1
    <2>3. PICK x \in s : s \ {x} \notin G
      BY Zenon, <2>2
    <2>4. Cardinality(s \ {x}) = n - 1 /\ s \ {x} \in SUBSET S
      BY Zenon, <1>1, <2>2, FS_RemoveElement
    <2>5. n - 1 \in Bad
      BY <1>1, <2>3, <2>4
    <2> QED BY <2>1, <2>5
  <1> QED BY Zenon, <1>1, <1>2

-----------------------------------------------------------------------------
(* The fold behind the sum. *)

Chosen(s) == CHOOSE x \in s : TRUE

Step(f, g, s) == IF s = {} THEN 0 ELSE f[Chosen(s)] + g[s \ {Chosen(s)}]

Iter(f, S) == CHOOSE g : g = [s \in SUBSET S |-> Step(f, g, s)]

Values(f, S) == \A x \in S : f[x] \in Int

(* The sum is the fold's recursive function at the whole set. *)
LEMMA SumIter ==
    ASSUME NEW f, NEW S
    PROVE  SumFunctionOnSet(f, S) = Iter(f, S)[S]
  BY Zenon DEF SumFunctionOnSet, FoldFunctionOnSet, MapThenFoldSet, Iter, Step, Chosen

(* The recursive equation up to subsets of n elements. *)
Upto(f, S, g, n) ==
    /\ g \in [SUBSET S -> Int]
    /\ \A s \in SUBSET S : Cardinality(s) <= n => g[s] = Step(f, g, s)

(* A function that satisfies the equation up to n gives one that satisfies *)
(* it up to n + 1.                                                         *)
LEMMA UptoStep ==
    ASSUME NEW f, NEW S, IsFiniteSet(S), Values(f, S), NEW g, NEW n \in Nat, Upto(f, S, g, n)
    PROVE  Upto(f, S, [s \in SUBSET S |-> Step(f, g, s)], n + 1)
  <1> DEFINE h == [s \in SUBSET S |-> Step(f, g, s)]
  <1>1. g \in [SUBSET S -> Int] /\ \A s \in SUBSET S : Cardinality(s) <= n => g[s] = Step(f, g, s)
    BY Zenon DEF Upto
  <1>2. ASSUME NEW s \in SUBSET S, s # {}
        PROVE  /\ Chosen(s) \in S /\ s \ {Chosen(s)} \in SUBSET S
               /\ Cardinality(s) \in Nat /\ Cardinality(s \ {Chosen(s)}) = Cardinality(s) - 1
    <2>1. Chosen(s) \in s /\ IsFiniteSet(s)
      BY Zenon, <1>2, FS_Subset DEF Chosen
    <2> QED BY Zenon, <2>1, FS_RemoveElement, FS_CardinalityType
  <1>3. ASSUME NEW s \in SUBSET S PROVE Step(f, g, s) \in Int
    <2>1. CASE s = {}
      BY <2>1 DEF Step
    <2>2. CASE s # {}
      <3>1. f[Chosen(s)] \in Int /\ g[s \ {Chosen(s)}] \in Int
        BY Zenon, <1>1, <1>2, <2>2 DEF Values
      <3> QED BY <2>2, <3>1 DEF Step
    <2> QED BY Zenon, <2>1, <2>2
  <1>4. h \in [SUBSET S -> Int]
    BY Zenon, <1>3
  <1>5. ASSUME NEW s \in SUBSET S, Cardinality(s) <= n + 1 PROVE h[s] = Step(f, h, s)
    <2>1. h[s] = Step(f, g, s)
      BY Zenon
    <2>2. CASE s = {}
      BY Zenon, <2>1, <2>2 DEF Step
    <2>3. CASE s # {}
      <3> DEFINE r == s \ {Chosen(s)}
      <3>1. r \in SUBSET S /\ Cardinality(r) <= n
        BY <1>2, <1>5, <2>3
      <3>2. g[r] = Step(f, g, r)
        BY Zenon, <1>1, <3>1
      <3>3. h[r] = g[r]
        BY Zenon, <3>1, <3>2
      <3> QED BY Zenon, <2>1, <2>3, <3>3 DEF Step
    <2> QED BY Zenon, <2>2, <2>3
  <1> QED BY Zenon, <1>4, <1>5 DEF Upto

(* The recursive function exists, so the fold's satisfies its equation.    *)
LEMMA IterEquation ==
    ASSUME NEW f, NEW S, IsFiniteSet(S), Values(f, S)
    PROVE  \A s \in SUBSET S : Iter(f, S)[s] = Step(f, Iter(f, S), s)
  <1> DEFINE G == {n \in Nat : \E g : Upto(f, S, g, n)}
  <1>1. 0 \in G
    <2> DEFINE g == [s \in SUBSET S |-> 0]
    <2>1. g \in [SUBSET S -> Int]
      OBVIOUS
    <2>2. ASSUME NEW s \in SUBSET S, Cardinality(s) <= 0 PROVE g[s] = Step(f, g, s)
      <3>1. IsFiniteSet(s) /\ Cardinality(s) \in Nat
        BY Zenon, FS_Subset, FS_CardinalityType
      <3>2. s = {}
        BY <2>2, <3>1, FS_EmptySet
      <3> QED BY Zenon, <3>2 DEF Step
    <2>3. Upto(f, S, g, 0)
      BY Zenon, <2>1, <2>2 DEF Upto
    <2> QED BY Zenon, <2>3
  <1>2. ASSUME NEW n \in Nat, n \in G PROVE n + 1 \in G
    <2>1. PICK g : Upto(f, S, g, n)
      BY Zenon, <1>2
    <2>2. Upto(f, S, [s \in SUBSET S |-> Step(f, g, s)], n + 1)
      BY Zenon, <2>1, UptoStep
    <2> QED BY <2>2
  <1>3. Cardinality(S) \in G
    <2> HIDE DEF G
    <2> QED BY Zenon, <1>1, <1>2, NaturalInduction, FS_CardinalityType
  <1>4. PICK g : Upto(f, S, g, Cardinality(S))
    BY Zenon, <1>3
  <1>5. \A s \in SUBSET S : g[s] = Step(f, g, s)
    BY Zenon, <1>4, FS_Subset DEF Upto
  <1>6. g \in [SUBSET S -> Int]
    BY Zenon, <1>4 DEF Upto
  <1>7. g = [s \in SUBSET S |-> Step(f, g, s)]
    BY Zenon, <1>5, <1>6
  <1>8. Iter(f, S) = [s \in SUBSET S |-> Step(f, Iter(f, S), s)]
    BY Zenon, <1>7 DEF Iter
  <1> QED BY Zenon, <1>8

(* The fold's function on a larger set agrees with the one on a subset.    *)
LEMMA IterRestrict ==
    ASSUME NEW f, NEW S, IsFiniteSet(S), Values(f, S), NEW U \in SUBSET S
    PROVE  Iter(f, S)[U] = SumFunctionOnSet(f, U)
  <1> DEFINE G == {s \in SUBSET U : Iter(f, S)[s] = Iter(f, U)[s]}
  <1>1. IsFiniteSet(U) /\ Values(f, U)
    BY Zenon, FS_Subset DEF Values
  <1>2. ASSUME NEW s \in SUBSET U, \A x \in s : s \ {x} \in G PROVE s \in G
    <2>1. /\ Iter(f, S)[s] = Step(f, Iter(f, S), s)
          /\ Iter(f, U)[s] = Step(f, Iter(f, U), s)
      BY Zenon, <1>1, IterEquation
    <2>2. s # {} => Iter(f, S)[s \ {Chosen(s)}] = Iter(f, U)[s \ {Chosen(s)}]
      BY Zenon, <1>2 DEF Chosen
    <2> QED BY Zenon, <2>1, <2>2 DEF Step
  <1>3. U \in G
    <2> HIDE DEF G
    <2> QED BY Zenon, <1>1, <1>2, SubsetInduction
  <1> QED BY Zenon, <1>3, SumIter

-----------------------------------------------------------------------------
(* Sums. *)

(* A sum over no element is zero. *)
LEMMA SumEmpty == ASSUME NEW f PROVE SumFunctionOnSet(f, {}) = 0
  <1>1. IsFiniteSet({}) /\ Values(f, {})
    BY Zenon, FS_EmptySet DEF Values
  <1>2. Iter(f, {})[{}] = Step(f, Iter(f, {}), {})
    BY Zenon, <1>1, IterEquation
  <1> QED BY Zenon, <1>2, SumIter DEF Step

(* A sum is one element's value and the sum over the others. *)
LEMMA SumChosen ==
    ASSUME NEW f, NEW S, IsFiniteSet(S), Values(f, S), S # {}
    PROVE  \E x \in S : SumFunctionOnSet(f, S) = f[x] + SumFunctionOnSet(f, S \ {x})
  <1>1. Iter(f, S)[S] = f[Chosen(S)] + Iter(f, S)[S \ {Chosen(S)}]
    BY IterEquation DEF Step
  <1>2. Iter(f, S)[S \ {Chosen(S)}] = SumFunctionOnSet(f, S \ {Chosen(S)})
    BY Zenon, IterRestrict
  <1>3. Chosen(S) \in S
    BY Zenon DEF Chosen
  <1> QED BY Zenon, <1>1, <1>2, <1>3, SumIter

(* A sum of integers is an integer. *)
LEMMA SumType ==
    ASSUME NEW f, NEW S, IsFiniteSet(S), Values(f, S)
    PROVE  SumFunctionOnSet(f, S) \in Int
  <1> DEFINE G == {s \in SUBSET S : SumFunctionOnSet(f, s) \in Int}
  <1>1. ASSUME NEW s \in SUBSET S, \A x \in s : s \ {x} \in G PROVE s \in G
    <2>1. CASE s = {}
      BY <2>1, SumEmpty
    <2>2. CASE s # {}
      <3>1. IsFiniteSet(s) /\ Values(f, s)
        BY Zenon, FS_Subset DEF Values
      <3>2. PICK x \in s : SumFunctionOnSet(f, s) = f[x] + SumFunctionOnSet(f, s \ {x})
        BY Zenon, <2>2, <3>1, SumChosen
      <3>3. f[x] \in Int /\ SumFunctionOnSet(f, s \ {x}) \in Int
        BY Zenon, <1>1 DEF Values
      <3> QED BY <3>2, <3>3
    <2> QED BY Zenon, <2>1, <2>2
  <1>2. S \in G
    <2>1. \A s \in SUBSET S : (\A x \in s : s \ {x} \in G) => s \in G
      BY Zenon, <1>1
    <2> HIDE DEF G
    <2>2. \A s \in SUBSET S : s \in G
      BY <2>1, SubsetInduction, Zenon
    <2> QED BY Zenon, <2>2
  <1> QED BY Zenon, <1>2

(* Whichever element is taken out, the sum loses its value. *)
LEMMA SumRemove ==
    ASSUME NEW f, NEW S, IsFiniteSet(S), Values(f, S), NEW e \in S
    PROVE  SumFunctionOnSet(f, S) = f[e] + SumFunctionOnSet(f, S \ {e})
  <1> DEFINE Splits(s, x) == SumFunctionOnSet(f, s) = f[x] + SumFunctionOnSet(f, s \ {x})
             G == {s \in SUBSET S : \A x \in s : Splits(s, x)}
  <1>1. \A s \in SUBSET S : IsFiniteSet(s) /\ Values(f, s)
    BY Zenon, FS_Subset DEF Values
  <1>2. ASSUME NEW s \in SUBSET S, \A x \in s : s \ {x} \in G, NEW x \in s PROVE Splits(s, x)
    <2>1. PICK y \in s : Splits(s, y)
      BY Zenon, <1>1, SumChosen
    <2>2. CASE x = y
      BY Zenon, <2>1, <2>2
    <2>3. CASE x # y
      <3>1. Splits(s \ {x}, y) /\ Splits(s \ {y}, x)
        BY Zenon, <1>2, <2>3
      <3>2. PICK u \in SUBSET S : u = (s \ {x}) \ {y} /\ u = (s \ {y}) \ {x}
        BY Zenon
      <3>3. /\ SumFunctionOnSet(f, s \ {x}) = f[y] + SumFunctionOnSet(f, u)
            /\ SumFunctionOnSet(f, s \ {y}) = f[x] + SumFunctionOnSet(f, u)
            /\ SumFunctionOnSet(f, s) = f[y] + SumFunctionOnSet(f, s \ {y})
        BY Zenon, <2>1, <3>1, <3>2
      <3>4. f[x] \in Int /\ f[y] \in Int /\ SumFunctionOnSet(f, u) \in Int
        BY Zenon, <1>1, SumType DEF Values
      <3> HIDE DEF G
      <3> QED BY <3>3, <3>4
    <2> QED BY Zenon, <2>2, <2>3
  <1>3. S \in G
    <2>1. \A s \in SUBSET S : (\A x \in s : s \ {x} \in G) => s \in G
      BY Zenon, <1>2
    <2> HIDE DEF G
    <2>2. \A s \in SUBSET S : s \in G
      BY <2>1, SubsetInduction, Zenon
    <2> QED BY Zenon, <2>2
  <1> QED BY Zenon, <1>3

(* One more element adds its value. *)
LEMMA SumAdd ==
    ASSUME NEW f, NEW S, NEW e, e \notin S, IsFiniteSet(S), Values(f, S \cup {e})
    PROVE  SumFunctionOnSet(f, S \cup {e}) = f[e] + SumFunctionOnSet(f, S)
  <1>1. IsFiniteSet(S \cup {e})
    BY Zenon, FS_AddElement
  <1>2. (S \cup {e}) \ {e} = S /\ e \in S \cup {e}
    BY Zenon
  <1>3. SumFunctionOnSet(f, S \cup {e}) = f[e] + SumFunctionOnSet(f, (S \cup {e}) \ {e})
    BY <1>1, <1>2, SumRemove
  <1> QED BY Zenon, <1>2, <1>3

(* Larger values give a larger sum. *)
LEMMA SumMonotone ==
    ASSUME NEW f, NEW g, NEW S, IsFiniteSet(S), Values(f, S), Values(g, S),
           \A x \in S : f[x] <= g[x]
    PROVE  SumFunctionOnSet(f, S) <= SumFunctionOnSet(g, S)
  <1> DEFINE G == {s \in SUBSET S : SumFunctionOnSet(f, s) <= SumFunctionOnSet(g, s)}
  <1>1. ASSUME NEW s \in SUBSET S, \A x \in s : s \ {x} \in G PROVE s \in G
    <2>1. CASE s = {}
      BY <2>1, SumEmpty
    <2>2. CASE s # {}
      <3>1. PICK x \in s : TRUE
        BY Zenon, <2>2
      <3>2. IsFiniteSet(s) /\ Values(f, s) /\ Values(g, s)
        BY Zenon, FS_Subset DEF Values
      <3>3. /\ SumFunctionOnSet(f, s) = f[x] + SumFunctionOnSet(f, s \ {x})
            /\ SumFunctionOnSet(g, s) = g[x] + SumFunctionOnSet(g, s \ {x})
        BY <3>2, SumRemove
      <3>4. IsFiniteSet(s \ {x}) /\ Values(f, s \ {x}) /\ Values(g, s \ {x})
        BY Zenon, <3>2, FS_RemoveElement DEF Values
      <3>5. /\ SumFunctionOnSet(f, s \ {x}) \in Int /\ SumFunctionOnSet(g, s \ {x}) \in Int
            /\ f[x] \in Int /\ g[x] \in Int /\ f[x] <= g[x]
        BY Zenon, <3>2, <3>4, SumType DEF Values
      <3>6. SumFunctionOnSet(f, s \ {x}) <= SumFunctionOnSet(g, s \ {x})
        BY Zenon, <1>1
      <3>7. SumFunctionOnSet(f, s) <= SumFunctionOnSet(g, s)
        BY <3>3, <3>5, <3>6
      <3> QED BY Zenon, <3>7
    <2> QED BY Zenon, <2>1, <2>2
  <1>2. S \in G
    <2>1. \A s \in SUBSET S : (\A x \in s : s \ {x} \in G) => s \in G
      BY Zenon, <1>1
    <2> HIDE DEF G
    <2>2. \A s \in SUBSET S : s \in G
      BY <2>1, SubsetInduction, Zenon
    <2> QED BY Zenon, <2>2
  <1> QED BY Zenon, <1>2

(* A sum depends only on the values at its elements. *)
LEMMA SumSame ==
    ASSUME NEW f, NEW g, NEW S, IsFiniteSet(S), Values(f, S), \A x \in S : f[x] = g[x]
    PROVE  SumFunctionOnSet(f, S) = SumFunctionOnSet(g, S)
  <1>1. Values(g, S) /\ \A x \in S : f[x] <= g[x] /\ g[x] <= f[x]
    BY DEF Values
  <1>2. /\ SumFunctionOnSet(f, S) <= SumFunctionOnSet(g, S)
        /\ SumFunctionOnSet(g, S) <= SumFunctionOnSet(f, S)
    BY Zenon, <1>1, SumMonotone
  <1>3. SumFunctionOnSet(f, S) \in Int /\ SumFunctionOnSet(g, S) \in Int
    BY Zenon, <1>1, SumType
  <1> QED BY <1>2, <1>3

(* A sum of zeros is zero. *)
LEMMA SumZero ==
    ASSUME NEW f, NEW S, IsFiniteSet(S), \A x \in S : f[x] = 0
    PROVE  SumFunctionOnSet(f, S) = 0
  <1> DEFINE G == {s \in SUBSET S : SumFunctionOnSet(f, s) = 0}
  <1>1. ASSUME NEW s \in SUBSET S, \A x \in s : s \ {x} \in G PROVE s \in G
    <2>1. CASE s = {}
      BY Zenon, <2>1, SumEmpty
    <2>2. CASE s # {}
      <3>1. IsFiniteSet(s) /\ Values(f, s)
        BY FS_Subset DEF Values
      <3>2. PICK x \in s : SumFunctionOnSet(f, s) = f[x] + SumFunctionOnSet(f, s \ {x})
        BY Zenon, <2>2, <3>1, SumChosen
      <3> QED BY <1>1, <3>2
    <2> QED BY Zenon, <2>1, <2>2
  <1>2. S \in G
    <2>1. \A s \in SUBSET S : (\A x \in s : s \ {x} \in G) => s \in G
      BY Zenon, <1>1
    <2> HIDE DEF G
    <2>2. \A s \in SUBSET S : s \in G
      BY <2>1, SubsetInduction, Zenon
    <2> QED BY Zenon, <2>2
  <1> QED BY Zenon, <1>2

(* A sum of naturals is a natural. *)
LEMMA SumNat ==
    ASSUME NEW f, NEW S, IsFiniteSet(S), \A x \in S : f[x] \in Nat
    PROVE  SumFunctionOnSet(f, S) \in Nat
  <1> DEFINE zero == [x \in S |-> 0]
  <1>1. Values(zero, S) /\ Values(f, S) /\ \A x \in S : zero[x] <= f[x] /\ zero[x] = 0
    BY DEF Values
  <1> HIDE DEF zero
  <1>2. SumFunctionOnSet(zero, S) <= SumFunctionOnSet(f, S)
    BY Zenon, <1>1, SumMonotone
  <1>3. SumFunctionOnSet(zero, S) = 0
    BY Zenon, <1>1, SumZero
  <1>4. SumFunctionOnSet(f, S) \in Int
    BY Zenon, <1>1, SumType
  <1> QED BY <1>2, <1>3, <1>4

(* Elements of value 0 add nothing. *)
LEMMA SumSupport ==
    ASSUME NEW f, NEW S, IsFiniteSet(S), Values(f, S), NEW T \in SUBSET S, \A x \in S \ T : f[x] = 0
    PROVE  SumFunctionOnSet(f, S) = SumFunctionOnSet(f, T)
  <1> DEFINE G == {s \in SUBSET (S \ T) : SumFunctionOnSet(f, T \cup s) = SumFunctionOnSet(f, T)}
  <1>1. IsFiniteSet(S \ T)
    BY Zenon, FS_Subset
  <1>2. ASSUME NEW s \in SUBSET (S \ T), \A x \in s : s \ {x} \in G PROVE s \in G
    <2>1. CASE s = {}
      <3>1. T \cup s = T
        BY Zenon, <2>1
      <3> QED BY Zenon, <3>1
    <2>2. CASE s # {}
      <3>1. PICK x \in s : TRUE
        BY Zenon, <2>2
      <3>2. T \cup s = (T \cup (s \ {x})) \cup {x} /\ x \notin T \cup (s \ {x}) /\ f[x] = 0
        BY Zenon, <3>1
      <3>3. IsFiniteSet(T \cup (s \ {x})) /\ Values(f, T \cup s)
        <4>1. T \cup (s \ {x}) \in SUBSET S /\ T \cup s \in SUBSET S
          BY Zenon, <3>1
        <4> QED BY Zenon, <4>1, FS_Subset DEF Values
      <3>4. SumFunctionOnSet(f, T \cup s) = f[x] + SumFunctionOnSet(f, T \cup (s \ {x}))
        BY Zenon, <3>2, <3>3, SumAdd
      <3>5. SumFunctionOnSet(f, T \cup (s \ {x})) = SumFunctionOnSet(f, T)
        BY Zenon, <1>2, <3>1
      <3>6. SumFunctionOnSet(f, T) \in Int
        <4>1. IsFiniteSet(T) /\ Values(f, T)
          BY Zenon, FS_Subset DEF Values
        <4> QED BY Zenon, <4>1, SumType
      <3> QED BY <3>2, <3>4, <3>5, <3>6
    <2> QED BY Zenon, <2>1, <2>2
  <1> HIDE DEF G
  <1>3. \A s \in SUBSET (S \ T) : s \in G
    <2>1. PICK R : R = S \ T
      BY Zenon
    <2>2. \A s \in SUBSET R : (\A x \in s : s \ {x} \in G) => s \in G
      BY Zenon, <1>2, <2>1
    <2>3. IsFiniteSet(R)
      BY Zenon, <1>1, <2>1
    <2>4. \A s \in SUBSET R : s \in G
      BY <2>2, <2>3, SubsetInduction, Zenon
    <2> QED BY Zenon, <2>1, <2>4
  <1>4. S \ T \in G
    BY Zenon, <1>3
  <1>5. T \cup (S \ T) = S
    BY Zenon
  <1> QED BY Zenon, <1>4, <1>5 DEF G

(* A part of a sum of naturals is no larger than the whole. *)
LEMMA SumSubset ==
    ASSUME NEW f, NEW S, IsFiniteSet(S), \A x \in S : f[x] \in Nat, NEW T \in SUBSET S
    PROVE  SumFunctionOnSet(f, T) <= SumFunctionOnSet(f, S)
  <1> DEFINE g == [x \in S |-> IF x \in T THEN f[x] ELSE 0]
  <1>1. /\ Values(f, S) /\ Values(g, S) /\ IsFiniteSet(T) /\ Values(f, T)
        /\ \A x \in S : g[x] <= f[x] /\ (x \notin T => g[x] = 0) /\ (x \in T => f[x] = g[x])
    BY FS_Subset DEF Values
  <1> HIDE DEF g
  <1>2. SumFunctionOnSet(g, S) = SumFunctionOnSet(g, T)
    BY Zenon, <1>1, SumSupport
  <1>3. SumFunctionOnSet(f, T) = SumFunctionOnSet(g, T)
    BY Zenon, <1>1, SumSame
  <1>4. SumFunctionOnSet(g, S) <= SumFunctionOnSet(f, S)
    BY Zenon, <1>1, SumMonotone
  <1> QED BY Zenon, <1>2, <1>3, <1>4
=============================================================================
