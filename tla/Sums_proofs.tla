---------------------------- MODULE Sums_proofs ----------------------------
(***************************************************************************)
(* SumOver(f) is a natural number for every natural-valued f with a finite *)
(* domain.  Both halves, that the recursive definition of SumTable has a   *)
(* solution and that its values are naturals, are inductions on the size   *)
(* of a subset; they are written as the choice of a smallest counterexample *)
(* in a well-founded relation, since no prover here takes the induction    *)
(* rule itself.                                                            *)
(***************************************************************************)
EXTENDS Sums, FiniteSets, FiniteSetTheorems, WellFoundedInduction, TLAPS

\* The equation that defines SumTable(f), for a table over the subsets in D.
Solves(f, D, g) ==
    g = [T \in D |-> IF T = {} THEN 0 ELSE f[Pick(T)] + g[T \ {Pick(T)}]]

UpTo(S, n) == {T \in SUBSET S : Cardinality(T) <= n}

\* Every non-empty set of naturals has a smallest element.
LEMMA LeastElement ==
    ASSUME NEW B, B \subseteq Nat, B # {}
    PROVE  \E n \in B : \A k \in B : n <= k
<1>1. IsWellFoundedOn(OpToRel(<, Nat), Nat)
    BY NatLessThanWellFounded
<1>2. \E x \in B : \A y \in B : ~(<<y, x>> \in OpToRel(<, Nat))
    BY <1>1, WFMin
<1>3. PICK x \in B : \A y \in B : ~(<<y, x>> \in OpToRel(<, Nat))
    BY <1>2
<1>4. \A y \in B : ~(y < x)
    BY <1>3 DEF OpToRel
<1>5. QED
    BY <1>4

\* The element picked from a set is one of its elements.
LEMMA PickIn ==
    ASSUME NEW S, S # {}
    PROVE  Pick(S) \in S
BY DEF Pick

\* Taking one element away from a finite set lowers its size by one.
LEMMA UpToRemove ==
    ASSUME NEW S, IsFiniteSet(S), NEW n \in Nat, NEW T \in UpTo(S, n), T # {}
    PROVE  /\ n > 0
           /\ T \ {Pick(T)} \in UpTo(S, n - 1)
           /\ Cardinality(T \ {Pick(T)}) = Cardinality(T) - 1
           /\ Cardinality(T) \in Nat
<1>1. T \subseteq S /\ Cardinality(T) <= n
    BY DEF UpTo
<1>2. IsFiniteSet(T)
    BY <1>1, FS_Subset
<1>3. Pick(T) \in T
    BY PickIn
<1>4. Cardinality(T \ {Pick(T)}) = Cardinality(T) - 1
    BY <1>2, <1>3, FS_RemoveElement
<1>5. Cardinality(T) \in Nat /\ Cardinality(T \ {Pick(T)}) \in Nat
    BY <1>2, FS_CardinalityType, FS_Subset
<1>6. QED
    BY <1>1, <1>4, <1>5 DEF UpTo

\* The defining equation has a solution over the subsets of every size.
LEMMA SolutionUpTo ==
    ASSUME NEW f, IsFiniteSet(DOMAIN f), NEW n \in Nat
    PROVE  \E g : Solves(f, UpTo(DOMAIN f, n), g)
<1> DEFINE S == DOMAIN f
           D(m) == UpTo(S, m)
           Bad == {m \in Nat : ~ \E g : Solves(f, D(m), g)}
<1>1. SUFFICES ASSUME Bad # {} PROVE FALSE
    OBVIOUS
<1>2. PICK m \in Bad : \A k \in Bad : m <= k
    BY <1>1, LeastElement
<1>3. CASE m = 0
    <2> DEFINE g == [T \in D(0) |-> 0]
    <2>1. ASSUME NEW T \in D(0), T # {} PROVE FALSE
        <3>1. 0 \in Nat /\ T \in UpTo(S, 0)
            BY <2>1
        <3>2. 0 > 0
            BY ONLY IsFiniteSet(S), <2>1, <3>1, UpToRemove
        <3>3. QED
            BY <3>2
    <2>2. g = [T \in D(0) |-> IF T = {} THEN 0 ELSE f[Pick(T)] + g[T \ {Pick(T)}]]
        BY <2>1
    <2>3. QED
        BY <1>2, <1>3, <2>2 DEF Solves
<1>4. CASE m # 0
    <2>1. m - 1 \in Nat /\ m - 1 \notin Bad
        BY <1>2, <1>4
    <2>2. PICK h : Solves(f, D(m - 1), h)
        BY <2>1
    <2> DEFINE g == [T \in D(m) |-> IF T = {} THEN 0 ELSE f[Pick(T)] + h[T \ {Pick(T)}]]
    <2>3. ASSUME NEW T \in D(m), T # {}
          PROVE  g[T \ {Pick(T)}] = h[T \ {Pick(T)}]
        <3> DEFINE U == T \ {Pick(T)}
        <3>1. U \in D(m - 1)
            BY <1>2, <2>3, UpToRemove
        <3>2. U \in D(m)
            BY <1>2, <2>1, <3>1, FS_CardinalityType, FS_Subset DEF UpTo
        <3>3. h[U] = IF U = {} THEN 0 ELSE f[Pick(U)] + h[U \ {Pick(U)}]
            BY <2>2, <3>1 DEF Solves
        <3>4. QED
            BY <3>2, <3>3
    <2>4. g = [T \in D(m) |-> IF T = {} THEN 0 ELSE f[Pick(T)] + g[T \ {Pick(T)}]]
        BY <2>3
    <2>5. QED
        BY <1>2, <2>4 DEF Solves
<1>5. QED
    BY <1>3, <1>4

\* SumTable(f) solves its defining equation.
LEMMA SumTableSolves ==
    ASSUME NEW f, IsFiniteSet(DOMAIN f)
    PROVE  Solves(f, SUBSET DOMAIN f, SumTable(f))
<1>1. UpTo(DOMAIN f, Cardinality(DOMAIN f)) = SUBSET DOMAIN f
    BY FS_Subset, FS_CardinalityType DEF UpTo
<1>2. \E g : Solves(f, SUBSET DOMAIN f, g)
    <2>1. Cardinality(DOMAIN f) \in Nat
        BY FS_CardinalityType
    <2>2. \E g : Solves(f, UpTo(DOMAIN f, Cardinality(DOMAIN f)), g)
        BY <2>1, SolutionUpTo
    <2>3. QED
        BY <1>1, <2>2
<1>3. SumTable(f) = CHOOSE g : g = [T \in SUBSET DOMAIN f |->
                                      IF T = {} THEN 0 ELSE f[Pick(T)] + g[T \ {Pick(T)}]]
    BY DEF SumTable
<1>4. QED
    BY <1>2, <1>3 DEF Solves

-----------------------------------------------------------------------------
(* Induction over the subsets of a finite set, for a property given as the *)
(* set of the subsets that have it.                                        *)

LEMMA SubsetInduction ==
    ASSUME NEW S, IsFiniteSet(S), NEW W,
           \A T \in SUBSET S : (\A x \in T : T \ {x} \in W) => T \in W
    PROVE  \A T \in SUBSET S : T \in W
<1> DEFINE Bad == {n \in Nat : \E T \in UpTo(S, n) : T \notin W}
<1>1. SUFFICES ASSUME NEW T \in SUBSET S, T \notin W PROVE FALSE
    OBVIOUS
<1>2. Cardinality(T) \in Nat /\ T \in UpTo(S, Cardinality(T))
    BY FS_Subset, FS_CardinalityType DEF UpTo
<1>3. PICK n \in Bad : \A k \in Bad : n <= k
    BY <1>1, <1>2, LeastElement
<1>4. PICK U \in UpTo(S, n) : U \notin W
    BY <1>3
<1>5. PICK x \in U : U \ {x} \notin W
    BY <1>4 DEF UpTo
<1>6. U \in SUBSET S /\ IsFiniteSet(U) /\ Cardinality(U) \in Nat /\ Cardinality(U) <= n
    BY <1>4, FS_Subset, FS_CardinalityType DEF UpTo
<1>7. Cardinality(U \ {x}) = Cardinality(U) - 1 /\ Cardinality(U \ {x}) \in Nat
    BY <1>5, <1>6, FS_RemoveElement, FS_Subset, FS_CardinalityType
<1>8. n - 1 \in Nat /\ U \ {x} \in UpTo(S, n - 1)
    BY <1>3, <1>6, <1>7 DEF UpTo
<1> QED
    BY <1>3, <1>5, <1>8

-----------------------------------------------------------------------------
(* Sums over the subsets of a domain.                                      *)

\* The equation of SumTable, at one subset.
LEMMA SumTableAt ==
    ASSUME NEW f, IsFiniteSet(DOMAIN f), NEW T \in SUBSET DOMAIN f
    PROVE  SumTable(f)[T] = IF T = {} THEN 0 ELSE f[Pick(T)] + SumTable(f)[T \ {Pick(T)}]
    BY SumTableSolves DEF Solves

IsSummable(f) == IsFiniteSet(DOMAIN f) /\ \A x \in DOMAIN f : f[x] \in Int

LEMMA SumTableInt ==
    ASSUME NEW f, IsSummable(f)
    PROVE  \A T \in SUBSET DOMAIN f : SumTable(f)[T] \in Int
<1> DEFINE W == {T \in SUBSET DOMAIN f : SumTable(f)[T] \in Int}
<1>1. ASSUME NEW T \in SUBSET DOMAIN f, \A x \in T : T \ {x} \in W PROVE T \in W
    <2>1. SumTable(f)[T] = IF T = {} THEN 0 ELSE f[Pick(T)] + SumTable(f)[T \ {Pick(T)}]
        BY SumTableAt DEF IsSummable
    <2>2. CASE T = {}
        BY <2>1, <2>2
    <2>3. CASE T # {}
        <3>1. Pick(T) \in T /\ f[Pick(T)] \in Int
            BY <2>3, PickIn DEF IsSummable
        <3>2. SumTable(f)[T \ {Pick(T)}] \in Int
            BY <1>1, <3>1
        <3> QED
            BY <2>1, <2>3, <3>1, <3>2
    <2> QED
        BY <2>2, <2>3
<1> HIDE DEF W
<1>2. \A T \in SUBSET DOMAIN f : T \in W
    BY <1>1, SubsetInduction DEF IsSummable
<1> QED
    BY <1>2 DEF W

\* Any element may be taken out first.
LEMMA SumTableRemove ==
    ASSUME NEW f, IsSummable(f)
    PROVE  \A T \in SUBSET DOMAIN f : \A x \in T :
              SumTable(f)[T] = f[x] + SumTable(f)[T \ {x}]
<1> DEFINE s == SumTable(f)
           W == {T \in SUBSET DOMAIN f : \A x \in T : s[T] = f[x] + s[T \ {x}]}
<1>1. ASSUME NEW T \in SUBSET DOMAIN f, \A x \in T : T \ {x} \in W PROVE T \in W
    <2> SUFFICES ASSUME NEW x \in T PROVE s[T] = f[x] + s[T \ {x}]
        OBVIOUS
    <2> DEFINE p == Pick(T)
    <2>1. p \in T /\ s[T] = f[p] + s[T \ {p}]
        BY PickIn, SumTableAt DEF IsSummable
    <2>2. CASE x = p
        BY <2>1, <2>2
    <2>3. CASE x # p
        <3> DEFINE rest == s[(T \ {x}) \ {p}]
        <3>1. s[T \ {p}] = f[x] + s[(T \ {p}) \ {x}]
            BY <1>1, <2>1, <2>3
        <3>2. s[T \ {x}] = f[p] + s[(T \ {x}) \ {p}]
            BY <1>1, <2>1, <2>3
        <3>3. (T \ {p}) \ {x} = (T \ {x}) \ {p}
            OBVIOUS
        <3>4. f[x] \in Int /\ f[p] \in Int /\ rest \in Int
            BY <2>1, SumTableInt DEF IsSummable
        <3>5. s[T \ {p}] = f[x] + rest /\ s[T \ {x}] = f[p] + rest
            BY <3>1, <3>2, <3>3
        <3> HIDE DEF p, s, rest
        <3> QED
            BY <2>1, <3>4, <3>5
    <2> QED
        BY <2>2, <2>3
<1> HIDE DEF W
<1>2. \A T \in SUBSET DOMAIN f : T \in W
    BY <1>1, SubsetInduction DEF IsSummable
<1> QED
    BY <1>2 DEF W

LEMMA SumTableEmpty ==
    ASSUME NEW f, IsSummable(f)
    PROVE  SumTable(f)[{}] = 0
    BY SumTableAt DEF IsSummable

\* A sum depends on the values summed alone.
LEMMA SumTableAgree ==
    ASSUME NEW f, IsSummable(f), NEW g, IsSummable(g),
           NEW S \in SUBSET (DOMAIN f \cap DOMAIN g), \A x \in S : f[x] = g[x]
    PROVE  SumTable(f)[S] = SumTable(g)[S]
<1> DEFINE W == {T \in SUBSET S : SumTable(f)[T] = SumTable(g)[T]}
<1>1. ASSUME NEW T \in SUBSET S, \A x \in T : T \ {x} \in W PROVE T \in W
    <2>1. CASE T = {}
        BY <2>1, SumTableEmpty
    <2>2. CASE T # {}
        <3>1. PICK x \in T : TRUE
            BY <2>2
        <3>2. SumTable(f)[T] = f[x] + SumTable(f)[T \ {x}]
            BY <3>1, SumTableRemove
        <3>3. SumTable(g)[T] = g[x] + SumTable(g)[T \ {x}]
            BY <3>1, SumTableRemove
        <3>4. f[x] = g[x] /\ SumTable(f)[T \ {x}] = SumTable(g)[T \ {x}]
            BY <1>1, <3>1
        <3> QED
            BY <3>2, <3>3, <3>4
    <2> QED
        BY <2>1, <2>2
<1> HIDE DEF W
<1>2. IsFiniteSet(S)
    BY FS_Subset DEF IsSummable
<1>3. \A T \in SUBSET S : T \in W
    BY <1>1, <1>2, SubsetInduction
<1> QED
    BY <1>3 DEF W

\* Sums of disjoint sets add up.
LEMMA SumTableUnion ==
    ASSUME NEW f, IsSummable(f), NEW A \in SUBSET DOMAIN f, NEW B \in SUBSET (DOMAIN f \ A)
    PROVE  SumTable(f)[A \union B] = SumTable(f)[A] + SumTable(f)[B]
<1> DEFINE s == SumTable(f)
           W == {T \in SUBSET B : s[A \union T] = s[A] + s[T]}
<1>1. ASSUME NEW T \in SUBSET B, \A x \in T : T \ {x} \in W PROVE T \in W
    <2>1. s[A] \in Int /\ s[{}] = 0
        BY SumTableInt, SumTableEmpty
    <2>2. CASE T = {}
        <3>1. A \union T = A
            BY <2>2
        <3> QED
            BY <2>1, <2>2, <3>1
    <2>3. CASE T # {}
        <3>1. PICK x \in T : TRUE
            BY <2>3
        <3> DEFINE rest == s[T \ {x}]
        <3>2. s[T] = f[x] + rest
            BY <3>1, SumTableRemove
        <3>3. s[A \union T] = f[x] + s[(A \union T) \ {x}]
            BY <3>1, SumTableRemove
        <3>4. (A \union T) \ {x} = A \union (T \ {x})
            BY <3>1
        <3>5. s[A \union (T \ {x})] = s[A] + rest
            BY <1>1, <3>1
        <3>6. f[x] \in Int /\ rest \in Int
            BY <3>1, SumTableInt DEF IsSummable
        <3>7. s[A \union T] = f[x] + (s[A] + rest)
            BY <3>3, <3>4, <3>5
        <3> HIDE DEF s, rest
        <3>8. s[A \union T] = s[A] + s[T]
            BY <2>1, <3>2, <3>6, <3>7
        <3> QED
            BY <3>8
    <2> QED
        BY <2>2, <2>3
<1> HIDE DEF W
<1>2. IsFiniteSet(B)
    BY FS_Subset DEF IsSummable
<1>3. \A T \in SUBSET B : T \in W
    BY <1>1, <1>2, SubsetInduction
<1> QED
    BY <1>3 DEF W

-----------------------------------------------------------------------------
(* Sums of functions.                                                      *)

LEMMA SumOverInt ==
    ASSUME NEW f, IsSummable(f)
    PROVE  SumOver(f) \in Int
    BY SumTableInt DEF SumOver

\* The sum over a part of a domain is the sum of the function cut down to it.
LEMMA SumOverPart ==
    ASSUME NEW f, IsSummable(f), NEW S \in SUBSET DOMAIN f
    PROVE  SumOver([x \in S |-> f[x]]) = SumTable(f)[S]
<1> DEFINE g == [x \in S |-> f[x]]
<1>1. DOMAIN g = S /\ IsSummable(g)
    BY FS_Subset DEF IsSummable
<1> HIDE DEF g
<1>2. \A x \in S : g[x] = f[x]
    BY DEF g
<1>3. SumTable(g)[S] = SumTable(f)[S]
    BY <1>1, <1>2, SumTableAgree
<1> QED
    BY <1>1, <1>3 DEF SumOver, g

\* One element apart from the others.
LEMMA SumOverSplit ==
    ASSUME NEW f, IsSummable(f), NEW x \in DOMAIN f
    PROVE  /\ SumOver(f) = f[x] + SumTable(f)[DOMAIN f \ {x}]
           /\ SumTable(f)[DOMAIN f \ {x}] \in Int
    BY SumTableRemove, SumTableInt DEF SumOver

\* A function that differs at one place has a sum that differs as much.
LEMMA SumOverChange ==
    ASSUME NEW f, IsSummable(f), NEW g, IsSummable(g), DOMAIN g = DOMAIN f,
           NEW x \in DOMAIN f, \A y \in DOMAIN f \ {x} : g[y] = f[y]
    PROVE  SumOver(g) = SumOver(f) + (g[x] - f[x])
<1> DEFINE rest == SumTable(f)[DOMAIN f \ {x}]
<1>1. SumOver(f) = f[x] + rest /\ rest \in Int
    BY SumOverSplit
<1>2. SumOver(g) = g[x] + SumTable(g)[DOMAIN f \ {x}]
    BY SumOverSplit
<1>3. SumTable(g)[DOMAIN f \ {x}] = rest
    BY SumTableAgree
<1>4. f[x] \in Int /\ g[x] \in Int
    BY DEF IsSummable
<1> HIDE DEF rest
<1> QED
    BY <1>1, <1>2, <1>3, <1>4

\* Functions with the same values have the same sum.
LEMMA SumOverSame ==
    ASSUME NEW f, IsSummable(f), NEW g, IsSummable(g), DOMAIN g = DOMAIN f,
           \A y \in DOMAIN f : g[y] = f[y]
    PROVE  SumOver(g) = SumOver(f)
    BY SumTableAgree DEF SumOver

\* Sums are compared value by value.
LEMMA SumTableLeq ==
    ASSUME NEW f, IsSummable(f), NEW g, IsSummable(g),
           NEW S \in SUBSET (DOMAIN f \cap DOMAIN g), \A x \in S : f[x] <= g[x]
    PROVE  SumTable(f)[S] <= SumTable(g)[S]
<1> DEFINE W == {T \in SUBSET S : SumTable(f)[T] <= SumTable(g)[T]}
<1>1. ASSUME NEW T \in SUBSET S, \A x \in T : T \ {x} \in W PROVE T \in W
    <2>1. CASE T = {}
        BY <2>1, SumTableEmpty
    <2>2. CASE T # {}
        <3>1. PICK x \in T : TRUE
            BY <2>2
        <3> DEFINE p == SumTable(f)[T \ {x}]
                   q == SumTable(g)[T \ {x}]
        <3>2. SumTable(f)[T] = f[x] + p
            BY <3>1, SumTableRemove
        <3>3. SumTable(g)[T] = g[x] + q
            BY <3>1, SumTableRemove
        <3>4. f[x] <= g[x] /\ p <= q
            BY <1>1, <3>1
        <3>5. f[x] \in Int /\ g[x] \in Int /\ p \in Int /\ q \in Int
            BY <3>1, SumTableInt DEF IsSummable
        <3> HIDE DEF p, q
        <3>6. SumTable(f)[T] <= SumTable(g)[T]
            BY <3>2, <3>3, <3>4, <3>5
        <3> QED
            BY <3>6
    <2> QED
        BY <2>1, <2>2
<1> HIDE DEF W
<1>2. IsFiniteSet(S)
    BY FS_Subset DEF IsSummable
<1>3. \A T \in SUBSET S : T \in W
    BY <1>1, <1>2, SubsetInduction
<1> QED
    BY <1>3 DEF W

\* A sum of naturals is a natural.
LEMMA SumTableNat ==
    ASSUME NEW f, IsFiniteSet(DOMAIN f), \A x \in DOMAIN f : f[x] \in Nat,
           NEW S \in SUBSET DOMAIN f
    PROVE  SumTable(f)[S] \in Nat
<1> DEFINE W == {T \in SUBSET S : SumTable(f)[T] \in Nat}
<1>1. IsSummable(f)
    BY DEF IsSummable
<1>2. ASSUME NEW T \in SUBSET S, \A x \in T : T \ {x} \in W PROVE T \in W
    <2>1. CASE T = {}
        BY <1>1, <2>1, SumTableEmpty
    <2>2. CASE T # {}
        <3>1. PICK x \in T : TRUE
            BY <2>2
        <3>2. SumTable(f)[T] = f[x] + SumTable(f)[T \ {x}]
            BY <1>1, <3>1, SumTableRemove
        <3>3. f[x] \in Nat /\ SumTable(f)[T \ {x}] \in Nat
            BY <1>2, <3>1
        <3> QED
            BY <3>2, <3>3
    <2> QED
        BY <2>1, <2>2
<1> HIDE DEF W
<1>3. IsFiniteSet(S)
    BY FS_Subset
<1>4. \A T \in SUBSET S : T \in W
    BY <1>2, <1>3, SubsetInduction
<1> QED
    BY <1>4 DEF W

\* The sum of naturals over a finite domain is a natural.
THEOREM SumOverNat ==
    ASSUME NEW f, IsFiniteSet(DOMAIN f), \A x \in DOMAIN f : f[x] \in Nat
    PROVE  SumOver(f) \in Nat
    BY SumTableNat DEF SumOver

\* The sum of the sums of two functions is the sum of their values' sums.
LEMMA SumOverPlus ==
    ASSUME NEW f, IsSummable(f), NEW g, IsSummable(g), NEW h, IsSummable(h),
           DOMAIN g = DOMAIN f, DOMAIN h = DOMAIN f,
           \A x \in DOMAIN f : h[x] = f[x] + g[x]
    PROVE  SumOver(h) = SumOver(f) + SumOver(g)
<1> DEFINE S == DOMAIN f
           W == {T \in SUBSET S : SumTable(h)[T] = SumTable(f)[T] + SumTable(g)[T]}
<1>1. ASSUME NEW T \in SUBSET S, \A x \in T : T \ {x} \in W PROVE T \in W
    <2>1. CASE T = {}
        BY <2>1, SumTableEmpty
    <2>2. CASE T # {}
        <3>1. PICK x \in T : TRUE
            BY <2>2
        <3> DEFINE p == SumTable(f)[T \ {x}]
                   q == SumTable(g)[T \ {x}]
        <3>2. SumTable(f)[T] = f[x] + p
            BY <3>1, SumTableRemove
        <3>3. SumTable(g)[T] = g[x] + q
            BY <3>1, SumTableRemove
        <3>4. SumTable(h)[T] = h[x] + SumTable(h)[T \ {x}]
            BY <3>1, SumTableRemove
        <3>5. h[x] = f[x] + g[x] /\ SumTable(h)[T \ {x}] = p + q
            BY <1>1, <3>1
        <3>6. f[x] \in Int /\ g[x] \in Int /\ p \in Int /\ q \in Int
            BY <3>1, SumTableInt DEF IsSummable
        <3> HIDE DEF p, q
        <3>7. SumTable(h)[T] = SumTable(f)[T] + SumTable(g)[T]
            BY <3>2, <3>3, <3>4, <3>5, <3>6
        <3> QED
            BY <3>7
    <2> QED
        BY <2>1, <2>2
<1> HIDE DEF W
<1>2. \A T \in SUBSET S : T \in W
    BY <1>1, SubsetInduction DEF IsSummable
<1> QED
    BY <1>2 DEF W, SumOver

\* A domain may be summed in parts, by a key of its elements.
LEMMA SumOverFibers ==
    ASSUME NEW f, IsSummable(f), NEW K, IsFiniteSet(K), NEW key \in [DOMAIN f -> K]
    PROVE  /\ IsSummable([k \in K |-> SumOver([x \in {y \in DOMAIN f : key[y] = k} |-> f[x]])])
           /\ SumOver([k \in K |-> SumOver([x \in {y \in DOMAIN f : key[y] = k} |-> f[x]])])
                = SumOver(f)
<1> DEFINE S == DOMAIN f
           s == SumTable(f)
           Of(T) == {y \in S : key[y] \in T}
           G == [k \in K |-> SumOver([x \in {y \in S : key[y] = k} |-> f[x]])]
           W == {T \in SUBSET K : SumTable(G)[T] = s[Of(T)]}
<1>1. \A k \in K : G[k] = s[Of({k})] /\ G[k] \in Int
    <2> TAKE k \in K
    <2>1. {y \in S : key[y] = k} \in SUBSET S /\ Of({k}) = {y \in S : key[y] = k}
        OBVIOUS
    <2> HIDE DEF Of
    <2>2. SumOver([x \in {y \in S : key[y] = k} |-> f[x]]) = s[{y \in S : key[y] = k}]
        BY <2>1, SumOverPart
    <2>3. s[Of({k})] \in Int
        BY <2>1, SumTableInt
    <2> QED
        BY <2>1, <2>2, <2>3
<1>2. IsSummable(G)
    BY <1>1 DEF IsSummable
<1> HIDE DEF G
<1>3. DOMAIN G = K
    BY DEF G
<1>4. ASSUME NEW T \in SUBSET K, \A k \in T : T \ {k} \in W PROVE T \in W
    <2>1. CASE T = {}
        <3>1. Of(T) = {}
            BY <2>1
        <3> QED
            BY <1>2, <2>1, <3>1, SumTableEmpty
    <2>2. CASE T # {}
        <3>1. PICK k \in T : TRUE
            BY <2>2
        <3>2. SumTable(G)[T] = G[k] + SumTable(G)[T \ {k}]
            BY <1>2, <1>3, <3>1, SumTableRemove
        <3>3. SumTable(G)[T \ {k}] = s[Of(T \ {k})]
            BY <1>4, <3>1
        <3>4. /\ Of({k}) \in SUBSET S /\ Of(T \ {k}) \in SUBSET (S \ Of({k}))
              /\ Of({k}) \union Of(T \ {k}) = Of(T)
            BY <3>1
        <3> HIDE DEF Of
        <3>5. s[Of({k}) \union Of(T \ {k})] = s[Of({k})] + s[Of(T \ {k})]
            BY <3>4, SumTableUnion
        <3>6. SumTable(G)[T] = s[Of(T)]
            BY <1>1, <3>1, <3>2, <3>3, <3>4, <3>5
        <3> QED
            BY <3>6
    <2> QED
        BY <2>1, <2>2
<1> HIDE DEF W
<1>5. \A T \in SUBSET K : T \in W
    BY <1>4, SubsetInduction
<1>6. SumTable(G)[K] = s[Of(K)] /\ Of(K) = S
    BY <1>5 DEF W
<1> HIDE DEF Of
<1> QED
    BY <1>2, <1>3, <1>6 DEF SumOver, G

\* A sum of zeros is zero.
LEMMA SumOverZero ==
    ASSUME NEW f, IsFiniteSet(DOMAIN f), \A x \in DOMAIN f : f[x] = 0
    PROVE  SumOver(f) = 0
<1> DEFINE W == {T \in SUBSET DOMAIN f : SumTable(f)[T] = 0}
<1>1. IsSummable(f)
    BY DEF IsSummable
<1>2. ASSUME NEW T \in SUBSET DOMAIN f, \A x \in T : T \ {x} \in W PROVE T \in W
    <2>1. CASE T = {}
        BY <1>1, <2>1, SumTableEmpty
    <2>2. CASE T # {}
        <3>1. PICK x \in T : TRUE
            BY <2>2
        <3>2. SumTable(f)[T] = f[x] + SumTable(f)[T \ {x}]
            BY <1>1, <3>1, SumTableRemove
        <3> QED
            BY <1>2, <3>1, <3>2
    <2> QED
        BY <2>1, <2>2
<1> HIDE DEF W
<1>3. \A T \in SUBSET DOMAIN f : T \in W
    BY <1>2, SubsetInduction
<1> QED
    BY <1>3 DEF W, SumOver

\* The sum over nothing is zero.
LEMMA SumOverEmpty ==
    ASSUME NEW f, DOMAIN f = {}
    PROVE  SumOver(f) = 0
<1>1. IsFiniteSet(DOMAIN f)
    BY FS_EmptySet
<1>2. Solves(f, SUBSET DOMAIN f, SumTable(f)) /\ DOMAIN f \in SUBSET DOMAIN f
    BY <1>1, SumTableSolves
<1>3. QED
    BY <1>2 DEF Solves, SumOver

\* The sum of a function with one argument, and with two.
LEMMA SumOverOne ==
    ASSUME NEW f, IsSummable(f), NEW a, DOMAIN f = {a}
    PROVE  SumOver(f) = f[a]
<1>1. SumOver(f) = f[a] + SumTable(f)[DOMAIN f \ {a}]
    BY SumOverSplit
<1>2. DOMAIN f \ {a} = {}
    OBVIOUS
<1>3. f[a] \in Int
    BY DEF IsSummable
<1>4. SumTable(f)[{}] = 0
    BY SumTableEmpty
<1>5. SumOver(f) = f[a] + 0
    BY <1>1, <1>2, <1>4
<1>6. QED
    BY <1>3, <1>5

LEMMA SumOverPair ==
    ASSUME NEW f, IsSummable(f), NEW a, NEW b, a # b, DOMAIN f = {a, b}
    PROVE  SumOver(f) = f[a] + f[b]
<1>1. SumOver(f) = f[a] + SumTable(f)[DOMAIN f \ {a}]
    BY SumOverSplit
<1>2. DOMAIN f \ {a} = {b} /\ {b} \ {b} = {}
    OBVIOUS
<1>3. SumTable(f)[{b}] = f[b] + SumTable(f)[{b} \ {b}]
    BY SumTableRemove
<1>4. f[a] \in Int /\ f[b] \in Int
    BY DEF IsSummable
<1>5. SumTable(f)[{}] = 0
    BY SumTableEmpty
<1>6. SumTable(f)[{b}] = f[b] + 0
    BY <1>2, <1>3, <1>5
<1>7. SumOver(f) = f[a] + (f[b] + 0)
    BY <1>1, <1>2, <1>6
<1>8. QED
    BY <1>4, <1>7

\* The sum of f over the places that key puts in group k.
GroupSum(f, key, k) == SumOver([x \in {y \in DOMAIN f : key[y] = k} |-> f[x]])

\* Functions whose sums agree on every group of their domain have equal sums.
LEMMA SumOverFiberwise ==
    ASSUME NEW f, IsSummable(f), NEW g, IsSummable(g), DOMAIN g = DOMAIN f,
           NEW K, IsFiniteSet(K), NEW key \in [DOMAIN f -> K],
           \A k \in K : GroupSum(g, key, k) = GroupSum(f, key, k)
    PROVE  SumOver(g) = SumOver(f)
<1> DEFINE F == [k \in K |-> SumOver([x \in {y \in DOMAIN f : key[y] = k} |-> f[x]])]
           G == [k \in K |-> SumOver([x \in {y \in DOMAIN g : key[y] = k} |-> g[x]])]
<1>1. F = G
    BY DEF GroupSum
<1>2. SumOver(F) = SumOver(f)
    BY SumOverFibers
<1>3. key \in [DOMAIN g -> K]
    OBVIOUS
<1>4. SumOver(G) = SumOver(g)
    BY <1>3, SumOverFibers
<1> HIDE DEF F, G
<1>5. QED
    BY <1>1, <1>2, <1>4

\* Taking amounts from some places and adding each to a place of its own leaves
\* the sum as it was.
LEMMA SumOverTransfer ==
    ASSUME NEW f, IsSummable(f), NEW g, IsSummable(g), DOMAIN g = DOMAIN f,
           NEW P \in SUBSET DOMAIN f, NEW to \in [P -> DOMAIN f \ P], NEW n \in [P -> Int],
           \A x, y \in P : to[x] = to[y] => x = y,
           \A x \in P : g[x] = f[x] - n[x] /\ g[to[x]] = f[to[x]] + n[x],
           \A x \in DOMAIN f \ P : (\A y \in P : to[y] # x) => g[x] = f[x]
    PROVE  SumOver(g) = SumOver(f)
<1> DEFINE S == DOMAIN f
           from(x) == CHOOSE y \in P : to[y] = x
           key == [x \in S |-> IF \E y \in P : to[y] = x THEN from(x) ELSE x]
           Fiber(k) == {y \in S : key[y] = k}
           Part(h, k) == SumOver([x \in Fiber(k) |-> h[x]])
<1>1. key \in [S -> S] /\ IsFiniteSet(S)
    BY DEF IsSummable
<1>2. \A x \in S : f[x] \in Int /\ g[x] \in Int
    BY DEF IsSummable
<1>3. ASSUME NEW h, DOMAIN h = S, \A x \in S : h[x] \in Int, NEW k \in S
      PROVE  IsSummable([x \in Fiber(k) |-> h[x]])
    <2>1. IsFiniteSet(Fiber(k))
        BY <1>1, FS_Subset
    <2>2. QED
        BY <1>3, <2>1 DEF IsSummable
<1>4. ASSUME NEW k \in S PROVE Part(g, k) = Part(f, k)
    <2> DEFINE pf == [x \in Fiber(k) |-> f[x]]
               pg == [x \in Fiber(k) |-> g[x]]
    <2>1. IsSummable(pf) /\ IsSummable(pg) /\ DOMAIN pf = Fiber(k) /\ DOMAIN pg = Fiber(k)
        BY <1>2, <1>3
    <2>2. CASE k \in P
        <3>1. to[k] \in S /\ to[k] \notin P /\ k # to[k] /\ n[k] \in Int
            BY <2>2
        <3>2. \A y \in P : to[y] # k
            BY <2>2
        <3>3. \A x \in S : (\E y \in P : to[y] = x) => from(x) \in P /\ to[from(x)] = x
            OBVIOUS
        <3>4. key[k] = k
            BY <3>2
        <3>5. key[to[k]] = k
            BY <2>2, <3>1, <3>3
        <3>6. ASSUME NEW x \in Fiber(k) PROVE x \in {k, to[k]}
            BY <3>3, <3>6
        <3>7. Fiber(k) = {k, to[k]}
            BY <2>2, <3>1, <3>4, <3>5, <3>6
        <3>8. SumOver(pf) = pf[k] + pf[to[k]] /\ SumOver(pg) = pg[k] + pg[to[k]]
            <4> HIDE DEF pf, pg, Fiber
            <4>1. k # to[k] /\ DOMAIN pf = {k, to[k]} /\ DOMAIN pg = {k, to[k]}
                BY <2>1, <3>1, <3>7
            <4>2. QED
                BY <2>1, <4>1, SumOverPair
        <3>9. /\ pf[k] = f[k] /\ pf[to[k]] = f[to[k]]
              /\ pg[k] = f[k] - n[k] /\ pg[to[k]] = f[to[k]] + n[k]
            BY <2>2, <3>7
        <3>10. f[k] \in Int /\ f[to[k]] \in Int
            BY <1>2, <3>1
        <3> HIDE DEF pf, pg
        <3>11. SumOver(pf) = SumOver(pg)
            BY <3>1, <3>8, <3>9, <3>10
        <3>12. QED
            BY <3>11 DEF pf, pg
    <2>3. CASE k \notin P
        <3>1. \A x \in S : (\E y \in P : to[y] = x) => from(x) \in P
            OBVIOUS
        <3>2. ASSUME NEW x \in Fiber(k) PROVE x = k /\ \A y \in P : to[y] # x
            BY <2>3, <3>1, <3>2
        <3>3. \A x \in Fiber(k) : pg[x] = pf[x]
            BY <2>3, <3>2
        <3> HIDE DEF pf, pg, Fiber
        <3>4. SumOver(pg) = SumOver(pf)
            BY <2>1, <3>3, SumOverSame
        <3>5. QED
            BY <3>4 DEF pf, pg
    <2>4. QED
        BY <2>2, <2>3
<1> HIDE DEF key
<1>5. key \in [DOMAIN f -> DOMAIN f] /\ DOMAIN g = DOMAIN f /\ IsFiniteSet(DOMAIN f)
    BY <1>1
<1>6. \A k \in DOMAIN f : GroupSum(g, key, k) = GroupSum(f, key, k)
    BY <1>4 DEF GroupSum
<1>7. QED
    BY <1>5, <1>6, SumOverFiberwise

\* What is zero outside a set sums to what it is on the set.
LEMMA SumOverSupport ==
    ASSUME NEW f, IsSummable(f), NEW L \in SUBSET DOMAIN f,
           \A x \in DOMAIN f \ L : f[x] = 0
    PROVE  SumOver(f) = SumOver([x \in L |-> f[x]])
<1> DEFINE R == DOMAIN f \ L
<1>1. R \in SUBSET DOMAIN f /\ L \union R = DOMAIN f /\ IsFiniteSet(R)
    BY FS_Subset DEF IsSummable
<1>2. \A x \in R : f[x] = 0
    OBVIOUS
<1>3. R \in SUBSET (DOMAIN f \ L)
    OBVIOUS
<1> HIDE DEF R
<1>4. SumOver([x \in L |-> f[x]]) = SumTable(f)[L]
    BY SumOverPart
<1>5. SumOver([x \in R |-> f[x]]) = SumTable(f)[R]
    BY <1>1, SumOverPart
<1>6. SumOver([x \in R |-> f[x]]) = 0
    BY <1>1, <1>2, SumOverZero
<1>7. SumTable(f)[L \union R] = SumTable(f)[L] + SumTable(f)[R]
    BY <1>3, SumTableUnion
<1>8. SumTable(f)[L] \in Int
    BY SumTableInt
<1>9. QED
    BY <1>1, <1>4, <1>5, <1>6, <1>7, <1>8 DEF SumOver

\* Ones add up to the size of the domain.
LEMMA SumOverOnes ==
    ASSUME NEW f, IsFiniteSet(DOMAIN f), \A x \in DOMAIN f : f[x] = 1
    PROVE  SumOver(f) = Cardinality(DOMAIN f)
<1> DEFINE S == DOMAIN f
           W == {T \in SUBSET S : SumTable(f)[T] = Cardinality(T)}
<1>1. IsSummable(f)
    BY DEF IsSummable
<1>2. ASSUME NEW T \in SUBSET S, \A x \in T : T \ {x} \in W PROVE T \in W
    <2>1. CASE T = {}
        <3>1. SumTable(f)[{}] = 0
            BY <1>1, SumTableEmpty
        <3>2. Cardinality({}) = 0
            BY FS_EmptySet
        <3>3. QED
            BY <2>1, <3>1, <3>2
    <2>2. CASE T # {}
        <3>1. PICK x \in T : TRUE
            BY <2>2
        <3>2. SumTable(f)[T \ {x}] = Cardinality(T \ {x})
            BY <1>2
        <3>3. SumTable(f)[T] = f[x] + SumTable(f)[T \ {x}]
            BY <1>1, SumTableRemove
        <3>4. IsFiniteSet(T)
            BY FS_Subset
        <3>5. Cardinality(T \ {x}) = Cardinality(T) - 1 /\ Cardinality(T) \in Nat
            BY <3>4, FS_RemoveElement, FS_CardinalityType
        <3>6. f[x] = 1
            OBVIOUS
        <3>7. SumTable(f)[T] = 1 + (Cardinality(T) - 1)
            BY <3>2, <3>3, <3>5, <3>6
        <3>8. QED
            BY <3>5, <3>7
    <2>3. QED
        BY <2>1, <2>2
<1> HIDE DEF W
<1>3. \A T \in SUBSET S : T \in W
    BY <1>2, SubsetInduction
<1>4. S \in W
    BY <1>3
<1>5. QED
    BY <1>4 DEF W, SumOver

-----------------------------------------------------------------------------
(* Sums over parts of a domain *)

LEMMA SumInInt ==
    ASSUME NEW f, IsSummable(f), NEW S \in SUBSET DOMAIN f
    PROVE  SumIn(f, S) \in Int
BY SumTableInt DEF SumIn

LEMMA SumInNat ==
    ASSUME NEW f, IsSummable(f), NEW S \in SUBSET DOMAIN f, \A x \in S : f[x] \in Nat
    PROVE  SumIn(f, S) \in Nat
<1> DEFINE g == [x \in S |-> f[x]]
<1>1. IsFiniteSet(S)
    BY FS_Subset DEF IsSummable
<1>2. SumOver(g) \in Nat
    BY <1>1, SumOverNat
<1>3. QED
    BY <1>2, SumOverPart DEF SumIn

LEMMA SumInSame ==
    ASSUME NEW f, IsSummable(f), NEW g, IsSummable(g),
           NEW S, S \subseteq DOMAIN f, S \subseteq DOMAIN g, \A x \in S : f[x] = g[x]
    PROVE  SumIn(f, S) = SumIn(g, S)
<1>1. S \in SUBSET (DOMAIN f \cap DOMAIN g)
    OBVIOUS
<1>2. QED
    BY <1>1, SumTableAgree DEF SumIn

\* A part and the rest.
LEMMA SumInSplit ==
    ASSUME NEW f, IsSummable(f), NEW S \in SUBSET DOMAIN f, NEW A \in SUBSET S
    PROVE  SumIn(f, S) = SumIn(f, A) + SumIn(f, S \ A)
<1>1. A \in SUBSET DOMAIN f /\ (S \ A) \in SUBSET (DOMAIN f \ A) /\ A \union (S \ A) = S
    OBVIOUS
<1>2. SumTable(f)[A \union (S \ A)] = SumTable(f)[A] + SumTable(f)[S \ A]
    BY <1>1, SumTableUnion
<1>3. QED
    BY <1>1, <1>2 DEF SumIn

LEMMA SumInPlus ==
    ASSUME NEW f, IsSummable(f), NEW g, IsSummable(g), NEW h, IsSummable(h),
           NEW S, S \subseteq DOMAIN f, S \subseteq DOMAIN g, S \subseteq DOMAIN h,
           \A x \in S : h[x] = f[x] + g[x]
    PROVE  SumIn(h, S) = SumIn(f, S) + SumIn(g, S)
<1> DEFINE f1 == [x \in S |-> f[x]]
           g1 == [x \in S |-> g[x]]
           h1 == [x \in S |-> h[x]]
<1>1. SumOver(f1) = SumIn(f, S) /\ SumOver(g1) = SumIn(g, S) /\ SumOver(h1) = SumIn(h, S)
    BY SumOverPart DEF SumIn
<1>2. IsFiniteSet(S)
    BY FS_Subset DEF IsSummable
<1>3. IsSummable(f1) /\ IsSummable(g1) /\ IsSummable(h1)
    BY <1>2 DEF IsSummable
<1>4. DOMAIN f1 = S /\ DOMAIN g1 = S /\ DOMAIN h1 = S /\ \A x \in S : h1[x] = f1[x] + g1[x]
    OBVIOUS
<1> HIDE DEF f1, g1, h1
<1>5. SumOver(h1) = SumOver(f1) + SumOver(g1)
    BY <1>3, <1>4, SumOverPlus
<1>6. QED
    BY <1>1, <1>5

LEMMA SumInLeq ==
    ASSUME NEW f, IsSummable(f), NEW g, IsSummable(g),
           NEW S, S \subseteq DOMAIN f, S \subseteq DOMAIN g, \A x \in S : f[x] <= g[x]
    PROVE  SumIn(f, S) <= SumIn(g, S)
<1>1. S \in SUBSET (DOMAIN f \cap DOMAIN g)
    OBVIOUS
<1>2. QED
    BY <1>1, SumTableLeq DEF SumIn

\* A part of a sum of naturals, and one of its values, is no more than the sum.
LEMMA SumInPart ==
    ASSUME NEW f, IsSummable(f), NEW S \in SUBSET DOMAIN f, NEW A \in SUBSET S,
           \A x \in S : f[x] \in Nat
    PROVE  SumIn(f, A) <= SumIn(f, S)
<1>1. SumIn(f, S) = SumIn(f, A) + SumIn(f, S \ A)
    BY SumInSplit
<1>2. A \in SUBSET DOMAIN f /\ (S \ A) \in SUBSET DOMAIN f
    OBVIOUS
<1>3. SumIn(f, A) \in Int /\ SumIn(f, S \ A) \in Nat
    BY <1>2, SumInInt, SumInNat
<1>4. QED
    BY <1>1, <1>3

LEMMA SumInOne ==
    ASSUME NEW f, IsSummable(f), NEW S \in SUBSET DOMAIN f, NEW x \in S,
           \A y \in S : f[y] \in Nat
    PROVE  f[x] <= SumIn(f, S)
<1>1. SumTable(f)[S] = f[x] + SumTable(f)[S \ {x}]
    BY SumTableRemove
<1>2. (S \ {x}) \in SUBSET DOMAIN f /\ \A y \in S \ {x} : f[y] \in Nat
    OBVIOUS
<1>3. SumIn(f, S \ {x}) \in Nat
    BY <1>2, SumInNat
<1>4. QED
    BY <1>1, <1>3 DEF SumIn

\* The values of a function on a finite set are finitely many.
LEMMA FiniteImage ==
    ASSUME NEW S, IsFiniteSet(S), NEW key
    PROVE  IsFiniteSet({key[x] : x \in S})
<1> DEFINE T == {key[x] : x \in S}
           h == [x \in S |-> key[x]]
<1>1. h \in Surjection(S, T)
    BY DEF Surjection
<1>2. QED
    BY <1>1, FS_Surjection

\* However rows are grouped by a key, the groups' sums add up to the sum of all.
LEMMA GroupsAddUp ==
    ASSUME NEW f, IsSummable(f), NEW S \in SUBSET DOMAIN f, NEW K, IsFiniteSet(K), NEW key,
           \A x \in S : key[x] \in K
    PROVE  /\ IsSummable([k \in K |-> SumIn(f, {x \in S : key[x] = k})])
           /\ SumOver([k \in K |-> SumIn(f, {x \in S : key[x] = k})]) = SumIn(f, S)
<1> DEFINE g == [x \in S |-> f[x]]
           kept == [x \in S |-> key[x]]
           F == [k \in K |-> SumOver([x \in {y \in DOMAIN g : kept[y] = k} |-> g[x]])]
           G == [k \in K |-> SumIn(f, {x \in S : key[x] = k})]
<1>1. IsFiniteSet(S)
    BY FS_Subset DEF IsSummable
<1>2. IsSummable(g) /\ DOMAIN g = S
    BY <1>1 DEF IsSummable
<1>3. kept \in [DOMAIN g -> K]
    OBVIOUS
<1>4. SumOver(g) = SumIn(f, S)
    BY SumOverPart DEF SumIn
<1>5. ASSUME NEW k \in K PROVE F[k] = G[k]
    <2> DEFINE P == {x \in S : key[x] = k}
    <2>1. {y \in DOMAIN g : kept[y] = k} = P
        OBVIOUS
    <2>2. [x \in P |-> g[x]] = [x \in P |-> f[x]]
        OBVIOUS
    <2>3. P \in SUBSET DOMAIN f
        OBVIOUS
    <2>4. SumOver([x \in P |-> f[x]]) = SumIn(f, P)
        BY <2>3, SumOverPart DEF SumIn
    <2>5. QED
        BY <2>1, <2>2, <2>4
<1>6. F = G
    BY <1>5
<1>7. IsSummable(F) /\ SumOver(F) = SumOver(g)
    <2> HIDE DEF g, kept
    <2>1. QED
        BY <1>2, <1>3, SumOverFibers
<1>8. QED
    BY <1>4, <1>6, <1>7

LEMMA GroupsOfKeys ==
    ASSUME NEW f, IsSummable(f), NEW S \in SUBSET DOMAIN f, NEW key
    PROVE  SumOver([k \in {key[x] : x \in S} |-> SumIn(f, {x \in S : key[x] = k})]) = SumIn(f, S)
<1>1. IsFiniteSet(S)
    BY FS_Subset DEF IsSummable
<1>2. IsFiniteSet({key[x] : x \in S})
    BY <1>1, FiniteImage
<1>3. QED
    BY <1>2, GroupsAddUp

LEMMA SumInSingle ==
    ASSUME NEW f, IsSummable(f), NEW x \in DOMAIN f
    PROVE  SumIn(f, {x}) = f[x]
<1>1. SumTable(f)[{x}] = f[x] + SumTable(f)[{x} \ {x}]
    BY SumTableRemove
<1>2. {x} \ {x} = {} /\ f[x] \in Int
    BY DEF IsSummable
<1>3. SumTable(f)[{}] = 0
    BY SumTableEmpty
<1>4. QED
    BY <1>1, <1>2, <1>3 DEF SumIn

\* The same values under other names have the same sum.
LEMMA SumOverRenamed ==
    ASSUME NEW f, IsSummable(f), NEW g, IsSummable(g), NEW to \in [DOMAIN f -> DOMAIN g],
           \A x, y \in DOMAIN f : to[x] = to[y] => x = y,
           \A y \in DOMAIN g : \E x \in DOMAIN f : to[x] = y,
           \A x \in DOMAIN f : g[to[x]] = f[x]
    PROVE  SumOver(g) = SumOver(f)
<1> DEFINE S == DOMAIN f
           K == DOMAIN g
           G == [k \in K |-> SumIn(f, {x \in S : to[x] = k})]
<1>1. IsFiniteSet(K) /\ S \in SUBSET DOMAIN f /\ \A x \in S : to[x] \in K
    BY DEF IsSummable
<1>2. IsSummable(G) /\ SumOver(G) = SumIn(f, S)
    BY <1>1, GroupsAddUp
<1>3. ASSUME NEW k \in K PROVE G[k] = g[k]
    <2>1. PICK x \in S : to[x] = k
        OBVIOUS
    <2>2. {y \in S : to[y] = k} = {x}
        BY <2>1
    <2>3. SumIn(f, {x}) = f[x]
        BY SumInSingle
    <2>4. QED
        BY <2>1, <2>2, <2>3
<1>4. DOMAIN G = DOMAIN g
    OBVIOUS
<1> HIDE DEF G
<1>5. SumOver(G) = SumOver(g)
    BY <1>2, <1>3, <1>4, SumOverSame
<1>6. QED
    BY <1>2, <1>5 DEF SumIn, SumOver

LEMMA Distributes == \A i, j, k \in Int : i * j \in Int /\ i * (j + k) = i * j + i * k
OBVIOUS

IsNear(f, g, a, b, e) == \A x \in DOMAIN f : a * f[x] - b * g[x] <= e /\ b * g[x] - a * f[x] <= e

\* Values near in proportion have sums as near for each of them.
LEMMA SumsNear ==
    ASSUME NEW f, IsSummable(f), NEW g, IsSummable(g), DOMAIN g = DOMAIN f,
           NEW a \in Int, NEW b \in Int, NEW e \in Nat, IsNear(f, g, a, b, e)
    PROVE  /\ a * SumOver(f) - b * SumOver(g) <= e * Cardinality(DOMAIN f)
           /\ b * SumOver(g) - a * SumOver(f) <= e * Cardinality(DOMAIN f)
<1> DEFINE S == DOMAIN f
           W == {T \in SUBSET S :
                    /\ a * SumTable(f)[T] - b * SumTable(g)[T] <= e * Cardinality(T)
                    /\ b * SumTable(g)[T] - a * SumTable(f)[T] <= e * Cardinality(T)}
<1>1. IsFiniteSet(S)
    BY DEF IsSummable
<1>2. ASSUME NEW T \in SUBSET S, \A x \in T : T \ {x} \in W PROVE T \in W
    <2>1. CASE T = {}
        <3>1. SumTable(f)[T] = 0 /\ SumTable(g)[T] = 0 /\ Cardinality(T) = 0
            BY <2>1, SumTableEmpty, FS_EmptySet
        <3>2. QED
            BY <3>1
    <2>2. CASE T # {}
        <3>1. PICK x \in T : TRUE
            BY <2>2
        <3>2. /\ SumTable(f)[T] = f[x] + SumTable(f)[T \ {x}]
              /\ SumTable(g)[T] = g[x] + SumTable(g)[T \ {x}]
            BY <3>1, SumTableRemove
        <3>3. IsFiniteSet(T)
            BY <1>1, FS_Subset
        <3>4. Cardinality(T) \in Nat /\ Cardinality(T \ {x}) = Cardinality(T) - 1
            BY <3>1, <3>3, FS_RemoveElement, FS_CardinalityType
        <3>5. PICK m \in Int : m = Cardinality(T \ {x}) /\ Cardinality(T) = m + 1
            BY <3>4
        <3>6. PICK p \in Int, q \in Int : p = SumTable(f)[T \ {x}] /\ q = SumTable(g)[T \ {x}]
            BY <3>1, SumTableInt
        <3>7. PICK y \in Int, z \in Int : y = f[x] /\ z = g[x] /\ a * y - b * z <= e /\ b * z - a * y <= e
            BY <3>1 DEF IsSummable, IsNear
        <3>8. a * p - b * q <= e * m /\ b * q - a * p <= e * m
            BY <1>2, <3>1, <3>5, <3>6
        <3>9. /\ a * (y + p) = a * y + a * p /\ b * (z + q) = b * z + b * q
              /\ e * (m + 1) = e * m + e
            <4>1. y \in Int /\ z \in Int /\ p \in Int /\ q \in Int /\ m \in Int /\ 1 \in Int /\ e \in Int
                BY <3>5, <3>6, <3>7
            <4>2. a * (y + p) = a * y + a * p
                BY <4>1, Distributes, ZenonT(40)
            <4>3. b * (z + q) = b * z + b * q
                BY <4>1, Distributes, ZenonT(40)
            <4>4. e * (m + 1) = e * m + e * 1
                BY <4>1, Distributes, ZenonT(40)
            <4>5. QED
                BY <4>2, <4>3, <4>4
        <3>10. PICK ay \in Int, ap \in Int, bz \in Int, bq \in Int, em \in Int :
                  ay = a * y /\ ap = a * p /\ bz = b * z /\ bq = b * q /\ em = e * m
            <4>1. y \in Int /\ z \in Int /\ p \in Int /\ q \in Int /\ m \in Int /\ e \in Int
                BY <3>5, <3>6, <3>7
            <4>2. a * y \in Int /\ a * p \in Int /\ b * z \in Int /\ b * q \in Int /\ e * m \in Int
                BY <4>1, Distributes, ZenonT(40)
            <4>3. QED
                BY <4>2, ZenonT(40)
        <3>11. /\ (ay + ap) - (bz + bq) <= em + e /\ (bz + bq) - (ay + ap) <= em + e
            BY <3>7, <3>8, <3>10
        <3>12. /\ a * (y + p) - b * (z + q) <= e * (m + 1)
               /\ b * (z + q) - a * (y + p) <= e * (m + 1)
            BY <3>9, <3>10, <3>11
        <3>13. QED
            BY <3>2, <3>5, <3>6, <3>7, <3>12
    <2>3. QED
        BY <2>1, <2>2
<1> HIDE DEF W
<1>3. \A T \in SUBSET S : T \in W
    BY <1>1, <1>2, SubsetInduction
<1>4. QED
    BY <1>3 DEF W, SumOver

\* A part's sum changes by what one of its values changes.
LEMMA SumInChange ==
    ASSUME NEW f, IsSummable(f), NEW g, IsSummable(g), NEW S, S \subseteq DOMAIN f,
           S \subseteq DOMAIN g, NEW x \in S, \A y \in S \ {x} : g[y] = f[y]
    PROVE  SumIn(g, S) = SumIn(f, S) + (g[x] - f[x])
<1>1. SumTable(f)[S] = f[x] + SumTable(f)[S \ {x}]
    BY SumTableRemove
<1>2. SumTable(g)[S] = g[x] + SumTable(g)[S \ {x}]
    BY SumTableRemove
<1>3. SumIn(g, S \ {x}) = SumIn(f, S \ {x})
    <2>1. S \ {x} \subseteq DOMAIN f /\ S \ {x} \subseteq DOMAIN g
        OBVIOUS
    <2>2. QED
        BY <2>1, SumInSame
<1>4. f[x] \in Int /\ g[x] \in Int /\ SumTable(f)[S \ {x}] \in Int
    BY SumTableInt DEF IsSummable
<1>5. QED
    BY <1>1, <1>2, <1>3, <1>4 DEF SumIn
=============================================================================
