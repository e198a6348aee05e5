------------------------------ MODULE LedgerProofs ------------------------------
(* For any coins, amounts, promises and crashes: money is neither lost nor made inside the wallet. *)
(* What a coin is worth is spread over tables: of coins, refresh groups, recoup groups, purchases.  *)
(* Lemmas about sums come first, then those about amounts in such tables, then those about the      *)
(* functions of the model that write them, then the steps of the wallet.                         *)
EXTENDS WalletProofs, Functions, WellFoundedInduction

-----------------------------------------------------------------------------
(* Sums over finite sets, as the fold of the module Functions defines them.      *)
(* The fold is a recursive function on the subsets of a set; a well-founded       *)
(* choice of a smallest subset stands for an induction over them.               *)

(* A nonempty set of natural numbers has a least one. *)
LEMMA LeastNatural ==
    ASSUME NEW T \in SUBSET Nat, T # {}
    PROVE  \E n \in T : \A m \in T : n <= m
<1>. DEFINE R == {ss \in Nat \X Nat : ss[1] < ss[2]}
<1>1. IsWellFoundedOn({ss \in Nat \X Nat : ss[1] < ss[2]}, Nat)
    BY NatLessThanWellFounded, Zenon DEF OpToRel
<1>2. PICK x \in T : \A y \in T : ~(<<y, x>> \in R)
    <2>1. IsWellFoundedOn(R, Nat)
        BY <1>1
    <2>. HIDE DEF R
    <2>. QED
        BY <2>1, WFMin
<1>3. ASSUME NEW y \in T PROVE x <= y
    <2>1. ~(<<y, x>> \in R) /\ <<y, x>> \in Nat \X Nat
        BY <1>2
    <2>. QED
        BY <2>1
<1>. QED
    BY <1>3

(* Among subsets of a finite set there is a smallest one. *)
LEMMA SmallestSubset ==
    ASSUME NEW S, IsFiniteSet(S), NEW B \in SUBSET (SUBSET S), B # {}
    PROVE  \E T \in B : \A U \in B : U \subseteq T => U = T
<1>. DEFINE N == {Cardinality(T) : T \in B}
<1>1. \A T \in B : IsFiniteSet(T) /\ Cardinality(T) \in Nat
    BY FS_Subset, FS_CardinalityType
<1>2. PICK n \in N : \A m \in N : n <= m
    <2>1. N \in SUBSET Nat /\ N # {}
        BY <1>1
    <2>. HIDE DEF N
    <2>. QED
        BY <2>1, LeastNatural
<1>3. PICK T \in B : Cardinality(T) = n
    OBVIOUS
<1>4. ASSUME NEW U \in B, U \subseteq T PROVE U = T
    <2>1. Cardinality(T) <= Cardinality(U)
        BY <1>2, <1>3
    <2>. QED
        BY <1>1, <1>4, <2>1, FS_Subset
<1>. QED
    BY <1>4

-----------------------------------------------------------------------------
(* The function that a sum unfolds: what it is for each subset of S. *)
Unfolded(g, f, s) ==
    IF s = {} THEN 0 ELSE f[CHOOSE x \in s : TRUE] + g[s \ {CHOOSE x \in s : TRUE}]
IsIter(g, f, S) == g = [s \in SUBSET S |-> IF s = {} THEN 0 ELSE LET x == CHOOSE x \in s : TRUE IN f[x] + g[s \ {x}]]
TheIter(f, S) == CHOOSE g : IsIter(g, f, S)

(* The function satisfies its recursive definition. *)
LEMMA IterStep ==
    ASSUME NEW g, NEW f, NEW S
    PROVE  IsIter(g, f, S) <=> g = [s \in SUBSET S |-> Unfolded(g, f, s)]
BY DEF IsIter, Unfolded

(* CHOOSE picks an element of a set that has one. *)
LEMMA ChosenIn == ASSUME NEW s, s # {} PROVE (CHOOSE x \in s : TRUE) \in s
OBVIOUS

(* Functions that are the same on S unfold to the same sums. *)
LEMMA IterUnique ==
    ASSUME NEW S, IsFiniteSet(S), NEW f, NEW g, NEW e, NEW h, IsIter(g, f, S), IsIter(h, e, S),
           \A x \in S : f[x] = e[x]
    PROVE  g = h
<1>1. g = [s \in SUBSET S |-> Unfolded(g, f, s)] /\ h = [s \in SUBSET S |-> Unfolded(h, e, s)]
    BY IterStep
<1>. DEFINE B == {s \in SUBSET S : g[s] # h[s]}
<1>2. SUFFICES B = {}
    BY <1>1, Zenon
<1>3. SUFFICES ASSUME B # {} PROVE FALSE
    OBVIOUS
<1>4. PICK T \in B : \A U \in B : U \subseteq T => U = T
    <2>1. B \in SUBSET (SUBSET S)
        OBVIOUS
    <2>. HIDE DEF B
    <2>. QED
        BY <1>3, <2>1, SmallestSubset
<1>5. g[T] = Unfolded(g, f, T) /\ h[T] = Unfolded(h, e, T)
    BY <1>1
<1>6. CASE T = {}
    BY <1>5, <1>6, <1>4 DEF Unfolded
<1>7. CASE T # {}
    <2>. DEFINE x == CHOOSE x \in T : TRUE
    <2>1. x \in T
        BY <1>7
    <2>2. T \ {x} \notin B
        BY <2>1, <1>4
    <2>3. g[T \ {x}] = h[T \ {x}]
        BY <2>2
    <2>4. f[x] = e[x]
        BY <2>1
    <2>5. Unfolded(g, f, T) = f[x] + g[T \ {x}] /\ Unfolded(h, e, T) = e[x] + h[T \ {x}]
        BY <1>7 DEF Unfolded
    <2>. QED
        BY <2>3, <2>4, <2>5, <1>5, <1>4
<1>. QED
    BY <1>6, <1>7

(* The sums of the subsets of S hold those of the subsets of a smaller set. *)
LEMMA IterRestricted ==
    ASSUME NEW S, NEW f, NEW g, IsIter(g, f, S), NEW U \in SUBSET S
    PROVE  IsIter([s \in SUBSET U |-> g[s]], f, U)
<1>. DEFINE h == [s \in SUBSET U |-> g[s]]
<1>1. g = [s \in SUBSET S |-> Unfolded(g, f, s)]
    BY IterStep
<1>2. \A s \in SUBSET U : Unfolded(g, f, s) = Unfolded(h, f, s)
    <2>. TAKE s \in SUBSET U
    <2>1. s # {} => s \ {CHOOSE x \in s : TRUE} \in SUBSET U
        OBVIOUS
    <2>2. s # {} => h[s \ {CHOOSE x \in s : TRUE}] = g[s \ {CHOOSE x \in s : TRUE}]
        BY <2>1
    <2>. QED
        BY <2>2 DEF Unfolded
<1>3. \A s \in SUBSET U : g[s] = Unfolded(g, f, s)
    BY <1>1
<1>4. h = [s \in SUBSET U |-> Unfolded(h, f, s)]
    BY <1>2, <1>3, Zenon
<1>. QED
    BY <1>4, IterStep

(* There are such sums for every finite set. *)
LEMMA IterExists ==
    ASSUME NEW S, IsFiniteSet(S), NEW f
    PROVE  IsIter(TheIter(f, S), f, S)
<1>. DEFINE B == {s \in SUBSET S : ~IsIter(TheIter(f, s), f, s)}
<1>1. SUFFICES ASSUME B # {} PROVE FALSE
    OBVIOUS
<1>2. PICK T \in B : \A U \in B : U \subseteq T => U = T
    <2>1. B \in SUBSET (SUBSET S)
        OBVIOUS
    <2>. HIDE DEF B
    <2>. QED
        BY <1>1, <2>1, SmallestSubset
<1>. DEFINE A(s) == TheIter(f, s)[s]
<1>. DEFINE x == CHOOSE x \in T : TRUE
<1>. DEFINE h == [s \in SUBSET T |-> IF s = {} THEN 0
                    ELSE f[CHOOSE y \in s : TRUE] + A(s \ {CHOOSE y \in s : TRUE})]
<1>3. \A s \in SUBSET T : s # T => IsIter(TheIter(f, s), f, s)
    BY <1>2
<1>4. \A s \in SUBSET T : IsFiniteSet(s)
    BY FS_Subset
<1>5. ASSUME NEW s \in SUBSET T, s # T PROVE A(s) = h[s]
    <2>1. PICK g : g = TheIter(f, s) /\ IsIter(g, f, s)
        BY <1>3, <1>5
    <2>2. A(s) = Unfolded(g, f, s)
        <3>1. g = [r \in SUBSET s |-> Unfolded(g, f, r)]
            BY <2>1, IterStep
        <3>2. g[s] = Unfolded(g, f, s)
            BY <3>1
        <3>. QED
            BY <2>1, <3>2
    <2>3. CASE s = {}
        BY <2>2, <2>3 DEF Unfolded
    <2>4. CASE s # {}
        <3>. DEFINE y == CHOOSE y \in s : TRUE
                    r == s \ {y}
        <3>1. y \in s /\ r \in SUBSET T /\ r # T /\ r \in SUBSET s
            BY <2>4
        <3>2. IsIter(TheIter(f, r), f, r)
            BY <3>1, <1>3
        <3>3. IsIter([q \in SUBSET r |-> g[q]], f, r)
            BY <2>1, <3>1, IterRestricted
        <3>4. TheIter(f, r) = [q \in SUBSET r |-> g[q]]
            <4>1. IsFiniteSet(r)
                BY <3>1, <1>4
            <4>. HIDE DEF r
            <4>. QED
                BY <3>2, <3>3, <4>1, IterUnique
        <3>5. A(r) = g[r]
            BY <3>4
        <3>6. Unfolded(g, f, s) = f[y] + g[r]
            BY <2>4 DEF Unfolded
        <3>7. h[s] = f[y] + A(r)
            BY <2>4
        <3>. QED
            BY <2>2, <3>5, <3>6, <3>7
    <2>. QED
        BY <2>3, <2>4
<1>6. ASSUME NEW s \in SUBSET T PROVE h[s] = Unfolded(h, f, s)
    <2>1. CASE s = {}
        BY <2>1 DEF Unfolded
    <2>2. CASE s # {}
        <3>. DEFINE y == CHOOSE y \in s : TRUE
                    r == s \ {y}
        <3>1. y \in s /\ r \in SUBSET T /\ r # T
            BY <2>2
        <3>2. A(r) = h[r]
            BY <3>1, <1>5
        <3>3. h[s] = f[y] + A(r)
            BY <2>2
        <3>4. Unfolded(h, f, s) = f[y] + h[r]
            BY <2>2 DEF Unfolded
        <3>. QED
            BY <3>2, <3>3, <3>4
    <2>. QED
        BY <2>1, <2>2
<1>7. h = [s \in SUBSET T |-> Unfolded(h, f, s)]
    <2>1. h = [s \in SUBSET T |-> h[s]]
        OBVIOUS
    <2>2. PICK k : k = h
        OBVIOUS
    <2>3. /\ k = [s \in SUBSET T |-> k[s]]
          /\ \A s \in SUBSET T : k[s] = Unfolded(k, f, s)
        <3>. HIDE DEF h
        <3>. QED
            BY <2>1, <2>2, <1>6
    <2>4. k = [s \in SUBSET T |-> Unfolded(k, f, s)]
        BY <2>3, Zenon
    <2>. QED
        BY <2>2, <2>4
<1>8. \E k : IsIter(k, f, T)
    <2>1. PICK k : k = h
        OBVIOUS
    <2>2. k = [s \in SUBSET T |-> Unfolded(k, f, s)]
        BY <2>1, <1>7
    <2>. QED
        BY <2>2, IterStep
<1>9. IsIter(TheIter(f, T), f, T)
    BY <1>8, Zenon DEF TheIter
<1>. QED
    BY <1>2, <1>9

-----------------------------------------------------------------------------
(* Sums over a finite set. *)
SumOn(f, S) == SumFunctionOnSet(f, S)

(* A fold is what its sums say of the whole set. *)
LEMMA SumIter == ASSUME NEW f, NEW S PROVE SumOn(f, S) = TheIter(f, S)[S]
BY DEF SumOn, SumFunctionOnSet, FoldFunctionOnSet, MapThenFoldSet, TheIter, IsIter

(* A sum depends on the summands only. *)
LEMMA SumSame ==
    ASSUME NEW S, IsFiniteSet(S), NEW f, NEW e, \A x \in S : f[x] = e[x]
    PROVE  SumOn(f, S) = SumOn(e, S)
<1>1. IsIter(TheIter(f, S), f, S) /\ IsIter(TheIter(e, S), e, S)
    BY IterExists
<1>2. TheIter(f, S) = TheIter(e, S)
    BY <1>1, IterUnique
<1>. QED
    BY <1>2, SumIter

(* The sum of nothing is zero. *)
LEMMA SumEmpty == ASSUME NEW f PROVE SumOn(f, {}) = 0
<1>1. IsFiniteSet({})
    BY FS_EmptySet
<1>2. PICK g : g = TheIter(f, {}) /\ IsIter(g, f, {})
    BY <1>1, IterExists
<1>3. g = [s \in SUBSET {} |-> Unfolded(g, f, s)]
    BY <1>2, IterStep
<1>4. g[{}] = Unfolded(g, f, {})
    BY <1>3
<1>. QED
    BY <1>2, <1>4, SumIter DEF Unfolded

(* A sum is unfolded at the element that CHOOSE picks. *)
LEMMA SumChosen ==
    ASSUME NEW S, IsFiniteSet(S), NEW f, S # {}
    PROVE  LET x == CHOOSE x \in S : TRUE IN SumOn(f, S) = f[x] + SumOn(f, S \ {x})
<1>. DEFINE x == CHOOSE x \in S : TRUE
            T == S \ {x}
<1>1. PICK g : g = TheIter(f, S) /\ IsIter(g, f, S)
    BY IterExists
<1>2. g[S] = Unfolded(g, f, S)
    <2>1. g = [s \in SUBSET S |-> Unfolded(g, f, s)]
        BY <1>1, IterStep
    <2>. QED
        BY <2>1
<1>3. g[S] = f[x] + g[T]
    BY <1>2 DEF Unfolded
<1>4. IsIter([q \in SUBSET T |-> g[q]], f, T)
    <2>1. T \in SUBSET S
        OBVIOUS
    <2>. HIDE DEF T
    <2>. QED
        BY <1>1, <2>1, IterRestricted
<1>5. IsFiniteSet(T)
    BY FS_Subset
<1>6. TheIter(f, T) = [q \in SUBSET T |-> g[q]]
    <2>1. IsIter(TheIter(f, T), f, T)
        BY <1>5, IterExists
    <2>. HIDE DEF T
    <2>. QED
        BY <2>1, <1>4, <1>5, IterUnique
<1>7. g[T] = SumOn(f, T)
    BY <1>6, SumIter
<1>. QED
    BY <1>1, <1>3, <1>7, SumIter

(* Sums of integers are integers. *)
LEMMA SumInt ==
    ASSUME NEW S, IsFiniteSet(S), NEW f, \A x \in S : f[x] \in Int
    PROVE  SumOn(f, S) \in Int
<1>. DEFINE B == {s \in SUBSET S : SumOn(f, s) \notin Int}
<1>1. SUFFICES ASSUME B # {} PROVE FALSE
    OBVIOUS
<1>2. PICK T \in B : \A U \in B : U \subseteq T => U = T
    <2>1. B \in SUBSET (SUBSET S)
        OBVIOUS
    <2>. HIDE DEF B
    <2>. QED
        BY <1>1, <2>1, SmallestSubset
<1>3. CASE T = {}
    BY <1>2, <1>3, SumEmpty
<1>4. CASE T # {}
    <2>. DEFINE x == CHOOSE x \in T : TRUE
    <2>1. x \in T /\ T \ {x} \in SUBSET S /\ T \ {x} # T
        BY <1>4
    <2>2. SumOn(f, T \ {x}) \in Int
        BY <2>1, <1>2
    <2>3. IsFiniteSet(T)
        BY FS_Subset
    <2>4. SumOn(f, T) = f[x] + SumOn(f, T \ {x})
        BY <2>3, <1>4, SumChosen
    <2>5. f[x] \in Int
        BY <2>1
    <2>. QED
        BY <2>2, <2>4, <2>5, <1>2
<1>. QED
    BY <1>3, <1>4

(* A sum is unfolded at any element: the order does not matter. *)
LEMMA SumPick ==
    ASSUME NEW S, IsFiniteSet(S), NEW f, \A y \in S : f[y] \in Int, NEW x \in S
    PROVE  SumOn(f, S) = f[x] + SumOn(f, S \ {x})
<1>. DEFINE B == {s \in SUBSET S : \E z \in s : SumOn(f, s) # f[z] + SumOn(f, s \ {z})}
<1>1. SUFFICES ASSUME B # {} PROVE FALSE
    OBVIOUS
<1>2. PICK T \in B : \A U \in B : U \subseteq T => U = T
    <2>1. B \in SUBSET (SUBSET S)
        OBVIOUS
    <2>. HIDE DEF B
    <2>. QED
        BY <1>1, <2>1, SmallestSubset
<1>3. PICK z \in T : SumOn(f, T) # f[z] + SumOn(f, T \ {z})
    BY <1>2
<1>4. PICK y \in T : SumOn(f, T) = f[y] + SumOn(f, T \ {y})
    <2>1. IsFiniteSet(T) /\ T # {}
        BY FS_Subset
    <2>. QED
        BY <2>1, SumChosen
<1>5. y # z
    BY <1>3, <1>4
<1>6. \A s \in SUBSET S : SumOn(f, s) \in Int
    BY FS_Subset, SumInt
<1>7. \A s \in SUBSET T : \A w \in s : s # T => SumOn(f, s) = f[w] + SumOn(f, s \ {w})
    BY <1>2
<1>8. SumOn(f, T \ {y}) = f[z] + SumOn(f, T \ {y, z})
    <2>1. T \ {y} \in SUBSET T /\ z \in T \ {y} /\ T \ {y} # T /\ (T \ {y}) \ {z} = T \ {y, z}
        BY <1>5
    <2>. QED
        BY <2>1, <1>7
<1>9. SumOn(f, T \ {z}) = f[y] + SumOn(f, T \ {y, z})
    <2>1. T \ {z} \in SUBSET T /\ y \in T \ {z} /\ T \ {z} # T /\ (T \ {z}) \ {y} = T \ {y, z}
        BY <1>5
    <2>. QED
        BY <2>1, <1>7
<1>10. f[y] \in Int /\ f[z] \in Int /\ SumOn(f, T \ {y, z}) \in Int
    <2>1. T \ {y, z} \in SUBSET S
        OBVIOUS
    <2>. QED
        BY <2>1, <1>6
<1>. QED
    BY <1>3, <1>4, <1>8, <1>9, <1>10

(* Two sums that differ at one place. *)
LEMMA SumChanged ==
    ASSUME NEW S, IsFiniteSet(S), NEW f, NEW e, \A y \in S : f[y] \in Int /\ e[y] \in Int,
           NEW x \in S, \A y \in S \ {x} : f[y] = e[y]
    PROVE  SumOn(e, S) = SumOn(f, S) - f[x] + e[x]
<1>1. IsFiniteSet(S \ {x})
    BY FS_Subset
<1>2. SumOn(f, S) = f[x] + SumOn(f, S \ {x}) /\ SumOn(e, S) = e[x] + SumOn(e, S \ {x})
    BY SumPick
<1>3. SumOn(f, S \ {x}) = SumOn(e, S \ {x})
    BY <1>1, SumSame
<1>4. SumOn(f, S \ {x}) \in Int /\ f[x] \in Int /\ e[x] \in Int
    BY <1>1, SumInt
<1>. QED
    BY <1>2, <1>3, <1>4

(* Another summand. *)
LEMMA SumAdded ==
    ASSUME NEW S, IsFiniteSet(S), NEW f, NEW e, \A y \in S : f[y] \in Int,
           NEW x, x \notin S, e[x] \in Int, \A y \in S : f[y] = e[y]
    PROVE  SumOn(e, S \cup {x}) = SumOn(f, S) + e[x]
<1>. PICK T : T = S \cup {x}
    OBVIOUS
<1>1. IsFiniteSet(T) /\ T \ {x} = S /\ x \in T /\ \A y \in T : e[y] \in Int
    <2>1. IsFiniteSet(T)
        BY FS_AddElement
    <2>. QED
        BY <2>1
<1>2. SumOn(e, T) = e[x] + SumOn(e, S)
    BY <1>1, SumPick
<1>3. SumOn(e, S) = SumOn(f, S) /\ SumOn(f, S) \in Int
    BY SumSame, SumInt
<1>. QED
    BY <1>2, <1>3

(* Only summands that are zero are left out. *)
LEMMA SumSubset ==
    ASSUME NEW S, IsFiniteSet(S), NEW R \in SUBSET S, NEW f, \A y \in S : f[y] \in Int,
           \A y \in S \ R : f[y] = 0
    PROVE  SumOn(f, S) = SumOn(f, R)
<1>. DEFINE B == {s \in SUBSET S : R \subseteq s /\ SumOn(f, s) # SumOn(f, R)}
<1>1. SUFFICES ASSUME B # {} PROVE FALSE
    OBVIOUS
<1>2. PICK T \in B : \A U \in B : U \subseteq T => U = T
    <2>1. B \in SUBSET (SUBSET S)
        OBVIOUS
    <2>. HIDE DEF B
    <2>. QED
        BY <1>1, <2>1, SmallestSubset
<1>3. PICK x \in T : x \notin R
    BY <1>2
<1>4. SumOn(f, T) = f[x] + SumOn(f, T \ {x})
    BY <1>2, FS_Subset, SumPick
<1>5. SumOn(f, T \ {x}) = SumOn(f, R)
    BY <1>2, <1>3
<1>6. IsFiniteSet(T \ {x}) /\ f[x] = 0
    BY <1>2, <1>3, FS_Subset
<1>7. SumOn(f, T \ {x}) \in Int
    BY <1>6, SumInt
<1>. QED
    BY <1>2, <1>4, <1>5, <1>6, <1>7

(* The sum of what is not negative is not negative. *)
LEMMA SumNat ==
    ASSUME NEW S, IsFiniteSet(S), NEW f, \A y \in S : f[y] \in Nat
    PROVE  SumOn(f, S) \in Nat
<1>. DEFINE B == {s \in SUBSET S : SumOn(f, s) \notin Nat}
<1>1. SUFFICES ASSUME B # {} PROVE FALSE
    OBVIOUS
<1>2. PICK T \in B : \A U \in B : U \subseteq T => U = T
    <2>1. B \in SUBSET (SUBSET S)
        OBVIOUS
    <2>. HIDE DEF B
    <2>. QED
        BY <1>1, <2>1, SmallestSubset
<1>3. CASE T = {}
    BY <1>2, <1>3, SumEmpty
<1>4. CASE T # {}
    <2>1. PICK x \in T : SumOn(f, T) = f[x] + SumOn(f, T \ {x})
        BY <1>4, FS_Subset, SumChosen
    <2>2. SumOn(f, T \ {x}) \in Nat
        BY <1>2
    <2>. QED
        BY <2>1, <2>2, <1>2
<1>. QED
    BY <1>3, <1>4

(* No summand is more than the sum, unless others are negative. *)
LEMMA SumBound ==
    ASSUME NEW S, IsFiniteSet(S), NEW f, \A y \in S : f[y] \in Nat, NEW x \in S
    PROVE  f[x] <= SumOn(f, S)
<1>1. SumOn(f, S) = f[x] + SumOn(f, S \ {x})
    BY SumPick
<1>2. SumOn(f, S \ {x}) \in Nat
    BY FS_Subset, SumNat
<1>. QED
    BY <1>1, <1>2
-----------------------------------------------------------------------------
(* Sums of all values of a function, as the model states them: of finitely many integers, *)
Summable(f) == IsFiniteSet(DOMAIN f) /\ \A y \in DOMAIN f : f[y] \in Int
(* where the function gets a value at one place, which had none or zero, *)
PutAt(f, e, x) ==
    /\ DOMAIN e = DOMAIN f \cup {x}
    /\ \A y \in DOMAIN f \ {x} : f[y] = e[y]
    /\ x \in DOMAIN f => f[x] = 0
(* or is defined at more places, where it is zero. *)
PaddedTo(f, e) ==
    /\ DOMAIN f \subseteq DOMAIN e
    /\ \A y \in DOMAIN f : f[y] = e[y]
    /\ \A y \in DOMAIN e \ DOMAIN f : e[y] = 0

(* A sum of all values is a sum over the domain. *)
LEMMA SumOfAll == ASSUME NEW f PROVE SumFunction(f) = SumOn(f, DOMAIN f)
BY DEF SumFunction, SumOn

(* A function without arguments has the sum zero. *)
LEMMA SumNone == ASSUME NEW f, DOMAIN f = {} PROVE SumFunction(f) = 0
BY SumOfAll, SumEmpty

(* Sums of integers are integers. *)
LEMMA SumIsInt == ASSUME NEW f, Summable(f) PROVE SumFunction(f) \in Int
BY SumOfAll, SumInt DEF Summable

(* Sums of natural numbers are natural numbers, and bound their summands. *)
LEMMA SumIsNat ==
    ASSUME NEW f, IsFiniteSet(DOMAIN f), \A x \in DOMAIN f : f[x] \in Nat
    PROVE  SumFunction(f) \in Nat /\ \A x \in DOMAIN f : f[x] <= SumFunction(f)
BY SumOfAll, SumNat, SumBound

(* A function that gets a value at a place adds it there. *)
LEMMA SumPut ==
    ASSUME NEW f, NEW e, NEW x, Summable(f), Summable(e), PutAt(f, e, x)
    PROVE  SumFunction(e) = SumFunction(f) + e[x]
<1>1. /\ IsFiniteSet(DOMAIN f) /\ \A y \in DOMAIN f : f[y] \in Int
      /\ IsFiniteSet(DOMAIN e) /\ \A y \in DOMAIN e : e[y] \in Int
      /\ DOMAIN e = DOMAIN f \cup {x} /\ \A y \in DOMAIN f \ {x} : f[y] = e[y]
    BY DEF Summable, PutAt
<1>2. CASE x \notin DOMAIN f
    <2>1. \A y \in DOMAIN f : f[y] = e[y]
        BY <1>1, <1>2
    <2>2. e[x] \in Int
        BY <1>1
    <2>3. SumOn(e, DOMAIN f \cup {x}) = SumOn(f, DOMAIN f) + e[x]
        BY <1>1, <1>2, <2>1, <2>2, SumAdded
    <2>. QED
        BY <1>1, <2>3, SumOfAll
<1>3. CASE x \in DOMAIN f
    <2>1. DOMAIN e = DOMAIN f /\ f[x] = 0
        BY <1>1, <1>3 DEF PutAt
    <2>2. SumOn(e, DOMAIN f) = SumOn(f, DOMAIN f) - f[x] + e[x]
        BY <1>1, <1>3, <2>1, SumChanged
    <2>3. SumOn(f, DOMAIN f) \in Int /\ e[x] \in Int
        BY <1>1, SumInt
    <2>. QED
        BY <2>1, <2>2, <2>3, SumOfAll
<1>. QED
    BY <1>2, <1>3

(* A function that is defined at more places, where it is zero, has the same sum. *)
LEMMA SumPadded ==
    ASSUME NEW f, NEW e, Summable(e), PaddedTo(f, e)
    PROVE  SumFunction(e) = SumFunction(f)
<1>1. IsFiniteSet(DOMAIN e) /\ \A y \in DOMAIN e : e[y] \in Int
    BY DEF Summable
<1>2. DOMAIN f \subseteq DOMAIN e /\ (\A y \in DOMAIN f : f[y] = e[y]) /\ \A y \in DOMAIN e \ DOMAIN f : e[y] = 0
    BY DEF PaddedTo
<1>3. SumOn(e, DOMAIN e) = SumOn(e, DOMAIN f)
    BY <1>1, <1>2, SumSubset
<1>4. IsFiniteSet(DOMAIN f)
    BY <1>1, <1>2, FS_Subset
<1>5. SumOn(e, DOMAIN f) = SumOn(f, DOMAIN f)
    BY <1>2, <1>4, SumSame
<1>. QED
    BY <1>3, <1>5, SumOfAll

-----------------------------------------------------------------------------
(* Places in a table of tables, and the amounts at these places. *)
AmountAt(k, amounts) == amounts[k[1]][k[2]]
AmountsAt(keys, amounts) == [k \in keys |-> AmountAt(k, amounts)]
Total(keys, amounts) == SumFunction(AmountsAt(keys, amounts))
Countable(keys, amounts) == IsFiniteSet(keys) /\ \A k \in keys : AmountAt(k, amounts) \in Int

SameAt(keys, amounts, am) == \A k \in keys : AmountAt(k, amounts) = AmountAt(k, am)
AmountPut(keys, amounts, ks, am, x) ==
    /\ ks = keys \cup {x} /\ SameAt(keys \ {x}, amounts, am)
    /\ x \in keys => AmountAt(x, amounts) = 0

(* The amounts at the places are a function that can be summed. *)
LEMMA AmountsFacts ==
    ASSUME NEW keys, NEW amounts
    PROVE  /\ DOMAIN AmountsAt(keys, amounts) = keys
           /\ \A k \in keys : AmountsAt(keys, amounts)[k] = AmountAt(k, amounts)
           /\ Countable(keys, amounts) => Summable(AmountsAt(keys, amounts))
BY DEF AmountsAt, Countable, Summable

(* A total is an integer. *)
LEMMA TotalInt ==
    ASSUME NEW keys, NEW amounts, Countable(keys, amounts)
    PROVE  Total(keys, amounts) \in Int
BY AmountsFacts, SumIsInt, Zenon DEF Total

(* A total depends on the places and on what is there. *)
LEMMA TotalSame ==
    ASSUME NEW keys, NEW amounts, NEW am, SameAt(keys, amounts, am)
    PROVE  Total(keys, amounts) = Total(keys, am)
<1>1. AmountsAt(keys, amounts) = AmountsAt(keys, am)
    BY DEF AmountsAt, SameAt
<1>. QED
    BY <1>1 DEF Total

(* No places, no total. *)
LEMMA TotalNone == ASSUME NEW amounts PROVE Total({}, amounts) = 0
BY AmountsFacts, SumNone DEF Total

(* An amount is put at a place that had none, or zero. *)
LEMMA TotalPut ==
    ASSUME NEW keys, NEW amounts, NEW ks, NEW am, NEW x, Countable(keys, amounts), Countable(ks, am),
           AmountPut(keys, amounts, ks, am, x)
    PROVE  Total(ks, am) = Total(keys, amounts) + AmountAt(x, am)
<1>1. PutAt(AmountsAt(keys, amounts), AmountsAt(ks, am), x)
    <2>1. ASSUME NEW y \in keys \ {x} PROVE AmountsAt(keys, amounts)[y] = AmountsAt(ks, am)[y]
        <3>1. AmountAt(y, amounts) = AmountAt(y, am)
            BY DEF SameAt, AmountPut
        <3>2. y \in keys /\ y \in ks
            BY DEF AmountPut
        <3>3. AmountsAt(keys, amounts)[y] = AmountAt(y, amounts) /\ AmountsAt(ks, am)[y] = AmountAt(y, am)
            BY <3>2 DEF AmountsAt
        <3>. QED
            BY <3>1, <3>3, Zenon
    <2>2. x \in keys => AmountsAt(keys, amounts)[x] = 0
        BY AmountsFacts DEF AmountPut
    <2>3. DOMAIN AmountsAt(keys, amounts) = keys /\ DOMAIN AmountsAt(ks, am) = keys \cup {x}
        BY AmountsFacts DEF AmountPut
    <2>. QED
        BY <2>1, <2>2, <2>3, Zenon DEF PutAt
<1>2. Summable(AmountsAt(keys, amounts)) /\ Summable(AmountsAt(ks, am))
    BY AmountsFacts, Zenon
<1>3. SumFunction(AmountsAt(ks, am)) = SumFunction(AmountsAt(keys, amounts)) + AmountsAt(ks, am)[x]
    BY <1>1, <1>2, SumPut, Zenon
<1>4. AmountsAt(ks, am)[x] = AmountAt(x, am)
    BY AmountsFacts DEF AmountPut
<1>. QED
    BY <1>3, <1>4, Zenon DEF Total

(* Places are added where nothing is. *)
LEMMA TotalPadded ==
    ASSUME NEW keys, NEW amounts, NEW ks, NEW am, Countable(ks, am), keys \subseteq ks,
           SameAt(keys, amounts, am), \A k \in ks \ keys : AmountAt(k, am) = 0
    PROVE  Total(ks, am) = Total(keys, amounts)
<1>1. PaddedTo(AmountsAt(keys, amounts), AmountsAt(ks, am))
    <2>1. ASSUME NEW y \in keys PROVE AmountsAt(keys, amounts)[y] = AmountsAt(ks, am)[y]
        <3>1. AmountAt(y, amounts) = AmountAt(y, am)
            BY DEF SameAt
        <3>2. y \in keys /\ y \in ks
            OBVIOUS
        <3>3. AmountsAt(keys, amounts)[y] = AmountAt(y, amounts) /\ AmountsAt(ks, am)[y] = AmountAt(y, am)
            BY <3>2 DEF AmountsAt
        <3>. QED
            BY <3>1, <3>3, Zenon
    <2>2. ASSUME NEW y \in ks \ keys PROVE AmountsAt(ks, am)[y] = 0
        BY AmountsFacts
    <2>3. DOMAIN AmountsAt(keys, amounts) = keys /\ DOMAIN AmountsAt(ks, am) = ks
        BY AmountsFacts
    <2>. QED
        BY <2>1, <2>2, <2>3, Zenon DEF PaddedTo
<1>2. Summable(AmountsAt(ks, am))
    BY AmountsFacts, Zenon
<1>3. SumFunction(AmountsAt(ks, am)) = SumFunction(AmountsAt(keys, amounts))
    BY <1>1, <1>2, SumPadded, Zenon
<1>. QED
    BY <1>3, Zenon DEF Total

-----------------------------------------------------------------------------
(* A table of groups, each with a list of coins, and the amounts that the lists have for a coin. *)
KeysOf(lists) == UNION {{<<g, i>> : i \in DOMAIN lists[g]} : g \in DOMAIN lists}
KeysFor(lists, c) == {k \in KeysOf(lists) : AmountAt(k, lists) = c}
ListsOk(lists, amounts, coins) ==
    Countable(KeysOf(lists), amounts) /\ \A k \in KeysOf(lists) : AmountAt(k, lists) \in coins

(* A group is added that lists some coins, each of them once. *)
Listed(ls, n, m) == {ls[n][i] : i \in 1 .. m}
GroupAdded(lists, amounts, ls, am, n, m) ==
    /\ n \notin DOMAIN lists /\ DOMAIN ls = DOMAIN lists \cup {n}
    /\ m \in Nat /\ DOMAIN ls[n] = 1 .. m
    /\ \A g \in DOMAIN lists : ls[g] = lists[g] /\ am[g] = amounts[g]
    /\ \A i, j \in 1 .. m : ls[n][i] = ls[n][j] => i = j

(* A place is a pair of a group and an index. *)
LEMMA KeyFacts ==
    ASSUME NEW lists
    PROVE  /\ \A g \in DOMAIN lists : \A i \in DOMAIN lists[g] : <<g, i>> \in KeysOf(lists)
           /\ \A k \in KeysOf(lists) : \E g, i : g \in DOMAIN lists /\ i \in DOMAIN lists[g] /\ k = <<g, i>>
           /\ \A k \in KeysOf(lists) : k[1] \in DOMAIN lists /\ k[2] \in DOMAIN lists[k[1]]
BY DEF KeysOf

(* Places for one coin can be counted. *)
LEMMA KeysForFacts ==
    ASSUME NEW lists, NEW amounts, NEW coins, ListsOk(lists, amounts, coins), NEW c
    PROVE  Countable(KeysFor(lists, c), amounts) /\ (c \notin coins => KeysFor(lists, c) = {})
<1>1. KeysFor(lists, c) \subseteq KeysOf(lists)
    BY DEF KeysFor
<1>2. IsFiniteSet(KeysOf(lists))
    BY DEF ListsOk, Countable
<1>3. IsFiniteSet(KeysFor(lists, c))
    BY <1>1, <1>2, FS_Subset
<1>4. Countable(KeysFor(lists, c), amounts)
    BY <1>1, <1>3 DEF ListsOk, Countable
<1>5. c \notin coins => KeysFor(lists, c) = {}
    BY DEF ListsOk, KeysFor
<1>. QED
    BY <1>4, <1>5

Booked(lists, amounts, c) == Total(KeysFor(lists, c), amounts)
NewKeys(n, m) == {<<n, i>> : i \in 1 .. m}

(* The places of the added group. *)
LEMMA NewKeysFacts ==
    ASSUME NEW n, NEW m \in Nat
    PROVE  /\ IsFiniteSet(NewKeys(n, m))
           /\ \A k \in NewKeys(n, m) : k[1] = n /\ k[2] \in 1 .. m
           /\ \A i \in 1 .. m : <<n, i>> \in NewKeys(n, m)
           /\ \A k \in NewKeys(n, m) : \E i \in 1 .. m : k = <<n, i>>
<1>1. IsFiniteSet({n})
    BY FS_Singleton
<1>2. IsFiniteSet(1 .. m)
    BY FS_Interval
<1>3. IsFiniteSet({n} \X (1 .. m))
    BY <1>1, <1>2, FS_Product
<1>4. NewKeys(n, m) \subseteq {n} \X (1 .. m)
    BY DEF NewKeys
<1>5. IsFiniteSet(NewKeys(n, m))
    BY <1>3, <1>4, FS_Subset
<1>. QED
    BY <1>5 DEF NewKeys

(* What was listed stays where it was. *)
LEMMA GroupKeys ==
    ASSUME NEW lists, NEW amounts, NEW ls, NEW am, NEW n, NEW m,
           GroupAdded(lists, amounts, ls, am, n, m)
    PROVE  /\ KeysOf(ls) = KeysOf(lists) \cup NewKeys(n, m)
           /\ KeysOf(lists) \cap NewKeys(n, m) = {}
           /\ SameAt(KeysOf(lists), lists, ls) /\ SameAt(KeysOf(lists), amounts, am)
<1>1. ASSUME NEW k \in KeysOf(ls) PROVE k \in KeysOf(lists) \cup NewKeys(n, m)
    <2>1. PICK g, i : g \in DOMAIN ls /\ i \in DOMAIN ls[g] /\ k = <<g, i>>
        BY <1>1, KeyFacts
    <2>2. CASE g = n
        BY <2>1, <2>2 DEF GroupAdded, NewKeys
    <2>3. CASE g \in DOMAIN lists
        <3>1. i \in DOMAIN lists[g]
            BY <2>1, <2>3, Zenon DEF GroupAdded
        <3>2. <<g, i>> \in KeysOf(lists)
            BY <2>3, <3>1, KeyFacts, Zenon
        <3>. QED
            BY <2>1, <3>2
    <2>. QED
        BY <2>1, <2>2, <2>3 DEF GroupAdded
<1>2. ASSUME NEW k \in KeysOf(lists) PROVE k \in KeysOf(ls)
    <2>1. PICK g, i : g \in DOMAIN lists /\ i \in DOMAIN lists[g] /\ k = <<g, i>>
        BY <1>2, KeyFacts
    <2>2. g \in DOMAIN ls /\ i \in DOMAIN ls[g]
        BY <2>1 DEF GroupAdded
    <2>3. <<g, i>> \in KeysOf(ls)
        BY <2>2, KeyFacts, Zenon
    <2>. QED
        BY <2>1, <2>3
<1>3. ASSUME NEW k \in NewKeys(n, m) PROVE k \in KeysOf(ls)
    <2>1. PICK i \in 1 .. m : k = <<n, i>>
        BY <1>3 DEF NewKeys
    <2>2. n \in DOMAIN ls /\ i \in DOMAIN ls[n]
        BY DEF GroupAdded
    <2>3. <<n, i>> \in KeysOf(ls)
        BY <2>2, KeyFacts, Zenon
    <2>. QED
        BY <2>1, <2>3
<1>4. ASSUME NEW k \in KeysOf(lists)
      PROVE  k[1] # n /\ AmountAt(k, lists) = AmountAt(k, ls) /\ AmountAt(k, amounts) = AmountAt(k, am)
    <2>1. k[1] \in DOMAIN lists
        BY KeyFacts, Zenon
    <2>. QED
        BY <2>1 DEF GroupAdded, AmountAt
<1>5. KeysOf(lists) \cap NewKeys(n, m) = {}
    <2>1. \A k \in NewKeys(n, m) : k[1] = n
        BY DEF NewKeys
    <2>. QED
        BY <1>4, <2>1, Zenon
<1>6. KeysOf(ls) = KeysOf(lists) \cup NewKeys(n, m)
    BY <1>1, <1>2, <1>3, Zenon
<1>7. SameAt(KeysOf(lists), lists, ls) /\ SameAt(KeysOf(lists), amounts, am)
    BY <1>4, Zenon DEF SameAt
<1>. QED
    BY <1>5, <1>6, <1>7

EntriesOk(ls, am, n, m, coins) == \A i \in 1 .. m : ls[n][i] \in coins /\ am[n][i] \in Int

(* The table with the group is in order. *)
LEMMA ListsGrow ==
    ASSUME NEW lists, NEW amounts, NEW ls, NEW am, NEW n, NEW m, NEW coins,
           ListsOk(lists, amounts, coins), GroupAdded(lists, amounts, ls, am, n, m),
           EntriesOk(ls, am, n, m, coins)
    PROVE  ListsOk(ls, am, coins)
<1>0. m \in Nat
    BY DEF GroupAdded
<1>k. /\ KeysOf(ls) = KeysOf(lists) \cup NewKeys(n, m) /\ KeysOf(lists) \cap NewKeys(n, m) = {}
      /\ SameAt(KeysOf(lists), lists, ls) /\ SameAt(KeysOf(lists), amounts, am)
    BY GroupKeys, Zenon
<1>1. IsFiniteSet(KeysOf(lists) \cup NewKeys(n, m))
    <2>1. IsFiniteSet(KeysOf(lists))
        BY DEF ListsOk, Countable
    <2>2. IsFiniteSet(NewKeys(n, m))
        BY <1>0, NewKeysFacts
    <2>. QED
        BY <2>1, <2>2, FS_Union
<1>2. IsFiniteSet(KeysOf(ls))
    BY <1>1, <1>k
<1>3. ASSUME NEW k \in KeysOf(ls) PROVE AmountAt(k, am) \in Int /\ AmountAt(k, ls) \in coins
    <2>1. CASE k \in KeysOf(lists)
        <3>1. AmountAt(k, lists) = AmountAt(k, ls) /\ AmountAt(k, amounts) = AmountAt(k, am)
            BY <2>1, <1>k DEF SameAt
        <3>. QED
            BY <2>1, <3>1 DEF ListsOk, Countable
    <2>2. CASE k \in NewKeys(n, m)
        <3>1. k[1] = n /\ k[2] \in 1 .. m
            BY <2>2, <1>0, NewKeysFacts
        <3>. QED
            BY <3>1 DEF EntriesOk, AmountAt
    <2>. QED
        BY <2>1, <2>2, <1>k
<1>. QED
    BY <1>2, <1>3 DEF ListsOk, Countable

(* It is booked as before for the coins that the group does not list, *)
LEMMA BookedAsBefore ==
    ASSUME NEW lists, NEW amounts, NEW ls, NEW am, NEW n, NEW m,
           GroupAdded(lists, amounts, ls, am, n, m), NEW c, c \notin Listed(ls, n, m)
    PROVE  Booked(ls, am, c) = Booked(lists, amounts, c)
<1>0. m \in Nat
    BY DEF GroupAdded
<1>k. /\ KeysOf(ls) = KeysOf(lists) \cup NewKeys(n, m) /\ KeysOf(lists) \cap NewKeys(n, m) = {}
      /\ SameAt(KeysOf(lists), lists, ls) /\ SameAt(KeysOf(lists), amounts, am)
    BY GroupKeys, Zenon
<1>1. KeysFor(ls, c) = KeysFor(lists, c)
    <2>1. ASSUME NEW k \in NewKeys(n, m) PROVE AmountAt(k, ls) # c
        <3>1. k[1] = n /\ k[2] \in 1 .. m
            BY <1>0, NewKeysFacts
        <3>. QED
            BY <3>1 DEF Listed, AmountAt
    <2>2. \A k \in KeysOf(lists) : AmountAt(k, lists) = AmountAt(k, ls)
        BY <1>k DEF SameAt
    <2>3. KeysOf(ls) = KeysOf(lists) \cup NewKeys(n, m)
        BY <1>k
    <2>. QED
        BY <2>1, <2>2, <2>3 DEF KeysFor
<1>2. SameAt(KeysFor(lists, c), amounts, am)
    BY <1>k DEF KeysFor, SameAt
<1>. QED
    BY <1>1, <1>2, TotalSame DEF Booked

(* and with another amount for those that it lists. *)
LEMMA BookedAlso ==
    ASSUME NEW lists, NEW amounts, NEW ls, NEW am, NEW n, NEW m, NEW coins,
           ListsOk(lists, amounts, coins), GroupAdded(lists, amounts, ls, am, n, m),
           EntriesOk(ls, am, n, m, coins), NEW i \in 1 .. m
    PROVE  Booked(ls, am, ls[n][i]) = Booked(lists, amounts, ls[n][i]) + am[n][i]
<1>0. m \in Nat
    BY DEF GroupAdded
<1>k. /\ KeysOf(ls) = KeysOf(lists) \cup NewKeys(n, m) /\ KeysOf(lists) \cap NewKeys(n, m) = {}
      /\ SameAt(KeysOf(lists), lists, ls) /\ SameAt(KeysOf(lists), amounts, am)
    BY GroupKeys, Zenon
<1>c. PICK c : c = ls[n][i]
    OBVIOUS
<1>x. PICK x : x = <<n, i>>
    OBVIOUS
<1>1. x \in NewKeys(n, m) /\ AmountAt(x, ls) = c /\ AmountAt(x, am) = am[n][i]
    BY <1>0, <1>c, <1>x, NewKeysFacts DEF AmountAt
<1>2. KeysOf(ls) = KeysOf(lists) \cup NewKeys(n, m) /\ x \notin KeysOf(lists)
    BY <1>1, <1>k, Zenon
<1>3. ASSUME NEW k \in NewKeys(n, m), AmountAt(k, ls) = c PROVE k = x
    <2>1. PICK j \in 1 .. m : k = <<n, j>>
        BY <1>0, NewKeysFacts
    <2>2. ls[n][j] = ls[n][i]
        BY <1>3, <2>1, <1>c DEF AmountAt
    <2>3. j = i
        BY <2>2 DEF GroupAdded
    <2>. QED
        BY <2>1, <2>3, <1>x
<1>4. \A k \in KeysOf(lists) : AmountAt(k, lists) = AmountAt(k, ls)
    BY <1>k DEF SameAt
<1>5. KeysFor(ls, c) = KeysFor(lists, c) \cup {x}
    <2>1. ASSUME NEW k \in KeysFor(ls, c) PROVE k \in KeysFor(lists, c) \cup {x}
        BY <1>2, <1>3, <1>4 DEF KeysFor
    <2>2. ASSUME NEW k \in KeysFor(lists, c) PROVE k \in KeysFor(ls, c)
        BY <1>2, <1>4 DEF KeysFor
    <2>3. x \in KeysFor(ls, c)
        BY <1>1, <1>2 DEF KeysFor
    <2>. QED
        BY <2>1, <2>2, <2>3
<1>6. SameAt(KeysFor(lists, c) \ {x}, amounts, am)
    BY <1>k DEF KeysFor, SameAt
<1>7. Countable(KeysFor(lists, c), amounts) /\ Countable(KeysFor(ls, c), am)
    <2>1. ListsOk(ls, am, coins)
        BY ListsGrow
    <2>. QED
        BY <2>1, KeysForFacts
<1>8. x \in KeysFor(lists, c) => AmountAt(x, amounts) = 0
    BY <1>2 DEF KeysFor
<1>9. AmountPut(KeysFor(lists, c), amounts, KeysFor(ls, c), am, x)
    BY <1>5, <1>6, <1>8, Zenon DEF AmountPut
<1>10. Total(KeysFor(ls, c), am) = Total(KeysFor(lists, c), amounts) + AmountAt(x, am)
    BY <1>7, <1>9, TotalPut, Z3
<1>. QED
    BY <1>1, <1>10, <1>c DEF Booked

-----------------------------------------------------------------------------
(* A list that names some of the coins, each of them once. *)
ListedOnce(cs, m) ==
    m \in Nat /\ DOMAIN cs = 1 .. m /\ \A i, j \in 1 .. m : cs[i] = cs[j] => i = j
CoinList(cs, S) == \E m : ListedOnce(cs, m) /\ \A i \in 1 .. m : cs[i] \in S

(* The list that is made of a finite set. *)
LEMMA ListOfSet ==
    ASSUME NEW S, IsFiniteSet(S)
    PROVE  CoinList(SetToSeq(S), S)
<1>. PICK n : n = Cardinality(S)
    OBVIOUS
<1>1. n \in Nat /\ ExistsBijection(1 .. n, S)
    BY FS_CardinalityType
<1>2. \E f \in [1 .. n -> S] : IsInjective(f)
    BY <1>1, Zenon DEF ExistsBijection, Bijection, Injection
<1>3. PICK f : f = CHOOSE h \in [1 .. n -> S] : IsInjective(h)
    OBVIOUS
<1>4. f \in [1 .. n -> S] /\ IsInjective(f)
    BY <1>2, <1>3, Zenon
<1>5. f = SetToSeq(S)
    BY <1>3, Zenon DEF SetToSeq
<1>6. CoinList(f, S)
    BY <1>1, <1>4 DEF CoinList, ListedOnce, IsInjective
<1>. QED
    BY <1>5, <1>6

(* A list of coins of a smaller set. *)
LEMMA ListOfSubset ==
    ASSUME NEW S, IsFiniteSet(S), NEW T, T \subseteq S
    PROVE  CoinList(SetToSeq(T), S)
<1>1. IsFiniteSet(T)
    BY FS_Subset
<1>2. CoinList(SetToSeq(T), T)
    BY <1>1, ListOfSet
<1>. QED
    BY <1>2 DEF CoinList

-----------------------------------------------------------------------------
(* The tables of a database that money is booked in. *)
OldCoins(d) == [g \in DOMAIN d.refreshGroups |-> d.refreshGroups[g].oldCoinPubs]
InputAmounts(d) == [g \in DOMAIN d.refreshGroups |-> d.refreshGroups[g].inputPerCoin]
RecoupLists(d) == [g \in DOMAIN d.recoupGroups |-> d.recoupGroups[g].coinPubs]
RecoupAmounts(d) == [g \in DOMAIN d.recoupGroups |-> d.recoupGroups[g].oldAmountPerCoin]
FinishedLists(d) == [g \in DOMAIN d.recoupGroups |-> d.recoupGroups[g].finishedPerCoin]
Bought(d) == {o \in Orders : d.purchases[o] # Absent}
RefundTables(d) == [o \in Bought(d) |-> d.purchases[o].refunds]
CreditsOf(tables) == [o \in DOMAIN tables |-> [k \in DOMAIN tables[o] |-> tables[o][k].credit]]

(* The recoups that have put money back on a coin, and its refunds. *)
BackFrom(r, olds) == AmountAt(<<r[2], r[3]>>, olds)
BackKeys(lists, finished, olds, c) ==
    {k \in KeysOf(lists) : /\ SourceOf(AmountAt(k, lists)) = "refresh"
                           /\ BackFrom(AmountAt(k, lists), olds) = c
                           /\ k[2] \in finished[k[1]]}
RefundsFor(tables, c) == {q \in KeysOf(tables) : q[2][1] = c}

AllocatedOf(coin) == IF coin.allocation = Absent THEN 0 ELSE coin.allocation.amount
OnCoin(coin) == coin.currentAmount + AllocatedOf(coin)
GivenBack(d, c) == Total(RefundsFor(RefundTables(d), c), CreditsOf(RefundTables(d)))
Back(d, c) == Total(BackKeys(RecoupLists(d), FinishedLists(d), OldCoins(d), c), RecoupAmounts(d))
Melted(d, c) == Booked(OldCoins(d), InputAmounts(d), c)
InRecoups(d, c) == Booked(RecoupLists(d), RecoupAmounts(d), c)

Balanced(d, c) == d.coins[c].value + GivenBack(d, c) + Back(d, c)
                  = OnCoin(d.coins[c]) + Melted(d, c) + InRecoups(d, c)

CoinBook(coin) ==
    /\ coin.value \in Int /\ coin.currentAmount \in Int
    /\ coin.allocation = Absent \/ coin.allocation.amount \in Int
    /\ coin.status = "Fresh" => coin.allocation = Absent
RefundBook(refund) ==
    refund.credit \in Int /\ (refund.state \in {"Applied", "Failed"} \/ refund.credit = 0)

CoinBooks(d) == IsFiniteSet(DOMAIN d.coins) /\ \A c \in DOMAIN d.coins : CoinBook(d.coins[c])
OutputsOk(d) ==
    \A g \in DOMAIN d.refreshGroups : \A i \in DOMAIN d.refreshGroups[g].session :
        d.refreshGroups[g].session[i].output \in Int
SchedulesOk(d) ==
    \A g \in DOMAIN d.recoupGroups : d.recoupGroups[g].scheduleRefreshCoins \subseteq DOMAIN d.coins
RefreshBooks(d) ==
    /\ ListsOk(OldCoins(d), InputAmounts(d), DOMAIN d.coins)
    /\ \A c \in DOMAIN d.coins : SourceOf(c) = "refresh" => <<c[2], c[3]>> \in KeysOf(OldCoins(d))
    /\ OutputsOk(d)
RecoupBooks(d) == ListsOk(RecoupLists(d), RecoupAmounts(d), DOMAIN d.coins) /\ SchedulesOk(d)
RefundBooks(d) ==
    /\ IsFiniteSet(KeysOf(RefundTables(d)))
    /\ \A q \in KeysOf(RefundTables(d)) : q[2][1] \in DOMAIN d.coins /\ RefundBook(AmountAt(q, RefundTables(d)))
Books(d) == CoinBooks(d) /\ RefreshBooks(d) /\ RecoupBooks(d) /\ RefundBooks(d)

-----------------------------------------------------------------------------
(* What is on the listed coins is taken from them. *)
CoinEmptied(a, b) ==
    /\ b.value = a.value /\ b.allocation = a.allocation /\ b.currentAmount = 0
    /\ b.status \in {a.status, "Dormant"}
CoinsEmptied(f, g, cs) ==
    /\ DOMAIN g = DOMAIN f
    /\ \A c \in DOMAIN f : IF c \in Range(cs) THEN CoinEmptied(f[c], g[c]) ELSE g[c] = f[c]

(* createRefreshGroup appends a group and empties the coins that it lists. *)
LEMMA RefreshGroupFields ==
    ASSUME NEW d, DbShape(d), CoinsOk(d.coins), NEW cs
    PROVE  LET e == CreateRefreshGroup(d, cs) IN
           /\ CoinsEmptied(d.coins, e.coins, cs)
           /\ e.refreshGroups = Append(d.refreshGroups, NewGroup(d, cs))
           /\ e.recoupGroups = d.recoupGroups /\ e.purchases = d.purchases
<1>. DEFINE f == [c \in DOMAIN d.coins |->
                     IF c \in Range(cs)
                     THEN [d.coins[c] EXCEPT !.currentAmount = 0, !.status = "Dormant"]
                     ELSE d.coins[c]]
            s == Append(d.refreshGroups, NewGroup(d, cs))
<1>1. CoinsEmptied(d.coins, f, cs)
    <2>1. ASSUME NEW c \in DOMAIN d.coins
          PROVE  IF c \in Range(cs) THEN CoinEmptied(d.coins[c], f[c]) ELSE f[c] = d.coins[c]
        <3>1. CoinShape(d.coins[c])
            BY DEF CoinsOk
        <3>2. f[c] = IF c \in Range(cs)
                     THEN [d.coins[c] EXCEPT !.currentAmount = 0, !.status = "Dormant"]
                     ELSE d.coins[c]
            OBVIOUS
        <3>. QED
            BY <3>1, <3>2 DEF CoinShape, CoinEmptied
    <2>. QED
        BY <2>1 DEF CoinsEmptied
<1>2. CreateRefreshGroup(d, cs) = [d EXCEPT !.coins = f, !.refreshGroups = s]
    BY Zenon DEF CreateRefreshGroup
<1>. HIDE DEF f, s
<1>3. LET e == [d EXCEPT !.coins = f, !.refreshGroups = s] IN
      e.coins = f /\ e.refreshGroups = s /\ e.recoupGroups = d.recoupGroups /\ e.purchases = d.purchases
    BY DEF DbShape
<1>. QED
    BY <1>1, <1>2, <1>3 DEF s

(* Coins that are emptied are still in order. *)
LEMMA EmptiedBooks ==
    ASSUME NEW d, NEW e, NEW cs, CoinBooks(d), CoinsEmptied(d.coins, e.coins, cs)
    PROVE  CoinBooks(e)
<1>1. ASSUME NEW c \in DOMAIN e.coins PROVE CoinBook(e.coins[c])
    BY DEF CoinBooks, CoinBook, CoinsEmptied, CoinEmptied
<1>. QED
    BY <1>1 DEF CoinBooks, CoinsEmptied

(* The group that is appended to the refresh groups lists the coins with what was on them. *)
GroupPut(d, e, cs, n) ==
    n = Len(d.refreshGroups) + 1 /\ e.refreshGroups = Append(d.refreshGroups, NewGroup(d, cs))
EntriesOf(d, cs, ls, am, n, m) ==
    \A i \in 1 .. m : ls[n][i] = cs[i] /\ am[n][i] = d.coins[cs[i]].currentAmount
GroupsExtended(s, u, n) ==
    DOMAIN u = DOMAIN s \cup {n} /\ \A g \in DOMAIN s : u[g] = s[g]

(* createRefreshGroup lists each coin with its amount. *)
LEMMA RefreshGroupListed ==
    ASSUME NEW d, NEW e, NEW cs, NEW m, NEW n, IsList(d.refreshGroups), ListedOnce(cs, m),
           GroupPut(d, e, cs, n)
    PROVE  /\ GroupAdded(OldCoins(d), InputAmounts(d), OldCoins(e), InputAmounts(e), n, m)
           /\ EntriesOf(d, cs, OldCoins(e), InputAmounts(e), n, m)
           /\ GroupsExtended(d.refreshGroups, e.refreshGroups, n)
           /\ e.refreshGroups[n].session = <<>>
<1>1. PICK ng : ng = NewGroup(d, cs)
    OBVIOUS
<1>2. /\ ng.oldCoinPubs = cs /\ ng.session = <<>>
      /\ \A i \in 1 .. m : ng.inputPerCoin[i] = d.coins[cs[i]].currentAmount
    BY <1>1 DEF NewGroup, ListedOnce
<1>3. /\ DOMAIN e.refreshGroups = DOMAIN d.refreshGroups \cup {n} /\ n \notin DOMAIN d.refreshGroups
      /\ e.refreshGroups[n] = ng
      /\ \A g \in DOMAIN d.refreshGroups : e.refreshGroups[g] = d.refreshGroups[g]
    BY <1>1, AppendList DEF GroupPut
<1>4. DOMAIN OldCoins(d) = DOMAIN d.refreshGroups /\ DOMAIN OldCoins(e) = DOMAIN OldCoins(d) \cup {n}
    BY <1>3 DEF OldCoins
<1>5. OldCoins(e)[n] = cs /\ InputAmounts(e)[n] = ng.inputPerCoin
    BY <1>2, <1>3 DEF OldCoins, InputAmounts
<1>6. ASSUME NEW g \in DOMAIN OldCoins(d)
      PROVE  OldCoins(e)[g] = OldCoins(d)[g] /\ InputAmounts(e)[g] = InputAmounts(d)[g]
    BY <1>3, <1>4 DEF OldCoins, InputAmounts
<1>7. GroupAdded(OldCoins(d), InputAmounts(d), OldCoins(e), InputAmounts(e), n, m)
    BY <1>3, <1>4, <1>5, <1>6 DEF GroupAdded, ListedOnce
<1>8. EntriesOf(d, cs, OldCoins(e), InputAmounts(e), n, m)
    BY <1>2, <1>5 DEF EntriesOf
<1>. QED
    BY <1>2, <1>3, <1>7, <1>8 DEF GroupsExtended

NewRecoups(d, cs, ng) ==
    /\ ng.coinPubs = cs /\ ng.scheduleRefreshCoins = {}
    /\ \A i \in DOMAIN cs : ng.oldAmountPerCoin[i] = d.coins[cs[i]].currentAmount
    /\ \A i \in ng.finishedPerCoin : i \in DOMAIN cs /\ ng.oldAmountPerCoin[i] = 0
RecoupAppended(d, e, cs, n) ==
    /\ n = Len(d.recoupGroups) + 1
    /\ \E ng : e.recoupGroups = Append(d.recoupGroups, ng) /\ NewRecoups(d, cs, ng)

(* createRecoupGroup does the same for its group. *)
LEMMA RecoupGroupFields ==
    ASSUME NEW d, DbShape(d), CoinsOk(d.coins), NEW cs
    PROVE  LET e == CreateRecoupGroup(d, cs) IN
           /\ CoinsEmptied(d.coins, e.coins, cs)
           /\ RecoupAppended(d, e, cs, Len(d.recoupGroups) + 1)
           /\ e.refreshGroups = d.refreshGroups /\ e.purchases = d.purchases
<1>. DEFINE f == [c \in DOMAIN d.coins |->
                     IF c \in Range(cs) THEN [d.coins[c] EXCEPT !.currentAmount = 0] ELSE d.coins[c]]
            finished == {i \in DOMAIN cs : d.coins[cs[i]].currentAmount = 0}
            ng == [coinPubs |-> cs,
                   oldAmountPerCoin |-> [i \in DOMAIN cs |-> d.coins[cs[i]].currentAmount],
                   finishedPerCoin |-> finished, scheduleRefreshCoins |-> {},
                   finished |-> cs # <<>> /\ finished = DOMAIN cs]
            s == Append(d.recoupGroups, ng)
<1>1. CoinsEmptied(d.coins, f, cs)
    <2>1. ASSUME NEW c \in DOMAIN d.coins
          PROVE  IF c \in Range(cs) THEN CoinEmptied(d.coins[c], f[c]) ELSE f[c] = d.coins[c]
        <3>1. CoinShape(d.coins[c])
            BY DEF CoinsOk
        <3>2. f[c] = IF c \in Range(cs) THEN [d.coins[c] EXCEPT !.currentAmount = 0] ELSE d.coins[c]
            OBVIOUS
        <3>. QED
            BY <3>1, <3>2 DEF CoinShape, CoinEmptied
    <2>. QED
        BY <2>1 DEF CoinsEmptied
<1>2. NewRecoups(d, cs, ng)
    BY DEF NewRecoups
<1>3. CreateRecoupGroup(d, cs) = [d EXCEPT !.coins = f, !.recoupGroups = s]
    BY Zenon DEF CreateRecoupGroup
<1>. HIDE DEF f, ng
<1>4. \E x : s = Append(d.recoupGroups, x) /\ NewRecoups(d, cs, x)
    BY <1>2, Zenon
<1>. HIDE DEF s
<1>5. LET e == [d EXCEPT !.coins = f, !.recoupGroups = s] IN
      e.coins = f /\ e.recoupGroups = s /\ e.refreshGroups = d.refreshGroups /\ e.purchases = d.purchases
    BY DEF DbShape
<1>. QED
    BY <1>1, <1>3, <1>4, <1>5, Zenon DEF RecoupAppended

(* The group that is appended to the recoup groups lists the coins with what was on them. *)
LEMMA RecoupGroupListed ==
    ASSUME NEW d, NEW e, NEW cs, NEW m, NEW n, IsList(d.recoupGroups), ListedOnce(cs, m),
           RecoupAppended(d, e, cs, n)
    PROVE  /\ GroupAdded(RecoupLists(d), RecoupAmounts(d), RecoupLists(e), RecoupAmounts(e), n, m)
           /\ EntriesOf(d, cs, RecoupLists(e), RecoupAmounts(e), n, m)
           /\ GroupsExtended(d.recoupGroups, e.recoupGroups, n)
           /\ \A g \in DOMAIN d.recoupGroups : FinishedLists(e)[g] = FinishedLists(d)[g]
           /\ \A i \in FinishedLists(e)[n] : i \in 1 .. m /\ RecoupAmounts(e)[n][i] = 0
           /\ e.recoupGroups[n].scheduleRefreshCoins = {}
<1>1. PICK ng : e.recoupGroups = Append(d.recoupGroups, ng) /\ NewRecoups(d, cs, ng)
    BY Zenon DEF RecoupAppended
<1>2. n = Len(d.recoupGroups) + 1
    BY DEF RecoupAppended
<1>3. /\ DOMAIN e.recoupGroups = DOMAIN d.recoupGroups \cup {n} /\ n \notin DOMAIN d.recoupGroups
      /\ e.recoupGroups[n] = ng
      /\ \A g \in DOMAIN d.recoupGroups : e.recoupGroups[g] = d.recoupGroups[g]
    BY <1>1, <1>2, AppendList
<1>4. /\ DOMAIN RecoupLists(d) = DOMAIN d.recoupGroups
      /\ DOMAIN RecoupLists(e) = DOMAIN RecoupLists(d) \cup {n}
    BY <1>3 DEF RecoupLists
<1>5. /\ RecoupLists(e)[n] = ng.coinPubs /\ RecoupAmounts(e)[n] = ng.oldAmountPerCoin
      /\ FinishedLists(e)[n] = ng.finishedPerCoin
    BY <1>3 DEF RecoupLists, RecoupAmounts, FinishedLists
<1>6. ASSUME NEW g \in DOMAIN RecoupLists(d)
      PROVE  /\ RecoupLists(e)[g] = RecoupLists(d)[g] /\ RecoupAmounts(e)[g] = RecoupAmounts(d)[g]
             /\ FinishedLists(e)[g] = FinishedLists(d)[g]
    BY <1>3, <1>4 DEF RecoupLists, RecoupAmounts, FinishedLists
<1>7. GroupAdded(RecoupLists(d), RecoupAmounts(d), RecoupLists(e), RecoupAmounts(e), n, m)
    BY <1>1, <1>3, <1>4, <1>5, <1>6 DEF GroupAdded, ListedOnce, NewRecoups
<1>8. EntriesOf(d, cs, RecoupLists(e), RecoupAmounts(e), n, m)
    BY <1>1, <1>5 DEF EntriesOf, ListedOnce, NewRecoups
<1>9. \A i \in FinishedLists(e)[n] : i \in 1 .. m /\ RecoupAmounts(e)[n][i] = 0
    BY <1>1, <1>5 DEF ListedOnce, NewRecoups
<1>10. \A g \in DOMAIN d.recoupGroups : FinishedLists(e)[g] = FinishedLists(d)[g]
    BY <1>4, <1>6
<1>11. GroupsExtended(d.recoupGroups, e.recoupGroups, n) /\ e.recoupGroups[n].scheduleRefreshCoins = {}
    BY <1>1, <1>3 DEF GroupsExtended, NewRecoups
<1>. QED
    BY <1>7, <1>8, <1>9, <1>10, <1>11

AllMoved(d, e, lists, amounts, ls, am) ==
    \A c \in DOMAIN d.coins :
        /\ e.coins[c].value = d.coins[c].value
        /\ OnCoin(e.coins[c]) + Booked(ls, am, c) = OnCoin(d.coins[c]) + Booked(lists, amounts, c)

(* What is taken from the coins is booked in the group. *)
LEMMA MovedIntoGroup ==
    ASSUME NEW d, NEW e, NEW cs, CoinBooks(d), CoinsEmptied(d.coins, e.coins, cs),
           NEW lists, NEW amounts, NEW ls, NEW am, NEW n, NEW m,
           ListsOk(lists, amounts, DOMAIN d.coins), GroupAdded(lists, amounts, ls, am, n, m),
           ListedOnce(cs, m), \A i \in 1 .. m : cs[i] \in DOMAIN d.coins,
           EntriesOf(d, cs, ls, am, n, m)
    PROVE  ListsOk(ls, am, DOMAIN e.coins) /\ AllMoved(d, e, lists, amounts, ls, am)
<1>0. DOMAIN e.coins = DOMAIN d.coins
    BY DEF CoinsEmptied
<1>1. EntriesOk(ls, am, n, m, DOMAIN d.coins)
    BY DEF EntriesOk, EntriesOf, CoinBooks, CoinBook
<1>2. ListsOk(ls, am, DOMAIN d.coins)
    BY <1>1, ListsGrow
<1>3. ASSUME NEW c \in DOMAIN d.coins
      PROVE  /\ Booked(lists, amounts, c) \in Int /\ AllocatedOf(d.coins[c]) \in Int
             /\ d.coins[c].currentAmount \in Int
    <2>1. Countable(KeysFor(lists, c), amounts)
        BY KeysForFacts
    <2>2. Booked(lists, amounts, c) \in Int
        BY <2>1, TotalInt DEF Booked
    <2>3. CoinBook(d.coins[c])
        BY DEF CoinBooks
    <2>. QED
        BY <2>2, <2>3 DEF CoinBook, AllocatedOf
<1>4. ASSUME NEW c \in DOMAIN d.coins, c \notin Range(cs)
      PROVE  e.coins[c] = d.coins[c] /\ Booked(ls, am, c) = Booked(lists, amounts, c)
    <2>1. c \notin Listed(ls, n, m)
        BY <1>4 DEF Listed, Range, ListedOnce, EntriesOf
    <2>2. Booked(ls, am, c) = Booked(lists, amounts, c)
        BY <2>1, BookedAsBefore
    <2>. QED
        BY <1>4, <2>2 DEF CoinsEmptied
<1>5. ASSUME NEW i \in 1 .. m
      PROVE  /\ CoinEmptied(d.coins[cs[i]], e.coins[cs[i]])
             /\ Booked(ls, am, cs[i]) = Booked(lists, amounts, cs[i]) + d.coins[cs[i]].currentAmount
    <2>1. Booked(ls, am, ls[n][i]) = Booked(lists, amounts, ls[n][i]) + am[n][i]
        BY <1>1, BookedAlso
    <2>2. cs[i] \in Range(cs)
        BY DEF Range, ListedOnce
    <2>. QED
        BY <2>1, <2>2 DEF CoinsEmptied, EntriesOf
<1>6. ASSUME NEW c \in DOMAIN d.coins
      PROVE  /\ e.coins[c].value = d.coins[c].value
             /\ OnCoin(e.coins[c]) + Booked(ls, am, c) = OnCoin(d.coins[c]) + Booked(lists, amounts, c)
    <2>1. CASE c \notin Range(cs)
        BY <1>4, <2>1
    <2>2. CASE c \in Range(cs)
        <3>1. PICK i \in 1 .. m : cs[i] = c
            BY <2>2 DEF Range, ListedOnce
        <3>2. e.coins[c].value = d.coins[c].value /\ e.coins[c].currentAmount = 0
              /\ AllocatedOf(e.coins[c]) = AllocatedOf(d.coins[c])
            BY <3>1, <1>5 DEF CoinEmptied, AllocatedOf
        <3>3. Booked(ls, am, c) = Booked(lists, amounts, c) + d.coins[c].currentAmount
            BY <3>1, <1>5
        <3>. QED
            BY <3>2, <3>3, <1>3 DEF OnCoin
    <2>. QED
        BY <2>1, <2>2
<1>. QED
    BY <1>0, <1>2, <1>6 DEF AllMoved

(* What came back to a coin depends on the recoups, and on what their coins were made from. *)
LEMMA BackSame ==
    ASSUME NEW d, NEW e, RecoupBooks(d), RefreshBooks(d), e.recoupGroups = d.recoupGroups,
           SameAt(KeysOf(OldCoins(d)), OldCoins(d), OldCoins(e)), NEW c
    PROVE  Back(e, c) = Back(d, c)
<1>1. /\ RecoupLists(e) = RecoupLists(d) /\ RecoupAmounts(e) = RecoupAmounts(d)
      /\ FinishedLists(e) = FinishedLists(d)
    BY DEF RecoupLists, RecoupAmounts, FinishedLists
<1>. PICK lists, olds, news : lists = RecoupLists(d) /\ olds = OldCoins(d) /\ news = OldCoins(e)
    OBVIOUS
<1>2. ASSUME NEW k \in KeysOf(lists), SourceOf(AmountAt(k, lists)) = "refresh"
      PROVE  BackFrom(AmountAt(k, lists), olds) = BackFrom(AmountAt(k, lists), news)
    <2>1. AmountAt(k, lists) \in DOMAIN d.coins
        BY DEF RecoupBooks, ListsOk
    <2>2. PICK r : r = AmountAt(k, lists)
        OBVIOUS
    <2>3. <<r[2], r[3]>> \in KeysOf(olds)
        BY <1>2, <2>1, <2>2 DEF RefreshBooks
    <2>. QED
        BY <2>2, <2>3 DEF SameAt, BackFrom
<1>3. BackKeys(lists, FinishedLists(d), olds, c) = BackKeys(lists, FinishedLists(d), news, c)
    BY <1>2 DEF BackKeys
<1>. QED
    BY <1>1, <1>3 DEF Back

(* Refunds are in the purchases. *)
LEMMA RefundsSame ==
    ASSUME NEW d, NEW e, e.purchases = d.purchases
    PROVE  RefundTables(e) = RefundTables(d) /\ \A c : GivenBack(e, c) = GivenBack(d, c)
BY DEF RefundTables, Bought, GivenBack

(* The four sums are integers. *)
LEMMA BookedInts ==
    ASSUME NEW d, Books(d), NEW c
    PROVE  /\ Melted(d, c) \in Int /\ InRecoups(d, c) \in Int /\ Back(d, c) \in Int /\ GivenBack(d, c) \in Int
           /\ Countable(BackKeys(RecoupLists(d), FinishedLists(d), OldCoins(d), c), RecoupAmounts(d))
           /\ Countable(RefundsFor(RefundTables(d), c), CreditsOf(RefundTables(d)))
<1>1. Melted(d, c) \in Int
    BY KeysForFacts, TotalInt DEF Books, RefreshBooks, Melted, Booked
<1>2. InRecoups(d, c) \in Int
    BY KeysForFacts, TotalInt DEF Books, RecoupBooks, InRecoups, Booked
<1>3. PICK keys, am : keys = BackKeys(RecoupLists(d), FinishedLists(d), OldCoins(d), c) /\ am = RecoupAmounts(d)
    OBVIOUS
<1>4. Countable(keys, am)
    <2>1. Countable(KeysOf(RecoupLists(d)), am)
        BY <1>3 DEF Books, RecoupBooks, ListsOk
    <2>2. keys \subseteq KeysOf(RecoupLists(d))
        BY <1>3 DEF BackKeys
    <2>3. IsFiniteSet(KeysOf(RecoupLists(d)))
        BY <2>1 DEF Countable
    <2>4. IsFiniteSet(keys)
        BY <2>2, <2>3, FS_Subset
    <2>. QED
        BY <2>1, <2>2, <2>4 DEF Countable
<1>5. Back(d, c) \in Int
    BY <1>3, <1>4, TotalInt DEF Back
<1>6. PICK qs, credits : qs = RefundsFor(RefundTables(d), c) /\ credits = CreditsOf(RefundTables(d))
    OBVIOUS
<1>7. Countable(qs, credits)
    <2>1. IsFiniteSet(KeysOf(RefundTables(d)))
        BY DEF Books, RefundBooks
    <2>2. qs \subseteq KeysOf(RefundTables(d))
        BY <1>6 DEF RefundsFor
    <2>3. IsFiniteSet(qs)
        BY <2>1, <2>2, FS_Subset
    <2>4. ASSUME NEW q \in qs PROVE AmountAt(q, credits) \in Int
        <3>1. q \in KeysOf(RefundTables(d))
            BY <2>2
        <3>2. q[1] \in DOMAIN RefundTables(d) /\ q[2] \in DOMAIN RefundTables(d)[q[1]]
            BY <3>1, KeyFacts
        <3>3. AmountAt(q, credits) = AmountAt(q, RefundTables(d)).credit
            BY <1>6, <3>2 DEF AmountAt, CreditsOf
        <3>4. RefundBook(AmountAt(q, RefundTables(d)))
            BY <3>1 DEF Books, RefundBooks
        <3>. QED
            BY <3>3, <3>4 DEF RefundBook
    <2>. QED
        BY <2>3, <2>4 DEF Countable
<1>8. GivenBack(d, c) \in Int
    BY <1>6, <1>7, TotalInt DEF GivenBack
<1>. QED
    BY <1>1, <1>2, <1>3, <1>4, <1>5, <1>6, <1>7, <1>8

-----------------------------------------------------------------------------
(* What every writer of the tables keeps: the coins and what they are allocated to, the groups   *)
(* that there are, and the balance of each coin.                                                *)
CoinKept(a, b) ==
    /\ b.value = a.value
    /\ b.allocation = a.allocation \/ (a.status = "Fresh" /\ a.allocation = Absent)
BalancesKept(d, e) ==
    /\ DOMAIN e.coins = DOMAIN d.coins
    /\ \A c \in DOMAIN d.coins : Balanced(d, c) => Balanced(e, c)
AllocationsKept(d, e) == \A c \in DOMAIN d.coins : e.coins[c].allocation = d.coins[c].allocation

(* createRefreshGroup moves money from the coins into the group. *)
LEMMA RefreshBooked ==
    ASSUME NEW d, DbShape(d), CoinsOk(d.coins), IsList(d.refreshGroups), Books(d),
           NEW cs, CoinList(cs, DOMAIN d.coins)
    PROVE  LET e == CreateRefreshGroup(d, cs) IN
           Books(e) /\ BalancesKept(d, e) /\ AllocationsKept(d, e) /\ e.purchases = d.purchases
<1>. PICK e : e = CreateRefreshGroup(d, cs)
    OBVIOUS
<1>. PICK m : ListedOnce(cs, m) /\ \A i \in 1 .. m : cs[i] \in DOMAIN d.coins
    BY Zenon DEF CoinList
<1>n. PICK n : n = Len(d.refreshGroups) + 1
    OBVIOUS
<1>1. /\ CoinsEmptied(d.coins, e.coins, cs)
      /\ e.refreshGroups = Append(d.refreshGroups, NewGroup(d, cs))
      /\ e.recoupGroups = d.recoupGroups /\ e.purchases = d.purchases
    BY RefreshGroupFields
<1>. HIDE DEF CreateRefreshGroup
<1>2a. GroupPut(d, e, cs, n)
    BY <1>1, <1>n DEF GroupPut
<1>2. /\ GroupAdded(OldCoins(d), InputAmounts(d), OldCoins(e), InputAmounts(e), n, m)
      /\ EntriesOf(d, cs, OldCoins(e), InputAmounts(e), n, m)
      /\ GroupsExtended(d.refreshGroups, e.refreshGroups, n)
      /\ e.refreshGroups[n].session = <<>>
    BY <1>2a, RefreshGroupListed, Zenon
<1>3. CoinBooks(d) /\ RefreshBooks(d) /\ RecoupBooks(d) /\ RefundBooks(d)
    BY DEF Books
<1>4. ListsOk(OldCoins(d), InputAmounts(d), DOMAIN d.coins)
    BY <1>3 DEF RefreshBooks
<1>5. /\ ListsOk(OldCoins(e), InputAmounts(e), DOMAIN e.coins)
      /\ \A c \in DOMAIN d.coins :
            /\ e.coins[c].value = d.coins[c].value
            /\ OnCoin(e.coins[c]) + Melted(e, c) = OnCoin(d.coins[c]) + Melted(d, c)
    <2>1. /\ ListsOk(OldCoins(e), InputAmounts(e), DOMAIN e.coins)
          /\ AllMoved(d, e, OldCoins(d), InputAmounts(d), OldCoins(e), InputAmounts(e))
        BY <1>1, <1>2, <1>3, <1>4, MovedIntoGroup, Zenon
    <2>. QED
        BY <2>1 DEF AllMoved, Melted
<1>6. /\ KeysOf(OldCoins(e)) = KeysOf(OldCoins(d)) \cup NewKeys(n, m)
      /\ SameAt(KeysOf(OldCoins(d)), OldCoins(d), OldCoins(e))
    BY <1>2, GroupKeys
<1>7. DOMAIN e.coins = DOMAIN d.coins
    BY <1>1 DEF CoinsEmptied
<1>8. RefreshBooks(e)
    <2>1. \A c \in DOMAIN e.coins : SourceOf(c) = "refresh" => <<c[2], c[3]>> \in KeysOf(OldCoins(e))
        BY <1>3, <1>6, <1>7 DEF RefreshBooks
    <2>2. ASSUME NEW g \in DOMAIN e.refreshGroups, NEW i \in DOMAIN e.refreshGroups[g].session
          PROVE  e.refreshGroups[g].session[i].output \in Int
        <3>1. CASE g = n
            BY <1>2, <3>1, <2>2
        <3>2. CASE g \in DOMAIN d.refreshGroups
            BY <1>2, <1>3, <3>2, <2>2 DEF RefreshBooks, OutputsOk, GroupsExtended
        <3>. QED
            BY <1>2, <3>1, <3>2 DEF GroupsExtended
    <2>. QED
        BY <1>5, <2>1, <2>2 DEF RefreshBooks, OutputsOk
<1>9. RecoupBooks(e)
    <2>1. RecoupLists(e) = RecoupLists(d) /\ RecoupAmounts(e) = RecoupAmounts(d)
        BY <1>1 DEF RecoupLists, RecoupAmounts
    <2>. QED
        BY <1>1, <1>3, <1>7, <2>1 DEF RecoupBooks, SchedulesOk
<1>10. RefundTables(e) = RefundTables(d) /\ \A c : GivenBack(e, c) = GivenBack(d, c)
    BY <1>1, RefundsSame
<1>11. RefundBooks(e)
    BY <1>3, <1>7, <1>10 DEF RefundBooks
<1>12. CoinBooks(e)
    BY <1>1, <1>3, EmptiedBooks
<1>13. ASSUME NEW c \in DOMAIN d.coins, Balanced(d, c) PROVE Balanced(e, c)
    <2>1. Back(e, c) = Back(d, c)
        BY <1>1, <1>3, <1>6, BackSame
    <2>2. InRecoups(e, c) = InRecoups(d, c)
        BY <1>1 DEF InRecoups, RecoupLists, RecoupAmounts
    <2>3. Melted(d, c) \in Int /\ Melted(e, c) \in Int /\ InRecoups(d, c) \in Int
        <3>1. Books(e)
            BY <1>8, <1>9, <1>11, <1>12 DEF Books
        <3>. QED
            BY <3>1, BookedInts
    <2>4. OnCoin(d.coins[c]) \in Int /\ OnCoin(e.coins[c]) \in Int
        BY <1>3, <1>7, <1>12 DEF CoinBooks, CoinBook, OnCoin, AllocatedOf
    <2>. QED
        BY <1>5, <1>10, <2>1, <2>2, <2>3, <2>4, <1>13 DEF Balanced
<1>14. AllocationsKept(d, e)
    BY <1>1 DEF CoinsEmptied, CoinEmptied, AllocationsKept
<1>15. Books(e) /\ BalancesKept(d, e)
    BY <1>7, <1>8, <1>9, <1>11, <1>12, <1>13 DEF Books, BalancesKept
<1>. QED
    BY <1>1, <1>14, <1>15

(* A recoup that is finished from the beginning moves nothing back. *)
LEMMA BackPadded ==
    ASSUME NEW d, NEW e, NEW n, NEW m, NEW c, OldCoins(e) = OldCoins(d),
           Countable(BackKeys(RecoupLists(e), FinishedLists(e), OldCoins(e), c), RecoupAmounts(e)),
           GroupAdded(RecoupLists(d), RecoupAmounts(d), RecoupLists(e), RecoupAmounts(e), n, m),
           \A g \in DOMAIN d.recoupGroups : FinishedLists(e)[g] = FinishedLists(d)[g],
           \A i \in FinishedLists(e)[n] : i \in 1 .. m /\ RecoupAmounts(e)[n][i] = 0
    PROVE  Back(e, c) = Back(d, c)
<1>. PICK keys : keys = BackKeys(RecoupLists(d), FinishedLists(d), OldCoins(d), c)
    OBVIOUS
<1>. PICK ks : ks = BackKeys(RecoupLists(e), FinishedLists(e), OldCoins(e), c)
    OBVIOUS
<1>0. m \in Nat
    BY DEF GroupAdded
<1>1. /\ KeysOf(RecoupLists(e)) = KeysOf(RecoupLists(d)) \cup NewKeys(n, m)
      /\ KeysOf(RecoupLists(d)) \cap NewKeys(n, m) = {}
      /\ SameAt(KeysOf(RecoupLists(d)), RecoupLists(d), RecoupLists(e))
      /\ SameAt(KeysOf(RecoupLists(d)), RecoupAmounts(d), RecoupAmounts(e))
    BY GroupKeys, Zenon
<1>2. ASSUME NEW k \in KeysOf(RecoupLists(d))
      PROVE  /\ AmountAt(k, RecoupLists(e)) = AmountAt(k, RecoupLists(d))
             /\ FinishedLists(e)[k[1]] = FinishedLists(d)[k[1]]
    <2>1. k[1] \in DOMAIN RecoupLists(d)
        BY KeyFacts, Zenon
    <2>2. k[1] \in DOMAIN d.recoupGroups
        BY <2>1 DEF RecoupLists
    <2>. QED
        BY <1>1, <2>2 DEF SameAt
<1>3. keys \subseteq ks
    BY <1>1, <1>2 DEF BackKeys
<1>4. SameAt(keys, RecoupAmounts(d), RecoupAmounts(e))
    BY <1>1 DEF BackKeys, SameAt
<1>5. ASSUME NEW k \in ks \ keys PROVE AmountAt(k, RecoupAmounts(e)) = 0
    <2>1. k \in KeysOf(RecoupLists(e)) /\ k[2] \in FinishedLists(e)[k[1]]
        BY DEF BackKeys
    <2>2. k \notin KeysOf(RecoupLists(d))
        BY <1>2 DEF BackKeys
    <2>3. k[1] = n
        BY <1>0, <1>1, <2>1, <2>2, NewKeysFacts
    <2>. QED
        BY <2>1, <2>3 DEF AmountAt
<1>6. Total(ks, RecoupAmounts(e)) = Total(keys, RecoupAmounts(d))
    BY <1>3, <1>4, <1>5, TotalPadded
<1>. QED
    BY <1>6 DEF Back

(* createRecoupGroup moves money from the coins into the group. *)
LEMMA RecoupBooked ==
    ASSUME NEW d, DbShape(d), CoinsOk(d.coins), IsList(d.recoupGroups), Books(d),
           NEW cs, CoinList(cs, DOMAIN d.coins)
    PROVE  LET e == CreateRecoupGroup(d, cs) IN
           Books(e) /\ BalancesKept(d, e) /\ AllocationsKept(d, e) /\ e.purchases = d.purchases
<1>. PICK e : e = CreateRecoupGroup(d, cs)
    OBVIOUS
<1>. PICK m : ListedOnce(cs, m) /\ \A i \in 1 .. m : cs[i] \in DOMAIN d.coins
    BY Zenon DEF CoinList
<1>n. PICK n : n = Len(d.recoupGroups) + 1
    OBVIOUS
<1>1. /\ CoinsEmptied(d.coins, e.coins, cs)
      /\ RecoupAppended(d, e, cs, n)
      /\ e.refreshGroups = d.refreshGroups /\ e.purchases = d.purchases
    BY <1>n, RecoupGroupFields
<1>2. /\ GroupAdded(RecoupLists(d), RecoupAmounts(d), RecoupLists(e), RecoupAmounts(e), n, m)
      /\ EntriesOf(d, cs, RecoupLists(e), RecoupAmounts(e), n, m)
      /\ GroupsExtended(d.recoupGroups, e.recoupGroups, n)
      /\ \A g \in DOMAIN d.recoupGroups : FinishedLists(e)[g] = FinishedLists(d)[g]
      /\ \A i \in FinishedLists(e)[n] : i \in 1 .. m /\ RecoupAmounts(e)[n][i] = 0
      /\ e.recoupGroups[n].scheduleRefreshCoins = {}
    BY <1>1, RecoupGroupListed
<1>3. CoinBooks(d) /\ RefreshBooks(d) /\ RecoupBooks(d) /\ RefundBooks(d)
    BY DEF Books
<1>4. ListsOk(RecoupLists(d), RecoupAmounts(d), DOMAIN d.coins)
    BY <1>3 DEF RecoupBooks
<1>5. /\ ListsOk(RecoupLists(e), RecoupAmounts(e), DOMAIN e.coins)
      /\ AllMoved(d, e, RecoupLists(d), RecoupAmounts(d), RecoupLists(e), RecoupAmounts(e))
    BY <1>1, <1>2, <1>3, <1>4, MovedIntoGroup, Zenon
<1>6. OldCoins(e) = OldCoins(d) /\ InputAmounts(e) = InputAmounts(d)
    BY <1>1 DEF OldCoins, InputAmounts
<1>7. DOMAIN e.coins = DOMAIN d.coins
    BY <1>1 DEF CoinsEmptied
<1>8. RefreshBooks(e)
    BY <1>1, <1>3, <1>6, <1>7 DEF RefreshBooks, OutputsOk
<1>9. RecoupBooks(e)
    <2>1. ASSUME NEW g \in DOMAIN e.recoupGroups
          PROVE  e.recoupGroups[g].scheduleRefreshCoins \subseteq DOMAIN e.coins
        BY <1>2, <1>3, <1>7 DEF RecoupBooks, SchedulesOk, GroupsExtended
    <2>. QED
        BY <1>5, <2>1 DEF RecoupBooks, SchedulesOk
<1>10. RefundTables(e) = RefundTables(d) /\ \A c : GivenBack(e, c) = GivenBack(d, c)
    BY <1>1, RefundsSame
<1>11. RefundBooks(e)
    BY <1>3, <1>7, <1>10 DEF RefundBooks
<1>12. CoinBooks(e)
    BY <1>1, <1>3, EmptiedBooks
<1>13. Books(e)
    BY <1>8, <1>9, <1>11, <1>12 DEF Books
<1>14. ASSUME NEW c \in DOMAIN d.coins, Balanced(d, c) PROVE Balanced(e, c)
    <2>1. Back(e, c) = Back(d, c)
        <3>1. Countable(BackKeys(RecoupLists(e), FinishedLists(e), OldCoins(e), c), RecoupAmounts(e))
            BY <1>13, BookedInts
        <3>. QED
            BY <1>2, <1>6, <3>1, BackPadded
    <2>2. Melted(e, c) = Melted(d, c)
        BY <1>6 DEF Melted
    <2>3. Melted(d, c) \in Int /\ InRecoups(d, c) \in Int /\ InRecoups(e, c) \in Int
        BY <1>13, BookedInts
    <2>4. OnCoin(d.coins[c]) \in Int /\ OnCoin(e.coins[c]) \in Int
        BY <1>3, <1>7, <1>12 DEF CoinBooks, CoinBook, OnCoin, AllocatedOf
    <2>5. /\ e.coins[c].value = d.coins[c].value
          /\ OnCoin(e.coins[c]) + InRecoups(e, c) = OnCoin(d.coins[c]) + InRecoups(d, c)
        BY <1>5 DEF AllMoved, InRecoups
    <2>. QED
        BY <1>10, <2>1, <2>2, <2>3, <2>4, <2>5, <1>14 DEF Balanced
<1>15. AllocationsKept(d, e)
    BY <1>1 DEF CoinsEmptied, CoinEmptied, AllocationsKept
<1>. QED
    BY <1>1, <1>7, <1>13, <1>14, <1>15 DEF BalancesKept

-----------------------------------------------------------------------------
(* A step that leaves the tables alone, but for what they say beside money, *)
SameLists(d, e) ==
    /\ OldCoins(e) = OldCoins(d) /\ InputAmounts(e) = InputAmounts(d)
    /\ RecoupLists(e) = RecoupLists(d) /\ RecoupAmounts(e) = RecoupAmounts(d)
    /\ FinishedLists(e) = FinishedLists(d) /\ RefundTables(e) = RefundTables(d)
SameTables(d, e) ==
    e.refreshGroups = d.refreshGroups /\ e.recoupGroups = d.recoupGroups /\ e.purchases = d.purchases

(* leaves the sums as they were. *)
LEMMA SameSums ==
    ASSUME NEW d, NEW e, SameLists(d, e), NEW c
    PROVE  /\ Melted(e, c) = Melted(d, c) /\ InRecoups(e, c) = InRecoups(d, c)
           /\ Back(e, c) = Back(d, c) /\ GivenBack(e, c) = GivenBack(d, c)
BY DEF SameLists, Melted, InRecoups, Back, GivenBack

(* Tables that are the same say the same of money. *)
LEMMA TablesSayTheSame ==
    ASSUME NEW d, NEW e, SameTables(d, e)
    PROVE  /\ SameLists(d, e) /\ (OutputsOk(d) => OutputsOk(e))
           /\ (SchedulesOk(d) /\ DOMAIN d.coins \subseteq DOMAIN e.coins => SchedulesOk(e))
BY DEF SameTables, SameLists, OldCoins, InputAmounts, RecoupLists, RecoupAmounts, FinishedLists,
       RefundTables, Bought, OutputsOk, SchedulesOk

(* A coin whose money is as before is balanced as before. *)
LEMMA BalanceSame ==
    ASSUME NEW d, NEW e, SameLists(d, e), NEW c, Balanced(d, c),
           e.coins[c].value = d.coins[c].value, OnCoin(e.coins[c]) = OnCoin(d.coins[c])
    PROVE  Balanced(e, c)
BY SameSums DEF Balanced

(* More coins do no harm to lists of coins. *)
LEMMA ListsOkMore ==
    ASSUME NEW lists, NEW amounts, NEW coins, NEW more, ListsOk(lists, amounts, coins), coins \subseteq more
    PROVE  ListsOk(lists, amounts, more)
BY DEF ListsOk

(* Books whose tables say the same, with the same or more coins, are in order. *)
LEMMA BooksSame ==
    ASSUME NEW d, NEW e, Books(d), SameLists(d, e), CoinBooks(e), DOMAIN d.coins \subseteq DOMAIN e.coins,
           OutputsOk(e), SchedulesOk(e),
           \A c \in DOMAIN e.coins \ DOMAIN d.coins :
               SourceOf(c) = "refresh" => <<c[2], c[3]>> \in KeysOf(OldCoins(d))
    PROVE  Books(e)
<1>1. RefreshBooks(d) /\ RecoupBooks(d) /\ RefundBooks(d)
    BY DEF Books
<1>2. RefreshBooks(e)
    <2>1. ListsOk(OldCoins(e), InputAmounts(e), DOMAIN e.coins)
        BY <1>1, ListsOkMore DEF RefreshBooks, SameLists
    <2>2. ASSUME NEW c \in DOMAIN e.coins, SourceOf(c) = "refresh" PROVE <<c[2], c[3]>> \in KeysOf(OldCoins(e))
        BY <1>1, <2>2 DEF RefreshBooks, SameLists
    <2>. QED
        BY <2>1, <2>2 DEF RefreshBooks
<1>3. RecoupBooks(e)
    BY <1>1, ListsOkMore DEF RecoupBooks, SameLists
<1>4. RefundBooks(e)
    BY <1>1 DEF RefundBooks, SameLists
<1>. QED
    BY <1>2, <1>3, <1>4 DEF Books

-----------------------------------------------------------------------------
(* Coins are spent: what is taken from a fresh coin is allocated. *)
CoinSpentFor(a, b, id, x) ==
    /\ b.value = a.value /\ b.status = "Dormant"
    /\ b.allocation = [id |-> id, amount |-> x] /\ b.currentAmount = Sub(a.currentAmount, x)
CoinsSpentFor(f, g, sel, id) ==
    /\ DOMAIN g = DOMAIN f
    /\ \A c \in DOMAIN f : IF c \in DOMAIN sel /\ f[c].status = "Fresh" THEN CoinSpentFor(f[c], g[c], id, sel[c])
                           ELSE g[c] = f[c]

(* applyCoinSpend changes the coins, then it creates the refresh group. *)
LEMMA SpendFields ==
    ASSUME NEW d, NEW sel, NEW id, DbShape(d), CoinsOk(d.coins)
    PROVE  \E e : /\ ApplyCoinSpend(d, sel, id) = CreateRefreshGroup(e, SetToSeq(DOMAIN sel))
                  /\ DbShape(e) /\ CoinsOk(e.coins) /\ CoinsSpentFor(d.coins, e.coins, sel, id)
                  /\ SameTables(d, e)
<1>. DEFINE f == [c \in DOMAIN d.coins |->
                     IF c \in DOMAIN sel /\ d.coins[c].status = "Fresh"
                     THEN SpendCoin(d.coins[c], id, sel[c]) ELSE d.coins[c]]
            e == [d EXCEPT !.coins = f]
<1>1. ASSUME NEW c \in DOMAIN d.coins
      PROVE  /\ CoinShape(f[c])
             /\ IF c \in DOMAIN sel /\ d.coins[c].status = "Fresh"
                THEN CoinSpentFor(d.coins[c], f[c], id, sel[c]) ELSE f[c] = d.coins[c]
    <2>. PICK left : left = Sub(d.coins[c].currentAmount, sel[c])
        OBVIOUS
    <2>1. CoinShape(d.coins[c])
        BY DEF CoinsOk
    <2>2. SpendCoin(d.coins[c], id, sel[c]) =
              [d.coins[c] EXCEPT !.status = "Dormant",
                  !.allocation = [id |-> id, amount |-> sel[c]], !.currentAmount = left]
        BY DEF SpendCoin
    <2>3. /\ CoinShape(SpendCoin(d.coins[c], id, sel[c]))
          /\ CoinSpentFor(d.coins[c], SpendCoin(d.coins[c], id, sel[c]), id, sel[c])
        BY <2>1, <2>2 DEF CoinShape, CoinSpentFor
    <2>. QED
        BY <2>1, <2>3
<1>2. CoinsOk(f) /\ CoinsSpentFor(d.coins, f, sel, id)
    BY <1>1 DEF CoinsOk, IsFunction, CoinsSpentFor
<1>3. ApplyCoinSpend(d, sel, id) = CreateRefreshGroup(e, SetToSeq(DOMAIN sel))
    BY Zenon DEF ApplyCoinSpend
<1>. HIDE DEF f
<1>4. DbShape(e) /\ e.coins = f /\ SameTables(d, e)
    BY DEF DbShape, SameTables
<1>. QED
    BY <1>2, <1>3, <1>4, Zenon

IntAmounts(sel) == \A c \in DOMAIN sel : sel[c] \in Int

(* What stays: an allocation that there is. What is new: the coins of the selection are allocated, *)
(* but for those that are skipped.                                                              *)
MarksStay(d, e) ==
    \A c \in DOMAIN d.coins : d.coins[c].allocation = Absent \/ e.coins[c].allocation = d.coins[c].allocation
AllocatedTo(d, c, id) == d.coins[c].allocation # Absent /\ d.coins[c].allocation.id = id
SelectionSpent(d, e, sel, id) ==
    \A c \in DOMAIN sel : c \in DOMAIN d.coins /\ (c \in Skipped(d, sel) \/ AllocatedTo(e, c, id))

(* A coin keeps its money when it is spent. *)
LEMMA CoinSpentBook ==
    ASSUME NEW a, NEW b, NEW id, NEW x \in Int, CoinBook(a), CoinSpentFor(a, b, id, x), a.status = "Fresh",
           ~(a.currentAmount < x)
    PROVE  CoinBook(b) /\ OnCoin(b) = OnCoin(a) /\ b.value = a.value /\ b.allocation # Absent /\ b.allocation.id = id
<1>. PICK al : al = [id |-> id, amount |-> x]
    OBVIOUS
<1>1. al # Absent /\ al.id = id /\ al.amount = x
    <2>1. "id" \in DOMAIN al
        OBVIOUS
    <2>2. DOMAIN Absent = {}
        BY DEF Absent
    <2>. QED
        BY <2>1, <2>2
<1>2. b.allocation = al /\ b.currentAmount = a.currentAmount - x /\ b.status = "Dormant" /\ b.value = a.value
    BY DEF CoinSpentFor, Sub, CoinBook
<1>3. a.allocation = Absent
    BY DEF CoinBook
<1>. QED
    BY <1>1, <1>2, <1>3 DEF CoinBook, OnCoin, AllocatedOf

(* applyCoinSpend keeps the books and the balances. *)
LEMMA SpendBooked ==
    ASSUME NEW d, DbShape(d), CoinsOk(d.coins), IsList(d.refreshGroups), Books(d),
           NEW sel, NEW id, ~SpendConflict(d, sel, id), IntAmounts(sel)
    PROVE  LET e == ApplyCoinSpend(d, sel, id) IN
           /\ Books(e) /\ BalancesKept(d, e) /\ MarksStay(d, e) /\ SelectionSpent(d, e, sel, id)
           /\ e.purchases = d.purchases
<1>s. PICK s : /\ ApplyCoinSpend(d, sel, id) = CreateRefreshGroup(s, SetToSeq(DOMAIN sel))
               /\ DbShape(s) /\ CoinsOk(s.coins) /\ CoinsSpentFor(d.coins, s.coins, sel, id)
               /\ SameTables(d, s)
    BY SpendFields
<1>. PICK e : e = CreateRefreshGroup(s, SetToSeq(DOMAIN sel))
    OBVIOUS
<1>1. ASSUME NEW c \in DOMAIN sel
      PROVE  /\ c \in DOMAIN d.coins
             /\ d.coins[c].status = "Fresh" => ~(d.coins[c].currentAmount < sel[c])
             /\ \/ d.coins[c].status = "Fresh" \/ d.coins[c].allocation = Absent
                \/ d.coins[c].allocation = [id |-> id, amount |-> sel[c]]
    BY DEF SpendConflict
<1>2. ASSUME NEW c \in DOMAIN d.coins
      PROVE  /\ CoinBook(s.coins[c]) /\ OnCoin(s.coins[c]) = OnCoin(d.coins[c]) /\ s.coins[c].value = d.coins[c].value
             /\ d.coins[c].allocation = Absent \/ s.coins[c].allocation = d.coins[c].allocation
             /\ c \in DOMAIN sel /\ d.coins[c].status = "Fresh" => AllocatedTo(s, c, id)
    <2>0. CoinBook(d.coins[c])
        BY DEF Books, CoinBooks
    <2>1. CASE c \in DOMAIN sel /\ d.coins[c].status = "Fresh"
        <3>1. CoinSpentFor(d.coins[c], s.coins[c], id, sel[c]) /\ sel[c] \in Int
            BY <1>s, <2>1 DEF CoinsSpentFor, IntAmounts
        <3>2. ~(d.coins[c].currentAmount < sel[c]) /\ d.coins[c].status = "Fresh"
            BY <1>1, <2>1
        <3>3. /\ CoinBook(s.coins[c]) /\ OnCoin(s.coins[c]) = OnCoin(d.coins[c])
              /\ s.coins[c].value = d.coins[c].value
              /\ s.coins[c].allocation # Absent /\ s.coins[c].allocation.id = id
            BY <2>0, <3>1, <3>2, CoinSpentBook
        <3>. QED
            BY <2>0, <2>1, <3>3 DEF CoinBook, AllocatedTo
    <2>2. CASE ~(c \in DOMAIN sel /\ d.coins[c].status = "Fresh")
        <3>1. s.coins[c] = d.coins[c]
            BY <1>s, <2>2, Zenon DEF CoinsSpentFor
        <3>. QED
            BY <2>0, <2>2, <3>1
    <2>. QED
        BY <2>1, <2>2
<1>3. DOMAIN s.coins = DOMAIN d.coins
    BY <1>s DEF CoinsSpentFor
<1>4. CoinBooks(s)
    BY <1>2, <1>3 DEF CoinBooks, Books
<1>5. SameLists(d, s) /\ OutputsOk(s) /\ SchedulesOk(s) /\ s.purchases = d.purchases /\ IsList(s.refreshGroups)
    <2>1. OutputsOk(d) /\ SchedulesOk(d)
        BY DEF Books, RefreshBooks, RecoupBooks
    <2>. QED
        BY <1>s, <1>3, <2>1, TablesSayTheSame DEF SameTables
<1>6. Books(s)
    BY <1>3, <1>4, <1>5, BooksSame
<1>7. BalancesKept(d, s)
    BY <1>2, <1>3, <1>5, BalanceSame DEF BalancesKept
<1>8. CoinList(SetToSeq(DOMAIN sel), DOMAIN s.coins)
    <2>1. IsFiniteSet(DOMAIN s.coins) /\ DOMAIN sel \subseteq DOMAIN s.coins
        BY <1>1, <1>3, <1>4 DEF CoinBooks
    <2>. QED
        BY <2>1, ListOfSubset
<1>9. Books(e) /\ BalancesKept(s, e) /\ AllocationsKept(s, e) /\ e.purchases = s.purchases
    BY <1>s, <1>5, <1>6, <1>8, RefreshBooked
<1>10. BalancesKept(d, e)
    BY <1>7, <1>9 DEF BalancesKept
<1>11. MarksStay(d, e)
    BY <1>2, <1>3, <1>9 DEF MarksStay, AllocationsKept
<1>12. SelectionSpent(d, e, sel, id)
    <2>1. ASSUME NEW c \in DOMAIN sel
          PROVE  c \in DOMAIN d.coins /\ (c \in Skipped(d, sel) \/ AllocatedTo(e, c, id))
        <3>1. c \in DOMAIN d.coins /\ e.coins[c].allocation = s.coins[c].allocation
            BY <1>1, <1>3, <1>9 DEF AllocationsKept
        <3>2. CASE d.coins[c].status = "Fresh"
            BY <1>2, <3>1, <3>2 DEF AllocatedTo
        <3>3. CASE d.coins[c].status # "Fresh" /\ d.coins[c].allocation = Absent
            BY <3>1, <3>3 DEF Skipped
        <3>4. CASE d.coins[c].allocation = [id |-> id, amount |-> sel[c]] /\ d.coins[c].allocation # Absent
            BY <1>2, <3>1, <3>4 DEF AllocatedTo
        <3>. QED
            BY <1>1, <3>2, <3>3, <3>4
    <2>. QED
        BY <2>1 DEF SelectionSpent
<1>. QED
    BY <1>s, <1>5, <1>9, <1>10, <1>11, <1>12

-----------------------------------------------------------------------------
(* Coins are stored, with their value on them. *)
NewCoins(d, e, S) ==
    /\ IsFiniteSet(S) /\ DOMAIN e.coins = DOMAIN d.coins \cup S
    /\ \A c \in S : /\ e.coins[c].value \in Int /\ e.coins[c].currentAmount = e.coins[c].value
                    /\ e.coins[c].allocation = Absent
                    /\ SourceOf(c) = "refresh" => <<c[2], c[3]>> \in KeysOf(OldCoins(d))
    /\ \A c \in DOMAIN d.coins \ S : e.coins[c] = d.coins[c]

(* Nothing is booked for a coin that there is not. *)
LEMMA NothingBooked ==
    ASSUME NEW d, Books(d), NEW c, c \notin DOMAIN d.coins
    PROVE  Melted(d, c) = 0 /\ InRecoups(d, c) = 0 /\ Back(d, c) = 0 /\ GivenBack(d, c) = 0
<1>0. RefreshBooks(d) /\ RecoupBooks(d) /\ RefundBooks(d)
    BY DEF Books
<1>1. KeysFor(OldCoins(d), c) = {} /\ KeysFor(RecoupLists(d), c) = {}
    BY <1>0, KeysForFacts DEF RefreshBooks, RecoupBooks
<1>2. BackKeys(RecoupLists(d), FinishedLists(d), OldCoins(d), c) = {}
    <2>1. ASSUME NEW k \in KeysOf(RecoupLists(d)), SourceOf(AmountAt(k, RecoupLists(d))) = "refresh"
          PROVE  BackFrom(AmountAt(k, RecoupLists(d)), OldCoins(d)) # c
        <3>. PICK r : r = AmountAt(k, RecoupLists(d))
            OBVIOUS
        <3>1. r \in DOMAIN d.coins
            BY <1>0 DEF RecoupBooks, ListsOk
        <3>2. <<r[2], r[3]>> \in KeysOf(OldCoins(d))
            BY <1>0, <2>1, <3>1 DEF RefreshBooks
        <3>3. AmountAt(<<r[2], r[3]>>, OldCoins(d)) \in DOMAIN d.coins
            BY <1>0, <3>2 DEF RefreshBooks, ListsOk
        <3>. QED
            BY <3>3 DEF BackFrom
    <2>. QED
        BY <2>1 DEF BackKeys
<1>3. RefundsFor(RefundTables(d), c) = {}
    BY <1>0 DEF RefundBooks, RefundsFor
<1>. QED
    BY <1>1, <1>2, <1>3, TotalNone DEF Melted, InRecoups, Booked, Back, GivenBack

(* A new coin is worth what is on it; the others are as before. *)
LEMMA NewCoinsBooked ==
    ASSUME NEW d, NEW e, NEW S, Books(d), SameLists(d, e), NewCoins(d, e, S), OutputsOk(e), SchedulesOk(e)
    PROVE  /\ Books(e)
           /\ \A c \in DOMAIN d.coins \ S : Balanced(d, c) => Balanced(e, c)
           /\ \A c \in S \ DOMAIN d.coins : Balanced(e, c)
<1>1. CoinBooks(e)
    <2>1. IsFiniteSet(DOMAIN d.coins \cup S)
        <3>1. IsFiniteSet(DOMAIN d.coins) /\ IsFiniteSet(S)
            BY DEF Books, CoinBooks, NewCoins
        <3>. QED
            BY <3>1, FS_Union
    <2>2. ASSUME NEW c \in DOMAIN e.coins PROVE CoinBook(e.coins[c])
        BY DEF NewCoins, Books, CoinBooks, CoinBook
    <2>. QED
        BY <2>1, <2>2 DEF CoinBooks, NewCoins
<1>2. Books(e)
    BY <1>1, BooksSame DEF NewCoins
<1>3. ASSUME NEW c \in DOMAIN d.coins \ S, Balanced(d, c) PROVE Balanced(e, c)
    <2>1. e.coins[c] = d.coins[c]
        BY DEF NewCoins
    <2>. QED
        BY <1>3, <2>1, BalanceSame
<1>4. ASSUME NEW c \in S \ DOMAIN d.coins PROVE Balanced(e, c)
    <2>1. Melted(e, c) = 0 /\ InRecoups(e, c) = 0 /\ Back(e, c) = 0 /\ GivenBack(e, c) = 0
        BY SameSums, NothingBooked
    <2>2. /\ e.coins[c].value \in Int /\ e.coins[c].currentAmount = e.coins[c].value
          /\ AllocatedOf(e.coins[c]) = 0
        BY DEF NewCoins, AllocatedOf
    <2>. QED
        BY <2>1, <2>2 DEF Balanced, OnCoin
<1>. QED
    BY <1>2, <1>3, <1>4

(* A step that has no bearing on money keeps the books. *)
LEMMA QuietBooked ==
    ASSUME NEW d, NEW e, Books(d), SameLists(d, e), e.coins = d.coins, OutputsOk(e), SchedulesOk(e)
    PROVE  Books(e) /\ BalancesKept(d, e) /\ AllocationsKept(d, e)
<1>1. Books(e)
    BY BooksSame DEF Books, CoinBooks
<1>2. BalancesKept(d, e)
    BY BalanceSame DEF BalancesKept
<1>. QED
    BY <1>1, <1>2 DEF AllocationsKept

(* The refunds of one order are dropped: coins that have none of them are balanced as before. *)
RefundsDropped(d, e, o) ==
    /\ e.refreshGroups = d.refreshGroups /\ e.recoupGroups = d.recoupGroups /\ e.coins = d.coins
    /\ Bought(e) = Bought(d) \cup {o} /\ o \in Orders /\ e.purchases[o].refunds = <<>>
    /\ \A u \in Orders \ {o} : e.purchases[u] = d.purchases[u]

(* Dropping the refunds of an order keeps the books. *)
LEMMA RefundsDroppedBooked ==
    ASSUME NEW d, NEW e, NEW o, Books(d), RefundsDropped(d, e, o)
    PROVE  /\ Books(e)
           /\ \A c \in DOMAIN d.coins :
                 Balanced(d, c) /\ (\A q \in KeysOf(RefundTables(d)) : q[2][1] = c => q[1] # o) => Balanced(e, c)
<1>1. /\ OldCoins(e) = OldCoins(d) /\ InputAmounts(e) = InputAmounts(d)
      /\ RecoupLists(e) = RecoupLists(d) /\ RecoupAmounts(e) = RecoupAmounts(d)
      /\ FinishedLists(e) = FinishedLists(d) /\ e.coins = d.coins
    BY DEF RefundsDropped, OldCoins, InputAmounts, RecoupLists, RecoupAmounts, FinishedLists
<1>2. /\ DOMAIN RefundTables(e) = DOMAIN RefundTables(d) \cup {o} /\ DOMAIN RefundTables(e)[o] = {}
      /\ \A u \in DOMAIN RefundTables(e) \ {o} : u \in DOMAIN RefundTables(d) /\ RefundTables(e)[u] = RefundTables(d)[u]
    BY DEF RefundsDropped, RefundTables, Bought
<1>3. KeysOf(RefundTables(e)) = {q \in KeysOf(RefundTables(d)) : q[1] # o}
    <2>1. ASSUME NEW q \in KeysOf(RefundTables(e)) PROVE q \in KeysOf(RefundTables(d)) /\ q[1] # o
        <3>1. PICK g, i : g \in DOMAIN RefundTables(e) /\ i \in DOMAIN RefundTables(e)[g] /\ q = <<g, i>>
            BY <2>1, KeyFacts
        <3>2. g # o /\ g \in DOMAIN RefundTables(d) /\ i \in DOMAIN RefundTables(d)[g]
            BY <1>2, <3>1
        <3>3. <<g, i>> \in KeysOf(RefundTables(d))
            BY <3>2, KeyFacts, Zenon
        <3>. QED
            BY <3>1, <3>2, <3>3
    <2>2. ASSUME NEW q \in KeysOf(RefundTables(d)), q[1] # o PROVE q \in KeysOf(RefundTables(e))
        <3>1. PICK g, i : g \in DOMAIN RefundTables(d) /\ i \in DOMAIN RefundTables(d)[g] /\ q = <<g, i>>
            BY <2>2, KeyFacts
        <3>2. g # o
            BY <2>2, <3>1
        <3>3. g \in DOMAIN RefundTables(e) /\ i \in DOMAIN RefundTables(e)[g]
            BY <1>2, <3>1, <3>2
        <3>4. <<g, i>> \in KeysOf(RefundTables(e))
            BY <3>3, KeyFacts, Zenon
        <3>. QED
            BY <3>1, <3>4
    <2>. QED
        BY <2>1, <2>2
<1>4. ASSUME NEW q \in KeysOf(RefundTables(e))
      PROVE  /\ q[1] \in DOMAIN RefundTables(e) /\ q[1] # o /\ q[2] \in DOMAIN RefundTables(e)[q[1]]
             /\ AmountAt(q, RefundTables(e)) = AmountAt(q, RefundTables(d))
    BY <1>2, <1>3, KeyFacts DEF AmountAt
<1>5. IsFiniteSet(KeysOf(RefundTables(e)))
    <2>1. KeysOf(RefundTables(e)) \subseteq KeysOf(RefundTables(d)) /\ IsFiniteSet(KeysOf(RefundTables(d)))
        BY <1>3 DEF Books, RefundBooks
    <2>. QED
        BY <2>1, FS_Subset
<1>6. RefundBooks(e)
    BY <1>1, <1>3, <1>4, <1>5 DEF Books, RefundBooks
<1>7. CoinBooks(e) /\ RefreshBooks(e) /\ RecoupBooks(e)
    BY <1>1 DEF Books, CoinBooks, RefreshBooks, RecoupBooks, OutputsOk, SchedulesOk, RefundsDropped
<1>8. ASSUME NEW c \in DOMAIN d.coins, Balanced(d, c), \A q \in KeysOf(RefundTables(d)) : q[2][1] = c => q[1] # o
      PROVE  Balanced(e, c)
    <2>1. RefundsFor(RefundTables(e), c) = RefundsFor(RefundTables(d), c)
        BY <1>3, <1>8 DEF RefundsFor
    <2>2. ASSUME NEW q \in RefundsFor(RefundTables(e), c)
          PROVE  AmountAt(q, CreditsOf(RefundTables(d))) = AmountAt(q, CreditsOf(RefundTables(e)))
        <3>1. q \in KeysOf(RefundTables(e))
            BY DEF RefundsFor
        <3>2. /\ q[1] \in DOMAIN RefundTables(e) /\ q[1] # o /\ q[2] \in DOMAIN RefundTables(e)[q[1]]
              /\ q[1] \in DOMAIN RefundTables(d) /\ RefundTables(e)[q[1]] = RefundTables(d)[q[1]]
            BY <1>2, <1>4, <3>1
        <3>. QED
            BY <3>2 DEF CreditsOf, AmountAt
    <2>3. SameAt(RefundsFor(RefundTables(d), c), CreditsOf(RefundTables(d)), CreditsOf(RefundTables(e)))
        BY <2>1, <2>2 DEF SameAt
    <2>4. GivenBack(e, c) = GivenBack(d, c)
        BY <2>1, <2>3, TotalSame DEF GivenBack
    <2>5. Melted(e, c) = Melted(d, c) /\ InRecoups(e, c) = InRecoups(d, c) /\ Back(e, c) = Back(d, c)
        BY <1>1 DEF Melted, InRecoups, Back
    <2>. QED
        BY <1>1, <1>8, <2>4, <2>5 DEF Balanced
<1>. QED
    BY <1>6, <1>7, <1>8 DEF Books

-----------------------------------------------------------------------------
(* A recoup is finished. If its coin came from a refresh, the money is back on the coin that was refreshed. *)
RecoupDone(d, e, g, i) ==
    /\ g \in DOMAIN d.recoupGroups /\ i \in DOMAIN d.recoupGroups[g].coinPubs
    /\ i \notin d.recoupGroups[g].finishedPerCoin
    /\ e.refreshGroups = d.refreshGroups /\ e.purchases = d.purchases
    /\ DOMAIN e.recoupGroups = DOMAIN d.recoupGroups
    /\ \A h \in DOMAIN d.recoupGroups \ {g} : e.recoupGroups[h] = d.recoupGroups[h]
    /\ e.recoupGroups[g].coinPubs = d.recoupGroups[g].coinPubs
    /\ e.recoupGroups[g].oldAmountPerCoin = d.recoupGroups[g].oldAmountPerCoin
    /\ e.recoupGroups[g].finishedPerCoin = d.recoupGroups[g].finishedPerCoin \cup {i}
GoesBackTo(d, g, i, c) ==
    /\ SourceOf(d.recoupGroups[g].coinPubs[i]) = "refresh"
    /\ BackFrom(d.recoupGroups[g].coinPubs[i], OldCoins(d)) = c
BackNow(d, g, i, c) == IF GoesBackTo(d, g, i, c) THEN d.recoupGroups[g].oldAmountPerCoin[i] ELSE 0

(* The lists of the recoups stay, but for the one that is finished. *)
LEMMA RecoupDoneLists ==
    ASSUME NEW d, NEW e, NEW g, NEW i, RecoupDone(d, e, g, i)
    PROVE  /\ OldCoins(e) = OldCoins(d) /\ InputAmounts(e) = InputAmounts(d) /\ RefundTables(e) = RefundTables(d)
           /\ RecoupLists(e) = RecoupLists(d) /\ RecoupAmounts(e) = RecoupAmounts(d)
           /\ \A h \in DOMAIN d.recoupGroups \ {g} : FinishedLists(e)[h] = FinishedLists(d)[h]
           /\ FinishedLists(e)[g] = FinishedLists(d)[g] \cup {i}
           /\ <<g, i>> \in KeysOf(RecoupLists(d)) /\ i \notin FinishedLists(d)[g]
<1>1. OldCoins(e) = OldCoins(d) /\ InputAmounts(e) = InputAmounts(d) /\ RefundTables(e) = RefundTables(d)
    BY DEF RecoupDone, OldCoins, InputAmounts, RefundTables, Bought
<1>2. RecoupLists(e) = RecoupLists(d)
    <2>1. DOMAIN e.recoupGroups = DOMAIN d.recoupGroups
          /\ \A h \in DOMAIN d.recoupGroups : e.recoupGroups[h].coinPubs = d.recoupGroups[h].coinPubs
        BY DEF RecoupDone
    <2>. QED
        BY <2>1 DEF RecoupLists
<1>3. RecoupAmounts(e) = RecoupAmounts(d)
    <2>1. DOMAIN e.recoupGroups = DOMAIN d.recoupGroups
          /\ \A h \in DOMAIN d.recoupGroups : e.recoupGroups[h].oldAmountPerCoin = d.recoupGroups[h].oldAmountPerCoin
        BY DEF RecoupDone
    <2>. QED
        BY <2>1 DEF RecoupAmounts
<1>4. /\ \A h \in DOMAIN d.recoupGroups \ {g} : FinishedLists(e)[h] = FinishedLists(d)[h]
      /\ FinishedLists(e)[g] = FinishedLists(d)[g] \cup {i} /\ i \notin FinishedLists(d)[g]
    BY DEF RecoupDone, FinishedLists
<1>5. <<g, i>> \in KeysOf(RecoupLists(d))
    <2>1. g \in DOMAIN RecoupLists(d) /\ i \in DOMAIN RecoupLists(d)[g]
        BY DEF RecoupDone, RecoupLists
    <2>. QED
        BY <2>1, KeyFacts, Zenon
<1>. QED
    BY <1>1, <1>2, <1>3, <1>4, <1>5

(* What has come back to a coin is more by the amount of that recoup. *)
LEMMA BackAfterRecoup ==
    ASSUME NEW d, NEW e, NEW g, NEW i, RecoupDone(d, e, g, i), Books(d), NEW c
    PROVE  Back(e, c) = Back(d, c) + BackNow(d, g, i, c)
<1>0. /\ OldCoins(e) = OldCoins(d)
      /\ RecoupLists(e) = RecoupLists(d) /\ RecoupAmounts(e) = RecoupAmounts(d)
      /\ \A h \in DOMAIN d.recoupGroups \ {g} : FinishedLists(e)[h] = FinishedLists(d)[h]
      /\ FinishedLists(e)[g] = FinishedLists(d)[g] \cup {i}
      /\ <<g, i>> \in KeysOf(RecoupLists(d)) /\ i \notin FinishedLists(d)[g]
    BY RecoupDoneLists
<1>k. PICK lists, am, olds : lists = RecoupLists(d) /\ am = RecoupAmounts(d) /\ olds = OldCoins(d)
    OBVIOUS
<1>f. PICK fd, fe : fd = FinishedLists(d) /\ fe = FinishedLists(e)
    OBVIOUS
<1>x. PICK x : x = <<g, i>>
    OBVIOUS
<1>s. PICK keys, ks : keys = BackKeys(lists, fd, olds, c) /\ ks = BackKeys(lists, fe, olds, c)
    OBVIOUS
<1>1. Back(d, c) = Total(keys, am) /\ Back(e, c) = Total(ks, am)
    BY <1>0, <1>k, <1>f, <1>s DEF Back
<1>2. x \in KeysOf(lists) /\ x[1] = g /\ x[2] = i /\ x \notin keys
    BY <1>0, <1>k, <1>f, <1>x, <1>s DEF BackKeys
<1>3. AmountAt(x, lists) = d.recoupGroups[g].coinPubs[i] /\ AmountAt(x, am) = d.recoupGroups[g].oldAmountPerCoin[i]
    BY <1>2, <1>k DEF AmountAt, RecoupLists, RecoupAmounts, RecoupDone
<1>4. ASSUME NEW k \in KeysOf(lists), k # x PROVE k[2] \in fe[k[1]] <=> k[2] \in fd[k[1]]
    <2>1. PICK h, j : h \in DOMAIN lists /\ j \in DOMAIN lists[h] /\ k = <<h, j>>
        BY <1>4, KeyFacts
    <2>2. h \in DOMAIN d.recoupGroups
        BY <2>1, <1>k DEF RecoupLists
    <2>3. CASE h = g
        BY <1>0, <1>f, <1>x, <2>1, <2>3, <1>4
    <2>4. CASE h # g
        BY <1>0, <1>f, <2>1, <2>2, <2>4
    <2>. QED
        BY <2>3, <2>4
<1>5. ASSUME NEW k, k # x PROVE k \in ks <=> k \in keys
    BY <1>4, <1>5, <1>s DEF BackKeys
<1>6. x \in ks <=> GoesBackTo(d, g, i, c)
    <2>1. x[2] \in fe[x[1]]
        BY <1>0, <1>2, <1>f
    <2>. QED
        BY <1>2, <1>3, <1>k, <1>s, <2>1 DEF BackKeys, GoesBackTo
<1>7. Countable(keys, am) /\ Countable(ks, am)
    <2>1. Countable(KeysOf(lists), am)
        BY <1>k DEF Books, RecoupBooks, ListsOk
    <2>2. keys \subseteq KeysOf(lists) /\ ks \subseteq KeysOf(lists)
        BY <1>s DEF BackKeys
    <2>3. IsFiniteSet(KeysOf(lists))
        BY <2>1 DEF Countable
    <2>4. IsFiniteSet(keys)
        BY <2>2, <2>3, FS_Subset
    <2>5. IsFiniteSet(ks)
        BY <2>2, <2>3, FS_Subset
    <2>. QED
        BY <2>1, <2>2, <2>4, <2>5 DEF Countable
<1>8. CASE GoesBackTo(d, g, i, c)
    <2>1. ks = keys \cup {x}
        BY <1>5, <1>6, <1>8
    <2>2. AmountPut(keys, am, ks, am, x)
        BY <1>2, <2>1 DEF AmountPut, SameAt
    <2>3. Total(ks, am) = Total(keys, am) + AmountAt(x, am)
        BY <1>7, <2>2, TotalPut, Z3
    <2>. QED
        BY <1>1, <1>3, <1>8, <2>3 DEF BackNow
<1>9. CASE ~GoesBackTo(d, g, i, c)
    <2>1. ks = keys
        BY <1>2, <1>5, <1>6, <1>9
    <2>2. Total(keys, am) \in Int
        BY <1>7, TotalInt
    <2>. QED
        BY <1>1, <1>9, <2>1, <2>2 DEF BackNow
<1>. QED
    BY <1>8, <1>9

(* A coin that gets what goes back to it stays balanced. *)
LEMMA RecoupDoneBooked ==
    ASSUME NEW d, NEW e, NEW g, NEW i, RecoupDone(d, e, g, i), Books(d), CoinBooks(e), SchedulesOk(e),
           DOMAIN e.coins = DOMAIN d.coins
    PROVE  /\ Books(e)
           /\ \A c \in DOMAIN d.coins :
                 /\ Balanced(d, c) /\ e.coins[c].value = d.coins[c].value
                 /\ OnCoin(e.coins[c]) = OnCoin(d.coins[c]) + BackNow(d, g, i, c)
                 => Balanced(e, c)
<1>0. /\ OldCoins(e) = OldCoins(d) /\ InputAmounts(e) = InputAmounts(d) /\ RefundTables(e) = RefundTables(d)
      /\ RecoupLists(e) = RecoupLists(d) /\ RecoupAmounts(e) = RecoupAmounts(d)
      /\ <<g, i>> \in KeysOf(RecoupLists(d))
    BY RecoupDoneLists
<1>1. RefreshBooks(e)
    BY <1>0 DEF Books, RefreshBooks, OutputsOk, RecoupDone
<1>2. RecoupBooks(e) /\ RefundBooks(e)
    BY <1>0 DEF Books, RecoupBooks, RefundBooks
<1>3. Books(e)
    BY <1>1, <1>2 DEF Books
<1>4. d.recoupGroups[g].oldAmountPerCoin[i] \in Int
    <2>1. AmountAt(<<g, i>>, RecoupAmounts(d)) \in Int
        BY <1>0 DEF Books, RecoupBooks, ListsOk, Countable
    <2>. QED
        BY <2>1 DEF AmountAt, RecoupAmounts, RecoupDone
<1>5. ASSUME NEW c \in DOMAIN d.coins, Balanced(d, c), e.coins[c].value = d.coins[c].value,
             OnCoin(e.coins[c]) = OnCoin(d.coins[c]) + BackNow(d, g, i, c)
      PROVE  Balanced(e, c)
    <2>1. Melted(e, c) = Melted(d, c) /\ InRecoups(e, c) = InRecoups(d, c) /\ GivenBack(e, c) = GivenBack(d, c)
        BY <1>0 DEF Melted, InRecoups, GivenBack
    <2>2. Back(e, c) = Back(d, c) + BackNow(d, g, i, c)
        BY BackAfterRecoup
    <2>3. BackNow(d, g, i, c) \in Int
        BY <1>4 DEF BackNow
    <2>4. Melted(d, c) \in Int /\ InRecoups(d, c) \in Int /\ Back(d, c) \in Int /\ GivenBack(d, c) \in Int
        BY BookedInts
    <2>5. OnCoin(d.coins[c]) \in Int /\ d.coins[c].value \in Int
        BY DEF Books, CoinBooks, CoinBook, OnCoin, AllocatedOf
    <2>6. PICK x : x = BackNow(d, g, i, c)
        OBVIOUS
    <2>7. d.coins[c].value + GivenBack(d, c) + Back(d, c) = OnCoin(d.coins[c]) + Melted(d, c) + InRecoups(d, c)
        BY <1>5 DEF Balanced
    <2>8. d.coins[c].value + GivenBack(d, c) + (Back(d, c) + x) = (OnCoin(d.coins[c]) + x) + Melted(d, c) + InRecoups(d, c)
        BY <2>3, <2>4, <2>5, <2>6, <2>7
    <2>9. e.coins[c].value + GivenBack(e, c) + Back(e, c) = OnCoin(e.coins[c]) + Melted(e, c) + InRecoups(e, c)
        BY <1>5, <2>1, <2>2, <2>6, <2>8, Zenon
    <2>. QED
        BY <2>9 DEF Balanced
<1>. QED
    BY <1>3, <1>5

(* putGroupAsFinished stores the group, and may create a refresh group of the coins it has scheduled. *)
RecoupGroupDone(d, e, g, i) ==
    /\ DbShape(e) /\ e.coins = d.coins /\ e.refreshGroups = d.refreshGroups /\ e.purchases = d.purchases
    /\ DOMAIN e.recoupGroups = DOMAIN d.recoupGroups
    /\ \A h \in DOMAIN d.recoupGroups \ {g} : e.recoupGroups[h] = d.recoupGroups[h]
    /\ e.recoupGroups[g].coinPubs = d.recoupGroups[g].coinPubs
    /\ e.recoupGroups[g].oldAmountPerCoin = d.recoupGroups[g].oldAmountPerCoin
    /\ e.recoupGroups[g].scheduleRefreshCoins = d.recoupGroups[g].scheduleRefreshCoins
    /\ e.recoupGroups[g].finishedPerCoin = d.recoupGroups[g].finishedPerCoin \cup {i}
FinishedBy(d, e, put, g) ==
    e = put \/ e = CreateRefreshGroup(put, SetToSeq(d.recoupGroups[g].scheduleRefreshCoins))

(* Of its group it changes which of the recoups are finished. *)
LEMMA RecoupGroupPut ==
    ASSUME NEW d, DbShape(d), IsList(d.recoupGroups), NEW g \in DOMAIN d.recoupGroups,
           RecoupShape(d.recoupGroups[g]), ~d.recoupGroups[g].finished, NEW i
    PROVE  \E put : FinishedBy(d, PutGroupAsFinished(d, g, i), put, g) /\ RecoupGroupDone(d, put, g, i)
<1>. DEFINE done == d.recoupGroups[g].finishedPerCoin \cup {i}
            last == done = DOMAIN d.recoupGroups[g].coinPubs
            p == [d EXCEPT !.recoupGroups[g].finishedPerCoin = done, !.recoupGroups[g].finished = last]
<1>0. PutGroupAsFinished(d, g, i) =
          IF d.recoupGroups[g].finished THEN d
          ELSE IF last /\ d.recoupGroups[g].scheduleRefreshCoins # {}
          THEN CreateRefreshGroup(p, SetToSeq(d.recoupGroups[g].scheduleRefreshCoins)) ELSE p
    BY Zenon DEF PutGroupAsFinished
<1>. PICK put : put = p
    OBVIOUS
<1>1. FinishedBy(d, PutGroupAsFinished(d, g, i), put, g)
    <2>. HIDE DEF p, last
    <2>. QED
        BY <1>0, Zenon DEF FinishedBy
<1>. PICK rg : rg = d.recoupGroups[g]
    OBVIOUS
<1>. PICK x : x = done
    OBVIOUS
<1>. PICK y : y = (x = DOMAIN rg.coinPubs)
    OBVIOUS
<1>. PICK r : r = [rg EXCEPT !.finishedPerCoin = x, !.finished = y]
    OBVIOUS
<1>s. PICK s : s = [d.recoupGroups EXCEPT ![g] = r]
    OBVIOUS
<1>2. r.coinPubs = rg.coinPubs /\ r.oldAmountPerCoin = rg.oldAmountPerCoin /\ r.finishedPerCoin = x
      /\ r.scheduleRefreshCoins = rg.scheduleRefreshCoins
    BY DEF RecoupShape
<1>3. put = [d EXCEPT !.recoupGroups = s]
    BY <1>s DEF DbShape
<1>4. /\ DOMAIN s = DOMAIN d.recoupGroups /\ s[g] = r
      /\ \A h \in DOMAIN d.recoupGroups \ {g} : s[h] = d.recoupGroups[h]
    BY <1>s, UpdateList
<1>. HIDE DEF p, last, done
<1>5. /\ DbShape(put) /\ put.coins = d.coins /\ put.refreshGroups = d.refreshGroups /\ put.purchases = d.purchases
      /\ put.recoupGroups = s
    BY <1>3 DEF DbShape
<1>6. x = d.recoupGroups[g].finishedPerCoin \cup {i}
    BY DEF done
<1>7. RecoupGroupDone(d, put, g, i)
    BY <1>2, <1>4, <1>5, <1>6 DEF RecoupGroupDone
<1>. QED
    BY <1>1, <1>7

(* Before that, money goes to the reserve or the old coin, which is then scheduled to be refreshed. *)
RecoupMoved(d, m, g) ==
    /\ DbShape(m) /\ CoinsOk(m.coins) /\ m.refreshGroups = d.refreshGroups /\ m.purchases = d.purchases
    /\ IsList(m.recoupGroups) /\ DOMAIN m.recoupGroups = DOMAIN d.recoupGroups
    /\ \A h \in DOMAIN d.recoupGroups \ {g} : m.recoupGroups[h] = d.recoupGroups[h]
    /\ RecoupShape(m.recoupGroups[g]) /\ m.recoupGroups[g].coinPubs = d.recoupGroups[g].coinPubs
    /\ m.recoupGroups[g].oldAmountPerCoin = d.recoupGroups[g].oldAmountPerCoin
    /\ m.recoupGroups[g].finishedPerCoin = d.recoupGroups[g].finishedPerCoin
    /\ m.recoupGroups[g].finished = d.recoupGroups[g].finished
    /\ m.recoupGroups[g].scheduleRefreshCoins \subseteq d.recoupGroups[g].scheduleRefreshCoins \cup DOMAIN d.coins
CoinsCredited(d, m, g, i, S) ==
    /\ DOMAIN m.coins = DOMAIN d.coins
    /\ \A c \in DOMAIN d.coins :
          /\ m.coins[c].value = d.coins[c].value /\ m.coins[c].allocation = d.coins[c].allocation
          /\ c \in S \/ OnCoin(m.coins[c]) = OnCoin(d.coins[c]) + BackNow(d, g, i, c)

(* A recoup that is stored keeps the books, and the balances of the coins that no race has hit. *)
LEMMA RecoupStored ==
    ASSUME NEW d, Books(d), IsList(d.refreshGroups), NEW g \in DOMAIN d.recoupGroups,
           NEW i \in DOMAIN d.recoupGroups[g].coinPubs, i \notin d.recoupGroups[g].finishedPerCoin,
           ~d.recoupGroups[g].finished, NEW m, RecoupMoved(d, m, g), CoinBooks(m), NEW S,
           CoinsCredited(d, m, g, i, S)
    PROVE  LET e == PutGroupAsFinished(m, g, i) IN
           /\ Books(e) /\ DOMAIN e.coins = DOMAIN d.coins /\ AllocationsKept(d, e) /\ e.purchases = d.purchases
           /\ \A c \in DOMAIN d.coins \ S : Balanced(d, c) => Balanced(e, c)
<1>. PICK e : e = PutGroupAsFinished(m, g, i)
    OBVIOUS
<1>0. /\ DbShape(m) /\ IsList(m.recoupGroups) /\ g \in DOMAIN m.recoupGroups /\ RecoupShape(m.recoupGroups[g])
      /\ ~m.recoupGroups[g].finished
    BY DEF RecoupMoved
<1>p. PICK p : FinishedBy(m, e, p, g) /\ RecoupGroupDone(m, p, g, i)
    BY <1>0, RecoupGroupPut
<1>1. RecoupDone(d, p, g, i)
    BY <1>p DEF RecoupMoved, RecoupGroupDone, RecoupDone
<1>2. SchedulesOk(p)
    <2>1. ASSUME NEW h \in DOMAIN p.recoupGroups
          PROVE  p.recoupGroups[h].scheduleRefreshCoins \subseteq DOMAIN p.coins
        <3>1. h \in DOMAIN d.recoupGroups /\ DOMAIN p.coins = DOMAIN d.coins
            BY <1>p DEF RecoupMoved, RecoupGroupDone, CoinsCredited
        <3>2. d.recoupGroups[h].scheduleRefreshCoins \subseteq DOMAIN d.coins
            BY <3>1 DEF Books, RecoupBooks, SchedulesOk
        <3>3. CASE h = g
            BY <1>p, <3>1, <3>2, <3>3 DEF RecoupMoved, RecoupGroupDone
        <3>4. CASE h # g
            BY <1>p, <3>1, <3>2, <3>4 DEF RecoupMoved, RecoupGroupDone
        <3>. QED
            BY <3>3, <3>4
    <2>. QED
        BY <2>1 DEF SchedulesOk
<1>3. CoinBooks(p) /\ p.coins = m.coins /\ DOMAIN p.coins = DOMAIN d.coins
    BY <1>p DEF RecoupGroupDone, CoinBooks, CoinsCredited
<1>4. /\ Books(p)
      /\ \A c \in DOMAIN d.coins :
            /\ Balanced(d, c) /\ p.coins[c].value = d.coins[c].value
            /\ OnCoin(p.coins[c]) = OnCoin(d.coins[c]) + BackNow(d, g, i, c)
            => Balanced(p, c)
    BY <1>1, <1>2, <1>3, RecoupDoneBooked
<1>5. \A c \in DOMAIN d.coins \ S : Balanced(d, c) => Balanced(p, c)
    BY <1>3, <1>4 DEF CoinsCredited
<1>6. AllocationsKept(d, p) /\ p.purchases = d.purchases
    BY <1>p DEF AllocationsKept, CoinsCredited, RecoupGroupDone, RecoupMoved
<1>7. CASE e = p
    BY <1>3, <1>4, <1>5, <1>6, <1>7
<1>8. CASE e = CreateRefreshGroup(p, SetToSeq(m.recoupGroups[g].scheduleRefreshCoins))
    <2>1. m.recoupGroups[g].scheduleRefreshCoins \subseteq DOMAIN p.coins
        <3>1. p.recoupGroups[g].scheduleRefreshCoins \subseteq DOMAIN p.coins
            BY <1>0, <1>2, <1>p DEF SchedulesOk, RecoupGroupDone
        <3>. QED
            BY <1>p, <3>1 DEF RecoupGroupDone
    <2>2. IsFiniteSet(DOMAIN p.coins)
        BY <1>3 DEF CoinBooks
    <2>3. CoinList(SetToSeq(m.recoupGroups[g].scheduleRefreshCoins), DOMAIN p.coins)
        BY <2>1, <2>2, ListOfSubset
    <2>4. DbShape(p) /\ CoinsOk(p.coins) /\ IsList(p.refreshGroups)
        BY <1>p DEF RecoupGroupDone, RecoupMoved
    <2>5. Books(e) /\ BalancesKept(p, e) /\ AllocationsKept(p, e) /\ e.purchases = p.purchases
        BY <1>4, <1>8, <2>3, <2>4, RefreshBooked
    <2>. QED
        BY <1>3, <1>5, <1>6, <2>5 DEF BalancesKept, AllocationsKept
<1>. QED
    BY <1>p, <1>7, <1>8 DEF FinishedBy

-----------------------------------------------------------------------------
(* The invariant. A coin is clean if no race has hit it or the payment it is allocated to.         *)
SourcesOk(d) == \A c \in DOMAIN d.coins : SourceOf(c) \in {"withdraw", "tip", "refresh"}
Clean(d, c, S) ==
    c \notin S /\ (d.coins[c].allocation = Absent \/ d.coins[c].allocation.id \notin S)
AllBalanced(d, S) == \A c \in DOMAIN d.coins : Clean(d, c, S) => Balanced(d, c)

(* A coin that an order's selection, refunds or deposits name is allocated to it, or was skipped.   *)
BelongsTo(d, S, c, o) == c \in DOMAIN d.coins /\ (c \in S \/ AllocatedTo(d, c, AllocationId(o)))
SelectionOk(d, S, sel, o) == \A c \in DOMAIN sel : BelongsTo(d, S, c, o) /\ sel[c] \in Int
RefundsOk(d, S, refunds, o) == \A k \in DOMAIN refunds : BelongsTo(d, S, k[1], o)
AnswerOk(d, S, ans, o) ==
    \A c \in DOMAIN ans.status :
        BelongsTo(d, S, c, o) /\ (ans.status[c] = "success" => ans.amount[c] \in Int)
PurchasesOk(d, S) ==
    \A o \in Bought(d) : /\ SelectionOk(d, S, d.purchases[o].payCoinSelection, o)
                         /\ RefundsOk(d, S, d.purchases[o].refunds, o)
DepositsOk(ps, d, S) ==
    \A p \in ps : \A o \in Orders :
        p.contract = AllocationId(o) => BelongsTo(d, S, p.coin, o) /\ p.amount \in Int
TipsOk(d) == \A r \in DOMAIN d.tips : d.tips[r].count \in Int

(* What a promise has read of a selection stays true of it. *)
PayTask(t, d, S) ==
    /\ Pc(t) = "pay" => SelectionOk(d, S, Loc(t), Key(t))
    /\ Pc(t) = "reselect" => IntAmounts(Loc(t).prev) /\ DOMAIN Loc(t).prev \subseteq DOMAIN d.coins
    /\ Pc(t) = "reselected" => IntAmounts(Loc(t).sel)
RefundTask(t, d, S) ==
    /\ Pc(t) = "abort" => SelectionOk(d, S, Loc(t), Key(t))
    /\ Pc(t) = "accept" => AnswerOk(d, S, Loc(t), Key(t))
LedgerTask(t, d, S) ==
    /\ Op(t) = "pay" => PayTask(t, d, S)
    /\ Op(t) = "refund" => RefundTask(t, d, S)
    /\ Op(t) \in {"confirm", "createDeposit"} /\ Pc(t) = "record" => IntAmounts(Loc(t))

LedgerTables(d, S) ==
    /\ Books(d) /\ SourcesOk(d) /\ AllBalanced(d, S) /\ PurchasesOk(d, S) /\ TipsOk(d)
LedgerInv ==
    /\ LedgerTables(db, raced) /\ DepositsOk(exchange.deposits, db, raced)
    /\ \A t \in tasks : LedgerTask(t, db, raced)

-----------------------------------------------------------------------------
(* What a step keeps: the coins, and what they are allocated to, unless a race hits them.          *)
Stays(d, S, e, T) ==
    /\ DOMAIN d.coins \subseteq DOMAIN e.coins /\ S \subseteq T
    /\ \A c \in DOMAIN d.coins : \/ c \in T \/ d.coins[c].allocation = Absent
                                 \/ e.coins[c].allocation = d.coins[c].allocation
(* Old coins that are balanced stay so, and new ones are, but for those that are hit. *)
BalancesStay(d, e, T) ==
    \A c \in DOMAIN e.coins : Clean(e, c, T) =>
        IF c \in DOMAIN d.coins THEN Balanced(d, c) => Balanced(e, c) ELSE Balanced(e, c)

(* A coin of an order stays one. *)
LEMMA BelongsStays ==
    ASSUME NEW d, NEW S, NEW e, NEW T, Stays(d, S, e, T), NEW c, NEW o, BelongsTo(d, S, c, o)
    PROVE  BelongsTo(e, T, c, o)
BY DEF Stays, BelongsTo, AllocatedTo

(* So do the selections and answers that name it, *)
LEMMA NamesStay ==
    ASSUME NEW d, NEW S, NEW e, NEW T, Stays(d, S, e, T), NEW o
    PROVE  /\ \A sel : SelectionOk(d, S, sel, o) => SelectionOk(e, T, sel, o)
           /\ \A refunds : RefundsOk(d, S, refunds, o) => RefundsOk(e, T, refunds, o)
           /\ \A ans : AnswerOk(d, S, ans, o) => AnswerOk(e, T, ans, o)
<1>1. \A c : BelongsTo(d, S, c, o) => BelongsTo(e, T, c, o)
    BY BelongsStays
<1>. QED
    BY <1>1 DEF SelectionOk, RefundsOk, AnswerOk

(* and what a promise has read. *)
LEMMA LedgerTaskStays ==
    ASSUME NEW d, NEW S, NEW e, NEW T, Stays(d, S, e, T), NEW t, LedgerTask(t, d, S)
    PROVE  LedgerTask(t, e, T)
<1>1. DOMAIN d.coins \subseteq DOMAIN e.coins
    BY DEF Stays
<1>2. PayTask(t, d, S) => PayTask(t, e, T)
    BY <1>1, NamesStay DEF PayTask
<1>3. RefundTask(t, d, S) => RefundTask(t, e, T)
    BY NamesStay DEF RefundTask
<1>. QED
    BY <1>2, <1>3 DEF LedgerTask

(* Deposits stay those of coins of the order. *)
LEMMA DepositsStay ==
    ASSUME NEW d, NEW S, NEW e, NEW T, Stays(d, S, e, T), NEW ps, DepositsOk(ps, d, S)
    PROVE  DepositsOk(ps, e, T)
BY BelongsStays DEF DepositsOk

(* A coin that is clean after the step was so before. *)
LEMMA AllBalancedStays ==
    ASSUME NEW d, NEW S, NEW e, NEW T, Stays(d, S, e, T), AllBalanced(d, S), BalancesStay(d, e, T)
    PROVE  AllBalanced(e, T)
<1>1. ASSUME NEW c \in DOMAIN d.coins, Clean(e, c, T) PROVE Clean(d, c, S)
    BY <1>1 DEF Stays, Clean
<1>. QED
    BY <1>1 DEF AllBalanced, BalancesStay

(* The purchases are in order if those that are not as before are. *)
PurchasesBut(d, e, o) ==
    \A u \in Bought(e) \ {o} : /\ u \in Bought(d)
                               /\ e.purchases[u].payCoinSelection = d.purchases[u].payCoinSelection
                               /\ e.purchases[u].refunds = d.purchases[u].refunds

(* Purchases that are kept are still in order. *)
LEMMA PurchasesStay ==
    ASSUME NEW d, NEW S, NEW e, NEW T, Stays(d, S, e, T), PurchasesOk(d, S), NEW o, PurchasesBut(d, e, o),
           SelectionOk(e, T, e.purchases[o].payCoinSelection, o), RefundsOk(e, T, e.purchases[o].refunds, o)
    PROVE  PurchasesOk(e, T)
<1>1. ASSUME NEW u \in Bought(e) \ {o}
      PROVE  /\ SelectionOk(e, T, e.purchases[u].payCoinSelection, u)
             /\ RefundsOk(e, T, e.purchases[u].refunds, u)
    BY NamesStay DEF PurchasesOk, PurchasesBut
<1>. QED
    BY <1>1 DEF PurchasesOk

(* A step that leaves money alone, *)
SameMoney(d, e) ==
    /\ SameLists(d, e) /\ e.coins = d.coins /\ OutputsOk(e) /\ SchedulesOk(e) /\ TipsOk(e)
    /\ \A o \in Bought(d) : e.purchases[o].payCoinSelection = d.purchases[o].payCoinSelection

(* keeps what is said of money, whatever is hit by a race meanwhile. *)
LEMMA SameMoneyStays ==
    ASSUME NEW d, NEW S, NEW e, NEW T, LedgerTables(d, S), SameMoney(d, e), S \subseteq T
    PROVE  LedgerTables(e, T) /\ Stays(d, S, e, T)
<1>1. Books(e) /\ BalancesKept(d, e)
    BY QuietBooked DEF LedgerTables, SameMoney
<1>2. Stays(d, S, e, T)
    BY DEF Stays, SameMoney
<1>3. AllBalanced(e, T)
    <2>1. BalancesStay(d, e, T)
        BY <1>1 DEF BalancesStay, BalancesKept, SameMoney
    <2>. QED
        BY <1>2, <2>1, AllBalancedStays DEF LedgerTables
<1>4. PurchasesOk(e, T)
    <2>1. DOMAIN RefundTables(e) = DOMAIN RefundTables(d) /\ RefundTables(e) = RefundTables(d)
        BY DEF SameMoney, SameLists
    <2>2. Bought(e) = Bought(d)
        BY <2>1 DEF RefundTables
    <2>3. \A o \in Bought(d) : e.purchases[o].refunds = d.purchases[o].refunds
        BY <2>1, <2>2 DEF RefundTables
    <2>4. PurchasesOk(d, S)
        BY DEF LedgerTables
    <2>5. ASSUME NEW o \in Bought(e)
          PROVE  /\ SelectionOk(e, T, e.purchases[o].payCoinSelection, o)
                 /\ RefundsOk(e, T, e.purchases[o].refunds, o)
        BY <1>2, <2>2, <2>3, <2>4, NamesStay DEF PurchasesOk, SameMoney
    <2>. QED
        BY <2>5 DEF PurchasesOk
<1>. QED
    BY <1>1, <1>2, <1>3, <1>4 DEF LedgerTables, SameMoney, SourcesOk

(* Tables that are the same, purchases that differ in other things *)
SameSelections(d, e) ==
    /\ Bought(e) = Bought(d)
    /\ \A o \in Bought(d) : /\ e.purchases[o].payCoinSelection = d.purchases[o].payCoinSelection
                            /\ e.purchases[o].refunds = d.purchases[o].refunds

(* are no matter of money. *)
LEMMA SelectionsSayTheSame ==
    ASSUME NEW d, NEW S, NEW e, LedgerTables(d, S), e.refreshGroups = d.refreshGroups,
           e.recoupGroups = d.recoupGroups, e.coins = d.coins, SameSelections(d, e), TipsOk(e)
    PROVE  SameMoney(d, e)
<1>1. RefundTables(e) = RefundTables(d)
    BY DEF RefundTables, SameSelections
<1>2. SameLists(d, e)
    BY <1>1 DEF SameLists, OldCoins, InputAmounts, RecoupLists, RecoupAmounts, FinishedLists
<1>3. OutputsOk(e) /\ SchedulesOk(e)
    BY DEF LedgerTables, Books, RefreshBooks, RecoupBooks, OutputsOk, SchedulesOk
<1>. QED
    BY <1>2, <1>3 DEF SameMoney, SameSelections

(* Neither is a step that leaves these tables alone. *)
LEMMA OtherTables ==
    ASSUME NEW d, NEW S, NEW e, LedgerTables(d, S), SameTables(d, e), e.coins = d.coins, TipsOk(e)
    PROVE  SameMoney(d, e)
<1>1. SameSelections(d, e)
    BY DEF SameSelections, SameTables, Bought
<1>. QED
    BY <1>1, SelectionsSayTheSame DEF SameTables

-----------------------------------------------------------------------------
(* The promises that have read something of money *)
Minds(op, pc) ==
    \/ op = "pay" /\ pc \in {"pay", "reselect", "reselected"}
    \/ op = "refund" /\ pc \in {"abort", "accept"}
    \/ op \in {"confirm", "createDeposit"} /\ pc = "record"
QuietTasks == \A u \in tasks' : u \in tasks \/ ~Minds(Op(u), Pc(u))
Quiet(t) == Done(t) \/ \E pc, loc : Goto(t, pc, loc) /\ ~Minds(Op(t), pc)

(* Any other promise is in order. *)
LEMMA QuietTask ==
    ASSUME NEW u, ~Minds(Op(u), Pc(u)), NEW d, NEW S
    PROVE  LedgerTask(u, d, S)
BY DEF Minds, LedgerTask, PayTask, RefundTask

(* Promises that start without having read anything of money *)
LEMMA StartQuiet ==
    ASSUME NEW op, NEW key, NEW pc, NEW loc, Start(op, key, pc, loc), ~Minds(op, pc)
    PROVE  QuietTasks
<1>1. ASSUME NEW u \in tasks' PROVE u \in tasks \/ ~Minds(Op(u), Pc(u))
    <2>1. u \in tasks \/ IsTask(u, op, key, pc, loc)
        BY Started
    <2>. QED
        BY <2>1 DEF IsTask
<1>. QED
    BY <1>1 DEF QuietTasks

(* Promises that go on, or end *)
LEMMA GotoQuiet ==
    ASSUME WalletInv, NEW t \in tasks, Quiet(t)
    PROVE  QuietTasks
<1>1. TaskShape(t)
    BY DEF WalletInv, TaskOk
<1>2. ASSUME NEW u \in tasks', u \notin tasks PROVE ~Minds(Op(u), Pc(u))
    <2>1. PICK pc, loc : Goto(t, pc, loc) /\ ~Minds(Op(t), pc)
        BY <1>2 DEF Quiet, Done
    <2>2. IsTask(u, Op(t), Key(t), pc, loc)
        BY <1>1, <1>2, <2>1, GoneTo
    <2>. QED
        BY <2>1, <2>2 DEF IsTask
<1>. QED
    BY <1>2 DEF QuietTasks

(* Promises of a group that is rejected *)
LEMMA RejectQuiet ==
    ASSUME WalletInv, NEW t, Op(t) \in {"session", "recoup"}, NEW keys, Reject(t, keys)
    PROVE  QuietTasks
<1>1. ASSUME NEW u \in tasks', u \notin tasks PROVE ~Minds(Op(u), Pc(u))
    <2>1. PICK v \in tasks : Op(v) = Op(t) /\ u = [v EXCEPT ![6] = FALSE]
        BY <1>1 DEF Reject
    <2>2. TaskShape(v)
        BY DEF WalletInv, TaskOk
    <2>3. IsTask(u, Op(v), Key(v), Pc(v), Loc(v))
        BY <2>1, <2>2, DroppedTask
    <2>. QED
        BY <2>1, <2>3 DEF IsTask, Minds
<1>. QED
    BY <1>1 DEF QuietTasks

(* A step whose tables are in order, and whose promises are, keeps the invariant. *)
LEMMA LedgerStep ==
    ASSUME LedgerInv, LedgerTables(db', raced'), Stays(db, raced, db', raced'),
           DepositsOk(exchange'.deposits, db', raced'),
           \A u \in tasks' : u \in tasks \/ LedgerTask(u, db', raced')
    PROVE  LedgerInv'
<1>1. ASSUME NEW u \in tasks PROVE LedgerTask(u, db', raced')
    BY LedgerTaskStays DEF LedgerInv
<1>. QED
    BY <1>1 DEF LedgerInv

(* A step that leaves money alone keeps it. *)
LEMMA QuietStep ==
    ASSUME LedgerInv, SameMoney(db, db'), raced \subseteq raced', QuietTasks,
           exchange'.deposits = exchange.deposits
    PROVE  LedgerInv'
<1>1. LedgerTables(db', raced') /\ Stays(db, raced, db', raced')
    BY SameMoneyStays DEF LedgerInv
<1>2. DepositsOk(exchange'.deposits, db', raced')
    BY <1>1, DepositsStay DEF LedgerInv
<1>3. \A u \in tasks' : u \in tasks \/ LedgerTask(u, db', raced')
    BY QuietTask DEF QuietTasks
<1>. QED
    BY <1>1, <1>2, <1>3, LedgerStep

(* Also if nothing is different but tables that have nothing to do with it. *)
LEMMA OtherStep ==
    ASSUME LedgerInv, UNCHANGED <<db.coins, db.refreshGroups, db.recoupGroups, db.purchases>>, TipsOk(db'),
           raced \subseteq raced', QuietTasks, exchange'.deposits = exchange.deposits
    PROVE  LedgerInv'
<1>1. SameMoney(db, db')
    BY OtherTables DEF LedgerInv, SameTables
<1>. QED
    BY <1>1, QuietStep

-----------------------------------------------------------------------------
(* Steps that have nothing to do with money                                                     *)
FreeTables ==
    /\ UNCHANGED <<db.coins, db.refreshGroups, db.recoupGroups, db.purchases>> /\ TipsOk(db')
    /\ raced \subseteq raced' /\ exchange'.deposits = exchange.deposits

(* Transactions on proposals and the reserve are among them. *)
LEMMA FreeUpdateTables ==
    ASSUME WalletInv, LedgerInv, FreeUpdate, exchange'.deposits = exchange.deposits, raced \subseteq raced'
    PROVE  FreeTables
<1>1. TipsOk(db)
    BY DEF LedgerInv, LedgerTables
<1>2. UNCHANGED <<db.coins, db.refreshGroups, db.recoupGroups, db.purchases, db.tips>>
    BY DEF WalletInv, TablesInv, DbShape, FreeUpdate
<1>. QED
    BY <1>1, <1>2 DEF FreeTables, TipsOk

(* A step of a promise on free tables *)
LEMMA FreeLedgerStep ==
    ASSUME WalletInv, LedgerInv, FreeTables, QuietTasks
    PROVE  LedgerInv'
BY OtherStep DEF FreeTables

(* Requests and transactions of downloads, payments and the reserve *)
LEMMA LedgerQuietSteps ==
    ASSUME WalletInv, LedgerInv, NEW t \in tasks,
           \/ ClaimOrder(t) \/ PostPaid(t) \/ PollAutoRefund(t) \/ BankStatus(t) \/ PostRegistration(t)
           \/ QueryReserve(t) \/ AfterWithdraw(t) \/ FailProposalPermanently(t) \/ StoreContractTerms(t)
           \/ StoreBankStatus(t) \/ StoreRegistration(t)
    PROVE  LedgerInv'
<1>1. Quiet(t) /\ FreeUpdate /\ UNCHANGED <<exchange, raced>>
    <2>1. CASE ClaimOrder(t)
        BY <2>1 DEF ClaimOrder, Quiet, Minds, At, FreeUpdate
    <2>2. CASE PostPaid(t)
        BY <2>2 DEF PostPaid, Quiet, Minds, At, FreeUpdate
    <2>3. CASE PollAutoRefund(t)
        BY <2>3 DEF PollAutoRefund, Quiet, Minds, At, FreeUpdate
    <2>4. CASE BankStatus(t)
        BY <2>4 DEF BankStatus, Again, Quiet, Minds, At, FreeUpdate
    <2>5. CASE PostRegistration(t)
        BY <2>5 DEF PostRegistration, Quiet, Minds, At, FreeUpdate
    <2>6. CASE QueryReserve(t)
        BY <2>6 DEF QueryReserve, Again, Quiet, Minds, At, FreeUpdate
    <2>7. CASE AfterWithdraw(t)
        BY <2>7 DEF AfterWithdraw, Again, Quiet, Minds, At, FreeUpdate
    <2>8. CASE FailProposalPermanently(t)
        BY <2>8 DEF FailProposalPermanently, Quiet, Minds, At, FreeUpdate
    <2>9. CASE StoreContractTerms(t)
        BY <2>9 DEF StoreContractTerms, Quiet, Minds, At, FreeUpdate
    <2>10. CASE StoreBankStatus(t)
        BY <2>10 DEF StoreBankStatus, Again, Update, Quiet, Minds, At, FreeUpdate
    <2>11. CASE StoreRegistration(t)
        BY <2>11 DEF StoreRegistration, Update, Quiet, Minds, At, FreeUpdate
    <2>. QED
        BY <2>1, <2>2, <2>3, <2>4, <2>5, <2>6, <2>7, <2>8, <2>9, <2>10, <2>11
<1>. QED
    BY <1>1, GotoQuiet, FreeUpdateTables, FreeLedgerStep

(* What starts a promise that has read nothing of money, and a crash *)
LEMMA LedgerRequests ==
    ASSUME WalletInv, LedgerInv,
           \/ \E o \in Orders : StartDownloadProposal(o) \/ ProcessDownloadProposal(o) \/ RefuseProposal(o)
           \/ \E o \in Orders : GrantRefund(o)
           \/ CreateReserve \/ ProcessReserve \/ ForceQueryReserve \/ BankConfirms \/ BankAborts
           \/ PrepareTip \/ Crash \/ TransferArrives(2 * CoinValue)
    PROVE  LedgerInv'
<1>. DEFINE Starts == \E op, key, pc, loc : Start(op, key, pc, loc) /\ ~Minds(op, pc)
            Good == (Starts \/ tasks' \subseteq tasks) /\ FreeUpdate /\ exchange'.deposits = exchange.deposits
                    /\ raced' = raced
<1>1. ASSUME NEW o \in Orders, StartDownloadProposal(o) \/ ProcessDownloadProposal(o) \/ RefuseProposal(o)
      PROVE  Good
    BY <1>1 DEF StartDownloadProposal, ProcessDownloadProposal, RefuseProposal, FreeUpdate, Minds
<1>2. ASSUME NEW o \in Orders, GrantRefund(o)
      PROVE  Good
    BY <1>2 DEF GrantRefund, FreeUpdate
<1>3. ASSUME CreateReserve \/ ProcessReserve \/ ForceQueryReserve \/ BankConfirms \/ BankAborts
      PROVE  Good
    BY <1>3 DEF CreateReserve, ProcessReserve, ForceQueryReserve, BankConfirms, BankAborts, Update, FreeUpdate,
                Minds
<1>4. ASSUME PrepareTip \/ Crash
      PROVE  Good
    BY <1>4 DEF PrepareTip, Crash, FreeUpdate, Minds
<1>5. ASSUME TransferArrives(2 * CoinValue)
      PROVE  Good
    <2>1. exchange'.deposits = exchange.deposits
        BY <1>5 DEF TransferArrives, WalletInv, TablesInv, ExchangeShape
    <2>. QED
        BY <1>5, <2>1 DEF TransferArrives, FreeUpdate
<1>6. Good
    BY <1>1, <1>2, <1>3, <1>4, <1>5
<1>7. QuietTasks
    BY <1>6, StartQuiet DEF QuietTasks
<1>. QED
    BY <1>6, <1>7, FreeUpdateTables, FreeLedgerStep

(* Transactions on the tables of withdrawals, deposit groups, tips *)
OtherUpdate(d, e) ==
    \/ e = d
    \/ \E x : e = [d EXCEPT !.depositGroups = x]
    \/ \E x : e = [d EXCEPT !.withdrawalGroups = x]
    \/ \E x : e = [d EXCEPT !.planchets = x]
    \/ \E x, y : e = [d EXCEPT !.reserve = x, !.withdrawalGroups = y]
    \/ \E x : e = [d EXCEPT !.reserve = x]

(* have nothing to do with it either. *)
LEMMA OtherUpdateTables ==
    ASSUME WalletInv, LedgerInv, OtherUpdate(db, db'), exchange'.deposits = exchange.deposits, raced \subseteq raced'
    PROVE  FreeTables
<1>1. TipsOk(db)
    BY DEF LedgerInv, LedgerTables
<1>2. UNCHANGED <<db.coins, db.refreshGroups, db.recoupGroups, db.purchases, db.tips>>
    BY DEF WalletInv, TablesInv, DbShape, OtherUpdate
<1>. QED
    BY <1>1, <1>2 DEF FreeTables, TipsOk

(* Steps of deposits, withdrawals and the reserve that leave money alone *)
LEMMA LedgerDepositSteps ==
    ASSUME WalletInv, LedgerInv,
           \/ \E g \in DOMAIN db.depositGroups : ProcessDepositGroup(g)
           \/ \E t \in tasks : StoreDeposit(t) \/ FinishDepositGroup(t)
    PROVE  LedgerInv'
<1>1. ASSUME NEW g, ProcessDepositGroup(g)
      PROVE  QuietTasks /\ OtherUpdate(db, db') /\ UNCHANGED <<exchange, raced>>
    <2>1. \E loc : Start("deposit", g, "post", loc)
        BY <1>1 DEF ProcessDepositGroup
    <2>2. QuietTasks
        BY <2>1, StartQuiet DEF Minds
    <2>. QED
        BY <1>1, <2>2 DEF ProcessDepositGroup, OtherUpdate
<1>2. ASSUME NEW t \in tasks, StoreDeposit(t) \/ FinishDepositGroup(t)
      PROVE  QuietTasks /\ OtherUpdate(db, db') /\ UNCHANGED <<exchange, raced>>
    <2>1. Quiet(t)
        BY <1>2 DEF StoreDeposit, FinishDepositGroup, Quiet, At, Minds
    <2>2. \E x : db' = [db EXCEPT !.depositGroups = x]
        BY <1>2 DEF StoreDeposit, FinishDepositGroup
    <2>. QED
        BY <1>2, <2>1, <2>2, GotoQuiet DEF StoreDeposit, FinishDepositGroup, OtherUpdate
<1>. QED
    BY <1>1, <1>2, OtherUpdateTables, FreeLedgerStep

(* processWithdrawGroup and its promises, but for the storing of a coin *)
LEMMA LedgerWithdrawSteps ==
    ASSUME WalletInv, LedgerInv,
           \/ \E g \in DOMAIN db.withdrawalGroups : ProcessWithdrawGroup(g) \/ DeleteWithdrawal(g)
           \/ \E t \in tasks : PlanchetGenerate(t) \/ PlanchetRequest(t) \/ FinishWithdraw(t) \/ StoreReserve(t)
    PROVE  LedgerInv'
<1>. DEFINE Good == QuietTasks /\ OtherUpdate(db, db') /\ exchange'.deposits = exchange.deposits
                    /\ raced \subseteq raced'
<1>1. ASSUME NEW g, ProcessWithdrawGroup(g) PROVE Good
    <2>1. \E loc : Start("withdraw", g, "generate", loc)
        BY <1>1 DEF ProcessWithdrawGroup
    <2>2. QuietTasks
        BY <2>1, StartQuiet DEF Minds
    <2>. QED
        BY <1>1, <2>2 DEF ProcessWithdrawGroup, OtherUpdate
<1>2. ASSUME NEW g, DeleteWithdrawal(g) PROVE Good
    BY <1>2 DEF DeleteWithdrawal, OtherUpdate, QuietTasks
<1>3. ASSUME NEW t \in tasks, PlanchetGenerate(t) PROVE Good
    <2>1. Quiet(t)
        BY <1>3 DEF PlanchetGenerate, Quiet, At, Minds
    <2>2. \E x : db' = [db EXCEPT !.planchets = x]
        BY <1>3 DEF PlanchetGenerate
    <2>. QED
        BY <1>3, <2>1, <2>2, GotoQuiet DEF PlanchetGenerate, OtherUpdate
<1>4. ASSUME NEW t \in tasks, PlanchetRequest(t) PROVE Good
    <2>1. Quiet(t)
        BY <1>4 DEF PlanchetRequest, Quiet, At, Minds
    <2>2. exchange' = exchange \/ \E x : exchange' = [exchange EXCEPT !.signed = x]
        BY <1>4 DEF PlanchetRequest
    <2>3. exchange'.deposits = exchange.deposits
        BY <2>2 DEF WalletInv, TablesInv, ExchangeShape
    <2>. QED
        BY <1>4, <2>1, <2>3, GotoQuiet DEF PlanchetRequest, OtherUpdate
<1>5. ASSUME NEW t \in tasks, FinishWithdraw(t) PROVE Good
    <2>1. Quiet(t)
        BY <1>5 DEF FinishWithdraw, Quiet
    <2>2. db' = db \/ \E x : db' = [db EXCEPT !.withdrawalGroups = x]
        BY <1>5 DEF FinishWithdraw
    <2>. QED
        BY <1>5, <2>1, <2>2, GotoQuiet DEF FinishWithdraw, OtherUpdate
<1>6. ASSUME NEW t \in tasks, StoreReserve(t) PROVE Good
    <2>1. \/ \E x : db' = [db EXCEPT !.reserve = x]
          \/ \E x, y : db' = [db EXCEPT !.reserve = x, !.withdrawalGroups = y]
        BY <1>6 DEF StoreReserve, Update
    <2>2. ASSUME NEW u \in tasks', u \notin tasks PROVE ~Minds(Op(u), Pc(u))
        <3>1. \/ \E loc : u = MovedTo(t, "withdraw", loc)
              \/ \E g, loc : u = Task("withdraw", g, "generate", loc)
            BY <1>6, <2>2 DEF StoreReserve, Done
        <3>2. TaskShape(t) /\ Op(t) = "reserve"
            BY <1>6 DEF StoreReserve, At, WalletInv, TaskOk
        <3>3. Op(u) \in {"reserve", "withdraw"}
            BY <3>1, <3>2, MovedTask, NewTask DEF IsTask
        <3>. QED
            BY <3>3 DEF Minds
    <2>. QED
        BY <1>6, <2>1, <2>2 DEF StoreReserve, QuietTasks, OtherUpdate
<1>. QED
    BY <1>1, <1>2, <1>3, <1>4, <1>5, <1>6, OtherUpdateTables, FreeLedgerStep

(* Requests of refreshes, recoups and tips *)
LEMMA LedgerExchangeSteps ==
    ASSUME WalletInv, LedgerInv,
           \/ \E g \in DOMAIN db.refreshGroups : ProcessRefreshGroup(g)
           \/ \E g \in DOMAIN db.recoupGroups : ProcessRecoupGroup(g)
           \/ \E t \in tasks : RefreshMelt(t) \/ RefreshReveal(t) \/ PostRecoup(t) \/ PickupTip(t)
           \/ \E r \in DOMAIN db.tips : ProcessTip(r)
    PROVE  LedgerInv'
<1>. DEFINE Good == QuietTasks /\ OtherUpdate(db, db') /\ exchange'.deposits = exchange.deposits
                    /\ raced \subseteq raced'
<1>1. ASSUME NEW g, ProcessRefreshGroup(g) PROVE Good
    <2>1. ASSUME NEW u \in tasks', u \notin tasks PROVE ~Minds(Op(u), Pc(u))
        <3>1. \E k, pc, loc : u = Task("session", k, pc, loc)
            BY <1>1, <2>1 DEF ProcessRefreshGroup, SessionTask
        <3>. QED
            BY <3>1, NewTask DEF IsTask, Minds
    <2>. QED
        BY <1>1, <2>1 DEF ProcessRefreshGroup, OtherUpdate, QuietTasks
<1>2. ASSUME NEW g, ProcessRecoupGroup(g) PROVE Good
    <2>1. ASSUME NEW u \in tasks', u \notin tasks PROVE ~Minds(Op(u), Pc(u))
        <3>1. \E k, pc, loc : u = Task("recoup", k, pc, loc)
            BY <1>2, <2>1 DEF ProcessRecoupGroup
        <3>. QED
            BY <3>1, NewTask DEF IsTask, Minds
    <2>. QED
        BY <1>2, <2>1 DEF ProcessRecoupGroup, OtherUpdate, QuietTasks
<1>3. ASSUME NEW t \in tasks, RefreshMelt(t) \/ RefreshReveal(t) PROVE Good
    <2>1. Op(t) = "session" /\ (Quiet(t) \/ \E keys : Reject(t, keys))
        BY <1>3 DEF RefreshMelt, RefreshReveal, RejectSession, Quiet, At, Minds
    <2>2. exchange' = exchange \/ \E x : exchange' = [exchange EXCEPT !.melts = x]
        BY <1>3 DEF RefreshMelt, RefreshReveal, ExchangeMelt
    <2>3. exchange'.deposits = exchange.deposits
        BY <2>2 DEF WalletInv, TablesInv, ExchangeShape
    <2>4. QuietTasks
        BY <2>1, GotoQuiet, RejectQuiet
    <2>. QED
        BY <1>3, <2>3, <2>4 DEF RefreshMelt, RefreshReveal, OtherUpdate
<1>4. ASSUME NEW t \in tasks, PostRecoup(t) PROVE Good
    <2>1. Op(t) = "recoup" /\ (Quiet(t) \/ \E keys : Reject(t, keys))
        BY <1>4 DEF PostRecoup, Quiet, At, Minds
    <2>2. exchange' = exchange \/ \E x, y : exchange' = [exchange EXCEPT !.recoups = x, !.melts = y]
        BY <1>4 DEF PostRecoup
    <2>3. exchange'.deposits = exchange.deposits
        BY <2>2 DEF WalletInv, TablesInv, ExchangeShape
    <2>4. QuietTasks
        BY <2>1, GotoQuiet, RejectQuiet
    <2>. QED
        BY <1>4, <2>3, <2>4 DEF PostRecoup, OtherUpdate
<1>5. ASSUME NEW t \in tasks, PickupTip(t) PROVE Good
    <2>1. Quiet(t)
        BY <1>5 DEF PickupTip, Quiet, At, Minds
    <2>2. exchange' = exchange \/ \E x : exchange' = [exchange EXCEPT !.signed = x]
        BY <1>5 DEF PickupTip
    <2>3. exchange'.deposits = exchange.deposits
        BY <2>2 DEF WalletInv, TablesInv, ExchangeShape
    <2>. QED
        BY <1>5, <2>1, <2>3, GotoQuiet DEF PickupTip, OtherUpdate
<1>6. ASSUME NEW r, ProcessTip(r) PROVE Good
    <2>1. Start("tip", r, "pickup", Nil)
        BY <1>6 DEF ProcessTip
    <2>2. QuietTasks
        BY <2>1, StartQuiet DEF Minds
    <2>. QED
        BY <1>6, <2>2 DEF ProcessTip, OtherUpdate
<1>. QED
    BY <1>1, <1>2, <1>3, <1>4, <1>5, <1>6, OtherUpdateTables, FreeLedgerStep

(* The tips' records *)
LEMMA LedgerTipSteps ==
    ASSUME WalletInv, LedgerInv,
           \/ \E t \in tasks : StoreTip(t, 1)
           \/ \E r \in DOMAIN db.tips : AcceptTip(r)
    PROVE  LedgerInv'
<1>0. TipsOk(db) /\ IsList(db.tips) /\ \A r \in DOMAIN db.tips : TipShape(db.tips[r])
    BY DEF LedgerInv, LedgerTables, WalletInv, TablesInv, TipInv
<1>1. ASSUME NEW t \in tasks, StoreTip(t, 1) PROVE FreeTables /\ QuietTasks
    <2>1. QuietTasks
        BY <1>1, GotoQuiet DEF StoreTip, Quiet
    <2>2. CASE db' = db
        <3>1. TipsOk(db')
            BY <1>0, <2>2
        <3>2. UNCHANGED <<db.coins, db.refreshGroups, db.recoupGroups, db.purchases>>
            BY <2>2
        <3>. QED
            BY <1>1, <2>1, <3>1, <3>2 DEF StoreTip, FreeTables
    <2>3. CASE db' # db
        <3>. PICK r : r = [accepted |-> FALSE, pickedUp |-> FALSE, count |-> 1, denom |-> NewDenom]
            OBVIOUS
        <3>s. PICK s : s = Append(db.tips, r)
            OBVIOUS
        <3>1. db' = [db EXCEPT !.tips = s]
            BY <1>1, <2>3, <3>s DEF StoreTip
        <3>2. UNCHANGED <<db.coins, db.refreshGroups, db.recoupGroups, db.purchases>> /\ db'.tips = s
            BY <3>1 DEF WalletInv, TablesInv, DbShape
        <3>3. \A q \in DOMAIN s : s[q] = r \/ (q \in DOMAIN db.tips /\ s[q] = db.tips[q])
            <4>n. PICK n : n = Len(db.tips) + 1
                OBVIOUS
            <4>1. /\ DOMAIN s = DOMAIN db.tips \cup {n} /\ s[n] = r
                  /\ \A q \in DOMAIN db.tips : s[q] = db.tips[q]
                BY <1>0, <3>s, <4>n, AppendList
            <4>. QED
                BY <4>1, Zenon
        <3>4. TipsOk(db')
            BY <1>0, <3>2, <3>3 DEF TipsOk
        <3>. QED
            BY <1>1, <2>1, <3>2, <3>4 DEF StoreTip, FreeTables
    <2>. QED
        BY <2>1, <2>2, <2>3
<1>2. ASSUME NEW r \in DOMAIN db.tips, AcceptTip(r) PROVE FreeTables /\ QuietTasks
    <2>1. QuietTasks
        BY <1>2, StartQuiet DEF AcceptTip, Minds
    <2>. PICK q : q = [db.tips[r] EXCEPT !.accepted = TRUE]
        OBVIOUS
    <2>2. TipShape(q) /\ q.count = db.tips[r].count
        <3>1. TipShape(db.tips[r])
            BY <1>0
        <3>. QED
            BY <3>1, TipFields
    <2>s. PICK s : s = [db.tips EXCEPT ![r] = q]
        OBVIOUS
    <2>3. db' = [db EXCEPT !.tips = s]
        BY <1>2, <2>s DEF AcceptTip
    <2>4. UNCHANGED <<db.coins, db.refreshGroups, db.recoupGroups, db.purchases>> /\ db'.tips = s
        BY <2>3 DEF WalletInv, TablesInv, DbShape
    <2>5. TipsOk(db')
        BY <1>0, <2>2, <2>4, <2>s, UpdateList DEF TipsOk
    <2>. QED
        BY <1>2, <2>1, <2>4, <2>5 DEF AcceptTip, FreeTables
<1>. QED
    BY <1>1, <1>2, FreeLedgerStep

-----------------------------------------------------------------------------
(* The smaller of two amounts is an amount. *)
LEMMA SmallerInt ==
    ASSUME NEW a \in Int, NEW b \in Int
    PROVE  Min({a, b}) \in Int
<1>1. \E x \in {a, b} : \A y \in {a, b} : x <= y
    OBVIOUS
<1>2. (CHOOSE x \in {a, b} : \A y \in {a, b} : x <= y) \in {a, b}
    BY <1>1
<1>. QED
    BY <1>2 DEF Min

(* selectPayCoins takes amounts from coins that there are, after what it was told to keep. *)
LEMMA SelectedInts ==
    ASSUME CoinBooks(db), NEW prev, IntAmounts(prev), DOMAIN prev \subseteq DOMAIN db.coins,
           NEW amount \in Int, SelectPayCoins(prev, amount) # Nil
    PROVE  IntAmounts(SelectPayCoins(prev, amount))
<1>. DEFINE new == Candidates \ DOMAIN prev
            order == SetToSeq(new)
            place(c) == CHOOSE i \in DOMAIN order : order[i] = c
            before(c) == {b \in new :
                \/ db.coins[b].currentAmount > db.coins[c].currentAmount
                \/ db.coins[b].currentAmount = db.coins[c].currentAmount /\ place(b) < place(c)}
            amounts(cs) == [c \in cs |-> db.coins[c].currentAmount]
            missing(cs) == Sub(Sub(amount, SumFunction(prev)), SumFunction(amounts(cs)))
            taken == {c \in new : missing(before(c)) > 0}
            sel == [c \in DOMAIN prev \cup taken |->
                        IF c \in DOMAIN prev THEN prev[c] ELSE Contribution(missing(before(c)), c)]
<1>1. SelectPayCoins(prev, amount) = sel
    BY DEF SelectPayCoins
<1>2. IsFiniteSet(DOMAIN db.coins) /\ \A c \in DOMAIN db.coins : db.coins[c].currentAmount \in Int
    BY DEF CoinBooks, CoinBook
<1>3. new \subseteq DOMAIN db.coins /\ \A c : before(c) \subseteq DOMAIN db.coins
    BY DEF Candidates
<1>4. SumFunction(prev) \in Int
    <2>1. IsFiniteSet(DOMAIN prev)
        BY <1>2, FS_Subset
    <2>2. Summable(prev)
        BY <2>1 DEF Summable, IntAmounts
    <2>. QED
        BY <2>2, SumIsInt
<1>5. ASSUME NEW cs, cs \subseteq DOMAIN db.coins PROVE missing(cs) \in Int
    <2>1. IsFiniteSet(cs)
        BY <1>2, <1>5, FS_Subset
    <2>2. DOMAIN amounts(cs) = cs /\ \A c \in cs : amounts(cs)[c] \in Int
        BY <1>2, <1>5
    <2>3. Summable(amounts(cs))
        BY <2>1, <2>2, Zenon DEF Summable
    <2>4. SumFunction(amounts(cs)) \in Int
        BY <2>3, SumIsInt, Zenon
    <2>. QED
        BY <1>4, <2>4 DEF Sub
<1>6. ASSUME NEW c \in taken PROVE Contribution(missing(before(c)), c) \in Int
    <2>1. missing(before(c)) \in Int
        BY <1>3, <1>5, Zenon
    <2>2. c \in DOMAIN db.coins
        BY <1>3
    <2>. QED
        BY <1>2, <2>1, <2>2, SmallerInt, Zenon DEF Contribution
<1>7. \A c \in DOMAIN sel : sel[c] \in Int
    <2>1. ASSUME NEW c \in DOMAIN prev PROVE sel[c] = prev[c]
        OBVIOUS
    <2>2. ASSUME NEW c \in taken, c \notin DOMAIN prev PROVE sel[c] = Contribution(missing(before(c)), c)
        BY <2>2
    <2>3. DOMAIN sel = DOMAIN prev \cup taken
        OBVIOUS
    <2>. HIDE DEF sel, taken
    <2>. QED
        BY <1>6, <2>1, <2>2, <2>3 DEF IntAmounts
<1>. QED
    BY <1>1, <1>7 DEF IntAmounts

-----------------------------------------------------------------------------
(* What a promise is given, when it is about a selection or an answer. *)
GivenOk(op, key, pc, loc, d, S) ==
    /\ op = "pay" /\ pc = "pay" => SelectionOk(d, S, loc, key)
    /\ op = "pay" /\ pc = "reselect" => IntAmounts(loc.prev) /\ DOMAIN loc.prev \subseteq DOMAIN d.coins
    /\ op = "pay" /\ pc = "reselected" => IntAmounts(loc.sel)
    /\ op = "refund" /\ pc = "abort" => SelectionOk(d, S, loc, key)
    /\ op = "refund" /\ pc = "accept" => AnswerOk(d, S, loc, key)
    /\ op \in {"confirm", "createDeposit"} /\ pc = "record" => IntAmounts(loc)
GoodTasks == \A u \in tasks' : u \in tasks \/ LedgerTask(u, db, raced)

(* It is in order if that is. *)
LEMMA GivenTask ==
    ASSUME NEW u, NEW op, NEW key, NEW pc, NEW loc, IsTask(u, op, key, pc, loc), NEW d, NEW S,
           GivenOk(op, key, pc, loc, d, S)
    PROVE  LedgerTask(u, d, S)
BY DEF IsTask, GivenOk, LedgerTask, PayTask, RefundTask

(* A promise that starts, *)
LEMMA StartGood ==
    ASSUME NEW op, NEW key, NEW pc, NEW loc, Start(op, key, pc, loc), GivenOk(op, key, pc, loc, db, raced)
    PROVE  GoodTasks
BY Started, GivenTask DEF GoodTasks

(* and one that goes on. *)
LEMMA GotoGood ==
    ASSUME WalletInv, NEW t \in tasks, NEW pc, NEW loc, Goto(t, pc, loc),
           GivenOk(Op(t), Key(t), pc, loc, db, raced)
    PROVE  GoodTasks
<1>1. TaskShape(t)
    BY DEF WalletInv, TaskOk
<1>. QED
    BY <1>1, GoneTo, GivenTask DEF GoodTasks

(* Promises that end, or do not mind *)
LEMMA QuietGood ==
    ASSUME WalletInv, NEW t \in tasks, Quiet(t) \/ tasks' \subseteq tasks
    PROVE  GoodTasks
<1>1. CASE Quiet(t)
    BY <1>1, GotoQuiet, QuietTask DEF QuietTasks, GoodTasks
<1>2. CASE tasks' \subseteq tasks
    BY <1>2 DEF GoodTasks
<1>. QED
    BY <1>1, <1>2

(* A step that leaves money alone and whose promises are in order keeps the invariant. *)
LEMMA GoodLedgerStep ==
    ASSUME LedgerInv, SameMoney(db, db'), raced \subseteq raced', GoodTasks,
           exchange'.deposits = exchange.deposits
    PROVE  LedgerInv'
<1>1. LedgerTables(db', raced') /\ Stays(db, raced, db', raced')
    BY SameMoneyStays DEF LedgerInv
<1>2. DepositsOk(exchange'.deposits, db', raced')
    BY <1>1, DepositsStay DEF LedgerInv
<1>3. \A u \in tasks' : u \in tasks \/ LedgerTask(u, db', raced')
    BY <1>1, LedgerTaskStays DEF GoodTasks
<1>. QED
    BY <1>1, <1>2, <1>3, LedgerStep

(* So does one that changes nothing but promises, the merchant and the bank. *)
LEMMA GoodTasksStep ==
    ASSUME LedgerInv, UNCHANGED <<db, raced>>, exchange'.deposits = exchange.deposits, GoodTasks
    PROVE  LedgerInv'
<1>1. TipsOk(db')
    BY DEF LedgerInv, LedgerTables
<1>2. SameMoney(db, db')
    BY <1>1, OtherTables DEF LedgerInv, SameTables
<1>. QED
    BY <1>2, GoodLedgerStep

(* The selection of a purchase is of coins that belong to its order. *)
LEMMA BoughtSelection ==
    ASSUME LedgerInv, NEW o \in Orders, HasPurchase(o)
    PROVE  /\ SelectionOk(db, raced, db.purchases[o].payCoinSelection, o)
           /\ RefundsOk(db, raced, db.purchases[o].refunds, o)
BY DEF LedgerInv, LedgerTables, PurchasesOk, Bought, HasPurchase

(* submitPay starts with that selection, *)
LEMMA SubmitGood ==
    ASSUME LedgerInv, NEW o \in Orders, HasPurchase(o), SubmitPay(o)
    PROVE  GoodTasks
<1>. PICK sel : sel = db.purchases[o].payCoinSelection
    OBVIOUS
<1>1. SelectionOk(db, raced, sel, o)
    BY BoughtSelection
<1>2. CASE Start("pay", o, "paid", Nil)
    <2>1. GivenOk("pay", o, "paid", Nil, db, raced)
        BY DEF GivenOk
    <2>. QED
        BY <1>2, <2>1, StartGood
<1>3. CASE Start("pay", o, "pay", sel)
    <2>1. GivenOk("pay", o, "pay", sel, db, raced)
        BY <1>1 DEF GivenOk
    <2>. QED
        BY <1>3, <2>1, StartGood
<1>. QED
    BY <1>2, <1>3 DEF SubmitPay

(* and a query for refunds may abort it. *)
LEMMA QueryGood ==
    ASSUME LedgerInv, NEW o \in Orders, NEW p, SelectionOk(db, raced, p.payCoinSelection, o), NEW w,
           QueryRefund(o, p, w)
    PROVE  GoodTasks
<1>1. ASSUME NEW pc, pc \in {"poll", "refund"}, Start("refund", o, pc, Nil) PROVE GoodTasks
    <2>1. GivenOk("refund", o, pc, Nil, db, raced)
        BY <1>1 DEF GivenOk
    <2>. QED
        BY <1>1, <2>1, StartGood
<1>2. CASE Start("refund", o, "abort", p.payCoinSelection)
    <2>1. GivenOk("refund", o, "abort", p.payCoinSelection, db, raced)
        BY DEF GivenOk
    <2>. QED
        BY <1>2, <2>1, StartGood
<1>3. CASE UNCHANGED tasks
    BY <1>3 DEF GoodTasks
<1>. QED
    BY <1>1, <1>2, <1>3 DEF QueryRefund

(* A purchase is a record. *)
LEMMA PurchaseThere ==
    ASSUME NEW p, PurchaseOk(p)
    PROVE  p # Absent
<1>1. "paid" \in DOMAIN p
    BY DEF PurchaseOk, PurchaseShape
<1>2. DOMAIN Absent = {}
    BY ListFacts DEF Absent
<1>. QED
    BY <1>1, <1>2

(* Payments and refunds are of purchases, *)
LEMMA PaysPurchase ==
    ASSUME WalletInv, NEW t \in tasks, Op(t) \in {"pay", "refund"}
    PROVE  Key(t) \in Orders /\ HasPurchase(Key(t)) /\ PurchaseOk(db.purchases[Key(t)])
<1>1. Key(t) \in Orders /\ PurchaseOk(db.purchases[Key(t)])
    BY DEF WalletInv, TaskOk
<1>. QED
    BY <1>1, PurchaseThere DEF HasPurchase

(* and prices are amounts. *)
LEMMA PriceInt == \A o \in Orders : Price[o] \in Int
BY OrdersAssumption

(* Coins are selected for a price. *)
LEMMA SelectionInts ==
    ASSUME LedgerInv, NEW prev, IntAmounts(prev), DOMAIN prev \subseteq DOMAIN db.coins, NEW o \in Orders,
           SelectPayCoins(prev, Price[o]) # Nil
    PROVE  IntAmounts(SelectPayCoins(prev, Price[o]))
BY SelectedInts, PriceInt DEF LedgerInv, LedgerTables, Books

(* Nothing is kept by a new selection. *)
LEMMA NothingKept == IntAmounts(<<>>) /\ DOMAIN <<>> \subseteq DOMAIN db.coins
BY ListFacts DEF IntAmounts

(* The user's requests that read a selection *)
LEMMA LedgerPayRequests ==
    ASSUME WalletInv, LedgerInv,
           \/ \E o \in Orders : ConfirmPay(o) \/ ProcessPurchasePay(o) \/ ProcessPurchaseQueryRefund(o)
           \/ CreateDepositGroup(Price[1])
    PROVE  LedgerInv'
<1>1. ASSUME NEW o \in Orders, ConfirmPay(o) PROVE GoodTasks
    <2>1. CASE HasPurchase(o)
        BY <1>1, <2>1, SubmitGood DEF ConfirmPay
    <2>2. CASE Start("confirm", o, "select", Nil)
        <3>1. GivenOk("confirm", o, "select", Nil, db, raced)
            BY DEF GivenOk
        <3>. QED
            BY <2>2, <3>1, StartGood
    <2>. QED
        BY <1>1, <2>1, <2>2 DEF ConfirmPay
<1>2. ASSUME NEW o \in Orders, ProcessPurchasePay(o) PROVE GoodTasks
    BY <1>2, SubmitGood DEF ProcessPurchasePay
<1>3. ASSUME NEW o \in Orders, ProcessPurchaseQueryRefund(o) PROVE GoodTasks
    <2>1. HasPurchase(o) /\ QueryRefund(o, db.purchases[o], TRUE)
        BY <1>3 DEF ProcessPurchaseQueryRefund, HasPurchase
    <2>2. SelectionOk(db, raced, db.purchases[o].payCoinSelection, o)
        BY <2>1, BoughtSelection
    <2>. QED
        BY <2>1, <2>2, QueryGood
<1>4. ASSUME CreateDepositGroup(Price[1]) PROVE GoodTasks
    <2>. PICK sel : sel = SelectPayCoins(<<>>, Price[1])
        OBVIOUS
    <2>1. sel # Nil /\ Start("createDeposit", 1, "record", sel)
        BY <1>4 DEF CreateDepositGroup
    <2>2. 1 \in Orders
        BY ScenesAssumption
    <2>3. IntAmounts(sel)
        BY <2>1, <2>2, NothingKept, SelectionInts
    <2>4. GivenOk("createDeposit", 1, "record", sel, db, raced)
        BY <2>3 DEF GivenOk
    <2>. QED
        BY <2>1, <2>4, StartGood
<1>. QED
    BY <1>1, <1>2, <1>3, <1>4, GoodTasksStep
       DEF ConfirmPay, ProcessPurchasePay, ProcessPurchaseQueryRefund, CreateDepositGroup

(* The promises that select coins *)
LEMMA LedgerSelections ==
    ASSUME WalletInv, LedgerInv, NEW t \in tasks,
           SelectCoins(t) \/ HandleInsufficientFunds(t) \/ SelectCoinsAgain(t)
    PROVE  LedgerInv'
<1>1. ASSUME SelectCoins(t) PROVE GoodTasks
    <2>. PICK sel : sel = SelectPayCoins(<<>>, Price[Key(t)])
        OBVIOUS
    <2>1. Op(t) = "confirm" /\ Key(t) \in Orders
        BY <1>1 DEF SelectCoins, At, WalletInv, TaskOk
    <2>2. CASE sel = Nil
        BY <1>1, <2>2, QuietGood DEF SelectCoins, Quiet
    <2>3. CASE sel # Nil
        <3>1. Goto(t, "record", sel)
            BY <1>1, <2>3 DEF SelectCoins
        <3>2. IntAmounts(sel)
            BY <2>1, <2>3, NothingKept, SelectionInts
        <3>3. GivenOk(Op(t), Key(t), "record", sel, db, raced)
            BY <2>1, <3>2 DEF GivenOk
        <3>. QED
            BY <3>1, <3>3, GotoGood
    <2>. QED
        BY <2>2, <2>3
<1>2. ASSUME HandleInsufficientFunds(t) PROVE GoodTasks
    <2>. PICK sel : sel = db.purchases[Key(t)].payCoinSelection
        OBVIOUS
    <2>. PICK loc : loc = [read |-> sel, prev |-> [c \in (DOMAIN sel) \ {Loc(t)} |-> sel[c]]]
        OBVIOUS
    <2>1. Op(t) = "pay" /\ Goto(t, "reselect", loc)
        BY <1>2 DEF HandleInsufficientFunds, At
    <2>2. SelectionOk(db, raced, sel, Key(t))
        BY <2>1, PaysPurchase, BoughtSelection
    <2>3. IntAmounts(loc.prev) /\ DOMAIN loc.prev \subseteq DOMAIN db.coins
        BY <2>2 DEF SelectionOk, BelongsTo, IntAmounts
    <2>4. GivenOk(Op(t), Key(t), "reselect", loc, db, raced)
        BY <2>1, <2>3 DEF GivenOk
    <2>. QED
        BY <2>1, <2>4, GotoGood
<1>3. ASSUME SelectCoinsAgain(t) PROVE GoodTasks
    <2>. PICK sel : sel = SelectPayCoins(Loc(t).prev, Price[Key(t)])
        OBVIOUS
    <2>1. Op(t) = "pay" /\ Pc(t) = "reselect" /\ Key(t) \in Orders
        BY <1>3 DEF SelectCoinsAgain, At, WalletInv, TaskOk
    <2>2. CASE sel = Nil
        BY <1>3, <2>2, QuietGood DEF SelectCoinsAgain, Quiet
    <2>3. CASE sel # Nil
        <3>. PICK loc : loc = [read |-> Loc(t).read, sel |-> sel]
            OBVIOUS
        <3>1. Goto(t, "reselected", loc)
            BY <1>3, <2>3 DEF SelectCoinsAgain
        <3>2. IntAmounts(Loc(t).prev) /\ DOMAIN Loc(t).prev \subseteq DOMAIN db.coins
            BY <2>1 DEF LedgerInv, LedgerTask, PayTask
        <3>3. IntAmounts(sel)
            BY <2>1, <2>3, <3>2, SelectionInts
        <3>4. GivenOk(Op(t), Key(t), "reselected", loc, db, raced)
            BY <2>1, <3>3 DEF GivenOk
        <3>. QED
            BY <3>1, <3>4, GotoGood
    <2>. QED
        BY <2>2, <2>3
<1>. QED
    BY <1>1, <1>2, <1>3, GoodTasksStep DEF SelectCoins, HandleInsufficientFunds, SelectCoinsAgain

(* A purchase that differs in other things than money *)
SamePurchase(p, q) == PurchaseOk(q) /\ q.payCoinSelection = p.payCoinSelection /\ q.refunds = p.refunds
PurchasePut(d, e, o, q) == e = [d EXCEPT !.purchases[o] = q]

(* Flags are no matter of money. *)
LEMMA SameFlags ==
    ASSUME NEW p, PurchaseOk(p), NEW x
    PROVE  /\ SamePurchase(p, [p EXCEPT !.paymentSubmitPending = x])
           /\ SamePurchase(p, [p EXCEPT !.payFrozen = x])
           /\ SamePurchase(p, [p EXCEPT !.autoRefund = x])
           /\ x = TRUE => SamePurchase(p, [p EXCEPT !.refundQueryRequested = x])
BY DEF SamePurchase, PurchaseOk, PurchaseShape

(* storeFirstPaySuccess sets four of them, *)
LEMMA SamePaid ==
    ASSUME NEW p, PurchaseOk(p), NEW a, NEW b, NEW q, NEW r, p.refundQueryRequested => q
    PROVE  SamePurchase(p, [p EXCEPT !.paid = a, !.paymentSubmitPending = b,
                                     !.refundQueryRequested = q, !.autoRefund = r])
<1>. PICK z : z = [p EXCEPT !.paid = a, !.paymentSubmitPending = b,
                            !.refundQueryRequested = q, !.autoRefund = r]
    OBVIOUS
<1>1. z.payCoinSelection = p.payCoinSelection /\ z.refunds = p.refunds
    BY DEF PurchaseOk, PurchaseShape
<1>2. PurchaseOk(z)
    BY PurchasePaid
<1>. QED
    BY <1>1, <1>2 DEF SamePurchase

(* abortFailedPayWithRefund three. *)
LEMMA SameAborted ==
    ASSUME NEW p, PurchaseOk(p), NEW a, a = TRUE, NEW b
    PROVE  SamePurchase(p, [p EXCEPT !.refundQueryRequested = a, !.paymentSubmitPending = b,
                                     !.abortStatus = "AbortRefund"])
<1>. PICK z : z = [p EXCEPT !.refundQueryRequested = a, !.paymentSubmitPending = b,
                            !.abortStatus = "AbortRefund"]
    OBVIOUS
<1>1. z.payCoinSelection = p.payCoinSelection /\ z.refunds = p.refunds
    BY DEF PurchaseOk, PurchaseShape
<1>2. PurchaseOk(z)
    BY PurchaseAborted
<1>. QED
    BY <1>1, <1>2 DEF SamePurchase

(* A transaction that stores one purchase leaves the rest alone. *)
LEMMA PurchasePutFields ==
    ASSUME WalletInv, NEW o \in Orders, NEW q, NEW e, PurchasePut(db, e, o, q)
    PROVE  /\ DbShape(e) /\ e.coins = db.coins /\ e.refreshGroups = db.refreshGroups
           /\ e.recoupGroups = db.recoupGroups /\ e.tips = db.tips
           /\ e.purchases[o] = q /\ \A u \in Orders \ {o} : e.purchases[u] = db.purchases[u]
<1>. PICK s : s = [db.purchases EXCEPT ![o] = q]
    OBVIOUS
<1>1. s[o] = q /\ \A u \in Orders \ {o} : s[u] = db.purchases[u]
    BY DEF WalletInv, TablesInv, PurchaseInv, IsFunction
<1>2. e = [db EXCEPT !.purchases = s]
    BY DEF PurchasePut
<1>3. /\ DbShape(e) /\ e.coins = db.coins /\ e.refreshGroups = db.refreshGroups
      /\ e.recoupGroups = db.recoupGroups /\ e.tips = db.tips /\ e.purchases = s
    BY <1>2 DEF WalletInv, TablesInv, DbShape
<1>. QED
    BY <1>1, <1>3, Zenon

(* So it leaves money alone if the purchase is the same in this. *)
LEMMA PurchaseKept ==
    ASSUME WalletInv, LedgerInv, NEW o \in Orders, HasPurchase(o), NEW q, SamePurchase(db.purchases[o], q),
           PurchasePut(db, db', o, q)
    PROVE  SameMoney(db, db')
<1>1. /\ db'.coins = db.coins /\ db'.refreshGroups = db.refreshGroups
      /\ db'.recoupGroups = db.recoupGroups /\ db'.tips = db.tips
      /\ db'.purchases[o] = q /\ \A u \in Orders \ {o} : db'.purchases[u] = db.purchases[u]
    BY PurchasePutFields
<1>2. q # Absent
    BY PurchaseThere DEF SamePurchase
<1>3. SameSelections(db, db')
    BY <1>1, <1>2 DEF SameSelections, Bought, HasPurchase, SamePurchase
<1>4. TipsOk(db')
    BY <1>1 DEF LedgerInv, LedgerTables, TipsOk
<1>. QED
    BY <1>1, <1>3, <1>4, SelectionsSayTheSame DEF LedgerInv

(* The transactions of a payment, *)
LEMMA LedgerPaySteps ==
    ASSUME WalletInv, LedgerInv, NEW t \in tasks,
           StoreFirstPaySuccess(t) \/ StorePayReplaySuccess(t) \/ FreezePay(t)
    PROVE  LedgerInv'
<1>. DEFINE o == Key(t)
            p == db.purchases[o]
<1>1. Op(t) = "pay" /\ Done(t) /\ UNCHANGED <<exchange, raced>>
    BY DEF StoreFirstPaySuccess, StorePayReplaySuccess, FreezePay, At
<1>2. o \in Orders /\ PurchaseOk(p) /\ HasPurchase(o)
    BY <1>1, PaysPurchase
<1>3. db' = db \/ \E q : SamePurchase(p, q) /\ db' = [db EXCEPT !.purchases[o] = q]
    <2>1. CASE StoreFirstPaySuccess(t)
        <3>. PICK auto : auto = (Key(t) \in AutoRefund)
            OBVIOUS
        <3>. PICK query : query = (p.refundQueryRequested \/ auto)
            OBVIOUS
        <3>. PICK yes, no : yes = TRUE /\ no = FALSE
            OBVIOUS
        <3>. DEFINE q == [p EXCEPT !.paid = yes, !.paymentSubmitPending = no,
                                   !.refundQueryRequested = query, !.autoRefund = auto]
        <3>1. SamePurchase(p, q)
            BY <1>2, SamePaid
        <3>2. db' = db \/ db' = [db EXCEPT !.purchases[o] = q]
            BY <2>1 DEF StoreFirstPaySuccess
        <3>. QED
            BY <3>1, <3>2
    <2>2. CASE StorePayReplaySuccess(t)
        BY <1>2, <2>2, SameFlags DEF StorePayReplaySuccess
    <2>3. CASE FreezePay(t)
        BY <1>2, <2>3, SameFlags DEF FreezePay
    <2>. QED
        BY <2>1, <2>2, <2>3
<1>4. SameMoney(db, db')
    <2>1. CASE db' = db
        <3>1. TipsOk(db')
            BY <2>1 DEF LedgerInv, LedgerTables
        <3>. QED
            BY <2>1, <3>1, OtherTables DEF LedgerInv, SameTables
    <2>2. ASSUME NEW q, SamePurchase(p, q), db' = [db EXCEPT !.purchases[o] = q] PROVE SameMoney(db, db')
        BY <1>2, <2>2, PurchaseKept DEF PurchasePut
    <2>. QED
        BY <1>3, <2>1, <2>2
<1>5. GoodTasks
    BY <1>1, QuietGood DEF Done
<1>. QED
    BY <1>1, <1>4, <1>5, GoodLedgerStep

(* and the user's requests about one *)
LEMMA LedgerPurchaseRequests ==
    ASSUME WalletInv, LedgerInv, NEW o \in Orders,
           \/ ConfirmPayNewSession(o) \/ AutoRefundExpires(o) \/ ApplyRefund(o)
           \/ AbortFailedPayWithRefund(o)
    PROVE  LedgerInv'
<1>. DEFINE p == db.purchases[o]
            Good == /\ \E q : SamePurchase(p, q) /\ db' = [db EXCEPT !.purchases[o] = q]
                    /\ GoodTasks
<1>. PICK yes, no : yes = TRUE /\ no = FALSE
    OBVIOUS
<1>1. HasPurchase(o) /\ UNCHANGED <<exchange, raced>>
    BY DEF ConfirmPayNewSession, AutoRefundExpires, ApplyRefund, AbortFailedPayWithRefund, HasPurchase
<1>2. PurchaseOk(p)
    BY <1>1 DEF WalletInv, TablesInv, PurchaseInv
<1>3. SelectionOk(db, raced, p.payCoinSelection, o)
    BY <1>1, BoughtSelection
<1>4. Good
    <2>1. CASE ConfirmPayNewSession(o)
        <3>1. \E q : SamePurchase(p, q) /\ db' = [db EXCEPT !.purchases[o] = q]
            BY <1>2, <2>1, SameFlags DEF ConfirmPayNewSession
        <3>2. GoodTasks
            BY <1>1, <2>1, SubmitGood DEF ConfirmPayNewSession, GoodTasks
        <3>. QED
            BY <3>1, <3>2
    <2>2. CASE AutoRefundExpires(o)
        <3>1. \E q : SamePurchase(p, q) /\ db' = [db EXCEPT !.purchases[o] = q]
            BY <1>2, <2>2, SameFlags DEF AutoRefundExpires
        <3>2. GoodTasks
            BY <2>2 DEF AutoRefundExpires, GoodTasks
        <3>. QED
            BY <3>1, <3>2
    <2>3. CASE ApplyRefund(o)
        <3>1. db' = [db EXCEPT !.purchases[o] = [p EXCEPT !.refundQueryRequested = yes]]
            BY <2>3 DEF ApplyRefund
        <3>2. GoodTasks
            BY <1>3, <2>3, QueryGood DEF ApplyRefund
        <3>. QED
            BY <1>2, <3>1, <3>2, SameFlags
    <2>4. CASE AbortFailedPayWithRefund(o)
        <3>. PICK q : q = [p EXCEPT !.refundQueryRequested = yes, !.paymentSubmitPending = no,
                                    !.abortStatus = "AbortRefund"]
            OBVIOUS
        <3>1. SamePurchase(p, q)
            BY <1>2, SameAborted
        <3>2. db' = [db EXCEPT !.purchases[o] = q] /\ QueryRefund(o, q, TRUE)
            BY <2>4 DEF AbortFailedPayWithRefund
        <3>3. SelectionOk(db, raced, q.payCoinSelection, o)
            BY <1>3, <3>1 DEF SamePurchase
        <3>4. GoodTasks
            BY <3>2, <3>3, QueryGood
        <3>. QED
            BY <3>1, <3>2, <3>4
    <2>. QED
        BY <2>1, <2>2, <2>3, <2>4
<1>5. SameMoney(db, db')
    BY <1>1, <1>4, PurchaseKept DEF PurchasePut
<1>. QED
    BY <1>1, <1>4, <1>5, GoodLedgerStep

-----------------------------------------------------------------------------
(* A request that changes what is deposited, and nothing in the wallet but its promise *)
LEMMA DepositsLedgerStep ==
    ASSUME LedgerInv, UNCHANGED db, raced \subseteq raced', GoodTasks, DepositsOk(exchange'.deposits, db, raced)
    PROVE  LedgerInv'
<1>1. SameMoney(db, db')
    <2>1. TipsOk(db')
        BY DEF LedgerInv, LedgerTables
    <2>. QED
        BY <2>1, OtherTables DEF LedgerInv, SameTables
<1>2. LedgerTables(db', raced') /\ Stays(db, raced, db', raced')
    BY <1>1, SameMoneyStays DEF LedgerInv
<1>3. DepositsOk(exchange'.deposits, db', raced')
    BY <1>2, DepositsStay
<1>4. \A u \in tasks' : u \in tasks \/ LedgerTask(u, db', raced')
    BY <1>2, LedgerTaskStays DEF GoodTasks
<1>. QED
    BY <1>2, <1>3, <1>4, LedgerStep

(* The deposit of a coin that an order has selected *)
OrderDeposit(p, o, sel) ==
    \E c \in DOMAIN sel : p = [contract |-> AllocationId(o), coin |-> c, amount |-> sel[c], refunded |-> Nil]

(* is of a coin that belongs to it. *)
LEMMA OrderDeposits ==
    ASSUME NEW d, NEW S, NEW ps, DepositsOk(ps, d, S), NEW o, NEW sel, SelectionOk(d, S, sel, o),
           NEW new, \A p \in new : OrderDeposit(p, o, sel)
    PROVE  DepositsOk(ps \cup new, d, S)
<1>1. ASSUME NEW p \in new, NEW u \in Orders, p.contract = AllocationId(u)
      PROVE  BelongsTo(d, S, p.coin, u) /\ p.amount \in Int
    <2>1. PICK c \in DOMAIN sel :
              p = [contract |-> AllocationId(o), coin |-> c, amount |-> sel[c], refunded |-> Nil]
        BY DEF OrderDeposit
    <2>2. p.contract = AllocationId(o) /\ p.coin = c /\ p.amount = sel[c]
        BY <2>1
    <2>3. u = o
        BY <1>1, <2>2 DEF AllocationId
    <2>. QED
        BY <2>2, <2>3 DEF SelectionOk
<1>. QED
    BY <1>1 DEF DepositsOk

(* The merchant deposits the coins that were sent to it. *)
LEMMA LedgerPostPay ==
    ASSUME WalletInv, LedgerInv, NEW t \in tasks, PostPay(t)
    PROVE  LedgerInv'
<1>. DEFINE o == Key(t)
            sel == Loc(t)
            new(S) == {[contract |-> AllocationId(o), coin |-> c, amount |-> sel[c], refunded |-> Nil] :
                           c \in {d \in S : ~Deposited(o, d)}}
<1>1. Op(t) = "pay" /\ Pc(t) = "pay" /\ UNCHANGED db /\ raced \subseteq raced'
    BY DEF PostPay, At
<1>2. SelectionOk(db, raced, sel, o)
    BY <1>1 DEF LedgerInv, LedgerTask, PayTask
<1>3. exchange' = exchange \/ \E S : S \subseteq DOMAIN sel /\ exchange' = Deposit(o, sel, S)
    <2>1. PICK good : good \subseteq DOMAIN sel
                      /\ (exchange' = exchange \/ \E S : S \subseteq good /\ exchange' = Deposit(o, sel, S))
        BY DEF PostPay
    <2>. QED
        BY <2>1
<1>4. Quiet(t)
    BY DEF PostPay, Quiet, Minds, At
<1>5. GoodTasks
    BY <1>4, QuietGood
<1>6. DepositsOk(exchange'.deposits, db, raced)
    <2>1. CASE exchange' = exchange
        BY <2>1 DEF LedgerInv
    <2>2. ASSUME NEW S, S \subseteq DOMAIN sel, exchange' = Deposit(o, sel, S)
          PROVE  DepositsOk(exchange'.deposits, db, raced)
        <3>1. exchange' = [exchange EXCEPT !.deposits = @ \cup new(S)]
            BY <2>2 DEF Deposit
        <3>2. \A p \in new(S) : OrderDeposit(p, o, sel)
            BY <2>2 DEF OrderDeposit
        <3>. HIDE DEF new
        <3>3. exchange'.deposits = exchange.deposits \cup new(S)
            BY <3>1 DEF WalletInv, TablesInv, ExchangeShape
        <3>4. DepositsOk(exchange.deposits, db, raced)
            BY DEF LedgerInv
        <3>. QED
            BY <1>2, <3>2, <3>3, <3>4, OrderDeposits
    <2>. QED
        BY <1>3, <2>1, <2>2
<1>. QED
    BY <1>1, <1>5, <1>6, DepositsLedgerStep

(* A deposit into the bank account is of no order. *)
LEMMA LedgerPostDeposit ==
    ASSUME WalletInv, LedgerInv, NEW t \in tasks, PostDeposit(t)
    PROVE  LedgerInv'
<1>. DEFINE g == Key(t)
            c == CHOOSE d \in Loc(t).left : TRUE
            p == [contract |-> DepositContract(g), coin |-> c,
                  amount |-> db.depositGroups[g].payCoinSelection[c], refunded |-> Nil]
<1>1. Op(t) = "deposit" /\ UNCHANGED <<db, raced>>
    BY DEF PostDeposit, At
<1>2. Quiet(t)
    BY <1>1 DEF PostDeposit, Quiet, Minds
<1>3. GoodTasks
    BY <1>2, QuietGood
<1>4. exchange' = exchange \/ exchange' = [exchange EXCEPT !.deposits = @ \cup {p}]
    BY DEF PostDeposit
<1>5. \A o \in Orders : p.contract # AllocationId(o)
    BY DEF DepositContract, AllocationId
<1>. HIDE DEF p
<1>6. DepositsOk(exchange.deposits, db, raced)
    BY DEF LedgerInv
<1>7. DepositsOk(exchange'.deposits, db, raced)
    <2>1. CASE exchange' = exchange
        BY <1>6, <2>1
    <2>2. CASE exchange' = [exchange EXCEPT !.deposits = @ \cup {p}]
        <3>1. exchange'.deposits = exchange.deposits \cup {p}
            BY <2>2 DEF WalletInv, TablesInv, ExchangeShape
        <3>. QED
            BY <1>5, <1>6, <3>1 DEF DepositsOk
    <2>. QED
        BY <1>4, <2>1, <2>2
<1>. QED
    BY <1>1, <1>3, <1>7, DepositsLedgerStep

(* A deposit that is marked as refunded is the same otherwise. *)
LEMMA MarkedDepositsOk ==
    ASSUME WalletInv, LedgerInv, NEW o, NEW S, NEW rt, exchange' = RefundAtExchange(o, S, rt)
    PROVE  DepositsOk(exchange'.deposits, db, raced)
<1>. DEFINE marked(p) == p.contract = RefundContract(o) /\ p.coin \in S /\ p.refunded = Nil
            mark(p) == IF marked(p) THEN [p EXCEPT !.refunded = rt] ELSE p
<1>1. exchange'.deposits = {mark(p) : p \in exchange.deposits}
    BY DEF WalletInv, TablesInv, ExchangeShape, RefundAtExchange
<1>2. ASSUME NEW p \in exchange.deposits
      PROVE  mark(p).contract = p.contract /\ mark(p).coin = p.coin /\ mark(p).amount = p.amount
    <2>1. DepositShape(p)
        BY DEF WalletInv, TablesInv, DepositInv
    <2>2. CASE marked(p)
        <3>1. mark(p) = [p EXCEPT !.refunded = rt]
            BY <2>2
        <3>. HIDE DEF mark, marked
        <3>. QED
            BY <2>1, <3>1 DEF DepositShape
    <2>. QED
        BY <2>1, <2>2
<1>. HIDE DEF mark
<1>. QED
    BY <1>1, <1>2 DEF DepositsOk, LedgerInv

(* The merchant's answer names deposits of the order. *)
LEMMA LedgerPostRefund ==
    ASSUME WalletInv, LedgerInv, NEW t \in tasks, PostRefund(t)
    PROVE  LedgerInv'
<1>. DEFINE o == Key(t)
            coins == IF merchant.orders[Key(t)].granted THEN {p.coin : p \in DepositsFor(Key(t))} ELSE {}
            amount == [c \in coins |-> (CHOOSE p \in DepositsFor(Key(t)) : p.coin = c).amount]
            loc(ans) == [rt |-> 1, status |-> ans, amount |-> amount]
<1>1. Op(t) = "refund" /\ UNCHANGED <<db, raced>> /\ o \in Orders
    BY DEF PostRefund, At, WalletInv, TaskOk
<1>2. \A p \in DepositsFor(o) : BelongsTo(db, raced, p.coin, o) /\ p.amount \in Int
    BY <1>1 DEF LedgerInv, DepositsOk, DepositsFor, RefundContract, AllocationId
<1>3. ASSUME NEW c \in coins PROVE BelongsTo(db, raced, c, o) /\ amount[c] \in Int
    <2>1. \E p \in DepositsFor(o) : p.coin = c
        OBVIOUS
    <2>. PICK q : q = CHOOSE p \in DepositsFor(o) : p.coin = c
        OBVIOUS
    <2>2. q \in DepositsFor(o) /\ q.coin = c
        BY <2>1
    <2>3. amount[c] = q.amount
        OBVIOUS
    <2>. QED
        BY <1>2, <2>2, <2>3
<1>4. ASSUME NEW ans \in [coins -> {"success", "pending", "failed"}] PROVE AnswerOk(db, raced, loc(ans), o)
    <2>1. loc(ans).status = ans /\ loc(ans).amount = amount /\ DOMAIN ans = coins
        OBVIOUS
    <2>. HIDE DEF loc, amount, coins
    <2>. QED
        BY <1>3, <2>1 DEF AnswerOk
<1>5. \/ exchange' = exchange /\ Done(t)
      \/ \E ans \in [coins -> {"success", "pending", "failed"}] : \E S :
            exchange' = RefundAtExchange(o, S, 1) /\ (Goto(t, "accept", loc(ans)) \/ Done(t))
    BY DEF PostRefund
<1>. HIDE DEF loc, amount, coins
<1>6. GoodTasks
    <2>1. CASE Done(t)
        BY <2>1, QuietGood DEF Quiet
    <2>2. ASSUME NEW ans, AnswerOk(db, raced, loc(ans), o), Goto(t, "accept", loc(ans)) PROVE GoodTasks
        <3>1. GivenOk(Op(t), Key(t), "accept", loc(ans), db, raced)
            BY <1>1, <2>2 DEF GivenOk
        <3>. QED
            BY <2>2, <3>1, GotoGood
    <2>. QED
        BY <1>4, <1>5, <2>1, <2>2
<1>7. DepositsOk(exchange'.deposits, db, raced)
    BY <1>5, MarkedDepositsOk DEF LedgerInv
<1>. QED
    BY <1>1, <1>6, <1>7, DepositsLedgerStep

(* That of an abort names the coins of the purchase. *)
LEMMA LedgerPostAbort ==
    ASSUME WalletInv, LedgerInv, NEW t \in tasks, PostAbort(t)
    PROVE  LedgerInv'
<1>. DEFINE o == Key(t)
            sel == Loc(t)
            loc(ans) == [rt |-> 0, status |-> ans, amount |-> Loc(t)]
<1>1. Op(t) = "refund" /\ Pc(t) = "abort" /\ UNCHANGED <<db, raced>>
    BY DEF PostAbort, At
<1>2. SelectionOk(db, raced, sel, o)
    BY <1>1 DEF LedgerInv, LedgerTask, RefundTask
<1>3. ASSUME NEW ans \in [DOMAIN sel -> {"success", "pending", "notFound"}]
      PROVE  AnswerOk(db, raced, loc(ans), o)
    <2>1. loc(ans).status = ans /\ loc(ans).amount = sel /\ DOMAIN ans = DOMAIN sel
        OBVIOUS
    <2>. HIDE DEF loc
    <2>. QED
        BY <1>2, <2>1 DEF AnswerOk, SelectionOk
<1>4. \/ exchange' = exchange /\ Done(t)
      \/ \E ans \in [DOMAIN sel -> {"success", "pending", "notFound"}] : \E S :
            exchange' = RefundAtExchange(o, S, 0) /\ (Goto(t, "accept", loc(ans)) \/ Done(t))
    BY DEF PostAbort
<1>. HIDE DEF loc
<1>5. GoodTasks
    <2>1. CASE Done(t)
        BY <2>1, QuietGood DEF Quiet
    <2>2. ASSUME NEW ans, AnswerOk(db, raced, loc(ans), o), Goto(t, "accept", loc(ans)) PROVE GoodTasks
        <3>1. GivenOk(Op(t), Key(t), "accept", loc(ans), db, raced)
            BY <1>1, <2>2 DEF GivenOk
        <3>. QED
            BY <2>2, <3>1, GotoGood
    <2>. QED
        BY <1>3, <1>4, <2>1, <2>2
<1>6. DepositsOk(exchange'.deposits, db, raced)
    BY <1>4, MarkedDepositsOk DEF LedgerInv
<1>. QED
    BY <1>1, <1>5, <1>6, DepositsLedgerStep

-----------------------------------------------------------------------------
(* A transaction that spends coins, on tables of coins and groups as they are *)
Spending(d, e, sel, id, T) ==
    /\ DbShape(d) /\ d.coins = db.coins /\ d.refreshGroups = db.refreshGroups /\ d.tips = db.tips
    /\ e = ApplyCoinSpend(d, sel, id) /\ ~SpendConflict(db, sel, id) /\ IntAmounts(sel)
    /\ raced \subseteq T /\ Skipped(db, sel) \subseteq T
SpentIn(d, e, sel, id, T) ==
    /\ DbShape(e) /\ Books(e) /\ BalancesKept(d, e) /\ SourcesOk(e) /\ TipsOk(e) /\ Stays(db, raced, e, T)
    /\ e.purchases = d.purchases /\ DOMAIN e.coins = DOMAIN db.coins /\ MarksStay(db, e)
    /\ \A c \in DOMAIN sel : c \in DOMAIN e.coins /\ (c \in T \/ AllocatedTo(e, c, id))

(* leaves all of it in order but for the purchases. *)
LEMMA SpentKeeps ==
    ASSUME WalletInv, LedgerInv, NEW d, NEW e, NEW sel, NEW id, NEW T, Spending(d, e, sel, id, T), Books(d)
    PROVE  SpentIn(d, e, sel, id, T)
<1>0. DbShape(d) /\ CoinsOk(d.coins) /\ IsList(d.refreshGroups) /\ ~SpendConflict(d, sel, id) /\ IntAmounts(sel)
    BY DEF Spending, WalletInv, TablesInv, RefreshInv, SpendConflict
<1>1. /\ Books(e) /\ BalancesKept(d, e) /\ MarksStay(d, e) /\ SelectionSpent(d, e, sel, id)
      /\ e.purchases = d.purchases
    BY <1>0, SpendBooked DEF Spending
<1>2. DbShape(e) /\ e.tips = db.tips
    <2>1. Spends(d, ApplyCoinSpend(d, sel, id))
        BY <1>0, CoinsSpent
    <2>. QED
        BY <2>1 DEF Spends, Spending
<1>3. DOMAIN e.coins = DOMAIN db.coins
    BY <1>1 DEF BalancesKept, Spending
<1>4. SourcesOk(e) /\ TipsOk(e)
    BY <1>2, <1>3 DEF LedgerInv, LedgerTables, SourcesOk, TipsOk
<1>5. Stays(db, raced, e, T) /\ MarksStay(db, e)
    BY <1>1, <1>3 DEF Stays, MarksStay, Spending
<1>6. Skipped(d, sel) \subseteq T
    BY DEF Spending, Skipped
<1>7. \A c \in DOMAIN sel : c \in DOMAIN e.coins /\ (c \in T \/ AllocatedTo(e, c, id))
    BY <1>1, <1>3, <1>6 DEF SelectionSpent, Spending
<1>. QED
    BY <1>1, <1>2, <1>3, <1>4, <1>5, <1>7 DEF SpentIn

(* What was spent for an order belongs to it. *)
LEMMA SpentSelection ==
    ASSUME NEW d, NEW e, NEW sel, NEW o, NEW T, SpentIn(d, e, sel, AllocationId(o), T), IntAmounts(sel)
    PROVE  SelectionOk(e, T, sel, o)
BY DEF SpentIn, SelectionOk, BelongsTo, IntAmounts

(* Refunds that an order has had are of coins that belong to it: they are not clean if it is hit. *)
LEMMA RefundedBelong ==
    ASSUME LedgerInv, NEW c \in DOMAIN db.coins, NEW q \in KeysOf(RefundTables(db)), q[2][1] = c,
           NEW e, NEW T, MarksStay(db, e), raced \subseteq T, AllocationId(q[1]) \in T
    PROVE  q[1] \in Bought(db) /\ ~Clean(e, c, T)
<1>. PICK o : o = q[1]
    OBVIOUS
<1>1. o \in DOMAIN RefundTables(db) /\ q[2] \in DOMAIN RefundTables(db)[o]
    BY KeyFacts
<1>2. o \in Bought(db)
    BY <1>1 DEF RefundTables
<1>3. q[2] \in DOMAIN db.purchases[o].refunds
    BY <1>1, <1>2 DEF RefundTables
<1>4. RefundsOk(db, raced, db.purchases[o].refunds, o)
    BY <1>2 DEF LedgerInv, LedgerTables, PurchasesOk
<1>5. BelongsTo(db, raced, c, o)
    BY <1>3, <1>4 DEF RefundsOk
<1>6. c \in T \/ (e.coins[c].allocation # Absent /\ e.coins[c].allocation.id \in T)
    BY <1>5 DEF BelongsTo, AllocatedTo, MarksStay
<1>. QED
    BY <1>2, <1>6 DEF Clean

(* The purchase that is recorded has no refunds. *)
Recorded(d, o, sel) ==
    d = [db EXCEPT !.proposals[o].status = "ACCEPTED", !.purchases[o] = NewPurchase(sel)]

(* A purchase is recorded with its selection. *)
LEMMA PurchaseRecorded ==
    ASSUME WalletInv, NEW o \in Orders, NEW sel, NEW d, Recorded(d, o, sel)
    PROVE  /\ DbShape(d) /\ d.coins = db.coins /\ d.refreshGroups = db.refreshGroups /\ d.tips = db.tips
           /\ RefundsDropped(db, d, o) /\ d.purchases[o].payCoinSelection = sel
           /\ d.purchases[o].refunds = <<>> /\ \A u \in Orders \ {o} : d.purchases[u] = db.purchases[u]
<1>. PICK x : x = [db.proposals EXCEPT ![o].status = "ACCEPTED"]
    OBVIOUS
<1>. PICK p : p = NewPurchase(sel)
    OBVIOUS
<1>. PICK s : s = [db.purchases EXCEPT ![o] = p]
    OBVIOUS
<1>1. d = [db EXCEPT !.proposals = x, !.purchases = s]
    BY DEF WalletInv, TablesInv, DbShape, Recorded
<1>2. s[o] = p /\ \A u \in Orders \ {o} : s[u] = db.purchases[u]
    BY DEF WalletInv, TablesInv, PurchaseInv, IsFunction
<1>3. p.payCoinSelection = sel /\ p.refunds = <<>> /\ p # Absent
    <2>1. PurchaseOk(p)
        BY PurchaseNew
    <2>2. p # Absent
        BY <2>1, PurchaseThere
    <2>3. p.payCoinSelection = sel /\ p.refunds = <<>>
        BY DEF NewPurchase
    <2>. QED
        BY <2>2, <2>3
<1>4. /\ DbShape(d) /\ d.coins = db.coins /\ d.refreshGroups = db.refreshGroups /\ d.tips = db.tips
      /\ d.recoupGroups = db.recoupGroups /\ d.purchases = s
    BY <1>1 DEF WalletInv, TablesInv, DbShape
<1>5. RefundsDropped(db, d, o)
    <2>1. Bought(d) = Bought(db) \cup {o}
        BY <1>2, <1>3, <1>4 DEF Bought
    <2>. QED
        BY <1>2, <1>3, <1>4, <2>1 DEF RefundsDropped
<1>. QED
    BY <1>2, <1>3, <1>4, <1>5

(* recordConfirmPay: refunds of a purchase that it overwrites are gone, but then the order is hit. *)
LEMMA LedgerRecordConfirmPay ==
    ASSUME WalletInv, LedgerInv, NEW t \in tasks, RecordConfirmPay(t)
    PROVE  LedgerInv'
<1>. DEFINE o == Key(t)
            sel == Loc(t)
            id == AllocationId(o)
<1>1. Op(t) = "confirm" /\ Pc(t) = "record" /\ o \in Orders /\ UNCHANGED exchange
    BY DEF RecordConfirmPay, At, WalletInv, TaskOk
<1>2. IntAmounts(sel)
    BY <1>1 DEF LedgerInv, LedgerTask
<1>3. CASE SpendConflict(db, sel, id)
    <2>1. Done(t) /\ UNCHANGED <<db, raced>>
        BY <1>3 DEF RecordConfirmPay
    <2>2. GoodTasks
        BY <2>1, QuietGood DEF Quiet
    <2>. QED
        BY <1>1, <2>1, <2>2, GoodTasksStep
<1>4. CASE ~SpendConflict(db, sel, id)
    <2>d. PICK d : d = [db EXCEPT !.proposals[o].status = "ACCEPTED", !.purchases[o] = NewPurchase(sel)]
        OBVIOUS
    <2>1. /\ db' = ApplyCoinSpend(d, sel, id)
          /\ raced' = raced \cup Skipped(db, sel) \cup (IF HasPurchase(o) THEN {id} ELSE {})
          /\ tasks' = (tasks \ {t}) \cup {Task("pay", o, "pay", sel)}
        BY <1>4, <2>d DEF RecordConfirmPay
    <2>2. /\ DbShape(d) /\ d.coins = db.coins /\ d.refreshGroups = db.refreshGroups /\ d.tips = db.tips
          /\ RefundsDropped(db, d, o) /\ d.purchases[o].payCoinSelection = sel
          /\ d.purchases[o].refunds = <<>> /\ \A u \in Orders \ {o} : d.purchases[u] = db.purchases[u]
        <3>1. Recorded(d, o, sel)
            BY <2>d DEF Recorded
        <3>. QED
            BY <1>1, <3>1, PurchaseRecorded
    <2>3. raced \subseteq raced' /\ Skipped(db, sel) \subseteq raced' /\ (HasPurchase(o) => id \in raced')
        BY <2>1
    <2>4. Spending(d, db', sel, id, raced')
        BY <1>2, <1>4, <2>1, <2>2, <2>3 DEF Spending
    <2>5. /\ Books(d)
          /\ \A c \in DOMAIN db.coins :
                Balanced(db, c) /\ (\A q \in KeysOf(RefundTables(db)) : q[2][1] = c => q[1] # o) => Balanced(d, c)
        BY <2>2, RefundsDroppedBooked DEF LedgerInv, LedgerTables
    <2>6. SpentIn(d, db', sel, id, raced')
        BY <2>4, <2>5, SpentKeeps
    <2>7. SelectionOk(db', raced', sel, o)
        BY <1>2, <2>6, SpentSelection
    <2>8. AllBalanced(db', raced')
        <3>1. ASSUME NEW c \in DOMAIN db.coins, Clean(db', c, raced'), Balanced(db, c)
              PROVE  Balanced(db', c)
            <4>1. ASSUME NEW q \in KeysOf(RefundTables(db)), q[2][1] = c PROVE q[1] # o
                <5>1. q[1] = o => q[1] \in Bought(db) /\ id \in raced'
                    <6>1. q[1] \in DOMAIN RefundTables(db)
                        BY KeyFacts
                    <6>2. q[1] \in Bought(db)
                        BY <6>1 DEF RefundTables
                    <6>. QED
                        BY <2>3, <6>2 DEF Bought, HasPurchase
                <5>2. MarksStay(db, db')
                    BY <2>6 DEF SpentIn
                <5>. QED
                    BY <2>3, <3>1, <4>1, <5>1, <5>2, RefundedBelong
            <4>2. Balanced(d, c)
                BY <2>5, <3>1, <4>1
            <4>. QED
                BY <2>2, <2>6, <4>2 DEF SpentIn, BalancesKept
        <3>2. BalancesStay(db, db', raced') /\ Stays(db, raced, db', raced')
            BY <2>6, <3>1 DEF BalancesStay, SpentIn
        <3>. QED
            BY <3>2, AllBalancedStays DEF LedgerInv, LedgerTables
    <2>9. PurchasesOk(db', raced')
        <3>1. db'.purchases = d.purchases /\ Bought(db') = Bought(d) /\ Stays(db, raced, db', raced')
            BY <2>6 DEF SpentIn, Bought
        <3>2. PurchasesBut(db, db', o)
            BY <2>2, <3>1 DEF Bought, PurchasesBut
        <3>3. /\ SelectionOk(db', raced', db'.purchases[o].payCoinSelection, o)
              /\ RefundsOk(db', raced', db'.purchases[o].refunds, o)
            BY <2>2, <2>7, <3>1, ListFacts DEF RefundsOk
        <3>4. PurchasesOk(db, raced)
            BY DEF LedgerInv, LedgerTables
        <3>. QED
            BY <3>1, <3>2, <3>3, <3>4, PurchasesStay
    <2>10. LedgerTables(db', raced') /\ Stays(db, raced, db', raced')
        BY <2>6, <2>8, <2>9 DEF LedgerTables, SpentIn
    <2>11. DepositsOk(exchange'.deposits, db', raced')
        BY <1>1, <2>10, DepositsStay DEF LedgerInv
    <2>12. ASSUME NEW u \in tasks', u \notin tasks PROVE LedgerTask(u, db', raced')
        <3>1. IsTask(u, "pay", o, "pay", sel)
            BY <2>1, <2>12, NewTask
        <3>2. GivenOk("pay", o, "pay", sel, db', raced')
            BY <2>7 DEF GivenOk
        <3>. QED
            BY <3>1, <3>2, GivenTask
    <2>. QED
        BY <2>10, <2>11, <2>12, LedgerStep
<1>. QED
    BY <1>3, <1>4

(* A new selection is stored with the coins that it spends. *)
LEMMA LedgerStoreReselection ==
    ASSUME WalletInv, LedgerInv, NEW t \in tasks, StoreReselection(t)
    PROVE  LedgerInv'
<1>. DEFINE o == Key(t)
            sel == Loc(t).sel
            id == AllocationId(o)
            p == db.purchases[o]
<1>1. Op(t) = "pay" /\ Pc(t) = "reselected" /\ Done(t) /\ UNCHANGED exchange
    BY DEF StoreReselection, At
<1>2. IntAmounts(sel) /\ o \in Orders /\ HasPurchase(o) /\ PurchaseOk(p)
    BY <1>1, PaysPurchase DEF LedgerInv, LedgerTask, PayTask
<1>3. GoodTasks
    BY <1>1, QuietGood DEF Quiet
<1>4. CASE SpendConflict(db, sel, id)
    BY <1>1, <1>3, <1>4, GoodTasksStep DEF StoreReselection
<1>5. CASE ~SpendConflict(db, sel, id)
    <2>q. PICK q : q = [p EXCEPT !.payCoinSelection = sel]
        OBVIOUS
    <2>d. PICK d : d = [db EXCEPT !.purchases[o] = q]
        OBVIOUS
    <2>1. PurchaseOk(q) /\ q.payCoinSelection = sel /\ q.refunds = p.refunds /\ q # Absent
        <3>1. PurchaseOk(q)
            BY <1>2, <2>q, PurchaseFields
        <3>2. q.payCoinSelection = sel /\ q.refunds = p.refunds
            BY <1>2, <2>q DEF PurchaseOk, PurchaseShape
        <3>. QED
            BY <3>1, <3>2, PurchaseThere
    <2>2. PurchasePut(db, d, o, q)
        BY <2>d DEF PurchasePut
    <2>3. d = [db EXCEPT !.purchases[o].payCoinSelection = sel]
        BY <2>d, <2>q DEF WalletInv, TablesInv, DbShape
    <2>4. /\ db' = ApplyCoinSpend(d, sel, id)
          /\ raced \subseteq raced' /\ Skipped(db, sel) \subseteq raced'
        BY <1>5, <2>3 DEF StoreReselection
    <2>5. /\ DbShape(d) /\ d.coins = db.coins /\ d.refreshGroups = db.refreshGroups
          /\ d.recoupGroups = db.recoupGroups /\ d.tips = db.tips
          /\ d.purchases[o] = q /\ \A u \in Orders \ {o} : d.purchases[u] = db.purchases[u]
        BY <1>2, <2>2, PurchasePutFields
    <2>6. SameLists(db, d) /\ OutputsOk(d) /\ SchedulesOk(d)
        <3>1. RefundTables(d) = RefundTables(db)
            BY <1>2, <2>1, <2>5 DEF RefundTables, Bought, HasPurchase
        <3>2. OutputsOk(d) /\ SchedulesOk(d)
            BY <2>5 DEF LedgerInv, LedgerTables, Books, RefreshBooks, RecoupBooks, OutputsOk, SchedulesOk
        <3>. QED
            BY <2>5, <3>1, <3>2
               DEF SameLists, OldCoins, InputAmounts, RecoupLists, RecoupAmounts, FinishedLists
    <2>7. Books(d) /\ BalancesKept(db, d)
        BY <2>5, <2>6, QuietBooked DEF LedgerInv, LedgerTables
    <2>8. Spending(d, db', sel, id, raced')
        BY <1>2, <1>5, <2>4, <2>5 DEF Spending
    <2>9. SpentIn(d, db', sel, id, raced')
        BY <2>7, <2>8, SpentKeeps
    <2>10. SelectionOk(db', raced', sel, o)
        BY <1>2, <2>9, SpentSelection
    <2>11. Stays(db, raced, db', raced') /\ db'.purchases = d.purchases
        BY <2>9 DEF SpentIn
    <2>12. AllBalanced(db', raced')
        <3>1. BalancesStay(db, db', raced')
            BY <2>5, <2>7, <2>9 DEF BalancesStay, BalancesKept, SpentIn
        <3>. QED
            BY <2>11, <3>1, AllBalancedStays DEF LedgerInv, LedgerTables
    <2>13. PurchasesOk(db', raced')
        <3>1. PurchasesBut(db, db', o)
            BY <2>5, <2>11 DEF Bought, PurchasesBut
        <3>2. RefundsOk(db', raced', p.refunds, o)
            BY <1>2, <2>11, BoughtSelection, NamesStay
        <3>3. /\ SelectionOk(db', raced', db'.purchases[o].payCoinSelection, o)
              /\ RefundsOk(db', raced', db'.purchases[o].refunds, o)
            BY <2>1, <2>5, <2>10, <2>11, <3>2
        <3>4. PurchasesOk(db, raced)
            BY DEF LedgerInv, LedgerTables
        <3>. QED
            BY <2>11, <3>1, <3>3, <3>4, PurchasesStay
    <2>14. LedgerTables(db', raced')
        BY <2>9, <2>12, <2>13 DEF LedgerTables, SpentIn
    <2>15. DepositsOk(exchange'.deposits, db', raced')
        BY <1>1, <2>11, DepositsStay DEF LedgerInv
    <2>16. \A u \in tasks' : u \in tasks \/ LedgerTask(u, db', raced')
        BY <1>1 DEF Done
    <2>. QED
        BY <2>11, <2>14, <2>15, <2>16, LedgerStep
<1>. QED
    BY <1>4, <1>5

(* Spending that stores no purchase *)
LEMMA SpentTables ==
    ASSUME WalletInv, LedgerInv, NEW e, Books(e), BalancesKept(db, e), SourcesOk(e), TipsOk(e), NEW T,
           Stays(db, raced, e, T), e.purchases = db.purchases
    PROVE  LedgerTables(e, T)
<1>1. BalancesStay(db, e, T)
    BY DEF BalancesStay, BalancesKept
<1>2. AllBalanced(e, T)
    BY <1>1, AllBalancedStays DEF LedgerInv, LedgerTables
<1>3. ASSUME NEW o \in Bought(e)
      PROVE  /\ SelectionOk(e, T, e.purchases[o].payCoinSelection, o)
             /\ RefundsOk(e, T, e.purchases[o].refunds, o)
    <2>1. o \in Orders /\ HasPurchase(o)
        BY DEF Bought, HasPurchase
    <2>. QED
        BY <2>1, BoughtSelection, NamesStay
<1>4. PurchasesOk(e, T)
    BY <1>3 DEF PurchasesOk
<1>. QED
    BY <1>2, <1>4 DEF LedgerTables

(* A deposit group is stored together with the coins that it spends. *)
LEMMA LedgerRecordDeposit ==
    ASSUME WalletInv, LedgerInv, NEW t \in tasks, RecordDepositGroup(t)
    PROVE  LedgerInv'
<1>. DEFINE sel == Loc(t)
            id == DepositContract(Len(db.depositGroups) + 1)
<1>1. Op(t) = "createDeposit" /\ Pc(t) = "record" /\ Done(t) /\ UNCHANGED exchange
    BY DEF RecordDepositGroup, At
<1>2. IntAmounts(sel)
    BY <1>1 DEF LedgerInv, LedgerTask
<1>3. GoodTasks
    BY <1>1, QuietGood DEF Quiet
<1>4. CASE SpendConflict(db, sel, id)
    BY <1>1, <1>3, <1>4, GoodTasksStep DEF RecordDepositGroup
<1>5. CASE ~SpendConflict(db, sel, id)
    <2>. PICK e : e = ApplyCoinSpend(db, sel, id)
        OBVIOUS
    <2>1. raced' = raced \cup Skipped(db, sel) /\ \E s : db' = [e EXCEPT !.depositGroups = s]
        BY <1>5 DEF RecordDepositGroup
    <2>2. Spending(db, e, sel, id, raced')
        BY <1>2, <1>5, <2>1 DEF Spending, WalletInv, TablesInv
    <2>3. SpentIn(db, e, sel, id, raced')
        BY <2>2, SpentKeeps DEF LedgerInv, LedgerTables
    <2>4. LedgerTables(e, raced') /\ Stays(db, raced, e, raced')
        BY <2>3, SpentTables DEF SpentIn
    <2>5. /\ db'.coins = e.coins /\ db'.refreshGroups = e.refreshGroups /\ db'.recoupGroups = e.recoupGroups
          /\ db'.purchases = e.purchases /\ db'.tips = e.tips
        BY <2>1, <2>3 DEF SpentIn, DbShape
    <2>6. SameMoney(e, db')
        <3>1. TipsOk(db')
            BY <2>4, <2>5 DEF LedgerTables, TipsOk
        <3>. QED
            BY <2>4, <2>5, <3>1, OtherTables DEF SameTables
    <2>7. LedgerTables(db', raced')
        BY <2>4, <2>6, SameMoneyStays
    <2>8. Stays(db, raced, db', raced')
        BY <2>4, <2>5 DEF Stays
    <2>9. DepositsOk(exchange'.deposits, db', raced')
        BY <1>1, <2>8, DepositsStay DEF LedgerInv
    <2>10. \A u \in tasks' : u \in tasks \/ LedgerTask(u, db', raced')
        BY <1>1 DEF Done
    <2>. QED
        BY <2>7, <2>8, <2>9, <2>10, LedgerStep
<1>. QED
    BY <1>4, <1>5

(* A step that moves money between the tables, and ends promises at most *)
Moves(d, e) ==
    /\ Books(e) /\ BalancesKept(d, e) /\ AllocationsKept(d, e)
    /\ e.purchases = d.purchases /\ e.tips = d.tips

(* keeps the invariant. *)
LEMMA MovesStep ==
    ASSUME WalletInv, LedgerInv, Moves(db, db'), UNCHANGED <<exchange, raced>>, GoodTasks
    PROVE  LedgerInv'
<1>1. Stays(db, raced, db', raced')
    BY DEF Moves, BalancesKept, AllocationsKept, Stays
<1>2. SourcesOk(db') /\ TipsOk(db')
    BY DEF Moves, BalancesKept, LedgerInv, LedgerTables, SourcesOk, TipsOk
<1>3. LedgerTables(db', raced')
    BY <1>1, <1>2, SpentTables DEF Moves
<1>4. DepositsOk(exchange'.deposits, db', raced')
    BY <1>1, DepositsStay DEF LedgerInv
<1>5. \A u \in tasks' : u \in tasks \/ LedgerTask(u, db', raced')
    BY <1>1, LedgerTaskStays DEF GoodTasks
<1>. QED
    BY <1>1, <1>3, <1>4, <1>5, LedgerStep

(* autoRefresh *)
LEMMA LedgerAutoRefresh ==
    ASSUME WalletInv, LedgerInv, NEW dn, AutoRefresh(dn)
    PROVE  LedgerInv'
<1>1. PICK due : due \subseteq DOMAIN db.coins /\ db' = CreateRefreshGroup(db, SetToSeq(due))
    BY DEF AutoRefresh
<1>2. DbShape(db) /\ CoinsOk(db.coins) /\ IsList(db.refreshGroups) /\ Books(db)
    BY DEF WalletInv, TablesInv, RefreshInv, LedgerInv, LedgerTables
<1>3. CoinList(SetToSeq(due), DOMAIN db.coins)
    <2>1. IsFiniteSet(DOMAIN db.coins)
        BY <1>2 DEF Books, CoinBooks
    <2>. QED
        BY <1>1, <2>1, ListOfSubset
<1>4. Books(db') /\ BalancesKept(db, db') /\ AllocationsKept(db, db') /\ db'.purchases = db.purchases
    BY <1>1, <1>2, <1>3, RefreshBooked
<1>5. db'.tips = db.tips
    <2>1. Spends(db, CreateRefreshGroup(db, SetToSeq(due)))
        BY <1>2, RefreshGroupCreated
    <2>. QED
        BY <1>1, <2>1 DEF Spends
<1>6. GoodTasks /\ UNCHANGED <<exchange, raced>>
    BY DEF AutoRefresh, GoodTasks
<1>. QED
    BY <1>4, <1>5, <1>6, MovesStep DEF Moves

(* createRecoupGroup leaves the tips alone. *)
LEMMA RecoupGroupTips ==
    ASSUME NEW d, DbShape(d), NEW cs
    PROVE  CreateRecoupGroup(d, cs).tips = d.tips
<1>1. \E f, s : CreateRecoupGroup(d, cs) = [d EXCEPT !.coins = f, !.recoupGroups = s]
    BY Zenon DEF CreateRecoupGroup
<1>. QED
    BY <1>1 DEF DbShape

(* A denomination is revoked. *)
LEMMA LedgerRevokeDenomination ==
    ASSUME WalletInv, LedgerInv, NEW dn, RevokeDenomination(dn)
    PROVE  LedgerInv'
<1>s. PICK set : set = db.revoked \cup {dn}
    OBVIOUS
<1>d. PICK d : d = [db EXCEPT !.revoked = set]
    OBVIOUS
<1>1. UNCHANGED <<tasks, exchange, raced>>
      /\ (db' = d \/ \E cs : cs \subseteq DOMAIN db.coins /\ db' = CreateRecoupGroup(d, SetToSeq(cs)))
    BY <1>s, <1>d DEF RevokeDenomination
<1>2. /\ DbShape(d) /\ d.coins = db.coins /\ d.refreshGroups = db.refreshGroups
      /\ d.recoupGroups = db.recoupGroups /\ d.tips = db.tips /\ d.purchases = db.purchases
    BY <1>d DEF WalletInv, TablesInv, DbShape
<1>3. Books(d) /\ BalancesKept(db, d) /\ AllocationsKept(db, d)
    <2>1. SameTables(db, d)
        BY <1>2 DEF SameTables
    <2>2. SameLists(db, d) /\ OutputsOk(d) /\ SchedulesOk(d) /\ Books(db)
        BY <1>2, <2>1, TablesSayTheSame DEF LedgerInv, LedgerTables, Books, RefreshBooks, RecoupBooks
    <2>. QED
        BY <1>2, <2>2, QuietBooked
<1>4. ASSUME NEW cs, cs \subseteq DOMAIN db.coins, db' = CreateRecoupGroup(d, SetToSeq(cs))
      PROVE  Moves(db, db')
    <2>1. CoinsOk(d.coins) /\ IsList(d.recoupGroups)
        BY <1>2 DEF WalletInv, TablesInv, RecoupInv
    <2>2. CoinList(SetToSeq(cs), DOMAIN d.coins)
        <3>1. IsFiniteSet(DOMAIN d.coins) /\ cs \subseteq DOMAIN d.coins
            BY <1>2, <1>3, <1>4 DEF Books, CoinBooks
        <3>. QED
            BY <3>1, ListOfSubset
    <2>3. Books(db') /\ BalancesKept(d, db') /\ AllocationsKept(d, db') /\ db'.purchases = d.purchases
        BY <1>2, <1>3, <1>4, <2>1, <2>2, RecoupBooked
    <2>4. db'.tips = d.tips
        BY <1>2, <1>4, RecoupGroupTips
    <2>. QED
        BY <1>2, <1>3, <2>3, <2>4 DEF Moves, BalancesKept, AllocationsKept
<1>5. Moves(db, d)
    BY <1>2, <1>3 DEF Moves
<1>6. Moves(db, db')
    BY <1>1, <1>4, <1>5
<1>7. GoodTasks
    BY <1>1 DEF GoodTasks
<1>. QED
    BY <1>1, <1>6, <1>7, MovesStep

-----------------------------------------------------------------------------
(* Refunds of some coins are stored with one order, and what they give is put back on the coins. *)
NewRefunds(o, rt, N) == {<<o, <<c, rt>>>> : c \in N}
RefundsPut(old, new, rt, N, credit) ==
    /\ DOMAIN new = DOMAIN old \cup {<<c, rt>> : c \in N}
    /\ \A k \in DOMAIN old \ {<<c, rt>> : c \in N} : new[k] = old[k]
    /\ \A c \in N : /\ new[<<c, rt>>].credit = credit[c] /\ RefundBook(new[<<c, rt>>])
                    /\ <<c, rt>> \in DOMAIN old => old[<<c, rt>>].state \notin {"Applied", "Failed"}
RefundsStored(d, e, o, rt, N, credit) ==
    /\ e.refreshGroups = d.refreshGroups /\ e.recoupGroups = d.recoupGroups /\ N \subseteq DOMAIN d.coins
    /\ o \in Bought(d) /\ Bought(e) = Bought(d) /\ \A u \in Bought(d) \ {o} : e.purchases[u] = d.purchases[u]
    /\ RefundsPut(d.purchases[o].refunds, e.purchases[o].refunds, rt, N, credit)
CoinsGiven(d, e, N, credit) ==
    /\ DOMAIN e.coins = DOMAIN d.coins
    /\ \A c \in DOMAIN d.coins :
          /\ e.coins[c].value = d.coins[c].value /\ e.coins[c].allocation = d.coins[c].allocation
          /\ OnCoin(e.coins[c]) = IF c \in N THEN OnCoin(d.coins[c]) + credit[c] ELSE OnCoin(d.coins[c])

RefundIn(q, o, rt, N, credit, tb, te) ==
    /\ q[2][1] \in N /\ q = <<o, <<q[2][1], rt>>>>
    /\ AmountAt(q, te).credit = credit[q[2][1]] /\ RefundBook(AmountAt(q, te))
    /\ q \in KeysOf(tb) => AmountAt(q, tb).state \notin {"Applied", "Failed"}

(* The other refunds stay where they are. *)
LEMMA RefundsStoredKeys ==
    ASSUME NEW d, NEW e, NEW o, NEW rt, NEW N, NEW credit, RefundsStored(d, e, o, rt, N, credit)
    PROVE  /\ KeysOf(RefundTables(e)) = KeysOf(RefundTables(d)) \cup NewRefunds(o, rt, N)
           /\ SameAt(KeysOf(RefundTables(d)) \ NewRefunds(o, rt, N), RefundTables(d), RefundTables(e))
           /\ \A q \in NewRefunds(o, rt, N) : RefundIn(q, o, rt, N, credit, RefundTables(d), RefundTables(e))
<1>. DEFINE tb == RefundTables(d)
            te == RefundTables(e)
            new == {<<c, rt>> : c \in N}
<1>1. /\ DOMAIN te = DOMAIN tb /\ o \in DOMAIN tb /\ \A u \in DOMAIN tb \ {o} : te[u] = tb[u]
      /\ RefundsPut(tb[o], te[o], rt, N, credit)
    BY DEF RefundsStored, RefundTables
<1>. HIDE DEF tb, te
<1>2. /\ DOMAIN te[o] = DOMAIN tb[o] \cup new
      /\ \A k \in DOMAIN tb[o] \ new : te[o][k] = tb[o][k]
    BY <1>1 DEF RefundsPut
<1>3. ASSUME NEW q \in KeysOf(te) PROVE q \in KeysOf(tb) \cup NewRefunds(o, rt, N)
    <2>1. PICK u, k : u \in DOMAIN te /\ k \in DOMAIN te[u] /\ q = <<u, k>>
        BY KeyFacts
    <2>2. CASE u = o /\ k \in new
        BY <2>1, <2>2 DEF NewRefunds
    <2>3. CASE ~(u = o /\ k \in new)
        <3>1. u \in DOMAIN tb /\ k \in DOMAIN tb[u]
            BY <1>1, <1>2, <2>1, <2>3
        <3>2. <<u, k>> \in KeysOf(tb)
            BY <3>1, KeyFacts, Zenon
        <3>. QED
            BY <2>1, <3>2
    <2>. QED
        BY <2>2, <2>3
<1>4. ASSUME NEW q \in KeysOf(tb), q \notin NewRefunds(o, rt, N)
      PROVE  q \in KeysOf(te) /\ AmountAt(q, tb) = AmountAt(q, te)
    <2>1. PICK u, k : u \in DOMAIN tb /\ k \in DOMAIN tb[u] /\ q = <<u, k>>
        BY KeyFacts
    <2>2. ~(u = o /\ k \in new)
        BY <1>4, <2>1 DEF NewRefunds
    <2>3. u \in DOMAIN te /\ k \in DOMAIN te[u] /\ te[u][k] = tb[u][k]
        BY <1>1, <1>2, <2>1, <2>2
    <2>4. <<u, k>> \in KeysOf(te)
        BY <2>3, KeyFacts, Zenon
    <2>. QED
        BY <2>1, <2>3, <2>4 DEF AmountAt
<1>5. ASSUME NEW q \in NewRefunds(o, rt, N)
      PROVE  /\ q \in KeysOf(te) /\ q[2][1] \in N /\ q = <<o, <<q[2][1], rt>>>>
             /\ AmountAt(q, te).credit = credit[q[2][1]] /\ RefundBook(AmountAt(q, te))
             /\ q \in KeysOf(tb) => AmountAt(q, tb).state \notin {"Applied", "Failed"}
    <2>1. PICK c \in N : q = <<o, <<c, rt>>>>
        BY DEF NewRefunds
    <2>k. PICK k : k = <<c, rt>>
        OBVIOUS
    <2>2. /\ k \in new /\ te[o][k].credit = credit[c] /\ RefundBook(te[o][k])
          /\ k \in DOMAIN tb[o] => tb[o][k].state \notin {"Applied", "Failed"}
        BY <1>1, <2>k DEF RefundsPut
    <2>3. q[1] = o /\ q[2] = k /\ q[2][1] = c
        BY <2>1, <2>k
    <2>4. k \in DOMAIN te[o]
        BY <1>2, <2>2
    <2>5. <<o, k>> \in KeysOf(te)
        BY <1>1, <2>4, KeyFacts, Zenon
    <2>6. AmountAt(q, te) = te[o][k] /\ AmountAt(q, tb) = tb[o][k]
        BY <2>3 DEF AmountAt
    <2>7. q \in KeysOf(tb) => k \in DOMAIN tb[o]
        BY <2>3, KeyFacts
    <2>8. q \in KeysOf(te) /\ q = <<o, <<q[2][1], rt>>>>
        BY <2>1, <2>3, <2>5, <2>k
    <2>. QED
        BY <2>2, <2>3, <2>6, <2>7, <2>8
<1>6. KeysOf(te) = KeysOf(tb) \cup NewRefunds(o, rt, N)
    BY <1>3, <1>4, <1>5
<1>7. SameAt(KeysOf(tb) \ NewRefunds(o, rt, N), tb, te)
    BY <1>4 DEF SameAt
<1>8. \A q \in NewRefunds(o, rt, N) : RefundIn(q, o, rt, N, credit, tb, te)
    BY <1>5 DEF RefundIn
<1>. QED
    BY <1>6, <1>7, <1>8 DEF tb, te

(* The credits of a table of refunds are theirs. *)
LEMMA CreditsFact ==
    ASSUME NEW tables, NEW q \in KeysOf(tables)
    PROVE  AmountAt(q, CreditsOf(tables)) = AmountAt(q, tables).credit
<1>1. q[1] \in DOMAIN tables /\ q[2] \in DOMAIN tables[q[1]]
    BY KeyFacts
<1>. QED
    BY <1>1 DEF AmountAt, CreditsOf

(* The refunds are in order with the new ones. *)
LEMMA RefundsStoredBooks ==
    ASSUME NEW d, NEW e, NEW o, NEW rt, NEW N, NEW credit, Books(d), RefundsStored(d, e, o, rt, N, credit),
           CoinsGiven(d, e, N, credit), CoinBooks(e)
    PROVE  Books(e)
<1>. DEFINE tb == RefundTables(d)
            te == RefundTables(e)
            new == NewRefunds(o, rt, N)
<1>0. CoinBooks(d) /\ RefreshBooks(d) /\ RecoupBooks(d) /\ RefundBooks(d)
    BY DEF Books
<1>1. /\ KeysOf(te) = KeysOf(tb) \cup new /\ SameAt(KeysOf(tb) \ new, tb, te)
      /\ \A q \in new : RefundIn(q, o, rt, N, credit, tb, te)
    BY RefundsStoredKeys
<1>2. IsFiniteSet(KeysOf(te))
    <2>1. IsFiniteSet(N)
        <3>1. N \subseteq DOMAIN d.coins /\ IsFiniteSet(DOMAIN d.coins)
            BY <1>0 DEF CoinBooks, RefundsStored
        <3>. QED
            BY <3>1, FS_Subset
    <2>2. IsFiniteSet({rt}) /\ IsFiniteSet({o})
        BY FS_Singleton
    <2>3. IsFiniteSet(N \X {rt})
        BY <2>1, <2>2, FS_Product
    <2>4. IsFiniteSet({o} \X (N \X {rt}))
        BY <2>2, <2>3, FS_Product
    <2>5. new \subseteq {o} \X (N \X {rt})
        BY DEF NewRefunds
    <2>6. IsFiniteSet(new)
        BY <2>4, <2>5, FS_Subset
    <2>7. IsFiniteSet(KeysOf(tb))
        BY <1>0 DEF RefundBooks
    <2>8. IsFiniteSet(KeysOf(tb) \cup new)
        BY <2>6, <2>7, FS_Union
    <2>. QED
        BY <1>1, <2>8
<1>3. ASSUME NEW q \in KeysOf(te) PROVE q[2][1] \in DOMAIN e.coins /\ RefundBook(AmountAt(q, te))
    <2>0. DOMAIN e.coins = DOMAIN d.coins /\ N \subseteq DOMAIN d.coins
        BY DEF CoinsGiven, RefundsStored
    <2>1. CASE q \in new
        BY <1>1, <2>0, <2>1 DEF RefundIn
    <2>2. CASE q \in KeysOf(tb) \ new
        <3>1. AmountAt(q, tb) = AmountAt(q, te)
            BY <1>1, <2>2, Zenon DEF SameAt
        <3>2. q[2][1] \in DOMAIN d.coins /\ RefundBook(AmountAt(q, tb))
            BY <1>0, <2>2 DEF RefundBooks
        <3>. QED
            BY <2>0, <3>1, <3>2, Zenon
    <2>. QED
        BY <1>1, <2>1, <2>2
<1>4. RefundBooks(e)
    BY <1>2, <1>3 DEF RefundBooks
<1>5. /\ OldCoins(e) = OldCoins(d) /\ InputAmounts(e) = InputAmounts(d)
      /\ RecoupLists(e) = RecoupLists(d) /\ RecoupAmounts(e) = RecoupAmounts(d)
      /\ DOMAIN e.coins = DOMAIN d.coins
    BY DEF RefundsStored, CoinsGiven, OldCoins, InputAmounts, RecoupLists, RecoupAmounts
<1>6. OutputsOk(e) /\ SchedulesOk(e)
    BY <1>0, <1>5 DEF RefundsStored, RefreshBooks, RecoupBooks, OutputsOk, SchedulesOk
<1>7. RefreshBooks(e)
    BY <1>0, <1>5, <1>6 DEF RefreshBooks
<1>8. RecoupBooks(e)
    BY <1>0, <1>5, <1>6 DEF RecoupBooks
<1>. QED
    BY <1>4, <1>7, <1>8 DEF Books

(* What is given back of a coin grows by what its new refund gives, *)
LEMMA GivenBackAfter ==
    ASSUME NEW d, NEW e, NEW o, NEW rt, NEW N, NEW credit, Books(d), Books(e),
           RefundsStored(d, e, o, rt, N, credit), NEW c
    PROVE  GivenBack(e, c) = IF c \in N THEN GivenBack(d, c) + credit[c] ELSE GivenBack(d, c)
<1>. DEFINE new == NewRefunds(o, rt, N)
<1>. PICK tb, te : tb = RefundTables(d) /\ te = RefundTables(e)
    OBVIOUS
<1>. PICK cd, ce : cd = CreditsOf(tb) /\ ce = CreditsOf(te)
    OBVIOUS
<1>. PICK keys, ks : keys = RefundsFor(tb, c) /\ ks = RefundsFor(te, c)
    OBVIOUS
<1>0. /\ KeysOf(te) = KeysOf(tb) \cup new /\ SameAt(KeysOf(tb) \ new, tb, te)
      /\ \A q \in new : RefundIn(q, o, rt, N, credit, tb, te)
    <2>1. /\ KeysOf(RefundTables(e)) = KeysOf(RefundTables(d)) \cup new
          /\ SameAt(KeysOf(RefundTables(d)) \ new, RefundTables(d), RefundTables(e))
          /\ \A q \in new : RefundIn(q, o, rt, N, credit, RefundTables(d), RefundTables(e))
        BY RefundsStoredKeys
    <2>. QED
        BY <2>1
<1>1. /\ KeysOf(te) = KeysOf(tb) \cup new /\ SameAt(KeysOf(tb) \ new, tb, te)
      /\ \A q \in new : /\ q[2][1] \in N /\ q = <<o, <<q[2][1], rt>>>>
                        /\ AmountAt(q, te).credit = credit[q[2][1]]
                        /\ q \in KeysOf(tb) => AmountAt(q, tb).state \notin {"Applied", "Failed"}
    BY <1>0 DEF RefundIn
<1>2. Countable(keys, cd) /\ Countable(ks, ce)
    BY BookedInts
<1>3. ASSUME NEW q \in KeysOf(tb), q \notin new PROVE AmountAt(q, cd) = AmountAt(q, ce)
    <2>1. AmountAt(q, tb) = AmountAt(q, te)
        BY <1>1, <1>3, Zenon DEF SameAt
    <2>2. q \in KeysOf(te)
        BY <1>1
    <2>. QED
        BY <2>1, <2>2, CreditsFact
<1>4. GivenBack(d, c) = Total(keys, cd) /\ GivenBack(e, c) = Total(ks, ce)
    BY DEF GivenBack
<1>5. CASE c \in N
    <2>x. PICK x : x = <<o, <<c, rt>>>>
        OBVIOUS
    <2>1. x \in new /\ x[2][1] = c
        BY <1>5, <2>x DEF NewRefunds
    <2>2. \A q \in new : q[2][1] = c => q = x
        BY <1>1, <2>x
    <2>3. ks = keys \cup {x}
        BY <1>1, <2>1, <2>2 DEF RefundsFor
    <2>4. SameAt(keys \ {x}, cd, ce)
        BY <1>3, <2>2 DEF RefundsFor, SameAt
    <2>5. x \in keys => AmountAt(x, cd) = 0
        <3>1. ASSUME x \in keys PROVE AmountAt(x, cd) = 0
            <4>1. x \in KeysOf(tb)
                BY <3>1 DEF RefundsFor
            <4>2. RefundBook(AmountAt(x, tb)) /\ AmountAt(x, tb).state \notin {"Applied", "Failed"}
                BY <1>1, <2>1, <4>1 DEF Books, RefundBooks
            <4>3. AmountAt(x, cd) = AmountAt(x, tb).credit
                BY <4>1, CreditsFact
            <4>. QED
                BY <4>2, <4>3 DEF RefundBook
        <3>. QED
            BY <3>1
    <2>6. AmountPut(keys, cd, ks, ce, x)
        BY <2>3, <2>4, <2>5 DEF AmountPut
    <2>7. Total(ks, ce) = Total(keys, cd) + AmountAt(x, ce)
        BY <1>2, <2>6, TotalPut
    <2>8. AmountAt(x, ce) = credit[c]
        <3>1. x \in KeysOf(te) /\ AmountAt(x, te).credit = credit[c]
            BY <1>1, <2>1
        <3>2. AmountAt(x, ce) = AmountAt(x, te).credit
            BY <3>1, CreditsFact
        <3>. QED
            BY <3>1, <3>2
    <2>. QED
        BY <1>4, <1>5, <2>7, <2>8
<1>6. CASE c \notin N
    <2>1. \A q \in new : q[2][1] # c
        BY <1>1, <1>6
    <2>2. ks = keys
        BY <1>1, <2>1 DEF RefundsFor
    <2>3. SameAt(keys, cd, ce)
        BY <1>3, <2>1 DEF RefundsFor, SameAt
    <2>4. Total(keys, cd) = Total(keys, ce)
        BY <2>3, TotalSame
    <2>. QED
        BY <1>4, <1>6, <2>2, <2>4
<1>. QED
    BY <1>5, <1>6

(* and so does what is on it. *)
LEMMA RefundsStoredBooked ==
    ASSUME NEW d, NEW e, NEW o, NEW rt, NEW N, NEW credit, Books(d), RefundsStored(d, e, o, rt, N, credit),
           CoinsGiven(d, e, N, credit), CoinBooks(e), \A c \in N : credit[c] \in Int
    PROVE  Books(e) /\ BalancesKept(d, e) /\ AllocationsKept(d, e)
<1>1. Books(e)
    BY RefundsStoredBooks
<1>2. /\ OldCoins(e) = OldCoins(d) /\ InputAmounts(e) = InputAmounts(d) /\ FinishedLists(e) = FinishedLists(d)
      /\ RecoupLists(e) = RecoupLists(d) /\ RecoupAmounts(e) = RecoupAmounts(d)
    BY DEF RefundsStored, OldCoins, InputAmounts, RecoupLists, RecoupAmounts, FinishedLists
<1>3. ASSUME NEW c \in DOMAIN d.coins, Balanced(d, c) PROVE Balanced(e, c)
    <2>1. Melted(e, c) = Melted(d, c) /\ InRecoups(e, c) = InRecoups(d, c) /\ Back(e, c) = Back(d, c)
        BY <1>2 DEF Melted, InRecoups, Back
    <2>2. GivenBack(e, c) = IF c \in N THEN GivenBack(d, c) + credit[c] ELSE GivenBack(d, c)
        BY <1>1, GivenBackAfter
    <2>3. /\ e.coins[c].value = d.coins[c].value
          /\ OnCoin(e.coins[c]) = IF c \in N THEN OnCoin(d.coins[c]) + credit[c] ELSE OnCoin(d.coins[c])
        BY DEF CoinsGiven
    <2>4. Melted(d, c) \in Int /\ InRecoups(d, c) \in Int /\ Back(d, c) \in Int /\ GivenBack(d, c) \in Int
        BY BookedInts
    <2>5. d.coins[c].value \in Int /\ OnCoin(d.coins[c]) \in Int
        BY DEF Books, CoinBooks, CoinBook, OnCoin, AllocatedOf
    <2>6. CASE c \in N
        BY <1>3, <2>1, <2>2, <2>3, <2>4, <2>5, <2>6 DEF Balanced
    <2>7. CASE c \notin N
        BY <1>3, <2>1, <2>2, <2>3, <2>7 DEF Balanced
    <2>. QED
        BY <2>6, <2>7
<1>4. DOMAIN e.coins = DOMAIN d.coins /\ AllocationsKept(d, e)
    BY DEF CoinsGiven, AllocationsKept
<1>. QED
    BY <1>1, <1>3, <1>4 DEF BalancesKept

(* What an answer credits is an amount of the exchange or of the payment; nothing if it is pending. *)
LEMMA CreditsOk ==
    ASSUME NEW p, NEW ans, NEW o, NEW S, CoinBooks(db), SelectionOk(db, S, p.payCoinSelection, o),
           AnswerOk(db, S, ans, o), NEW c \in News(p, ans)
    PROVE  /\ c \in DOMAIN db.coins /\ Credit(p, ans, c) \in Int
           /\ c \notin Credited(p, ans) => Credit(p, ans, c) = 0
<1>1. c \in DOMAIN ans.status
    BY DEF News
<1>2. c \in DOMAIN db.coins
    BY <1>1 DEF AnswerOk, BelongsTo
<1>. PICK cur : cur = db.coins[c].currentAmount
    OBVIOUS
<1>3. cur \in Int
    BY <1>2 DEF CoinBooks, CoinBook
<1>4. Contributed(p, ans, c) => Refunded(p, ans, c) \in Int
    BY <1>1 DEF Contributed, Refunded, AnswerOk, SelectionOk
<1>. PICK x : x = Refunded(p, ans, c)
    OBVIOUS
<1>5. c \notin Credited(p, ans) \/ ~Contributed(p, ans, c) => Credit(p, ans, c) = 0
    BY Zenon DEF Credit
<1>6. CASE c \in Credited(p, ans) /\ Contributed(p, ans, c)
    <2>1. Credit(p, ans, c) = Sub(cur + x, RefundFee) - cur
        BY <1>6 DEF Credit
    <2>2. x \in Int /\ RefundFee \in Int
        BY <1>4, <1>6, FeeAssumption
    <2>. QED
        BY <1>2, <1>3, <1>6, <2>1, <2>2 DEF Sub
<1>. QED
    BY <1>2, <1>5, <1>6

(* The coins of an answer are credited what is not booked with other refunds. *)
LEMMA AnswerCoins ==
    ASSUME NEW p, NEW ans, NEW o, NEW S, CoinsOk(db.coins), CoinBooks(db),
           SelectionOk(db, S, p.payCoinSelection, o), AnswerOk(db, S, ans, o),
           NEW e, e.coins = CreditCoins(p, ans)
    PROVE  CoinsGiven(db, e, News(p, ans), [c \in News(p, ans) |-> Credit(p, ans, c)]) /\ CoinBooks(e)
<1>. DEFINE N == News(p, ans)
            credit == [c \in N |-> Credit(p, ans, c)]
<1>1. DOMAIN e.coins = DOMAIN db.coins
    BY DEF CreditCoins
<1>2. ASSUME NEW c \in DOMAIN db.coins
      PROVE  /\ e.coins[c].value = db.coins[c].value /\ e.coins[c].allocation = db.coins[c].allocation
             /\ OnCoin(e.coins[c]) = IF c \in N THEN OnCoin(db.coins[c]) + credit[c] ELSE OnCoin(db.coins[c])
             /\ CoinBook(e.coins[c])
    <2>1. CoinBook(db.coins[c]) /\ CoinShape(db.coins[c])
        BY DEF CoinBooks, CoinsOk
    <2>2. db.coins[c].currentAmount \in Int /\ AllocatedOf(db.coins[c]) \in Int
        BY <2>1 DEF CoinBook, AllocatedOf
    <2>3. CASE c \in Credited(p, ans)
        <3>. PICK x, s : x = Credit(p, ans, c) /\ s = ans.status[c]
            OBVIOUS
        <3>1. c \in N /\ credit[c] = x
            BY <2>3 DEF Credited
        <3>2. x \in Int
            BY <3>1, CreditsOk
        <3>3. e.coins[c] = CreditCoin(db.coins[c], x, s)
            BY <2>3 DEF CreditCoins
        <3>4. /\ e.coins[c].value = db.coins[c].value /\ e.coins[c].allocation = db.coins[c].allocation
              /\ e.coins[c].currentAmount = db.coins[c].currentAmount + x
              /\ e.coins[c].status = "Dormant" \/ e.coins[c].status = db.coins[c].status
            BY <2>1, <3>3 DEF CreditCoin, CoinShape
        <3>5. AllocatedOf(e.coins[c]) = AllocatedOf(db.coins[c])
            BY <3>4 DEF AllocatedOf
        <3>6. OnCoin(e.coins[c]) = OnCoin(db.coins[c]) + x
            BY <2>2, <3>2, <3>4, <3>5 DEF OnCoin
        <3>7. CoinBook(e.coins[c])
            BY <2>1, <3>2, <3>4 DEF CoinBook
        <3>. QED
            BY <3>1, <3>4, <3>6, <3>7
    <2>4. CASE c \notin Credited(p, ans)
        <3>1. e.coins[c] = db.coins[c]
            BY <2>4 DEF CreditCoins
        <3>2. c \in N => credit[c] = 0
            BY <2>4, CreditsOk
        <3>3. OnCoin(db.coins[c]) \in Int
            BY <2>2 DEF OnCoin
        <3>. QED
            BY <2>1, <3>1, <3>2, <3>3
    <2>. QED
        BY <2>3, <2>4
<1>3. CoinBooks(e)
    BY <1>1, <1>2 DEF CoinBooks
<1>. QED
    BY <1>1, <1>2, <1>3 DEF CoinsGiven

(* Its refunds join those of the purchase. *)
LEMMA AnswerPut ==
    ASSUME NEW p, NEW ans, NEW o, NEW S, CoinBooks(db), SelectionOk(db, S, p.payCoinSelection, o),
           AnswerOk(db, S, ans, o)
    PROVE  RefundsPut(p.refunds, RefundsAfter(p, ans), ans.rt, News(p, ans),
                      [c \in News(p, ans) |-> Credit(p, ans, c)])
<1>. DEFINE N == News(p, ans)
            credit == [c \in N |-> Credit(p, ans, c)]
            rt == ans.rt
            new == {<<c, rt>> : c \in N}
            rs == RefundsAfter(p, ans)
<1>1. /\ DOMAIN rs = DOMAIN p.refunds \cup new
      /\ \A k \in DOMAIN p.refunds \ new : rs[k] = p.refunds[k]
    BY DEF RefundsAfter
<1>2. ASSUME NEW c \in N
      PROVE  /\ rs[<<c, rt>>].credit = credit[c] /\ RefundBook(rs[<<c, rt>>])
             /\ <<c, rt>> \in DOMAIN p.refunds => p.refunds[<<c, rt>>].state \notin {"Applied", "Failed"}
    <2>. PICK x, s : x = Credit(p, ans, c) /\ s = ans.status[c]
        OBVIOUS
    <2>k. PICK k : k = <<c, rt>>
        OBVIOUS
    <2>1. k \in new /\ k[1] = c
        BY <2>k
    <2>2. rs[k] = [state |-> RefundState(s), credit |-> x]
        BY <2>1 DEF RefundsAfter
    <2>3. x \in Int /\ (c \notin Credited(p, ans) => x = 0)
        BY CreditsOk
    <2>4. s = "pending" => c \notin Credited(p, ans)
        BY DEF Credited
    <2>5. s # "pending" => RefundState(s) \in {"Applied", "Failed"}
        BY DEF RefundState
    <2>6. RefundBook(rs[k])
        BY <2>2, <2>3, <2>4, <2>5 DEF RefundBook
    <2>7. ~Ignored(p, rt, c, s)
        BY DEF News
    <2>8. k \in DOMAIN p.refunds => p.refunds[k].state \notin {"Applied", "Failed"}
        BY <2>7, <2>k DEF Ignored
    <2>. QED
        BY <2>2, <2>6, <2>8, <2>k
<1>. QED
    BY <1>1, <1>2 DEF RefundsPut

(* Otherwise the purchase is as it was. *)
LEMMA AnswerFields ==
    ASSUME NEW p, PurchaseOk(p), NEW ans
    PROVE  LET q == Answered(p, ans) IN
           PurchaseOk(q) /\ q # Absent /\ q.payCoinSelection = p.payCoinSelection /\ q.refunds = RefundsAfter(p, ans)
<1>. PICK rs, x : rs = RefundsAfter(p, ans) /\ x = QueryDone(p, rs)
    OBVIOUS
<1>. PICK r, a : /\ r = (p.refundQueryRequested /\ ~x)
                 /\ a = IF x /\ p.abortStatus = "AbortRefund" THEN "AbortFinished" ELSE p.abortStatus
    OBVIOUS
<1>. PICK q : q = Answered(p, ans)
    OBVIOUS
<1>1. q = [p EXCEPT !.refunds = rs, !.refundQueryRequested = r, !.abortStatus = a]
    BY Zenon DEF Answered
<1>2. q.payCoinSelection = p.payCoinSelection /\ q.refunds = rs
    BY <1>1 DEF PurchaseOk, PurchaseShape
<1>3. PurchaseOk(q) /\ q # Absent
    BY AnswerKeepsPurchase, PurchaseThere
<1>. QED
    BY <1>2, <1>3

(* The transaction that stores an answer, up to the refresh group *)
AnswerStored(e, o, ans) ==
    e = [db EXCEPT !.purchases[o] = Answered(db.purchases[o], ans),
                   !.coins = CreditCoins(db.purchases[o], ans)]

(* moves money from the purchase to the coins. *)
LEMMA AnswerBooked ==
    ASSUME WalletInv, LedgerInv, NEW o \in Orders, HasPurchase(o), NEW ans, AnswerOk(db, raced, ans, o),
           NEW e, AnswerStored(e, o, ans)
    PROVE  /\ DbShape(e) /\ CoinsOk(e.coins) /\ e.refreshGroups = db.refreshGroups /\ e.tips = db.tips
           /\ Books(e) /\ BalancesKept(db, e) /\ AllocationsKept(db, e) /\ PurchasesBut(db, e, o)
           /\ SelectionOk(db, raced, e.purchases[o].payCoinSelection, o)
           /\ RefundsOk(db, raced, e.purchases[o].refunds, o)
<1>. DEFINE p == db.purchases[o]
            N == News(p, ans)
<1>. PICK f : f = CreditCoins(p, ans)
    OBVIOUS
<1>. PICK q : q = Answered(p, ans)
    OBVIOUS
<1>. PICK credit : credit = [c \in N |-> Credit(p, ans, c)]
    OBVIOUS
<1>1. /\ CoinBooks(db) /\ Books(db) /\ CoinsOk(db.coins) /\ PurchaseOk(p)
      /\ SelectionOk(db, raced, p.payCoinSelection, o) /\ RefundsOk(db, raced, p.refunds, o)
    BY BoughtSelection DEF LedgerInv, LedgerTables, Books, WalletInv, TablesInv, PurchaseInv
<1>2. PurchaseOk(q) /\ q # Absent /\ q.payCoinSelection = p.payCoinSelection /\ q.refunds = RefundsAfter(p, ans)
    BY <1>1, AnswerFields
<1>3. CoinsOk(f)
    BY <1>1, CreditKeepsCoins
<1>4. /\ DbShape(e) /\ e.coins = f /\ e.refreshGroups = db.refreshGroups
      /\ e.recoupGroups = db.recoupGroups /\ e.tips = db.tips
      /\ e.purchases = [db.purchases EXCEPT ![o] = q]
    <2>1. e = [db EXCEPT !.purchases[o] = q, !.coins = f]
        BY DEF AnswerStored
    <2>. QED
        BY <2>1 DEF WalletInv, TablesInv, DbShape
<1>5. e.purchases[o] = q /\ \A u \in Orders \ {o} : e.purchases[u] = db.purchases[u]
    BY <1>4 DEF WalletInv, TablesInv, PurchaseInv, IsFunction
<1>6. RefundsPut(p.refunds, q.refunds, ans.rt, N, credit)
    BY <1>1, <1>2, AnswerPut
<1>7. CoinsGiven(db, e, N, credit) /\ CoinBooks(e)
    BY <1>1, <1>4, AnswerCoins
<1>8. ASSUME NEW c \in N PROVE c \in DOMAIN db.coins /\ credit[c] \in Int
    BY <1>1, CreditsOk
<1>9. Bought(e) = Bought(db) /\ o \in Bought(db)
    BY <1>2, <1>5 DEF Bought, HasPurchase
<1>10. RefundsStored(db, e, o, ans.rt, N, credit)
    BY <1>4, <1>5, <1>6, <1>8, <1>9 DEF RefundsStored, Bought
<1>11. Books(e) /\ BalancesKept(db, e) /\ AllocationsKept(db, e)
    BY <1>1, <1>7, <1>8, <1>10, RefundsStoredBooked
<1>12. PurchasesBut(db, e, o)
    BY <1>5, <1>9 DEF PurchasesBut, Bought
<1>13. RefundsOk(db, raced, q.refunds, o)
    <2>1. ASSUME NEW k \in DOMAIN q.refunds, k \notin DOMAIN p.refunds PROVE BelongsTo(db, raced, k[1], o)
        <3>1. k \in {<<c, ans.rt>> : c \in N}
            BY <1>6, <2>1 DEF RefundsPut
        <3>2. k[1] \in N
            BY <3>1
        <3>. QED
            BY <3>2 DEF News, AnswerOk
    <2>. QED
        BY <1>1, <2>1 DEF RefundsOk
<1>. QED
    BY <1>1, <1>2, <1>3, <1>4, <1>5, <1>11, <1>12, <1>13

(* acceptRefunds *)
LEMMA LedgerAcceptRefunds ==
    ASSUME WalletInv, LedgerInv, NEW t \in tasks, AcceptRefunds(t)
    PROVE  LedgerInv'
<1>. DEFINE o == Key(t)
            ans == Loc(t)
            S == Credited(db.purchases[o], ans)
<1>1. /\ Op(t) = "refund" /\ Pc(t) = "accept" /\ o \in Orders /\ PurchaseOk(db.purchases[o])
      /\ Done(t) /\ UNCHANGED <<exchange, raced>>
    BY DEF AcceptRefunds, At, WalletInv, TaskOk
<1>2. AnswerOk(db, raced, ans, o) /\ HasPurchase(o)
    BY <1>1, PurchaseThere DEF LedgerInv, LedgerTask, RefundTask, HasPurchase
<1>3. PICK e : AnswerStored(e, o, ans)
    BY DEF AnswerStored
<1>4. db' = e \/ db' = CreateRefreshGroup(e, SetToSeq(S))
    BY <1>3 DEF AcceptRefunds, AnswerStored
<1>5. /\ DbShape(e) /\ CoinsOk(e.coins) /\ e.refreshGroups = db.refreshGroups /\ e.tips = db.tips
      /\ Books(e) /\ BalancesKept(db, e) /\ AllocationsKept(db, e) /\ PurchasesBut(db, e, o)
      /\ SelectionOk(db, raced, e.purchases[o].payCoinSelection, o)
      /\ RefundsOk(db, raced, e.purchases[o].refunds, o)
    BY <1>1, <1>2, <1>3, AnswerBooked
<1>6. /\ Books(db') /\ BalancesKept(e, db') /\ AllocationsKept(e, db') /\ db'.purchases = e.purchases
      /\ db'.tips = e.tips
    <2>1. ASSUME db' = CreateRefreshGroup(e, SetToSeq(S))
          PROVE  /\ Books(db') /\ BalancesKept(e, db') /\ AllocationsKept(e, db')
                 /\ db'.purchases = e.purchases /\ db'.tips = e.tips
        <3>1. S \subseteq DOMAIN e.coins
            BY <1>2, <1>5 DEF Credited, News, AnswerOk, BelongsTo, BalancesKept
        <3>2. IsFiniteSet(DOMAIN e.coins) /\ IsList(e.refreshGroups)
            BY <1>5 DEF Books, CoinBooks, WalletInv, TablesInv, RefreshInv
        <3>3. CoinList(SetToSeq(S), DOMAIN e.coins)
            BY <3>1, <3>2, ListOfSubset
        <3>4. Books(db') /\ BalancesKept(e, db') /\ AllocationsKept(e, db') /\ db'.purchases = e.purchases
            BY <1>5, <2>1, <3>2, <3>3, RefreshBooked
        <3>5. Spends(e, CreateRefreshGroup(e, SetToSeq(S)))
            BY <1>5, <3>2, RefreshGroupCreated
        <3>. QED
            BY <2>1, <3>4, <3>5 DEF Spends
    <2>2. CASE db' = e
        BY <1>5, <2>2 DEF BalancesKept, AllocationsKept
    <2>. QED
        BY <1>4, <2>1, <2>2
<1>7. BalancesKept(db, db') /\ AllocationsKept(db, db')
    BY <1>5, <1>6 DEF BalancesKept, AllocationsKept
<1>8. Stays(db, raced, db', raced')
    BY <1>1, <1>7 DEF Stays, BalancesKept, AllocationsKept
<1>9. AllBalanced(db', raced')
    <2>1. BalancesStay(db, db', raced')
        BY <1>7 DEF BalancesStay, BalancesKept
    <2>. QED
        BY <1>8, <2>1, AllBalancedStays DEF LedgerInv, LedgerTables
<1>10. PurchasesOk(db', raced')
    <2>1. PurchasesBut(db, db', o)
        BY <1>5, <1>6 DEF PurchasesBut, Bought
    <2>2. /\ SelectionOk(db', raced', db'.purchases[o].payCoinSelection, o)
          /\ RefundsOk(db', raced', db'.purchases[o].refunds, o)
        BY <1>5, <1>6, <1>8, NamesStay
    <2>3. PurchasesOk(db, raced)
        BY DEF LedgerInv, LedgerTables
    <2>. QED
        BY <1>8, <2>1, <2>2, <2>3, PurchasesStay
<1>11. LedgerTables(db', raced')
    BY <1>5, <1>6, <1>7, <1>9, <1>10 DEF LedgerTables, LedgerInv, SourcesOk, BalancesKept, TipsOk
<1>12. DepositsOk(exchange'.deposits, db', raced')
    BY <1>1, <1>8, DepositsStay DEF LedgerInv
<1>13. \A u \in tasks' : u \in tasks \/ LedgerTask(u, db', raced')
    BY <1>1 DEF Done
<1>. QED
    BY <1>8, <1>11, <1>12, <1>13, LedgerStep

-----------------------------------------------------------------------------
(* Refreshes                                                                                     *)
(* A group whose coins, amounts and outputs stay is no matter of money. *)
SameGroup(old, rg) ==
    /\ rg.oldCoinPubs = old.oldCoinPubs /\ rg.inputPerCoin = old.inputPerCoin
    /\ \A i \in DOMAIN rg.session : rg.session[i].output \in Int
GroupStored(d, e, g, rg) ==
    /\ e.refreshGroups = [d.refreshGroups EXCEPT ![g] = rg]
    /\ e.recoupGroups = d.recoupGroups /\ e.purchases = d.purchases /\ DOMAIN d.coins \subseteq DOMAIN e.coins

(* It is stored with the others. *)
LEMMA GroupStoredTables ==
    ASSUME NEW d, Books(d), IsList(d.refreshGroups), NEW g \in DOMAIN d.refreshGroups, NEW rg,
           SameGroup(d.refreshGroups[g], rg), NEW e, GroupStored(d, e, g, rg)
    PROVE  SameLists(d, e) /\ OutputsOk(e) /\ SchedulesOk(e)
<1>1. /\ DOMAIN e.refreshGroups = DOMAIN d.refreshGroups /\ e.refreshGroups[g] = rg
      /\ \A h \in DOMAIN d.refreshGroups \ {g} : e.refreshGroups[h] = d.refreshGroups[h]
    BY UpdateList DEF GroupStored
<1>2. OldCoins(e) = OldCoins(d) /\ InputAmounts(e) = InputAmounts(d)
    BY <1>1 DEF OldCoins, InputAmounts, SameGroup
<1>3. RefundTables(e) = RefundTables(d) /\ RecoupLists(e) = RecoupLists(d)
      /\ RecoupAmounts(e) = RecoupAmounts(d) /\ FinishedLists(e) = FinishedLists(d)
    BY DEF GroupStored, RefundTables, Bought, RecoupLists, RecoupAmounts, FinishedLists
<1>4. OutputsOk(e)
    <2>1. OutputsOk(d)
        BY DEF Books, RefreshBooks
    <2>. QED
        BY <1>1, <2>1 DEF OutputsOk, SameGroup
<1>5. SchedulesOk(e)
    BY DEF GroupStored, Books, RecoupBooks, SchedulesOk
<1>. QED
    BY <1>2, <1>3, <1>4, <1>5 DEF SameLists

(* SetCoinStatus changes nothing else. *)
LEMMA StatusAmounts ==
    ASSUME NEW rg, RefreshShape(rg), NEW i, NEW st
    PROVE  LET r == SetCoinStatus(rg, i, st) IN
           r.oldCoinPubs = rg.oldCoinPubs /\ r.inputPerCoin = rg.inputPerCoin /\ r.session = rg.session
<1>. PICK sts : sts = [rg.statusPerCoin EXCEPT ![i] = st]
    OBVIOUS
<1>. PICK p : p = [rg EXCEPT !.statusPerCoin = sts]
    OBVIOUS
<1>1. /\ p.oldCoinPubs = rg.oldCoinPubs /\ p.inputPerCoin = rg.inputPerCoin /\ p.session = rg.session
      /\ p = [oldCoinPubs |-> p.oldCoinPubs, inputPerCoin |-> p.inputPerCoin,
              statusPerCoin |-> p.statusPerCoin, session |-> p.session, state |-> p.state]
    BY DEF RefreshShape
<1>2. PICK x : SetCoinStatus(rg, i, st) = [p EXCEPT !.state = x]
    BY DEF SetCoinStatus, UpdateGroupStatus
<1>. QED
    BY <1>1, <1>2

(* A group that is stored without its coins leaves money alone. *)
LEMMA GroupOnly ==
    ASSUME WalletInv, LedgerInv, NEW g \in DOMAIN db.refreshGroups, NEW rg,
           SameGroup(db.refreshGroups[g], rg), NEW e, e = [db EXCEPT !.refreshGroups[g] = rg]
    PROVE  SameMoney(db, e)
<1>1. /\ e.refreshGroups = [db.refreshGroups EXCEPT ![g] = rg] /\ e.coins = db.coins
      /\ e.recoupGroups = db.recoupGroups /\ e.purchases = db.purchases /\ e.tips = db.tips
    BY DEF WalletInv, TablesInv, DbShape
<1>2. Books(db) /\ IsList(db.refreshGroups) /\ TipsOk(db)
    BY DEF LedgerInv, LedgerTables, WalletInv, TablesInv, RefreshInv
<1>3. GroupStored(db, e, g, rg)
    BY <1>1 DEF GroupStored
<1>4. SameLists(db, e) /\ OutputsOk(e) /\ SchedulesOk(e)
    BY <1>2, <1>3, GroupStoredTables
<1>. QED
    BY <1>1, <1>2, <1>4 DEF SameMoney, TipsOk

(* A session of a group. *)
LEMMA GroupOutputs ==
    ASSUME WalletInv, LedgerInv, NEW t \in tasks, Op(t) = "session"
    PROVE  /\ Key(t)[1] \in DOMAIN db.refreshGroups /\ RefreshShape(Group(t))
           /\ SameGroup(Group(t), Group(t)) /\ Group(t).inputPerCoin[Index(t)] \in Int
           /\ \A i, st : SameGroup(Group(t), SetCoinStatus(Group(t), i, st))
<1>1. Key(t)[1] \in DOMAIN db.refreshGroups /\ RefreshShape(Group(t)) /\ Index(t) \in DOMAIN Group(t).oldCoinPubs
    BY SessionFacts
<1>2. RefreshBooks(db)
    BY DEF LedgerInv, LedgerTables, Books
<1>3. SameGroup(Group(t), Group(t))
    BY <1>1, <1>2 DEF RefreshBooks, OutputsOk, SameGroup, Group
<1>4. ASSUME NEW i, NEW st PROVE SameGroup(Group(t), SetCoinStatus(Group(t), i, st))
    <2>. PICK r : r = SetCoinStatus(Group(t), i, st)
        OBVIOUS
    <2>1. r.oldCoinPubs = Group(t).oldCoinPubs /\ r.inputPerCoin = Group(t).inputPerCoin /\ r.session = Group(t).session
        BY <1>1, StatusAmounts
    <2>. QED
        BY <1>3, <2>1 DEF SameGroup
<1>5. Group(t).inputPerCoin[Index(t)] \in Int
    <2>. PICK k : k = <<Key(t)[1], Index(t)>>
        OBVIOUS
    <2>1. <<Key(t)[1], Index(t)>> \in KeysOf(OldCoins(db))
        BY <1>1, KeyFacts DEF OldCoins, Group
    <2>2. AmountAt(k, InputAmounts(db)) \in Int
        BY <1>2, <2>1 DEF RefreshBooks, ListsOk, Countable
    <2>3. AmountAt(k, InputAmounts(db)) = Group(t).inputPerCoin[Index(t)]
        BY <1>1 DEF AmountAt, InputAmounts, Group
    <2>. QED
        BY <2>2, <2>3
<1>. QED
    BY <1>1, <1>3, <1>4, <1>5

(* refreshCreateSession, and the transactions that follow a melt *)
LEMMA LedgerCreateSession ==
    ASSUME WalletInv, LedgerInv, NEW t \in tasks, RefreshCreateSession(t)
    PROVE  LedgerInv'
<1>. DEFINE g == Key(t)[1]
            i == Index(t)
<1>. PICK available : available = IF Offered = {} THEN 0 ELSE Sub(Group(t).inputPerCoin[i], RefreshFee)
    OBVIOUS
<1>1. /\ Op(t) = "session" /\ UNCHANGED exchange /\ raced \subseteq raced'
      /\ Done(t) \/ Goto(t, "melt", Nil)
      /\ \/ db' = PutGroup(t, SetCoinStatus(Group(t), i, "Finished"))
         \/ db' = WithSession(t, available)
    BY DEF RefreshCreateSession, At
<1>2. /\ g \in DOMAIN db.refreshGroups /\ RefreshShape(Group(t)) /\ SameGroup(Group(t), Group(t))
      /\ Group(t).inputPerCoin[i] \in Int
      /\ SameGroup(Group(t), SetCoinStatus(Group(t), i, "Finished"))
    BY <1>1, GroupOutputs
<1>3. available \in Int
    <2>. PICK x : x = Group(t).inputPerCoin[i]
        OBVIOUS
    <2>1. x \in Int /\ RefreshFee \in Int
        BY <1>2, FeeAssumption
    <2>. QED
        BY <2>1 DEF Sub
<1>4. ASSUME NEW rg, SameGroup(Group(t), rg), db' = PutGroup(t, rg) PROVE SameMoney(db, db')
    <2>1. db' = [db EXCEPT !.refreshGroups[g] = rg] /\ SameGroup(db.refreshGroups[g], rg)
        BY <1>4 DEF PutGroup, Group
    <2>. QED
        BY <1>2, <2>1, GroupOnly
<1>5. ASSUME db' = PutGroup(t, SetCoinStatus(Group(t), i, "Finished")) PROVE SameMoney(db, db')
    BY <1>2, <1>4, <1>5
<1>6. ASSUME db' = db PROVE SameMoney(db, db')
    <2>1. SameMoney(db, db')
        BY <1>6, OtherTables DEF LedgerInv, LedgerTables, SameTables
    <2>. QED
        BY <2>1
<1>7. ASSUME db' = NewSession(t, available) PROVE SameMoney(db, db')
    <2>. PICK no : no = FALSE
        OBVIOUS
    <2>. PICK s : s = [seed |-> Number(t), output |-> available, denom |-> NewDenom, melted |-> no]
        OBVIOUS
    <2>. PICK ss : ss = Stored(Group(t).session, {i}, s)
        OBVIOUS
    <2>. PICK rg : rg = [Group(t) EXCEPT !.session = ss]
        OBVIOUS
    <2>1. db' = PutGroup(t, rg)
        BY <1>7 DEF NewSession
    <2>2. rg.oldCoinPubs = Group(t).oldCoinPubs /\ rg.inputPerCoin = Group(t).inputPerCoin /\ rg.session = ss
        BY <1>2 DEF RefreshShape
    <2>3. s.output \in Int
        BY <1>3
    <2>4. \A j \in DOMAIN ss : ss[j].output \in Int
        BY <1>2, <2>3 DEF Stored, SameGroup
    <2>5. SameGroup(Group(t), rg)
        BY <2>2, <2>4 DEF SameGroup
    <2>. QED
        BY <1>4, <2>1, <2>5
<1>8. SameMoney(db, db')
    BY <1>1, <1>5, <1>6, <1>7 DEF WithSession
<1>9. GoodTasks
    BY <1>1, QuietGood DEF Quiet, Minds
<1>. QED
    BY <1>1, <1>8, <1>9, GoodLedgerStep

(* A melt that is not found, or confirmed *)
LEMMA LedgerMeltSteps ==
    ASSUME WalletInv, LedgerInv, NEW t \in tasks, MeltNotFound(t) \/ StoreMelt(t)
    PROVE  LedgerInv'
<1>. DEFINE g == Key(t)[1]
            i == Index(t)
<1>. PICK s : s = [Group(t).session[i] EXCEPT !.melted = TRUE]
    OBVIOUS
<1>. PICK ss : ss = [Group(t).session EXCEPT ![i] = s]
    OBVIOUS
<1>. PICK rg : rg = [Group(t) EXCEPT !.session = ss]
    OBVIOUS
<1>1. /\ Op(t) = "session" /\ Pc(t) # "create" /\ UNCHANGED exchange /\ raced \subseteq raced'
      /\ Goto(t, "reveal", Nil)
      /\ \/ db' = db
         \/ db' = PutGroup(t, SetCoinStatus(Group(t), i, "Frozen"))
         \/ db' = PutGroup(t, rg)
    BY DEF MeltNotFound, StoreMelt, At
<1>2. /\ g \in DOMAIN db.refreshGroups /\ RefreshShape(Group(t)) /\ SameGroup(Group(t), Group(t))
      /\ SameGroup(Group(t), SetCoinStatus(Group(t), i, "Frozen"))
    BY <1>1, GroupOutputs
<1>3. SameGroup(Group(t), rg)
    <2>. PICK s0 : s0 = Group(t).session[i]
        OBVIOUS
    <2>1. SessionShape(s0) /\ i \in DOMAIN Group(t).session
        BY <1>1, SessionFacts
    <2>2. s.output = s0.output
        BY <2>1 DEF SessionShape
    <2>3. rg.oldCoinPubs = Group(t).oldCoinPubs /\ rg.inputPerCoin = Group(t).inputPerCoin /\ rg.session = ss
        BY <1>2 DEF RefreshShape
    <2>4. IsFunction(Group(t).session)
        BY <1>2 DEF RefreshShape
    <2>5. \A j \in DOMAIN ss : j \in DOMAIN Group(t).session /\ ss[j].output = Group(t).session[j].output
        BY <2>1, <2>2, <2>4 DEF IsFunction
    <2>. QED
        BY <1>2, <2>3, <2>5 DEF SameGroup
<1>4. ASSUME NEW r, SameGroup(Group(t), r), db' = PutGroup(t, r) PROVE SameMoney(db, db')
    <2>1. db' = [db EXCEPT !.refreshGroups[g] = r] /\ SameGroup(db.refreshGroups[g], r)
        BY <1>4 DEF PutGroup, Group
    <2>. QED
        BY <1>2, <2>1, GroupOnly
<1>5. ASSUME db' = db PROVE SameMoney(db, db')
    BY <1>5, OtherTables DEF LedgerInv, LedgerTables, SameTables
<1>6. ASSUME db' # db PROVE SameMoney(db, db')
    BY <1>1, <1>2, <1>3, <1>4, <1>6
<1>7. SameMoney(db, db')
    BY <1>5, <1>6
<1>8. GoodTasks
    BY <1>1, QuietGood DEF Quiet, Minds
<1>. QED
    BY <1>1, <1>7, <1>8, GoodLedgerStep

(* Coins are added; those that they replace are hit. *)
Adds(d, e, S, T) ==
    /\ NewCoins(d, e, S) /\ SameLists(d, e) /\ OutputsOk(e) /\ SchedulesOk(e)
    /\ S \cap DOMAIN d.coins \subseteq T /\ \A c \in S : SourceOf(c) \in {"withdraw", "tip", "refresh"}
    /\ TipsOk(e) /\ e.purchases = d.purchases

(* The invariant holds of more coins, *)
LEMMA CoinsAdded ==
    ASSUME WalletInv, LedgerInv, NEW S, Adds(db, db', S, raced'), raced \subseteq raced', GoodTasks,
           exchange'.deposits = exchange.deposits
    PROVE  LedgerInv'
<1>1. /\ Books(db')
      /\ \A c \in DOMAIN db.coins \ S : Balanced(db, c) => Balanced(db', c)
      /\ \A c \in S \ DOMAIN db.coins : Balanced(db', c)
    BY NewCoinsBooked DEF Adds, LedgerInv, LedgerTables
<1>2. DOMAIN db'.coins = DOMAIN db.coins \cup S /\ S \cap DOMAIN db.coins \subseteq raced'
    BY DEF Adds, NewCoins
<1>3. Stays(db, raced, db', raced')
    BY <1>2 DEF Stays, Adds, NewCoins
<1>4. AllBalanced(db', raced')
    <2>1. BalancesStay(db, db', raced')
        BY <1>1, <1>2 DEF BalancesStay, Clean
    <2>. QED
        BY <1>3, <2>1, AllBalancedStays DEF LedgerInv, LedgerTables
<1>5. PurchasesOk(db', raced')
    <2>1. ASSUME NEW o \in Bought(db')
          PROVE  /\ SelectionOk(db', raced', db'.purchases[o].payCoinSelection, o)
                 /\ RefundsOk(db', raced', db'.purchases[o].refunds, o)
        <3>1. o \in Orders /\ HasPurchase(o) /\ db'.purchases = db.purchases
            BY DEF Bought, HasPurchase, Adds
        <3>. QED
            BY <1>3, <3>1, BoughtSelection, NamesStay
    <2>. QED
        BY <2>1 DEF PurchasesOk
<1>6. SourcesOk(db') /\ TipsOk(db')
    BY <1>2 DEF Adds, SourcesOk, LedgerInv, LedgerTables
<1>7. LedgerTables(db', raced')
    BY <1>1, <1>4, <1>5, <1>6 DEF LedgerTables
<1>8. DepositsOk(exchange'.deposits, db', raced')
    BY <1>3, DepositsStay DEF LedgerInv
<1>9. \A u \in tasks' : u \in tasks \/ LedgerTask(u, db', raced')
    BY <1>3, LedgerTaskStays DEF GoodTasks
<1>. QED
    BY <1>3, <1>7, <1>8, <1>9, LedgerStep

(* of the coin that a refresh gives *)
LEMMA LedgerStoreRevealed ==
    ASSUME WalletInv, LedgerInv, NEW t \in tasks, StoreRevealedCoins(t)
    PROVE  LedgerInv'
<1>. DEFINE g == Key(t)[1]
            i == Index(t)
<1>. PICK c : c = RefreshCoin(g, Key(t)[2])
    OBVIOUS
<1>. PICK s : s = Group(t).session[i]
    OBVIOUS
<1>. PICK coin : coin = FreshCoin(s.output, s.denom)
    OBVIOUS
<1>. PICK f : f = Stored(db.coins, {c}, coin)
    OBVIOUS
<1>. PICK rg : rg = SetCoinStatus(Group(t), i, "Finished")
    OBVIOUS
<1>1. /\ Op(t) = "session" /\ Pc(t) = "revealed" /\ UNCHANGED exchange /\ Done(t)
      /\ raced' = IF c \in DOMAIN db.coins THEN raced \cup {c} ELSE raced
    BY DEF StoreRevealedCoins, At
<1>2. /\ g \in DOMAIN db.refreshGroups /\ SameGroup(Group(t), Group(t)) /\ SameGroup(Group(t), rg)
      /\ i \in DOMAIN Group(t).oldCoinPubs /\ i \in DOMAIN Group(t).session
    BY <1>1, GroupOutputs, SessionFacts
<1>3. db' = [db EXCEPT !.refreshGroups[g] = rg, !.coins = f]
    <2>1. db' = [PutGroup(t, rg) EXCEPT !.coins = Stored(@, {c}, coin)]
        BY DEF StoreRevealedCoins
    <2>. PICK gs : gs = [db.refreshGroups EXCEPT ![g] = rg]
        OBVIOUS
    <2>2. PutGroup(t, rg) = [db EXCEPT !.refreshGroups = gs]
        BY DEF PutGroup
    <2>3. DbShape(db)
        BY DEF WalletInv, TablesInv
    <2>4. PutGroup(t, rg).coins = db.coins
        BY <2>2, <2>3 DEF DbShape
    <2>5. db' = [PutGroup(t, rg) EXCEPT !.coins = f]
        BY <2>1, <2>4
    <2>. QED
        BY <2>2, <2>3, <2>5 DEF DbShape
<1>4. /\ db'.refreshGroups = [db.refreshGroups EXCEPT ![g] = rg] /\ db'.coins = f
      /\ db'.recoupGroups = db.recoupGroups /\ db'.purchases = db.purchases /\ db'.tips = db.tips
    BY <1>3 DEF WalletInv, TablesInv, DbShape
<1>5. /\ DOMAIN f = DOMAIN db.coins \cup {c} /\ f[c] = coin
      /\ \A x \in DOMAIN db.coins \ {c} : f[x] = db.coins[x]
    BY DEF Stored
<1>6. SameLists(db, db') /\ OutputsOk(db') /\ SchedulesOk(db')
    <2>1. GroupStored(db, db', g, rg)
        BY <1>4, <1>5 DEF GroupStored
    <2>2. Books(db) /\ IsList(db.refreshGroups)
        BY DEF LedgerInv, LedgerTables, WalletInv, TablesInv, RefreshInv
    <2>3. SameGroup(db.refreshGroups[g], rg)
        BY <1>2 DEF Group
    <2>. QED
        BY <1>2, <2>1, <2>2, <2>3, GroupStoredTables
<1>7. SourceOf(c) = "refresh" /\ <<c[2], c[3]>> \in KeysOf(OldCoins(db))
    <2>1. c[1] = "refresh" /\ c[2] = g /\ c[3] = i
        BY DEF RefreshCoin, Index
    <2>2. <<g, i>> \in KeysOf(OldCoins(db))
        BY <1>2, KeyFacts DEF OldCoins, Group
    <2>. QED
        BY <2>1, <2>2 DEF SourceOf
<1>8. coin.value \in Int /\ coin.currentAmount = coin.value /\ coin.allocation = Absent
    <2>1. s.output \in Int
        BY <1>2 DEF SameGroup
    <2>. QED
        BY <2>1 DEF FreshCoin
<1>9. NewCoins(db, db', {c})
    <2>1. IsFiniteSet({c})
        BY FS_Singleton
    <2>. QED
        BY <1>4, <1>5, <1>7, <1>8, <2>1 DEF NewCoins
<1>10. TipsOk(db')
    BY <1>4 DEF LedgerInv, LedgerTables, TipsOk
<1>11. Adds(db, db', {c}, raced') /\ raced \subseteq raced'
    BY <1>1, <1>4, <1>6, <1>7, <1>9, <1>10 DEF Adds
<1>12. GoodTasks
    BY <1>1, QuietGood DEF Quiet
<1>. QED
    BY <1>1, <1>11, <1>12, CoinsAdded

(* and of those that are stored for the first time. *)
LEMMA FreshCoinsAdded ==
    ASSUME WalletInv, LedgerInv, NEW S, IsFiniteSet(S), S \cap DOMAIN db.coins = {},
           NEW source, source \in {"withdraw", "tip"}, \A c \in S : SourceOf(c) = source, NEW dn,
           db'.coins = Stored(db.coins, S, FreshCoin(CoinValue, dn)), SameTables(db, db'), TipsOk(db'),
           UNCHANGED <<exchange, raced>>, GoodTasks
    PROVE  LedgerInv'
<1>. PICK coin : coin = FreshCoin(CoinValue, dn)
    OBVIOUS
<1>1. /\ DOMAIN db'.coins = DOMAIN db.coins \cup S /\ \A c \in S : db'.coins[c] = coin
      /\ \A c \in DOMAIN db.coins \ S : db'.coins[c] = db.coins[c]
    BY DEF Stored
<1>2. coin.value \in Int /\ coin.currentAmount = coin.value /\ coin.allocation = Absent
    BY FeeAssumption DEF FreshCoin
<1>3. NewCoins(db, db', S)
    BY <1>1, <1>2 DEF NewCoins
<1>4. SameLists(db, db') /\ OutputsOk(db') /\ SchedulesOk(db')
    BY <1>1, TablesSayTheSame DEF LedgerInv, LedgerTables, Books, RefreshBooks, RecoupBooks
<1>5. Adds(db, db', S, raced')
    BY <1>3, <1>4 DEF Adds, SameTables
<1>. QED
    BY <1>5, CoinsAdded

(* A coin of a withdrawal is stored once, *)
LEMMA LedgerStoreCoin ==
    ASSUME WalletInv, LedgerInv, NEW t \in tasks, StoreCoin(t)
    PROVE  LedgerInv'
<1>. DEFINE g == Key(t)
            n == db.withdrawalGroups[g].count
<1>1. /\ Op(t) = "withdraw" /\ Pc(t) \in {"request", "failed"} /\ TaskShape(t) /\ WithdrawTask(t)
      /\ UNCHANGED <<exchange, raced>>
    BY DEF StoreCoin, Storing, At, WalletInv, TaskOk
<1>2. Loc(t).got \subseteq 1 .. n /\ \A j \in 1 .. n : WithdrawCoin(g, j) \in DOMAIN db.planchets
    BY <1>1 DEF WithdrawTask
<1>3. PICK i \in Loc(t).got :
          /\ Goto(t, Pc(t), [Loc(t) EXCEPT !.got = @ \ {i}])
          /\ \/ db' = db
             \/ /\ db.planchets[WithdrawCoin(g, i)] # "done"
                /\ db' = [db EXCEPT !.planchets[WithdrawCoin(g, i)] = "done",
                                    !.coins = Stored(@, {WithdrawCoin(g, i)},
                                        FreshCoin(CoinValue, db.withdrawalGroups[g].denom))]
    BY DEF StoreCoin
<1>4. GoodTasks
    BY <1>1, <1>3, QuietGood DEF Quiet, Minds
<1>5. CASE db' = db
    BY <1>1, <1>4, <1>5, GoodTasksStep
<1>6. CASE db' # db
    <2>. PICK c : c = WithdrawCoin(g, i)
        OBVIOUS
    <2>. PICK dn : dn = db.withdrawalGroups[g].denom
        OBVIOUS
    <2>. PICK f : f = Stored(db.coins, {c}, FreshCoin(CoinValue, dn))
        OBVIOUS
    <2>. PICK p : p = [db.planchets EXCEPT ![c] = "done"]
        OBVIOUS
    <2>1. db.planchets[c] # "done" /\ db' = [db EXCEPT !.planchets = p, !.coins = f]
        BY <1>3, <1>6
    <2>2. db'.coins = f /\ SameTables(db, db') /\ db'.tips = db.tips
        BY <2>1 DEF WalletInv, TablesInv, DbShape, SameTables
    <2>3. SourceOf(c) = "withdraw" /\ c \in DOMAIN db.planchets
        BY <1>2, <1>3 DEF SourceOf, WithdrawCoin
    <2>4. c \notin DOMAIN db.coins
        BY <2>1, <2>3 DEF WalletInv, TablesInv, WithdrawInv
    <2>5. IsFiniteSet({c}) /\ {c} \cap DOMAIN db.coins = {} /\ \A x \in {c} : SourceOf(x) = "withdraw"
        BY <2>3, <2>4, FS_Singleton
    <2>6. TipsOk(db')
        BY <2>2 DEF LedgerInv, LedgerTables, TipsOk
    <2>. QED
        BY <1>1, <1>4, <2>2, <2>5, <2>6, FreshCoinsAdded
<1>. QED
    BY <1>5, <1>6

(* and so are those of a tip. *)
LEMMA LedgerStoreTipCoins ==
    ASSUME WalletInv, LedgerInv, NEW t \in tasks, StoreTipCoins(t)
    PROVE  LedgerInv'
<1>. DEFINE r == Key(t)
<1>. PICK yes : yes = TRUE
    OBVIOUS
<1>. PICK old : old = db.tips[r]
    OBVIOUS
<1>. PICK new : new = [old EXCEPT !.pickedUp = yes]
    OBVIOUS
<1>. PICK s : s = [db.tips EXCEPT ![r] = new]
    OBVIOUS
<1>. PICK dn : dn = old.denom
    OBVIOUS
<1>. PICK f : f = Stored(db.coins, TipCoins(r), FreshCoin(CoinValue, dn))
    OBVIOUS
<1>1. /\ Op(t) = "tip" /\ TipTask(t) /\ UNCHANGED <<exchange, raced>> /\ Done(t)
      /\ db' = db \/ (~old.pickedUp /\ db' = [db EXCEPT !.tips = s, !.coins = f])
    BY DEF StoreTipCoins, TipPickedUp, WithTipCoins, At, WalletInv, TaskOk
<1>2. GoodTasks
    BY <1>1, QuietGood DEF Quiet
<1>3. CASE db' = db
    BY <1>1, <1>2, <1>3, GoodTasksStep
<1>4. CASE ~old.pickedUp /\ db' = [db EXCEPT !.tips = s, !.coins = f]
    <2>1. r \in DOMAIN db.tips /\ IsList(db.tips) /\ TipInv /\ TipShape(old)
        BY <1>1 DEF TipTask, WalletInv, TablesInv, TipInv
    <2>2. /\ DOMAIN s = DOMAIN db.tips /\ s[r] = new
          /\ \A q \in DOMAIN db.tips \ {r} : s[q] = db.tips[q]
        BY <2>1, UpdateList
    <2>3. new.count = old.count
        BY <2>1, TipFields
    <2>4. \A c \in TipCoins(r) : SourceOf(c) = "tip" /\ c[2] = r
        BY DEF TipCoins, TipCoin, SourceOf
    <2>5. TipCoins(r) \cap DOMAIN db.coins = {}
        BY <1>4, <2>1, <2>4 DEF TipInv
    <2>6. db'.coins = f /\ SameTables(db, db') /\ db'.tips = s
        BY <1>4 DEF WalletInv, TablesInv, DbShape, SameTables
    <2>7. old.count \in Int /\ TipsOk(db')
        BY <2>1, <2>2, <2>3, <2>6 DEF LedgerInv, LedgerTables, TipsOk
    <2>8. IsFiniteSet(TipCoins(r))
        <3>1. IsFiniteSet(1 .. old.count)
            BY <2>7, FS_Interval
        <3>2. TipCoins(r) = {TipCoin(r, i) : i \in 1 .. old.count}
            BY DEF TipCoins
        <3>. PICK f1 : f1 = [i \in 1 .. old.count |-> TipCoin(r, i)]
            OBVIOUS
        <3>3. f1 \in Surjection(1 .. old.count, TipCoins(r))
            BY <3>2 DEF Surjection
        <3>. QED
            BY <3>1, <3>3, FS_Surjection
    <2>9. \A c \in TipCoins(r) : SourceOf(c) = "tip"
        BY <2>4
    <2>. QED
        BY <1>1, <1>2, <2>5, <2>6, <2>7, <2>8, <2>9, FreshCoinsAdded
<1>. QED
    BY <1>1, <1>3, <1>4

-----------------------------------------------------------------------------
(* Recoups that are stored                                                                       *)
CoinAfter(a, b, x) ==
    /\ b.value = a.value /\ b.allocation = a.allocation /\ b.currentAmount = x
    /\ b.status \in {a.status, "Dormant"}

SpentAndSet(F, h, c, o, x) == h = [[F EXCEPT ![c].status = "Dormant"] EXCEPT ![o].currentAmount = x]
CoinsSet(F, h, o, x) ==
    /\ CoinsOk(h) /\ DOMAIN h = DOMAIN F
    /\ \A k \in DOMAIN F : CoinAfter(F[k], h[k], IF k = o THEN x ELSE F[k].currentAmount)

(* A coin is marked as spent, and what is on one of them set. *)
LEMMA CoinSet ==
    ASSUME NEW F, CoinsOk(F), NEW c \in DOMAIN F, NEW o \in DOMAIN F, NEW x, NEW h, SpentAndSet(F, h, c, o, x)
    PROVE  CoinsSet(F, h, o, x)
<1>. PICK f : f = [F EXCEPT ![c].status = "Dormant"]
    OBVIOUS
<1>0. h = [f EXCEPT ![o].currentAmount = x]
    BY DEF SpentAndSet
<1>1. CoinsOk(f) /\ DOMAIN f = DOMAIN F
    BY CoinChanged DEF CoinsKept
<1>2. CoinsOk(h) /\ DOMAIN h = DOMAIN f
    BY <1>0, <1>1, CoinChanged DEF CoinsKept
<1>3. ASSUME NEW k \in DOMAIN F PROVE CoinAfter(F[k], f[k], F[k].currentAmount)
    <2>. PICK a : a = F[k]
        OBVIOUS
    <2>. PICK s : s = [a EXCEPT !.status = "Dormant"]
        OBVIOUS
    <2>1. CoinShape(a)
        BY DEF CoinsOk
    <2>2. f[k] = IF k = c THEN s ELSE a
        BY DEF CoinsOk, IsFunction
    <2>3. CoinAfter(a, s, a.currentAmount) /\ CoinAfter(a, a, a.currentAmount)
        BY <2>1 DEF CoinShape, CoinAfter
    <2>. QED
        BY <2>2, <2>3
<1>4. ASSUME NEW k \in DOMAIN F PROVE CoinAfter(f[k], h[k], IF k = o THEN x ELSE f[k].currentAmount)
    <2>. PICK a : a = f[k]
        OBVIOUS
    <2>. PICK s : s = [a EXCEPT !.currentAmount = x]
        OBVIOUS
    <2>1. CoinShape(a)
        BY <1>1 DEF CoinsOk
    <2>2. h[k] = IF k = o THEN s ELSE a
        BY <1>0, <1>1 DEF CoinsOk, IsFunction
    <2>3. CoinAfter(a, s, x) /\ CoinAfter(a, a, a.currentAmount)
        BY <2>1 DEF CoinShape, CoinAfter
    <2>. QED
        BY <2>2, <2>3
<1>5. ASSUME NEW k \in DOMAIN F PROVE CoinAfter(F[k], h[k], IF k = o THEN x ELSE F[k].currentAmount)
    BY <1>3, <1>4 DEF CoinAfter
<1>. QED
    BY <1>1, <1>2, <1>5 DEF CoinsSet

(* A database with such coins has them in order, and the same money but for one coin. *)
CoinsSetIn(d, m, o, x) ==
    \A k \in DOMAIN d.coins :
        /\ m.coins[k].value = d.coins[k].value /\ m.coins[k].allocation = d.coins[k].allocation
        /\ OnCoin(d.coins[k]) \in Int
        /\ k # o => OnCoin(m.coins[k]) = OnCoin(d.coins[k])
        /\ k = o => OnCoin(m.coins[k]) = OnCoin(d.coins[k]) + (x - d.coins[k].currentAmount)

(* The books of coins are in order with them. *)
LEMMA CoinsSetBooks ==
    ASSUME NEW d, CoinBooks(d), NEW m, NEW o, NEW x \in Int, CoinsSet(d.coins, m.coins, o, x)
    PROVE  CoinBooks(m) /\ CoinsSetIn(d, m, o, x)
<1>1. ASSUME NEW k \in DOMAIN d.coins
      PROVE  /\ CoinBook(m.coins[k])
             /\ m.coins[k].value = d.coins[k].value /\ m.coins[k].allocation = d.coins[k].allocation
             /\ OnCoin(d.coins[k]) \in Int
             /\ k # o => OnCoin(m.coins[k]) = OnCoin(d.coins[k])
             /\ k = o => OnCoin(m.coins[k]) = OnCoin(d.coins[k]) + (x - d.coins[k].currentAmount)
    <2>1. CoinBook(d.coins[k])
        BY DEF CoinBooks
    <2>2. CoinAfter(d.coins[k], m.coins[k], IF k = o THEN x ELSE d.coins[k].currentAmount)
        BY DEF CoinsSet
    <2>3. CoinBook(m.coins[k])
        BY <2>1, <2>2 DEF CoinAfter, CoinBook
    <2>4. AllocatedOf(m.coins[k]) = AllocatedOf(d.coins[k]) /\ AllocatedOf(d.coins[k]) \in Int
        BY <2>1, <2>2 DEF CoinAfter, AllocatedOf, CoinBook
    <2>5. d.coins[k].currentAmount \in Int
        BY <2>1 DEF CoinBook
    <2>6. m.coins[k].currentAmount = IF k = o THEN x ELSE d.coins[k].currentAmount
        BY <2>2 DEF CoinAfter
    <2>7. /\ OnCoin(d.coins[k]) \in Int
          /\ k # o => OnCoin(m.coins[k]) = OnCoin(d.coins[k])
          /\ k = o => OnCoin(m.coins[k]) = OnCoin(d.coins[k]) + (x - d.coins[k].currentAmount)
        BY <2>4, <2>5, <2>6 DEF OnCoin
    <2>. QED
        BY <2>2, <2>3, <2>7 DEF CoinAfter
<1>2. CoinBooks(m)
    BY <1>1 DEF CoinBooks, CoinsSet
<1>. QED
    BY <1>1, <1>2 DEF CoinsSetIn

(* putGroupAsFinished leaves the tips alone. *)
LEMMA FinishedTips ==
    ASSUME NEW d, DbShape(d), NEW g, NEW i
    PROVE  PutGroupAsFinished(d, g, i).tips = d.tips
<1>1. PICK put : /\ \E s : put = [d EXCEPT !.recoupGroups = s]
                 /\ \/ PutGroupAsFinished(d, g, i) = d
                    \/ PutGroupAsFinished(d, g, i) = put
                    \/ \E cs : PutGroupAsFinished(d, g, i) = CreateRefreshGroup(put, cs)
    <2>. DEFINE done == d.recoupGroups[g].finishedPerCoin \cup {i}
                last == done = DOMAIN d.recoupGroups[g].coinPubs
                p == [d EXCEPT !.recoupGroups[g].finishedPerCoin = done, !.recoupGroups[g].finished = last]
    <2>0. PutGroupAsFinished(d, g, i) =
              IF d.recoupGroups[g].finished THEN d
              ELSE IF last /\ d.recoupGroups[g].scheduleRefreshCoins # {}
              THEN CreateRefreshGroup(p, SetToSeq(d.recoupGroups[g].scheduleRefreshCoins)) ELSE p
        BY Zenon DEF PutGroupAsFinished
    <2>. PICK y : y = last
        OBVIOUS
    <2>. PICK s : s = [d.recoupGroups EXCEPT ![g] = [d.recoupGroups[g] EXCEPT !.finishedPerCoin = done, !.finished = y]]
        OBVIOUS
    <2>. PICK q : q = p
        OBVIOUS
    <2>1. q = [d EXCEPT !.recoupGroups = s]
        BY DEF DbShape
    <2>2. \/ PutGroupAsFinished(d, g, i) = d
          \/ PutGroupAsFinished(d, g, i) = q
          \/ \E cs : PutGroupAsFinished(d, g, i) = CreateRefreshGroup(q, cs)
        <3>. HIDE DEF p, last
        <3>. QED
            BY <2>0, Zenon
    <2>. QED
        BY <2>1, <2>2
<1>2. DbShape(put) /\ put.tips = d.tips
    BY <1>1 DEF DbShape
<1>3. ASSUME NEW cs PROVE CreateRefreshGroup(put, cs).tips = put.tips
    <2>1. \E f, s : CreateRefreshGroup(put, cs) = [put EXCEPT !.coins = f, !.refreshGroups = s]
        BY Zenon DEF CreateRefreshGroup
    <2>. QED
        BY <1>2, <2>1 DEF DbShape
<1>. QED
    BY <1>1, <1>2, <1>3

(* A recoup that is to be stored: its coin, and its amount *)
LEMMA RecoupFacts ==
    ASSUME WalletInv, LedgerInv, NEW g \in DOMAIN db.recoupGroups, NEW i \in DOMAIN db.recoupGroups[g].coinPubs
    PROVE  /\ db.recoupGroups[g].coinPubs[i] \in DOMAIN db.coins
           /\ SourceOf(db.recoupGroups[g].coinPubs[i]) \in {"withdraw", "tip", "refresh"}
           /\ db.recoupGroups[g].oldAmountPerCoin[i] \in Int /\ RecoupShape(db.recoupGroups[g])
           /\ i \notin db.recoupGroups[g].finishedPerCoin => ~db.recoupGroups[g].finished
           /\ db.recoupGroups[g].scheduleRefreshCoins \subseteq DOMAIN db.coins
<1>1. RecoupBooks(db) /\ SourcesOk(db)
    BY DEF LedgerInv, LedgerTables, Books
<1>. PICK k : k = <<g, i>>
    OBVIOUS
<1>2. <<g, i>> \in KeysOf(RecoupLists(db))
    BY KeyFacts DEF RecoupLists
<1>3. AmountAt(k, RecoupLists(db)) \in DOMAIN db.coins /\ AmountAt(k, RecoupAmounts(db)) \in Int
    BY <1>1, <1>2 DEF RecoupBooks, ListsOk, Countable
<1>4. /\ AmountAt(k, RecoupLists(db)) = db.recoupGroups[g].coinPubs[i]
      /\ AmountAt(k, RecoupAmounts(db)) = db.recoupGroups[g].oldAmountPerCoin[i]
    BY DEF AmountAt, RecoupLists, RecoupAmounts
<1>5. RecoupShape(db.recoupGroups[g])
      /\ (db.recoupGroups[g].finished => DOMAIN db.recoupGroups[g].coinPubs \subseteq db.recoupGroups[g].finishedPerCoin)
    BY DEF WalletInv, TablesInv, RecoupInv
<1>. QED
    BY <1>1, <1>3, <1>4, <1>5 DEF SourcesOk, RecoupBooks, SchedulesOk

(* What its transaction does first *)
RecoupFirst(m, g, i, S) ==
    RecoupMoved(db, m, g) /\ CoinBooks(m) /\ CoinsCredited(db, m, g, i, S) /\ m.tips = db.tips

(* The coin of a tip is left as it is. *)
LEMMA RecoupTip ==
    ASSUME WalletInv, LedgerInv, NEW g \in DOMAIN db.recoupGroups, NEW i \in DOMAIN db.recoupGroups[g].coinPubs,
           SourceOf(db.recoupGroups[g].coinPubs[i]) = "tip", NEW S
    PROVE  RecoupFirst(db, g, i, S)
<1>1. RecoupMoved(db, db, g)
    BY RecoupFacts DEF RecoupMoved, WalletInv, TablesInv, RecoupInv
<1>2. CoinBooks(db)
    BY DEF LedgerInv, LedgerTables, Books
<1>3. \A k \in DOMAIN db.coins : OnCoin(db.coins[k]) \in Int
    BY <1>2 DEF CoinBooks, CoinBook, OnCoin, AllocatedOf
<1>4. \A k : BackNow(db, g, i, k) = 0
    BY DEF BackNow, GoesBackTo
<1>5. CoinsCredited(db, db, g, i, S)
    BY <1>3, <1>4 DEF CoinsCredited
<1>. QED
    BY <1>1, <1>2, <1>5 DEF RecoupFirst

(* That of a withdrawal is emptied: race 9 if there is money on it. *)
ToReserve(m, h, r) == m = [db EXCEPT !.coins = h, !.reserve = r]

(* Then nothing is given back to a coin. *)
LEMMA RecoupToReserve ==
    ASSUME WalletInv, LedgerInv, NEW g \in DOMAIN db.recoupGroups, NEW i \in DOMAIN db.recoupGroups[g].coinPubs,
           SourceOf(db.recoupGroups[g].coinPubs[i]) = "withdraw",
           NEW h, SpentAndSet(db.coins, h, db.recoupGroups[g].coinPubs[i], db.recoupGroups[g].coinPubs[i], 0),
           NEW r, NEW m, ToReserve(m, h, r),
           NEW S, db.recoupGroups[g].coinPubs[i] \in S \/ db.coins[db.recoupGroups[g].coinPubs[i]].currentAmount = 0
    PROVE  RecoupFirst(m, g, i, S)
<1>. DEFINE c == db.recoupGroups[g].coinPubs[i]
<1>0. CoinsOk(db.coins) /\ CoinBooks(db) /\ DbShape(db) /\ c \in DOMAIN db.coins
    BY RecoupFacts DEF WalletInv, TablesInv, LedgerInv, LedgerTables, Books
<1>1. /\ DbShape(m) /\ m.coins = h /\ m.refreshGroups = db.refreshGroups /\ m.purchases = db.purchases
      /\ m.recoupGroups = db.recoupGroups /\ m.tips = db.tips
    BY <1>0 DEF DbShape, ToReserve
<1>2. CoinsSet(db.coins, h, c, 0)
    BY <1>0, CoinSet
<1>3. CoinBooks(m) /\ CoinsSetIn(db, m, c, 0)
    BY <1>0, <1>1, <1>2, CoinsSetBooks
<1>4. \A k : BackNow(db, g, i, k) = 0
    BY DEF BackNow, GoesBackTo
<1>5. \A k \in DOMAIN db.coins : db.coins[k].currentAmount \in Int
    BY <1>0 DEF CoinBooks, CoinBook
<1>6. CoinsCredited(db, m, g, i, S)
    <2>1. DOMAIN m.coins = DOMAIN db.coins
        BY <1>1, <1>2 DEF CoinsSet
    <2>2. \A k \in DOMAIN db.coins : k \in S \/ OnCoin(m.coins[k]) = OnCoin(db.coins[k]) + BackNow(db, g, i, k)
        BY <1>3, <1>4, <1>5 DEF CoinsSetIn
    <2>. QED
        BY <1>3, <2>1, <2>2 DEF CoinsCredited, CoinsSetIn
<1>7. RecoupMoved(db, m, g)
    BY <1>1, <1>2, RecoupFacts DEF RecoupMoved, CoinsSet, WalletInv, TablesInv, RecoupInv
<1>. QED
    BY <1>1, <1>3, <1>6, <1>7 DEF RecoupFirst

(* That of a refresh gives its money back to the coin it was made from. *)
GivenTo(old, x, g, i) ==
    /\ old = OldCoin(db.recoupGroups[g].coinPubs[i])
    /\ x = db.coins[old].currentAmount + db.recoupGroups[g].oldAmountPerCoin[i]
Schedules(rg, g, old) ==
    rg = [db.recoupGroups[g] EXCEPT !.scheduleRefreshCoins = db.recoupGroups[g].scheduleRefreshCoins \cup {old}]
ToOldCoin(m, h, g, rg) == m = [db EXCEPT !.coins = h, !.recoupGroups = [db.recoupGroups EXCEPT ![g] = rg]]

(* That is a coin of the group of the refresh. *)
LEMMA OldCoinThere ==
    ASSUME WalletInv, LedgerInv, NEW c \in DOMAIN db.coins, SourceOf(c) = "refresh"
    PROVE  OldCoin(c) \in DOMAIN db.coins /\ BackFrom(c, OldCoins(db)) = OldCoin(c)
<1>. PICK k : k = <<c[2], c[3]>>
    OBVIOUS
<1>1. RefreshBooks(db) /\ <<c[2], c[3]>> \in KeysOf(OldCoins(db))
    BY DEF LedgerInv, LedgerTables, Books, RefreshBooks
<1>2. AmountAt(k, OldCoins(db)) \in DOMAIN db.coins
    BY <1>1 DEF RefreshBooks, ListsOk
<1>3. k[1] \in DOMAIN OldCoins(db) /\ k[1] = c[2] /\ k[2] = c[3]
    BY <1>1, KeyFacts
<1>4. AmountAt(k, OldCoins(db)) = OldCoin(c)
    BY <1>3 DEF AmountAt, OldCoins, OldCoin
<1>. QED
    BY <1>2, <1>4 DEF BackFrom

(* The old coin is scheduled to be refreshed. *)
LEMMA ScheduledMoved ==
    ASSUME WalletInv, LedgerInv, NEW g \in DOMAIN db.recoupGroups, DOMAIN db.recoupGroups[g].coinPubs # {},
           NEW old \in DOMAIN db.coins, NEW rg, Schedules(rg, g, old),
           NEW h, CoinsOk(h), NEW m, ToOldCoin(m, h, g, rg)
    PROVE  RecoupMoved(db, m, g) /\ m.coins = h /\ m.tips = db.tips
<1>. PICK rg0 : rg0 = db.recoupGroups[g]
    OBVIOUS
<1>s. PICK s : s = [db.recoupGroups EXCEPT ![g] = rg]
    OBVIOUS
<1>1. RecoupShape(rg0) /\ rg0.scheduleRefreshCoins \subseteq DOMAIN db.coins
    BY RecoupFacts
<1>2. /\ RecoupShape(rg) /\ rg.coinPubs = rg0.coinPubs /\ rg.finished = rg0.finished
      /\ rg.finishedPerCoin = rg0.finishedPerCoin /\ rg.oldAmountPerCoin = rg0.oldAmountPerCoin
      /\ rg.scheduleRefreshCoins = rg0.scheduleRefreshCoins \cup {old}
    BY <1>1 DEF RecoupShape, Schedules
<1>3. /\ IsList(s) /\ DOMAIN s = DOMAIN db.recoupGroups /\ s[g] = rg
      /\ \A j \in DOMAIN db.recoupGroups \ {g} : s[j] = db.recoupGroups[j]
    BY <1>s, UpdateList DEF WalletInv, TablesInv, RecoupInv
<1>4. /\ DbShape(m) /\ m.coins = h /\ m.refreshGroups = db.refreshGroups /\ m.purchases = db.purchases
      /\ m.recoupGroups = s /\ m.tips = db.tips
    <2>1. m = [db EXCEPT !.coins = h, !.recoupGroups = s] /\ DbShape(db)
        BY <1>s DEF ToOldCoin, WalletInv, TablesInv
    <2>. QED
        BY <2>1 DEF DbShape
<1>5. RecoupMoved(db, m, g)
    BY <1>2, <1>3, <1>4 DEF RecoupMoved
<1>. QED
    BY <1>4, <1>5

(* The difference of a sum and its first part. *)
LEMMA PartOfSum ==
    ASSUME NEW a \in Int, NEW b \in Int, NEW x, x = a + b
    PROVE  x \in Int /\ x - a = b
OBVIOUS

(* Its money is what the recoup was for. *)
LEMMA RecoupToOldCoin ==
    ASSUME WalletInv, LedgerInv, NEW g \in DOMAIN db.recoupGroups, NEW i \in DOMAIN db.recoupGroups[g].coinPubs,
           SourceOf(db.recoupGroups[g].coinPubs[i]) = "refresh", NEW old, NEW x, GivenTo(old, x, g, i),
           NEW h, SpentAndSet(db.coins, h, db.recoupGroups[g].coinPubs[i], old, x),
           NEW rg, Schedules(rg, g, old), NEW m, ToOldCoin(m, h, g, rg), NEW S
    PROVE  RecoupFirst(m, g, i, S)
<1>. DEFINE c == db.recoupGroups[g].coinPubs[i]
            am == db.recoupGroups[g].oldAmountPerCoin[i]
            a == db.coins[old].currentAmount
<1>0. CoinsOk(db.coins) /\ CoinBooks(db) /\ c \in DOMAIN db.coins /\ am \in Int
    BY RecoupFacts DEF WalletInv, TablesInv, LedgerInv, LedgerTables, Books
<1>1. old = OldCoin(c) /\ x = a + am
    BY DEF GivenTo
<1>2. old \in DOMAIN db.coins /\ BackFrom(c, OldCoins(db)) = old
    BY <1>0, <1>1, OldCoinThere
<1>3. a \in Int
    BY <1>0, <1>2 DEF CoinBooks, CoinBook
<1>8. x \in Int /\ x - a = am
    <2>. HIDE DEF a, am
    <2>. QED
        BY <1>0, <1>1, <1>3, PartOfSum
<1>4. CoinsSet(db.coins, h, old, x)
    BY <1>0, <1>2, CoinSet
<1>5. RecoupMoved(db, m, g) /\ m.coins = h /\ m.tips = db.tips
    BY <1>2, <1>4, ScheduledMoved DEF CoinsSet
<1>6. CoinBooks(m) /\ CoinsSetIn(db, m, old, x)
    <2>. QED
        BY <1>0, <1>4, <1>5, <1>8, CoinsSetBooks
<1>7. \A k : BackNow(db, g, i, k) = IF k = old THEN am ELSE 0
    BY <1>2 DEF BackNow, GoesBackTo
<1>9. CoinsCredited(db, m, g, i, S)
    <2>1. DOMAIN m.coins = DOMAIN db.coins
        BY <1>4, <1>5 DEF CoinsSet
    <2>2. ASSUME NEW k \in DOMAIN db.coins
          PROVE  OnCoin(m.coins[k]) = OnCoin(db.coins[k]) + BackNow(db, g, i, k)
        BY <1>6, <1>7, <1>8 DEF CoinsSetIn
    <2>. QED
        BY <1>6, <2>1, <2>2 DEF CoinsCredited, CoinsSetIn
<1>. QED
    BY <1>5, <1>6, <1>9 DEF RecoupFirst

(* A recoup that is stored keeps the invariant, whatever the coins are told first. *)
LEMMA RecoupKept ==
    ASSUME WalletInv, LedgerInv, NEW g \in DOMAIN db.recoupGroups, NEW i \in DOMAIN db.recoupGroups[g].coinPubs,
           i \notin db.recoupGroups[g].finishedPerCoin, NEW m, RecoupFirst(m, g, i, raced'),
           db' = PutGroupAsFinished(m, g, i), raced \subseteq raced', GoodTasks,
           exchange'.deposits = exchange.deposits
    PROVE  LedgerInv'
<1>. PICK S : S = raced'
    OBVIOUS
<1>. PICK e : e = PutGroupAsFinished(m, g, i)
    OBVIOUS
<1>1. /\ Books(db) /\ IsList(db.refreshGroups) /\ ~db.recoupGroups[g].finished
      /\ RecoupMoved(db, m, g) /\ CoinBooks(m) /\ CoinsCredited(db, m, g, i, S)
    BY RecoupFacts DEF LedgerInv, LedgerTables, WalletInv, TablesInv, RefreshInv, RecoupFirst
<1>2. /\ Books(e) /\ DOMAIN e.coins = DOMAIN db.coins /\ AllocationsKept(db, e) /\ e.purchases = db.purchases
      /\ \A c \in DOMAIN db.coins \ S : Balanced(db, c) => Balanced(e, c)
    BY <1>1, RecoupStored
<1>3. e.tips = db.tips
    BY FinishedTips DEF RecoupFirst, RecoupMoved
<1>4. TipsOk(e) /\ SourcesOk(e)
    BY <1>2, <1>3 DEF LedgerInv, LedgerTables, TipsOk, SourcesOk
<1>5. Stays(db, raced, e, S)
    BY <1>2 DEF Stays, AllocationsKept
<1>6. AllBalanced(e, S)
    <2>1. BalancesStay(db, e, S)
        BY <1>2 DEF BalancesStay, Clean
    <2>. QED
        BY <1>5, <2>1, AllBalancedStays DEF LedgerInv, LedgerTables
<1>7. PurchasesOk(e, S)
    <2>1. ASSUME NEW o \in Bought(e)
          PROVE  /\ SelectionOk(e, S, e.purchases[o].payCoinSelection, o)
                 /\ RefundsOk(e, S, e.purchases[o].refunds, o)
        <3>1. o \in Orders /\ HasPurchase(o)
            BY <1>2 DEF Bought, HasPurchase
        <3>. QED
            BY <1>2, <1>5, <3>1, BoughtSelection, NamesStay
    <2>. QED
        BY <2>1 DEF PurchasesOk
<1>8. LedgerTables(e, S)
    BY <1>2, <1>4, <1>6, <1>7 DEF LedgerTables
<1>9. DepositsOk(exchange'.deposits, e, S)
    BY <1>5, DepositsStay DEF LedgerInv
<1>10. \A u \in tasks' : u \in tasks \/ LedgerTask(u, e, S)
    BY <1>5, LedgerTaskStays DEF GoodTasks
<1>. QED
    BY <1>5, <1>8, <1>9, <1>10, LedgerStep

(* recoupWithdrawCoin and recoupRefreshCoin mark the coin "Dormant" and set what a coin has left. *)
LEMMA LedgerStoreRecoup ==
    ASSUME WalletInv, LedgerInv, NEW t \in tasks, StoreRecoup(t)
    PROVE  LedgerInv'
<1>. DEFINE g == Key(t)[1]
            i == Key(t)[2]
            c == RecoupedCoin(t)
            old == OldCoin(c)
            spent == [db.coins EXCEPT ![c].status = "Dormant"]
            emptied == [spent EXCEPT ![c].currentAmount = 0]
            credited == [spent EXCEPT ![old].currentAmount = @ + Recoup(t).oldAmountPerCoin[i]]
            asked == IF db.reserve.status = "DORMANT" THEN [db.reserve EXCEPT !.status = "QUERYING_STATUS"]
                     ELSE [db.reserve EXCEPT !.requestedQuery = TRUE]
            toReserve == [db EXCEPT !.coins = emptied, !.reserve = asked]
            lost == /\ i \notin Recoup(t).finishedPerCoin /\ SourceOf(c) = "withdraw"
                    /\ db.coins[c].currentAmount # 0
            toOldCoin == [db EXCEPT !.coins = credited,
                             !.recoupGroups[g].scheduleRefreshCoins = @ \cup {old}]
<1>1. /\ Op(t) = "recoup" /\ UNCHANGED exchange /\ Done(t)
      /\ raced' = IF lost THEN raced \cup {c} ELSE raced
      /\ db' = IF i \in Recoup(t).finishedPerCoin THEN db
               ELSE PutGroupAsFinished(CASE SourceOf(c) = "tip" -> db
                                         [] SourceOf(c) = "withdraw" -> toReserve
                                         [] OTHER -> toOldCoin, g, i)
    BY Zenon DEF StoreRecoup, At
<1>2. /\ g \in DOMAIN db.recoupGroups /\ i \in DOMAIN db.recoupGroups[g].coinPubs
      /\ c = db.recoupGroups[g].coinPubs[i] /\ Recoup(t) = db.recoupGroups[g]
    BY <1>1 DEF WalletInv, TaskOk, RecoupTask, RecoupedCoin, Recoup
<1>3. GoodTasks
    BY <1>1, QuietGood DEF Quiet
<1>4. raced \subseteq raced' /\ exchange'.deposits = exchange.deposits
    BY <1>1
<1>5. CASE i \in Recoup(t).finishedPerCoin
    <2>1. SameMoney(db, db')
        BY <1>1, <1>5, OtherTables DEF LedgerInv, LedgerTables, SameTables
    <2>. QED
        BY <1>3, <1>4, <2>1, GoodLedgerStep
<1>6. CASE i \notin Recoup(t).finishedPerCoin
    <2>1. /\ c \in DOMAIN db.coins /\ SourceOf(c) \in {"withdraw", "tip", "refresh"}
        BY <1>2, RecoupFacts
    <2>h. \E h : SpentAndSet(db.coins, h, c, c, 0)
        BY DEF SpentAndSet
    <2>2. ASSUME SourceOf(c) = "tip" PROVE RecoupFirst(db, g, i, raced')
        BY <1>2, <2>2, RecoupTip
    <2>3. ASSUME SourceOf(c) = "withdraw" PROVE RecoupFirst(toReserve, g, i, raced')
        <3>1. SpentAndSet(db.coins, emptied, c, c, 0) /\ ToReserve(toReserve, emptied, asked)
            BY DEF SpentAndSet, ToReserve
        <3>2. c \in raced' \/ db.coins[c].currentAmount = 0
            BY <1>1, <1>6, <2>3
        <3>. HIDE DEF emptied, asked, toReserve
        <3>. QED
            BY <1>2, <2>3, <3>1, <3>2, RecoupToReserve
    <2>4. ASSUME SourceOf(c) = "refresh" PROVE RecoupFirst(toOldCoin, g, i, raced')
        <3>. PICK x : x = db.coins[old].currentAmount + db.recoupGroups[g].oldAmountPerCoin[i]
            OBVIOUS
        <3>r. PICK rg : Schedules(rg, g, old)
            BY DEF Schedules
        <3>1. CoinsOk(db.coins) /\ DbShape(db) /\ old \in DOMAIN db.coins
            BY <2>1, <2>4, OldCoinThere DEF WalletInv, TablesInv, LedgerInv, LedgerTables, Books
        <3>2. GivenTo(old, x, g, i)
            BY <1>2 DEF GivenTo
        <3>3. SpentAndSet(db.coins, credited, c, old, x)
            <4>1. spent[old].currentAmount = db.coins[old].currentAmount
                BY <3>1 DEF CoinsOk, CoinShape
            <4>2. credited = [spent EXCEPT ![old].currentAmount = x]
                BY <1>2, <3>1, <4>1
            <4>. QED
                BY <4>2 DEF SpentAndSet
        <3>4. ToOldCoin(toOldCoin, credited, g, rg)
            <4>. PICK h : h = credited
                OBVIOUS
            <4>. HIDE DEF credited
            <4>. QED
                BY <1>2, <3>1, <3>r DEF ToOldCoin, Schedules, DbShape
        <3>. HIDE DEF credited, toOldCoin, old
        <3>. QED
            BY <1>2, <2>4, <3>2, <3>3, <3>4, <3>r, RecoupToOldCoin
    <2>5. \E m : db' = PutGroupAsFinished(m, g, i) /\ RecoupFirst(m, g, i, raced')
        <3>. HIDE DEF toReserve, toOldCoin
        <3>1. CASE SourceOf(c) = "tip"
            BY <1>1, <1>6, <2>2, <3>1
        <3>2. CASE SourceOf(c) = "withdraw"
            BY <1>1, <1>6, <2>3, <3>2
        <3>3. CASE SourceOf(c) = "refresh"
            BY <1>1, <1>6, <2>4, <3>3
        <3>. QED
            BY <2>1, <3>1, <3>2, <3>3
    <2>. PICK m : db' = PutGroupAsFinished(m, g, i) /\ RecoupFirst(m, g, i, raced')
        BY <2>5
    <2>. QED
        BY <1>2, <1>3, <1>4, <1>6, RecoupKept
<1>. QED
    BY <1>5, <1>6

-----------------------------------------------------------------------------
(* The first state of each scene. A wallet that has only withdrawn has its money on the coins.     *)
OnlyWithdrew(d) ==
    /\ d.refreshGroups = <<>> /\ d.recoupGroups = <<>> /\ d.tips = <<>> /\ CoinBooks(d)
    /\ \A c \in DOMAIN d.coins : SourceOf(c) = "withdraw" /\ OnCoin(d.coins[c]) = d.coins[c].value
    /\ \A o \in Bought(d) : d.purchases[o].refunds = <<>>

(* Its books are in order. *)
LEMMA StartBooked ==
    ASSUME NEW d, OnlyWithdrew(d)
    PROVE  Books(d) /\ SourcesOk(d) /\ TipsOk(d) /\ \A c \in DOMAIN d.coins : Balanced(d, c)
<1>1. DOMAIN d.refreshGroups = {} /\ DOMAIN d.recoupGroups = {} /\ DOMAIN d.tips = {}
    BY ListFacts DEF OnlyWithdrew
<1>2. KeysOf(OldCoins(d)) = {} /\ KeysOf(RecoupLists(d)) = {}
    BY <1>1 DEF KeysOf, OldCoins, RecoupLists
<1>3. KeysOf(RefundTables(d)) = {}
    <2>1. ASSUME NEW o \in DOMAIN RefundTables(d) PROVE DOMAIN RefundTables(d)[o] = {}
        <3>1. RefundTables(d)[o] = <<>>
            BY DEF RefundTables, OnlyWithdrew
        <3>. QED
            BY <3>1, ListFacts
    <2>. QED
        BY <2>1 DEF KeysOf
<1>4. IsFiniteSet({})
    BY FS_EmptySet
<1>5. RefreshBooks(d)
    BY <1>1, <1>2, <1>4 DEF RefreshBooks, ListsOk, Countable, OutputsOk, OnlyWithdrew
<1>6. RecoupBooks(d)
    BY <1>1, <1>2, <1>4 DEF RecoupBooks, ListsOk, Countable, SchedulesOk
<1>7. RefundBooks(d)
    BY <1>3, <1>4 DEF RefundBooks
<1>8. ASSUME NEW c \in DOMAIN d.coins PROVE Balanced(d, c)
    <2>1. KeysFor(OldCoins(d), c) = {} /\ KeysFor(RecoupLists(d), c) = {}
        BY <1>2 DEF KeysFor
    <2>2. BackKeys(RecoupLists(d), FinishedLists(d), OldCoins(d), c) = {} /\ RefundsFor(RefundTables(d), c) = {}
        BY <1>2, <1>3 DEF BackKeys, RefundsFor
    <2>3. Melted(d, c) = 0 /\ InRecoups(d, c) = 0 /\ Back(d, c) = 0 /\ GivenBack(d, c) = 0
        BY <2>1, <2>2, TotalNone DEF Melted, InRecoups, Booked, Back, GivenBack
    <2>4. OnCoin(d.coins[c]) = d.coins[c].value /\ d.coins[c].value \in Int
        BY DEF OnlyWithdrew, CoinBooks, CoinBook
    <2>. QED
        BY <2>3, <2>4 DEF Balanced
<1>9. Books(d)
    BY <1>5, <1>6, <1>7 DEF Books, OnlyWithdrew
<1>. QED
    BY <1>1, <1>8, <1>9 DEF OnlyWithdrew, SourcesOk, TipsOk

(* The coins of a withdrawal, *)
NothingBought(d) == \A o \in Orders : d.purchases[o] = Absent
FirstWallet(d, n) ==
    /\ d.refreshGroups = <<>> /\ d.recoupGroups = <<>> /\ d.tips = <<>> /\ DOMAIN d.coins = FirstCoins(n)
    /\ \A c \in FirstCoins(n) : d.coins[c] = FreshCoin(CoinValue, ADenom)

(* of which there are finitely many, *)
LEMMA FirstCoinsFinite ==
    ASSUME NEW n \in Nat
    PROVE  IsFiniteSet(FirstCoins(n)) /\ \A c \in FirstCoins(n) : SourceOf(c) = "withdraw"
<1>1. IsFiniteSet(1 .. n)
    BY FS_Interval
<1>. PICK f1 : f1 = [i \in 1 .. n |-> WithdrawCoin(1, i)]
    OBVIOUS
<1>2. f1 \in Surjection(1 .. n, FirstCoins(n))
    BY DEF Surjection, FirstCoins
<1>3. IsFiniteSet(FirstCoins(n))
    BY <1>1, <1>2, FS_Surjection
<1>. QED
    BY <1>3, FirstCoinsFacts

(* hold their value. *)
LEMMA FirstWalletWithdrew ==
    ASSUME NEW n \in Nat, NEW d, FirstWallet(d, n), \A o \in Bought(d) : d.purchases[o].refunds = <<>>
    PROVE  OnlyWithdrew(d)
<1>. PICK coin : coin = FreshCoin(CoinValue, ADenom)
    OBVIOUS
<1>1. CoinBook(coin) /\ OnCoin(coin) = coin.value
    <2>1. /\ coin.value \in Int /\ coin.currentAmount = coin.value /\ coin.allocation = Absent
        BY FeeAssumption DEF FreshCoin
    <2>. QED
        BY <2>1 DEF CoinBook, OnCoin, AllocatedOf
<1>2. \A c \in DOMAIN d.coins : d.coins[c] = coin
    BY DEF FirstWallet
<1>3. CoinBooks(d)
    BY <1>1, <1>2, FirstCoinsFinite DEF CoinBooks, FirstWallet
<1>. QED
    BY <1>1, <1>2, <1>3, FirstCoinsFinite DEF OnlyWithdrew, FirstWallet

(* The tables of a wallet that has bought nothing. *)
LEMMA FirstWalletTables ==
    ASSUME NEW n \in Nat, NEW d, FirstWallet(d, n), NothingBought(d), NEW S
    PROVE  LedgerTables(d, S)
<1>1. Bought(d) = {}
    BY DEF Bought, NothingBought
<1>2. OnlyWithdrew(d)
    BY <1>1, FirstWalletWithdrew
<1>3. Books(d) /\ SourcesOk(d) /\ TipsOk(d) /\ \A c \in DOMAIN d.coins : Balanced(d, c)
    BY <1>2, StartBooked
<1>. QED
    BY <1>1, <1>3 DEF LedgerTables, AllBalanced, PurchasesOk

(* The wallet after one withdrawal is such a wallet, *)
LEMMA WithdrawalStarts ==
    ASSUME NEW n \in Nat
    PROVE  FirstWallet(Withdrawal(n), n) /\ NothingBought(Withdrawal(n)) /\ DbShape(Withdrawal(n))
<1>. PICK f : f = [c \in FirstCoins(n) |-> FreshCoin(CoinValue, ADenom)]
    OBVIOUS
<1>. PICK u : u = [o \in Orders |-> Absent]
    OBVIOUS
<1>. PICK d : d = Withdrawal(n)
    OBVIOUS
<1>1. DbShape(d) /\ d.refreshGroups = <<>> /\ d.recoupGroups = <<>> /\ d.tips = <<>>
    BY FirstWithdrawal DEF FirstTables
<1>2. d.coins = f /\ d.purchases = u
    BY DEF Withdrawal
<1>3. FirstWallet(d, n) /\ NothingBought(d)
    BY <1>1, <1>2 DEF FirstWallet, NothingBought
<1>. QED
    BY <1>1, <1>3

(* and so are a new wallet, and one that was restored. *)
LEMMA NewWalletStarts ==
    /\ FirstWallet(NewWallet, 0) /\ NothingBought(NewWallet)
    /\ FirstWallet([NewWallet EXCEPT !.reserve.status = "QUERYING_STATUS"], 0)
    /\ NothingBought([NewWallet EXCEPT !.reserve.status = "QUERYING_STATUS"])
<1>. PICK d : d = Withdrawal(0)
    OBVIOUS
<1>1. FirstWallet(d, 0) /\ NothingBought(d) /\ DbShape(d)
    <2>1. 0 \in Nat
        OBVIOUS
    <2>. QED
        BY <2>1, WithdrawalStarts
<1>. PICK r : r = [d.reserve EXCEPT !.status = "none"]
    OBVIOUS
<1>. PICK e : e = [d EXCEPT !.reserve = r, !.withdrawalGroups = <<>>]
    OBVIOUS
<1>2. NewWallet = e
    BY <1>1 DEF NewWallet, DbShape
<1>3. /\ DbShape(e) /\ e.coins = d.coins /\ e.tips = d.tips /\ e.recoupGroups = d.recoupGroups
      /\ e.purchases = d.purchases /\ e.refreshGroups = d.refreshGroups
    BY <1>1 DEF DbShape
<1>4. FirstWallet(e, 0) /\ NothingBought(e)
    BY <1>1, <1>3 DEF FirstWallet, NothingBought
<1>. PICK r2 : r2 = [e.reserve EXCEPT !.status = "QUERYING_STATUS"]
    OBVIOUS
<1>. PICK h : h = [e EXCEPT !.reserve = r2]
    OBVIOUS
<1>5. /\ h.coins = e.coins /\ h.tips = e.tips /\ h.recoupGroups = e.recoupGroups
      /\ h.purchases = e.purchases /\ h.refreshGroups = e.refreshGroups
    BY <1>3 DEF DbShape
<1>6. FirstWallet(h, 0) /\ NothingBought(h)
    BY <1>4, <1>5 DEF FirstWallet, NothingBought
<1>7. [NewWallet EXCEPT !.reserve.status = "QUERYING_STATUS"] = h
    BY <1>2
<1>. QED
    BY <1>2, <1>4, <1>6, <1>7

(* In the refund scene both coins are spent for order 2, *)
FirstSelection == [c \in FirstCoins(2) |-> CoinValue]
FirstBought(d) ==
    [d EXCEPT !.proposals[2].status = "ACCEPTED", !.purchases[2] = NewPurchase(FirstSelection)]
SameRefreshes(d, e) ==
    /\ OldCoins(e) = OldCoins(d) /\ InputAmounts(e) = InputAmounts(d) /\ e.coins = d.coins
    /\ e.recoupGroups = d.recoupGroups /\ e.purchases = d.purchases /\ e.tips = d.tips
    /\ \A g \in DOMAIN e.refreshGroups : DOMAIN e.refreshGroups[g].session = {}

(* which leaves a refresh group that had nothing to do. *)
LEMMA ConfirmedIs ==
    ASSUME NEW d, FirstTables(d, 2), d.refreshGroups = <<>>, DOMAIN d.coins = FirstCoins(2)
    PROVE  SameRefreshes(ApplyCoinSpend(FirstBought(d), FirstSelection, AllocationId(2)), Confirmed(d))
<1>. PICK sel : sel = FirstSelection
    OBVIOUS
<1>. PICK d1 : d1 = FirstBought(d)
    OBVIOUS
<1>. PICK spent : spent = ApplyCoinSpend(d1, sel, AllocationId(2))
    OBVIOUS
<1>. PICK ff : ff = <<"Finished", "Finished">>
    OBVIOUS
<1>1. /\ DbShape(d1) /\ d1.coins = d.coins /\ d1.refreshGroups = d.refreshGroups
    <2>. PICK props : props = [d.proposals EXCEPT ![2].status = "ACCEPTED"]
        OBVIOUS
    <2>. PICK u : u = [d.purchases EXCEPT ![2] = NewPurchase(sel)]
        OBVIOUS
    <2>0. DbShape(d)
        BY DEF FirstTables
    <2>1. d1 = [d EXCEPT !.proposals = props, !.purchases = u]
        BY <2>0 DEF FirstBought, DbShape
    <2>. QED
        BY <2>0, <2>1 DEF DbShape
<1>2. Confirmed(d) = [spent EXCEPT !.refreshGroups[1].statusPerCoin = ff,
                                   !.refreshGroups[1].state = "finished"]
    BY Zenon DEF Confirmed, FirstBought, FirstSelection
<1>3. CanSpend(d1, sel)
    BY <1>1, ListFacts DEF CanSpend, FirstTables, FirstSelection
<1>4. HasSpent(d1, spent)
    BY <1>3, FirstSpent
<1>5. PICK e : spent.refreshGroups = <<NewGroup(e, SetToSeq(FirstCoins(2)))>>
    BY <1>4 DEF HasSpent
<1>. PICK ng : ng = NewGroup(e, SetToSeq(FirstCoins(2)))
    OBVIOUS
<1>. PICK rg : rg = EndedWith(ng, ff)
    OBVIOUS
<1>6. DbShape(spent)
    BY <1>4 DEF HasSpent, Spends
<1>7. Confirmed(d) = OneGroup(spent, rg)
    <2>1. HasOneGroup(spent, ng)
        BY <1>5, <1>6 DEF HasOneGroup
    <2>2. FirstGroupEnded(spent, ff) = OneGroup(spent, EndedWith(ng, ff))
        BY <2>1, OnlyGroupFinished
    <2>. QED
        BY <1>2, <2>2 DEF FirstGroupEnded
<1>. PICK gs : gs = <<rg>>
    OBVIOUS
<1>. PICK out : out = [spent EXCEPT !.refreshGroups = gs]
    OBVIOUS
<1>8. /\ out.refreshGroups = gs /\ out.coins = spent.coins /\ out.recoupGroups = spent.recoupGroups
      /\ out.purchases = spent.purchases /\ out.tips = spent.tips
    BY <1>6 DEF DbShape
<1>9. /\ rg.oldCoinPubs = ng.oldCoinPubs /\ rg.inputPerCoin = ng.inputPerCoin /\ rg.session = <<>>
    BY DEF EndedWith, NewGroup
<1>10. /\ DOMAIN gs = {1} /\ DOMAIN spent.refreshGroups = {1} /\ gs[1] = rg /\ spent.refreshGroups[1] = ng
    BY <1>5, ListFacts
<1>11. OldCoins(out) = OldCoins(spent) /\ InputAmounts(out) = InputAmounts(spent)
    BY <1>8, <1>9, <1>10 DEF OldCoins, InputAmounts
<1>12. \A g \in DOMAIN out.refreshGroups : DOMAIN out.refreshGroups[g].session = {}
    BY <1>8, <1>9, <1>10, ListFacts
<1>13. SameRefreshes(spent, out)
    BY <1>8, <1>11, <1>12 DEF SameRefreshes
<1>. QED
    BY <1>7, <1>13 DEF OneGroup

(* The purchase is stored before its coins are spent. *)
LEMMA FirstBoughtFields ==
    ASSUME NEW d, FirstTables(d, 2), FirstWallet(d, 2), NothingBought(d)
    PROVE  LET e == FirstBought(d) IN
           /\ DbShape(e) /\ CoinsOk(e.coins) /\ FirstWallet(e, 2) /\ IsList(e.refreshGroups)
           /\ Bought(e) = {2} /\ e.purchases[2].refunds = <<>>
           /\ e.purchases[2].payCoinSelection = FirstSelection
<1>. PICK e : e = FirstBought(d)
    OBVIOUS
<1>. PICK new : new = NewPurchase(FirstSelection)
    OBVIOUS
<1>. PICK props : props = [d.proposals EXCEPT ![2].status = "ACCEPTED"]
    OBVIOUS
<1>. PICK u : u = [d.purchases EXCEPT ![2] = new]
    OBVIOUS
<1>0. DbShape(d) /\ IsFunction(d.purchases) /\ DOMAIN d.purchases = Orders /\ 2 \in Orders
    BY ScenesAssumption DEF FirstTables
<1>1. e = [d EXCEPT !.proposals = props, !.purchases = u]
    BY <1>0 DEF FirstBought, DbShape
<1>2. /\ DbShape(e) /\ e.coins = d.coins /\ e.refreshGroups = d.refreshGroups /\ e.tips = d.tips
      /\ e.recoupGroups = d.recoupGroups /\ e.purchases = u
    BY <1>0, <1>1 DEF DbShape
<1>3. new.refunds = <<>> /\ new.payCoinSelection = FirstSelection
    BY DEF NewPurchase
<1>4. new # Absent
    BY <1>3, PurchaseNew, PurchaseThere
<1>5. u[2] = new /\ \A o \in Orders \ {2} : u[o] = Absent
    BY <1>0 DEF NothingBought
<1>6. Bought(e) = {2}
    BY <1>0, <1>2, <1>4, <1>5 DEF Bought
<1>7. CoinsOk(e.coins) /\ FirstWallet(e, 2) /\ IsList(e.refreshGroups)
    BY <1>2, ListFacts DEF FirstTables, FirstWallet
<1>. QED
    BY <1>2, <1>3, <1>5, <1>6, <1>7

(* The money of the two coins is allocated to the order. *)
LEMMA ConfirmedTables ==
    ASSUME NEW S
    PROVE  LedgerTables(Confirmed(Withdrawal(2)), S)
<1>. PICK d : d = Withdrawal(2)
    OBVIOUS
<1>. PICK b : b = FirstBought(d)
    OBVIOUS
<1>. PICK id : id = AllocationId(2)
    OBVIOUS
<1>. PICK sel : sel = FirstSelection
    OBVIOUS
<1>e. PICK e : e = ApplyCoinSpend(b, sel, id)
    OBVIOUS
<1>o. PICK out : out = Confirmed(d)
    OBVIOUS
<1>0. 2 \in Nat /\ CoinValue \in Int
    BY FeeAssumption
<1>1. /\ FirstTables(d, 2) /\ FirstWallet(d, 2) /\ NothingBought(d) /\ d.refreshGroups = <<>>
      /\ DOMAIN d.coins = FirstCoins(2)
    BY <1>0, FirstWithdrawal, WithdrawalStarts
<1>2. /\ DbShape(b) /\ CoinsOk(b.coins) /\ FirstWallet(b, 2) /\ IsList(b.refreshGroups)
      /\ Bought(b) = {2} /\ b.purchases[2].refunds = <<>> /\ b.purchases[2].payCoinSelection = sel
    BY <1>1, FirstBoughtFields
<1>3. SameRefreshes(e, out)
    BY <1>e, <1>o, <1>1, ConfirmedIs
<1>4. OnlyWithdrew(b)
    BY <1>0, <1>2, FirstWalletWithdrew
<1>5. Books(b) /\ SourcesOk(b) /\ TipsOk(b) /\ \A c \in DOMAIN b.coins : Balanced(b, c)
    BY <1>4, StartBooked
<1>6. DOMAIN sel = DOMAIN b.coins /\ \A c \in DOMAIN sel : sel[c] = CoinValue
    BY <1>2 DEF FirstSelection, FirstWallet
<1>7. \A c \in DOMAIN b.coins : b.coins[c].status = "Fresh" /\ b.coins[c].currentAmount = CoinValue
    BY <1>2 DEF FirstWallet, FreshCoin
<1>8. ~SpendConflict(b, sel, id) /\ IntAmounts(sel) /\ Skipped(b, sel) = {}
    <2>1. ~(CoinValue < CoinValue)
        BY <1>0
    <2>2. ASSUME NEW c \in DOMAIN sel
          PROVE  /\ c \in DOMAIN b.coins /\ b.coins[c].status = "Fresh"
                 /\ ~(b.coins[c].currentAmount < sel[c]) /\ sel[c] \in Int
        <3>1. c \in DOMAIN b.coins
            BY <1>6
        <3>2. b.coins[c].currentAmount = CoinValue /\ sel[c] = CoinValue
            BY <1>6, <1>7, <3>1
        <3>. QED
            BY <1>0, <1>7, <2>1, <3>1, <3>2
    <2>3. Skipped(b, sel) = {} /\ IntAmounts(sel)
        BY <2>2 DEF Skipped, IntAmounts
    <2>4. ~SpendConflict(b, sel, id)
        BY <2>2 DEF SpendConflict
    <2>. QED
        BY <2>3, <2>4
<1>9. /\ Books(e) /\ BalancesKept(b, e) /\ MarksStay(b, e) /\ SelectionSpent(b, e, sel, id)
      /\ e.purchases = b.purchases
    BY <1>e, <1>2, <1>5, <1>8, SpendBooked
<1>10. e.tips = b.tips
    BY <1>e, <1>2, CoinsSpent DEF Spends
<1>11. Books(out) /\ BalancesKept(e, out)
    <2>1. SameLists(e, out) /\ SchedulesOk(out) /\ OutputsOk(out)
        BY <1>3, <1>9 DEF SameRefreshes, SameLists, RecoupLists, RecoupAmounts, FinishedLists,
            RefundTables, Bought, Books, RecoupBooks, SchedulesOk, OutputsOk
    <2>. QED
        BY <1>3, <1>9, <2>1, QuietBooked DEF SameRefreshes
<1>12. AllBalanced(out, S) /\ SourcesOk(out) /\ TipsOk(out)
    BY <1>3, <1>5, <1>9, <1>10, <1>11 DEF AllBalanced, SourcesOk, TipsOk, BalancesKept, SameRefreshes
<1>13. Bought(out) = {2} /\ out.purchases = b.purchases
    BY <1>2, <1>3, <1>9 DEF SameRefreshes, Bought
<1>14. SelectionOk(out, S, sel, 2)
    <2>1. ASSUME NEW c \in DOMAIN sel PROVE BelongsTo(out, S, c, 2) /\ sel[c] \in Int
        <3>1. c \in DOMAIN b.coins /\ AllocatedTo(e, c, id)
            BY <1>8, <1>9 DEF SelectionSpent
        <3>2. out.coins = e.coins /\ DOMAIN e.coins = DOMAIN b.coins
            BY <1>3, <1>9 DEF SameRefreshes, BalancesKept
        <3>. QED
            BY <1>0, <1>6, <3>1, <3>2 DEF BelongsTo, AllocatedTo
    <2>. QED
        BY <2>1 DEF SelectionOk
<1>15. RefundsOk(out, S, <<>>, 2)
    BY ListFacts DEF RefundsOk
<1>16. PurchasesOk(out, S)
    BY <1>2, <1>13, <1>14, <1>15 DEF PurchasesOk
<1>. QED
    BY <1>o, <1>11, <1>12, <1>16 DEF LedgerTables

(* In the recoup scene a coin was spent in part. *)
FirstPart == [id |-> <<"deposit-group", 0>>, amount |-> 1]

HalfWayTo(x, d, w) ==
    /\ DbShape(x) /\ CoinsOk(x.coins) /\ OnlyWithdrew(x) /\ Bought(x) = {}
    /\ DOMAIN x.coins = FirstCoins(2) /\ w \in DOMAIN x.coins
    /\ \A c \in DOMAIN x.coins \ {w} : x.coins[c] = d.coins[c]
    /\ x.coins[w].value = CoinValue /\ x.coins[w].currentAmount = CoinValue - 1
    /\ x.coins[w].allocation = FirstPart

(* The rest of it was refreshed: before that, it was still on the coin. *)
LEMMA HalfWay ==
    ASSUME NEW d, FirstTables(d, 2), FirstWallet(d, 2), NothingBought(d), NEW w, w = WithdrawCoin(1, 1)
    PROVE  \E x : HalfWayTo(x, d, w)
<1>. PICK part : part = FirstPart
    OBVIOUS
<1>. PICK rest : rest = CoinValue - 1
    OBVIOUS
<1>. PICK dn : dn = ADenom
    OBVIOUS
<1>. PICK coin : coin = [value |-> CoinValue, currentAmount |-> rest, status |-> "Dormant",
                         allocation |-> part, denom |-> dn]
    OBVIOUS
<1>. PICK f : f = [d.coins EXCEPT ![w] = coin]
    OBVIOUS
<1>. PICK x : x = [d EXCEPT !.coins = f]
    OBVIOUS
<1>0. /\ DbShape(d) /\ CoinsOk(d.coins) /\ IsFunction(d.coins) /\ DOMAIN d.coins = FirstCoins(2)
      /\ CoinValue \in Int
    BY FeeAssumption DEF FirstTables, CoinsOk, FirstWallet
<1>1. w \in FirstCoins(2) /\ 2 \in Nat
    BY DEF FirstCoins
<1>2. DbShape(x) /\ x.coins = f /\ x.refreshGroups = d.refreshGroups /\ x.recoupGroups = d.recoupGroups
      /\ x.tips = d.tips /\ x.purchases = d.purchases
    BY <1>0 DEF DbShape
<1>3. /\ DOMAIN f = FirstCoins(2) /\ IsFunction(f) /\ f[w] = coin
      /\ \A c \in FirstCoins(2) \ {w} : f[c] = d.coins[c]
    BY <1>0, <1>1 DEF IsFunction
<1>4. CoinShape(coin) /\ coin.value = CoinValue /\ coin.currentAmount = rest /\ coin.allocation = part
      /\ coin.status = "Dormant"
    BY DEF CoinShape
<1>5. CoinsOk(f)
    BY <1>0, <1>3, <1>4 DEF CoinsOk
<1>6. part.amount = 1 /\ part # Absent
    <2>1. "amount" \in DOMAIN part /\ part.amount = 1
        BY DEF FirstPart
    <2>. QED
        BY <2>1, ListFacts DEF Absent
<1>7. CoinBook(coin) /\ OnCoin(coin) = coin.value
    BY <1>0, <1>4, <1>6 DEF CoinBook, OnCoin, AllocatedOf
<1>8. Bought(d) = {} /\ Bought(x) = {}
    BY <1>2 DEF Bought, NothingBought
<1>9. OnlyWithdrew(d)
    BY <1>1, <1>8, FirstWalletWithdrew
<1>10. OnlyWithdrew(x)
    <2>1. CoinBooks(x)
        BY <1>0, <1>2, <1>3, <1>7, <1>9 DEF OnlyWithdrew, CoinBooks
    <2>2. \A c \in DOMAIN x.coins : SourceOf(c) = "withdraw" /\ OnCoin(x.coins[c]) = x.coins[c].value
        BY <1>0, <1>2, <1>3, <1>7, <1>9 DEF OnlyWithdrew
    <2>. QED
        BY <1>2, <1>8, <1>9, <2>1, <2>2 DEF OnlyWithdrew
<1>11. HalfWayTo(x, d, w)
    BY <1>1, <1>2, <1>3, <1>4, <1>5, <1>8, <1>10 DEF HalfWayTo
<1>. QED
    BY <1>11

RefreshedFrom(e, d, w, new, change) ==
    /\ DOMAIN e.coins = FirstCoins(2) \cup {new} /\ e.coins[new] = FreshCoin(change, ADenom)
    /\ \A c \in FirstCoins(2) \ {w} : e.coins[c] = d.coins[c]
    /\ e.coins[w].value = CoinValue /\ e.coins[w].currentAmount = 0 /\ e.coins[w].status = "Dormant"
    /\ e.coins[w].allocation = FirstPart
    /\ e.tips = d.tips /\ e.recoupGroups = d.recoupGroups /\ e.purchases = d.purchases
    /\ DOMAIN e.refreshGroups = {1} /\ e.refreshGroups[1].oldCoinPubs = <<w>>
    /\ e.refreshGroups[1].inputPerCoin = <<CoinValue - 1>>
    /\ DOMAIN e.refreshGroups[1].session = {1} /\ e.refreshGroups[1].session[1].output = change

(* The coin of the scene, its group and the change. *)
LEMMA RefreshedFields ==
    ASSUME NEW d, FirstTables(d, 2), FirstWallet(d, 2), NEW w, w = WithdrawCoin(1, 1),
           NEW new, new = RefreshCoin(1, 1), NEW change, change = Sub(CoinValue - 1, RefreshFee)
    PROVE  RefreshedFrom(Refreshed(d, w, 1), d, w, new, change)
<1>. PICK part : part = FirstPart
    OBVIOUS
<1>. PICK rest : rest = CoinValue - 1
    OBVIOUS
<1>. PICK yes : yes = TRUE
    OBVIOUS
<1>. PICK s : s = [seed |-> 1, output |-> change, denom |-> ADenom, melted |-> yes]
    OBVIOUS
<1>. PICK cs, is, fs, ss : cs = <<w>> /\ is = <<rest>> /\ fs = <<"Finished">> /\ ss = <<s>>
    OBVIOUS
<1>. PICK rg : rg = [oldCoinPubs |-> cs, inputPerCoin |-> is, statusPerCoin |-> fs,
                     state |-> "finished", session |-> ss]
    OBVIOUS
<1>. PICK gs : gs = <<rg>>
    OBVIOUS
<1>. PICK f : f = [d.coins EXCEPT ![w].currentAmount = 0, ![w].status = "Dormant", ![w].allocation = part]
    OBVIOUS
<1>. PICK h : h = Stored(f, {new}, FreshCoin(change, ADenom))
    OBVIOUS
<1>. PICK e : e = [d EXCEPT !.coins = h, !.refreshGroups = gs]
    OBVIOUS
<1>1. Refreshed(d, w, 1) = e
    BY DEF Refreshed, FirstPart
<1>0. DbShape(d) /\ CoinsOk(d.coins) /\ IsFunction(d.coins) /\ DOMAIN d.coins = FirstCoins(2)
    BY DEF FirstTables, CoinsOk, FirstWallet
<1>2. e.coins = h /\ e.refreshGroups = gs /\ e.recoupGroups = d.recoupGroups
      /\ e.tips = d.tips /\ e.purchases = d.purchases
    BY <1>0 DEF DbShape
<1>3. w \in FirstCoins(2) /\ new \notin FirstCoins(2)
    <2>1. SourceOf(new) = "refresh"
        BY DEF SourceOf, RefreshCoin
    <2>2. \A c \in FirstCoins(2) : SourceOf(c) = "withdraw"
        BY FirstCoinsFacts
    <2>. QED
        BY <2>1, <2>2 DEF FirstCoins
<1>. PICK coin : coin = [d.coins[w] EXCEPT !.currentAmount = 0, !.status = "Dormant", !.allocation = part]
    OBVIOUS
<1>4. /\ coin.value = CoinValue /\ coin.currentAmount = 0 /\ coin.status = "Dormant" /\ coin.allocation = part
    <2>1. d.coins[w] = FreshCoin(CoinValue, ADenom)
        BY <1>3 DEF FirstWallet
    <2>. QED
        BY <2>1 DEF FreshCoin
<1>5. f = [d.coins EXCEPT ![w] = coin]
    BY <1>0, <1>3
<1>6. DOMAIN f = FirstCoins(2) /\ f[w] = coin /\ \A c \in FirstCoins(2) \ {w} : f[c] = d.coins[c]
    BY <1>0, <1>3, <1>5
<1>7. /\ DOMAIN h = FirstCoins(2) \cup {new} /\ h[new] = FreshCoin(change, ADenom)
      /\ \A c \in FirstCoins(2) : h[c] = f[c]
    BY <1>3, <1>6 DEF Stored
<1>8. /\ DOMAIN gs = {1} /\ gs[1] = rg /\ DOMAIN ss = {1} /\ ss[1] = s
    BY ListFacts
<1>9. /\ rg.oldCoinPubs = cs /\ rg.inputPerCoin = is /\ rg.session = ss /\ s.output = change
    OBVIOUS
<1>10. /\ e.coins[w] = coin /\ \A c \in FirstCoins(2) \ {w} : e.coins[c] = d.coins[c]
    <2>1. h[w] = f[w] /\ f[w] = coin
        BY <1>3, <1>6, <1>7
    <2>2. \A c \in FirstCoins(2) \ {w} : h[c] = d.coins[c]
        BY <1>6, <1>7
    <2>. QED
        BY <1>2, <2>1, <2>2
<1>11. RefreshedFrom(e, d, w, new, change)
    <2>1. /\ DOMAIN e.coins = FirstCoins(2) \cup {new} /\ e.coins[new] = FreshCoin(change, ADenom)
        BY <1>2, <1>7
    <2>2. /\ e.coins[w].value = CoinValue /\ e.coins[w].currentAmount = 0 /\ e.coins[w].status = "Dormant"
          /\ e.coins[w].allocation = FirstPart
        BY <1>4, <1>10
    <2>3. /\ DOMAIN e.refreshGroups = {1} /\ e.refreshGroups[1].oldCoinPubs = <<w>>
          /\ e.refreshGroups[1].inputPerCoin = <<CoinValue - 1>>
          /\ DOMAIN e.refreshGroups[1].session = {1} /\ e.refreshGroups[1].session[1].output = change
        BY <1>2, <1>8, <1>9
    <2>. QED
        BY <1>2, <1>10, <2>1, <2>2, <2>3 DEF RefreshedFrom
<1>. QED
    BY <1>1, <1>11

(* The group has what was on the coin: the books of the recoup scene are in order. *)
LEMMA RefreshedTables ==
    ASSUME NEW S
    PROVE  LedgerTables(Refreshed(Withdrawal(2), WithdrawCoin(1, 1), 1), S)
<1>. PICK d : d = Withdrawal(2)
    OBVIOUS
<1>w. PICK w, new, change : /\ w = WithdrawCoin(1, 1) /\ new = RefreshCoin(1, 1)
                            /\ change = Sub(CoinValue - 1, RefreshFee)
    OBVIOUS
<1>. PICK e : e = Refreshed(d, w, 1)
    OBVIOUS
<1>. PICK cs : cs = <<w>>
    OBVIOUS
<1>0. 2 \in Nat /\ change \in Int
    BY <1>w, FeeAssumption DEF Sub
<1>1. /\ FirstTables(d, 2) /\ FirstWallet(d, 2) /\ NothingBought(d)
    BY <1>0, FirstWithdrawal, WithdrawalStarts
<1>2. RefreshedFrom(e, d, w, new, change)
    BY <1>1, <1>w, RefreshedFields
<1>3. PICK x : HalfWayTo(x, d, w)
    BY <1>1, <1>w, HalfWay
<1>4. Books(x) /\ SourcesOk(x) /\ TipsOk(x) /\ \A c \in DOMAIN x.coins : Balanced(x, c)
    BY <1>3, StartBooked DEF HalfWayTo
<1>5. CoinList(cs, DOMAIN x.coins) /\ Range(cs) = {w} /\ DOMAIN cs = {1} /\ cs[1] = w
    <2>1. DOMAIN cs = {1} /\ cs[1] = w
        BY ListFacts
    <2>2. ListedOnce(cs, 1) /\ \A i \in 1 .. 1 : cs[i] \in DOMAIN x.coins
        BY <1>3, <2>1 DEF ListedOnce, HalfWayTo
    <2>. QED
        BY <2>1, <2>2 DEF CoinList, Range
<1>6. PICK y : y = CreateRefreshGroup(x, cs)
    OBVIOUS
<1>7. Books(y) /\ BalancesKept(x, y) /\ AllocationsKept(x, y) /\ y.purchases = x.purchases
    <2>1. IsList(x.refreshGroups)
        BY <1>3, ListFacts DEF HalfWayTo, OnlyWithdrew
    <2>. QED
        BY <1>3, <1>4, <1>5, <1>6, <2>1, RefreshBooked DEF HalfWayTo
<1>8. /\ CoinsEmptied(x.coins, y.coins, cs) /\ y.recoupGroups = x.recoupGroups
      /\ y.refreshGroups = Append(<<>>, NewGroup(x, cs))
    BY <1>3, <1>6, RefreshGroupFields DEF HalfWayTo, OnlyWithdrew
<1>. PICK ng : ng = NewGroup(x, cs)
    OBVIOUS
<1>9. DOMAIN y.refreshGroups = {1} /\ y.refreshGroups[1] = ng
    <2>1. y.refreshGroups = <<ng>>
        BY <1>8
    <2>. QED
        BY <2>1, ListFacts
<1>10. ng.oldCoinPubs = cs /\ ng.inputPerCoin = <<CoinValue - 1>>
    <2>1. x.coins[w].currentAmount = CoinValue - 1
        BY <1>3 DEF HalfWayTo
    <2>2. ng.inputPerCoin = [i \in {1} |-> CoinValue - 1]
        BY <1>5, <2>1 DEF NewGroup
    <2>3. [i \in {1} |-> CoinValue - 1] = <<CoinValue - 1>>
        OBVIOUS
    <2>. QED
        BY <2>2, <2>3 DEF NewGroup
<1>11. OldCoins(e) = OldCoins(y) /\ InputAmounts(e) = InputAmounts(y)
    BY <1>2, <1>9, <1>10 DEF RefreshedFrom, OldCoins, InputAmounts
<1>12. /\ Bought(e) = {} /\ Bought(y) = {} /\ e.recoupGroups = <<>> /\ y.recoupGroups = <<>> /\ e.tips = <<>>
    BY <1>1, <1>2, <1>3, <1>7, <1>8 DEF RefreshedFrom, FirstWallet, HalfWayTo, OnlyWithdrew, Bought, NothingBought
<1>13. SameLists(y, e)
    BY <1>11, <1>12 DEF SameLists, RecoupLists, RecoupAmounts, FinishedLists, RefundTables
<1>14. /\ DOMAIN y.coins = FirstCoins(2) /\ DOMAIN e.coins = DOMAIN y.coins \cup {new} /\ new \notin DOMAIN y.coins
       /\ w \in DOMAIN y.coins /\ \A c \in DOMAIN y.coins : SourceOf(c) = "withdraw"
    <2>1. SourceOf(new) = "refresh" /\ \A c \in FirstCoins(2) : SourceOf(c) = "withdraw"
        BY <1>w, FirstCoinsFacts DEF SourceOf, RefreshCoin
    <2>2. DOMAIN y.coins = FirstCoins(2) /\ w \in FirstCoins(2)
        BY <1>3, <1>8 DEF CoinsEmptied, HalfWayTo
    <2>. QED
        BY <1>2, <2>1, <2>2 DEF RefreshedFrom
<1>15. CoinBooks(y)
    BY <1>7 DEF Books
<1>16. ASSUME NEW c \in DOMAIN y.coins
       PROVE  /\ e.coins[c].value = y.coins[c].value /\ OnCoin(e.coins[c]) = OnCoin(y.coins[c])
              /\ CoinBook(e.coins[c])
    <2>1. CASE c # w
        <3>1. e.coins[c] = x.coins[c] /\ y.coins[c] = x.coins[c]
            BY <1>2, <1>3, <1>5, <1>8, <1>14, <2>1 DEF RefreshedFrom, HalfWayTo, CoinsEmptied
        <3>. QED
            BY <1>15, <3>1 DEF CoinBooks
    <2>2. CASE c = w
        <3>1. /\ y.coins[w].value = CoinValue /\ y.coins[w].currentAmount = 0
              /\ y.coins[w].allocation = FirstPart
            BY <1>3, <1>5, <1>8 DEF HalfWayTo, CoinsEmptied, CoinEmptied
        <3>2. /\ e.coins[w].value = CoinValue /\ e.coins[w].currentAmount = 0
              /\ e.coins[w].allocation = FirstPart /\ e.coins[w].status = "Dormant"
            BY <1>2 DEF RefreshedFrom
        <3>3. CoinBook(y.coins[w])
            BY <1>14, <1>15 DEF CoinBooks
        <3>. QED
            BY <2>2, <3>1, <3>2, <3>3 DEF CoinBook, OnCoin, AllocatedOf
    <2>. QED
        BY <2>1, <2>2
<1>17. /\ CoinBook(e.coins[new]) /\ OnCoin(e.coins[new]) = e.coins[new].value
    <2>1. /\ e.coins[new].value = change /\ e.coins[new].currentAmount = change
          /\ e.coins[new].allocation = Absent
        BY <1>2 DEF RefreshedFrom, FreshCoin
    <2>. QED
        BY <1>0, <2>1 DEF CoinBook, OnCoin, AllocatedOf
<1>18. Books(e)
    <2>1. CoinBooks(e)
        <3>1. IsFiniteSet(DOMAIN y.coins \cup {new})
            BY <1>15, FS_AddElement DEF CoinBooks
        <3>. QED
            BY <1>14, <1>16, <1>17, <3>1 DEF CoinBooks
    <2>2. OutputsOk(e)
        BY <1>0, <1>2 DEF OutputsOk, RefreshedFrom
    <2>3. SchedulesOk(e)
        BY <1>12, ListFacts DEF SchedulesOk
    <2>4. <<new[2], new[3]>> \in KeysOf(OldCoins(y))
        <3>1. 1 \in DOMAIN OldCoins(y) /\ 1 \in DOMAIN OldCoins(y)[1]
            BY <1>5, <1>9, <1>10 DEF OldCoins
        <3>2. new[2] = 1 /\ new[3] = 1
            BY <1>w DEF RefreshCoin
        <3>. QED
            BY <3>1, <3>2, KeyFacts
    <2>. QED
        BY <1>7, <1>13, <1>14, <2>1, <2>2, <2>3, <2>4, BooksSame
<1>19. ASSUME NEW c \in DOMAIN y.coins PROVE Balanced(e, c)
    <2>1. Balanced(y, c)
        BY <1>4, <1>7 DEF BalancesKept
    <2>. QED
        BY <1>13, <1>16, <2>1, BalanceSame
<1>20. Balanced(e, new)
    <2>1. Melted(e, new) = 0 /\ InRecoups(e, new) = 0 /\ Back(e, new) = 0 /\ GivenBack(e, new) = 0
        BY <1>7, <1>13, <1>14, SameSums, NothingBooked
    <2>2. e.coins[new].value \in Int
        BY <1>17 DEF CoinBook
    <2>. QED
        BY <1>17, <2>1, <2>2 DEF Balanced
<1>21. SourcesOk(e)
    BY <1>14, <1>w DEF SourcesOk, SourceOf, RefreshCoin
<1>22. TipsOk(e)
    BY <1>12, ListFacts DEF TipsOk
<1>23. LedgerTables(e, S)
    BY <1>12, <1>14, <1>18, <1>19, <1>20, <1>21, <1>22 DEF LedgerTables, AllBalanced, PurchasesOk
<1>. QED
    BY <1>23, <1>w

(* What was deposited before belongs to no order. *)
LEMMA FirstDepositsElsewhere ==
    ASSUME NEW ds \in FirstDeposits, NEW p \in ds, NEW o
    PROVE  p.contract # AllocationId(o)
<1>1. SpentElsewhere.contract # AllocationId(o)
    BY DEF SpentElsewhere, AllocationId
<1>. DEFINE old == [contract |-> <<"deposit-group", 0>>, coin |-> WithdrawCoin(1, 1),
                    amount |-> 1, refunded |-> Nil]
<1>2. old.contract # AllocationId(o)
    BY DEF AllocationId
<1>3. FirstDeposits = CASE scene \in {"pay", "deposit"} -> {{}, {SpentElsewhere}}
                        [] scene = "recoup" -> {{old}}
                        [] OTHER -> {{}}
    BY DEF FirstDeposits
<1>. HIDE DEF old
<1>4. p = SpentElsewhere \/ p = old
    BY <1>3
<1>. QED
    BY <1>1, <1>2, <1>4

(* Every initial state satisfies the invariant. *)
LEMMA LedgerInit ==
    ASSUME Init
    PROVE  LedgerInv
<1>1. scene \in AllScenes /\ db = FirstDb /\ tasks = {}
    BY SceneAssumption DEF Init
<1>2. LedgerTables(db, raced)
    <2>0. 0 \in Nat /\ 2 \in Nat /\ Coins \in Nat
        BY CoinsAssumption
    <2>1. CASE scene \in {"withdraw", "tip"}
        <3>1. db = NewWallet
            BY <1>1, <2>1 DEF FirstDb
        <3>. QED
            BY <2>0, <3>1, NewWalletStarts, FirstWalletTables
    <2>2. CASE scene = "restore"
        <3>1. db = [NewWallet EXCEPT !.reserve.status = "QUERYING_STATUS"]
            BY <1>1, <2>2 DEF FirstDb
        <3>2. FirstWallet(db, 0) /\ NothingBought(db)
            BY <3>1, NewWalletStarts
        <3>. QED
            BY <2>0, <3>2, FirstWalletTables
    <2>3. CASE scene = "refund"
        <3>1. db = Confirmed(Withdrawal(2))
            BY <1>1, <2>3 DEF FirstDb
        <3>. QED
            BY <3>1, ConfirmedTables
    <2>4. CASE scene = "recoup"
        <3>1. db = Refreshed(Withdrawal(2), WithdrawCoin(1, 1), 1)
            BY <1>1, <2>4 DEF FirstDb
        <3>. QED
            BY <3>1, RefreshedTables
    <2>5. CASE scene \in {"shop", "refresh", "pay", "deposit"}
        <3>1. db = Withdrawal(2) \/ db = Withdrawal(Coins)
            BY <1>1, <2>5 DEF FirstDb
        <3>. QED
            BY <2>0, <3>1, WithdrawalStarts, FirstWalletTables
    <2>. QED
        BY <1>1, <2>1, <2>2, <2>3, <2>4, <2>5 DEF AllScenes
<1>3. DepositsOk(exchange.deposits, db, raced)
    <2>1. PICK ds \in FirstDeposits :
              exchange = [deposits |-> ds, melts |-> FirstMelts, recoups |-> {},
                          signed |-> FirstSigned, reserve |-> [credit |-> Money]]
        BY DEF Init
    <2>2. exchange.deposits = ds
        BY <2>1
    <2>. QED
        BY <2>2, FirstDepositsElsewhere DEF DepositsOk
<1>. QED
    BY <1>1, <1>2, <1>3 DEF LedgerInv

-----------------------------------------------------------------------------
(* Every step keeps the invariant: those of the pending operations, *)
LEMMA LedgerBackground ==
    ASSUME WalletInv, LedgerInv, Background
    PROVE  LedgerInv'
<1>1. CASE RefreshNext
    BY <1>1, LedgerExchangeSteps, LedgerCreateSession, LedgerMeltSteps, LedgerStoreRevealed DEF RefreshNext
<1>2. CASE PayNext
    <2>1. CASE \E o \in Orders : ProcessDownloadProposal(o) \/ ProcessPurchasePay(o)
        BY <2>1, LedgerRequests, LedgerPayRequests
    <2>2. ASSUME NEW t \in tasks,
                 \/ ClaimOrder(t) \/ FailProposalPermanently(t) \/ StoreContractTerms(t)
                 \/ SelectCoins(t) \/ RecordConfirmPay(t) \/ PostPay(t) \/ StoreFirstPaySuccess(t)
                 \/ PostPaid(t) \/ StorePayReplaySuccess(t) \/ FreezePay(t)
                 \/ HandleInsufficientFunds(t) \/ SelectCoinsAgain(t) \/ StoreReselection(t)
          PROVE  LedgerInv'
        BY <2>2, LedgerQuietSteps, LedgerSelections, LedgerRecordConfirmPay, LedgerPostPay, LedgerPaySteps,
           LedgerStoreReselection
    <2>. QED
        BY <1>2, <2>1, <2>2 DEF PayNext
<1>3. CASE RefundNext
    <2>1. CASE \E o \in Orders : ProcessPurchaseQueryRefund(o)
        BY <2>1, LedgerPayRequests
    <2>2. CASE \E t \in tasks : PollAutoRefund(t) \/ PostRefund(t) \/ PostAbort(t) \/ AcceptRefunds(t)
        BY <2>2, LedgerQuietSteps, LedgerPostRefund, LedgerPostAbort, LedgerAcceptRefunds
    <2>. QED
        BY <1>3, <2>1, <2>2 DEF RefundNext
<1>4. CASE ReserveNext
    <2>1. CASE ProcessReserve
        BY <2>1, LedgerRequests
    <2>2. CASE \E g \in DOMAIN db.withdrawalGroups : ProcessWithdrawGroup(g)
        BY <2>2, LedgerWithdrawSteps
    <2>3. ASSUME NEW t \in tasks,
                 \/ BankStatus(t) \/ StoreBankStatus(t) \/ PostRegistration(t) \/ StoreRegistration(t)
                 \/ QueryReserve(t) \/ StoreReserve(t) \/ AfterWithdraw(t)
                 \/ PlanchetGenerate(t) \/ PlanchetRequest(t) \/ StoreCoin(t) \/ FinishWithdraw(t)
          PROVE  LedgerInv'
        BY <2>3, LedgerQuietSteps, LedgerWithdrawSteps, LedgerStoreCoin
    <2>. QED
        BY <1>4, <2>1, <2>2, <2>3 DEF ReserveNext
<1>5. CASE RecoupNext
    BY <1>5, LedgerExchangeSteps, LedgerStoreRecoup DEF RecoupNext
<1>6. CASE DepositNext
    BY <1>6, LedgerDepositSteps, LedgerRecordDeposit, LedgerPostDeposit DEF DepositNext
<1>7. CASE TipNext
    BY <1>7, LedgerExchangeSteps, LedgerStoreTipCoins DEF TipNext
<1>8. CASE Crash
    BY <1>8, LedgerRequests
<1>. QED
    BY <1>1, <1>2, <1>3, <1>4, <1>5, <1>6, <1>7, <1>8 DEF Background

(* those of the user, the merchant and the bank, *)
LEMMA LedgerUser ==
    ASSUME WalletInv, LedgerInv, PayUser \/ ShopUser \/ RefundUser \/ ReserveUser \/ OtherUser
    PROVE  LedgerInv'
<1>0. 1 \in Orders /\ 2 \in Orders /\ 3 \in Orders
    BY ScenesAssumption
<1>1. CASE PayUser
    <2>1. CASE StartDownloadProposal(1)
        BY <1>0, <2>1, LedgerRequests
    <2>2. CASE ConfirmPay(1)
        BY <1>0, <2>2, LedgerPayRequests
    <2>. QED
        BY <1>1, <2>1, <2>2, LedgerAutoRefresh, LedgerRevokeDenomination DEF PayUser
<1>2. CASE ShopUser
    <2>1. PICK o \in {1, 2} : StartDownloadProposal(o) \/ RefuseProposal(o) \/ ConfirmPay(o)
        BY <1>2 DEF ShopUser
    <2>2. o \in Orders
        BY <1>0
    <2>. QED
        BY <2>1, <2>2, LedgerRequests, LedgerPayRequests
<1>3. CASE RefundUser
    <2>1. CASE GrantRefund(2)
        BY <1>0, <2>1, LedgerRequests
    <2>. QED
        BY <1>0, <1>3, <2>1, LedgerPurchaseRequests DEF RefundUser
<1>4. CASE ReserveUser
    <2>1. CASE CreateReserve \/ BankConfirms \/ BankAborts \/ ForceQueryReserve \/ TransferArrives(2 * CoinValue)
        BY <2>1, LedgerRequests
    <2>2. CASE \E g \in DOMAIN db.withdrawalGroups : DeleteWithdrawal(g)
        BY <2>2, LedgerWithdrawSteps
    <2>. QED
        BY <1>4, <2>1, <2>2 DEF ReserveUser
<1>5. CASE OtherUser
    <2>1. CASE StartDownloadProposal(1) \/ StartDownloadProposal(3) \/ PrepareTip
        BY <1>0, <2>1, LedgerRequests
    <2>2. CASE CreateDepositGroup(Price[1]) \/ ConfirmPay(1)
        BY <1>0, <2>2, LedgerPayRequests
    <2>3. CASE (\E t \in tasks : StoreTip(t, 1)) \/ (\E r \in DOMAIN db.tips : AcceptTip(r))
        BY <2>3, LedgerTipSteps
    <2>. QED
        BY <1>5, <2>1, <2>2, <2>3, LedgerRevokeDenomination, LedgerAutoRefresh DEF OtherUser
<1>. QED
    BY <1>1, <1>2, <1>3, <1>4, <1>5

(* and stutters. *)
LEMMA LedgerNext ==
    ASSUME WalletInv, LedgerInv, [Next]_vars
    PROVE  LedgerInv'
<1>1. CASE Next
    BY <1>1, LedgerBackground, LedgerUser DEF Next
<1>2. CASE UNCHANGED vars
    <2>1. SameMoney(db, db')
        BY <1>2, OtherTables DEF vars, LedgerInv, LedgerTables, SameTables
    <2>2. GoodTasks /\ raced \subseteq raced' /\ exchange'.deposits = exchange.deposits
        BY <1>2 DEF vars, GoodTasks
    <2>. QED
        BY <2>1, <2>2, GoodLedgerStep
<1>. QED
    BY <1>1, <1>2

(* Whatever happens, the books of the wallet are in order, and so is what its promises have read of *)
(* them: every table that operations/*.ts writes money to.                                        *)
THEOREM LedgerBooks == Spec => [](WalletInv /\ LedgerInv)
<1>1. Init => WalletInv /\ LedgerInv
    BY InitInv, LedgerInit
<1>2. WalletInv /\ LedgerInv /\ [Next]_vars => WalletInv' /\ LedgerInv'
    BY NextStep, LedgerNext
<1>. QED
    BY <1>1, <1>2, PTL DEF Spec

-----------------------------------------------------------------------------
(* The sums of the property are those of the books. *)
LEMMA SumsSame ==
    ASSUME Books(db), NEW c
    PROVE  /\ Refunds(c) = GivenBack(db, c)
           /\ SumFunction([k \in RecoupsTo(c) |-> Moved(k)]) = Back(db, c)
           /\ SumFunction([k \in Inputs(c) |-> Input(k)]) = Melted(db, c)
           /\ SumFunction([k \in {k \in Recoups : CoinOf(k) = c} |-> Moved(k)]) = InRecoups(db, c)
           /\ Allocated(c) = AllocatedOf(db.coins[c])
<1>1. UNION {SessionKeys(g) : g \in DOMAIN db.refreshGroups} = KeysOf(OldCoins(db))
    <2>1. /\ DOMAIN OldCoins(db) = DOMAIN db.refreshGroups
          /\ \A g \in DOMAIN db.refreshGroups : OldCoins(db)[g] = db.refreshGroups[g].oldCoinPubs
        BY DEF OldCoins
    <2>2. \A g \in DOMAIN db.refreshGroups : SessionKeys(g) = {<<g, i>> : i \in DOMAIN OldCoins(db)[g]}
        BY <2>1, Zenon DEF SessionKeys
    <2>3. \A k : k \in UNION {SessionKeys(g) : g \in DOMAIN db.refreshGroups} <=> \E g \in DOMAIN db.refreshGroups : k \in SessionKeys(g)
        OBVIOUS
    <2>4. \A k : k \in KeysOf(OldCoins(db)) <=> \E g \in DOMAIN OldCoins(db) : k \in {<<g, i>> : i \in DOMAIN OldCoins(db)[g]}
        BY DEF KeysOf
    <2>5. \A k : k \in UNION {SessionKeys(g) : g \in DOMAIN db.refreshGroups} <=> k \in KeysOf(OldCoins(db))
        BY <2>1, <2>2, <2>3, <2>4, Zenon
    <2>. QED
        BY <2>5
<1>2. Recoups = KeysOf(RecoupLists(db))
    <2>1. /\ DOMAIN RecoupLists(db) = DOMAIN db.recoupGroups
          /\ \A g \in DOMAIN db.recoupGroups : RecoupLists(db)[g] = db.recoupGroups[g].coinPubs
        BY DEF RecoupLists
    <2>2. \A g \in DOMAIN db.recoupGroups : RecoupKeys(g) = {<<g, i>> : i \in DOMAIN RecoupLists(db)[g]}
        BY <2>1, Zenon DEF RecoupKeys
    <2>3. \A k : k \in Recoups <=> \E g \in DOMAIN db.recoupGroups : k \in RecoupKeys(g)
        BY DEF Recoups
    <2>4. \A k : k \in KeysOf(RecoupLists(db)) <=> \E g \in DOMAIN RecoupLists(db) : k \in {<<g, i>> : i \in DOMAIN RecoupLists(db)[g]}
        BY DEF KeysOf
    <2>5. \A k : k \in Recoups <=> k \in KeysOf(RecoupLists(db))
        BY <2>1, <2>2, <2>3, <2>4, Zenon
    <2>. QED
        BY <2>5
<1>3. ASSUME NEW k \in KeysOf(OldCoins(db))
      PROVE  /\ AmountAt(k, OldCoins(db)) = db.refreshGroups[k[1]].oldCoinPubs[k[2]]
             /\ AmountAt(k, InputAmounts(db)) = Input(k)
    <2>1. k[1] \in DOMAIN db.refreshGroups
        BY KeyFacts DEF OldCoins
    <2>. QED
        BY <2>1 DEF AmountAt, OldCoins, InputAmounts, Input
<1>4. ASSUME NEW k \in KeysOf(RecoupLists(db))
      PROVE  /\ AmountAt(k, RecoupLists(db)) = CoinOf(k) /\ AmountAt(k, RecoupAmounts(db)) = Moved(k)
             /\ FinishedLists(db)[k[1]] = db.recoupGroups[k[1]].finishedPerCoin
    <2>1. k[1] \in DOMAIN db.recoupGroups
        BY KeyFacts DEF RecoupLists
    <2>. QED
        BY <2>1 DEF AmountAt, RecoupLists, RecoupAmounts, FinishedLists, CoinOf, Moved
<1>5. Inputs(c) = KeysFor(OldCoins(db), c)
    BY <1>1, <1>3 DEF Inputs, KeysFor
<1>6. SumFunction([k \in Inputs(c) |-> Input(k)]) = Melted(db, c)
    <2>1. [k \in Inputs(c) |-> Input(k)] = AmountsAt(KeysFor(OldCoins(db), c), InputAmounts(db))
        BY <1>3, <1>5 DEF AmountsAt, KeysFor
    <2>. QED
        BY <2>1 DEF Melted, Booked, Total
<1>7. {k \in Recoups : CoinOf(k) = c} = KeysFor(RecoupLists(db), c)
    BY <1>2, <1>4 DEF KeysFor
<1>8. SumFunction([k \in {k \in Recoups : CoinOf(k) = c} |-> Moved(k)]) = InRecoups(db, c)
    <2>1. [k \in {k \in Recoups : CoinOf(k) = c} |-> Moved(k)]
              = AmountsAt(KeysFor(RecoupLists(db), c), RecoupAmounts(db))
        BY <1>4, <1>7 DEF AmountsAt, KeysFor
    <2>. QED
        BY <2>1 DEF InRecoups, Booked, Total
<1>9. ASSUME NEW k \in KeysOf(RecoupLists(db))
      PROVE  k \in RecoupsTo(c) <=> k \in BackKeys(RecoupLists(db), FinishedLists(db), OldCoins(db), c)
    <2>. PICK r : r = CoinOf(k)
        OBVIOUS
    <2>1. ASSUME SourceOf(r) = "refresh" PROVE BackFrom(r, OldCoins(db)) = OldCoin(r)
        <3>1. r \in DOMAIN db.coins
            BY <1>4 DEF Books, RecoupBooks, ListsOk
        <3>2. <<r[2], r[3]>> \in KeysOf(OldCoins(db))
            BY <2>1, <3>1 DEF Books, RefreshBooks
        <3>3. PICK q : q = <<r[2], r[3]>>
            OBVIOUS
        <3>4. AmountAt(q, OldCoins(db)) = db.refreshGroups[q[1]].oldCoinPubs[q[2]]
            BY <1>3, <3>2, <3>3
        <3>. QED
            BY <3>3, <3>4 DEF BackFrom, OldCoin
    <2>. QED
        BY <1>2, <1>4, <2>1 DEF RecoupsTo, BackKeys, IsFinished
<1>10. RecoupsTo(c) = BackKeys(RecoupLists(db), FinishedLists(db), OldCoins(db), c)
    BY <1>2, <1>9 DEF RecoupsTo, BackKeys
<1>11. SumFunction([k \in RecoupsTo(c) |-> Moved(k)]) = Back(db, c)
    <2>1. [k \in RecoupsTo(c) |-> Moved(k)]
              = AmountsAt(BackKeys(RecoupLists(db), FinishedLists(db), OldCoins(db), c), RecoupAmounts(db))
        BY <1>4, <1>10 DEF AmountsAt, BackKeys
    <2>. QED
        BY <2>1 DEF Back, Total
<1>12. Purchases = Bought(db)
    BY DEF Purchases, Bought, HasPurchase
<1>13. RefundsOf(c) = RefundsFor(RefundTables(db), c)
    BY <1>12 DEF RefundsOf, RefundKeys, RefundsFor, KeysOf, RefundTables
<1>14. ASSUME NEW q \in RefundsFor(RefundTables(db), c)
       PROVE  AmountAt(q, CreditsOf(RefundTables(db))) = db.purchases[q[1]].refunds[q[2]].credit
    <2>1. q[1] \in DOMAIN RefundTables(db) /\ q[2] \in DOMAIN RefundTables(db)[q[1]]
        BY KeyFacts DEF RefundsFor
    <2>2. RefundTables(db)[q[1]] = db.purchases[q[1]].refunds
        BY <2>1 DEF RefundTables
    <2>. QED
        BY <2>1, <2>2 DEF AmountAt, CreditsOf
<1>15. Refunds(c) = GivenBack(db, c)
    <2>1. [q \in RefundsOf(c) |-> db.purchases[q[1]].refunds[q[2]].credit]
              = AmountsAt(RefundsFor(RefundTables(db), c), CreditsOf(RefundTables(db)))
        BY <1>13, <1>14 DEF AmountsAt
    <2>. QED
        BY <2>1 DEF Refunds, GivenBack, Total
<1>16. Allocated(c) = AllocatedOf(db.coins[c])
    BY DEF Allocated, AllocatedOf
<1>. QED
    BY <1>6, <1>8, <1>11, <1>15, <1>16

(* The balance of a coin is what the property says of it. *)
LEMMA BooksSayConserved ==
    ASSUME LedgerInv
    PROVE  LedgerConserved
<1>1. ASSUME NEW c \in DOMAIN db.coins, Sound(c)
      PROVE  db.coins[c].value + Refunds(c) + SumFunction([k \in RecoupsTo(c) |-> Moved(k)])
               = db.coins[c].currentAmount + Allocated(c) + SumFunction([k \in Inputs(c) |-> Input(k)])
                 + SumFunction([k \in {k \in Recoups : CoinOf(k) = c} |-> Moved(k)])
    <2>1. Clean(db, c, raced)
        BY <1>1 DEF Sound, Contracts, Clean
    <2>2. Balanced(db, c)
        BY <2>1 DEF LedgerInv, LedgerTables, AllBalanced
    <2>3. Books(db)
        BY DEF LedgerInv, LedgerTables
    <2>4. /\ db.coins[c].value + Refunds(c) + SumFunction([k \in RecoupsTo(c) |-> Moved(k)])
               = db.coins[c].value + GivenBack(db, c) + Back(db, c)
          /\ db.coins[c].currentAmount + Allocated(c) = OnCoin(db.coins[c])
        BY <2>3, SumsSame DEF OnCoin
    <2>. QED
        BY <2>2, <2>3, <2>4, SumsSame DEF Balanced
<1>. QED
    BY <1>1 DEF LedgerConserved

(* Whatever the coins, amounts, promises and crashes: the value of a coin that no race has hit, with *)
(* what refunds and recoups have put back, is on the coin, allocated to one payment, melted or in a  *)
(* recoup. No transaction of operations/*.ts loses money or makes it.                             *)
THEOREM Conserved == Spec => []LedgerConserved
<1>1. LedgerInv => LedgerConserved
    BY BooksSayConserved
<1>. QED
    BY <1>1, LedgerBooks, PTL
=============================================================================
