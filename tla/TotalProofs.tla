------------------------------ MODULE TotalProofs ------------------------------
(***************************************************************************)
(* What the sums of Totals are, for every function of integers with a      *)
(* finite domain.  Total is a recursion over the subsets of the domain, so *)
(* each fact is an induction over finite sets.  It is done by taking a     *)
(* smallest set of which the fact would fail: that there is one is         *)
(* WFMin of the library, which takes a set and not a predicate.            *)
(***************************************************************************)
EXTENDS Totals, Functions, FiniteSetTheorems, WellFoundedInduction, TLAPS

----------------------------------------------------------------------------
\* A nonempty family of subsets of a finite set has a minimal member.
LEMMA SmallestSet ==
    ASSUME NEW S, IsFiniteSet(S), NEW C \in SUBSET SUBSET S, C # {}
    PROVE  \E T \in C : \A U \in C : U \subseteq T => U = T
<1>1. IsWellFoundedOn(StrictSubsetOrdering(S), FiniteSubsetsOf(S))
  BY FS_StrictSubsetOrderingWellFounded
<1>2. C \subseteq FiniteSubsetsOf(S)
  BY FS_Subset DEF FiniteSubsetsOf
<1>3. PICK T \in C : \A U \in C : <<U, T>> \notin StrictSubsetOrdering(S)
  BY <1>1, <1>2, WFMin
<1> QED
  BY <1>3 DEF StrictSubsetOrdering

\* A nonempty set of natural numbers has a least one.
LEMMA LeastNumber ==
    ASSUME NEW N \in SUBSET Nat, N # {}
    PROVE  \E n \in N : \A k \in N : n <= k
<1> DEFINE Upto == {0 .. n : n \in N}
<1>1. \A I \in Upto : I \in FiniteSubsetsOf(Nat)
  <2>1. SUFFICES ASSUME NEW n \in N PROVE 0 .. n \in FiniteSubsetsOf(Nat)
    OBVIOUS
  <2>2. IsFiniteSet(0 .. n) /\ 0 .. n \subseteq Nat
    BY FS_Interval
  <2> QED
    BY <2>2 DEF FiniteSubsetsOf
<1>2. IsWellFoundedOn(StrictSubsetOrdering(Nat), FiniteSubsetsOf(Nat))
  BY FS_StrictSubsetOrderingWellFounded
<1>3. PICK I \in Upto : \A J \in Upto : <<J, I>> \notin StrictSubsetOrdering(Nat)
  <2>1. Upto # {} /\ Upto \subseteq FiniteSubsetsOf(Nat)
    BY <1>1
  <2> HIDE DEF Upto
  <2> QED
    BY <2>1, <1>2, WFMin
<1>4. PICK n \in N : I = 0 .. n
  OBVIOUS
<1>5. ASSUME NEW k \in N, k < n PROVE FALSE
  <2>1. 0 .. k \subseteq 0 .. n /\ n \in 0 .. n /\ n \notin 0 .. k
    BY <1>5
  <2>2. <<0 .. k, 0 .. n>> \in StrictSubsetOrdering(Nat)
    BY <2>1 DEF StrictSubsetOrdering
  <2> QED
    BY <2>2, <1>3, <1>4
<1> QED
  BY <1>5

\* Induction over a finite set: a family of its subsets that has the empty set,
\* and with a set that set with one element more, has the set.
LEMMA SetInduction ==
    ASSUME NEW S, IsFiniteSet(S), NEW C, {} \in C,
           \A T \in SUBSET S : \A x \in S \ T : T \in C => T \cup {x} \in C
    PROVE  S \in C
<1> DEFINE Bad == {T \in SUBSET S : T \notin C}
<1>1. ASSUME Bad # {} PROVE FALSE
  <2>1. PICK T \in Bad : \A U \in Bad : U \subseteq T => U = T
    <3>1. Bad \in SUBSET SUBSET S
      OBVIOUS
    <3> HIDE DEF Bad
    <3> QED
      BY <1>1, <3>1, SmallestSet
  <2>2. PICK x \in T : TRUE
    OBVIOUS
  <2> DEFINE U == T \ {x}
  <2>3. U \in SUBSET S /\ x \in S \ U /\ U \cup {x} = T /\ U \in C
    BY <2>1, <2>2
  <2> HIDE DEF U
  <2>4. U \cup {x} \in C
    BY <2>3
  <2> QED
    BY <2>3, <2>4
<1> QED
  BY <1>1

\* Induction over the natural numbers, for a set of them.
LEMMA NumberInduction ==
    ASSUME NEW C, 0 \in C, \A n \in Nat : n \in C => n + 1 \in C
    PROVE  Nat \subseteq C
<1> DEFINE Bad == {n \in Nat : n \notin C}
<1>1. ASSUME Bad # {} PROVE FALSE
  <2>1. PICK n \in Bad : \A k \in Bad : n <= k
    <3>1. Bad \in SUBSET Nat
      OBVIOUS
    <3> HIDE DEF Bad
    <3> QED
      BY <1>1, <3>1, LeastNumber
  <2>2. n # 0 /\ n - 1 \in Nat /\ (n - 1) + 1 = n
    OBVIOUS
  <2>3. n - 1 \in C
    BY <2>1, <2>2
  <2>4. (n - 1) + 1 \in C
    BY <2>2, <2>3
  <2> QED
    BY <2>2, <2>4
<1> QED
  BY <1>1

\* A nonempty finite set of integers has a greatest member.
LEMMA GreatestNumber ==
    ASSUME NEW S \in SUBSET Int, IsFiniteSet(S), S # {}
    PROVE  \E m \in S : \A k \in S : k <= m
<1> DEFINE Good(T) == T = {} \/ \E m \in T : \A k \in T : k <= m
           C == {T \in SUBSET S : Good(T)}
<1>1. {} \in C
  OBVIOUS
<1>2. \A T \in SUBSET S : \A x \in S \ T : T \in C => T \cup {x} \in C
  <2>1. SUFFICES ASSUME NEW T \in SUBSET S, NEW x \in S \ T, Good(T) PROVE Good(T \cup {x})
    OBVIOUS
  <2>2. CASE T = {}
    BY <2>2
  <2>3. CASE T # {}
    <3>1. PICK m \in T : \A k \in T : k <= m
      BY <2>1, <2>3
    <3>2. CASE x <= m
      BY <3>1, <3>2
    <3>3. CASE ~(x <= m)
      <4>1. \A k \in T \cup {x} : k <= x
        BY <3>1, <3>3
      <4> QED
        BY <4>1
    <3> QED
      BY <3>2, <3>3
  <2> QED
    BY <2>2, <2>3
<1>3. S \in C
  <2> HIDE DEF C
  <2> QED
    BY <1>1, <1>2, SetInduction
<1> QED
  BY <1>3

----------------------------------------------------------------------------
(***************************************************************************)
(* The recursion has a solution, and its value on a set depends only on    *)
(* the function there.                                                     *)
(***************************************************************************)
Picked(S) == CHOOSE x \in S : TRUE

Recursion(f, D, it) ==
    it = [S \in SUBSET D |->
            IF S = {} THEN 0 ELSE f[Picked(S)] + it[S \ {Picked(S)}]]

LEMMA PickedIn == ASSUME NEW S, S # {} PROVE Picked(S) \in S
  BY DEF Picked

LEMMA TotalIsRecursion ==
    ASSUME NEW f
    PROVE  Total(f) = (CHOOSE it : Recursion(f, DOMAIN f, it))[DOMAIN f]
  BY DEF Total, Recursion, Picked

Solves(f, D, it) ==
    \A S \in SUBSET D :
        it[S] = IF S = {} THEN 0 ELSE f[Picked(S)] + it[S \ {Picked(S)}]

LEMMA RecursionSolves ==
    ASSUME NEW f, NEW D, NEW it, Recursion(f, D, it)
    PROVE  Solves(f, D, it)
<1> DEFINE e(S) == IF S = {} THEN 0 ELSE f[Picked(S)] + it[S \ {Picked(S)}]
<1>1. it = [S \in SUBSET D |-> e(S)]
  BY DEF Recursion
<1> HIDE DEF e
<1>2. \A S \in SUBSET D : it[S] = e(S)
  BY <1>1
<1> QED
  BY <1>2 DEF e, Solves

LEMMA RecursionsAgree ==
    ASSUME NEW f, NEW D, NEW i, Recursion(f, D, i),
           NEW g, NEW E, NEW j, Recursion(g, E, j),
           NEW S, IsFiniteSet(S), S \subseteq D, S \subseteq E,
           \A x \in S : f[x] = g[x]
    PROVE  i[S] = j[S]
<1>i. Solves(f, D, i)
  BY RecursionSolves
<1>j. Solves(g, E, j)
  BY RecursionSolves
<1> DEFINE C == {T \in SUBSET S : i[T] # j[T]}
<1> SUFFICES ASSUME C # {} PROVE FALSE
  OBVIOUS
<1>1. PICK T \in C : \A U \in C : U \subseteq T => U = T
  <2>1. C \in SUBSET SUBSET S
    OBVIOUS
  <2> HIDE DEF C
  <2> QED
    BY <2>1, SmallestSet
<1>2. T \in SUBSET D /\ T \in SUBSET E /\ T \in SUBSET S
  OBVIOUS
<1>3. CASE T = {}
  BY <1>2, <1>3, <1>i, <1>j DEF Solves
<1>4. CASE T # {}
  <2> DEFINE x == Picked(T)
  <2>1. x \in T
    BY <1>4, PickedIn
  <2>2. i[T] = f[x] + i[T \ {x}]
    BY <1>2, <1>4, <1>i DEF Solves
  <2>4. j[T] = g[x] + j[T \ {x}]
    BY <1>2, <1>4, <1>j DEF Solves
  <2>3. i[T \ {x}] = j[T \ {x}]
    BY <1>1, <1>2, <2>1
  <2> QED
    BY <1>2, <2>1, <2>2, <2>4, <2>3
<1> QED
  BY <1>3, <1>4

LEMMA RecursionExists ==
    ASSUME NEW f, NEW D, IsFiniteSet(D)
    PROVE  \E it : Recursion(f, D, it)
<1> DEFINE C == {T \in SUBSET D : ~\E it : Recursion(f, T, it)}
<1> SUFFICES ASSUME C # {} PROVE FALSE
  <2>1. D \notin C => \E it : Recursion(f, D, it)
    OBVIOUS
  <2> QED
    BY <2>1
<1>1. PICK T \in C : \A U \in C : U \subseteq T => U = T
  <2>1. C \in SUBSET SUBSET D
    OBVIOUS
  <2> HIDE DEF C
  <2> QED
    BY <2>1, SmallestSet
<1> DEFINE it(U) == CHOOSE it : Recursion(f, U, it)
           sum == [U \in SUBSET T |->
                     IF U = {} THEN 0
                     ELSE f[Picked(U)] + it(U \ {Picked(U)})[U \ {Picked(U)}]]
<1>2. \A U : U \subseteq T /\ U # T => Recursion(f, U, it(U))
  <2>1. SUFFICES ASSUME NEW U, U \subseteq T, U # T PROVE \E i : Recursion(f, U, i)
    OBVIOUS
  <2>2. U \in SUBSET D /\ U \notin C
    BY <1>1, <2>1
  <2> QED
    BY <2>2
<1>3. \A U : U # {} => Picked(U) \in U
  BY PickedIn
<1>4. \A U \in SUBSET T : U # T => sum[U] = it(U)[U]
  <2>1. SUFFICES ASSUME NEW U \in SUBSET T, U # T PROVE sum[U] = it(U)[U]
    OBVIOUS
  <2>2. it(U)[U] = IF U = {} THEN 0 ELSE f[Picked(U)] + it(U)[U \ {Picked(U)}]
    <3> HIDE DEF it
    <3> QED
      BY <1>2, <2>1, RecursionSolves DEF Solves
  <2>3. CASE U = {}
    BY <2>2, <2>3
  <2>4. CASE U # {}
    <3> DEFINE V == U \ {Picked(U)}
    <3>1. V \subseteq U /\ V \subseteq T /\ V # T /\ IsFiniteSet(V)
      BY <1>3, <2>4, FS_Subset
    <3>2. it(U)[V] = it(V)[V]
      <4> HIDE DEF it, V
      <4> QED
        BY <1>2, <2>1, <3>1, RecursionsAgree
    <3>3. sum[U] = f[Picked(U)] + it(V)[V]
      BY <2>4
    <3> QED
      BY <2>2, <2>4, <3>2, <3>3
  <2> QED
    BY <2>3, <2>4
<1>5. sum = [U \in SUBSET T |-> IF U = {} THEN 0
                                ELSE f[Picked(U)] + sum[U \ {Picked(U)}]]
  <2>1. ASSUME NEW U \in SUBSET T, U # {}
        PROVE  it(U \ {Picked(U)})[U \ {Picked(U)}] = sum[U \ {Picked(U)}]
    <3>1. U \ {Picked(U)} \in SUBSET T /\ U \ {Picked(U)} # T
      BY <1>3, <2>1
    <3> HIDE DEF sum, it
    <3> QED
      BY <1>4, <3>1
  <2> DEFINE a(U) == IF U = {} THEN 0
                     ELSE f[Picked(U)] + it(U \ {Picked(U)})[U \ {Picked(U)}]
             b(U) == IF U = {} THEN 0 ELSE f[Picked(U)] + sum[U \ {Picked(U)}]
  <2>2. \A U \in SUBSET T : a(U) = b(U)
    <3> HIDE DEF sum, it
    <3> QED
      BY <2>1
  <2>3. sum = [U \in SUBSET T |-> a(U)]
    OBVIOUS
  <2>4. sum = [U \in SUBSET T |-> b(U)]
    <3> HIDE DEF sum, a, b
    <3> QED
      BY <2>2, <2>3
  <2> QED
    BY <2>4
<1>6. Recursion(f, T, sum)
  <2> HIDE DEF sum
  <2> QED
    BY <1>5 DEF Recursion
<1> QED
  BY <1>6

----------------------------------------------------------------------------
(***************************************************************************)
(* The facts a proof about a sum needs.                                    *)
(***************************************************************************)
\* The sum of nothing.
LEMMA TotalEmpty == ASSUME NEW f, DOMAIN f = {} PROVE Total(f) = 0
<1>1. PICK it : Recursion(f, {}, it)
  BY RecursionExists, FS_EmptySet
<1> DEFINE chosen == CHOOSE i : Recursion(f, {}, i)
<1>2. Recursion(f, {}, chosen)
  BY <1>1
<1>3. Solves(f, {}, chosen)
  <2> HIDE DEF chosen
  <2> QED
    BY <1>2, RecursionSolves
<1>4. chosen[{}] = 0
  BY <1>3 DEF Solves
<1> QED
  BY <1>4, TotalIsRecursion

\* One step of the recursion.
LEMMA TotalNext ==
    ASSUME NEW f, NEW S, S = DOMAIN f, IsFiniteSet(S), S # {}
    PROVE  /\ Picked(S) \in S
           /\ Total(f) = f[Picked(S)] + Total(Restrict(f, S \ {Picked(S)}))
<1> DEFINE p == Picked(S)
           R == S \ {p}
           g == Restrict(f, R)
           i == CHOOSE it : Recursion(f, S, it)
           j == CHOOSE it : Recursion(g, R, it)
<1>1. p \in S /\ R \subseteq S /\ IsFiniteSet(R)
  BY PickedIn, FS_Subset
<1>2. Recursion(f, S, i) /\ Recursion(g, R, j)
  <2> HIDE DEF g, R
  <2> QED
    BY <1>1, RecursionExists
<1>3. Total(f) = i[S]
  BY TotalIsRecursion
<1>4. DOMAIN g = R /\ \A x \in R : g[x] = f[x]
  BY DEF Restrict
<1>5. Total(g) = j[R]
  BY <1>4, TotalIsRecursion
<1>6. i[R] = j[R]
  <2> HIDE DEF i, j, g, R
  <2> QED
    BY <1>1, <1>2, <1>4, RecursionsAgree
<1>7. i[S] = f[p] + i[R]
  <2>1. Solves(f, S, i)
    <3> HIDE DEF i
    <3> QED
      BY <1>2, RecursionSolves
  <2> QED
    BY <2>1 DEF Solves
<1> QED
  BY <1>1, <1>3, <1>5, <1>6, <1>7

\* A sum of integers is one.
LEMMA TotalInt ==
    ASSUME NEW S, IsFiniteSet(S), NEW f \in [S -> Int]
    PROVE  Total(f) \in Int
<1> DEFINE C == {T \in SUBSET S : Total(Restrict(f, T)) \notin Int}
<1>1. ASSUME C # {} PROVE FALSE
  <2>1. PICK T \in C : \A U \in C : U \subseteq T => U = T
    <3>1. C \in SUBSET SUBSET S
      OBVIOUS
    <3> HIDE DEF C
    <3> QED
      BY <1>1, <3>1, SmallestSet
  <2> DEFINE g == Restrict(f, T)
             R == T \ {Picked(T)}
  <2>2. DOMAIN g = T /\ (\A x \in T : g[x] \in Int) /\ IsFiniteSet(T)
    BY FS_Subset DEF Restrict
  <2>3. T # {}
    BY <2>2, TotalEmpty
  <2>4. Picked(T) \in T /\ Total(g) = g[Picked(T)] + Total(Restrict(g, R))
    <3> HIDE DEF g
    <3> QED
      BY <2>2, <2>3, TotalNext
  <2>5. Restrict(g, R) = Restrict(f, R)
    BY DEF Restrict
  <2>6. Total(Restrict(f, R)) \in Int
    BY <2>1, <2>4
  <2> QED
    BY <2>2, <2>4, <2>5, <2>6
<1>2. Restrict(f, S) = f
  BY DEF Restrict
<1> QED
  BY <1>1, <1>2

\* Any element may be taken out first.
LEMMA TotalTake ==
    ASSUME NEW S, IsFiniteSet(S), NEW f \in [S -> Int], NEW x \in S
    PROVE  Total(f) = f[x] + Total(Restrict(f, S \ {x}))
<1> DEFINE Without(T, y) == Total(Restrict(f, T \ {y}))
           C == {T \in SUBSET S : \E y \in T : Total(Restrict(f, T)) # f[y] + Without(T, y)}
<1>a. \A T \in SUBSET S : Total(Restrict(f, T)) \in Int
  <2>1. SUFFICES ASSUME NEW T \in SUBSET S PROVE Total(Restrict(f, T)) \in Int
    OBVIOUS
  <2>2. IsFiniteSet(T) /\ Restrict(f, T) \in [T -> Int]
    BY FS_Subset DEF Restrict
  <2> QED
    BY <2>2, TotalInt
<1>b. \A T \in SUBSET S : T # {} => Picked(T) \in T /\ Total(Restrict(f, T)) = f[Picked(T)] + Without(T, Picked(T))
  <2>1. SUFFICES ASSUME NEW T \in SUBSET S, T # {}
                 PROVE  Picked(T) \in T /\ Total(Restrict(f, T)) = f[Picked(T)] + Without(T, Picked(T))
    OBVIOUS
  <2> DEFINE g == Restrict(f, T)
  <2>2. T = DOMAIN g /\ IsFiniteSet(T)
    BY FS_Subset DEF Restrict
  <2>3. Picked(T) \in T /\ Total(g) = g[Picked(T)] + Total(Restrict(g, T \ {Picked(T)}))
    <3> HIDE DEF g
    <3> QED
      BY <2>1, <2>2, TotalNext
  <2>4. g[Picked(T)] = f[Picked(T)] /\ Restrict(g, T \ {Picked(T)}) = Restrict(f, T \ {Picked(T)})
    BY <2>3 DEF Restrict
  <2> QED
    BY <2>3, <2>4
<1>1. ASSUME C # {} PROVE FALSE
  <2>1. PICK T \in C : \A U \in C : U \subseteq T => U = T
    <3>1. C \in SUBSET SUBSET S
      OBVIOUS
    <3> HIDE DEF C
    <3> QED
      BY <1>1, <3>1, SmallestSet
  <2>2. PICK y \in T : Total(Restrict(f, T)) # f[y] + Without(T, y)
    OBVIOUS
  <2> DEFINE p == Picked(T)
             R == T \ {p}
             Q == T \ {y}
  <2>3. p \in T /\ Total(Restrict(f, T)) = f[p] + Total(Restrict(f, R))
    BY <1>b, <2>2
  <2>4. p # y
    BY <2>2, <2>3
  <2>5. \A U \in SUBSET T : U # T => \A z \in U : Total(Restrict(f, U)) = f[z] + Without(U, z)
    <3>1. SUFFICES ASSUME NEW U \in SUBSET T, U # T PROVE U \notin C
      BY <2>1
    <3> QED
      BY <2>1, <3>1
  <2>6. Total(Restrict(f, R)) = f[y] + Total(Restrict(f, R \ {y}))
    BY <2>3, <2>4, <2>5
  <2>7. Total(Restrict(f, Q)) = f[p] + Total(Restrict(f, Q \ {p}))
    BY <2>3, <2>4, <2>5
  <2>8. Q \ {p} = R \ {y}
    OBVIOUS
  <2>9. f[p] \in Int /\ f[y] \in Int /\ Total(Restrict(f, R \ {y})) \in Int
    BY <1>a, <2>3
  <2> QED
    BY <2>2, <2>3, <2>6, <2>7, <2>8, <2>9
<1>2. Restrict(f, S) = f
  BY DEF Restrict
<1> QED
  BY <1>1, <1>2

\* What one element more adds.
LEMMA TotalAdd ==
    ASSUME NEW S, IsFiniteSet(S), NEW f \in [S -> Int],
           NEW T \in SUBSET S, NEW x \in S \ T
    PROVE  /\ Total(Restrict(f, T)) \in Int
           /\ Total(Restrict(f, T \cup {x})) = Total(Restrict(f, T)) + f[x]
<1> DEFINE U == T \cup {x}
           g == Restrict(f, U)
<1>1. IsFiniteSet(T) /\ IsFiniteSet(U) /\ x \in U
  BY FS_Subset
<1>2. Restrict(f, T) \in [T -> Int] /\ g \in [U -> Int] /\ g[x] = f[x]
  BY DEF Restrict
<1>3. Restrict(g, U \ {x}) = Restrict(f, T)
  <2>1. U \ {x} = T
    OBVIOUS
  <2> QED
    BY <2>1 DEF Restrict
<1>4. Total(g) = g[x] + Total(Restrict(g, U \ {x}))
  <2> HIDE DEF g, U
  <2> QED
    BY <1>1, <1>2, TotalTake
<1>5. Total(Restrict(f, T)) \in Int
  BY <1>1, <1>2, TotalInt
<1> QED
  BY <1>2, <1>3, <1>4, <1>5

LEMMA RestrictToAll == ASSUME NEW S, NEW R, NEW f \in [S -> R] PROVE Restrict(f, S) = f
  BY DEF Restrict

LEMMA TotalOfNone == ASSUME NEW f PROVE Total(Restrict(f, {})) = 0
<1>1. DOMAIN Restrict(f, {}) = {}
  BY DEF Restrict
<1> QED
  BY <1>1, TotalEmpty

\* A sum of sums, term by term.
LEMMA TotalPlus ==
    ASSUME NEW S, IsFiniteSet(S), NEW f \in [S -> Int], NEW g \in [S -> Int]
    PROVE  Total([x \in S |-> f[x] + g[x]]) = Total(f) + Total(g)
<1> DEFINE h == [x \in S |-> f[x] + g[x]]
           Good(T) == Total(Restrict(h, T)) = Total(Restrict(f, T)) + Total(Restrict(g, T))
           C == {T \in SUBSET S : Good(T)}
<1>0. h \in [S -> Int] /\ \A x \in S : h[x] = f[x] + g[x]
  OBVIOUS
<1> HIDE DEF h
<1>1. {} \in C
  <2>1. Good({})
    BY TotalOfNone
  <2> QED
    BY <2>1
<1>2. \A T \in SUBSET S : \A x \in S \ T : T \in C => T \cup {x} \in C
  <2>1. SUFFICES ASSUME NEW T \in SUBSET S, NEW x \in S \ T, Good(T) PROVE Good(T \cup {x})
    OBVIOUS
  <2>2. /\ Total(Restrict(h, T \cup {x})) = Total(Restrict(h, T)) + h[x]
        /\ Total(Restrict(f, T)) \in Int
        /\ Total(Restrict(f, T \cup {x})) = Total(Restrict(f, T)) + f[x]
        /\ Total(Restrict(g, T)) \in Int
        /\ Total(Restrict(g, T \cup {x})) = Total(Restrict(g, T)) + g[x]
    BY <1>0, TotalAdd
  <2>3. f[x] \in Int /\ g[x] \in Int /\ h[x] = f[x] + g[x]
    BY <1>0
  <2> QED
    BY <2>1, <2>2, <2>3
<1>3. S \in C
  <2> HIDE DEF C
  <2> QED
    BY <1>1, <1>2, SetInduction
<1> QED
  BY <1>0, <1>3, RestrictToAll DEF h

\* A common factor.
LEMMA TotalTimes ==
    ASSUME NEW S, IsFiniteSet(S), NEW f \in [S -> Int], NEW c \in Int
    PROVE  Total([x \in S |-> c * f[x]]) = c * Total(f)
<1> DEFINE h == [x \in S |-> c * f[x]]
           Good(T) == Total(Restrict(h, T)) = c * Total(Restrict(f, T))
           C == {T \in SUBSET S : Good(T)}
<1>0. h \in [S -> Int] /\ \A x \in S : h[x] = c * f[x]
  OBVIOUS
<1> HIDE DEF h
<1>1. {} \in C
  <2>1. Good({})
    BY TotalOfNone
  <2> QED
    BY <2>1
<1>2. \A T \in SUBSET S : \A x \in S \ T : T \in C => T \cup {x} \in C
  <2>1. SUFFICES ASSUME NEW T \in SUBSET S, NEW x \in S \ T, Good(T) PROVE Good(T \cup {x})
    OBVIOUS
  <2>2. /\ Total(Restrict(h, T \cup {x})) = Total(Restrict(h, T)) + h[x]
        /\ Total(Restrict(f, T)) \in Int
        /\ Total(Restrict(f, T \cup {x})) = Total(Restrict(f, T)) + f[x]
    BY <1>0, TotalAdd
  <2>3. f[x] \in Int /\ h[x] = c * f[x]
    BY <1>0
  <2>4. \A a, b \in Int : c * a + c * b = c * (a + b)
    OBVIOUS
  <2> QED
    BY <2>1, <2>2, <2>3, <2>4
<1>3. S \in C
  <2> HIDE DEF C
  <2> QED
    BY <1>1, <1>2, SetInduction
<1> QED
  BY <1>0, <1>3, RestrictToAll DEF h

\* A sum in two parts.
LEMMA TotalParts ==
    ASSUME NEW S, IsFiniteSet(S), NEW f \in [S -> Int], NEW A \in SUBSET S
    PROVE  Total(f) = Total(Restrict(f, A)) + Total(Restrict(f, S \ A))
<1> DEFINE Good(T) == Total(Restrict(f, A \cup T)) = Total(Restrict(f, A)) + Total(Restrict(f, T))
           B == S \ A
           C == {T \in SUBSET B : Good(T)}
<1>0. IsFiniteSet(A) /\ IsFiniteSet(B) /\ A \cup B = S /\ A \cup {} = A
  BY FS_Subset
<1>a. Total(Restrict(f, A)) \in Int
  <2>1. Restrict(f, A) \in [A -> Int]
    BY DEF Restrict
  <2> QED
    BY <1>0, <2>1, TotalInt
<1>1. {} \in C
  <2>1. Good({})
    BY <1>0, <1>a, TotalOfNone
  <2> QED
    BY <2>1
<1>2. \A T \in SUBSET B : \A x \in B \ T : T \in C => T \cup {x} \in C
  <2>1. SUFFICES ASSUME NEW T \in SUBSET B, NEW x \in B \ T, Good(T) PROVE Good(T \cup {x})
    OBVIOUS
  <2>2. /\ Total(Restrict(f, T)) \in Int
        /\ Total(Restrict(f, T \cup {x})) = Total(Restrict(f, T)) + f[x]
    <3>1. T \in SUBSET S /\ x \in S \ T
      OBVIOUS
    <3> HIDE DEF B
    <3> QED
      BY <3>1, TotalAdd
  <2>3. Total(Restrict(f, (A \cup T) \cup {x})) = Total(Restrict(f, A \cup T)) + f[x]
    <3>1. A \cup T \in SUBSET S /\ x \in S \ (A \cup T)
      OBVIOUS
    <3> HIDE DEF B
    <3> QED
      BY <3>1, TotalAdd
  <2>4. (A \cup T) \cup {x} = A \cup (T \cup {x})
    OBVIOUS
  <2>5. f[x] \in Int /\ Total(Restrict(f, A \cup (T \cup {x}))) = Total(Restrict(f, A \cup T)) + f[x]
    BY <2>3, <2>4
  <2> HIDE DEF B
  <2> QED
    BY <1>a, <2>1, <2>2, <2>5
<1>3. B \in C
  <2> HIDE DEF C
  <2> QED
    BY <1>0, <1>1, <1>2, SetInduction
<1> QED
  BY <1>0, <1>3, RestrictToAll

\* Terms that are not negative have a sum that is not, and none is above it.
LEMMA TotalNat ==
    ASSUME NEW S, IsFiniteSet(S), NEW f \in [S -> Nat]
    PROVE  Total(f) \in Nat /\ \A x \in S : f[x] <= Total(f)
<1> DEFINE C == {T \in SUBSET S : Total(Restrict(f, T)) \in Nat}
<1>0. f \in [S -> Int]
  OBVIOUS
<1>1. {} \in C
  BY TotalOfNone
<1>2. \A T \in SUBSET S : \A x \in S \ T : T \in C => T \cup {x} \in C
  <2>1. SUFFICES ASSUME NEW T \in SUBSET S, NEW x \in S \ T, Total(Restrict(f, T)) \in Nat
                 PROVE  Total(Restrict(f, T \cup {x})) \in Nat
    OBVIOUS
  <2>2. Total(Restrict(f, T \cup {x})) = Total(Restrict(f, T)) + f[x]
    BY <1>0, TotalAdd
  <2>3. f[x] \in Nat
    OBVIOUS
  <2> QED
    BY <2>1, <2>2, <2>3
<1>3. \A T \in SUBSET S : Total(Restrict(f, T)) \in Nat
  <2>1. SUFFICES ASSUME NEW T \in SUBSET S PROVE T \in C
    OBVIOUS
  <2>2. IsFiniteSet(T) /\ \A U \in SUBSET T : \A x \in T \ U : U \in C => U \cup {x} \in C
    BY <1>2, FS_Subset
  <2> HIDE DEF C
  <2> QED
    BY <1>1, <2>2, SetInduction
<1>4. \A x \in S : f[x] <= Total(f)
  <2>1. SUFFICES ASSUME NEW x \in S PROVE f[x] <= Total(f)
    OBVIOUS
  <2>2. Total(f) = f[x] + Total(Restrict(f, S \ {x})) /\ f[x] \in Nat
    BY <1>0, TotalTake
  <2>3. Total(Restrict(f, S \ {x})) \in Nat
    BY <1>3
  <2> QED
    BY <2>2, <2>3
<1> QED
  BY <1>3, <1>4, RestrictToAll

\* A sum of smaller terms is not larger.
LEMMA TotalBelow ==
    ASSUME NEW S, IsFiniteSet(S), NEW f \in [S -> Int], NEW g \in [S -> Int],
           \A x \in S : f[x] <= g[x]
    PROVE  Total(f) <= Total(g)
<1> DEFINE d == [x \in S |-> g[x] - f[x]]
<1>1. d \in [S -> Nat] /\ d \in [S -> Int]
  OBVIOUS
<1>2. [x \in S |-> f[x] + d[x]] = g
  OBVIOUS
<1> HIDE DEF d
<1>3. Total([x \in S |-> f[x] + d[x]]) = Total(f) + Total(d)
  BY <1>1, TotalPlus
<1>4. Total(d) \in Nat
  BY <1>1, TotalNat
<1>5. Total(f) \in Int
  BY TotalInt
<1> QED
  BY <1>2, <1>3, <1>4, <1>5

LEMMA TotalOfPart ==
    ASSUME NEW S, IsFiniteSet(S), NEW f \in [S -> Int], NEW T \in SUBSET S
    PROVE  Total(Restrict(f, T)) \in Int
<1>1. IsFiniteSet(T) /\ Restrict(f, T) \in [T -> Int]
  BY FS_Subset DEF Restrict
<1> QED
  BY <1>1, TotalInt

\* A sum group by group.
LEMMA TotalGroups ==
    ASSUME NEW S, IsFiniteSet(S), NEW f \in [S -> Int],
           NEW R, IsFiniteSet(R), NEW group \in [R -> SUBSET S],
           \A p, q \in R : p # q => group[p] \cap group[q] = {}
    PROVE  Total([r \in R |-> Total(Restrict(f, group[r]))])
           = Total(Restrict(f, UNION {group[r] : r \in R}))
<1> DEFINE h == [r \in R |-> Total(Restrict(f, group[r]))]
           Both(Q) == UNION {group[r] : r \in Q}
           Good(Q) == Total(Restrict(h, Q)) = Total(Restrict(f, Both(Q)))
           C == {Q \in SUBSET R : Good(Q)}
<1>0. h \in [R -> Int] /\ \A r \in R : h[r] = Total(Restrict(f, group[r]))
  BY TotalOfPart
<1> HIDE DEF h
<1>1. {} \in C
  <2>1. Both({}) = {}
    OBVIOUS
  <2> QED
    BY <2>1, TotalOfNone
<1>2. \A Q \in SUBSET R : \A r \in R \ Q : Q \in C => Q \cup {r} \in C
  <2>1. SUFFICES ASSUME NEW Q \in SUBSET R, NEW r \in R \ Q, Good(Q) PROVE Good(Q \cup {r})
    OBVIOUS
  <2> DEFINE A == group[r]
             B == Both(Q \cup {r})
  <2>2. A \subseteq B /\ B \subseteq S /\ B \ A = Both(Q)
    <3>1. \A q \in Q : group[q] \cap A = {}
      OBVIOUS
    <3> QED
      BY <3>1
  <2>3. Total(Restrict(f, B)) = Total(Restrict(f, A)) + Total(Restrict(f, Both(Q)))
    <3> DEFINE g == Restrict(f, B)
    <3>1. IsFiniteSet(B) /\ g \in [B -> Int]
      BY <2>2, FS_Subset DEF Restrict
    <3>2. Total(g) = Total(Restrict(g, A)) + Total(Restrict(g, B \ A))
      <4> HIDE DEF g, A, B
      <4> QED
        BY <2>2, <3>1, TotalParts
    <3>3. Restrict(g, A) = Restrict(f, A) /\ Restrict(g, B \ A) = Restrict(f, B \ A)
      BY <2>2 DEF Restrict
    <3> HIDE DEF A, B
    <3> QED
      BY <2>2, <3>2, <3>3
  <2>4. Total(Restrict(h, Q \cup {r})) = Total(Restrict(h, Q)) + h[r]
    BY <1>0, TotalAdd
  <2>5. Total(Restrict(h, Q)) \in Int /\ h[r] \in Int /\ h[r] = Total(Restrict(f, A))
    BY <1>0, TotalOfPart
  <2> HIDE DEF A
  <2> QED
    BY <2>1, <2>3, <2>4, <2>5
<1>3. R \in C
  <2> HIDE DEF C
  <2> QED
    BY <1>1, <1>2, SetInduction
<1> QED
  BY <1>0, <1>3, RestrictToAll DEF h

\* Terms within m of zero have a sum within as many times m as there are terms.
LEMMA TotalWithin ==
    ASSUME NEW S, IsFiniteSet(S), NEW m \in Nat, NEW f \in [S -> Int],
           \A x \in S : -m <= f[x] /\ f[x] <= m
    PROVE  -(Cardinality(S) * m) <= Total(f) /\ Total(f) <= Cardinality(S) * m
<1> DEFINE Good(T) == /\ -(Cardinality(T) * m) <= Total(Restrict(f, T))
                      /\ Total(Restrict(f, T)) <= Cardinality(T) * m
           C == {T \in SUBSET S : Good(T)}
<1>1. {} \in C
  <2>1. Cardinality({}) * m = 0
    BY FS_EmptySet
  <2>2. Good({})
    BY <2>1, TotalOfNone
  <2> QED
    BY <2>2
<1>2. \A T \in SUBSET S : \A x \in S \ T : T \in C => T \cup {x} \in C
  <2>1. SUFFICES ASSUME NEW T \in SUBSET S, NEW x \in S \ T, Good(T) PROVE Good(T \cup {x})
    OBVIOUS
  <2>2. /\ Total(Restrict(f, T)) \in Int
        /\ Total(Restrict(f, T \cup {x})) = Total(Restrict(f, T)) + f[x]
    BY TotalAdd
  <2>3. Cardinality(T \cup {x}) = Cardinality(T) + 1 /\ Cardinality(T) \in Nat
    BY FS_Subset, FS_AddElement, FS_CardinalityType
  <2>4. Cardinality(T \cup {x}) * m = Cardinality(T) * m + m /\ Cardinality(T) * m \in Int
    <3>1. \A n \in Nat : (n + 1) * m = n * m + m /\ n * m \in Int
      OBVIOUS
    <3> QED
      BY <2>3, <3>1
  <2>5. f[x] \in Int /\ -m <= f[x] /\ f[x] <= m
    OBVIOUS
  <2> QED
    BY <2>1, <2>2, <2>4, <2>5
<1>3. S \in C
  <2> HIDE DEF C
  <2> QED
    BY <1>1, <1>2, SetInduction
<1> QED
  BY <1>3, RestrictToAll

\* A quotient, and what is left of the dividend.
LEMMA QuotientBounds ==
    ASSUME NEW a \in Int, NEW b \in Int, b > 0
    PROVE  /\ a \div b \in Int
           /\ b * (a \div b) <= a
           /\ a < b * (a \div b) + b
  OBVIOUS

\* A sum of sums is the same taken the other way round.
ByRows(f, S, T) == Total([s \in S |-> Total([t \in T |-> f[s][t]])])
ByColumns(f, S, T) == Total([t \in T |-> Total([s \in S |-> f[s][t]])])

LEMMA TotalExchange ==
    ASSUME NEW S, IsFiniteSet(S), NEW T, IsFiniteSet(T), NEW f \in [S -> [T -> Int]]
    PROVE  ByRows(f, S, T) = ByColumns(f, S, T)
<1> DEFINE row(s) == Total([t \in T |-> f[s][t]])
           rows == [s \in S |-> row(s)]
           part(U, t) == Total([s \in U |-> f[s][t]])
           column(U) == Total([t \in T |-> part(U, t)])
           Good(U) == Total(Restrict(rows, U)) = column(U)
           C == {U \in SUBSET S : Good(U)}
<1>1. \A s \in S : row(s) \in Int
  <2>1. \A s \in S : [t \in T |-> f[s][t]] \in [T -> Int]
    OBVIOUS
  <2> QED
    BY <2>1, TotalInt
<1>2. rows \in [S -> Int] /\ \A s \in S : rows[s] = row(s)
  BY <1>1
<1>3. \A U \in SUBSET S : \A t \in T : part(U, t) \in Int
  <2>1. SUFFICES ASSUME NEW U \in SUBSET S, NEW t \in T PROVE part(U, t) \in Int
    OBVIOUS
  <2>2. IsFiniteSet(U) /\ [s \in U |-> f[s][t]] \in [U -> Int]
    BY FS_Subset
  <2> QED
    BY <2>2, TotalInt
<1> HIDE DEF rows
<1>4. {} \in C
  <2>1. \A t \in T : part({}, t) = 0
    BY TotalEmpty
  <2>2. [t \in T |-> part({}, t)] = [t \in T |-> 0 * 0]
    BY <2>1
  <2>3. Total([t \in T |-> 0 * [u \in T |-> 0][t]]) = 0 * Total([u \in T |-> 0])
    <3>1. [u \in T |-> 0] \in [T -> Int]
      OBVIOUS
    <3> QED
      BY <3>1, TotalTimes
  <2>4. Total([u \in T |-> 0]) \in Int
    <3>1. [u \in T |-> 0] \in [T -> Int]
      OBVIOUS
    <3> QED
      BY <3>1, TotalInt
  <2>5. [t \in T |-> 0 * [u \in T |-> 0][t]] = [t \in T |-> 0 * 0]
    OBVIOUS
  <2>6. Good({})
    BY <2>2, <2>3, <2>4, <2>5, TotalOfNone
  <2> QED
    BY <2>6
<1>5. \A U \in SUBSET S : \A x \in S \ U : U \in C => U \cup {x} \in C
  <2>1. SUFFICES ASSUME NEW U \in SUBSET S, NEW x \in S \ U, Good(U) PROVE Good(U \cup {x})
    OBVIOUS
  <2>2. Total(Restrict(rows, U \cup {x})) = Total(Restrict(rows, U)) + row(x)
    BY <1>2, TotalAdd
  <2>3. \A t \in T : part(U \cup {x}, t) = part(U, t) + f[x][t]
    <3>1. SUFFICES ASSUME NEW t \in T PROVE part(U \cup {x}, t) = part(U, t) + f[x][t]
      OBVIOUS
    <3> DEFINE c == [s \in S |-> f[s][t]]
    <3>2. c \in [S -> Int] /\ c[x] = f[x][t]
      OBVIOUS
    <3>3. Restrict(c, U) = [s \in U |-> f[s][t]] /\ Restrict(c, U \cup {x}) = [s \in U \cup {x} |-> f[s][t]]
      BY DEF Restrict
    <3> HIDE DEF c
    <3>4. Total(Restrict(c, U \cup {x})) = Total(Restrict(c, U)) + c[x]
      BY <3>2, TotalAdd
    <3> QED
      BY <3>2, <3>3, <3>4
  <2> DEFINE g == [t \in T |-> part(U, t)]
  <2>4. g \in [T -> Int] /\ f[x] \in [T -> Int] /\ \A t \in T : g[t] = part(U, t)
    BY <1>3
  <2>5. Total([t \in T |-> g[t] + f[x][t]]) = Total(g) + Total(f[x])
    <3> HIDE DEF g
    <3> QED
      BY <2>4, TotalPlus
  <2>6. [t \in T |-> g[t] + f[x][t]] = [t \in T |-> part(U \cup {x}, t)]
    BY <2>3, <2>4
  <2>7. Total(f[x]) = row(x)
    <3>1. f[x] = [t \in T |-> f[x][t]]
      BY <2>4
    <3> QED
      BY <3>1
  <2> QED
    BY <2>1, <2>2, <2>5, <2>6, <2>7
<1>6. S \in C
  <2> HIDE DEF C
  <2> QED
    BY <1>4, <1>5, SetInduction
<1> QED
  BY <1>2, <1>6, RestrictToAll DEF rows, ByRows, ByColumns

\* a' (M b) is b' (M' a).
TimesRows(a, m, b, S, T) == Total([s \in S |-> a[s] * Total([t \in T |-> m[s][t] * b[t]])])
TimesColumns(a, m, b, S, T) == Total([t \in T |-> b[t] * Total([s \in S |-> a[s] * m[s][t]])])

LEMMA TotalBilinear ==
    ASSUME NEW S, IsFiniteSet(S), NEW T, IsFiniteSet(T), NEW m \in [S -> [T -> Int]],
           NEW a \in [S -> Int], NEW b \in [T -> Int]
    PROVE  TimesRows(a, m, b, S, T) = TimesColumns(a, m, b, S, T)
<1> DEFINE f == [s \in S |-> [t \in T |-> a[s] * (m[s][t] * b[t])]]
<1>1. f \in [S -> [T -> Int]]
  OBVIOUS
<1>2. ASSUME NEW s \in S
      PROVE  Total([t \in T |-> f[s][t]]) = a[s] * Total([t \in T |-> m[s][t] * b[t]])
  <2> DEFINE g == [t \in T |-> m[s][t] * b[t]]
  <2>1. g \in [T -> Int] /\ a[s] \in Int
    OBVIOUS
  <2>2. [t \in T |-> f[s][t]] = [t \in T |-> a[s] * g[t]]
    OBVIOUS
  <2> HIDE DEF g, f
  <2> QED
    BY <2>1, <2>2, TotalTimes DEF g
<1>3. ASSUME NEW t \in T
      PROVE  Total([s \in S |-> f[s][t]]) = b[t] * Total([s \in S |-> a[s] * m[s][t]])
  <2> DEFINE g == [s \in S |-> a[s] * m[s][t]]
  <2>1. g \in [S -> Int] /\ b[t] \in Int
    OBVIOUS
  <2>2. \A x, y, z \in Int : x * (y * z) = z * (x * y)
    OBVIOUS
  <2>3. \A s \in S : f[s][t] = b[t] * g[s]
    BY <2>2
  <2>4. [s \in S |-> f[s][t]] = [s \in S |-> b[t] * g[s]]
    BY <2>3
  <2>5. Total([s \in S |-> b[t] * g[s]]) = b[t] * Total(g)
    <3> HIDE DEF g, f
    <3> QED
      BY <2>1, TotalTimes, Zenon
  <2> QED
    BY <2>4, <2>5
<1>4. ByRows(f, S, T) = ByColumns(f, S, T)
  <2> HIDE DEF f
  <2> QED
    BY <1>1, TotalExchange
<1>5. [s \in S |-> Total([t \in T |-> f[s][t]])]
        = [s \in S |-> a[s] * Total([t \in T |-> m[s][t] * b[t]])]
  BY <1>2
<1>6. [t \in T |-> Total([s \in S |-> f[s][t]])]
        = [t \in T |-> b[t] * Total([s \in S |-> a[s] * m[s][t]])]
  BY <1>3
<1> QED
  BY <1>4, <1>5, <1>6 DEF ByRows, ByColumns, TimesRows, TimesColumns

LEMMA TotalZero ==
    ASSUME NEW S, IsFiniteSet(S)
    PROVE  Total([s \in S |-> 0]) = 0
<1> DEFINE z == [s \in S |-> 0]
<1>1. z \in [S -> Int] /\ Total(z) \in Int /\ 0 \in Int
  <2>1. z \in [S -> Int]
    OBVIOUS
  <2> QED
    BY <2>1, TotalInt
<1>2. Total([s \in S |-> 0 * z[s]]) = 0 * Total(z)
  <2> HIDE DEF z
  <2> QED
    BY <1>1, TotalTimes
<1>3. [s \in S |-> 0 * z[s]] = z
  OBVIOUS
<1> HIDE DEF z
<1>4. 0 * Total(z) = 0
  BY <1>1
<1> QED
  BY <1>2, <1>3, <1>4 DEF z

\* A sum with one term.
LEMMA TotalOne ==
    ASSUME NEW S, IsFiniteSet(S), NEW f \in [S -> Int], NEW x \in S,
           \A y \in S : y # x => f[y] = 0
    PROVE  Total(f) = f[x]
<1>1. Total(f) = f[x] + Total(Restrict(f, S \ {x}))
  BY TotalTake
<1>2. Restrict(f, S \ {x}) = [y \in S \ {x} |-> 0]
  BY DEF Restrict
<1>3. Total(Restrict(f, S \ {x})) = 0
  <2>1. IsFiniteSet(S \ {x})
    BY FS_Subset
  <2> QED
    BY <1>2, <2>1, TotalZero
<1> QED
  BY <1>1, <1>3

(***************************************************************************)
(* A loop over 1 .. n: what it holds after each round is a function of the *)
(* round and of what it held before.                                       *)
(***************************************************************************)
IsLoop(w, n, start, step) ==
    /\ w[0] = start
    /\ \A i \in 1 .. n : w[i] = step[<<i, w[i - 1]>>]

LEMMA LoopExists ==
    ASSUME NEW n \in Nat, NEW V, NEW start \in V, NEW step \in [(1 .. n) \X V -> V]
    PROVE  \E w \in [0 .. n -> V] : IsLoop(w, n, start, step)
<1> DEFINE Good(m) == m <= n => \E w \in [0 .. m -> V] : IsLoop(w, m, start, step)
           C == {m \in Nat : Good(m)}
<1>1. 0 \in C
  <2> DEFINE w == [i \in 0 .. 0 |-> start]
  <2>1. w \in [0 .. 0 -> V] /\ IsLoop(w, 0, start, step)
    BY DEF IsLoop
  <2> QED
    BY <2>1
<1>2. \A m \in Nat : m \in C => m + 1 \in C
  <2>1. SUFFICES ASSUME NEW m \in Nat, Good(m), m + 1 <= n
                 PROVE  \E w \in [0 .. m + 1 -> V] : IsLoop(w, m + 1, start, step)
    OBVIOUS
  <2>2. PICK v \in [0 .. m -> V] : IsLoop(v, m, start, step)
    BY <2>1
  <2> DEFINE w == [i \in 0 .. m + 1 |-> IF i <= m THEN v[i] ELSE step[<<m + 1, v[m]>>]]
  <2>3. <<m + 1, v[m]>> \in (1 .. n) \X V
    BY <2>1
  <2>4. step[<<m + 1, v[m]>>] \in V
    BY <2>3
  <2>5. w \in [0 .. m + 1 -> V]
    BY <2>4
  <2>6. w[0] = start
    BY <2>2 DEF IsLoop
  <2>7. \A i \in 1 .. m + 1 : w[i] = step[<<i, w[i - 1]>>]
    <3>1. SUFFICES ASSUME NEW i \in 1 .. m + 1 PROVE w[i] = step[<<i, w[i - 1]>>]
      OBVIOUS
    <3>2. CASE i <= m
      BY <2>2, <3>2 DEF IsLoop
    <3>3. CASE i = m + 1
      <4>1. ~(i <= m) /\ i - 1 = m /\ m \in 0 .. m + 1 /\ i \in 0 .. m + 1
        BY <3>3
      <4>2. w[i] = step[<<m + 1, v[m]>>] /\ w[m] = v[m]
        BY <4>1
      <4> QED
        BY <4>1, <4>2, <3>3
    <3> QED
      BY <3>2, <3>3
  <2> HIDE DEF w
  <2> QED
    BY <2>5, <2>6, <2>7 DEF IsLoop
<1>3. Nat \subseteq C
  <2> HIDE DEF C
  <2> QED
    BY <1>1, <1>2, NumberInduction
<1> QED
  BY <1>3

\* What is known of a round from the one before.
GoesRound(w, n, V, step) ==
    \A i \in 1 .. n : w[i - 1] \in V => w[i] = step[<<i, w[i - 1]>>]

\* Whatever meets the equations of a loop is one, and what it holds is of a kind.
LEMMA LoopHolds ==
    ASSUME NEW n \in Nat, NEW V, NEW start \in V, NEW step \in [(1 .. n) \X V -> V],
           NEW w, w[0] = start, GoesRound(w, n, V, step)
    PROVE  IsLoop(w, n, start, step) /\ \A i \in 0 .. n : w[i] \in V
<1> DEFINE C == {m \in Nat : m <= n => w[m] \in V}
<1>1. 0 \in C
  OBVIOUS
<1>2. \A m \in Nat : m \in C => m + 1 \in C
  <2>1. SUFFICES ASSUME NEW m \in Nat, w[m] \in V, m + 1 <= n PROVE w[m + 1] \in V
    OBVIOUS
  <2>2. m + 1 \in 1 .. n /\ (m + 1) - 1 = m
    BY <2>1
  <2>3. w[m + 1] = step[<<m + 1, w[m]>>] /\ <<m + 1, w[m]>> \in (1 .. n) \X V
    BY <2>1, <2>2 DEF GoesRound
  <2> QED
    BY <2>3
<1>3. Nat \subseteq C
  <2> HIDE DEF C
  <2> QED
    BY <1>1, <1>2, NumberInduction
<1>4. \A i \in 0 .. n : w[i] \in V
  BY <1>3
<1>5. \A i \in 1 .. n : i - 1 \in 0 .. n
  OBVIOUS
<1> QED
  BY <1>4, <1>5 DEF IsLoop, GoesRound

\* The same, for what is known of the first day and then from the day before,
IsForward(w, n, start, step) ==
    /\ w[1] = start
    /\ \A i \in 2 .. n : w[i] = step[<<i, w[i - 1]>>]

LEMMA ForwardExists ==
    ASSUME NEW n \in Nat \ {0}, NEW V, NEW start \in V, NEW step \in [(2 .. n) \X V -> V]
    PROVE  \E w \in [1 .. n -> V] : IsForward(w, n, start, step)
<1> DEFINE m == n - 1
           later == [p \in (1 .. m) \X V |-> step[<<p[1] + 1, p[2]>>]]
<1>1. /\ m \in Nat /\ later \in [(1 .. m) \X V -> V]
      /\ \A i \in 1 .. m : \A v \in V : later[<<i, v>>] = step[<<i + 1, v>>]
  <2>1. \A p \in (1 .. m) \X V : <<p[1] + 1, p[2]>> \in (2 .. n) \X V
    OBVIOUS
  <2>2. \A p \in (1 .. m) \X V : step[<<p[1] + 1, p[2]>>] \in V
    BY <2>1
  <2>3. later \in [(1 .. m) \X V -> V]
    BY <2>2
  <2> QED
    BY <2>3
<1> HIDE DEF later
<1>2. PICK v \in [0 .. m -> V] : IsLoop(v, m, start, later)
  BY <1>1, LoopExists
<1> DEFINE w == [i \in 1 .. n |-> v[i - 1]]
<1>3. w \in [1 .. n -> V] /\ w[1] = start
  BY <1>2 DEF IsLoop
<1>4. ASSUME NEW i \in 2 .. n PROVE w[i] = step[<<i, w[i - 1]>>]
  <2>1. i - 1 \in 1 .. m /\ (i - 1) + 1 = i /\ (i - 1) - 1 \in 0 .. m
    OBVIOUS
  <2>2. v[i - 1] = later[<<i - 1, v[(i - 1) - 1]>>] /\ v[(i - 1) - 1] \in V
    BY <1>2, <2>1 DEF IsLoop
  <2>3. later[<<i - 1, v[(i - 1) - 1]>>] = step[<<(i - 1) + 1, v[(i - 1) - 1]>>]
    BY <1>1, <2>1, <2>2
  <2>4. w[i] = v[i - 1] /\ w[i - 1] = v[(i - 1) - 1]
    BY <2>1
  <2> QED
    BY <2>1, <2>2, <2>3, <2>4
<1> HIDE DEF w
<1> QED
  BY <1>3, <1>4 DEF IsForward

GoesForward(w, n, V, step) ==
    \A i \in 2 .. n : w[i - 1] \in V => w[i] = step[<<i, w[i - 1]>>]

LEMMA ForwardHolds ==
    ASSUME NEW n \in Nat \ {0}, NEW V, NEW start \in V, NEW step \in [(2 .. n) \X V -> V],
           NEW w, w[1] = start, GoesForward(w, n, V, step)
    PROVE  \A i \in 1 .. n : w[i] \in V
<1> DEFINE C == {m \in Nat : m + 1 <= n => w[m + 1] \in V}
<1>1. 0 \in C
  OBVIOUS
<1>2. \A m \in Nat : m \in C => m + 1 \in C
  <2>1. SUFFICES ASSUME NEW m \in Nat, w[m + 1] \in V, m + 2 <= n PROVE w[m + 2] \in V
    <3>1. \A m \in Nat : (m + 1) + 1 = m + 2 /\ (m + 2 <= n => m + 1 <= n)
      OBVIOUS
    <3> QED
      BY <3>1
  <2>2. m + 2 \in 2 .. n /\ (m + 2) - 1 = m + 1
    BY <2>1
  <2>3. w[m + 2] = step[<<m + 2, w[m + 1]>>] /\ <<m + 2, w[m + 1]>> \in (2 .. n) \X V
    BY <2>1, <2>2 DEF GoesForward
  <2> QED
    BY <2>3
<1>3. Nat \subseteq C
  <2> HIDE DEF C
  <2> QED
    BY <1>1, <1>2, NumberInduction
<1>4. ASSUME NEW i \in 1 .. n PROVE w[i] \in V
  <2>1. i - 1 \in Nat /\ (i - 1) + 1 = i
    OBVIOUS
  <2>2. i - 1 \in C
    BY <1>3, <2>1
  <2> QED
    BY <2>1, <2>2
<1> QED
  BY <1>4

\* and of the last day and then from the day after.
IsBackward(w, n, start, step) ==
    /\ w[n] = start
    /\ \A i \in 1 .. n - 1 : w[i] = step[<<i, w[i + 1]>>]

LEMMA BackwardExists ==
    ASSUME NEW n \in Nat \ {0}, NEW V, NEW start \in V, NEW step \in [(1 .. n - 1) \X V -> V]
    PROVE  \E w \in [1 .. n -> V] : IsBackward(w, n, start, step)
<1> DEFINE turned == [p \in (2 .. n) \X V |-> step[<<n + 1 - p[1], p[2]>>]]
<1>1. /\ turned \in [(2 .. n) \X V -> V]
      /\ \A i \in 2 .. n : \A v \in V : turned[<<i, v>>] = step[<<n + 1 - i, v>>]
  <2>1. \A p \in (2 .. n) \X V : <<n + 1 - p[1], p[2]>> \in (1 .. n - 1) \X V
    OBVIOUS
  <2>2. \A p \in (2 .. n) \X V : step[<<n + 1 - p[1], p[2]>>] \in V
    BY <2>1
  <2>3. turned \in [(2 .. n) \X V -> V]
    BY <2>2
  <2> QED
    BY <2>3
<1> HIDE DEF turned
<1>2. PICK v \in [1 .. n -> V] : IsForward(v, n, start, turned)
  BY <1>1, ForwardExists
<1> DEFINE w == [i \in 1 .. n |-> v[n + 1 - i]]
<1>3. w \in [1 .. n -> V] /\ w[n] = start
  <2>1. \A i \in 1 .. n : n + 1 - i \in 1 .. n
    OBVIOUS
  <2>2. n \in 1 .. n /\ n + 1 - n = 1
    OBVIOUS
  <2> QED
    BY <1>2, <2>1, <2>2 DEF IsForward
<1>4. ASSUME NEW i \in 1 .. n - 1 PROVE w[i] = step[<<i, w[i + 1]>>]
  <2> DEFINE j == n + 1 - i
  <2>1. j \in 2 .. n /\ n + 1 - j = i /\ j - 1 \in 1 .. n /\ n + 1 - (i + 1) = j - 1
        /\ i \in 1 .. n /\ i + 1 \in 1 .. n
    OBVIOUS
  <2>2. v[j] = turned[<<j, v[j - 1]>>] /\ v[j - 1] \in V
    BY <1>2, <2>1 DEF IsForward
  <2>3. turned[<<j, v[j - 1]>>] = step[<<n + 1 - j, v[j - 1]>>]
    BY <1>1, <2>1, <2>2
  <2>4. w[i] = v[j] /\ w[i + 1] = v[j - 1]
    BY <2>1
  <2> HIDE DEF j, w
  <2> QED
    BY <2>1, <2>2, <2>3, <2>4
<1> HIDE DEF w
<1> QED
  BY <1>3, <1>4 DEF IsBackward

GoesBackward(w, n, V, step) ==
    \A i \in 1 .. n - 1 : w[i + 1] \in V => w[i] = step[<<i, w[i + 1]>>]

LEMMA BackwardHolds ==
    ASSUME NEW n \in Nat \ {0}, NEW V, NEW start \in V, NEW step \in [(1 .. n - 1) \X V -> V],
           NEW w, w[n] = start, GoesBackward(w, n, V, step)
    PROVE  \A i \in 1 .. n : w[i] \in V
<1> DEFINE C == {m \in Nat : m < n => w[n - m] \in V}
<1>1. 0 \in C
  OBVIOUS
<1>2. \A m \in Nat : m \in C => m + 1 \in C
  <2>1. SUFFICES ASSUME NEW m \in Nat, w[n - m] \in V, m + 1 < n PROVE w[n - (m + 1)] \in V
    OBVIOUS
  <2>2. n - (m + 1) \in 1 .. n - 1 /\ (n - (m + 1)) + 1 = n - m
    BY <2>1
  <2>3. /\ w[n - (m + 1)] = step[<<n - (m + 1), w[n - m]>>]
        /\ <<n - (m + 1), w[n - m]>> \in (1 .. n - 1) \X V
    BY <2>1, <2>2 DEF GoesBackward
  <2> QED
    BY <2>3
<1>3. Nat \subseteq C
  <2> HIDE DEF C
  <2> QED
    BY <1>1, <1>2, NumberInduction
<1>4. ASSUME NEW i \in 1 .. n PROVE w[i] \in V
  <2>1. n - i \in Nat /\ n - (n - i) = i /\ n - i < n
    OBVIOUS
  <2>2. n - i \in C
    BY <1>3, <2>1
  <2> QED
    BY <2>1, <2>2
<1> QED
  BY <1>4

\* The sum of the same number for each member of a set.
LEMMA TotalConstant ==
    ASSUME NEW S, IsFiniteSet(S), NEW c \in Int
    PROVE  Total([s \in S |-> c]) = Cardinality(S) * c
<1> DEFINE f == [s \in S |-> c]
           C == {T \in SUBSET S : Total(Restrict(f, T)) = Cardinality(T) * c}
<1>1. {} \in C
  BY TotalOfNone, FS_EmptySet
<1>2. \A T \in SUBSET S : \A x \in S \ T : T \in C => T \cup {x} \in C
  <2>1. SUFFICES ASSUME NEW T \in SUBSET S, NEW x \in S \ T,
                        Total(Restrict(f, T)) = Cardinality(T) * c
                 PROVE  Total(Restrict(f, T \cup {x})) = Cardinality(T \cup {x}) * c
    OBVIOUS
  <2>2. Cardinality(T) \in Nat /\ Cardinality(T \cup {x}) = Cardinality(T) + 1
    BY FS_Subset, FS_CardinalityType, FS_AddElement
  <2>3. f \in [S -> Int] /\ f[x] = c
    OBVIOUS
  <2> HIDE DEF f
  <2>4. Total(Restrict(f, T \cup {x})) = Total(Restrict(f, T)) + f[x]
    BY <2>3, TotalAdd
  <2>5. \A a, b \in Int : (a + 1) * b = a * b + b
    OBVIOUS
  <2>6. (Cardinality(T) + 1) * c = Cardinality(T) * c + c
    BY <2>2, <2>5
  <2> QED
    BY <2>1, <2>2, <2>3, <2>4, <2>6
<1>3. S \in C
  <2> HIDE DEF C
  <2> QED
    BY <1>1, <1>2, SetInduction
<1>4. f \in [S -> Int]
  OBVIOUS
<1> HIDE DEF f
<1>5. Restrict(f, S) = f
  BY <1>4, RestrictToAll
<1> QED
  BY <1>3, <1>5 DEF f

\* There are finitely many functions from a finite set to a finite set.
LEMMA FunctionsFinite ==
    ASSUME NEW S, IsFiniteSet(S), NEW R, IsFiniteSet(R)
    PROVE  IsFiniteSet([S -> R])
<1> DEFINE graph == [f \in [S -> R] |-> {<<x, f[x]>> : x \in S}]
           T == SUBSET (S \X R)
<1>1. IsFiniteSet(T)
  BY FS_Product, FS_SUBSET
<1>2. graph \in [[S -> R] -> T]
  OBVIOUS
<1>3. ASSUME NEW f \in [S -> R], NEW g \in [S -> R], graph[f] = graph[g] PROVE f = g
  <2>1. ASSUME NEW x \in S PROVE f[x] = g[x]
    <3>1. <<x, f[x]>> \in graph[f]
      OBVIOUS
    <3>2. <<x, f[x]>> \in graph[g]
      BY <1>3, <3>1
    <3>3. graph[g] = {<<y, g[y]>> : y \in S}
      OBVIOUS
    <3>4. PICK y \in S : <<x, f[x]>> = <<y, g[y]>>
      BY <3>2, <3>3
    <3> QED
      BY <3>4
  <2> QED
    BY <2>1
<1> HIDE DEF graph, T
<1>4. graph \in Injection([S -> R], T)
  BY <1>2, <1>3 DEF Injection, IsInjective
<1> QED
  BY <1>1, <1>4, FS_Injection

\* One of finitely many has the least value.
LEMMA LeastValue ==
    ASSUME NEW S, IsFiniteSet(S), S # {}, NEW f \in [S -> Int]
    PROVE  \E w \in S : \A v \in S : f[w] <= f[v]
<1> DEFINE Least(T) == T = {} \/ \E w \in T : \A v \in T : f[w] <= f[v]
           C == {T \in SUBSET S : Least(T)}
<1>1. {} \in C
  OBVIOUS
<1>2. \A T \in SUBSET S : \A x \in S \ T : T \in C => T \cup {x} \in C
  <2>1. SUFFICES ASSUME NEW T \in SUBSET S, NEW x \in S \ T, Least(T)
                 PROVE  \E w \in T \cup {x} : \A v \in T \cup {x} : f[w] <= f[v]
    OBVIOUS
  <2>2. \A v \in T \cup {x} : f[v] \in Int
    OBVIOUS
  <2>3. CASE T = {}
    BY <2>2, <2>3
  <2>4. CASE T # {}
    <3>1. PICK w \in T : \A v \in T : f[w] <= f[v]
      BY <2>1, <2>4
    <3>2. CASE f[w] <= f[x]
      BY <3>1, <3>2
    <3>3. CASE ~(f[w] <= f[x])
      <4>1. f[x] <= f[w]
        BY <2>2, <3>3
      <4>2. \A v \in T : f[x] <= f[v]
        BY <2>2, <3>1, <4>1
      <4>3. f[x] <= f[x]
        BY <2>2
      <4> QED
        BY <4>2, <4>3
    <3> QED
      BY <3>2, <3>3
  <2> QED
    BY <2>3, <2>4
<1>3. S \in C
  <2> HIDE DEF C
  <2> QED
    BY <1>1, <1>2, SetInduction
<1> QED
  BY <1>3

Below(T, key, n) == {m \in T : key[m] < key[n]}

LEMMA RankExists ==
    ASSUME NEW S, IsFiniteSet(S), NEW key \in [S -> Int],
           \A a, b \in S : key[a] = key[b] => a = b,
           NEW i \in Nat, i < Cardinality(S)
    PROVE  \E n \in S : Cardinality(Below(S, key, n)) = i
<1> DEFINE Good(T) == \A k \in Nat : k < Cardinality(T) => \E n \in T : Cardinality(Below(T, key, n)) = k
           C == {T \in SUBSET S : Good(T)}
<1>1. {} \in C
  <2>1. Cardinality({}) = 0
    BY FS_EmptySet
  <2> QED
    BY <2>1
<1>2. \A T \in SUBSET S : \A x \in S \ T : T \in C => T \cup {x} \in C
  <2>1. SUFFICES ASSUME NEW T \in SUBSET S, NEW x \in S \ T, Good(T), NEW k \in Nat,
                        k < Cardinality(T \cup {x})
                 PROVE  \E n \in T \cup {x} : Cardinality(Below(T \cup {x}, key, n)) = k
    OBVIOUS
  <2> DEFINE U == T \cup {x}
             r == Cardinality(Below(T, key, x))
  <2>2. IsFiniteSet(T) /\ Cardinality(T) \in Nat /\ Cardinality(U) = Cardinality(T) + 1
    <3>1. IsFiniteSet(T)
      BY FS_Subset
    <3> QED
      BY <3>1, FS_CardinalityType, FS_AddElement
  <2>3. \A n \in S : /\ IsFiniteSet(Below(T, key, n))
                     /\ Cardinality(Below(T, key, n)) \in Nat
                     /\ Below(T, key, n) \in SUBSET T
    <3>1. SUFFICES ASSUME NEW n \in S
                   PROVE  IsFiniteSet(Below(T, key, n)) /\ Cardinality(Below(T, key, n)) \in Nat
      BY DEF Below
    <3>2. Below(T, key, n) \in SUBSET T
      BY DEF Below
    <3> QED
      BY <2>2, <3>2, FS_Subset, FS_CardinalityType
  <2>4. CASE k = r
    <3>1. Below(U, key, x) = Below(T, key, x)
      BY DEF Below
    <3> QED
      BY <2>4, <3>1
  <2>5. CASE k < r
    <3>1. r <= Cardinality(T)
      BY <2>2, <2>3, FS_Subset
    <3>2. PICK n \in T : Cardinality(Below(T, key, n)) = k
      BY <2>1, <2>2, <2>3, <2>5, <3>1
    <3>3. key[n] < key[x]
      <4>1. SUFFICES ASSUME key[x] <= key[n] PROVE FALSE
        OBVIOUS
      <4>2. Below(T, key, x) \in SUBSET Below(T, key, n)
        BY <4>1 DEF Below
      <4>3. r <= k
        BY <2>3, <3>2, <4>2, FS_Subset
      <4> QED
        BY <2>3, <2>5, <4>3
    <3>4. Below(U, key, n) = Below(T, key, n)
      BY <3>3 DEF Below
    <3> QED
      BY <3>2, <3>4
  <2>6. CASE k > r
    <3>1. k - 1 \in Nat /\ k - 1 < Cardinality(T)
      BY <2>1, <2>2, <2>3, <2>6
    <3>2. PICK n \in T : Cardinality(Below(T, key, n)) = k - 1
      BY <2>1, <3>1
    <3>3. key[x] < key[n]
      <4>1. SUFFICES ASSUME key[n] < key[x] PROVE FALSE
        OBVIOUS
      <4>2. Below(T, key, n) \cup {n} \in SUBSET Below(T, key, x) /\ n \notin Below(T, key, n)
        BY <4>1 DEF Below
      <4>3. Cardinality(Below(T, key, n) \cup {n}) = k
        <5>1. IsFiniteSet(Below(T, key, n))
          BY <2>3
        <5>2. Cardinality(Below(T, key, n) \cup {n}) = Cardinality(Below(T, key, n)) + 1
          BY <5>1, <4>2, FS_AddElement
        <5> QED
          BY <3>2, <5>2
      <4>4. k <= r
        BY <2>3, <4>2, <4>3, FS_Subset
      <4> QED
        BY <2>3, <2>6, <4>4
    <3>4. Below(U, key, n) = Below(T, key, n) \cup {x} /\ x \notin Below(T, key, n)
      BY <3>3 DEF Below
    <3>5. Cardinality(Below(U, key, n)) = k
      <4>1. IsFiniteSet(Below(T, key, n))
        BY <2>3
      <4>2. Cardinality(Below(T, key, n) \cup {x}) = Cardinality(Below(T, key, n)) + 1
        BY <4>1, <3>4, FS_AddElement
      <4> QED
        BY <3>2, <3>4, <4>2
    <3> QED
      BY <3>5
  <2>7. r \in Nat
    BY <2>3
  <2> HIDE DEF r
  <2> QED
    BY <2>7, <2>4, <2>5, <2>6
<1>3. S \in C
  <2> HIDE DEF C
  <2> QED
    BY <1>1, <1>2, SetInduction
<1> QED
  BY <1>3

(***************************************************************************)
(* Powers of two, which the provers know nothing of: 2^n counts the        *)
(* subsets of 1..n.                                                        *)
(***************************************************************************)
LEMMA PowerNat ==
  ASSUME NEW n \in Nat
  PROVE  2^n \in Nat
<1>1. IsFiniteSet(1..n) /\ Cardinality(1..n) = n
  BY FS_Interval
<1>2. IsFiniteSet(SUBSET (1..n)) /\ Cardinality(SUBSET (1..n)) = 2^n
  BY <1>1, FS_SUBSET, Zenon
<1> QED
  BY <1>2, FS_CardinalityType

\* The subsets of 1..n+1 are those of 1..n and those with n+1 added.
LEMMA PowerNext ==
  ASSUME NEW n \in Nat
  PROVE  2^(n + 1) = 2 * 2^n
<1> DEFINE Old == SUBSET (1..n)
           With == {T \cup {n + 1} : T \in Old}
<1>1. IsFiniteSet(1..n) /\ Cardinality(1..n) = n
  BY FS_Interval
<1>2. IsFiniteSet(1..(n + 1)) /\ Cardinality(1..(n + 1)) = n + 1
  BY FS_Interval
<1>3. IsFiniteSet(Old) /\ Cardinality(Old) = 2^n
  BY <1>1, FS_SUBSET, Zenon
<1>4. Cardinality(SUBSET (1..(n + 1))) = 2^(n + 1)
  BY <1>2, FS_SUBSET, Zenon
<1>5. \A T \in Old : n + 1 \notin T
  OBVIOUS
<1>6. SUBSET (1..(n + 1)) = Old \cup With
  <2>1. ASSUME NEW T \in SUBSET (1..(n + 1)), n + 1 \in T
        PROVE  T \in With
    <3>1. T \ {n + 1} \in Old
      OBVIOUS
    <3>2. T = (T \ {n + 1}) \cup {n + 1}
      BY <2>1
    <3> QED
      BY <3>1, <3>2
  <2>2. \A T \in SUBSET (1..(n + 1)) : n + 1 \notin T => T \in Old
    OBVIOUS
  <2>3. \A T \in Old : T \in SUBSET (1..(n + 1)) /\ T \cup {n + 1} \in SUBSET (1..(n + 1))
    OBVIOUS
  <2> HIDE DEF Old
  <2> QED
    BY <2>1, <2>2, <2>3
<1>7. Old \cap With = {}
  BY <1>5
<1>8. ExistsBijection(Old, With)
  <2> DEFINE Add == [T \in Old |-> T \cup {n + 1}]
  <2>1. \A T, U \in Old : Add[T] = Add[U] => T = U
    BY <1>5
  <2>2. Add \in [Old -> With]
    OBVIOUS
  <2>3. \A V \in With : \E T \in Old : Add[T] = V
    OBVIOUS
  <2> HIDE DEF Add, Old, With
  <2>4. Add \in Bijection(Old, With)
    BY <2>1, <2>2, <2>3 DEF Bijection, Injection, Surjection, IsInjective
  <2> QED
    BY <2>4 DEF ExistsBijection
<1> HIDE DEF Old, With
<1>9. IsFiniteSet(With) /\ Cardinality(With) = 2^n
  BY <1>3, <1>8, FS_Bijection
<1>10. Cardinality(Old \cup With) = 2^n + 2^n
  <2>1. Cardinality(Old \cap With) = 0
    BY <1>7, FS_EmptySet
  <2>2. Cardinality(Old \cup With) = Cardinality(Old) + Cardinality(With) - Cardinality(Old \cap With)
    BY <1>3, <1>9, FS_Union, Zenon
  <2> QED
    BY <1>3, <1>9, <2>1, <2>2, PowerNat
<1>11. 2^n \in Nat
  BY PowerNat
<1>12. 2^(n + 1) = 2^n + 2^n
  BY <1>4, <1>6, <1>10
<1> QED
  BY <1>11, <1>12

LEMMA PowerGrows ==
  ASSUME NEW m \in Nat, NEW n \in Nat, m <= n
  PROVE  2^m <= 2^n
<1> DEFINE Less == SUBSET (1..m)
           More == SUBSET (1..n)
<1>1. IsFiniteSet(1..m) /\ Cardinality(1..m) = m
  BY FS_Interval
<1>2. IsFiniteSet(1..n) /\ Cardinality(1..n) = n
  BY FS_Interval
<1>3. Cardinality(Less) = 2^m
  BY <1>1, FS_SUBSET, Zenon
<1>4. IsFiniteSet(More) /\ Cardinality(More) = 2^n
  BY <1>2, FS_SUBSET, Zenon
<1>5. Less \in SUBSET More
  OBVIOUS
<1> HIDE DEF Less, More
<1>6. Cardinality(Less) <= Cardinality(More)
  BY <1>4, <1>5, FS_Subset
<1> QED
  BY <1>3, <1>4, <1>6

\* Two to a power outgrows the exponent.
LEMMA PowerAbove ==
  ASSUME NEW n \in Nat
  PROVE  n + 1 <= 2^n
<1> DEFINE C == {m \in Nat : m + 1 <= 2^m}
<1>1. 0 \in C
  <2>1. 2^0 = 1
    <3>1. IsFiniteSet({}) /\ Cardinality({}) = 0
      BY FS_EmptySet
    <3>2. Cardinality(SUBSET {}) = 2^0
      BY <3>1, FS_SUBSET, Zenon
    <3>3. SUBSET {} = {{}}
      <4>1. \A T \in SUBSET {} : T = {}
        OBVIOUS
      <4> QED
        BY <4>1
    <3>4. Cardinality({{}}) = 1
      BY FS_Singleton
    <3> QED
      BY <3>2, <3>3, <3>4
  <2> QED
    BY <2>1
<1>2. \A m \in Nat : m \in C => m + 1 \in C
  <2>1. SUFFICES ASSUME NEW m \in Nat, m + 1 <= 2^m PROVE (m + 1) + 1 <= 2^(m + 1)
    OBVIOUS
  <2>2. 2^(m + 1) = 2 * 2^m /\ 2^m \in Nat
    BY PowerNext, PowerNat
  <2> QED
    BY <2>1, <2>2
<1>3. Nat \subseteq C
  <2> HIDE DEF C
  <2> QED
    BY <1>1, <1>2, NumberInduction
<1> QED
  BY <1>3

\* A sum is the same whatever its terms are called.
Renames(b, S, T) ==
    /\ b \in [S -> T]
    /\ \A x, y \in S : b[x] = b[y] => x = y
    /\ \A t \in T : \E s \in S : b[s] = t

LEMMA TotalRenamed ==
    ASSUME NEW S, IsFiniteSet(S), NEW T, NEW b, Renames(b, S, T),
           NEW f \in [T -> Int], NEW g \in [S -> Int], \A s \in S : g[s] = f[b[s]]
    PROVE  Total(g) = Total(f)
<1> DEFINE image(A) == {b[s] : s \in A}
           C == {A \in SUBSET S : Total(Restrict(g, A)) = Total(Restrict(f, image(A)))}
<1>1. b \in [S -> T] /\ \A x, y \in S : b[x] = b[y] => x = y
  BY DEF Renames
<1>2. image(S) = T /\ image({}) = {}
  BY DEF Renames
<1>3. IsFiniteSet(T)
  <2>1. b \in Surjection(S, T)
    BY DEF Renames, Surjection
  <2> QED
    BY <2>1, FS_Surjection
<1>4. {} \in C
  <2>1. Total(Restrict(g, {})) = 0 /\ Total(Restrict(f, {})) = 0
    BY TotalOfNone
  <2> HIDE DEF image
  <2> QED
    BY <1>2, <2>1
<1>5. \A A \in SUBSET S : \A x \in S \ A : A \in C => A \cup {x} \in C
  <2>1. SUFFICES ASSUME NEW A \in SUBSET S, NEW x \in S \ A,
                        Total(Restrict(g, A)) = Total(Restrict(f, image(A)))
                 PROVE  Total(Restrict(g, A \cup {x})) = Total(Restrict(f, image(A \cup {x})))
    OBVIOUS
  <2>2. image(A) \in SUBSET T /\ b[x] \in T \ image(A) /\ image(A \cup {x}) = image(A) \cup {b[x]}
    BY <1>1
  <2> HIDE DEF image
  <2>3. Total(Restrict(g, A \cup {x})) = Total(Restrict(g, A)) + g[x]
    BY TotalAdd
  <2>4. Total(Restrict(f, image(A) \cup {b[x]})) = Total(Restrict(f, image(A))) + f[b[x]]
    BY <1>3, <2>2, TotalAdd
  <2>5. g[x] = f[b[x]]
    OBVIOUS
  <2> QED
    BY <2>1, <2>2, <2>3, <2>4, <2>5
<1>6. S \in C
  <2> HIDE DEF C
  <2> QED
    BY <1>4, <1>5, SetInduction
<1>7. Restrict(g, S) = g /\ Restrict(f, T) = f
  BY RestrictToAll
<1> QED
  BY <1>2, <1>6, <1>7

\* The sum over a part, as one in which the others count nothing,
LEMMA TotalMarked ==
    ASSUME NEW S, IsFiniteSet(S), NEW f \in [S -> Int], NEW A \in SUBSET S
    PROVE  Total(Restrict(f, A)) = Total([x \in S |-> IF x \in A THEN f[x] ELSE 0])
<1> DEFINE g == [x \in S |-> IF x \in A THEN f[x] ELSE 0]
<1>1. g \in [S -> Int]
  OBVIOUS
<1>2. Restrict(g, A) = Restrict(f, A) /\ Restrict(g, S \ A) = [x \in S \ A |-> 0]
  BY DEF Restrict
<1> HIDE DEF g
<1>3. Total(g) = Total(Restrict(g, A)) + Total(Restrict(g, S \ A))
  BY <1>1, TotalParts
<1>4. Total(Restrict(g, S \ A)) = 0
  BY <1>2, FS_Subset, TotalZero
<1>5. Total(Restrict(f, A)) \in Int
  BY TotalOfPart
<1> QED
  BY <1>2, <1>3, <1>4, <1>5 DEF g

\* and the size of a part as a sum.
LEMMA TotalCounts ==
    ASSUME NEW S, IsFiniteSet(S), NEW A \in SUBSET S
    PROVE  Total([x \in S |-> IF x \in A THEN 1 ELSE 0]) = Cardinality(A)
<1> DEFINE one == [x \in S |-> 1]
<1>1. one \in [S -> Int] /\ Restrict(one, A) = [x \in A |-> 1]
      /\ [x \in S |-> IF x \in A THEN one[x] ELSE 0] = [x \in S |-> IF x \in A THEN 1 ELSE 0]
  BY DEF Restrict
<1> HIDE DEF one
<1>2. Total(Restrict(one, A)) = Total([x \in S |-> IF x \in A THEN one[x] ELSE 0])
  BY <1>1, TotalMarked
<1>3. IsFiniteSet(A) /\ Cardinality(A) \in Nat
  BY FS_Subset, FS_CardinalityType
<1>4. 1 \in Int /\ \A m \in Nat : m * 1 = m
  OBVIOUS
<1>5. Total([x \in A |-> 1]) = Cardinality(A) * 1
  BY <1>3, <1>4, TotalConstant, Zenon
<1> QED
  BY <1>1, <1>2, <1>3, <1>4, <1>5

\* A sum over days from the first to the last but one is one from the second on.
LEMMA TotalShifted ==
    ASSUME NEW n \in Nat \ {0}, NEW f \in [2 .. n -> Int]
    PROVE  Total([t \in 1 .. n - 1 |-> f[t + 1]]) = Total(f)
<1> DEFINE S == 1 .. n - 1
           b == [t \in S |-> t + 1]
           g == [t \in 1 .. n - 1 |-> f[t + 1]]
<1>1. IsFiniteSet(S)
  <2>1. 1 \in Int /\ n - 1 \in Int
    OBVIOUS
  <2> QED
    BY <2>1, FS_Interval, Zenon
<1>2. b \in [S -> 2 .. n] /\ \A x, y \in S : b[x] = b[y] => x = y
  OBVIOUS
<1>3. ASSUME NEW t \in 2 .. n PROVE \E s \in S : b[s] = t
  <2>1. t - 1 \in S /\ (t - 1) + 1 = t
    OBVIOUS
  <2> QED
    BY <2>1
<1>4. g \in [S -> Int] /\ \A s \in S : g[s] = f[b[s]]
  OBVIOUS
<1> HIDE DEF S, b, g
<1>5. Renames(b, S, 2 .. n)
  BY <1>2, <1>3 DEF Renames
<1>6. Total(g) = Total(f)
  BY <1>1, <1>4, <1>5, TotalRenamed
<1> QED
  BY <1>6 DEF g

(***************************************************************************)
(* Paths: one of so many places after the other.                           *)
(***************************************************************************)
Paths(S, t) == [1 .. t -> S]
Cut(p, t) == [u \in 1 .. t |-> p[u]]
Extended(q, t, k) == [u \in 1 .. t + 1 |-> IF u = t + 1 THEN k ELSE q[u]]

LEMMA ExtendedIs ==
    ASSUME NEW S, NEW t \in Nat, NEW q \in Paths(S, t), NEW k \in S
    PROVE  /\ Extended(q, t, k) \in Paths(S, t + 1)
           /\ Extended(q, t, k)[t + 1] = k
           /\ \A u \in 1 .. t : Extended(q, t, k)[u] = q[u]
           /\ Cut(Extended(q, t, k), t) = q
<1>1. \A u \in 1 .. t + 1 : u # t + 1 => u \in 1 .. t
  OBVIOUS
<1>2. \A u \in 1 .. t : u \in 1 .. t + 1 /\ u # t + 1
  OBVIOUS
<1>3. t + 1 \in 1 .. t + 1
  OBVIOUS
<1>4. Extended(q, t, k) \in Paths(S, t + 1)
  BY <1>1 DEF Extended, Paths
<1>5. \A u \in 1 .. t : Extended(q, t, k)[u] = q[u]
  BY <1>2 DEF Extended
<1>6. Cut(Extended(q, t, k), t) = q
  <2> DEFINE e == Extended(q, t, k)
  <2> HIDE DEF e
  <2>1. Cut(e, t) = [u \in 1 .. t |-> q[u]]
    BY <1>5 DEF Cut, e
  <2>2. q = [u \in 1 .. t |-> q[u]]
    BY DEF Paths
  <2> QED
    BY <2>1, <2>2 DEF e
<1> QED
  BY <1>3, <1>4, <1>5, <1>6 DEF Extended

LEMMA CutIs ==
    ASSUME NEW S, NEW t \in Nat, NEW p \in Paths(S, t + 1)
    PROVE  /\ Cut(p, t) \in Paths(S, t) /\ p[t + 1] \in S
           /\ Extended(Cut(p, t), t, p[t + 1]) = p
<1>1. \A u \in 1 .. t : u \in 1 .. t + 1
  OBVIOUS
<1>2. t + 1 \in 1 .. t + 1 /\ \A u \in 1 .. t + 1 : u # t + 1 => u \in 1 .. t
  OBVIOUS
<1>3. Cut(p, t) \in Paths(S, t) /\ p[t + 1] \in S
  BY <1>1, <1>2 DEF Cut, Paths
<1>4. \A u \in 1 .. t : Cut(p, t)[u] = p[u]
  BY DEF Cut
<1>5. Extended(Cut(p, t), t, p[t + 1]) = [u \in 1 .. t + 1 |-> p[u]]
  BY <1>2, <1>4 DEF Extended
<1>6. p = [u \in 1 .. t + 1 |-> p[u]]
  BY DEF Paths
<1> QED
  BY <1>3, <1>5, <1>6

LEMMA PathsFinite ==
    ASSUME NEW S, IsFiniteSet(S), NEW t \in Nat
    PROVE  IsFiniteSet(Paths(S, t))
<1>1. IsFiniteSet(1 .. t)
  <2>1. 1 \in Int /\ t \in Int
    OBVIOUS
  <2> QED
    BY <2>1, FS_Interval, Zenon
<1> QED
  BY <1>1, FunctionsFinite DEF Paths

\* A sum over paths is one over the shorter paths and the last places.
OverLast(f, S, t, q) == Total([k \in S |-> f[Extended(q, t, k)]])

LEMMA TotalOfPaths ==
    ASSUME NEW S, IsFiniteSet(S), NEW t \in Nat, NEW f \in [Paths(S, t + 1) -> Int]
    PROVE  /\ \A q \in Paths(S, t) : OverLast(f, S, t, q) \in Int
           /\ Total(f) = Total([q \in Paths(S, t) |-> OverLast(f, S, t, q)])
<1> DEFINE Q == Paths(S, t)
           P == Paths(S, t + 1)
           group == [q \in Q |-> {p \in P : Cut(p, t) = q}]
<1>1. IsFiniteSet(Q) /\ IsFiniteSet(P)
  BY PathsFinite
<1>2. group \in [Q -> SUBSET P] /\ \A p, q \in Q : p # q => group[p] \cap group[q] = {}
  OBVIOUS
<1>3. UNION {group[q] : q \in Q} = P
  <2>1. \A p \in P : Cut(p, t) \in Q
    BY CutIs
  <2> HIDE DEF P, Q
  <2>2. \A p \in P : p \in group[Cut(p, t)]
    BY <2>1
  <2> QED
    BY <1>2, <2>1, <2>2
<1>4. ASSUME NEW q \in Q
      PROVE  /\ OverLast(f, S, t, q) \in Int
             /\ Total(Restrict(f, group[q])) = OverLast(f, S, t, q)
  <2> DEFINE b == [k \in S |-> Extended(q, t, k)]
             g == Restrict(f, group[q])
             here == group[q]
             h == [k \in S |-> f[Extended(q, t, k)]]
  <2>1. /\ b \in [S -> here] /\ \A x, y \in S : b[x] = b[y] => x = y
        /\ \A k \in S : Extended(q, t, k) \in P
    BY ExtendedIs
  <2>2. \A p \in here : \E k \in S : b[k] = p
    BY CutIs
  <2>3. g \in [here -> Int]
    BY DEF Restrict
  <2>4. here \in SUBSET P
    OBVIOUS
  <2>5. h \in [S -> Int] /\ \A k \in S : h[k] = g[b[k]]
    <3> HIDE DEF here, group
    <3>1. \A k \in S : b[k] \in here /\ b[k] = Extended(q, t, k)
      BY <2>1
    <3> HIDE DEF b
    <3>2. \A k \in S : g[b[k]] = f[Extended(q, t, k)]
      BY <3>1 DEF Restrict, here
    <3> HIDE DEF g, Q
    <3>3. \A k \in S : f[Extended(q, t, k)] \in Int
      BY <2>1
    <3> QED
      BY <3>2, <3>3
  <2>6. Renames(b, S, here)
    <3> HIDE DEF b, here
    <3> QED
      BY <2>1, <2>2 DEF Renames
  <2> HIDE DEF b, g, h, here, group
  <2>7. Total(h) = Total(g)
    BY <2>3, <2>5, <2>6, TotalRenamed
  <2>8. Total(h) \in Int
    BY <2>5, TotalInt
  <2> QED
    BY <2>7, <2>8 DEF g, h, OverLast
<1>5. Total([q \in Q |-> Total(Restrict(f, group[q]))]) = Total(Restrict(f, P))
  <2> HIDE DEF group, Q
  <2>1. f \in [P -> Int]
    OBVIOUS
  <2> HIDE DEF P
  <2> QED
    <3>1. UNION {group[r] : r \in Q} \subseteq P
      BY <1>3
    <3> QED
      BY <1>1, <1>2, <1>3, <2>1, <3>1, TotalGroups
<1>6. Restrict(f, P) = f
  BY RestrictToAll
<1>7. [q \in Q |-> Total(Restrict(f, group[q]))]
        = [q \in Q |-> OverLast(f, S, t, q)]
  <2> HIDE DEF group, Q
  <2> QED
    BY <1>4
<1> QED
  BY <1>4, <1>5, <1>6, <1>7

\* A sum over one point more.
LEMMA TotalWith ==
    ASSUME NEW K, IsFiniteSet(K), NEW n, n \notin K, NEW g \in [K \cup {n} -> Int],
           NEW h \in [K -> Int], \A k \in K : h[k] = g[k]
    PROVE  Total(g) = Total(h) + g[n] /\ Total(h) \in Int
<1> DEFINE S == K \cup {n}
<1>1. IsFiniteSet(S)
  BY FS_AddElement
<1>2. K \in SUBSET S /\ n \in S \ K
  OBVIOUS
<1>3. Restrict(g, S) = g
  BY DEF Restrict
<1>4. Restrict(g, K) = h
  <2>1. h = [k \in K |-> h[k]]
    OBVIOUS
  <2>2. [k \in K |-> g[k]] = [k \in K |-> h[k]]
    OBVIOUS
  <2> QED
    BY <2>1, <2>2 DEF Restrict
<1>5. Total(Restrict(g, K)) \in Int /\ Total(Restrict(g, K \cup {n})) = Total(Restrict(g, K)) + g[n]
  <2> HIDE DEF S
  <2>1. g \in [S -> Int]
    BY DEF S
  <2> QED
    BY <1>1, <1>2, <2>1, TotalAdd
<1> QED
  BY <1>3, <1>4, <1>5

Dot(K, a, x) == Total([k \in K |-> a[k] * x[k]])

LEMMA DotInt ==
    ASSUME NEW K, IsFiniteSet(K), NEW a \in [K -> Int], NEW x \in [K -> Int]
    PROVE  Dot(K, a, x) \in Int
<1>1. [k \in K |-> a[k] * x[k]] \in [K -> Int]
  OBVIOUS
<1> QED
  BY <1>1, TotalInt DEF Dot

IsCombined(row, a, q, b, c, K) ==
    /\ q \in Int /\ {row, a, b, c} \subseteq [K -> Int]
    /\ \A k \in K : row[k] = a[k] + q * b[k] - c[k]

\* A sum of products, taken row by row.
LEMMA DotOfRows ==
    ASSUME NEW K, IsFiniteSet(K), NEW row, NEW a, NEW q, NEW b, NEW c,
           IsCombined(row, a, q, b, c, K), NEW x \in [K -> Int]
    PROVE  Dot(K, row, x) = Dot(K, a, x) + q * Dot(K, b, x) - Dot(K, c, x)
<1> DEFINE ax == [k \in K |-> a[k] * x[k]]
           bx == [k \in K |-> b[k] * x[k]]
           cx == [k \in K |-> c[k] * x[k]]
           qb == [k \in K |-> q * bx[k]]
           mc == [k \in K |-> (-1) * cx[k]]
           ab == [k \in K |-> ax[k] + qb[k]]
           all == [k \in K |-> ab[k] + mc[k]]
           lhs == [k \in K |-> row[k] * x[k]]
<1>0. /\ q \in Int /\ row \in [K -> Int] /\ a \in [K -> Int] /\ b \in [K -> Int]
      /\ c \in [K -> Int] /\ \A k \in K : row[k] = a[k] + q * b[k] - c[k]
  BY DEF IsCombined
<1>1. /\ ax \in [K -> Int] /\ bx \in [K -> Int] /\ cx \in [K -> Int]
  BY <1>0
<1>2. lhs = all
  <2>1. \A u, v, w, y \in Int : (u + q * v - w) * y = (u * y + q * (v * y)) + (-1) * (w * y)
    BY <1>0
  <2>2. ASSUME NEW k \in K PROVE lhs[k] = all[k]
    <3>1. a[k] \in Int /\ b[k] \in Int /\ c[k] \in Int /\ x[k] \in Int
      BY <1>0
    <3>2. (a[k] + q * b[k] - c[k]) * x[k]
             = (a[k] * x[k] + q * (b[k] * x[k])) + (-1) * (c[k] * x[k])
      BY <1>0, <2>1, <3>1
    <3>3. all[k] = (a[k] * x[k] + q * (b[k] * x[k])) + (-1) * (c[k] * x[k])
      OBVIOUS
    <3>4. lhs[k] = (a[k] + q * b[k] - c[k]) * x[k]
      <4>1. lhs[k] = row[k] * x[k] /\ row[k] = a[k] + q * b[k] - c[k]
        BY <1>0
      <4> HIDE DEF lhs
      <4> QED
        BY <4>1
    <3> HIDE DEF lhs, all
    <3> QED
      BY <3>2, <3>3, <3>4
  <2>3. lhs = [k \in K |-> lhs[k]] /\ all = [k \in K |-> all[k]]
    OBVIOUS
  <2> HIDE DEF lhs, all
  <2> QED
    BY <2>2, <2>3
<1> HIDE DEF ax, bx, cx
<1>3. qb \in [K -> Int] /\ mc \in [K -> Int]
  BY <1>0, <1>1
<1>4. Total(qb) = q * Total(bx) /\ Total(mc) = (-1) * Total(cx)
  <2>1. q \in Int /\ -1 \in Int
    BY <1>0
  <2>2. \A e \in Int, g \in [K -> Int] : Total([k \in K |-> e * g[k]]) = e * Total(g)
    BY TotalTimes, Zenon
  <2> QED
    BY <1>1, <2>1, <2>2
<1>5. ab \in [K -> Int] /\ Total(ab) = Total(ax) + Total(qb)
  <2> HIDE DEF qb
  <2> QED
    BY <1>1, <1>3, TotalPlus
<1>6. Total(all) = Total(ab) + Total(mc)
  <2> HIDE DEF ab, mc
  <2> QED
    BY <1>3, <1>5, TotalPlus
<1>7. Total(ax) \in Int /\ Total(bx) \in Int /\ Total(cx) \in Int
  BY <1>1, TotalInt
<1>8. q * Total(bx) \in Int
  BY <1>0, <1>7
<1> HIDE DEF lhs, all, ab, mc, qb
<1>9. Total(lhs) = Total(ax) + q * Total(bx) - Total(cx)
  BY <1>2, <1>4, <1>5, <1>6, <1>7, <1>8
<1> QED
  BY <1>9 DEF Dot, lhs, ax, bx, cx
=============================================================================
