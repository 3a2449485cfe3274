---------------------------- MODULE RegimeProofs ----------------------------
(***************************************************************************)
(* Theorems about what the hidden Markov model of ExperimentRun is fitted  *)
(* and decoded with, for every World and every number of days: the two     *)
(* passes of Baum-Welch count over all paths there are, viterbi finds the  *)
(* best of them, the numbers of the states do not matter once they are     *)
(* sorted, and the clusters it starts from are in order.                   *)
(*                                                                         *)
(* The sums over paths are reduced to sums over the days before them       *)
(* (OneDay), which is what alpha and beta are.                             *)
(***************************************************************************)
EXTENDS ExperimentProofs

\* The same sum, of a function given point by point.
LEMMA TotalScaled ==
    ASSUME NEW S, IsFiniteSet(S), NEW f \in [S -> Int], NEW a \in Int,
           NEW g \in [S -> Int], \A x \in S : g[x] = a * f[x]
    PROVE  Total(g) = a * Total(f)
<1>1. g = [x \in S |-> a * f[x]]
  OBVIOUS
<1> QED
  BY <1>1, TotalTimes

(***************************************************************************)
(* A chain: a weight for each path, and what the two passes make of them   *)
(***************************************************************************)
\* What follows on day t + 1 upon each place, when h is what counts there.
Onward(c, t, h) ==
    [j \in c.places |-> Total([k \in c.places |-> c.step[t + 1][j][k] * h[k]])]

\* What comes to each place on day t + 1, when h is what was there.
Inward(c, t, h) ==
    [k \in c.places |-> Total([j \in c.places |-> h[j] * c.step[t + 1][j][k]])]

IsChain(c) ==
    /\ c.days \in Nat \ {0} /\ IsFiniteSet(c.places)
    /\ c.start \in [c.places -> Int]
    /\ c.step \in [2 .. c.days -> [c.places -> [c.places -> Int]]]

Weighed(c) ==
    /\ \A t \in 1 .. c.days : c.weight[t] \in [Paths(c.places, t) -> Int]
    /\ \A q \in Paths(c.places, 1) : c.weight[1][q] = c.start[q[1]]
    /\ \A t \in 1 .. c.days - 1 : \A q \in Paths(c.places, t) : \A k \in c.places :
          c.weight[t + 1][Extended(q, t, k)] = c.weight[t][q] * c.step[t + 1][q[t]][k]

Passed(c) ==
    /\ \A t \in 1 .. c.days : c.alpha[t] \in [c.places -> Int] /\ c.beta[t] \in [c.places -> Int]
    /\ c.alpha[1] = c.start
    /\ \A t \in 1 .. c.days - 1 : c.alpha[t + 1] = Inward(c, t, c.alpha[t])
    /\ \A k \in c.places : c.beta[c.days][k] = 1
    /\ \A t \in 1 .. c.days - 1 : c.beta[t] = Onward(c, t, c.beta[t + 1])

LEMMA OnwardIs ==
    ASSUME NEW c, IsChain(c), NEW t \in 1 .. c.days - 1, NEW h \in [c.places -> Int]
    PROVE  /\ Onward(c, t, h) \in [c.places -> Int]
           /\ \A j \in c.places :
                 /\ [k \in c.places |-> c.step[t + 1][j][k] * h[k]] \in [c.places -> Int]
                 /\ Onward(c, t, h)[j] = Total([k \in c.places |-> c.step[t + 1][j][k] * h[k]])
<1>1. IsFiniteSet(c.places) /\ c.days \in Nat
  BY DEF IsChain
<1>2. t + 1 \in 2 .. c.days
  BY <1>1
<1>3. c.step[t + 1] \in [c.places -> [c.places -> Int]]
  BY <1>2 DEF IsChain
<1> DEFINE step == c.step[t + 1]
<1> HIDE DEF step
<1>4. \A j \in c.places : [k \in c.places |-> step[j][k] * h[k]] \in [c.places -> Int]
  BY <1>3 DEF step
<1>5. \A j \in c.places : Total([k \in c.places |-> step[j][k] * h[k]]) \in Int
  <2> TAKE j \in c.places
  <2> DEFINE f == [k \in c.places |-> step[j][k] * h[k]]
  <2>1. f \in [c.places -> Int]
    BY <1>4
  <2> HIDE DEF f
  <2>2. Total(f) \in Int
    BY <1>1, <2>1, TotalInt
  <2> QED
    BY <2>2 DEF f
<1>6. Onward(c, t, h) = [j \in c.places |-> Total([k \in c.places |-> step[j][k] * h[k]])]
  BY DEF Onward, step
<1> QED
  BY <1>4, <1>5, <1>6 DEF step

\* The paths to day t + 1, by the day before.
LEMMA OneDay ==
    ASSUME NEW c, IsChain(c), Weighed(c), NEW t \in 1 .. c.days - 1,
           NEW h \in [c.places -> Int], NEW g \in [Paths(c.places, t) -> Int]
    PROVE  Total([r \in Paths(c.places, t + 1) |->
                    c.weight[t + 1][r] * h[r[t + 1]] * g[Cut(r, t)]])
           = Total([q \in Paths(c.places, t) |->
                    c.weight[t][q] * Onward(c, t, h)[q[t]] * g[q]])
<1> DEFINE S == c.places
           Q == Paths(S, t)
           R == Paths(S, t + 1)
           V == c.weight[t]
           W == c.weight[t + 1]
           step == c.step[t + 1]
           on == Onward(c, t, h)
           f == [r \in R |-> W[r] * h[r[t + 1]] * g[Cut(r, t)]]
<1>1. /\ IsFiniteSet(S) /\ t \in Nat \ {0} /\ t \in 1 .. t /\ t \in 1 .. c.days
      /\ t + 1 \in 1 .. c.days /\ t + 1 \in 2 .. c.days
  BY DEF IsChain
<1>2. /\ V \in [Q -> Int] /\ W \in [R -> Int] /\ step \in [S -> [S -> Int]]
      /\ \A q \in Q : \A k \in S : W[Extended(q, t, k)] = V[q] * step[q[t]][k]
  BY <1>1 DEF IsChain, Weighed
<1>3. /\ on \in [S -> Int]
      /\ \A j \in S : /\ [k \in S |-> step[j][k] * h[k]] \in [S -> Int]
                      /\ on[j] = Total([k \in S |-> step[j][k] * h[k]])
  BY OnwardIs
<1>4. h \in [S -> Int] /\ g \in [Q -> Int]
  OBVIOUS
<1>5. \A q \in Q : q[t] \in S
  BY <1>1 DEF Paths
<1> HIDE DEF S, V, W, step, on
<1>6. f \in [R -> Int]
  <2>1. ASSUME NEW r \in R PROVE W[r] * h[r[t + 1]] * g[Cut(r, t)] \in Int
    <3>1. Cut(r, t) \in Q /\ r[t + 1] \in S
      BY <1>1, CutIs
    <3>2. W[r] \in Int /\ h[r[t + 1]] \in Int /\ g[Cut(r, t)] \in Int
      BY <1>2, <1>4, <3>1
    <3>3. \A x, y, z \in Int : x * y * z \in Int
      OBVIOUS
    <3> QED
      BY <3>2, <3>3
  <2> QED
    BY <2>1
<1>7. ASSUME NEW q \in Q
      PROVE  OverLast(f, S, t, q) = V[q] * on[q[t]] * g[q]
  <2> DEFINE a == V[q] * g[q]
             u == [k \in S |-> step[q[t]][k] * h[k]]
             w == [k \in S |-> f[Extended(q, t, k)]]
  <2>1. V[q] \in Int /\ g[q] \in Int /\ q[t] \in S /\ on[q[t]] \in Int
    BY <1>2, <1>3, <1>4, <1>5
  <2>2. a \in Int
    <3>1. \A x, y \in Int : x * y \in Int
      OBVIOUS
    <3> QED
      BY <2>1, <3>1
  <2>3. u \in [S -> Int] /\ on[q[t]] = Total(u)
    BY <1>3, <2>1
  <2>4. ASSUME NEW k \in S PROVE w[k] = a * u[k] /\ w[k] \in Int
    <3>1. /\ Extended(q, t, k) \in R /\ Extended(q, t, k)[t + 1] = k
          /\ Cut(Extended(q, t, k), t) = q
      BY <1>1, ExtendedIs
    <3>2. w[k] = W[Extended(q, t, k)] * h[k] * g[q]
      BY <3>1
    <3>3. w[k] = (V[q] * step[q[t]][k]) * h[k] * g[q]
      BY <1>2, <3>2
    <3>4. V[q] \in Int /\ g[q] \in Int /\ step[q[t]][k] \in Int /\ h[k] \in Int
      BY <1>2, <1>4, <2>1
    <3>5. \A v, s, x, y \in Int : (v * s) * x * y = (v * y) * (s * x) /\ (v * y) * (s * x) \in Int
      OBVIOUS
    <3>6. u[k] = step[q[t]][k] * h[k]
      OBVIOUS
    <3> HIDE DEF u, w
    <3> QED
      BY <3>3, <3>4, <3>5, <3>6
  <2>5. w = [k \in S |-> w[k]]
    OBVIOUS
  <2> HIDE DEF a, u, w
  <2>6. w \in [S -> Int]
    BY <2>4, <2>5
  <2>7. Total(w) = a * Total(u)
    BY <1>1, <2>2, <2>3, <2>4, <2>6, TotalScaled
  <2>8. \A v, x, y \in Int : (v * y) * x = v * x * y
    OBVIOUS
  <2> QED
    BY <2>1, <2>3, <2>7, <2>8 DEF a, w, OverLast
<1> HIDE DEF f
<1>8. Total(f) = Total([q \in Q |-> OverLast(f, S, t, q)])
  BY <1>1, <1>6, TotalOfPaths
<1>9. [q \in Q |-> OverLast(f, S, t, q)] = [q \in Q |-> V[q] * on[q[t]] * g[q]]
  <2> HIDE DEF Q
  <2> QED
    BY <1>7
<1> QED
  BY <1>8, <1>9 DEF f, S, V, W, on

\* A count of the first t days of a path: over all paths, and over those to
\* day t, each with all that may follow.
Through(c, t, g) ==
    Total([p \in Paths(c.places, c.days) |-> c.weight[c.days][p] * g[Cut(p, t)]])
UpTo(c, t, g) ==
    Total([q \in Paths(c.places, t) |-> c.weight[t][q] * c.beta[t][q[t]] * g[q]])

LEMMA CutOfCut ==
    ASSUME NEW S, NEW n \in Nat, NEW t \in 1 .. n, NEW p \in Paths(S, n)
    PROVE  /\ Cut(p, t) \in Paths(S, t)
           /\ \A u \in 1 .. t : Cut(p, t)[u] = p[u]
           /\ \A s \in 1 .. t : Cut(Cut(p, t), s) = Cut(p, s)
<1>1. \A u \in 1 .. t : u \in 1 .. n
  OBVIOUS
<1>2. Cut(p, t) \in Paths(S, t)
  BY <1>1 DEF Cut, Paths
<1>3. \A u \in 1 .. t : Cut(p, t)[u] = p[u]
  BY DEF Cut
<1>4. ASSUME NEW s \in 1 .. t PROVE Cut(Cut(p, t), s) = Cut(p, s)
  <2> DEFINE e == Cut(p, t)
  <2>1. \A u \in 1 .. s : u \in 1 .. t
    OBVIOUS
  <2>2. \A u \in 1 .. s : e[u] = p[u]
    BY <1>3, <2>1
  <2> HIDE DEF e
  <2>3. Cut(e, s) = Cut(p, s)
    BY <2>2 DEF Cut
  <2> QED
    BY <2>3 DEF e
<1> QED
  BY <1>2, <1>3, <1>4

LEMMA CutWhole ==
    ASSUME NEW S, NEW n \in Nat, NEW p \in Paths(S, n)
    PROVE  Cut(p, n) = p
  BY DEF Cut, Paths

LEMMA FromThere ==
    ASSUME NEW c, IsChain(c), Weighed(c), Passed(c), NEW d \in 1 .. c.days,
           NEW g \in [Paths(c.places, d) -> Int]
    PROVE  Through(c, d, g) = UpTo(c, d, g)
<1> DEFINE n == c.days
           S == c.places
           Good(t) == \A i \in [Paths(S, t) -> Int] : Through(c, t, i) = UpTo(c, t, i)
           C == {s \in Nat : \A t \in 1 .. n : t = n - s => Good(t)}
<1>1. n \in Nat \ {0} /\ IsFiniteSet(S) /\ n \in 1 .. n
  BY DEF IsChain
<1>2. Good(n)
  <2> SUFFICES ASSUME NEW i \in [Paths(S, n) -> Int]
               PROVE  Through(c, n, i) = UpTo(c, n, i)
    OBVIOUS
  <2> DEFINE W == c.weight[n]
             P == Paths(S, n)
  <2>1. W \in [P -> Int] /\ \A k \in S : c.beta[n][k] = 1
    BY <1>1 DEF Weighed, Passed
  <2>2. \A p \in P : p[n] \in S /\ Cut(p, n) = p
    <3>1. \A p \in P : p[n] \in S
      BY <1>1 DEF Paths
    <3>2. \A p \in P : Cut(p, n) = p
      BY <1>1, CutWhole
    <3> QED
      BY <3>1, <3>2
  <2>3. \A p \in P : W[p] * i[Cut(p, n)] = W[p] * c.beta[n][p[n]] * i[p]
    <3> HIDE DEF W, P
    <3>1. \A x, y \in Int : x * 1 * y = x * y
      OBVIOUS
    <3>2. \A p \in P : W[p] \in Int /\ i[p] \in Int
      BY <2>1 DEF P
    <3>3. \A p \in P : c.beta[n][p[n]] = 1 /\ i[Cut(p, n)] = i[p]
      BY <2>1, <2>2
    <3> QED
      BY <3>1, <3>2, <3>3
  <2>4. [p \in P |-> W[p] * i[Cut(p, n)]] = [p \in P |-> W[p] * c.beta[n][p[n]] * i[p]]
    <3> HIDE DEF W, P
    <3> QED
      BY <2>3
  <2> QED
    BY <2>4 DEF Through, UpTo
<1>3. ASSUME NEW t \in 1 .. n - 1, Good(t + 1) PROVE Good(t)
  <2> SUFFICES ASSUME NEW i \in [Paths(S, t) -> Int]
               PROVE  Through(c, t, i) = UpTo(c, t, i)
    OBVIOUS
  <2> DEFINE R == Paths(S, t + 1)
             j == [r \in R |-> i[Cut(r, t)]]
             h == c.beta[t + 1]
  <2>1. t \in 1 .. t + 1 /\ t + 1 \in 1 .. n /\ t \in 1 .. n /\ t + 1 \in Nat
    BY <1>1
  <2>2. \A r \in R : Cut(r, t) \in Paths(S, t)
    BY <2>1, CutOfCut
  <2>3. j \in [R -> Int] /\ \A r \in R : j[r] = i[Cut(r, t)]
    BY <2>2
  <2>4. h \in [S -> Int] /\ c.beta[t] = Onward(c, t, h)
    BY <2>1 DEF Passed
  <2> HIDE DEF j, h
  <2>5. Through(c, t, i) = Through(c, t + 1, j)
    <3>1. ASSUME NEW p \in Paths(S, n) PROVE j[Cut(p, t + 1)] = i[Cut(p, t)]
      <4>1. Cut(p, t + 1) \in R /\ Cut(Cut(p, t + 1), t) = Cut(p, t)
        BY <1>1, <2>1, CutOfCut
      <4> QED
        BY <2>3, <4>1
    <3>2. [p \in Paths(S, n) |-> c.weight[n][p] * i[Cut(p, t)]]
            = [p \in Paths(S, n) |-> c.weight[n][p] * j[Cut(p, t + 1)]]
      BY <3>1
    <3> QED
      BY <3>2 DEF Through
  <2>6. Through(c, t + 1, j) = UpTo(c, t + 1, j)
    BY <1>3, <2>3
  <2>7. UpTo(c, t + 1, j) = Total([r \in R |-> c.weight[t + 1][r] * h[r[t + 1]] * i[Cut(r, t)]])
    <3>1. \A r \in R : c.weight[t + 1][r] * c.beta[t + 1][r[t + 1]] * j[r]
                        = c.weight[t + 1][r] * h[r[t + 1]] * i[Cut(r, t)]
      BY <2>3 DEF h
    <3> HIDE DEF R
    <3>2. [r \in R |-> c.weight[t + 1][r] * c.beta[t + 1][r[t + 1]] * j[r]]
            = [r \in R |-> c.weight[t + 1][r] * h[r[t + 1]] * i[Cut(r, t)]]
      BY <3>1
    <3> QED
      BY <3>2 DEF UpTo, R
  <2>8. Total([r \in R |-> c.weight[t + 1][r] * h[r[t + 1]] * i[Cut(r, t)]])
          = Total([q \in Paths(S, t) |-> c.weight[t][q] * Onward(c, t, h)[q[t]] * i[q]])
    BY <2>4, OneDay
  <2> QED
    BY <2>4, <2>5, <2>6, <2>7, <2>8 DEF UpTo
<1> HIDE DEF Good
<1>4. 0 \in C
  <2>1. \A t \in 1 .. n : t = n - 0 => t = n
    BY <1>1
  <2> QED
    BY <1>2, <2>1
<1>5. ASSUME NEW s \in Nat, s \in C PROVE s + 1 \in C
  <2> SUFFICES ASSUME NEW t \in 1 .. n, t = n - (s + 1) PROVE Good(t)
    OBVIOUS
  <2>1. t \in 1 .. n - 1 /\ t + 1 = n - s /\ t + 1 \in 1 .. n
    BY <1>1
  <2>2. Good(t + 1)
    BY <1>5, <2>1
  <2> QED
    BY <1>3, <2>1, <2>2
<1>6. n - d \in C
  <2>1. n - d \in Nat
    BY <1>1
  <2> HIDE DEF C
  <2>2. Nat \subseteq C
    BY <1>4, <1>5, NumberInduction
  <2> QED
    BY <2>1, <2>2
<1>7. n - (n - d) = d
  BY <1>1
<1>8. Good(d)
  BY <1>6, <1>7
<1> QED
  BY <1>8 DEF Good

\* What is counted of the last place of the paths to day t.
LEMMA ToThere ==
    ASSUME NEW c, IsChain(c), Weighed(c), Passed(c), NEW d \in 1 .. c.days,
           NEW e \in [c.places -> Int]
    PROVE  Total([q \in Paths(c.places, d) |-> c.weight[d][q] * e[q[d]]])
           = Total([k \in c.places |-> c.alpha[d][k] * e[k]])
<1> DEFINE n == c.days
           S == c.places
           SumOver(t, h) == Total([q \in Paths(S, t) |-> c.weight[t][q] * h[q[t]]])
           Adds(t, h) == Total([k \in S |-> c.alpha[t][k] * h[k]])
           Good(t) == \A h \in [S -> Int] : SumOver(t, h) = Adds(t, h)
           C == {s \in Nat : \A t \in 1 .. n : t = s + 1 => Good(t)}
<1>1. n \in Nat \ {0} /\ IsFiniteSet(S) /\ 1 \in 1 .. n
  BY DEF IsChain
<1>2. Good(1)
  <2> SUFFICES ASSUME NEW h \in [S -> Int] PROVE SumOver(1, h) = Adds(1, h)
    OBVIOUS
  <2> DEFINE P == Paths(S, 1)
             b == [p \in P |-> p[1]]
             f == [k \in S |-> c.alpha[1][k] * h[k]]
             g == [p \in P |-> c.weight[1][p] * h[p[1]]]
  <2>1. c.alpha[1] \in [S -> Int] /\ \A p \in P : c.weight[1][p] = c.alpha[1][p[1]]
    BY <1>1 DEF Weighed, Passed, IsChain
  <2>2. IsFiniteSet(P)
    BY <1>1, PathsFinite
  <2>3. \A p \in P : p[1] \in S
    BY DEF Paths
  <2>4. \A p, q \in P : p[1] = q[1] => p = q
    <3> SUFFICES ASSUME NEW p \in P, NEW q \in P, p[1] = q[1] PROVE p = q
      OBVIOUS
    <3>1. DOMAIN p = 1 .. 1 /\ DOMAIN q = 1 .. 1 /\ p = [u \in 1 .. 1 |-> p[u]]
          /\ q = [u \in 1 .. 1 |-> q[u]]
      BY DEF Paths
    <3>2. \A u \in 1 .. 1 : u = 1
      OBVIOUS
    <3>3. \A u \in 1 .. 1 : p[u] = q[u]
      BY <3>2
    <3> QED
      BY <3>1, <3>3
  <2>5. \A k \in S : \E p \in P : p[1] = k
    <3> TAKE k \in S
    <3> DEFINE p == [u \in 1 .. 1 |-> k]
    <3>1. p \in P /\ p[1] = k
      BY DEF Paths
    <3> QED
      BY <3>1
  <2>6. \A x, y \in Int : x * y \in Int
    OBVIOUS
  <2>7. f \in [S -> Int] /\ g \in [P -> Int] /\ \A p \in P : g[p] = f[p[1]]
    <3> HIDE DEF P
    <3> QED
      BY <2>1, <2>3, <2>6
  <2>8. Renames(b, P, S) /\ \A p \in P : b[p] = p[1]
    <3> HIDE DEF P
    <3> QED
      BY <2>3, <2>4, <2>5 DEF Renames
  <2>9. \A p \in P : g[p] = f[b[p]]
    <3> HIDE DEF b, f, g, P
    <3> QED
      BY <2>7, <2>8
  <2> HIDE DEF b, f, g, P
  <2>10. Total(g) = Total(f)
    BY <2>2, <2>7, <2>8, <2>9, TotalRenamed
  <2> QED
    BY <2>10 DEF f, g, P
<1>3. ASSUME NEW t \in 1 .. n - 1, Good(t) PROVE Good(t + 1)
  <2> SUFFICES ASSUME NEW h \in [S -> Int] PROVE SumOver(t + 1, h) = Adds(t + 1, h)
    OBVIOUS
  <2> DEFINE R == Paths(S, t + 1)
             Q == Paths(S, t)
             one == [q \in Q |-> 1]
             on == Onward(c, t, h)
             step == c.step[t + 1]
             a == c.alpha[t]
  <2>1. t + 1 \in 1 .. n /\ t + 1 \in 2 .. n /\ t \in 1 .. n /\ t \in 1 .. t + 1 /\ t \in 1 .. t
        /\ t + 1 \in Nat /\ t \in Nat /\ t + 1 \in 1 .. t + 1
    BY <1>1
  <2>2. one \in [Q -> Int] /\ \A q \in Q : one[q] = 1
    OBVIOUS
  <2>3. on \in [S -> Int] /\ \A j \in S : on[j] = Total([k \in S |-> step[j][k] * h[k]])
    <3>1. /\ on \in [S -> Int]
          /\ \A j \in S : /\ [k \in S |-> step[j][k] * h[k]] \in [S -> Int]
                          /\ on[j] = Total([k \in S |-> step[j][k] * h[k]])
      BY OnwardIs
    <3> HIDE DEF on, step, S
    <3> QED
      BY <3>1
  <2>4. a \in [S -> Int] /\ c.alpha[t + 1] = Inward(c, t, a) /\ step \in [S -> [S -> Int]]
    BY <2>1 DEF Passed, IsChain
  <2>5. /\ c.weight[t] \in [Q -> Int] /\ c.weight[t + 1] \in [R -> Int]
        /\ \A q \in Q : q[t] \in S
        /\ \A r \in R : r[t + 1] \in S /\ Cut(r, t) \in Q
    <3>1. c.weight[t] \in [Q -> Int] /\ c.weight[t + 1] \in [R -> Int]
      BY <2>1 DEF Weighed
    <3>2. \A q \in Q : q[t] \in S
      BY <2>1 DEF Paths
    <3>3. \A r \in R : r[t + 1] \in S
      BY <2>1 DEF Paths
    <3>4. \A r \in R : Cut(r, t) \in Q
      BY <2>1, CutOfCut
    <3> QED
      BY <3>1, <3>2, <3>3, <3>4
  <2> HIDE DEF one, on, step, a, R, Q
  <2>6. SumOver(t + 1, h) = Total([r \in R |-> c.weight[t + 1][r] * h[r[t + 1]] * one[Cut(r, t)]])
    <3>1. \A x \in Int, y \in Int : x * y * 1 = x * y
      OBVIOUS
    <3>2. \A r \in R : c.weight[t + 1][r] \in Int /\ h[r[t + 1]] \in Int /\ one[Cut(r, t)] = 1
      BY <2>2, <2>5
    <3>3. \A r \in R : c.weight[t + 1][r] * h[r[t + 1]] * one[Cut(r, t)]
                        = c.weight[t + 1][r] * h[r[t + 1]]
      BY <3>1, <3>2
    <3>4. [r \in R |-> c.weight[t + 1][r] * h[r[t + 1]] * one[Cut(r, t)]]
            = [r \in R |-> c.weight[t + 1][r] * h[r[t + 1]]]
      BY <3>3
    <3> QED
      BY <3>4 DEF R
  <2>7. Total([r \in R |-> c.weight[t + 1][r] * h[r[t + 1]] * one[Cut(r, t)]])
          = Total([q \in Q |-> c.weight[t][q] * Onward(c, t, h)[q[t]] * one[q]])
    <3> HIDE DEF S
    <3>1. one \in [Paths(c.places, t) -> Int] /\ h \in [c.places -> Int]
      BY <2>2 DEF Q, S
    <3>2. Total([r \in Paths(c.places, t + 1) |->
                    c.weight[t + 1][r] * h[r[t + 1]] * one[Cut(r, t)]])
           = Total([q \in Paths(c.places, t) |->
                    c.weight[t][q] * Onward(c, t, h)[q[t]] * one[q]])
      BY <3>1, OneDay
    <3> QED
      BY <3>2 DEF Q, R, S
  <2>8. Total([q \in Q |-> c.weight[t][q] * Onward(c, t, h)[q[t]] * one[q]]) = SumOver(t, on)
    <3>1. \A x \in Int, y \in Int : x * y * 1 = x * y
      OBVIOUS
    <3>2. \A q \in Q : c.weight[t][q] \in Int /\ on[q[t]] \in Int /\ one[q] = 1
      BY <2>2, <2>3, <2>5
    <3>3. \A q \in Q : c.weight[t][q] * on[q[t]] * one[q] = c.weight[t][q] * on[q[t]]
      BY <3>1, <3>2
    <3>4. [q \in Q |-> c.weight[t][q] * on[q[t]] * one[q]]
            = [q \in Q |-> c.weight[t][q] * on[q[t]]]
      BY <3>3
    <3> QED
      BY <3>4 DEF Q, on
  <2>9. SumOver(t, on) = Adds(t, on)
    BY <1>3, <2>3
  <2>10. Adds(t, on) = TimesRows(a, step, h, S, S)
    <3>1. [j \in S |-> a[j] * on[j]]
            = [j \in S |-> a[j] * Total([k \in S |-> step[j][k] * h[k]])]
      BY <2>3
    <3> QED
      BY <3>1 DEF TimesRows, a
  <2>11. TimesRows(a, step, h, S, S) = TimesColumns(a, step, h, S, S)
    <3>1. /\ IsFiniteSet(S) /\ a \in [S -> Int] /\ h \in [S -> Int]
          /\ step \in [S -> [S -> Int]]
      BY <1>1, <2>4
    <3> HIDE DEF S, SumOver, Adds, C
    <3> QED
      BY <3>1, TotalBilinear
  <2>12. TimesColumns(a, step, h, S, S) = Adds(t + 1, h)
    <3> DEFINE v == c.alpha[t + 1]
    <3>1. v \in [S -> Int] /\ v = [k \in S |-> Total([j \in S |-> a[j] * step[j][k]])]
      BY <2>1, <2>4 DEF Passed, Inward, step
    <3>2. \A k \in S : v[k] = Total([j \in S |-> a[j] * step[j][k]])
      BY <3>1
    <3> HIDE DEF v
    <3>3. \A k \in S : v[k] \in Int /\ h[k] \in Int
      BY <3>1
    <3>4. \A x, y \in Int : x * y = y * x
      OBVIOUS
    <3>5. \A k \in S : h[k] * Total([j \in S |-> a[j] * step[j][k]]) = v[k] * h[k]
      BY <3>2, <3>3, <3>4
    <3>6. [k \in S |-> h[k] * Total([j \in S |-> a[j] * step[j][k]])] = [k \in S |-> v[k] * h[k]]
      BY <3>5
    <3> QED
      BY <3>6 DEF TimesColumns, v
  <2> HIDE DEF SumOver, Adds
  <2> QED
    BY <2>6, <2>7, <2>8, <2>9, <2>10, <2>11, <2>12
<1> HIDE DEF Good
<1>4. 0 \in C
  <2>1. \A t \in 1 .. n : t = 0 + 1 => t = 1
    OBVIOUS
  <2> QED
    BY <1>2, <2>1
<1>5. ASSUME NEW s \in Nat, s \in C PROVE s + 1 \in C
  <2> SUFFICES ASSUME NEW r \in 1 .. n, r = (s + 1) + 1 PROVE Good(r)
    OBVIOUS
  <2>1. s + 1 \in 1 .. n - 1 /\ s + 1 \in 1 .. n
    BY <1>1
  <2> DEFINE t == s + 1
  <2>2. t \in 1 .. n - 1 /\ r = t + 1
    BY <2>1
  <2>3. Good(t)
    BY <1>5, <2>1
  <2> HIDE DEF t
  <2> QED
    BY <1>3, <2>2, <2>3
<1>6. d - 1 \in Nat /\ (d - 1) + 1 = d
  BY <1>1
<1>7. d - 1 \in C
  <2> HIDE DEF C
  <2>2. Nat \subseteq C
    BY <1>4, <1>5, NumberInduction
  <2> QED
    BY <1>6, <2>2
<1>8. Good(d)
  BY <1>6, <1>7
<1> QED
  BY <1>8 DEF Good

\* What the two passes say of a day: the weight of the paths by their place on
\* it,
LEMMA DayWeight ==
    ASSUME NEW c, IsChain(c), Weighed(c), Passed(c), NEW d \in 1 .. c.days,
           NEW k \in c.places, NEW v \in Int,
           NEW f \in [Paths(c.places, c.days) -> Int],
           \A p \in Paths(c.places, c.days) :
              f[p] = c.weight[c.days][p] * (IF p[d] = k THEN v ELSE 0)
    PROVE  Total(f) = c.alpha[d][k] * c.beta[d][k] * v
<1> DEFINE n == c.days
           S == c.places
           P == Paths(S, n)
           Q == Paths(S, d)
           e == [l \in S |-> IF l = k THEN v ELSE 0]
           g == [q \in Q |-> e[q[d]]]
           b == c.beta[d]
           h == [l \in S |-> b[l] * e[l]]
           a == c.alpha[d]
           i == [l \in S |-> a[l] * h[l]]
           W == c.weight[d]
<1>1. n \in Nat \ {0} /\ IsFiniteSet(S) /\ d \in 1 .. n /\ d \in Nat /\ d \in 1 .. d
      /\ n \in 1 .. n
  BY DEF IsChain
<1>2. e \in [S -> Int]
  OBVIOUS
<1>3. /\ a \in [S -> Int] /\ b \in [S -> Int] /\ W \in [Q -> Int]
      /\ c.weight[n] \in [P -> Int]
  BY <1>1 DEF Passed, Weighed
<1>4. \A q \in Q : q[d] \in S
  BY <1>1 DEF Paths
<1>5. \A p \in P : Cut(p, d) \in Q /\ Cut(p, d)[d] = p[d]
  BY <1>1, CutOfCut
<1>6. \A x, y \in Int : x * y \in Int
  OBVIOUS
<1>7. g \in [Q -> Int] /\ h \in [S -> Int] /\ i \in [S -> Int]
  <2> HIDE DEF Q, S, e, a, b
  <2>1. g \in [Q -> Int]
    BY <1>2, <1>4
  <2>2. h \in [S -> Int]
    BY <1>2, <1>3, <1>6
  <2> HIDE DEF h
  <2>3. i \in [S -> Int]
    BY <1>3, <1>6, <2>2
  <2> QED
    BY <2>1, <2>2, <2>3
<1>8. Through(c, d, g) = UpTo(c, d, g)
  <2> HIDE DEF g
  <2> QED
    BY <1>7, FromThere
<1>9. Through(c, d, g) = Total(f)
  <2>1. \A p \in P : f[p] = c.weight[n][p] * g[Cut(p, d)]
    <3>1. \A p \in P : g[Cut(p, d)] = e[p[d]] /\ p[d] \in S
      <4> HIDE DEF P, Q, e
      <4>1. \A p \in P : g[Cut(p, d)] = e[p[d]]
        BY <1>5
      <4>2. \A p \in P : p[d] \in S
        BY <1>4, <1>5
      <4> QED
        BY <4>1, <4>2
    <3>2. \A p \in P : e[p[d]] = IF p[d] = k THEN v ELSE 0
      BY <3>1
    <3> HIDE DEF g, e
    <3> QED
      BY <3>1, <3>2
  <2>2. f = [p \in P |-> f[p]]
    OBVIOUS
  <2> HIDE DEF P, g
  <2>3. f = [p \in P |-> c.weight[n][p] * g[Cut(p, d)]]
    BY <2>1, <2>2
  <2> QED
    BY <2>3 DEF Through, P
<1>10. UpTo(c, d, g) = Total([q \in Q |-> W[q] * h[q[d]]])
  <2>1. \A q \in Q : c.beta[d][q[d]] = b[q[d]] /\ g[q] = e[q[d]] /\ h[q[d]] = b[q[d]] * e[q[d]]
    <3> HIDE DEF Q, e, b
    <3>1. \A q \in Q : g[q] = e[q[d]] /\ h[q[d]] = b[q[d]] * e[q[d]]
      BY <1>4
    <3> QED
      BY <3>1 DEF b
  <2> HIDE DEF Q, W, b, e, g, h, S
  <2>2. \A q \in Q : W[q] \in Int /\ b[q[d]] \in Int /\ e[q[d]] \in Int
    BY <1>2, <1>3, <1>4
  <2>3. \A x, y, z \in Int : x * y * z = x * (y * z)
    OBVIOUS
  <2>4. \A q \in Q : W[q] * c.beta[d][q[d]] * g[q] = W[q] * h[q[d]]
    BY <2>1, <2>2, <2>3
  <2>5. [q \in Q |-> W[q] * c.beta[d][q[d]] * g[q]] = [q \in Q |-> W[q] * h[q[d]]]
    BY <2>4
  <2> QED
    BY <2>5 DEF UpTo, Q, W, S
<1>11. Total([q \in Q |-> W[q] * h[q[d]]]) = Total(i)
  <2> HIDE DEF h
  <2>1. Total([q \in Paths(c.places, d) |-> c.weight[d][q] * h[q[d]]])
           = Total([l \in c.places |-> c.alpha[d][l] * h[l]])
    BY <1>7, ToThere
  <2> QED
    BY <2>1
<1>12. Total(i) = a[k] * b[k] * v
  <2>1. \A l \in S : i[l] = a[l] * h[l] /\ h[l] = b[l] * e[l]
    <3> HIDE DEF a, b, e
    <3> QED
      OBVIOUS
  <2>2. \A l \in S : l # k => e[l] = 0
    OBVIOUS
  <2>3. e[k] = v
    OBVIOUS
  <2> HIDE DEF a, b, e, h, i, S
  <2>4. k \in S
    BY DEF S
  <2>5. \A l \in S : a[l] \in Int /\ b[l] \in Int
    BY <1>3
  <2>6. \A x, y \in Int : x * (y * 0) = 0
    OBVIOUS
  <2>7. \A l \in S : l # k => i[l] = 0
    BY <2>1, <2>2, <2>5, <2>6
  <2>8. Total(i) = i[k]
    BY <1>1, <1>7, <2>4, <2>7, TotalOne
  <2>9. \A x, y, z \in Int : x * (y * z) = x * y * z
    OBVIOUS
  <2> QED
    BY <2>1, <2>3, <2>4, <2>5, <2>8, <2>9
<1> HIDE DEF a, b, g, h, i, Q, W
<1>13. Total(f) = a[k] * b[k] * v
  BY <1>8, <1>9, <1>10, <1>11, <1>12
<1> QED
  BY <1>13 DEF a, b

\* and by the move they make from it.
LEMMA MoveWeight ==
    ASSUME NEW c, IsChain(c), Weighed(c), Passed(c), NEW d \in 1 .. c.days - 1,
           NEW j \in c.places, NEW k \in c.places,
           NEW f \in [Paths(c.places, c.days) -> Int],
           \A p \in Paths(c.places, c.days) :
              f[p] = c.weight[c.days][p] * (IF p[d] = j /\ p[d + 1] = k THEN 1 ELSE 0)
    PROVE  Total(f) = c.alpha[d][j] * c.step[d + 1][j][k] * c.beta[d + 1][k]
<1> DEFINE n == c.days
           S == c.places
           P == Paths(S, n)
           R == Paths(S, d + 1)
           Q == Paths(S, d)
           b == c.beta[d + 1]
           a == c.alpha[d]
           step == c.step[d + 1]
           V == c.weight[d]
           W == c.weight[d + 1]
           h == [l \in S |-> IF l = k THEN b[k] ELSE 0]
           i == [q \in Q |-> IF q[d] = j THEN 1 ELSE 0]
           g == [r \in R |-> IF r[d] = j /\ r[d + 1] = k THEN 1 ELSE 0]
           on == Onward(c, d, h)
           e == [l \in S |-> IF l = j THEN on[j] ELSE 0]
           m == [l \in S |-> a[l] * e[l]]
           w == [l \in S |-> step[j][l] * h[l]]
<1>1. /\ n \in Nat \ {0} /\ IsFiniteSet(S) /\ d \in 1 .. n /\ d \in Nat /\ d \in 1 .. d
      /\ n \in 1 .. n /\ d + 1 \in 1 .. n /\ d + 1 \in Nat /\ d + 1 \in 2 .. n
      /\ d \in 1 .. d + 1 /\ d + 1 \in 1 .. d + 1
  BY DEF IsChain
<1>2. /\ a \in [S -> Int] /\ b \in [S -> Int] /\ V \in [Q -> Int] /\ W \in [R -> Int]
      /\ c.weight[n] \in [P -> Int] /\ step \in [S -> [S -> Int]]
  BY <1>1 DEF Passed, Weighed, IsChain
<1>3. (\A q \in Q : q[d] \in S) /\ (\A r \in R : r[d] \in S /\ r[d + 1] \in S)
  BY <1>1 DEF Paths
<1>4. \A p \in P : Cut(p, d + 1) \in R /\ Cut(p, d + 1)[d] = p[d] /\ Cut(p, d + 1)[d + 1] = p[d + 1]
  BY <1>1, CutOfCut
<1>5. \A r \in R : Cut(r, d) \in Q /\ Cut(r, d)[d] = r[d]
  BY <1>1, CutOfCut
<1>6. h \in [S -> Int] /\ i \in [Q -> Int] /\ g \in [R -> Int]
  <2>1. b[k] \in Int
    BY <1>2
  <2> QED
    BY <2>1
<1>7. /\ on \in [S -> Int]
      /\ \A l \in S : /\ [x \in S |-> step[l][x] * h[x]] \in [S -> Int]
                      /\ on[l] = Total([x \in S |-> step[l][x] * h[x]])
  <2> HIDE DEF h
  <2> QED
    BY <1>6, OnwardIs
<1>8. on[j] = step[j][k] * b[k]
  <2>1. w \in [S -> Int] /\ on[j] = Total(w)
    <3> HIDE DEF h, on, step
    <3> QED
      BY <1>7
  <2>2. \A l \in S : w[l] = step[j][l] * h[l] /\ step[j][l] \in Int
    <3> HIDE DEF h, step
    <3> QED
      BY <1>2
  <2>3. h[k] = b[k] /\ \A l \in S : l # k => h[l] = 0
    OBVIOUS
  <2> HIDE DEF w, h, b, step
  <2>4. \A x \in Int : x * 0 = 0
    OBVIOUS
  <2>5. \A l \in S : l # k => w[l] = 0
    BY <2>2, <2>3, <2>4
  <2>6. Total(w) = w[k]
    BY <1>1, <2>1, <2>5, TotalOne
  <2> QED
    BY <2>1, <2>2, <2>3, <2>6
<1>9. e \in [S -> Int] /\ m \in [S -> Int]
  <2>1. e \in [S -> Int]
    <3> HIDE DEF on
    <3> QED
      BY <1>7
  <2> HIDE DEF e, a
  <2>2. \A x, y \in Int : x * y \in Int
    OBVIOUS
  <2> QED
    BY <1>2, <2>1, <2>2
<1>10. Total(f) = Through(c, d + 1, g)
  <2>1. \A p \in P : g[Cut(p, d + 1)] = IF p[d] = j /\ p[d + 1] = k THEN 1 ELSE 0
    <3> HIDE DEF P, R
    <3> QED
      BY <1>4
  <2> HIDE DEF g
  <2>2. \A p \in P : f[p] = c.weight[n][p] * g[Cut(p, d + 1)]
    BY <2>1
  <2>3. f = [p \in P |-> f[p]]
    OBVIOUS
  <2> HIDE DEF P
  <2>4. f = [p \in P |-> c.weight[n][p] * g[Cut(p, d + 1)]]
    BY <2>2, <2>3
  <2> QED
    BY <2>4 DEF Through, P
<1>11. Through(c, d + 1, g) = UpTo(c, d + 1, g)
  <2> HIDE DEF g
  <2> QED
    BY <1>1, <1>6, FromThere
<1>12. UpTo(c, d + 1, g) = Total([r \in R |-> W[r] * h[r[d + 1]] * i[Cut(r, d)]])
  <2>1. ASSUME NEW r \in R
        PROVE  W[r] * b[r[d + 1]] * g[r] = W[r] * h[r[d + 1]] * i[Cut(r, d)]
    <3>1. /\ h[r[d + 1]] = IF r[d + 1] = k THEN b[k] ELSE 0
          /\ i[Cut(r, d)] = IF r[d] = j THEN 1 ELSE 0
          /\ g[r] = IF r[d] = j /\ r[d + 1] = k THEN 1 ELSE 0
      <4>1. h[r[d + 1]] = IF r[d + 1] = k THEN b[k] ELSE 0
        BY <1>3
      <4>2. i[Cut(r, d)] = IF r[d] = j THEN 1 ELSE 0
        <5> HIDE DEF Q, R
        <5> QED
          BY <1>5
      <4>3. g[r] = IF r[d] = j /\ r[d + 1] = k THEN 1 ELSE 0
        OBVIOUS
      <4> QED
        BY <4>1, <4>2, <4>3
    <3>2. W[r] \in Int /\ b[r[d + 1]] \in Int /\ b[k] \in Int
      BY <1>2, <1>3
    <3> HIDE DEF W, b, h, i, g, R, S
    <3>3. \A x \in Int, y \in Int : x * y * 0 = 0 /\ x * y * 1 = x * y /\ x * 0 * 1 = 0 /\ x * 0 * 0 = 0
      OBVIOUS
    <3>4. CASE r[d] = j /\ r[d + 1] = k
      BY <3>1, <3>2, <3>3, <3>4
    <3>5. CASE r[d] = j /\ r[d + 1] # k
      BY <3>1, <3>2, <3>3, <3>5
    <3>6. CASE r[d] # j
      BY <3>1, <3>2, <3>3, <3>6
    <3> QED
      BY <3>4, <3>5, <3>6
  <2> HIDE DEF R, W, b, h, i, g
  <2>2. [r \in R |-> W[r] * b[r[d + 1]] * g[r]]
          = [r \in R |-> W[r] * h[r[d + 1]] * i[Cut(r, d)]]
    BY <2>1
  <2> QED
    BY <2>2 DEF UpTo, R, W, b
<1>13. Total([r \in R |-> W[r] * h[r[d + 1]] * i[Cut(r, d)]])
         = Total([q \in Q |-> V[q] * on[q[d]] * i[q]])
  <2> HIDE DEF h, i
  <2>1. Total([r \in Paths(c.places, d + 1) |->
                    c.weight[d + 1][r] * h[r[d + 1]] * i[Cut(r, d)]])
           = Total([q \in Paths(c.places, d) |->
                    c.weight[d][q] * Onward(c, d, h)[q[d]] * i[q]])
    BY <1>6, OneDay
  <2> QED
    BY <2>1
<1>14. Total([q \in Q |-> V[q] * on[q[d]] * i[q]]) = Total([q \in Q |-> V[q] * e[q[d]]])
  <2>1. ASSUME NEW q \in Q PROVE V[q] * on[q[d]] * i[q] = V[q] * e[q[d]]
    <3>1. e[q[d]] = IF q[d] = j THEN on[j] ELSE 0
      <4> HIDE DEF on
      <4> QED
        BY <1>3
    <3>2. i[q] = IF q[d] = j THEN 1 ELSE 0
      OBVIOUS
    <3>3. V[q] \in Int /\ on[q[d]] \in Int
      <4> HIDE DEF on, V
      <4> QED
        BY <1>2, <1>3, <1>7
    <3> HIDE DEF V, on, e, i, Q, S
    <3>4. \A x, y \in Int : x * y * 1 = x * y /\ x * y * 0 = x * 0
      OBVIOUS
    <3>5. CASE q[d] = j
      BY <3>1, <3>2, <3>3, <3>4, <3>5
    <3>6. CASE q[d] # j
      BY <3>1, <3>2, <3>3, <3>4, <3>6
    <3> QED
      BY <3>5, <3>6
  <2> HIDE DEF Q, V, on, i, e
  <2> QED
    BY <2>1
<1>15. Total([q \in Q |-> V[q] * e[q[d]]]) = Total(m)
  <2> HIDE DEF e
  <2>1. Total([q \in Paths(c.places, d) |-> c.weight[d][q] * e[q[d]]])
           = Total([l \in c.places |-> c.alpha[d][l] * e[l]])
    BY <1>1, <1>9, ToThere
  <2> QED
    BY <2>1
<1>16. Total(m) = a[j] * on[j]
  <2>1. \A l \in S : m[l] = a[l] * e[l] /\ a[l] \in Int
    <3> HIDE DEF a, e
    <3> QED
      BY <1>2
  <2>2. e[j] = on[j] /\ \A l \in S : l # j => e[l] = 0
    <3> HIDE DEF on
    <3> QED
      OBVIOUS
  <2> HIDE DEF m, e, a, on
  <2>3. \A x \in Int : x * 0 = 0
    OBVIOUS
  <2>4. \A l \in S : l # j => m[l] = 0
    BY <2>1, <2>2, <2>3
  <2>5. Total(m) = m[j]
    BY <1>1, <1>9, <2>4, TotalOne
  <2> QED
    BY <2>1, <2>2, <2>5
<1>17. a[j] * on[j] = a[j] * step[j][k] * b[k]
  <2>1. a[j] \in Int /\ step[j][k] \in Int /\ b[k] \in Int
    <3> HIDE DEF a, b, step
    <3> QED
      BY <1>2
  <2>2. \A x, y, z \in Int : x * (y * z) = x * y * z
    OBVIOUS
  <2> HIDE DEF a, b, step, on
  <2> QED
    BY <1>8, <2>1, <2>2
<1> HIDE DEF a, b, step, on, g, h, i, e, m, Q, R, V, W
<1>18. Total(f) = a[j] * step[j][k] * b[k]
  BY <1>10, <1>11, <1>12, <1>13, <1>14, <1>15, <1>16, <1>17
<1> QED
  BY <1>18 DEF a, b, step

\* A count that is a sum over days adds up day by day.
ByDay(P, T, W, m, count, each) ==
    /\ IsFiniteSet(P) /\ IsFiniteSet(T)
    /\ W \in [P -> Int] /\ m \in [P -> [T -> Int]] /\ each \in [T -> Int]
    /\ \A p \in P : count[p] = Total([t \in T |-> m[p][t]])
    /\ \A t \in T : each[t] = Total([p \in P |-> W[p] * m[p][t]])

Over(P, W, count) == Total([p \in P |-> W[p] * count[p]])

LEMMA CountedByDay ==
    ASSUME NEW P, NEW T, NEW W, NEW m, NEW count, NEW each, ByDay(P, T, W, m, count, each)
    PROVE  Over(P, W, count) = Total(each)
<1>0. /\ IsFiniteSet(P) /\ IsFiniteSet(T)
      /\ W \in [P -> Int] /\ m \in [P -> [T -> Int]] /\ each \in [T -> Int]
  BY DEF ByDay
<1> DEFINE one == [t \in T |-> 1]
<1>1. one \in [T -> Int] /\ \A t \in T : one[t] = 1
  OBVIOUS
<1> HIDE DEF one
<1>2. TimesRows(W, m, one, P, T) = TimesColumns(W, m, one, P, T)
  BY <1>0, <1>1, TotalBilinear
<1>3. TimesRows(W, m, one, P, T) = Total([p \in P |-> W[p] * count[p]])
  <2>1. ASSUME NEW p \in P PROVE Total([t \in T |-> m[p][t] * one[t]]) = count[p]
    <3>1. \A x \in Int : x * 1 = x
      OBVIOUS
    <3>2. \A t \in T : m[p][t] * one[t] = m[p][t]
      BY <1>0, <1>1, <3>1
    <3>3. [t \in T |-> m[p][t] * one[t]] = [t \in T |-> m[p][t]]
      BY <3>2
    <3> QED
      BY <3>3 DEF ByDay
  <2>2. [p \in P |-> W[p] * Total([t \in T |-> m[p][t] * one[t]])] = [p \in P |-> W[p] * count[p]]
    BY <2>1
  <2> QED
    BY <2>2 DEF TimesRows, Over
<1>4. TimesColumns(W, m, one, P, T) = Total(each)
  <2>1. \A x \in Int : 1 * x = x
    OBVIOUS
  <2>2. \A t \in T : one[t] * Total([p \in P |-> W[p] * m[p][t]]) = each[t]
    BY <1>0, <1>1, <2>1 DEF ByDay
  <2>3. each = [t \in T |-> each[t]]
    BY <1>0
  <2>4. [t \in T |-> one[t] * Total([p \in P |-> W[p] * m[p][t]])] = each
    BY <2>2, <2>3
  <2> QED
    BY <2>4 DEF TimesColumns
<1> QED
  BY <1>2, <1>3, <1>4 DEF Over

(***************************************************************************)
(* The chain of a fit                                                      *)
(***************************************************************************)
\* The weight of a path up to each of its days.
WeightBody(hmm, observed, path, t, before) ==
    hmm.density[path[t]][observed[t]]
       * (IF t = 1 THEN hmm.initial[path[1]]
          ELSE before * hmm.transition[path[t - 1]][path[t]])

WeightWalk(hmm, observed, path, upTo) ==
    upTo = [t \in DOMAIN path |->
              hmm.density[path[t]][observed[t]]
                 * (IF t = 1 THEN hmm.initial[path[1]]
                    ELSE upTo[t - 1] * hmm.transition[path[t - 1]][path[t]])]

WeightOn(hmm, observed, path) == CHOOSE upTo : WeightWalk(hmm, observed, path, upTo)

LEMMA PathWeightIs ==
    ASSUME NEW hmm, NEW path
    PROVE  PathWeight(hmm, path) = WeightOn(hmm, Observed, path)[Len(path)]
  BY DEF PathWeight, WeightOn, WeightWalk

LEMMA WeightsAreOn ==
    ASSUME NEW hmm, NEW observed, NEW moves, Observation(hmm, observed, moves),
           NEW n \in 1 .. Len(observed), NEW path \in Paths(States, n)
    PROVE  \A t \in 1 .. n :
              /\ WeightOn(hmm, observed, path)[t] \in Nat
              /\ WeightOn(hmm, observed, path)[t]
                    = WeightBody(hmm, observed, path, t, WeightOn(hmm, observed, path)[t - 1])
<1> DEFINE chosen == WeightOn(hmm, observed, path)
           see(t) == hmm.density[path[t]][observed[t]]
           move(t) == hmm.transition[path[t - 1]][path[t]]
           start == see(1) * hmm.initial[path[1]]
           next(t, v) == see(t) * (v * move(t))
           step == [p \in (2 .. n) \X Nat |-> next(p[1], p[2])]
<1>1. n \in Nat \ {0} /\ DOMAIN path = 1 .. n /\ 1 \in 1 .. n /\ 1 .. n \subseteq 1 .. Len(observed)
  BY DEF Paths, Observation
<1>2. \A x, y \in Nat : x * y \in Nat
  OBVIOUS
<1>3. /\ \A t \in 1 .. n : path[t] \in States /\ see(t) \in Nat
      /\ \A t \in 2 .. n : move(t) \in Nat
      /\ hmm.initial[path[1]] \in Nat
  <2>1. \A t \in 1 .. n : path[t] \in States
    BY DEF Paths
  <2>2. \A t \in 1 .. n : observed[t] \in moves
    BY <1>1 DEF Observation
  <2>3. \A t \in 1 .. n : see(t) \in Nat
    BY <2>1, <2>2 DEF Observation, IsFit, Likelihoods
  <2>4. \A t \in 2 .. n : t - 1 \in 1 .. n /\ t \in 1 .. n
    OBVIOUS
  <2>5. \A t \in 2 .. n : move(t) \in Nat
    BY <2>1, <2>4 DEF Observation, IsFit, Likelihoods
  <2>6. hmm.initial[path[1]] \in Nat
    BY <1>1, <2>1 DEF Observation, IsFit, Likelihoods
  <2> QED
    BY <2>1, <2>3, <2>5, <2>6
<1> HIDE DEF see, move
<1>4. start \in Nat
  BY <1>1, <1>2, <1>3
<1>5. /\ step \in [(2 .. n) \X Nat -> Nat]
      /\ \A t \in 2 .. n : \A v \in Nat : step[<<t, v>>] = next(t, v)
  <2>1. ASSUME NEW t \in 2 .. n, NEW v \in Nat PROVE next(t, v) \in Nat
    <3>1. t \in 1 .. n
      OBVIOUS
    <3>2. see(t) \in Nat /\ v * move(t) \in Nat
      BY <1>2, <1>3, <3>1
    <3> QED
      BY <1>2, <3>2
  <2>2. \A p \in (2 .. n) \X Nat : p[1] \in 2 .. n /\ p[2] \in Nat
    OBVIOUS
  <2> HIDE DEF next
  <2>3. \A p \in (2 .. n) \X Nat : next(p[1], p[2]) \in Nat
    BY <2>1, <2>2
  <2> QED
    BY <2>3
<1>6. PICK w \in [1 .. n -> Nat] : IsForward(w, n, start, step)
  <2> HIDE DEF step, start
  <2> QED
    BY <1>1, <1>4, <1>5, ForwardExists
<1>7. WeightWalk(hmm, observed, path, w)
  <2> DEFINE body(t) == see(t) * (IF t = 1 THEN hmm.initial[path[1]] ELSE w[t - 1] * move(t))
  <2>1. ASSUME NEW t \in 1 .. n PROVE w[t] = body(t)
    <3>1. CASE t = 1
      BY <1>6, <3>1 DEF IsForward
    <3>2. CASE t # 1
      <4>1. t \in 2 .. n /\ t - 1 \in 1 .. n
        BY <3>2
      <4>2. w[t] = step[<<t, w[t - 1]>>] /\ w[t - 1] \in Nat
        BY <1>6, <4>1 DEF IsForward
      <4>3. w[t] = next(t, w[t - 1])
        <5> HIDE DEF step, next
        <5> QED
          BY <1>5, <4>1, <4>2
      <4> HIDE DEF step
      <4> QED
        BY <3>2, <4>3
    <3> QED
      BY <3>1, <3>2
  <2>2. w = [t \in 1 .. n |-> w[t]]
    BY <1>6
  <2>3. w = [t \in 1 .. n |-> body(t)]
    <3> HIDE DEF body
    <3> QED
      BY <2>1, <2>2
  <2> QED
    BY <1>1, <2>3 DEF WeightWalk, see, move
<1>8. WeightWalk(hmm, observed, path, chosen)
  BY <1>7 DEF WeightOn
<1> HIDE DEF chosen
<1>9. \A t \in 1 .. n :
         chosen[t] = see(t) * (IF t = 1 THEN hmm.initial[path[1]] ELSE chosen[t - 1] * move(t))
  BY <1>1, <1>8 DEF WeightWalk, see, move
<1>10. \A t \in 1 .. n : chosen[t] \in Nat
  <2>1. chosen[1] = start
    BY <1>1, <1>9
  <2>2. ASSUME NEW t \in 2 .. n, chosen[t - 1] \in Nat PROVE chosen[t] = step[<<t, chosen[t - 1]>>]
    <3>1. t \in 1 .. n /\ t # 1
      OBVIOUS
    <3>2. chosen[t] = next(t, chosen[t - 1])
      BY <1>9, <3>1
    <3> HIDE DEF next, step
    <3> QED
      BY <1>5, <2>2, <3>2
  <2>3. GoesForward(chosen, n, Nat, step)
    <3> HIDE DEF step
    <3> QED
      BY <2>2 DEF GoesForward
  <2> HIDE DEF step, start, next
  <2> QED
    BY <1>1, <1>4, <1>5, <2>1, <2>3, ForwardHolds
<1> QED
  BY <1>9, <1>10 DEF WeightBody, see, move, chosen

\* One day more does not change what the path weighed before.
LEMMA WeightOfExtended ==
    ASSUME NEW hmm, NEW observed, NEW moves, Observation(hmm, observed, moves),
           NEW t \in 1 .. Len(observed) - 1, NEW q \in Paths(States, t), NEW k \in States
    PROVE  WeightOn(hmm, observed, Extended(q, t, k))[t + 1]
           = WeightOn(hmm, observed, q)[t]
                * (hmm.transition[q[t]][k] * hmm.density[k][observed[t + 1]])
<1> DEFINE e == Extended(q, t, k)
           v == WeightOn(hmm, observed, q)
           w == WeightOn(hmm, observed, e)
           C == {s \in Nat : \A u \in 1 .. t : u = s + 1 => w[u] = v[u]}
           l == Len(observed)
<1>1. /\ l \in Nat /\ t \in Nat /\ t \in 1 .. l /\ t + 1 \in 1 .. l /\ t \in 1 .. t
      /\ t + 1 \in 1 .. t + 1 /\ t + 1 # 1 /\ (t + 1) - 1 = t /\ t - 1 \in Nat /\ (t - 1) + 1 = t
  BY DEF Observation
<1>2. /\ e \in Paths(States, t + 1) /\ e[t + 1] = k
      /\ \A u \in 1 .. t : e[u] = q[u]
  BY <1>1, ExtendedIs
<1> HIDE DEF e
<1>3. \A u \in 1 .. t + 1 : w[u] \in Nat /\ w[u] = WeightBody(hmm, observed, e, u, w[u - 1])
  BY <1>1, <1>2, WeightsAreOn
<1>4. \A u \in 1 .. t : v[u] \in Nat /\ v[u] = WeightBody(hmm, observed, q, u, v[u - 1])
  BY <1>1, WeightsAreOn
<1> HIDE DEF v, w
<1>5. 0 \in C
  <2>1. \A u \in 1 .. t : u = 0 + 1 => u = 1 /\ u \in 1 .. t + 1
    BY <1>1
  <2>2. 1 \in 1 .. t => w[1] = v[1]
    <3> HAVE 1 \in 1 .. t
    <3>1. w[1] = WeightBody(hmm, observed, e, 1, w[1 - 1]) /\ v[1] = WeightBody(hmm, observed, q, 1, v[1 - 1])
      BY <1>1, <1>3, <1>4
    <3>2. e[1] = q[1]
      BY <1>2
    <3> QED
      BY <3>1, <3>2 DEF WeightBody
  <2> QED
    BY <2>1, <2>2
<1>6. ASSUME NEW s \in Nat, s \in C PROVE s + 1 \in C
  <2> SUFFICES ASSUME NEW u \in 1 .. t, u = (s + 1) + 1 PROVE w[u] = v[u]
    OBVIOUS
  <2>1. u # 1 /\ u - 1 \in 1 .. t /\ u - 1 = s + 1 /\ u \in 1 .. t + 1
    BY <1>1
  <2>2. w[u - 1] = v[u - 1]
    BY <1>6, <2>1
  <2>3. e[u] = q[u] /\ e[u - 1] = q[u - 1]
    BY <1>2, <2>1
  <2>4. w[u] = WeightBody(hmm, observed, e, u, w[u - 1]) /\ v[u] = WeightBody(hmm, observed, q, u, v[u - 1])
    BY <1>3, <1>4, <2>1
  <2> QED
    BY <2>1, <2>2, <2>3, <2>4 DEF WeightBody
<1>7. w[t] = v[t]
  <2> HIDE DEF C
  <2>1. t - 1 \in C
    BY <1>1, <1>5, <1>6, NumberInduction
  <2> QED
    BY <1>1, <2>1 DEF C
<1>8. w[t + 1] = hmm.density[k][observed[t + 1]] * (w[t] * hmm.transition[q[t]][k])
  <2>1. w[t + 1] = WeightBody(hmm, observed, e, t + 1, w[t])
    BY <1>1, <1>3
  <2> QED
    BY <1>1, <1>2, <2>1 DEF WeightBody
<1>9. hmm.density[k][observed[t + 1]] \in Nat /\ v[t] \in Nat /\ hmm.transition[q[t]][k] \in Nat
  <2>1. q[t] \in States /\ observed[t + 1] \in moves
    BY <1>1 DEF Paths, Observation
  <2> QED
    BY <1>1, <1>4, <2>1 DEF Observation, IsFit, Likelihoods
<1>10. \A x, y, z \in Nat : x * (y * z) = y * (z * x)
  OBVIOUS
<1> QED
  BY <1>7, <1>8, <1>9, <1>10 DEF v, w, e

Chain(hmm, observed) ==
    [days   |-> Len(observed),
     places |-> States,
     start  |-> [k \in States |-> hmm.initial[k] * hmm.density[k][observed[1]]],
     step   |-> [t \in 2 .. Len(observed) |-> [j \in States |-> [k \in States |->
                   hmm.transition[j][k] * hmm.density[k][observed[t]]]]],
     weight |-> [t \in 1 .. Len(observed) |-> [q \in Paths(States, t) |->
                   WeightOn(hmm, observed, q)[t]]],
     alpha  |-> Forward(hmm, observed),
     beta   |-> Backward(hmm, observed)]

LEMMA ChainWeighs ==
    ASSUME NEW hmm, NEW observed, NEW moves, Observation(hmm, observed, moves)
    PROVE  /\ IsChain(Chain(hmm, observed)) /\ Weighed(Chain(hmm, observed))
           /\ \A t \in 2 .. Len(observed) : \A j, k \in States :
                 /\ Chain(hmm, observed).step[t][j][k]
                       = hmm.transition[j][k] * hmm.density[k][observed[t]]
                 /\ hmm.transition[j][k] \in Nat /\ hmm.density[k][observed[t]] \in Nat
<1> DEFINE c == Chain(hmm, observed)
           n == Len(observed)
           see(t, k) == hmm.density[k][observed[t]]
           move(j, k) == hmm.transition[j][k]
<1>1. n \in Nat \ {0} /\ 1 \in 1 .. n /\ IsFiniteSet(States) /\ \A t \in 2 .. n : t \in 1 .. n
  BY StatesAre DEF Observation
<1>2. \A t \in 1 .. n : \A k \in States : see(t, k) \in Nat
  BY DEF Observation, IsFit, Likelihoods
<1>3. \A j, k \in States : move(j, k) \in Nat /\ hmm.initial[k] \in Nat
  BY DEF Observation, IsFit, Likelihoods
<1>4. \A x, y \in Nat : x * y \in Int
  OBVIOUS
<1>a. c.days = n /\ c.places = States
  BY DEF Chain
<1>b. c.start = [k \in States |-> hmm.initial[k] * see(1, k)]
  BY DEF Chain
<1>c. c.step = [t \in 2 .. n |-> [j \in States |-> [k \in States |-> move(j, k) * see(t, k)]]]
  BY DEF Chain
<1>d. c.weight = [t \in 1 .. n |-> [q \in Paths(States, t) |-> WeightOn(hmm, observed, q)[t]]]
  BY DEF Chain
<1> HIDE DEF c, see, move
<1>6. c.start \in [States -> Int]
  <2>1. \A k \in States : hmm.initial[k] * see(1, k) \in Int
    BY <1>1, <1>2, <1>3, <1>4
  <2> QED
    BY <2>1, <1>b
<1>7. c.step \in [2 .. n -> [States -> [States -> Int]]]
  <2>1. \A t \in 2 .. n : \A j, k \in States : move(j, k) * see(t, k) \in Int
    BY <1>1, <1>2, <1>3, <1>4
  <2> QED
    BY <2>1, <1>c
<1>8. IsChain(c)
  BY <1>1, <1>a, <1>6, <1>7 DEF IsChain
<1>9. ASSUME NEW t \in 1 .. n PROVE c.weight[t] \in [Paths(States, t) -> Int]
  <2>1. \A q \in Paths(States, t) : WeightOn(hmm, observed, q)[t] \in Int
    <3> TAKE q \in Paths(States, t)
    <3>1. t \in 1 .. t
      BY <1>1
    <3>2. WeightOn(hmm, observed, q)[t] \in Nat
      BY <3>1, WeightsAreOn
    <3> QED
      BY <3>2
  <2>2. c.weight[t] = [q \in Paths(States, t) |-> WeightOn(hmm, observed, q)[t]]
    BY <1>d
  <2> QED
    BY <2>1, <2>2
<1>10. ASSUME NEW q \in Paths(States, 1) PROVE c.weight[1][q] = c.start[q[1]]
  <2>1. c.weight[1][q] = WeightOn(hmm, observed, q)[1]
    BY <1>1, <1>d
  <2>2. 1 \in 1 .. 1
    OBVIOUS
  <2>3. WeightOn(hmm, observed, q)[1] = WeightBody(hmm, observed, q, 1, WeightOn(hmm, observed, q)[1 - 1])
    BY <1>1, <2>2, WeightsAreOn
  <2>4. WeightOn(hmm, observed, q)[1] = see(1, q[1]) * hmm.initial[q[1]]
    BY <2>3 DEF WeightBody, see
  <2>5. q[1] \in States
    BY DEF Paths
  <2>6. \A x, y \in Nat : x * y = y * x
    OBVIOUS
  <2>7. see(1, q[1]) \in Nat /\ hmm.initial[q[1]] \in Nat
    BY <1>1, <1>2, <1>3, <2>5
  <2>8. c.start[q[1]] = hmm.initial[q[1]] * see(1, q[1])
    BY <1>b, <2>5
  <2> QED
    BY <2>1, <2>4, <2>6, <2>7, <2>8
<1>11. ASSUME NEW t \in 1 .. n - 1, NEW q \in Paths(States, t), NEW k \in States
       PROVE  c.weight[t + 1][Extended(q, t, k)] = c.weight[t][q] * c.step[t + 1][q[t]][k]
  <2>1. t \in 1 .. n /\ t + 1 \in 1 .. n /\ t + 1 \in 2 .. n /\ t \in Nat /\ t \in 1 .. t
    BY <1>1
  <2>2. Extended(q, t, k) \in Paths(States, t + 1) /\ q[t] \in States
    BY <2>1, ExtendedIs DEF Paths
  <2>3. c.weight[t + 1][Extended(q, t, k)] = WeightOn(hmm, observed, Extended(q, t, k))[t + 1]
    BY <1>d, <2>1, <2>2
  <2>4. c.weight[t][q] = WeightOn(hmm, observed, q)[t]
    BY <1>d, <2>1
  <2>5. c.step[t + 1][q[t]][k] = hmm.transition[q[t]][k] * hmm.density[k][observed[t + 1]]
    BY <1>c, <2>1, <2>2 DEF see, move
  <2> QED
    BY <2>3, <2>4, <2>5, WeightOfExtended
<1>12. Weighed(c)
  BY <1>a, <1>9, <1>10, <1>11 DEF Weighed
<1>13. \A t \in 2 .. n : \A j, k \in States : c.step[t][j][k] = move(j, k) * see(t, k)
  BY <1>c
<1> QED
  BY <1>1, <1>2, <1>3, <1>8, <1>12, <1>13 DEF c, see, move

\* alpha and beta are what the chain asks of its two passes.
LEMMA AlphaAdds ==
    ASSUME NEW hmm, NEW observed, NEW moves, Observation(hmm, observed, moves)
    PROVE  LET a == Forward(hmm, observed)
               c == Chain(hmm, observed)
           IN  /\ a[1] = c.start
               /\ \A t \in 1 .. Len(observed) - 1 : a[t + 1] = Inward(c, t, a[t])
<1> DEFINE a == Forward(hmm, observed)
           c == Chain(hmm, observed)
           n == Len(observed)
           m == hmm.transition
<1>1. n \in Nat \ {0} /\ 1 \in 1 .. n
  BY DEF Observation
<1>2. \A t \in 1 .. n :
         /\ a[t] \in Weights
         /\ a[t] = AlphaBody(hmm, observed, t,
                      IF t = 1 THEN hmm.initial ELSE VecMatMul(a[t - 1], m))
  BY ForwardIs
<1>3. /\ c.places = States
      /\ c.start = [k \in States |-> hmm.initial[k] * hmm.density[k][observed[1]]]
      /\ \A t \in 2 .. n : \A j, k \in States :
            /\ c.step[t][j][k] = m[j][k] * hmm.density[k][observed[t]]
            /\ m[j][k] \in Nat /\ hmm.density[k][observed[t]] \in Nat
  <2>1. /\ IsChain(c) /\ Weighed(c)
        /\ \A t \in 2 .. n : \A j, k \in States :
            /\ c.step[t][j][k] = m[j][k] * hmm.density[k][observed[t]]
            /\ m[j][k] \in Nat /\ hmm.density[k][observed[t]] \in Nat
    BY ChainWeighs
  <2>2. c.places = States
    BY DEF Chain
  <2>3. c.start = [k \in States |-> hmm.initial[k] * hmm.density[k][observed[1]]]
    BY DEF Chain
  <2> HIDE DEF c, m, n
  <2> QED
    BY <2>1, <2>2, <2>3
<1>4. hmm.initial \in Weights /\ m \in Square
  BY DEF Observation, IsFit, Weights, Square, Likelihoods
<1> HIDE DEF a, c
<1>5. a[1] = c.start
  <2> DEFINE f == [k \in States |-> hmm.initial[k] * hmm.density[k][observed[1]]]
  <2>1. a[1] = ByState(f) /\ a[1] \in Weights
    BY <1>1, <1>2 DEF AlphaBody
  <2>2. f \in [States -> {f[k] : k \in States}]
    OBVIOUS
  <2> HIDE DEF f
  <2>3. ByState(f) = f
    BY <2>2, ByStateIs
  <2> QED
    BY <1>3, <2>1, <2>3 DEF f
<1>6. ASSUME NEW t \in 1 .. n - 1 PROVE a[t + 1] = Inward(c, t, a[t])
  <2> DEFINE v == a[t]
             s == c.step[t + 1]
             d == [k \in States |-> hmm.density[k][observed[t + 1]]]
             u == VecMatMul(v, m)
             f == [k \in States |-> u[k] * d[k]]
  <2>1. t \in 1 .. n /\ t + 1 \in 1 .. n /\ t + 1 # 1 /\ (t + 1) - 1 = t /\ t + 1 \in 2 .. n
    BY <1>1
  <2>2. v \in Weights /\ a[t + 1] = AlphaBody(hmm, observed, t + 1, u)
    BY <1>2, <2>1
  <2>3. u \in Weights /\ u = [j \in States |-> v[1] * m[1][j] + v[2] * m[2][j] + v[3] * m[3][j]]
    <3> HIDE DEF v, m
    <3> QED
      BY <1>4, <2>2, VecMatMulIn, VecMatMulIs DEF Square
  <2>4. \A j, k \in States : s[j][k] = m[j][k] * d[k] /\ m[j][k] \in Nat /\ d[k] \in Nat
    <3> HIDE DEF m
    <3> QED
      BY <1>3, <2>1
  <2>5. a[t + 1] = ByState(f)
    <3> HIDE DEF u
    <3> QED
      BY <2>2 DEF AlphaBody
  <2> HIDE DEF v, s, d, u, m
  <2>6. f \in [States -> {f[k] : k \in States}]
    OBVIOUS
  <2>7. \A k \in States : f[k] = u[k] * d[k]
    OBVIOUS
  <2> HIDE DEF f
  <2>8. ByState(f) = f
    BY <2>6, ByStateIs
  <2>9. ASSUME NEW k \in States PROVE f[k] = Total([j \in States |-> v[j] * s[j][k]])
    <3> DEFINE g == [j \in States |-> v[j] * s[j][k]]
    <3>1. 1 \in States /\ 2 \in States /\ 3 \in States
      BY StatesAre
    <3>2. /\ v[1] \in Nat /\ v[2] \in Nat /\ v[3] \in Nat
          /\ m[1][k] \in Nat /\ m[2][k] \in Nat /\ m[3][k] \in Nat /\ d[k] \in Nat
      BY <2>2, <2>4, <3>1 DEF Weights
    <3>3. g[1] = v[1] * s[1][k] /\ g[2] = v[2] * s[2][k] /\ g[3] = v[3] * s[3][k]
      BY <3>1
    <3>4. \A x, y, z \in Nat : x * (y * z) \in Nat
      <4>1. \A x, y \in Nat : x * y \in Nat
        OBVIOUS
      <4> QED
        BY <4>1
    <3>5. \A j \in States : v[j] * s[j][k] \in Nat
      <4>1. \A j \in States : v[j] \in Nat /\ m[j][k] \in Nat /\ d[k] \in Nat
        BY <2>2, <2>4 DEF Weights
      <4>2. \A j \in States : s[j][k] = m[j][k] * d[k]
        BY <2>4
      <4> QED
        BY <3>4, <4>1, <4>2
    <3>6. g \in Weights
      BY <3>5 DEF Weights
    <3> HIDE DEF g
    <3>7. Total(g) = g[1] + g[2] + g[3]
      BY <3>6, TotalOfStates
    <3>8. s[1][k] = m[1][k] * d[k] /\ s[2][k] = m[2][k] * d[k] /\ s[3][k] = m[3][k] * d[k]
      BY <2>4, <3>1
    <3>9. f[k] = (v[1] * m[1][k] + v[2] * m[2][k] + v[3] * m[3][k]) * d[k]
      BY <2>3, <2>7
    <3>11. Total(g) = v[1] * (m[1][k] * d[k]) + v[2] * (m[2][k] * d[k]) + v[3] * (m[3][k] * d[k])
      BY <3>3, <3>7, <3>8
    <3>12. f[k] = Total(g)
      <4> DEFINE x1 == v[1]  x2 == v[2]  x3 == v[3]
                 y1 == m[1][k]  y2 == m[2][k]  y3 == m[3][k]  z == d[k]
      <4>1. /\ x1 \in Nat /\ x2 \in Nat /\ x3 \in Nat
            /\ y1 \in Nat /\ y2 \in Nat /\ y3 \in Nat /\ z \in Nat
        BY <3>2
      <4>2. f[k] = (x1 * y1 + x2 * y2 + x3 * y3) * z
        BY <3>9
      <4>3. Total(g) = x1 * (y1 * z) + x2 * (y2 * z) + x3 * (y3 * z)
        BY <3>11
      <4> HIDE DEF x1, x2, x3, y1, y2, y3, z
      <4>4. (x1 * y1 + x2 * y2 + x3 * y3) * z = x1 * (y1 * z) + x2 * (y2 * z) + x3 * (y3 * z)
        BY <4>1
      <4> QED
        BY <4>2, <4>3, <4>4
    <3> QED
      BY <3>12 DEF g
  <2>10. f = [k \in States |-> Total([j \in States |-> v[j] * s[j][k]])]
    <3>1. f = [k \in States |-> f[k]]
      BY <2>6
    <3> QED
      BY <2>9, <3>1
  <2> QED
    BY <1>3, <2>5, <2>8, <2>10 DEF Inward, v, s
<1> QED
  BY <1>5, <1>6 DEF a, c

LEMMA BetaAdds ==
    ASSUME NEW hmm, NEW observed, NEW moves, Observation(hmm, observed, moves)
    PROVE  LET b == Backward(hmm, observed)
               c == Chain(hmm, observed)
           IN  /\ \A k \in States : b[Len(observed)][k] = 1
               /\ \A t \in 1 .. Len(observed) - 1 : b[t] = Onward(c, t, b[t + 1])
<1> DEFINE b == Backward(hmm, observed)
           c == Chain(hmm, observed)
           n == Len(observed)
<1>1. n \in Nat \ {0} /\ n \in 1 .. n
  BY DEF Observation
<1>2. \A t \in 1 .. n :
         /\ b[t] \in Weights
         /\ b[t] = IF t = n THEN <<1, 1, 1>> ELSE BetaBody(hmm, observed, t, b[t + 1])
  BY BackwardIs
<1>3. /\ c.places = States
      /\ \A t \in 2 .. n : \A j, k \in States :
            c.step[t][j][k] = hmm.transition[j][k] * hmm.density[k][observed[t]]
  <2>1. /\ IsChain(c) /\ Weighed(c)
        /\ \A t \in 2 .. n : \A j, k \in States :
            /\ c.step[t][j][k] = hmm.transition[j][k] * hmm.density[k][observed[t]]
            /\ hmm.transition[j][k] \in Nat /\ hmm.density[k][observed[t]] \in Nat
    BY ChainWeighs
  <2>2. c.places = States
    BY DEF Chain
  <2> HIDE DEF c, n
  <2> QED
    BY <2>1, <2>2
<1> HIDE DEF b, c
<1>4. \A k \in States : b[n][k] = 1
  BY <1>1, <1>2, StatesAre
<1>5. ASSUME NEW t \in 1 .. n - 1 PROVE b[t] = Onward(c, t, b[t + 1])
  <2> DEFINE h == b[t + 1]
             s == c.step[t + 1]
             f == [k \in States |-> Total([j \in States |->
                     hmm.transition[k][j] * hmm.density[j][observed[t + 1]] * h[j]])]
  <2>1. t \in 1 .. n /\ t # n /\ t + 1 \in 2 .. n
    BY <1>1
  <2>2. b[t] = ByState(f)
    BY <1>2, <2>1 DEF BetaBody
  <2>3. f \in [States -> {f[k] : k \in States}]
    OBVIOUS
  <2>4. ByState(f) = f
    <3> HIDE DEF f
    <3> QED
      BY <2>3, ByStateIs
  <2>5. \A k, j \in States : s[k][j] = hmm.transition[k][j] * hmm.density[j][observed[t + 1]]
    BY <1>3, <2>1
  <2> HIDE DEF h, s
  <2>6. ASSUME NEW k \in States
        PROVE  [j \in States |-> hmm.transition[k][j] * hmm.density[j][observed[t + 1]] * h[j]]
               = [j \in States |-> s[k][j] * h[j]]
    BY <2>5
  <2>7. f = [k \in States |-> Total([j \in States |-> s[k][j] * h[j]])]
    BY <2>6
  <2> HIDE DEF f
  <2> QED
    BY <1>3, <2>2, <2>4, <2>7 DEF Onward, h, s
<1> QED
  BY <1>4, <1>5 DEF b, c

LEMMA ChainIs ==
    ASSUME NEW hmm, NEW observed, NEW moves, Observation(hmm, observed, moves)
    PROVE  LET c == Chain(hmm, observed)
           IN  /\ IsChain(c) /\ Weighed(c) /\ Passed(c)
               /\ c.days = Len(observed) /\ c.places = States
               /\ c.alpha = Forward(hmm, observed) /\ c.beta = Backward(hmm, observed)
<1> DEFINE c == Chain(hmm, observed)
           n == Len(observed)
<1>1. /\ IsChain(c) /\ Weighed(c)
      /\ \A t \in 2 .. n : \A j, k \in States :
            /\ c.step[t][j][k] = hmm.transition[j][k] * hmm.density[k][observed[t]]
            /\ hmm.transition[j][k] \in Nat /\ hmm.density[k][observed[t]] \in Nat
  BY ChainWeighs
<1>2. c.days = n /\ c.places = States
  BY DEF Chain
<1>3. c.alpha = Forward(hmm, observed) /\ c.beta = Backward(hmm, observed)
  BY DEF Chain
<1>4. \A t \in 1 .. n : Forward(hmm, observed)[t] \in Weights /\ Backward(hmm, observed)[t] \in Weights
  BY ForwardIn, BackwardIn
<1>5. /\ Forward(hmm, observed)[1] = c.start
      /\ \A t \in 1 .. n - 1 :
            Forward(hmm, observed)[t + 1] = Inward(c, t, Forward(hmm, observed)[t])
  BY AlphaAdds
<1>6. /\ \A k \in States : Backward(hmm, observed)[n][k] = 1
      /\ \A t \in 1 .. n - 1 :
            Backward(hmm, observed)[t] = Onward(c, t, Backward(hmm, observed)[t + 1])
  BY BetaAdds
<1>7. Weights \subseteq [States -> Int]
  BY DEF Weights
<1> HIDE DEF c, n
<1>8. \A t \in 1 .. c.days : c.alpha[t] \in [c.places -> Int] /\ c.beta[t] \in [c.places -> Int]
  BY <1>2, <1>3, <1>4, <1>7
<1>9. Passed(c)
  BY <1>2, <1>3, <1>5, <1>6, <1>8 DEF Passed
<1> QED
  BY <1>1, <1>2, <1>3, <1>9 DEF c, n

(***************************************************************************)
(* What a round of Baum-Welch counts                                       *)
(***************************************************************************)
\* A value for every day on which a path is in a place,
CountsDays(c, k, v, count) ==
    /\ k \in c.places /\ v \in [1 .. c.days -> Int]
    /\ \A p \in Paths(c.places, c.days) :
          count[p] = Total([t \in 1 .. c.days |-> IF p[t] = k THEN v[t] ELSE 0])
OfDays(c, k, v) == Total([t \in 1 .. c.days |-> c.alpha[t][k] * c.beta[t][k] * v[t]])

LEMMA DaysCounted ==
    ASSUME NEW c, IsChain(c), Weighed(c), Passed(c),
           NEW k, NEW v, NEW count, CountsDays(c, k, v, count)
    PROVE  Over(Paths(c.places, c.days), c.weight[c.days], count) = OfDays(c, k, v)
<1> SUFFICES ASSUME k \in c.places, v \in [1 .. c.days -> Int],
                    \A p \in Paths(c.places, c.days) :
                       count[p] = Total([t \in 1 .. c.days |-> IF p[t] = k THEN v[t] ELSE 0])
             PROVE  Over(Paths(c.places, c.days), c.weight[c.days], count)
                    = Total([t \in 1 .. c.days |-> c.alpha[t][k] * c.beta[t][k] * v[t]])
  BY DEF CountsDays, OfDays
<1> DEFINE n == c.days
           P == Paths(c.places, n)
           T == 1 .. n
           W == c.weight[n]
           m == [p \in P |-> [t \in T |-> IF p[t] = k THEN v[t] ELSE 0]]
           each == [t \in T |-> c.alpha[t][k] * c.beta[t][k] * v[t]]
<1>1. n \in Nat \ {0} /\ n \in T /\ IsFiniteSet(c.places)
  BY DEF IsChain
<1>2. IsFiniteSet(P) /\ IsFiniteSet(T) /\ W \in [P -> Int]
  <2>1. IsFiniteSet(T)
    <3>1. 1 \in Int /\ n \in Int
      BY <1>1
    <3> QED
      BY <3>1, FS_Interval, Zenon
  <2>2. W \in [P -> Int]
    BY <1>1 DEF Weighed
  <2> QED
    BY <1>1, <2>1, <2>2, PathsFinite
<1>3. m \in [P -> [T -> Int]]
  OBVIOUS
<1>4. \A p \in P : count[p] = Total([t \in T |-> m[p][t]])
  <2>1. ASSUME NEW p \in P PROVE count[p] = Total([t \in T |-> m[p][t]])
    <3>1. \A t \in T : m[p][t] = IF p[t] = k THEN v[t] ELSE 0
      OBVIOUS
    <3>2. count[p] = Total([t \in T |-> IF p[t] = k THEN v[t] ELSE 0])
      OBVIOUS
    <3> HIDE DEF m
    <3>3. [t \in T |-> m[p][t]] = [t \in T |-> IF p[t] = k THEN v[t] ELSE 0]
      BY <3>1
    <3> QED
      BY <3>2, <3>3
  <2> QED
    BY <2>1
<1>5. each \in [T -> Int]
  <2>1. \A t \in T : c.alpha[t][k] \in Int /\ c.beta[t][k] \in Int /\ v[t] \in Int
    BY DEF Passed
  <2>2. \A x, y, z \in Int : x * y * z \in Int
    OBVIOUS
  <2> QED
    BY <2>1, <2>2
<1>6. ASSUME NEW t \in T PROVE each[t] = Total([p \in P |-> W[p] * m[p][t]])
  <2> DEFINE f == [p \in P |-> W[p] * m[p][t]]
  <2>1. v[t] \in Int
    OBVIOUS
  <2>2. \A p \in P : m[p][t] = IF p[t] = k THEN v[t] ELSE 0
    OBVIOUS
  <2>3. each[t] = c.alpha[t][k] * c.beta[t][k] * v[t]
    OBVIOUS
  <2>4. f \in [P -> Int]
    <3>1. \A x, y \in Int : x * y \in Int
      OBVIOUS
    <3>2. \A p \in P : m[p][t] \in Int
      BY <2>1, <2>2
    <3> HIDE DEF P, T, W, m
    <3> QED
      BY <1>2, <3>1, <3>2
  <2>5. \A p \in P : f[p] = W[p] * (IF p[t] = k THEN v[t] ELSE 0)
    <3>1. \A p \in P : f[p] = W[p] * m[p][t]
      OBVIOUS
    <3> HIDE DEF f, m, P
    <3> QED
      BY <2>2, <3>1
  <2> HIDE DEF f, each, m
  <2>6. Total(f) = c.alpha[t][k] * c.beta[t][k] * v[t]
    BY <2>1, <2>4, <2>5, DayWeight
  <2> QED
    BY <2>3, <2>6 DEF f
<1> HIDE DEF P, T, W, m, each
<1>7. Over(P, W, count) = Total(each)
  <2>1. ByDay(P, T, W, m, count, each)
    BY <1>2, <1>3, <1>4, <1>5, <1>6 DEF ByDay
  <2> QED
    BY <2>1, CountedByDay
<1> QED
  BY <1>7 DEF P, T, W, each

\* the days a path leaves a place,
CountsLeaves(c, k, count) ==
    /\ k \in c.places
    /\ \A p \in Paths(c.places, c.days) :
          count[p] = Total([t \in 2 .. c.days |-> IF p[t - 1] = k THEN 1 ELSE 0])
OfLeaves(c, k) == Total([t \in 1 .. c.days - 1 |-> c.alpha[t][k] * c.beta[t][k]])

LEMMA LeavesCounted ==
    ASSUME NEW c, IsChain(c), Weighed(c), Passed(c),
           NEW k, NEW count, CountsLeaves(c, k, count)
    PROVE  Over(Paths(c.places, c.days), c.weight[c.days], count) = OfLeaves(c, k)
<1> SUFFICES ASSUME k \in c.places,
                    \A p \in Paths(c.places, c.days) :
                       count[p] = Total([t \in 2 .. c.days |-> IF p[t - 1] = k THEN 1 ELSE 0])
             PROVE  Over(Paths(c.places, c.days), c.weight[c.days], count)
                    = Total([t \in 1 .. c.days - 1 |-> c.alpha[t][k] * c.beta[t][k]])
  BY DEF CountsLeaves, OfLeaves
<1> DEFINE n == c.days
           P == Paths(c.places, n)
           T == 2 .. n
           W == c.weight[n]
           m == [p \in P |-> [t \in T |-> IF p[t - 1] = k THEN 1 ELSE 0]]
           each == [t \in T |-> c.alpha[t - 1][k] * c.beta[t - 1][k]]
<1>1. n \in Nat \ {0} /\ n \in 1 .. n /\ IsFiniteSet(c.places) /\ \A t \in T : t - 1 \in 1 .. n
  BY DEF IsChain
<1>2. IsFiniteSet(P) /\ IsFiniteSet(T) /\ W \in [P -> Int]
  <2>1. IsFiniteSet(T)
    <3>1. 2 \in Int /\ n \in Int
      BY <1>1
    <3> QED
      BY <3>1, FS_Interval, Zenon
  <2>2. W \in [P -> Int]
    BY <1>1 DEF Weighed
  <2> QED
    BY <1>1, <2>1, <2>2, PathsFinite
<1>3. m \in [P -> [T -> Int]]
  OBVIOUS
<1>4. \A p \in P : count[p] = Total([t \in T |-> m[p][t]])
  <2>1. ASSUME NEW p \in P PROVE count[p] = Total([t \in T |-> m[p][t]])
    <3>1. \A t \in T : m[p][t] = IF p[t - 1] = k THEN 1 ELSE 0
      OBVIOUS
    <3>2. count[p] = Total([t \in T |-> IF p[t - 1] = k THEN 1 ELSE 0])
      OBVIOUS
    <3> HIDE DEF m
    <3>3. [t \in T |-> m[p][t]] = [t \in T |-> IF p[t - 1] = k THEN 1 ELSE 0]
      BY <3>1
    <3> QED
      BY <3>2, <3>3
  <2> QED
    BY <2>1
<1>5. each \in [T -> Int]
  <2>1. \A t \in T : c.alpha[t - 1][k] \in Int /\ c.beta[t - 1][k] \in Int
    BY <1>1 DEF Passed
  <2>2. \A x, y \in Int : x * y \in Int
    OBVIOUS
  <2> QED
    BY <2>1, <2>2
<1>6. ASSUME NEW t \in T PROVE each[t] = Total([p \in P |-> W[p] * m[p][t]])
  <2> DEFINE f == [p \in P |-> W[p] * m[p][t]]
             d == t - 1
  <2>1. d \in 1 .. n
    BY <1>1
  <2>2. \A p \in P : m[p][t] = IF p[d] = k THEN 1 ELSE 0
    OBVIOUS
  <2>3. each[t] = c.alpha[d][k] * c.beta[d][k]
    OBVIOUS
  <2>4. f \in [P -> Int]
    <3>1. \A x, y \in Int : x * y \in Int
      OBVIOUS
    <3>2. \A p \in P : m[p][t] \in Int
      BY <2>2
    <3> HIDE DEF P, T, W, m
    <3> QED
      BY <1>2, <3>1, <3>2
  <2>5. \A p \in P : f[p] = W[p] * (IF p[d] = k THEN 1 ELSE 0)
    <3>1. \A p \in P : f[p] = W[p] * m[p][t]
      OBVIOUS
    <3> HIDE DEF f, m, P
    <3> QED
      BY <2>2, <3>1
  <2> HIDE DEF f, each, m, d
  <2>6. Total(f) = c.alpha[d][k] * c.beta[d][k] * 1
    <3>1. 1 \in Int
      OBVIOUS
    <3> QED
      BY <2>1, <2>4, <2>5, <3>1, DayWeight
  <2>7. c.alpha[d][k] \in Int /\ c.beta[d][k] \in Int
    BY <2>1 DEF Passed
  <2>8. \A x, y \in Int : x * y * 1 = x * y
    OBVIOUS
  <2> QED
    BY <2>3, <2>6, <2>7, <2>8 DEF f
<1>7. \A t \in 1 .. n - 1 : each[t + 1] = c.alpha[t][k] * c.beta[t][k]
  <2>1. \A t \in 1 .. n - 1 : t + 1 \in T /\ (t + 1) - 1 = t
    BY <1>1
  <2> HIDE DEF T
  <2> QED
    BY <2>1
<1> HIDE DEF P, W, m, each
<1>8. Total([t \in 1 .. n - 1 |-> each[t + 1]]) = Total(each)
  BY <1>1, <1>5, TotalShifted
<1> HIDE DEF T
<1>9. Over(P, W, count) = Total(each)
  <2>1. ByDay(P, T, W, m, count, each)
    BY <1>2, <1>3, <1>4, <1>5, <1>6 DEF ByDay
  <2> QED
    BY <2>1, CountedByDay
<1>10. [t \in 1 .. n - 1 |-> each[t + 1]] = [t \in 1 .. n - 1 |-> c.alpha[t][k] * c.beta[t][k]]
  BY <1>7
<1> QED
  BY <1>8, <1>9, <1>10 DEF P, W

\* and the days it goes from one to another.
CountsMoves(c, j, k, count) ==
    /\ j \in c.places /\ k \in c.places
    /\ \A p \in Paths(c.places, c.days) :
          count[p] = Total([t \in 2 .. c.days |-> IF p[t - 1] = j /\ p[t] = k THEN 1 ELSE 0])
OfMoves(c, j, k) ==
    Total([t \in 1 .. c.days - 1 |-> c.alpha[t][j] * c.step[t + 1][j][k] * c.beta[t + 1][k]])

LEMMA MovesCounted ==
    ASSUME NEW c, IsChain(c), Weighed(c), Passed(c),
           NEW j, NEW k, NEW count, CountsMoves(c, j, k, count)
    PROVE  Over(Paths(c.places, c.days), c.weight[c.days], count) = OfMoves(c, j, k)
<1> SUFFICES ASSUME j \in c.places, k \in c.places,
                    \A p \in Paths(c.places, c.days) :
                       count[p] = Total([t \in 2 .. c.days |-> IF p[t - 1] = j /\ p[t] = k THEN 1 ELSE 0])
             PROVE  Over(Paths(c.places, c.days), c.weight[c.days], count)
                    = Total([t \in 1 .. c.days - 1 |->
                               c.alpha[t][j] * c.step[t + 1][j][k] * c.beta[t + 1][k]])
  BY DEF CountsMoves, OfMoves
<1> DEFINE n == c.days
           P == Paths(c.places, n)
           T == 2 .. n
           W == c.weight[n]
           m == [p \in P |-> [t \in T |-> IF p[t - 1] = j /\ p[t] = k THEN 1 ELSE 0]]
           each == [t \in T |-> c.alpha[t - 1][j] * c.step[t][j][k] * c.beta[t][k]]
<1>1. /\ n \in Nat \ {0} /\ n \in 1 .. n /\ IsFiniteSet(c.places)
      /\ \A t \in T : t - 1 \in 1 .. n /\ t - 1 \in 1 .. n - 1 /\ t \in 1 .. n /\ (t - 1) + 1 = t
  BY DEF IsChain
<1>2. IsFiniteSet(P) /\ IsFiniteSet(T) /\ W \in [P -> Int]
  <2>1. IsFiniteSet(T)
    <3>1. 2 \in Int /\ n \in Int
      BY <1>1
    <3> QED
      BY <3>1, FS_Interval, Zenon
  <2>2. W \in [P -> Int]
    BY <1>1 DEF Weighed
  <2> QED
    BY <1>1, <2>1, <2>2, PathsFinite
<1>3. m \in [P -> [T -> Int]]
  OBVIOUS
<1>4. \A p \in P : count[p] = Total([t \in T |-> m[p][t]])
  <2>1. ASSUME NEW p \in P PROVE count[p] = Total([t \in T |-> m[p][t]])
    <3>1. \A t \in T : m[p][t] = IF p[t - 1] = j /\ p[t] = k THEN 1 ELSE 0
      OBVIOUS
    <3>2. count[p] = Total([t \in T |-> IF p[t - 1] = j /\ p[t] = k THEN 1 ELSE 0])
      OBVIOUS
    <3> HIDE DEF m
    <3>3. [t \in T |-> m[p][t]] = [t \in T |-> IF p[t - 1] = j /\ p[t] = k THEN 1 ELSE 0]
      BY <3>1
    <3> QED
      BY <3>2, <3>3
  <2> QED
    BY <2>1
<1>5. each \in [T -> Int]
  <2>1. \A t \in T : /\ c.alpha[t - 1][j] \in Int /\ c.step[t][j][k] \in Int
                     /\ c.beta[t][k] \in Int
    <3>1. \A t \in T : c.alpha[t - 1][j] \in Int /\ c.beta[t][k] \in Int
      BY <1>1 DEF Passed
    <3>2. \A t \in T : c.step[t][j][k] \in Int
      BY DEF IsChain
    <3> QED
      BY <3>1, <3>2
  <2>2. \A x, y, z \in Int : x * y * z \in Int
    OBVIOUS
  <2> QED
    BY <2>1, <2>2
<1>6. ASSUME NEW t \in T PROVE each[t] = Total([p \in P |-> W[p] * m[p][t]])
  <2> DEFINE f == [p \in P |-> W[p] * m[p][t]]
             d == t - 1
  <2>1. d \in 1 .. n - 1 /\ d + 1 = t
    BY <1>1
  <2>2. \A p \in P : m[p][t] = IF p[d] = j /\ p[t] = k THEN 1 ELSE 0
    OBVIOUS
  <2>3. each[t] = c.alpha[d][j] * c.step[t][j][k] * c.beta[t][k]
    OBVIOUS
  <2>4. f \in [P -> Int]
    <3>1. \A x, y \in Int : x * y \in Int
      OBVIOUS
    <3>2. \A p \in P : m[p][t] \in Int
      BY <2>2
    <3> HIDE DEF P, T, W, m
    <3> QED
      BY <1>2, <3>1, <3>2
  <2>5. \A p \in P : f[p] = W[p] * (IF p[d] = j /\ p[d + 1] = k THEN 1 ELSE 0)
    <3>1. \A p \in P : f[p] = W[p] * m[p][t]
      OBVIOUS
    <3> HIDE DEF f, m, P, d
    <3> QED
      BY <2>1, <2>2, <3>1
  <2> HIDE DEF f, each, m, d
  <2>6. Total(f) = c.alpha[d][j] * c.step[d + 1][j][k] * c.beta[d + 1][k]
    BY <2>1, <2>4, <2>5, MoveWeight
  <2> QED
    BY <2>1, <2>3, <2>6 DEF f
<1>7. \A t \in 1 .. n - 1 :
         each[t + 1] = c.alpha[t][j] * c.step[t + 1][j][k] * c.beta[t + 1][k]
  <2>1. \A t \in 1 .. n - 1 : t + 1 \in T /\ (t + 1) - 1 = t
    BY <1>1
  <2> HIDE DEF T
  <2> QED
    BY <2>1
<1> HIDE DEF P, W, m, each
<1>8. Total([t \in 1 .. n - 1 |-> each[t + 1]]) = Total(each)
  BY <1>1, <1>5, TotalShifted
<1> HIDE DEF T
<1>9. Over(P, W, count) = Total(each)
  <2>1. ByDay(P, T, W, m, count, each)
    BY <1>2, <1>3, <1>4, <1>5, <1>6 DEF ByDay
  <2> QED
    BY <2>1, CountedByDay
<1>10. [t \in 1 .. n - 1 |-> each[t + 1]]
         = [t \in 1 .. n - 1 |-> c.alpha[t][j] * c.step[t + 1][j][k] * c.beta[t + 1][k]]
  BY <1>7
<1> QED
  BY <1>8, <1>9, <1>10 DEF P, W

LEMMA StateOf == ASSUME NEW f, NEW k \in States PROVE ByState(f)[k] = f[k]
  BY DEF ByState, States

\* What the two passes give a day and a move.
LEMMA EStepIs ==
    ASSUME NEW hmm, NEW observed, NEW moves, Observation(hmm, observed, moves)
    PROVE  LET c == Chain(hmm, observed)
               e == EStep(hmm, observed)
           IN  \A k \in States :
                  /\ \A t \in 1 .. Len(observed) :
                        e.gamma[t][k] = c.alpha[t][k] * c.beta[t][k]
                  /\ \A j \in States :
                        e.xi[j][k] = Total([t \in 1 .. Len(observed) - 1 |->
                           c.alpha[t][j] * c.step[t + 1][j][k] * c.beta[t + 1][k]])
<1> DEFINE c == Chain(hmm, observed)
           e == EStep(hmm, observed)
           n == Len(observed)
           a == Forward(hmm, observed)
           b == Backward(hmm, observed)
           m == hmm.transition
           d == hmm.density
<1>1. n \in Nat \ {0} /\ DOMAIN observed = 1 .. n
  BY DEF Observation
<1>2. c.alpha = a /\ c.beta = b
  BY DEF Chain
<1>3. /\ IsChain(c) /\ Weighed(c)
      /\ \A t \in 2 .. n : \A j, k \in States :
            /\ c.step[t][j][k] = m[j][k] * d[k][observed[t]]
            /\ m[j][k] \in Nat /\ d[k][observed[t]] \in Nat
  BY ChainWeighs
<1>4. \A t \in 1 .. n : a[t] \in Weights /\ b[t] \in Weights
  BY ForwardIn, BackwardIn
<1>5. /\ e.gamma = [t \in 1 .. n |-> ByState([k \in States |-> a[t][k] * b[t][k]])]
      /\ e.xi = ByState([j \in States |-> ByState([k \in States |->
                   Total([t \in 1 .. n - 1 |->
                      a[t][j] * m[j][k] * d[k][observed[t + 1]] * b[t + 1][k]])])])
  BY <1>1 DEF EStep
<1> HIDE DEF a, b, c, e, m, d
<1>6. ASSUME NEW k \in States, NEW t \in 1 .. n PROVE e.gamma[t][k] = a[t][k] * b[t][k]
  <2> DEFINE f == [i \in States |-> a[t][i] * b[t][i]]
  <2>1. e.gamma[t] = ByState(f)
    BY <1>5
  <2>2. f[k] = a[t][k] * b[t][k]
    OBVIOUS
  <2> HIDE DEF f
  <2> QED
    BY <2>1, <2>2, StateOf
<1>7. ASSUME NEW j \in States, NEW k \in States
      PROVE  e.xi[j][k] = Total([t \in 1 .. n - 1 |-> a[t][j] * c.step[t + 1][j][k] * b[t + 1][k]])
  <2> DEFINE moved(i, l) == Total([t \in 1 .. n - 1 |->
                      a[t][i] * m[i][l] * d[l][observed[t + 1]] * b[t + 1][l]])
             row == [l \in States |-> moved(j, l)]
             rows == [i \in States |-> ByState([l \in States |-> moved(i, l)])]
  <2>1. e.xi = ByState(rows)
    BY <1>5
  <2> HIDE DEF moved
  <2>2. rows[j] = ByState(row)
    OBVIOUS
  <2>3. row[k] = moved(j, k)
    OBVIOUS
  <2> HIDE DEF row, rows
  <2>4. e.xi[j] = ByState(row)
    BY <2>1, <2>2, StateOf
  <2>5. e.xi[j][k] = moved(j, k)
    BY <2>3, <2>4, StateOf
  <2>6. ASSUME NEW t \in 1 .. n - 1
        PROVE  a[t][j] * m[j][k] * d[k][observed[t + 1]] * b[t + 1][k]
               = a[t][j] * c.step[t + 1][j][k] * b[t + 1][k]
    <3>1. t \in 1 .. n /\ t + 1 \in 1 .. n /\ t + 1 \in 2 .. n
      BY <1>1
    <3>2. /\ c.step[t + 1][j][k] = m[j][k] * d[k][observed[t + 1]]
          /\ m[j][k] \in Nat /\ d[k][observed[t + 1]] \in Nat
      BY <1>3, <3>1
    <3>3. a[t][j] \in Nat /\ b[t + 1][k] \in Nat
      BY <1>4, <3>1 DEF Weights
    <3>4. \A x, y, z, u \in Nat : x * y * z * u = x * (y * z) * u
      OBVIOUS
    <3> QED
      BY <3>2, <3>3, <3>4
  <2>7. [t \in 1 .. n - 1 |-> a[t][j] * m[j][k] * d[k][observed[t + 1]] * b[t + 1][k]]
          = [t \in 1 .. n - 1 |-> a[t][j] * c.step[t + 1][j][k] * b[t + 1][k]]
    BY <2>6
  <2> QED
    BY <2>5, <2>7 DEF moved
<1> QED
  BY <1>2, <1>6, <1>7 DEF c, e

\* What the next model is made of.
NextOf(next, observed, e, k) ==
    /\ next.initial = e.gamma[1] /\ next.moves = e.xi
    /\ next.left[k] = Total([t \in 1 .. Len(observed) - 1 |-> e.gamma[t][k]])
    /\ next.sums[k] = Total([t \in DOMAIN observed |-> e.gamma[t][k] * observed[t]])
    /\ next.days[k] = Total([t \in DOMAIN observed |-> e.gamma[t][k]])

LEMMA MStepIs ==
    ASSUME NEW observed, NEW e, NEW k \in States
    PROVE  NextOf(MStep(observed, e), observed, e, k)
<1> DEFINE next == MStep(observed, e)
           left == [i \in States |-> Total([t \in 1 .. Len(observed) - 1 |-> e.gamma[t][i]])]
           sums == [i \in States |-> Total([t \in DOMAIN observed |-> e.gamma[t][i] * observed[t]])]
           days == [i \in States |-> Total([t \in DOMAIN observed |-> e.gamma[t][i]])]
<1>1. /\ next.initial = e.gamma[1] /\ next.moves = e.xi
      /\ next.left = ByState(left) /\ next.sums = ByState(sums) /\ next.days = ByState(days)
  BY DEF MStep
<1>2. /\ left[k] = Total([t \in 1 .. Len(observed) - 1 |-> e.gamma[t][k]])
      /\ sums[k] = Total([t \in DOMAIN observed |-> e.gamma[t][k] * observed[t]])
      /\ days[k] = Total([t \in DOMAIN observed |-> e.gamma[t][k]])
  OBVIOUS
<1>3. ByState(left)[k] = left[k] /\ ByState(sums)[k] = sums[k] /\ ByState(days)[k] = days[k]
  <2> HIDE DEF left, sums, days
  <2> QED
    BY StateOf
<1> HIDE DEF left, sums, days, next
<1> QED
  BY <1>1, <1>2, <1>3 DEF next, NextOf

\* What a round should count of each path, and what it then comes to.
CountsAll(P, n, observed, j, k, starts, goes, leaves, stays, returns) ==
    \A p \in P :
       /\ starts[p] = IF p[1] = k THEN 1 ELSE 0
       /\ goes[p] = Cardinality({t \in 2 .. n : p[t - 1] = j /\ p[t] = k})
       /\ leaves[p] = Cardinality({t \in 2 .. n : p[t - 1] = k})
       /\ stays[p] = Cardinality({t \in 1 .. n : p[t] = k})
       /\ returns[p] = Total([t \in {u \in 1 .. n : p[u] = k} |-> observed[t]])

ComesTo(next, P, W, j, k, starts, goes, leaves, stays, returns) ==
    /\ next.initial[k] = Over(P, W, starts)
    /\ next.moves[j][k] = Over(P, W, goes)
    /\ next.left[k] = Over(P, W, leaves)
    /\ next.days[k] = Over(P, W, stays)
    /\ next.sums[k] = Over(P, W, returns)

LEMMA Reestimated ==
    ASSUME NEW hmm, NEW observed, NEW moves, Observation(hmm, observed, moves), moves \subseteq Int,
           NEW n, n = Len(observed), NEW k \in States, NEW j \in States,
           NEW P, P = Paths(States, n),
           NEW W, W = Chain(hmm, observed).weight[n],
           NEW starts, NEW goes, NEW leaves, NEW stays, NEW returns,
           CountsAll(P, n, observed, j, k, starts, goes, leaves, stays, returns)
    PROVE  ComesTo(MStep(observed, EStep(hmm, observed)), P, W, j, k,
                   starts, goes, leaves, stays, returns)
<1> SUFFICES
      ASSUME \A p \in P : starts[p] = IF p[1] = k THEN 1 ELSE 0,
             \A p \in P : goes[p] = Cardinality({t \in 2 .. n : p[t - 1] = j /\ p[t] = k}),
             \A p \in P : leaves[p] = Cardinality({t \in 2 .. n : p[t - 1] = k}),
             \A p \in P : stays[p] = Cardinality({t \in 1 .. n : p[t] = k}),
             \A p \in P :
                returns[p] = Total([t \in {u \in 1 .. n : p[u] = k} |-> observed[t]])
      PROVE  ComesTo(MStep(observed, EStep(hmm, observed)), P, W, j, k,
                     starts, goes, leaves, stays, returns)
  BY DEF CountsAll
<1> DEFINE c == Chain(hmm, observed)
           e == EStep(hmm, observed)
           next == MStep(observed, e)
           a == c.alpha
           b == c.beta
           one == [t \in 1 .. n |-> 1]
<1>1. /\ IsChain(c) /\ Weighed(c) /\ Passed(c) /\ c.days = n /\ c.places = States
      /\ c.alpha = Forward(hmm, observed) /\ c.beta = Backward(hmm, observed)
  BY ChainIs
<1>2. /\ \A t \in 1 .. n : e.gamma[t][k] = a[t][k] * b[t][k]
      /\ e.xi[j][k] = Total([t \in 1 .. n - 1 |-> a[t][j] * c.step[t + 1][j][k] * b[t + 1][k]])
  <2>1. \A i \in States :
                  /\ \A t \in 1 .. Len(observed) : e.gamma[t][i] = c.alpha[t][i] * c.beta[t][i]
                  /\ \A l \in States :
                        e.xi[l][i] = Total([t \in 1 .. Len(observed) - 1 |->
                           c.alpha[t][l] * c.step[t + 1][l][i] * c.beta[t + 1][i]])
    BY EStepIs
  <2> HIDE DEF c, e
  <2> QED
    BY <2>1
<1>3. /\ next.initial = e.gamma[1] /\ next.moves = e.xi
      /\ next.left[k] = Total([t \in 1 .. n - 1 |-> e.gamma[t][k]])
      /\ next.sums[k] = Total([t \in 1 .. n |-> e.gamma[t][k] * observed[t]])
      /\ next.days[k] = Total([t \in 1 .. n |-> e.gamma[t][k]])
  <2>1. NextOf(next, observed, e, k)
    <3> HIDE DEF e
    <3> QED
      BY MStepIs
  <2>2. DOMAIN observed = 1 .. n
    BY DEF Observation
  <2> HIDE DEF next, e
  <2> QED
    BY <2>1, <2>2 DEF NextOf
<1>4. n \in Nat \ {0} /\ 1 \in 1 .. n
  BY DEF Observation
<1>5. \A t \in 1 .. n : observed[t] \in Int
  <2>1. observed \in Seq(moves)
    BY DEF Observation
  <2>2. \A t \in 1 .. Len(observed) : observed[t] \in moves
    BY <2>1
  <2> QED
    BY <2>2
<1>6. \A t \in 1 .. n : a[t][k] \in Int /\ b[t][k] \in Int
  <2> HIDE DEF c
  <2> QED
    BY <1>1 DEF Passed
<1>7. P = Paths(c.places, c.days) /\ W = c.weight[c.days] /\ k \in c.places /\ j \in c.places
  BY <1>1
<1> HIDE DEF c, e, next
<1>f. IsFiniteSet(1 .. n) /\ IsFiniteSet(2 .. n)
  <2>1. 1 \in Int /\ 2 \in Int /\ n \in Int
    BY <1>4
  <2> QED
    BY <2>1, FS_Interval, Zenon
<1>8. next.initial[k] = Over(P, W, starts)
  <2> DEFINE f == [p \in P |-> W[p] * starts[p]]
  <2>1. W \in [P -> Int]
    <3>1. n \in 1 .. n
      BY <1>4
    <3> QED
      BY <1>1, <1>7, <3>1 DEF Weighed
  <2>2. \A p \in P : f[p] = W[p] * (IF p[1] = k THEN 1 ELSE 0)
    OBVIOUS
  <2>3. f \in [P -> Int]
    <3>1. \A x \in Int : x * 1 \in Int /\ x * 0 \in Int
      OBVIOUS
    <3> QED
      BY <2>1, <3>1
  <2> HIDE DEF f
  <2>4. Total(f) = a[1][k] * b[1][k] * 1
    <3>1. 1 \in Int /\ 1 \in 1 .. c.days
      BY <1>1, <1>4
    <3>2. f \in [Paths(c.places, c.days) -> Int]
      BY <1>7, <2>3
    <3>3. \A p \in Paths(c.places, c.days) :
              f[p] = c.weight[c.days][p] * (IF p[1] = k THEN 1 ELSE 0)
      BY <1>7, <2>2
    <3> QED
      BY <1>1, <1>7, <3>1, <3>2, <3>3, DayWeight
  <2>5. \A x, y \in Int : x * y * 1 = x * y
    OBVIOUS
  <2>6. Total(f) = e.gamma[1][k]
    BY <1>2, <1>4, <1>6, <2>4, <2>5
  <2> QED
    BY <1>3, <2>6 DEF f, Over
<1>9. next.moves[j][k] = Over(P, W, goes)
  <2>1. ASSUME NEW p \in P
        PROVE  goes[p] = Total([t \in 2 .. n |-> IF p[t - 1] = j /\ p[t] = k THEN 1 ELSE 0])
    <3> DEFINE S == 2 .. n
               A == {t \in S : p[t - 1] = j /\ p[t] = k}
    <3>1. A \in SUBSET S /\ goes[p] = Cardinality(A)
      OBVIOUS
    <3>2. \A t \in S : t \in A <=> p[t - 1] = j /\ p[t] = k
      OBVIOUS
    <3> HIDE DEF A, S
    <3>3. Total([t \in S |-> IF t \in A THEN 1 ELSE 0]) = Cardinality(A)
      <4>1. IsFiniteSet(S)
        BY <1>f DEF S
      <4> QED
        BY <3>1, <4>1, TotalCounts
    <3>4. [t \in S |-> IF t \in A THEN 1 ELSE 0]
            = [t \in S |-> IF p[t - 1] = j /\ p[t] = k THEN 1 ELSE 0]
      BY <3>2
    <3> QED
      BY <3>1, <3>3, <3>4 DEF S
  <2>2. \A p \in Paths(c.places, c.days) : goes[p]
           = Total([t \in 2 .. c.days |-> IF p[t - 1] = j /\ p[t] = k THEN 1 ELSE 0])
    BY <1>1, <1>7, <2>1
  <2>3. Over(Paths(c.places, c.days), c.weight[c.days], goes) = OfMoves(c, j, k)
    <3>1. CountsMoves(c, j, k, goes)
      BY <1>7, <2>2 DEF CountsMoves
    <3> QED
      BY <1>1, <3>1, MovesCounted
  <2> QED
    BY <1>1, <1>2, <1>3, <1>7, <2>3 DEF OfMoves
<1>10. next.left[k] = Over(P, W, leaves)
  <2>1. ASSUME NEW p \in P
        PROVE  leaves[p] = Total([t \in 2 .. n |-> IF p[t - 1] = k THEN 1 ELSE 0])
    <3> DEFINE S == 2 .. n
               A == {t \in S : p[t - 1] = k}
    <3>1. A \in SUBSET S /\ leaves[p] = Cardinality(A)
      OBVIOUS
    <3>2. \A t \in S : t \in A <=> p[t - 1] = k
      OBVIOUS
    <3> HIDE DEF A, S
    <3>3. Total([t \in S |-> IF t \in A THEN 1 ELSE 0]) = Cardinality(A)
      <4>1. IsFiniteSet(S)
        BY <1>f DEF S
      <4> QED
        BY <3>1, <4>1, TotalCounts
    <3>4. [t \in S |-> IF t \in A THEN 1 ELSE 0] = [t \in S |-> IF p[t - 1] = k THEN 1 ELSE 0]
      BY <3>2
    <3> QED
      BY <3>1, <3>3, <3>4 DEF S
  <2>2. \A p \in Paths(c.places, c.days) :
           leaves[p] = Total([t \in 2 .. c.days |-> IF p[t - 1] = k THEN 1 ELSE 0])
    BY <1>1, <1>7, <2>1
  <2>3. Over(Paths(c.places, c.days), c.weight[c.days], leaves) = OfLeaves(c, k)
    <3>1. CountsLeaves(c, k, leaves)
      BY <1>7, <2>2 DEF CountsLeaves
    <3> QED
      BY <1>1, <3>1, LeavesCounted
  <2>4. \A t \in 1 .. n - 1 : e.gamma[t][k] = a[t][k] * b[t][k]
    <3>1. \A t \in 1 .. n - 1 : t \in 1 .. n
      BY <1>4
    <3> QED
      BY <1>2, <3>1
  <2>5. [t \in 1 .. n - 1 |-> e.gamma[t][k]] = [t \in 1 .. n - 1 |-> a[t][k] * b[t][k]]
    BY <2>4
  <2> QED
    BY <1>1, <1>3, <1>7, <2>3, <2>5 DEF OfLeaves
<1>11. next.days[k] = Over(P, W, stays)
  <2>0. one \in [1 .. n -> Int] /\ \A t \in 1 .. n : one[t] = 1
    OBVIOUS
  <2> HIDE DEF one
  <2>1. ASSUME NEW p \in P
        PROVE  stays[p] = Total([t \in 1 .. n |-> IF p[t] = k THEN one[t] ELSE 0])
    <3> DEFINE S == 1 .. n
               A == {t \in S : p[t] = k}
    <3>1. A \in SUBSET S /\ stays[p] = Cardinality(A)
      OBVIOUS
    <3>2. \A t \in S : (t \in A <=> p[t] = k) /\ one[t] = 1
      BY <2>0
    <3> HIDE DEF A, S
    <3>3. Total([t \in S |-> IF t \in A THEN 1 ELSE 0]) = Cardinality(A)
      <4>1. IsFiniteSet(S)
        BY <1>f DEF S
      <4> QED
        BY <3>1, <4>1, TotalCounts
    <3>4. [t \in S |-> IF t \in A THEN 1 ELSE 0] = [t \in S |-> IF p[t] = k THEN one[t] ELSE 0]
      BY <3>2
    <3> QED
      BY <3>1, <3>3, <3>4 DEF S
  <2>2. /\ one \in [1 .. c.days -> Int]
        /\ \A p \in Paths(c.places, c.days) :
              stays[p] = Total([t \in 1 .. c.days |-> IF p[t] = k THEN one[t] ELSE 0])
    BY <1>1, <1>7, <2>0, <2>1
  <2>3. Over(Paths(c.places, c.days), c.weight[c.days], stays) = OfDays(c, k, one)
    <3>1. CountsDays(c, k, one, stays)
      BY <1>7, <2>2 DEF CountsDays
    <3> QED
      BY <1>1, <3>1, DaysCounted
  <2>4. \A t \in 1 .. n : e.gamma[t][k] = a[t][k] * b[t][k] * one[t]
    <3> TAKE t \in 1 .. n
    <3>1. \A x, y \in Int : x * y * 1 = x * y
      OBVIOUS
    <3>2. a[t][k] \in Int /\ b[t][k] \in Int /\ e.gamma[t][k] = a[t][k] * b[t][k] /\ one[t] = 1
      BY <1>2, <1>6, <2>0
    <3> HIDE DEF a, b
    <3> QED
      BY <3>1, <3>2
  <2>5. [t \in 1 .. n |-> e.gamma[t][k]] = [t \in 1 .. n |-> a[t][k] * b[t][k] * one[t]]
    BY <2>4
  <2> QED
    BY <1>1, <1>3, <1>7, <2>3, <2>5 DEF OfDays
<1>12. next.sums[k] = Over(P, W, returns)
  <2> DEFINE v == [t \in 1 .. n |-> observed[t]]
  <2>0. v \in [1 .. n -> Int] /\ \A t \in 1 .. n : v[t] = observed[t]
    BY <1>5
  <2> HIDE DEF v
  <2>1. ASSUME NEW p \in P
        PROVE  returns[p] = Total([t \in 1 .. n |-> IF p[t] = k THEN v[t] ELSE 0])
    <3> DEFINE S == 1 .. n
               A == {t \in S : p[t] = k}
    <3>1. A \in SUBSET S /\ returns[p] = Total([t \in A |-> observed[t]])
      OBVIOUS
    <3>2. \A t \in S : (t \in A <=> p[t] = k)
      OBVIOUS
    <3> HIDE DEF A
    <3>3. Restrict(v, A) = [t \in A |-> observed[t]]
      BY <2>0, <3>1 DEF Restrict
    <3> HIDE DEF S
    <3>4. Total(Restrict(v, A)) = Total([t \in S |-> IF t \in A THEN v[t] ELSE 0])
      <4>1. v \in [S -> Int] /\ IsFiniteSet(S)
        BY <1>f, <2>0 DEF S
      <4>2. \A R, B, g : IsFiniteSet(R) /\ g \in [R -> Int] /\ B \in SUBSET R
              => Total(Restrict(g, B)) = Total([x \in R |-> IF x \in B THEN g[x] ELSE 0])
        BY TotalMarked
      <4> QED
        BY <3>1, <4>1, <4>2
    <3>5. [t \in S |-> IF t \in A THEN v[t] ELSE 0] = [t \in S |-> IF p[t] = k THEN v[t] ELSE 0]
      BY <3>2
    <3> QED
      BY <3>1, <3>3, <3>4, <3>5 DEF S
  <2>2. /\ v \in [1 .. c.days -> Int]
        /\ \A p \in Paths(c.places, c.days) :
              returns[p] = Total([t \in 1 .. c.days |-> IF p[t] = k THEN v[t] ELSE 0])
    BY <1>1, <1>7, <2>0, <2>1
  <2>3. Over(Paths(c.places, c.days), c.weight[c.days], returns) = OfDays(c, k, v)
    <3>1. CountsDays(c, k, v, returns)
      BY <1>7, <2>2 DEF CountsDays
    <3> QED
      BY <1>1, <3>1, DaysCounted
  <2>4. \A t \in 1 .. n : e.gamma[t][k] * observed[t] = a[t][k] * b[t][k] * v[t]
    BY <1>2, <2>0
  <2>5. [t \in 1 .. n |-> e.gamma[t][k] * observed[t]] = [t \in 1 .. n |-> a[t][k] * b[t][k] * v[t]]
    BY <2>4
  <2> QED
    BY <1>1, <1>3, <1>7, <2>3, <2>5 DEF OfDays
<1> QED
  BY <1>8, <1>9, <1>10, <1>11, <1>12 DEF ComesTo, next, e

\* What was fitted on, after a fit.
LEMMA FittedOn ==
    ASSUME RunInv, stage = "fitted"
    PROVE  /\ Observation(World.hmm, Observed, Moves(World.raw["MARKET"]))
           /\ Len(Observed) = model.window
           /\ model.regime = FitHmm(World.hmm, Observed)
           /\ Moves(World.raw["MARKET"]) \subseteq Int
<1> DEFINE w == Smaller(Window, Len(data.factors["MARKET"]))
<1>1. Loaded /\ Modelled
  BY DEF Loaded, Modelled
<1>2. /\ w \in 1 .. Len(data.factors["MARKET"])
      /\ model.window = w
      /\ model.regime = FitHmm(World.hmm, MarketTail(data, w))
  BY <1>1, ModelSaw
<1> HIDE DEF w
<1>3. /\ data.factors["MARKET"] \in Seq(Moves(World.raw["MARKET"]))
      /\ IsFit(World.hmm, Moves(World.raw["MARKET"]))
  BY <1>1, LoadedTable DEF RunInv, DataHeld
<1>4. /\ Observation(World.hmm, MarketTail(data, w), Moves(World.raw["MARKET"]))
      /\ Len(MarketTail(data, w)) = w
  BY <1>2, <1>3, TailObserved
<1>5. Observed = MarketTail(data, w)
  BY <1>2 DEF Observed, MarketTail
<1>6. Moves(World.raw["MARKET"]) \subseteq Int
  <2>1. Request \in Requests
    BY RequestIn DEF RunInv
  <2>2. IsSeries(World.raw["MARKET"])
    <3>1. Request.market \in DOMAIN Markets
      BY <2>1, SessionsAssumption DEF IsRequest
    <3>2. "MARKET" \in DOMAIN World.raw /\ \A s \in DOMAIN World.raw : IsSeries(World.raw[s])
      BY <3>1, MarketsAssumption DEF World, FactorTickers
    <3> QED
      BY <3>2
  <2>3. \A x, y \in Int : x - y \in Int
    OBVIOUS
  <2>4. \A d \in DOMAIN World.raw["MARKET"] : World.raw["MARKET"][d] \in Int
    BY <2>2 DEF IsSeries
  <2> QED
    BY <2>3, <2>4 DEF Moves
<1> QED
  BY <1>2, <1>4, <1>5, <1>6

\* The weights of the property are those of the chain.
LEMMA WeightsAreChain ==
    ASSUME RunInv, stage = "fitted"
    PROVE  Chain(World.hmm, Observed).weight[model.window]
           = [p \in [1 .. model.window -> States] |-> PathWeight(World.hmm, p)]
<1> DEFINE n == model.window
           P == [1 .. n -> States]
           hmm == World.hmm
           seen == Observed
<1>1. Len(Observed) = n /\ n \in 1 .. n /\ n \in Nat
  BY FittedOn DEF Observation
<1>2. Chain(hmm, seen).weight[n] = [q \in P |-> WeightOn(hmm, seen, q)[n]]
  <2> HIDE DEF hmm, seen, n
  <2> QED
    BY <1>1 DEF Chain, Paths, seen
<1>3. \A p \in P : PathWeight(hmm, p) = WeightOn(hmm, seen, p)[n]
  <2> TAKE p \in P
  <2>1. p \in Seq(States) /\ Len(p) = n
    BY <1>1
  <2>2. PathWeight(hmm, p) = WeightOn(hmm, Observed, p)[Len(p)]
    <3> HIDE DEF hmm
    <3> QED
      BY PathWeightIs
  <2> QED
    BY <2>1, <2>2
<1> HIDE DEF hmm, seen, P
<1>4. [q \in P |-> WeightOn(hmm, seen, q)[n]] = [p \in P |-> PathWeight(hmm, p)]
  BY <1>3
<1> QED
  BY <1>2, <1>4 DEF hmm, seen, P

LEMMA RunInvReestimates == RunInv => ReestimateIsExpected
<1> SUFFICES ASSUME RunInv, stage = "fitted"
             PROVE  LET n == model.window
                        weight == [p \in [1 .. n -> States] |-> PathWeight(World.hmm, p)]
                        over(count) == Total([p \in DOMAIN weight |-> weight[p] * count[p]])
                        next == MStep(Observed, EStep(World.hmm, Observed))
                    IN  \A k \in States :
                           /\ next.initial[k] = over([p \in DOMAIN weight |-> IF p[1] = k THEN 1 ELSE 0])
                           /\ \A j \in States : next.moves[j][k] = over([p \in DOMAIN weight |->
                                 Cardinality({t \in 2 .. n : p[t - 1] = j /\ p[t] = k})])
                           /\ next.left[k] = over([p \in DOMAIN weight |->
                                 Cardinality({t \in 2 .. n : p[t - 1] = k})])
                           /\ next.days[k] = over([p \in DOMAIN weight |->
                                 Cardinality({t \in 1 .. n : p[t] = k})])
                           /\ next.sums[k] = over([p \in DOMAIN weight |->
                                 Total([t \in {u \in 1 .. n : p[u] = k} |-> Observed[t]])])
  BY DEF ReestimateIsExpected
<1> DEFINE hmm == World.hmm
           seen == Observed
           n == model.window
           weight == [p \in [1 .. n -> States] |-> PathWeight(World.hmm, p)]
           P == DOMAIN weight
           over(count) == Total([p \in P |-> weight[p] * count[p]])
           next == MStep(seen, EStep(hmm, seen))
           starts(k) == [p \in P |-> IF p[1] = k THEN 1 ELSE 0]
           goes(j, k) == [p \in P |-> Cardinality({t \in 2 .. n : p[t - 1] = j /\ p[t] = k})]
           leaves(k) == [p \in P |-> Cardinality({t \in 2 .. n : p[t - 1] = k})]
           stays(k) == [p \in P |-> Cardinality({t \in 1 .. n : p[t] = k})]
           returns(k) == [p \in P |-> Total([t \in {u \in 1 .. n : p[u] = k} |-> seen[t]])]
<1>1. /\ Observation(hmm, seen, Moves(World.raw["MARKET"])) /\ Len(seen) = n
      /\ Moves(World.raw["MARKET"]) \subseteq Int
  BY FittedOn
<1>2. weight = Chain(hmm, seen).weight[n]
  BY WeightsAreChain
<1>3. P = Paths(States, n)
  BY DEF Paths
<1>4. ASSUME NEW k \in States, NEW j \in States
      PROVE  /\ next.initial[k] = over(starts(k))
             /\ next.moves[j][k] = over(goes(j, k))
             /\ next.left[k] = over(leaves(k))
             /\ next.days[k] = over(stays(k))
             /\ next.sums[k] = over(returns(k))
  <2> DEFINE a == starts(k)
             b == goes(j, k)
             c == leaves(k)
             d == stays(k)
             e == returns(k)
  <2>1. \A p \in P : a[p] = IF p[1] = k THEN 1 ELSE 0
    OBVIOUS
  <2>2. \A p \in P : b[p] = Cardinality({t \in 2 .. n : p[t - 1] = j /\ p[t] = k})
    OBVIOUS
  <2>3. \A p \in P : c[p] = Cardinality({t \in 2 .. n : p[t - 1] = k})
    OBVIOUS
  <2>4. \A p \in P : d[p] = Cardinality({t \in 1 .. n : p[t] = k})
    OBVIOUS
  <2>5. \A p \in P : e[p] = Total([t \in {u \in 1 .. n : p[u] = k} |-> seen[t]])
    OBVIOUS
  <2> HIDE DEF hmm, seen, n, P, weight, a, b, c, d, e
  <2>6. CountsAll(P, n, seen, j, k, a, b, c, d, e)
    BY <2>1, <2>2, <2>3, <2>4, <2>5 DEF CountsAll
  <2>7. ComesTo(next, P, weight, j, k, a, b, c, d, e)
    BY <1>1, <1>2, <1>3, <2>6, Reestimated
  <2> HIDE DEF next
  <2> QED
    BY <2>7 DEF ComesTo, Over, a, b, c, d, e
<1> QED
  BY <1>4

(* A round of Baum-Welch counts what it should: the paths that start in a  *)
(* state, the moves from one to another, the days in it and the returns of *)
(* those days, over all the paths there are by their weights.  regime.rs:  *)
(* forward, backward, e_step, m_step.                                      *)
THEOREM ReestimateAlways == Spec => []ReestimateIsExpected
BY RunInvAlways, RunInvReestimates, PTL

(***************************************************************************)
(* The path that is decoded.  A path to day t scores the logarithms of its *)
(* steps and of what was seen on its days; delta of a day is the best      *)
(* score of the paths to it, as long as the floor of viterbi is below them.*)
(***************************************************************************)
LogStart(hmm, k) == LogWeight[hmm.initial[k]]
LogMove(hmm, j, k) == LogWeight[hmm.transition[j][k]]
LogSeen(hmm, observed, t, k) == LogWeight[hmm.density[k][observed[t]]]

ScoreTo(hmm, observed, q, t) ==
    LogStart(hmm, q[1])
      + Total([u \in 1 .. t |-> LogSeen(hmm, observed, u, q[u])])
      + Total([u \in 2 .. t |-> LogMove(hmm, q[u - 1], q[u])])

\* Nowhere on the decoded path is the score below the floor, LnFloor, which viterbi puts
\* in its place.
Untouched(hmm, observed) ==
    LET path == Viterbi(hmm, observed)
    IN  \A t \in 2 .. Len(observed) :
           ScoreTo(hmm, observed, path, t - 1) + LogMove(hmm, path[t - 1], path[t]) >= LnFloor

LEMMA LogsOfFit ==
    ASSUME NEW hmm, NEW observed, NEW moves, Observation(hmm, observed, moves)
    PROVE  /\ \A k \in States : LogStart(hmm, k) \in Int
           /\ \A j, k \in States : LogMove(hmm, j, k) \in Int
           /\ \A t \in 1 .. Len(observed) : \A k \in States : LogSeen(hmm, observed, t, k) \in Int
<1>1. IsFit(hmm, moves) /\ \A t \in 1 .. Len(observed) : observed[t] \in moves
  BY DEF Observation
<1> QED
  BY <1>1, LogsIn DEF LogStart, LogMove, LogSeen

\* A sum over the days from a to t, and one day more.
LEMMA TotalOneMore ==
    ASSUME NEW t \in Nat, NEW a \in Nat, a <= t + 1, NEW f \in [a .. t + 1 -> Int]
    PROVE  /\ Total([u \in a .. t |-> f[u]]) \in Int
           /\ Total([u \in a .. t + 1 |-> f[u]]) = Total([u \in a .. t |-> f[u]]) + f[t + 1]
<1> DEFINE S == a .. t + 1
           T == a .. t
<1>1. IsFiniteSet(S)
  <2>1. a \in Int /\ t + 1 \in Int
    OBVIOUS
  <2> QED
    BY <2>1, FS_Interval, Zenon
<1>2. T \in SUBSET S /\ t + 1 \in S \ T /\ T \cup {t + 1} = S
  OBVIOUS
<1>3. Restrict(f, T) = [u \in T |-> f[u]] /\ Restrict(f, S) = [u \in S |-> f[u]]
  BY DEF Restrict
<1>4. f \in [S -> Int]
  OBVIOUS
<1> HIDE DEF S, T
<1>5. /\ Total(Restrict(f, T)) \in Int
      /\ Total(Restrict(f, T \cup {t + 1})) = Total(Restrict(f, T)) + f[t + 1]
  BY <1>1, <1>2, <1>4, TotalAdd
<1> QED
  BY <1>2, <1>3, <1>5 DEF S, T

LEMMA ScoreSteps ==
    ASSUME NEW hmm, NEW observed, NEW moves, Observation(hmm, observed, moves),
           NEW q \in Paths(States, Len(observed))
    PROVE  /\ ScoreTo(hmm, observed, q, 1)
                = LogStart(hmm, q[1]) + LogSeen(hmm, observed, 1, q[1])
           /\ \A t \in 1 .. Len(observed) : ScoreTo(hmm, observed, q, t) \in Int
           /\ \A t \in 2 .. Len(observed) : ScoreTo(hmm, observed, q, t)
                = ScoreTo(hmm, observed, q, t - 1) + LogMove(hmm, q[t - 1], q[t])
                    + LogSeen(hmm, observed, t, q[t])
<1> DEFINE n == Len(observed)
           f == [u \in 1 .. n |-> LogSeen(hmm, observed, u, q[u])]
           g == [u \in 2 .. n |-> LogMove(hmm, q[u - 1], q[u])]
           seen(t) == Total([u \in 1 .. t |-> f[u]])
           moved(t) == Total([u \in 2 .. t |-> g[u]])
           first == LogStart(hmm, q[1])
<1>1. n \in Nat \ {0} /\ 1 \in 1 .. n /\ \A u \in 1 .. n : q[u] \in States
  BY DEF Observation, Paths
<1>2. f \in [1 .. n -> Int] /\ first \in Int
  BY <1>1, LogsOfFit
<1>3. g \in [2 .. n -> Int]
  <2>1. \A u \in 2 .. n : u \in 1 .. n /\ u - 1 \in 1 .. n
    BY <1>1
  <2>2. \A u \in 2 .. n : q[u] \in States /\ q[u - 1] \in States
    BY <1>1, <2>1
  <2> QED
    BY <2>2, LogsOfFit
<1>4. \A t \in 1 .. n : ScoreTo(hmm, observed, q, t) = first + seen(t) + moved(t)
  <2> TAKE t \in 1 .. n
  <2>1. (\A u \in 1 .. t : u \in 1 .. n) /\ (\A u \in 2 .. t : u \in 2 .. n)
    BY <1>1
  <2>2. [u \in 1 .. t |-> LogSeen(hmm, observed, u, q[u])] = [u \in 1 .. t |-> f[u]]
    BY <2>1
  <2>3. [u \in 2 .. t |-> LogMove(hmm, q[u - 1], q[u])] = [u \in 2 .. t |-> g[u]]
    BY <2>1
  <2> QED
    BY <2>2, <2>3 DEF ScoreTo
<1> HIDE DEF n, f, g, first
<1>5. seen(1) = f[1] /\ moved(1) = 0
  <2>1. Total([u \in 1 .. 0 |-> f[u]]) = 0 /\ Total([u \in 2 .. 1 |-> g[u]]) = 0
    <3>1. DOMAIN [u \in 1 .. 0 |-> f[u]] = {} /\ DOMAIN [u \in 2 .. 1 |-> g[u]] = {}
      OBVIOUS
    <3> QED
      BY <3>1, TotalEmpty
  <2>2. [u \in 1 .. 1 |-> f[u]] \in [1 .. 1 -> Int]
    <3>1. \A u \in 1 .. 1 : u \in 1 .. n
      BY <1>1
    <3> QED
      BY <1>2, <3>1
  <2> DEFINE h == [u \in 1 .. 1 |-> f[u]]
  <2>3. h[1] = f[1] /\ [u \in 1 .. 1 |-> h[u]] = h /\ [u \in 1 .. 0 |-> h[u]] = [u \in 1 .. 0 |-> f[u]]
    OBVIOUS
  <2>4. h \in [1 .. 0 + 1 -> Int] /\ 0 \in Nat /\ 1 \in Nat /\ 1 <= 0 + 1 /\ 0 + 1 = 1
    BY <2>2
  <2> HIDE DEF h
  <2>5. /\ Total([u \in 1 .. 0 |-> h[u]]) \in Int
        /\ Total([u \in 1 .. 0 + 1 |-> h[u]]) = Total([u \in 1 .. 0 |-> h[u]]) + h[0 + 1]
    BY <2>4, TotalOneMore
  <2>6. Total(h) = f[1]
    <3>1. f[1] \in Int
      BY <1>1, <1>2
    <3>2. Total([u \in 1 .. 1 |-> h[u]]) = 0 + f[1]
      BY <2>1, <2>3, <2>4, <2>5
    <3> QED
      BY <2>3, <3>1, <3>2
  <2> QED
    BY <2>1, <2>6 DEF h
<1>6. \A t \in 1 .. n : t # n =>
         /\ seen(t) \in Int /\ seen(t + 1) = seen(t) + f[t + 1]
         /\ moved(t) \in Int /\ moved(t + 1) = moved(t) + g[t + 1]
  <2> TAKE t \in 1 .. n
  <2> HAVE t # n
  <2>1. t \in Nat /\ t + 1 \in 1 .. n /\ t + 1 \in 2 .. n /\ 1 <= t + 1 /\ 2 <= t + 1
    BY <1>1
  <2> DEFINE b == [u \in 1 .. t + 1 |-> f[u]]
             c == [u \in 2 .. t + 1 |-> g[u]]
  <2>2. b \in [1 .. t + 1 -> Int] /\ c \in [2 .. t + 1 -> Int]
    <3>1. (\A u \in 1 .. t + 1 : u \in 1 .. n) /\ (\A u \in 2 .. t + 1 : u \in 2 .. n)
      BY <1>1, <2>1
    <3> QED
      BY <1>2, <1>3, <3>1
  <2>3. /\ [u \in 1 .. t |-> b[u]] = [u \in 1 .. t |-> f[u]]
        /\ [u \in 1 .. t + 1 |-> b[u]] = b
        /\ [u \in 2 .. t |-> c[u]] = [u \in 2 .. t |-> g[u]]
        /\ [u \in 2 .. t + 1 |-> c[u]] = c
        /\ b[t + 1] = f[t + 1] /\ c[t + 1] = g[t + 1]
    BY <2>1
  <2> HIDE DEF b, c
  <2>4. /\ Total([u \in 1 .. t |-> b[u]]) \in Int
        /\ Total([u \in 1 .. t + 1 |-> b[u]]) = Total([u \in 1 .. t |-> b[u]]) + b[t + 1]
    BY <2>1, <2>2, TotalOneMore
  <2>5. /\ Total([u \in 2 .. t |-> c[u]]) \in Int
        /\ Total([u \in 2 .. t + 1 |-> c[u]]) = Total([u \in 2 .. t |-> c[u]]) + c[t + 1]
    BY <2>1, <2>2, TotalOneMore
  <2> QED
    BY <2>3, <2>4, <2>5 DEF b, c
<1> HIDE DEF seen, moved
<1>7. \A t \in 2 .. n : /\ seen(t) = seen(t - 1) + f[t] /\ seen(t - 1) \in Int
                        /\ moved(t) = moved(t - 1) + g[t] /\ moved(t - 1) \in Int
                        /\ f[t] \in Int /\ g[t] \in Int /\ t - 1 \in 1 .. n /\ t \in 1 .. n
  <2> TAKE t \in 2 .. n
  <2>1. t - 1 \in 1 .. n /\ t - 1 # n /\ (t - 1) + 1 = t /\ t \in 1 .. n
    BY <1>1
  <2> QED
    BY <1>2, <1>3, <1>6, <2>1
<1>8. ScoreTo(hmm, observed, q, 1) = first + f[1] /\ f[1] \in Int
  <2>1. f[1] \in Int
    BY <1>1, <1>2
  <2>2. ScoreTo(hmm, observed, q, 1) = first + f[1] + 0
    BY <1>1, <1>4, <1>5
  <2> QED
    BY <1>2, <2>1, <2>2
<1>9. \A t \in 2 .. n : ScoreTo(hmm, observed, q, t) = ScoreTo(hmm, observed, q, t - 1) + g[t] + f[t]
  <2> TAKE t \in 2 .. n
  <2>1. \A a, b, c, d, e \in Int : a + (b + d) + (c + e) = (a + b + c) + e + d
    OBVIOUS
  <2>2. first + (seen(t - 1) + f[t]) + (moved(t - 1) + g[t])
           = (first + seen(t - 1) + moved(t - 1)) + g[t] + f[t]
    BY <1>2, <1>7, <2>1
  <2> QED
    BY <1>4, <1>7, <2>2
<1>10. \A t \in 1 .. n : ScoreTo(hmm, observed, q, t) \in Int
  <2> TAKE t \in 1 .. n
  <2>1. CASE t = 1
    BY <1>2, <1>8, <2>1
  <2>2. CASE t # 1
    <3>1. t \in 2 .. n
      BY <1>1, <2>2
    <3>2. seen(t) \in Int /\ moved(t) \in Int
      BY <1>7, <3>1
    <3> QED
      BY <1>2, <1>4, <3>2
  <2> QED
    BY <2>1, <2>2
<1>11. f[1] = LogSeen(hmm, observed, 1, q[1])
  BY <1>1 DEF f
<1>12. \A t \in 2 .. n : /\ g[t] = LogMove(hmm, q[t - 1], q[t])
                         /\ f[t] = LogSeen(hmm, observed, t, q[t])
  BY <1>7 DEF f, g, n
<1> QED
  BY <1>8, <1>9, <1>10, <1>11, <1>12 DEF n, first

LEMMA FirstHighestIs ==
    ASSUME NEW value \in [States -> Int]
    PROVE  /\ FirstHighest(value) \in States
           /\ \A k \in States : value[k] <= value[FirstHighest(value)]
<1>1. LastHighest(value) \in Highest(value)
  BY LastHighestIn DEF Highest
<1>2. Highest(value) \in SUBSET States /\ Highest(value) \in SUBSET Nat
  BY StatesAre DEF Highest
<1>3. FirstHighest(value) \in Highest(value)
  BY <1>1, <1>2, MinIs DEF FirstHighest
<1> QED
  BY <1>3 DEF Highest

\* What viterbi holds after each day.
PassOf(hmm, observed) == CHOOSE pass : PassWalk(hmm, observed, pass)

\* delta of a day is the best that leads to a state from the delta of the day before, and
\* psi is where it comes from.
LEMMA DeltaSteps ==
    ASSUME NEW hmm, NEW observed, NEW moves, Observation(hmm, observed, moves)
    PROVE  LET pass == PassOf(hmm, observed)
           IN  /\ \A t \in 1 .. Len(observed) : pass[t] \in Scored
               /\ \A k \in States : pass[1].delta[k]
                     = LogStart(hmm, k) + LogSeen(hmm, observed, 1, k)
               /\ \A t \in 2 .. Len(observed) : \A k \in States :
                     LET from == pass[t].psi[k]
                         best == pass[t - 1].delta[from] + LogMove(hmm, from, k)
                     IN  /\ from \in States
                         /\ pass[t].delta[k]
                               = AtLeast(best, LnFloor) + LogSeen(hmm, observed, t, k)
                         /\ \A j \in States :
                               pass[t - 1].delta[j] + LogMove(hmm, j, k) <= best
<1> DEFINE n == Len(observed)
           pass == PassOf(hmm, observed)
<1>1. /\ \A t \in 1 .. n : pass[t] \in Scored
      /\ \A t \in 1 .. n : pass[t] = IF t = 1 THEN PassStart(hmm, observed)
                                     ELSE PassBody(hmm, observed, t, pass[t - 1].delta)
  BY PassIn DEF PassOf
<1>2. n \in Nat \ {0} /\ 1 \in 1 .. n
  BY DEF Observation
<1> HIDE DEF n, pass
<1>3. \A k \in States : pass[1].delta[k] = LogStart(hmm, k) + LogSeen(hmm, observed, 1, k)
  <2> TAKE k \in States
  <2>1. pass[1] = PassStart(hmm, observed)
    BY <1>1, <1>2
  <2>2. pass[1].delta = ByState([j \in States |->
           LogWeight[hmm.initial[j]] + LogWeight[hmm.density[j][observed[1]]]])
    BY <2>1 DEF PassStart
  <2> DEFINE f == [j \in States |->
           LogWeight[hmm.initial[j]] + LogWeight[hmm.density[j][observed[1]]]]
  <2>3. f[k] = LogStart(hmm, k) + LogSeen(hmm, observed, 1, k)
    BY DEF LogStart, LogSeen
  <2>4. pass[1].delta = ByState(f)
    BY <2>2
  <2> HIDE DEF f
  <2> QED
    BY <2>3, <2>4, StateOf
<1>4. ASSUME NEW t \in 2 .. n, NEW k \in States
      PROVE  LET from == pass[t].psi[k]
                 best == pass[t - 1].delta[from] + LogMove(hmm, from, k)
             IN  /\ from \in States
                 /\ pass[t].delta[k] = AtLeast(best, LnFloor) + LogSeen(hmm, observed, t, k)
                 /\ \A j \in States : pass[t - 1].delta[j] + LogMove(hmm, j, k) <= best
  <2> DEFINE before == pass[t - 1].delta
             reach == Reach(hmm, before)
             row == [j \in States |-> before[j] + LogWeight[hmm.transition[j][k]]]
             from == pass[t].psi[k]
             g == [i \in States |-> FirstHighest(reach[i])]
             psi == ByState(g)
             f == [i \in States |-> AtLeast(reach[i][psi[i]], LnFloor)
                                       + LogWeight[hmm.density[i][observed[t]]]]
  <2>1. t \in 1 .. n /\ t # 1 /\ t - 1 \in 1 .. n
    BY <1>2
  <2>2. pass[t] = PassBody(hmm, observed, t, before) /\ before \in [States -> Int]
    BY <1>1, <2>1 DEF Scored, Scores
  <2>3. reach[k] = ByState(row)
    <3> DEFINE rows == [i \in States |-> ByState([j \in States |->
                            before[j] + LogWeight[hmm.transition[j][i]]])]
    <3>1. rows[k] = ByState(row)
      OBVIOUS
    <3>2. reach = ByState(rows)
      BY DEF Reach
    <3> HIDE DEF rows, before, row, reach
    <3> QED
      BY <3>1, <3>2, StateOf
  <2>4. row \in [States -> Int] /\ ByState(row) = row
    <3>1. \A j \in States : LogWeight[hmm.transition[j][k]] \in Int
      BY LogsOfFit DEF LogMove
    <3>2. row \in [States -> Int]
      <4> HIDE DEF before
      <4> QED
        BY <2>2, <3>1
    <3> HIDE DEF row
    <3> QED
      BY <3>2, ByStateIs
  <2>5. \A j \in States : row[j] = before[j] + LogMove(hmm, j, k)
    BY DEF LogMove
  <2>6. pass[t] = [delta |-> ByState(f), psi |-> psi]
    <3> HIDE DEF before
    <3> QED
      BY <2>2 DEF PassBody
  <2> HIDE DEF reach, row
  <2>7. g[k] = FirstHighest(row)
    BY <2>3, <2>4
  <2> HIDE DEF g
  <2>8. psi[k] = FirstHighest(row)
    BY <2>7, StateOf
  <2> HIDE DEF psi
  <2>9. from = FirstHighest(row)
    BY <2>6, <2>8
  <2>10. f[k] = AtLeast(row[FirstHighest(row)], LnFloor) + LogSeen(hmm, observed, t, k)
    BY <2>3, <2>4, <2>8 DEF LogSeen
  <2> HIDE DEF f
  <2>11. pass[t].delta[k] = f[k]
    BY <2>6, StateOf
  <2>12. FirstHighest(row) \in States /\ \A j \in States : row[j] <= row[FirstHighest(row)]
    BY <2>4, FirstHighestIs
  <2> HIDE DEF before, from
  <2>13. from \in States /\ row[from] = before[from] + LogMove(hmm, from, k)
    BY <2>5, <2>9, <2>12
  <2>14. pass[t].delta[k]
           = AtLeast(before[from] + LogMove(hmm, from, k), LnFloor) + LogSeen(hmm, observed, t, k)
    BY <2>9, <2>10, <2>11, <2>13
  <2>15. \A j \in States : before[j] + LogMove(hmm, j, k) <= before[from] + LogMove(hmm, from, k)
    BY <2>5, <2>9, <2>12, <2>13
  <2> QED
    BY <2>13, <2>14, <2>15 DEF before, from
<1> QED
  BY <1>1, <1>3, <1>4 DEF n, pass

\* No path scores more than delta.
LEMMA DeltaAbove ==
    ASSUME NEW hmm, NEW observed, NEW moves, Observation(hmm, observed, moves),
           NEW q \in Paths(States, Len(observed))
    PROVE  \A t \in 1 .. Len(observed) :
              /\ PassOf(hmm, observed)[t].delta[q[t]] \in Int
              /\ ScoreTo(hmm, observed, q, t) <= PassOf(hmm, observed)[t].delta[q[t]]
<1> DEFINE n == Len(observed)
           pass == PassOf(hmm, observed)
           score(t) == ScoreTo(hmm, observed, q, t)
           Good(t) == score(t) <= pass[t].delta[q[t]]
           C == {s \in Nat : \A t \in 1 .. n : t = s + 1 => Good(t)}
<1>1. n \in Nat \ {0} /\ 1 \in 1 .. n /\ \A t \in 1 .. n : q[t] \in States
  BY DEF Observation, Paths
<1>2. \A t \in 1 .. n : pass[t].delta[q[t]] \in Int /\ score(t) \in Int
  <2>1. \A t \in 1 .. n : pass[t] \in Scored
    BY DeltaSteps
  <2>2. \A t \in 1 .. n : score(t) \in Int
    BY ScoreSteps
  <2> QED
    BY <1>1, <2>1, <2>2 DEF Scored, Scores
<1>3. Good(1)
  <2>1. score(1) = LogStart(hmm, q[1]) + LogSeen(hmm, observed, 1, q[1])
    BY ScoreSteps
  <2>2. pass[1].delta[q[1]] = LogStart(hmm, q[1]) + LogSeen(hmm, observed, 1, q[1])
    BY <1>1, DeltaSteps
  <2>3. score(1) = pass[1].delta[q[1]] /\ score(1) \in Int
    BY <1>1, <1>2, <2>1, <2>2
  <2> HIDE DEF pass, score
  <2> QED
    BY <2>3
<1>4. ASSUME NEW t \in 2 .. n, Good(t - 1) PROVE Good(t)
  <2> DEFINE k == q[t]
             j == q[t - 1]
             d == pass[t - 1].delta[j]
             m == LogMove(hmm, j, k)
             e == LogSeen(hmm, observed, t, k)
             from == pass[t].psi[k]
             best == pass[t - 1].delta[from] + LogMove(hmm, from, k)
  <2>1. t \in 1 .. n /\ t - 1 \in 1 .. n /\ j \in States /\ k \in States
    BY <1>1
  <2>2. score(t) = score(t - 1) + m + e
    BY ScoreSteps
  <2>3. from \in States /\ pass[t].delta[k] = AtLeast(best, LnFloor) + e /\ d + m <= best
    BY <2>1, DeltaSteps
  <2>4. pass[t - 1] \in Scored
    BY <2>1, DeltaSteps
  <2>5. d \in Int /\ m \in Int /\ e \in Int /\ best \in Int /\ LnFloor \in Int /\ score(t - 1) \in Int
    <3>1. d \in Int /\ score(t - 1) \in Int
      BY <1>2, <2>1
    <3>2. m \in Int /\ e \in Int /\ LogMove(hmm, from, k) \in Int
      BY <2>1, <2>3, LogsOfFit
    <3>3. pass[t - 1].delta[from] \in Int
      BY <2>3, <2>4 DEF Scored, Scores
    <3> QED
      BY <3>1, <3>2, <3>3, RegimeAssumption
  <2>6. score(t - 1) <= d
    BY <1>4
  <2> HIDE DEF d, m, e, best, from, score
  <2>7. AtLeast(best, LnFloor) \in Int /\ best <= AtLeast(best, LnFloor)
    BY <2>5 DEF AtLeast
  <2>8. score(t - 1) + m + e <= AtLeast(best, LnFloor) + e
    BY <2>3, <2>5, <2>6, <2>7
  <2> QED
    BY <2>2, <2>3, <2>8
<1> HIDE DEF Good
<1>5. 0 \in C
  BY <1>3 DEF C
<1>6. \A s \in C : s + 1 \in C
  <2> TAKE s \in C
  <2>1. ASSUME NEW t \in 1 .. n, t = (s + 1) + 1 PROVE Good(t)
    <3>1. t \in 2 .. n /\ t - 1 \in 1 .. n /\ t - 1 = s + 1
      BY <1>1, <2>1
    <3>2. Good(t - 1)
      BY <3>1
    <3> QED
      BY <1>4, <3>1, <3>2
  <2> QED
    BY <2>1
<1>7. C = Nat
  <2> HIDE DEF C
  <2> QED
    BY <1>5, <1>6, NumberInduction DEF C
<1>8. \A t \in 1 .. n : Good(t)
  <2> TAKE t \in 1 .. n
  <2>1. t - 1 \in Nat /\ t = (t - 1) + 1
    BY <1>1
  <2>2. t - 1 \in C
    <3> HIDE DEF C
    <3> QED
      BY <1>7, <2>1
  <2> QED
    BY <2>1, <2>2
<1> QED
  BY <1>2, <1>8 DEF Good

\* The decoded path has the best last state, and each state before is the one delta came
\* from.
LEMMA DecodedSteps ==
    ASSUME NEW hmm, NEW observed, NEW moves, Observation(hmm, observed, moves)
    PROVE  LET pass == PassOf(hmm, observed)
               path == Viterbi(hmm, observed)
               n == Len(observed)
           IN  /\ path \in Paths(States, n)
               /\ \A k \in States : pass[n].delta[k] <= pass[n].delta[path[n]]
               /\ \A t \in 2 .. n : path[t - 1] = pass[t].psi[path[t]]
<1> DEFINE n == Len(observed)
           pass == PassOf(hmm, observed)
           path == Viterbi(hmm, observed)
<1>1. n \in Nat \ {0} /\ n \in 1 .. n
  BY DEF Observation
<1>2. \A t \in 1 .. n : pass[t] \in Scored
  BY DeltaSteps
<1>3. path = Backtrack(pass, n)
  BY ViterbiIsWalk DEF PassOf
<1> HIDE DEF n, pass, path
<1>4. /\ path \in [1 .. n -> States]
      /\ \A t \in 1 .. n : path[t] = IF t = n THEN LastHighest(pass[t].delta)
                                     ELSE pass[t + 1].psi[path[t + 1]]
  BY <1>1, <1>2, <1>3, PathIn
<1>5. \A k \in States : pass[n].delta[k] <= pass[n].delta[path[n]]
  <2>1. path[n] = LastHighest(pass[n].delta) /\ pass[n].delta \in [States -> Int]
    BY <1>1, <1>2, <1>4 DEF Scored, Scores
  <2> QED
    BY <2>1, LastHighestIn
<1>6. \A t \in 2 .. n : path[t - 1] = pass[t].psi[path[t]]
  <2> TAKE t \in 2 .. n
  <2>1. t - 1 \in 1 .. n /\ t - 1 # n /\ (t - 1) + 1 = t
    BY <1>1
  <2> QED
    BY <1>4, <2>1
<1> QED
  BY <1>4, <1>5, <1>6 DEF n, pass, path, Paths

\* What delta says of the decoded path is its score.
LEMMA DecodedScore ==
    ASSUME NEW hmm, NEW observed, NEW moves, Observation(hmm, observed, moves),
           Untouched(hmm, observed)
    PROVE  \A t \in 1 .. Len(observed) :
              ScoreTo(hmm, observed, Viterbi(hmm, observed), t)
              = PassOf(hmm, observed)[t].delta[Viterbi(hmm, observed)[t]]
<1> DEFINE n == Len(observed)
           pass == PassOf(hmm, observed)
           path == Viterbi(hmm, observed)
           score(t) == ScoreTo(hmm, observed, path, t)
           Good(t) == score(t) = pass[t].delta[path[t]]
           C == {s \in Nat : \A t \in 1 .. n : t = s + 1 => Good(t)}
<1>1. /\ n \in Nat \ {0} /\ 1 \in 1 .. n
      /\ path \in Paths(States, n) /\ \A t \in 1 .. n : path[t] \in States
  <2>1. path \in Paths(States, n)
    BY DecodedSteps
  <2> HIDE DEF path
  <2> QED
    BY <2>1 DEF Observation, Paths
<1>2. \A t \in 1 .. n : score(t) \in Int
  BY <1>1, ScoreSteps
<1>3. Good(1)
  <2>1. score(1) = LogStart(hmm, path[1]) + LogSeen(hmm, observed, 1, path[1])
    BY <1>1, ScoreSteps
  <2>2. pass[1].delta[path[1]] = LogStart(hmm, path[1]) + LogSeen(hmm, observed, 1, path[1])
    BY <1>1, DeltaSteps
  <2> HIDE DEF pass, score, path
  <2> QED
    BY <2>1, <2>2
<1>4. ASSUME NEW t \in 2 .. n, Good(t - 1) PROVE Good(t)
  <2> DEFINE k == path[t]
             j == path[t - 1]
             d == pass[t - 1].delta[j]
             m == LogMove(hmm, j, k)
             e == LogSeen(hmm, observed, t, k)
  <2>1. t \in 1 .. n /\ t - 1 \in 1 .. n /\ j \in States /\ k \in States
    BY <1>1
  <2>2. score(t) = score(t - 1) + m + e
    BY <1>1, ScoreSteps
  <2>3. pass[t].psi[k] = j
    BY DecodedSteps
  <2>4. pass[t].delta[k] = AtLeast(d + m, LnFloor) + e
    <3>1. pass[t].delta[k] = AtLeast(pass[t - 1].delta[pass[t].psi[k]]
                                        + LogMove(hmm, pass[t].psi[k], k), LnFloor) + e
      BY <2>1, DeltaSteps
    <3> HIDE DEF pass, path, e
    <3> QED
      BY <2>3, <3>1
  <2>5. score(t - 1) + m >= LnFloor
    BY DEF Untouched
  <2>6. score(t - 1) = d
    BY <1>4
  <2>7. m \in Int /\ d \in Int /\ LnFloor \in Int
    <3>1. m \in Int
      BY <2>1, LogsOfFit
    <3> HIDE DEF score, d, m
    <3> QED
      BY <1>2, <2>1, <2>6, <3>1, RegimeAssumption
  <2> HIDE DEF d, m, e, score
  <2>8. AtLeast(d + m, LnFloor) = d + m
    BY <2>5, <2>6, <2>7 DEF AtLeast
  <2> QED
    BY <2>2, <2>4, <2>6, <2>8
<1> HIDE DEF Good
<1>5. 0 \in C
  BY <1>3 DEF C
<1>6. \A s \in C : s + 1 \in C
  <2> TAKE s \in C
  <2>1. ASSUME NEW t \in 1 .. n, t = (s + 1) + 1 PROVE Good(t)
    <3>1. t \in 2 .. n /\ t - 1 \in 1 .. n /\ t - 1 = s + 1
      BY <1>1, <2>1
    <3>2. Good(t - 1)
      BY <3>1
    <3> QED
      BY <1>4, <3>1, <3>2
  <2> QED
    BY <2>1
<1>7. C = Nat
  <2> HIDE DEF C
  <2> QED
    BY <1>5, <1>6, NumberInduction DEF C
<1>8. \A t \in 1 .. n : Good(t)
  <2> TAKE t \in 1 .. n
  <2>1. t - 1 \in Nat /\ t = (t - 1) + 1
    BY <1>1
  <2>2. t - 1 \in C
    <3> HIDE DEF C
    <3> QED
      BY <1>7, <2>1
  <2> QED
    BY <2>1, <2>2
<1> QED
  BY <1>8 DEF Good

\* No path scores more than the one that is decoded.
LEMMA DecodedIsBest ==
    ASSUME NEW hmm, NEW observed, NEW moves, Observation(hmm, observed, moves),
           Untouched(hmm, observed)
    PROVE  LET n == Len(observed)
               path == Viterbi(hmm, observed)
           IN  /\ path \in Paths(States, n)
               /\ \A q \in Paths(States, n) :
                     /\ ScoreTo(hmm, observed, q, n) \in Int
                     /\ ScoreTo(hmm, observed, q, n) <= ScoreTo(hmm, observed, path, n)
<1> DEFINE n == Len(observed)
           delta == PassOf(hmm, observed)[n].delta
           path == Viterbi(hmm, observed)
           score(q) == ScoreTo(hmm, observed, q, n)
<1>1. n \in 1 .. n
  BY DEF Observation
<1>2. path \in Paths(States, n) /\ \A k \in States : delta[k] <= delta[path[n]]
  BY DecodedSteps
<1>3. score(path) = delta[path[n]]
  BY <1>1, DecodedScore
<1>4. \A q \in Paths(States, n) :
         score(q) \in Int /\ delta[q[n]] \in Int /\ q[n] \in States /\ score(q) <= delta[q[n]]
  <2> TAKE q \in Paths(States, n)
  <2>1. score(q) \in Int
    BY <1>1, ScoreSteps
  <2>2. delta[q[n]] \in Int /\ score(q) <= delta[q[n]]
    BY <1>1, DeltaAbove
  <2>3. q[n] \in States
    BY <1>1 DEF Paths
  <2> QED
    BY <2>1, <2>2, <2>3
<1> HIDE DEF delta, path, score, n
<1>5. \A q \in Paths(States, n) : score(q) \in Int /\ score(q) <= score(path)
  <2> TAKE q \in Paths(States, n)
  <2>1. score(q) <= delta[q[n]] /\ delta[q[n]] <= delta[path[n]] /\ delta[path[n]] = score(path)
    BY <1>2, <1>3, <1>4
  <2>2. score(q) \in Int /\ delta[q[n]] \in Int /\ score(path) \in Int
    BY <1>2, <1>4
  <2> QED
    BY <2>1, <2>2
<1> QED
  BY <1>2, <1>5 DEF n, path, score

\* A state has the rank of its place in the order.
LEMMA OrderOfRank ==
    ASSUME NEW hmm, NEW moves, IsFit(hmm, moves), NEW k \in States
    PROVE  /\ Rank(VarianceOrder(hmm))[k] \in States
           /\ VarianceOrder(hmm)[Rank(VarianceOrder(hmm))[k]] = k
<1> DEFINE order == VarianceOrder(hmm)
           rank == [o \in States |-> CHOOSE new \in States : order[new] = o]
<1>1. \A new \in States : order[new] \in States /\ Cardinality(Ahead(hmm, order[new])) = new - 1
  BY OrderIn
<1> HIDE DEF order
<1>2. \A a, b \in States : order[a] = order[b] => a = b
  BY <1>1, StatesAre
<1>3. \A o \in States : \E new \in States : order[new] = o
  <2>1. /\ order[1] \in {1, 2, 3} /\ order[2] \in {1, 2, 3} /\ order[3] \in {1, 2, 3}
        /\ order[1] # order[2] /\ order[1] # order[3] /\ order[2] # order[3]
    BY <1>1, <1>2, StatesAre
  <2>2. \A o \in {1, 2, 3} : order[1] = o \/ order[2] = o \/ order[3] = o
    BY <2>1
  <2> QED
    BY <2>2, StatesAre
<1>4. \A o \in States : rank[o] \in States /\ order[rank[o]] = o
  BY <1>3
<1> HIDE DEF rank
<1>5. Rank(order)[k] = rank[k]
  <2>1. Rank(order) = ByState(rank)
    BY DEF Rank, rank
  <2> QED
    BY <2>1, StateOf
<1> QED
  BY <1>4, <1>5 DEF order

\* The labels of the days, put back, are the decoded path.
LEMMA SequenceIsPath ==
    ASSUME NEW hmm, NEW observed, NEW moves, Observation(hmm, observed, moves)
    PROVE  \A t \in 1 .. Len(observed) :
              VarianceOrder(hmm)[FitHmm(hmm, observed).sequence[t]] = Viterbi(hmm, observed)[t]
<1> DEFINE n == Len(observed)
           order == VarianceOrder(hmm)
           rank == Rank(order)
           path == Viterbi(hmm, observed)
           gamma == EStep(hmm, observed).gamma[n]
           fit == Relabelled(hmm, order, rank, path, gamma)
<1>1. n \in Nat /\ IsFit(hmm, moves)
  BY DEF Observation
<1>2. path \in [1 .. n -> States]
  BY ViterbiIn
<1>3. \A k \in States : order[rank[k]] = k
  BY <1>1, OrderOfRank
<1>4. fit.sequence = [t \in 1 .. n |-> rank[path[t]]]
  <2> HIDE DEF order, rank, path, gamma, n
  <2> QED
    BY <1>2 DEF Relabelled
<1>5. FitHmm(hmm, observed).sequence = fit.sequence
  <2>1. FitHmm(hmm, observed) = Classified(fit)
    BY DEF FitHmm
  <2> HIDE DEF fit
  <2> QED
    BY <2>1 DEF Classified, RegimeState
<1> HIDE DEF order, rank, path, fit
<1>6. \A t \in 1 .. n : order[FitHmm(hmm, observed).sequence[t]] = path[t]
  BY <1>2, <1>3, <1>4, <1>5
<1> QED
  BY <1>6 DEF n, order, path

\* The score of the property is that of the whole path.
LEMMA PathScoreIs ==
    ASSUME NEW hmm, NEW n \in Nat, NEW q \in Paths(States, n)
    PROVE  PathScore(hmm, q) = ScoreTo(hmm, Observed, q, n)
<1>1. DOMAIN q = 1 .. n /\ Len(q) = n
  <2>1. q \in Seq(States) /\ q \in [1 .. n -> States]
    BY DEF Paths
  <2> QED
    BY <2>1
<1>2. [t \in DOMAIN q |-> LogWeight[hmm.density[q[t]][Observed[t]]]]
      = [u \in 1 .. n |-> LogSeen(hmm, Observed, u, q[u])]
  BY <1>1 DEF LogSeen
<1>3. [t \in 2 .. Len(q) |-> LogWeight[hmm.transition[q[t - 1]][q[t]]]]
      = [u \in 2 .. n |-> LogMove(hmm, q[u - 1], q[u])]
  BY <1>1 DEF LogMove
<1> QED
  BY <1>2, <1>3 DEF PathScore, ScoreTo, LogStart

\* A path that no other scores above is one of BestPaths.
LEMMA BestPathsAre ==
    ASSUME model.window \in Nat, NEW best \in Paths(States, model.window),
           \A q \in Paths(States, model.window) :
              /\ PathScore(World.hmm, q) \in Int
              /\ PathScore(World.hmm, q) <= PathScore(World.hmm, best)
    PROVE  /\ best \in BestPaths
           /\ \A q \in BestPaths : /\ q \in Paths(States, model.window)
                                   /\ PathScore(World.hmm, q) = PathScore(World.hmm, best)
<1> DEFINE P == Paths(States, model.window)
           score == [q \in P |-> PathScore(World.hmm, q)]
           values == {score[q] : q \in P}
<1>1. score \in [P -> Int] /\ \A q \in P : score[q] = PathScore(World.hmm, q)
  OBVIOUS
<1>2. BestPaths = {q \in P : score[q] = Max(values)}
  BY DEF BestPaths, Paths
<1>3. \A q \in P : score[q] <= score[best]
  BY <1>1
<1> HIDE DEF score
<1> HIDE DEF P
<1>4. values \in SUBSET Int /\ best \in P /\ score[best] \in values
  <2>1. best \in P
    BY DEF P
  <2> QED
    BY <1>1, <2>1
<1>5. \A x \in values : x <= score[best]
  BY <1>3
<1> HIDE DEF values
<1>6. score[best] = Max(values)
  <2>1. Max(values) \in values /\ \A x \in values : Max(values) >= x
    BY <1>4, <1>5 DEF Max
  <2>2. Max(values) <= score[best] /\ Max(values) >= score[best]
    BY <1>4, <1>5, <2>1
  <2>3. score[best] \in Int /\ Max(values) \in Int
    BY <1>4, <2>1
  <2> QED
    BY <2>2, <2>3
<1> QED
  BY <1>1, <1>2, <1>4, <1>6 DEF P

\* The floor of viterbi is below the scores of the path it decodes.
FloorUntouched == stage = "fitted" => Untouched(World.hmm, Observed)

LEMMA RunInvBest == RunInv => (FloorUntouched => PathIsBest)
<1> SUFFICES ASSUME RunInv, stage = "fitted", Untouched(World.hmm, Observed)
             PROVE  \E p \in BestPaths : \A t \in 1 .. model.window :
                       p[t] = VarianceOrder(World.hmm)[model.regime.sequence[t]]
  BY DEF PathIsBest, FloorUntouched
<1> DEFINE hmm == World.hmm
           n == model.window
           path == Viterbi(hmm, Observed)
<1>1. /\ Observation(hmm, Observed, Moves(World.raw["MARKET"])) /\ Len(Observed) = n
      /\ model.regime = FitHmm(hmm, Observed)
  BY FittedOn
<1>2. /\ n \in Nat /\ path \in Paths(States, n)
      /\ \A q \in Paths(States, n) : /\ ScoreTo(hmm, Observed, q, n) \in Int
                                     /\ ScoreTo(hmm, Observed, q, n) <= ScoreTo(hmm, Observed, path, n)
  <2>1. n \in Nat
    BY <1>1 DEF Observation
  <2>2. /\ path \in Paths(States, Len(Observed))
        /\ \A q \in Paths(States, Len(Observed)) :
              /\ ScoreTo(hmm, Observed, q, Len(Observed)) \in Int
              /\ ScoreTo(hmm, Observed, q, Len(Observed)) <= ScoreTo(hmm, Observed, path, Len(Observed))
    BY <1>1, DecodedIsBest
  <2> QED
    BY <1>1, <2>1, <2>2
<1> HIDE DEF path
<1>3. \A q \in Paths(States, n) : PathScore(hmm, q) = ScoreTo(hmm, Observed, q, n)
  BY <1>2, PathScoreIs
<1>4. path \in BestPaths
  <2>1. \A q \in Paths(States, n) : /\ PathScore(hmm, q) \in Int
                                    /\ PathScore(hmm, q) <= PathScore(hmm, path)
    BY <1>2, <1>3
  <2> QED
    BY <1>2, <2>1, BestPathsAre
<1>5. \A t \in 1 .. n : VarianceOrder(hmm)[model.regime.sequence[t]] = path[t]
  BY <1>1, SequenceIsPath DEF path
<1> QED
  BY <1>4, <1>5

(* The decoded path is one of the best of all paths, as long as its scores *)
(* stay above the floor that viterbi puts in the place of what cannot      *)
(* happen, ln(1e-300) in the code: a path that sinks below it is scored    *)
(* as if it did not.  regime.rs: viterbi, forwards and backwards.          *)
THEOREM PathBestAlways == Spec => [](FloorUntouched => PathIsBest)
BY RunInvAlways, RunInvBest, PTL

(***************************************************************************)
(* Other numbers for the same states.                                      *)
(***************************************************************************)
Permutes(p) == /\ p \in [States -> States]
               /\ \A j, k \in States : p[j] = p[k] => j = k

LEMMA PermutesOnto ==
    ASSUME NEW p, Permutes(p), NEW k \in States
    PROVE  \E j \in States : p[j] = k
<1>1. /\ p[1] \in {1, 2, 3} /\ p[2] \in {1, 2, 3} /\ p[3] \in {1, 2, 3}
      /\ p[1] # p[2] /\ p[1] # p[3] /\ p[2] # p[3]
  BY StatesAre DEF Permutes
<1>2. \A o \in {1, 2, 3} : p[1] = o \/ p[2] = o \/ p[3] = o
  BY <1>1
<1> QED
  BY <1>2, StatesAre

\* A sum over the states is the same in another order.
LEMMA PermutedSum ==
    ASSUME NEW p, Permutes(p), NEW f \in [States -> Int]
    PROVE  f[p[1]] + f[p[2]] + f[p[3]] = f[1] + f[2] + f[3]
<1>1. /\ p[1] \in {1, 2, 3} /\ p[2] \in {1, 2, 3} /\ p[3] \in {1, 2, 3}
      /\ p[1] # p[2] /\ p[1] # p[3] /\ p[2] # p[3]
  BY StatesAre DEF Permutes
<1>2. f[1] \in Int /\ f[2] \in Int /\ f[3] \in Int
  BY StatesAre
<1> QED
  BY <1>1, <1>2

\* What another numbering gives a state is what that state had.
SameStates(g, h, p) ==
    /\ \A k \in States : /\ g.initial[k] = h.initial[p[k]]
                         /\ g.density[k] = h.density[p[k]]
                         /\ g.variance[k] = h.variance[p[k]]
    /\ \A j, k \in States : g.transition[j][k] = h.transition[p[j]][p[k]]

LEMMA RenumberedIs ==
    ASSUME NEW h, NEW moves, IsFit(h, moves), NEW p, Permutes(p)
    PROVE  IsFit(Renumbered(h, p), moves) /\ SameStates(Renumbered(h, p), h, p)
<1> DEFINE g == Renumbered(h, p)
           starts == [k \in States |-> h.initial[p[k]]]
           row(j) == [k \in States |-> h.transition[p[j]][p[k]]]
           rows == [j \in States |-> ByState(row(j))]
           seen == [k \in States |-> h.density[p[k]]]
           spread == [k \in States |-> h.variance[p[k]]]
<1>1. /\ g.initial = ByState(starts) /\ g.transition = ByState(rows)
      /\ g.density = ByState(seen) /\ g.variance = ByState(spread)
  BY DEF Renumbered
<1>2. \A k \in States : p[k] \in States
  BY DEF Permutes
<1>3. /\ starts \in [States -> Likelihoods] /\ spread \in [States -> Nat]
      /\ \A j \in States : row(j) \in [States -> Likelihoods]
  BY <1>2 DEF IsFit
<1>4. SameStates(g, h, p)
  <2>1. \A k \in States : /\ starts[k] = h.initial[p[k]] /\ seen[k] = h.density[p[k]]
                          /\ spread[k] = h.variance[p[k]] /\ rows[k] = ByState(row(k))
    OBVIOUS
  <2>2. \A j, k \in States : row(j)[k] = h.transition[p[j]][p[k]]
    OBVIOUS
  <2> HIDE DEF starts, rows, row, seen, spread, g
  <2>3. \A k \in States : /\ g.initial[k] = starts[k] /\ g.density[k] = seen[k]
                          /\ g.variance[k] = spread[k] /\ g.transition[k] = rows[k]
    BY <1>1, StateOf
  <2>4. \A j, k \in States : g.transition[j][k] = row(j)[k]
    <3> TAKE j, k \in States
    <3>1. g.transition[j] = ByState(row(j))
      BY <2>1, <2>3
    <3> QED
      BY <3>1, StateOf
  <2> QED
    BY <2>1, <2>2, <2>3, <2>4 DEF SameStates
<1>5. IsFit(g, moves)
  <2> HIDE DEF starts, row, spread
  <2>1. ByState(starts) = starts /\ ByState(spread) = spread
    BY <1>3, ByStateIs
  <2>2. \A j \in States : ByState(row(j)) = row(j)
    BY <1>3, ByStateIs
  <2>3. rows \in [States -> [States -> Likelihoods]]
    BY <1>3, <2>2
  <2> HIDE DEF rows
  <2>4. ByState(rows) = rows
    BY <2>3, ByStateIs
  <2>5. /\ g.initial \in [States -> Likelihoods]
        /\ g.transition \in [States -> [States -> Likelihoods]]
        /\ g.variance \in [States -> Nat]
    BY <1>1, <1>3, <2>1, <2>3, <2>4
  <2>6. \A k \in States : \A move \in moves : g.density[k][move] \in Likelihoods
    BY <1>2, <1>4 DEF IsFit, SameStates
  <2> QED
    BY <2>5, <2>6 DEF IsFit
<1> QED
  BY <1>4, <1>5

\* The states in the order of the variances are the same ones, whatever their numbers.
LEMMA SameOrder ==
    ASSUME NEW h, NEW g, NEW moves, IsFit(h, moves), IsFit(g, moves), NEW p, Permutes(p),
           SameStates(g, h, p),
           \A j, k \in States : h.variance[j] = h.variance[k] => j = k
    PROVE  \A k \in States :
              /\ p[VarianceOrder(g)[k]] = VarianceOrder(h)[k]
              /\ Rank(VarianceOrder(g))[k] = Rank(VarianceOrder(h))[p[k]]
<1> DEFINE new == VarianceOrder(g)
           old == VarianceOrder(h)
<1>1. /\ \A k \in States : p[k] \in States /\ \E j \in States : p[j] = k
      /\ \A j, k \in States : p[j] = p[k] => j = k
  BY PermutesOnto DEF Permutes
<1>2. \A k \in States : /\ h.variance[k] \in Nat /\ g.variance[k] = h.variance[p[k]]
  BY DEF IsFit, SameStates
<1>3. ASSUME NEW k \in States PROVE Cardinality(Ahead(g, k)) = Cardinality(Ahead(h, p[k]))
  <2> DEFINE S == Ahead(g, k)
             T == Ahead(h, p[k])
             f == [j \in S |-> p[j]]
  <2>1. \A j \in States : j \in S <=> h.variance[p[j]] < h.variance[p[k]]
    <3> TAKE j \in States
    <3>1. h.variance[p[j]] = h.variance[p[k]] => j = k
      BY <1>1
    <3>2. g.variance[j] = h.variance[p[j]] /\ g.variance[k] = h.variance[p[k]]
      BY <1>2
    <3>3. ~(k < k)
      BY StatesAre
    <3> QED
      BY <3>1, <3>2, <3>3 DEF Ahead
  <2>2. \A j \in States : j \in T <=> h.variance[j] < h.variance[p[k]]
    <3> TAKE j \in States
    <3>1. h.variance[j] = h.variance[p[k]] => j = p[k]
      BY <1>1
    <3>2. ~(p[k] < p[k])
      BY <1>1, StatesAre
    <3> QED
      BY <3>1, <3>2 DEF Ahead
  <2>3. S \in SUBSET States /\ T \in SUBSET States
    BY DEF Ahead
  <2> HIDE DEF S, T
  <2>4. f \in [S -> T]
    BY <1>1, <2>1, <2>2, <2>3
  <2>5. \A i, j \in S : f[i] = f[j] => i = j
    BY <1>1, <2>3
  <2>6. \A t \in T : \E j \in S : f[j] = t
    <3> TAKE t \in T
    <3>1. PICK j \in States : p[j] = t
      BY <1>1, <2>3
    <3>2. j \in S
      BY <2>1, <2>2, <2>3, <3>1
    <3> QED
      BY <3>1, <3>2
  <2> HIDE DEF f
  <2>7. f \in Bijection(S, T)
    BY <2>4, <2>5, <2>6 DEF Bijection, Injection, Surjection, IsInjective
  <2>8. ExistsBijection(S, T)
    BY <2>7 DEF ExistsBijection
  <2>9. IsFiniteSet(S)
    BY <2>3, StatesAre, FS_Subset
  <2>10. Cardinality(T) = Cardinality(S)
    BY <2>8, <2>9, FS_Bijection
  <2> QED
    BY <2>10 DEF S, T
<1>4. \A k \in States : /\ new[k] \in States /\ Cardinality(Ahead(g, new[k])) = k - 1
                        /\ old[k] \in States /\ Cardinality(Ahead(h, old[k])) = k - 1
  BY OrderIn
<1>5. \A k \in States : /\ Rank(new)[k] \in States /\ new[Rank(new)[k]] = k
                        /\ Rank(old)[k] \in States /\ old[Rank(old)[k]] = k
  BY OrderOfRank
<1> HIDE DEF new, old
<1>6. ASSUME NEW k \in States PROVE p[new[k]] = old[k]
  <2> DEFINE s == p[new[k]]
             m == Rank(old)[s]
  <2>1. s \in States /\ Cardinality(Ahead(h, s)) = k - 1
    BY <1>1, <1>3, <1>4
  <2> HIDE DEF s
  <2>2. m \in States /\ old[m] = s
    BY <1>5, <2>1
  <2>3. Cardinality(Ahead(h, s)) = m - 1
    BY <1>4, <2>2
  <2>4. m = k
    BY <2>1, <2>2, <2>3, StatesAre
  <2> QED
    BY <2>2, <2>4 DEF s
<1>7. ASSUME NEW k \in States PROVE Rank(new)[k] = Rank(old)[p[k]]
  <2>1. \A a, b \in States : old[a] = old[b] => a = b
    BY <1>4, StatesAre
  <2>2. old[Rank(new)[k]] = p[k]
    BY <1>5, <1>6
  <2>3. old[Rank(old)[p[k]]] = p[k] /\ Rank(old)[p[k]] \in States
    BY <1>1, <1>5
  <2> QED
    BY <1>5, <2>1, <2>2, <2>3
<1> QED
  BY <1>6, <1>7 DEF new, old

\* The weights of the days are the same, moved.
LEMMA SameProduct ==
    ASSUME NEW h, NEW g, NEW moves, IsFit(h, moves), NEW p, Permutes(p), SameStates(g, h, p),
           NEW v \in Weights, NEW w, \A k \in States : w[k] = v[p[k]], NEW k \in States
    PROVE  VecMatMul(w, g.transition)[k] = VecMatMul(v, h.transition)[p[k]]
<1> DEFINE m == h.transition
           f == [i \in States |-> v[i] * m[i][p[k]]]
           e == [j \in States |-> w[1] * g.transition[1][j] + w[2] * g.transition[2][j]
                                    + w[3] * g.transition[3][j]]
           d == [j \in States |-> v[1] * m[1][j] + v[2] * m[2][j] + v[3] * m[3][j]]
<1>1. /\ p[k] \in States /\ 1 \in States /\ 2 \in States /\ 3 \in States
      /\ p[1] \in States /\ p[2] \in States /\ p[3] \in States
  BY StatesAre DEF Permutes
<1>2. f \in [States -> Int]
  <2>1. \A i \in States : v[i] \in Nat /\ m[i][p[k]] \in Nat
    BY <1>1 DEF Weights, IsFit, Likelihoods
  <2>2. \A x, y \in Nat : x * y \in Int
    OBVIOUS
  <2> QED
    BY <2>1, <2>2
<1>3. /\ VecMatMul(w, g.transition) = ByState(e)
      /\ VecMatMul(v, h.transition) = ByState(d)
  BY DEF VecMatMul
<1>4. e[k] = f[p[1]] + f[p[2]] + f[p[3]]
  <2>1. \A i \in States : w[i] = v[p[i]] /\ g.transition[i][k] = m[p[i]][p[k]]
    BY DEF SameStates
  <2>2. \A i \in States : f[p[i]] = w[i] * g.transition[i][k]
    <3> HIDE DEF m
    <3> QED
      BY <2>1 DEF Permutes
  <2>3. e[k] = w[1] * g.transition[1][k] + w[2] * g.transition[2][k] + w[3] * g.transition[3][k]
    OBVIOUS
  <2> HIDE DEF e, f
  <2> QED
    BY <1>1, <2>2, <2>3
<1>5. d[p[k]] = f[1] + f[2] + f[3]
  BY <1>1
<1> HIDE DEF d, e, f
<1>6. e[k] = d[p[k]]
  BY <1>2, <1>4, <1>5, PermutedSum
<1>7. ByState(e)[k] = e[k] /\ ByState(d)[p[k]] = d[p[k]]
  BY <1>1, StateOf
<1> QED
  BY <1>3, <1>6, <1>7

LEMMA SameAlpha ==
    ASSUME NEW h, NEW g, NEW observed, NEW moves, Observation(h, observed, moves),
           Observation(g, observed, moves), NEW p, Permutes(p), SameStates(g, h, p)
    PROVE  \A t \in 1 .. Len(observed) : \A k \in States :
              Forward(g, observed)[t][k] = Forward(h, observed)[t][p[k]]
<1> DEFINE n == Len(observed)
           a == Forward(h, observed)
           b == Forward(g, observed)
           Good(t) == \A k \in States : b[t][k] = a[t][p[k]]
           C == {s \in Nat : \A t \in 1 .. n : t = s + 1 => Good(t)}
<1>1. /\ n \in Nat \ {0} /\ 1 \in 1 .. n /\ \A k \in States : p[k] \in States
      /\ IsFit(h, moves)
  BY DEF Observation, Permutes
<1>2. \A t \in 1 .. n : /\ a[t] \in Weights
                        /\ a[t] = AlphaBody(h, observed, t, IF t = 1 THEN h.initial
                                                ELSE VecMatMul(a[t - 1], h.transition))
                        /\ b[t] = AlphaBody(g, observed, t, IF t = 1 THEN g.initial
                                                ELSE VecMatMul(b[t - 1], g.transition))
  BY ForwardIs
<1>3. ASSUME NEW t \in 1 .. n, NEW v, NEW w, \A k \in States : w[k] = v[p[k]], NEW k \in States
      PROVE  AlphaBody(g, observed, t, w)[k] = AlphaBody(h, observed, t, v)[p[k]]
  <2> DEFINE e == [i \in States |-> w[i] * g.density[i][observed[t]]]
             d == [i \in States |-> v[i] * h.density[i][observed[t]]]
  <2>1. AlphaBody(g, observed, t, w) = ByState(e) /\ AlphaBody(h, observed, t, v) = ByState(d)
    BY DEF AlphaBody
  <2>2. w[k] = v[p[k]] /\ g.density[k] = h.density[p[k]] /\ p[k] \in States
    BY <1>1, <1>3 DEF SameStates
  <2>3. e[k] = d[p[k]]
    BY <2>2
  <2> HIDE DEF d, e
  <2>4. ByState(e)[k] = e[k] /\ ByState(d)[p[k]] = d[p[k]]
    BY <2>2, StateOf
  <2> QED
    BY <2>1, <2>3, <2>4
<1> HIDE DEF a, b, n
<1>4. Good(1)
  <2>1. a[1] = AlphaBody(h, observed, 1, h.initial) /\ b[1] = AlphaBody(g, observed, 1, g.initial)
    BY <1>1, <1>2
  <2>2. \A k \in States : g.initial[k] = h.initial[p[k]]
    BY DEF SameStates
  <2> QED
    BY <1>1, <1>3, <2>1, <2>2
<1>5. ASSUME NEW t \in 2 .. n, Good(t - 1) PROVE Good(t)
  <2> DEFINE v == VecMatMul(a[t - 1], h.transition)
             w == VecMatMul(b[t - 1], g.transition)
  <2>1. t \in 1 .. n /\ t - 1 \in 1 .. n /\ t # 1
    BY <1>1
  <2>2. a[t] = AlphaBody(h, observed, t, v) /\ b[t] = AlphaBody(g, observed, t, w)
    BY <1>2, <2>1
  <2>3. \A k \in States : w[k] = v[p[k]]
    <3>1. a[t - 1] \in Weights /\ \A k \in States : b[t - 1][k] = a[t - 1][p[k]]
      BY <1>2, <1>5, <2>1
    <3> QED
      BY <1>1, <3>1, SameProduct
  <2> HIDE DEF v, w
  <2> QED
    BY <1>3, <2>1, <2>2, <2>3
<1> HIDE DEF Good
<1>6. 0 \in C
  BY <1>4 DEF C
<1>7. \A s \in C : s + 1 \in C
  <2> TAKE s \in C
  <2>1. ASSUME NEW t \in 1 .. n, t = (s + 1) + 1 PROVE Good(t)
    <3>1. t \in 2 .. n /\ t - 1 \in 1 .. n /\ t - 1 = s + 1
      BY <1>1, <2>1
    <3>2. Good(t - 1)
      BY <3>1
    <3> QED
      BY <1>5, <3>1, <3>2
  <2> QED
    BY <2>1
<1>8. C = Nat
  <2> HIDE DEF C
  <2> QED
    BY <1>6, <1>7, NumberInduction DEF C
<1>9. \A t \in 1 .. n : Good(t)
  <2> TAKE t \in 1 .. n
  <2>1. t - 1 \in Nat /\ t = (t - 1) + 1
    BY <1>1
  <2>2. t - 1 \in C
    <3> HIDE DEF C
    <3> QED
      BY <1>8, <2>1
  <2> QED
    BY <2>1, <2>2
<1> QED
  BY <1>9 DEF Good, n, a, b

\* The weights of the last day, in the order of the variances.
LEMMA SameSmoothed ==
    ASSUME NEW h, NEW g, NEW observed, NEW moves, Observation(h, observed, moves),
           Observation(g, observed, moves), NEW p, Permutes(p), SameStates(g, h, p),
           NEW k \in States
    PROVE  EStep(g, observed).gamma[Len(observed)][k]
           = EStep(h, observed).gamma[Len(observed)][p[k]]
<1> DEFINE n == Len(observed)
<1>1. n \in 1 .. n /\ p[k] \in States
  BY DEF Observation, Permutes
<1>2. ASSUME NEW f, Observation(f, observed, moves), NEW j \in States
      PROVE  EStep(f, observed).gamma[n][j] = Forward(f, observed)[n][j]
  <2> DEFINE c == Chain(f, observed)
  <2>1. EStep(f, observed).gamma[n][j] = c.alpha[n][j] * c.beta[n][j]
    BY <1>1, <1>2, EStepIs
  <2>2. c.alpha = Forward(f, observed) /\ c.beta = Backward(f, observed)
    BY DEF Chain
  <2>3. Backward(f, observed)[n] = <<1, 1, 1>> /\ Forward(f, observed)[n] \in Weights
    BY <1>1, <1>2, BackwardIs, ForwardIs
  <2> HIDE DEF c, n
  <2>4. Backward(f, observed)[n][j] = 1 /\ Forward(f, observed)[n][j] \in Nat
    BY <2>3, StatesAre DEF Weights
  <2>5. EStep(f, observed).gamma[n][j] = Forward(f, observed)[n][j] * 1
    BY <2>1, <2>2, <2>4
  <2>6. \A x \in Nat : x * 1 = x
    OBVIOUS
  <2> QED
    BY <2>4, <2>5, <2>6
<1>3. Forward(g, observed)[n][k] = Forward(h, observed)[n][p[k]]
  BY <1>1, SameAlpha
<1> QED
  BY <1>1, <1>2, <1>3

\* A path in the new numbers scores what it scores in the old ones.
LEMMA SameScore ==
    ASSUME NEW h, NEW g, NEW observed, NEW p, Permutes(p), SameStates(g, h, p),
           observed # << >>, NEW S, observed \in Seq(S),
           NEW q \in Paths(States, Len(observed))
    PROVE  /\ [t \in 1 .. Len(observed) |-> p[q[t]]] \in Paths(States, Len(observed))
           /\ ScoreTo(g, observed, q, Len(observed))
              = ScoreTo(h, observed, [t \in 1 .. Len(observed) |-> p[q[t]]], Len(observed))
<1> DEFINE n == Len(observed)
           r == [t \in 1 .. n |-> p[q[t]]]
<1>1. /\ n \in Nat \ {0} /\ 1 \in 1 .. n
      /\ \A t \in 1 .. n : q[t] \in States /\ p[q[t]] \in States /\ r[t] = p[q[t]]
  BY DEF Paths, Permutes
<1>2. r \in Paths(States, n)
  BY <1>1 DEF Paths
<1> HIDE DEF r, n
<1>3. LogStart(g, q[1]) = LogStart(h, r[1])
  BY <1>1 DEF LogStart, SameStates
<1>4. [u \in 1 .. n |-> LogSeen(g, observed, u, q[u])] = [u \in 1 .. n |-> LogSeen(h, observed, u, r[u])]
  BY <1>1 DEF LogSeen, SameStates
<1>5. [u \in 2 .. n |-> LogMove(g, q[u - 1], q[u])] = [u \in 2 .. n |-> LogMove(h, r[u - 1], r[u])]
  <2>1. \A u \in 2 .. n : LogMove(g, q[u - 1], q[u]) = LogMove(h, r[u - 1], r[u])
    <3> TAKE u \in 2 .. n
    <3>1. u \in 1 .. n /\ u - 1 \in 1 .. n
      BY <1>1
    <3> QED
      BY <1>1, <3>1 DEF LogMove, SameStates
  <2> QED
    BY <2>1
<1>6. ScoreTo(g, observed, q, n) = ScoreTo(h, observed, r, n)
  BY <1>3, <1>4, <1>5 DEF ScoreTo
<1> QED
  BY <1>2, <1>6 DEF r, n

\* The path decoded in the new numbers is one of the best in the old ones.
LEMMA SamePath ==
    ASSUME NEW h, NEW g, NEW observed, NEW moves, Observation(h, observed, moves),
           Observation(g, observed, moves), NEW p, Permutes(p), SameStates(g, h, p),
           Untouched(g, observed)
    PROVE  LET n == Len(observed)
               path == [t \in 1 .. n |-> p[Viterbi(g, observed)[t]]]
           IN  /\ path \in Paths(States, n)
               /\ \A q \in Paths(States, n) :
                     ScoreTo(h, observed, q, n) <= ScoreTo(h, observed, path, n)
<1> DEFINE n == Len(observed)
           s == Viterbi(g, observed)
           path == [t \in 1 .. n |-> p[s[t]]]
           back(k) == CHOOSE j \in States : p[j] = k
<1>0. n \in Nat /\ observed \in Seq(moves) /\ observed # << >>
  BY DEF Observation
<1>1. /\ s \in Paths(States, n)
      /\ \A q \in Paths(States, n) : ScoreTo(g, observed, q, n) <= ScoreTo(g, observed, s, n)
  BY DecodedIsBest
<1> HIDE DEF s
<1>2. path \in Paths(States, n) /\ ScoreTo(g, observed, s, n) = ScoreTo(h, observed, path, n)
  BY <1>0, <1>1, SameScore
<1>3. \A k \in States : back(k) \in States /\ p[back(k)] = k
  BY PermutesOnto
<1> HIDE DEF path, back
<1>4. ASSUME NEW q \in Paths(States, n)
      PROVE  ScoreTo(h, observed, q, n) <= ScoreTo(h, observed, path, n)
  <2> DEFINE r == [t \in 1 .. n |-> back(q[t])]
             q2 == [t \in 1 .. n |-> p[r[t]]]
  <2>1. \A t \in 1 .. n : q[t] \in States
    BY DEF Paths
  <2>2. r \in Paths(States, n)
    BY <1>3, <2>1 DEF Paths
  <2>3. q2 = q
    <3>1. \A t \in 1 .. n : p[r[t]] = q[t]
      BY <1>3, <2>1
    <3>2. q = [t \in 1 .. n |-> q[t]]
      BY DEF Paths
    <3> HIDE DEF r
    <3> QED
      BY <3>1, <3>2
  <2> HIDE DEF r
  <2>4. ScoreTo(g, observed, r, n) = ScoreTo(h, observed, q2, n)
    BY <1>0, <2>2, SameScore
  <2> HIDE DEF q2
  <2>5. ScoreTo(g, observed, r, n) <= ScoreTo(g, observed, s, n)
    BY <1>1, <2>2
  <2> QED
    BY <1>2, <2>3, <2>4, <2>5
<1> QED
  BY <1>2, <1>4 DEF path, s

\* A fit comes out the same from other numbers for its states.
LEMMA SameFit ==
    ASSUME NEW h, NEW g, NEW observed, NEW moves, Observation(h, observed, moves),
           Observation(g, observed, moves), NEW p, Permutes(p), SameStates(g, h, p),
           \A j, k \in States : h.variance[j] = h.variance[k] => j = k,
           \A t \in 1 .. Len(observed) : p[Viterbi(g, observed)[t]] = Viterbi(h, observed)[t]
    PROVE  FitHmm(g, observed) = FitHmm(h, observed)
<1> DEFINE n == Len(observed)
           new == VarianceOrder(g)
           old == VarianceOrder(h)
           rankNew == Rank(new)
           rankOld == Rank(old)
           pathNew == Viterbi(g, observed)
           pathOld == Viterbi(h, observed)
           gammaNew == EStep(g, observed).gamma[n]
           gammaOld == EStep(h, observed).gamma[n]
<1>1. n \in 1 .. n /\ IsFit(h, moves) /\ IsFit(g, moves)
  BY DEF Observation
<1>2. \A k \in States : p[new[k]] = old[k] /\ rankNew[k] = rankOld[p[k]] /\ new[k] \in States
  BY <1>1, SameOrder, OrderIn
<1>3. pathNew \in [1 .. n -> States] /\ pathOld \in [1 .. n -> States]
  BY ViterbiIn
<1>4. \A t \in 1 .. n : p[pathNew[t]] = pathOld[t]
  OBVIOUS
<1>5. \A k \in States : gammaNew[k] = gammaOld[p[k]]
  BY SameSmoothed
<1>6. FitHmm(g, observed) = Classified(Relabelled(g, new, rankNew, pathNew, gammaNew))
  BY DEF FitHmm
<1>7. FitHmm(h, observed) = Classified(Relabelled(h, old, rankOld, pathOld, gammaOld))
  BY DEF FitHmm
<1> HIDE DEF n, new, old, rankNew, rankOld, pathNew, pathOld, gammaNew, gammaOld
<1>8. [t \in DOMAIN pathNew |-> rankNew[pathNew[t]]] = [t \in DOMAIN pathOld |-> rankOld[pathOld[t]]]
  <2>1. DOMAIN pathNew = 1 .. n /\ DOMAIN pathOld = 1 .. n /\ \A t \in 1 .. n : pathNew[t] \in States
    BY <1>3
  <2>2. \A t \in 1 .. n : rankNew[pathNew[t]] = rankOld[pathOld[t]]
    BY <1>2, <1>4, <2>1
  <2> QED
    BY <2>1, <2>2
<1>9. [k \in States |-> gammaNew[new[k]]] = [k \in States |-> gammaOld[old[k]]]
  BY <1>2, <1>5
<1>10. \A j \in States : [k \in States |-> g.transition[new[j]][new[k]]]
                         = [k \in States |-> h.transition[old[j]][old[k]]]
  BY <1>2 DEF SameStates
<1>11. [j \in States |-> ByState([k \in States |-> g.transition[new[j]][new[k]]])]
       = [j \in States |-> ByState([k \in States |-> h.transition[old[j]][old[k]]])]
  BY <1>10
<1>12. Relabelled(g, new, rankNew, pathNew, gammaNew) = Relabelled(h, old, rankOld, pathOld, gammaOld)
  BY <1>8, <1>9, <1>11 DEF Relabelled
<1> QED
  BY <1>6, <1>7, <1>12

\* Three values of three states: no two are equal.
LEMMA ThreeValues ==
    ASSUME NEW v, Cardinality({v[k] : k \in States}) = 3
    PROVE  \A j, k \in States : v[j] = v[k] => j = k
<1>1. \A a, b : Cardinality({a, b}) # 3
  <2> TAKE a, b
  <2>1. IsFiniteSet({a}) /\ Cardinality({a}) = 1
    BY FS_Singleton
  <2>2. CASE a = b
    <3>1. {a, b} = {a}
      BY <2>2
    <3> QED
      BY <2>1, <3>1
  <2>3. CASE a # b
    <3>1. Cardinality({a} \cup {b}) = Cardinality({a}) + 1
      BY <2>1, <2>3, FS_AddElement
    <3>2. {a} \cup {b} = {a, b}
      OBVIOUS
    <3> QED
      BY <2>1, <3>1, <3>2
  <2> QED
    BY <2>2, <2>3
<1>2. {v[k] : k \in States} = {v[1], v[2], v[3]}
  BY StatesAre
<1>3. v[1] # v[2] /\ v[1] # v[3] /\ v[2] # v[3]
  <2> DEFINE a == v[1]
             b == v[2]
             c == v[3]
  <2>1. Cardinality({a, b, c}) = 3
    BY <1>2
  <2> HIDE DEF a, b, c
  <2>2. a # b
    <3>1. a = b => {a, b, c} = {a, c}
      OBVIOUS
    <3> QED
      BY <1>1, <2>1, <3>1
  <2>3. a # c
    <3>1. a = c => {a, b, c} = {a, b}
      OBVIOUS
    <3> QED
      BY <1>1, <2>1, <3>1
  <2>4. b # c
    <3>1. b = c => {a, b, c} = {a, b}
      OBVIOUS
    <3> QED
      BY <1>1, <2>1, <3>1
  <2> QED
    BY <2>2, <2>3, <2>4 DEF a, b, c
<1> QED
  BY <1>3, StatesAre

\* A path that no other scores above is one of BestPaths, and so the only one.
LEMMA OnlyBest ==
    ASSUME model.window \in Nat, Cardinality(BestPaths) = 1,
           NEW a \in Paths(States, model.window), NEW b \in Paths(States, model.window),
           \A q \in Paths(States, model.window) :
              /\ PathScore(World.hmm, q) \in Int
              /\ PathScore(World.hmm, q) <= PathScore(World.hmm, a)
              /\ PathScore(World.hmm, q) <= PathScore(World.hmm, b)
    PROVE  a = b
<1>1. a \in BestPaths /\ b \in BestPaths /\ BestPaths \in SUBSET Paths(States, model.window)
  BY BestPathsAre
<1>2. IsFiniteSet(Paths(States, model.window))
  BY StatesAre, PathsFinite
<1>3. IsFiniteSet(BestPaths)
  BY <1>1, <1>2, FS_Subset
<1>4. \E x : BestPaths = {x}
  BY <1>3, FS_Singleton
<1> QED
  BY <1>1, <1>4

\* The floor of viterbi is below the scores of the paths it decodes from other numbers.
NumberingsUntouched ==
    stage = "fitted" =>
        \A p \in {q \in [States -> States] : \A j, k \in States : q[j] = q[k] => j = k} :
           Untouched(Renumbered(World.hmm, p), Observed)

LEMMA RunInvOrderFree ==
    RunInv => (FloorUntouched /\ NumberingsUntouched => LabelsOrderFree)
<1> SUFFICES ASSUME RunInv, stage = "fitted", FloorUntouched, NumberingsUntouched,
                    Cardinality({World.hmm.variance[k] : k \in States}) = 3,
                    Cardinality(BestPaths) = 1,
                    NEW p \in {q \in [States -> States] : \A j, k \in States :
                                  q[j] = q[k] => j = k}
             PROVE  FitHmm(Renumbered(World.hmm, p), Observed) = model.regime
  BY DEF LabelsOrderFree
<1> DEFINE h == World.hmm
           g == Renumbered(h, p)
           moves == Moves(World.raw["MARKET"])
           n == model.window
           old == Viterbi(h, Observed)
           new == [t \in 1 .. n |-> p[Viterbi(g, Observed)[t]]]
<1>1. /\ Observation(h, Observed, moves) /\ Len(Observed) = n
      /\ model.regime = FitHmm(h, Observed)
  BY FittedOn
<1>2. Permutes(p) /\ IsFit(h, moves) /\ n \in Nat
  BY <1>1 DEF Permutes, Observation
<1>3. SameStates(g, h, p) /\ Observation(g, Observed, moves)
  <2>1. IsFit(g, moves) /\ SameStates(g, h, p)
    BY <1>2, RenumberedIs
  <2> HIDE DEF g
  <2> QED
    BY <1>1, <2>1 DEF Observation
<1>4. Untouched(h, Observed) /\ Untouched(g, Observed)
  BY DEF FloorUntouched, NumberingsUntouched
<1>5. \A j, k \in States : h.variance[j] = h.variance[k] => j = k
  BY ThreeValues
<1> HIDE DEF h, g, moves
<1>6. /\ old \in Paths(States, n)
      /\ \A q \in Paths(States, n) : /\ ScoreTo(h, Observed, q, n) \in Int
                                     /\ ScoreTo(h, Observed, q, n) <= ScoreTo(h, Observed, old, n)
  <2>1. /\ old \in Paths(States, Len(Observed))
        /\ \A q \in Paths(States, Len(Observed)) :
              /\ ScoreTo(h, Observed, q, Len(Observed)) \in Int
              /\ ScoreTo(h, Observed, q, Len(Observed)) <= ScoreTo(h, Observed, old, Len(Observed))
    BY <1>1, <1>4, DecodedIsBest
  <2> QED
    BY <1>1, <2>1
<1>7. /\ new \in Paths(States, n)
      /\ \A q \in Paths(States, n) : ScoreTo(h, Observed, q, n) <= ScoreTo(h, Observed, new, n)
  <2> DEFINE path == [t \in 1 .. Len(Observed) |-> p[Viterbi(g, Observed)[t]]]
  <2>1. /\ path \in Paths(States, Len(Observed))
        /\ \A q \in Paths(States, Len(Observed)) :
              ScoreTo(h, Observed, q, Len(Observed)) <= ScoreTo(h, Observed, path, Len(Observed))
    BY <1>1, <1>2, <1>3, <1>4, SamePath
  <2>2. path = new
    BY <1>1
  <2> HIDE DEF path, new
  <2> QED
    BY <1>1, <2>1, <2>2
<1> HIDE DEF old, new
<1>8. old = new
  <2>1. \A q \in Paths(States, n) : PathScore(h, q) = ScoreTo(h, Observed, q, n)
    BY <1>2, PathScoreIs
  <2>2. \A q \in Paths(States, n) : /\ PathScore(h, q) \in Int
                                    /\ PathScore(h, q) <= PathScore(h, old)
                                    /\ PathScore(h, q) <= PathScore(h, new)
    BY <1>6, <1>7, <2>1
  <2> QED
    BY <1>2, <1>6, <1>7, <2>2, OnlyBest DEF h
<1>9. \A t \in 1 .. Len(Observed) : p[Viterbi(g, Observed)[t]] = Viterbi(h, Observed)[t]
  BY <1>1, <1>8 DEF old, new
<1>10. FitHmm(g, Observed) = FitHmm(h, Observed)
  BY <1>1, <1>2, <1>3, <1>5, <1>9, SameFit
<1> QED
  BY <1>1, <1>10 DEF g, h

(* Whatever numbers the fit gave its states, the regimes, their path, the  *)
(* forecast and the covariance that is used come out the same (as long as  *)
(* no two variances are equal, one path is best, and the scores of what is *)
(* decoded stay above the floor).  regime.rs, the relabelling at the end   *)
(* of fit_hmm.                                                             *)
THEOREM LabelsOrderFreeAlways ==
    Spec => [](FloorUntouched /\ NumberingsUntouched => LabelsOrderFree)
BY RunInvAlways, RunInvOrderFree, PTL

(***************************************************************************)
(* The clusters the fit starts from.  A centre is a sum over a count, so   *)
(* distances to centres compare after each is multiplied by the count of   *)
(* the other, as fractions do.                                             *)
(***************************************************************************)
Centre == [sum : Nat, count : Nat \ {0}]
Centres == [States -> Centre]

\* No further from the first centre than from the second.
Closer(x, c, k, j) == Distance(x, c[k]) * c[j].count <= Distance(x, c[j]) * c[k].count

\* A common factor does not change an order.
LEMMA TimesOrder ==
    ASSUME NEW a \in Int, NEW b \in Int, NEW m \in Nat \ {0}
    PROVE  /\ a <= b <=> a * m <= b * m
           /\ a < b <=> a * m < b * m
<1>1. \A d \in Int : d > 0 => d * m > 0
  <2>1. \A d, e \in Nat : (d + 1) * (e + 1) = d * e + d + e + 1 /\ d * e \in Nat
    OBVIOUS
  <2>2. ASSUME NEW d \in Int, d > 0 PROVE d * m > 0
    <3>1. d - 1 \in Nat /\ m - 1 \in Nat
      BY <2>2
    <3>2. ((d - 1) + 1) * ((m - 1) + 1) = (d - 1) * (m - 1) + (d - 1) + (m - 1) + 1
          /\ (d - 1) * (m - 1) \in Nat
      BY <2>1, <3>1
    <3>3. (d - 1) + 1 = d /\ (m - 1) + 1 = m
      BY <2>2
    <3> DEFINE r == (d - 1) * (m - 1)
    <3>4. d * m = r + (d - 1) + (m - 1) + 1 /\ r \in Nat
      BY <3>2, <3>3
    <3> HIDE DEF r
    <3> QED
      BY <3>1, <3>4
  <2> QED
    BY <2>2
<1>2. \A x, y \in Int : (x - y) * m = x * m - y * m /\ x * m \in Int
  OBVIOUS
<1>3. a < b => a * m < b * m
  <2>1. a < b => (b - a) * m > 0
    BY <1>1
  <2> QED
    BY <1>2, <2>1
<1>4. b < a => b * m < a * m
  <2>1. b < a => (a - b) * m > 0
    BY <1>1
  <2> QED
    BY <1>2, <2>1
<1>5. a = b => a * m = b * m
  OBVIOUS
<1>6. a * m \in Int /\ b * m \in Int
  BY <1>2
<1> QED
  BY <1>3, <1>4, <1>5, <1>6

LEMMA DistanceIs ==
    ASSUME NEW x \in Nat, NEW centre \in Centre
    PROVE  /\ Distance(x, centre) \in Nat
           /\ Distance(x, centre) = x * centre.count - centre.sum
              \/ Distance(x, centre) = centre.sum - x * centre.count
<1> DEFINE apart == x * centre.count - centre.sum
<1>1. apart \in Int /\ x * centre.count \in Int /\ centre.sum \in Int
  <2>1. \A a, b, d \in Nat : a * b - d \in Int /\ a * b \in Int
    OBVIOUS
  <2> QED
    BY <2>1 DEF Centre
<1>2. apart = x * centre.count - centre.sum
  OBVIOUS
<1>3. Distance(x, centre) = IF apart < 0 THEN -apart ELSE apart
  BY DEF Distance
<1> HIDE DEF apart
<1> QED
  BY <1>1, <1>2, <1>3

LEMMA CrossOrder ==
    ASSUME NEW a \in Nat, NEW b \in Nat, NEW d \in Nat,
           NEW m \in Nat \ {0}, NEW n \in Nat \ {0}, NEW l \in Nat \ {0},
           a * n <= b * m, b * l <= d * n
    PROVE  a * l <= d * m
<1>1. \A u, v \in Nat : u * v \in Int
  OBVIOUS
<1>2. /\ a * n \in Int /\ b * m \in Int /\ b * l \in Int /\ d * n \in Int
      /\ a * l \in Int /\ d * m \in Int
  BY <1>1
<1>3. (a * n) * l <= (b * m) * l
  BY <1>2, TimesOrder
<1>4. (b * l) * m <= (d * n) * m
  BY <1>2, TimesOrder
<1>5. \A u, v, w \in Nat : (u * v) * w = (u * w) * v /\ (u * v) * w \in Int
  OBVIOUS
<1>6. /\ (a * n) * l = (a * l) * n /\ (b * m) * l = (b * l) * m
      /\ (d * n) * m = (d * m) * n
      /\ (a * l) * n \in Int /\ (b * l) * m \in Int /\ (d * m) * n \in Int
  BY <1>5
<1>7. (a * l) * n <= (d * m) * n
  <2>1. \A u, v, w \in Int : u <= v /\ v <= w => u <= w
    OBVIOUS
  <2> QED
    BY <1>3, <1>4, <1>6, <2>1
<1> QED
  BY <1>2, <1>7, TimesOrder

LEMMA CloserOrders ==
    ASSUME NEW c \in Centres, NEW x \in Nat, NEW i \in States, NEW j \in States, NEW k \in States
    PROVE  /\ Closer(x, c, j, k) \/ Closer(x, c, k, j)
           /\ Closer(x, c, i, j) /\ Closer(x, c, j, k) => Closer(x, c, i, k)
<1> DEFINE d == [s \in States |-> Distance(x, c[s])]
           n == [s \in States |-> c[s].count]
<1>1. \A s \in States : d[s] = Distance(x, c[s]) /\ d[s] \in Nat
  BY DistanceIs DEF Centres
<1>2. \A s \in States : n[s] = c[s].count /\ n[s] \in Nat \ {0}
  BY DEF Centres, Centre
<1> HIDE DEF d, n
<1>3. \A s, t \in States : Closer(x, c, s, t) <=> d[s] * n[t] <= d[t] * n[s]
  BY <1>1, <1>2 DEF Closer
<1>4. d[j] * n[k] <= d[k] * n[j] \/ d[k] * n[j] <= d[j] * n[k]
  <2>1. \A u, v, w, y \in Nat : u * v <= w * y \/ w * y <= u * v
    OBVIOUS
  <2>2. d[j] \in Nat /\ n[k] \in Nat /\ d[k] \in Nat /\ n[j] \in Nat
    BY <1>1, <1>2
  <2> QED
    BY <2>1, <2>2
<1>5. d[i] * n[j] <= d[j] * n[i] /\ d[j] * n[k] <= d[k] * n[j] => d[i] * n[k] <= d[k] * n[i]
  <2>1. /\ d[i] \in Nat /\ d[j] \in Nat /\ d[k] \in Nat
        /\ n[i] \in Nat \ {0} /\ n[j] \in Nat \ {0} /\ n[k] \in Nat \ {0}
    BY <1>1, <1>2
  <2> QED
    BY <2>1, CrossOrder
<1> QED
  BY <1>3, <1>4, <1>5

\* The state that Nearest picks is one of the nearest, and no earlier one is.
LEMMA NearestIs ==
    ASSUME NEW c \in Centres, NEW x \in Nat
    PROVE  /\ Nearest(x, c) \in States
           /\ \A j \in States : Closer(x, c, Nearest(x, c), j)
           /\ \A j \in States : j < Nearest(x, c) => ~Closer(x, c, j, Nearest(x, c))
<1> DEFINE N == {k \in States : \A j \in States : Closer(x, c, k, j)}
<1>1. Nearest(x, c) = Min(N)
  BY DEF Nearest, Closer
<1>2. N # {}
  <2>1. \A j, k \in States : Closer(x, c, j, k) \/ Closer(x, c, k, j)
    BY CloserOrders
  <2>2. \A i, j, k \in States : Closer(x, c, i, j) /\ Closer(x, c, j, k) => Closer(x, c, i, k)
    BY CloserOrders
  <2>3. 1 \in States /\ 2 \in States /\ 3 \in States /\ \A j \in States : j = 1 \/ j = 2 \/ j = 3
    BY StatesAre
  <2>4. PICK a \in States : Closer(x, c, a, 1) /\ Closer(x, c, a, 2)
    BY <2>1, <2>3
  <2>5. CASE Closer(x, c, a, 3)
    BY <2>3, <2>4, <2>5
  <2>6. CASE ~Closer(x, c, a, 3)
    <3>1. Closer(x, c, 3, a)
      BY <2>1, <2>3, <2>6
    <3>2. \A j \in States : Closer(x, c, 3, j)
      BY <2>1, <2>2, <2>3, <2>4, <3>1
    <3> QED
      BY <2>3, <3>2
  <2> QED
    BY <2>5, <2>6
<1>3. N \in SUBSET Nat
  BY StatesAre
<1>4. Min(N) \in N /\ \A k \in N : Min(N) <= k
  <2> HIDE DEF N
  <2> QED
    BY <1>2, <1>3, MinIs
<1> DEFINE near == Nearest(x, c)
<1>5. near \in States /\ \A j \in States : Closer(x, c, near, j)
  BY <1>1, <1>4
<1>6. ASSUME NEW j \in States, j < near, Closer(x, c, j, near) PROVE FALSE
  <2>1. \A k \in States : Closer(x, c, j, k)
    BY <1>5, <1>6, CloserOrders
  <2>2. near <= j
    BY <1>1, <1>4, <2>1
  <2>3. j \in Nat /\ near \in Nat
    BY <1>5, StatesAre
  <2> HIDE DEF near, N
  <2> QED
    BY <1>6, <2>2, <2>3
<1> QED
  BY <1>5, <1>6

\* One centre lies before another.
Before(c, j, k) == c[j].sum * c[k].count < c[k].sum * c[j].count

\* Closer to the earlier centre is up to half way to the later.
LEMMA HalfWay ==
    ASSUME NEW c \in Centres, NEW x \in Nat, NEW j \in States, NEW k \in States, Before(c, j, k)
    PROVE  Closer(x, c, j, k) <=>
              2 * (c[j].count * c[k].count) * x <= c[j].sum * c[k].count + c[k].sum * c[j].count
<1> DEFINE dj == Distance(x, c[j])
           dk == Distance(x, c[k])
           sj == c[j].sum
           sk == c[k].sum
           nj == c[j].count
           nk == c[k].count
<1>1. sj \in Nat /\ sk \in Nat /\ nj \in Nat \ {0} /\ nk \in Nat \ {0}
  BY DEF Centres, Centre
<1>2. /\ dj \in Nat /\ dk \in Nat
      /\ dj = x * nj - sj \/ dj = sj - x * nj
      /\ dk = x * nk - sk \/ dk = sk - x * nk
  BY DistanceIs DEF Centres
<1>3. Closer(x, c, j, k) <=> dj * nk <= dk * nj
  BY DEF Closer
<1>4. sj * nk < sk * nj
  BY DEF Before
<1> HIDE DEF dj, dk, sj, sk, nj, nk
<1> DEFINE X == (nj * nk) * x
           A == sj * nk
           B == sk * nj
<1>5. X \in Int /\ A \in Int /\ B \in Int /\ 2 * (nj * nk) * x = 2 * X
  <2>1. \A a, b, e \in Nat : (a * b) * e \in Int /\ a * b \in Int /\ 2 * (a * b) * e = 2 * ((a * b) * e)
    OBVIOUS
  <2> QED
    BY <1>1, <2>1
<1>6. /\ dj * nk \in Nat /\ dk * nj \in Nat
      /\ dj * nk = X - A \/ dj * nk = A - X
      /\ dk * nj = X - B \/ dk * nj = B - X
  <2>1. \A a, b \in Nat : a * b \in Nat
    OBVIOUS
  <2>2. \A a, b, e, f \in Nat : (a * b - e) * f = (b * f) * a - e * f /\ (e - a * b) * f = e * f - (b * f) * a
    OBVIOUS
  <2>3. /\ (x * nj - sj) * nk = X - A /\ (sj - x * nj) * nk = A - X
    BY <1>1, <2>2
  <2>4. nk * nj = nj * nk
    <3>1. \A a, b \in Nat : a * b = b * a
      OBVIOUS
    <3> QED
      BY <1>1, <3>1
  <2>5. /\ (x * nk - sk) * nj = X - B /\ (sk - x * nk) * nj = B - X
    BY <1>1, <2>2, <2>4
  <2> HIDE DEF X, A, B
  <2> QED
    BY <1>1, <1>2, <2>1, <2>3, <2>5
<1>7. A < B
  BY <1>4
<1> HIDE DEF X, A, B
<1>8. dj * nk <= dk * nj <=> 2 * X <= A + B
  <2>1. \A u, v \in Nat : (u = X - A \/ u = A - X) /\ (v = X - B \/ v = B - X) => (u <= v <=> 2 * X <= A + B)
    BY <1>5, <1>7
  <2> QED
    BY <1>6, <2>1
<1> QED
  BY <1>3, <1>5, <1>8 DEF A, B, sj, sk, nj, nk

\* The members of a cluster, and their mean.
Members(cluster, k) == {i \in DOMAIN cluster : cluster[i] = k}
Mean(sizes, own) == [sum |-> Total([i \in own |-> sizes[i]]), count |-> Cardinality(own)]

LEMMA MeanIs ==
    ASSUME NEW S, IsFiniteSet(S), NEW f \in [S -> Nat], NEW own \in SUBSET S, own # {}
    PROVE  /\ Mean(f, own) \in Centre /\ IsFiniteSet(own)
           /\ [i \in own |-> f[i]] \in [own -> Nat]
<1>1. [i \in own |-> f[i]] \in [own -> Nat]
  OBVIOUS
<1>2. IsFiniteSet(own)
  BY FS_Subset
<1>3. Total([i \in own |-> f[i]]) \in Nat
  BY <1>1, <1>2, TotalNat
<1>4. Cardinality(own) \in Nat \ {0}
  BY <1>2, FS_CardinalityType, FS_EmptySet
<1> QED
  BY <1>1, <1>2, <1>3, <1>4 DEF Mean, Centre

\* What no size passes, their mean does not.
LEMMA MeanBounds ==
    ASSUME NEW S, IsFiniteSet(S), S # {}, NEW f \in [S -> Nat], NEW p \in Nat, NEW m \in Int
    PROVE  /\ (\A i \in S : p * f[i] <= m) => p * Total(f) <= m * Cardinality(S)
           /\ (\A i \in S : m < p * f[i]) => m * Cardinality(S) < p * Total(f)
<1> DEFINE g == [i \in S |-> p * f[i]]
           low == [i \in S |-> m]
           above == [i \in S |-> m + 1]
           n == Cardinality(S)
<1>1. n \in Nat \ {0}
  BY FS_CardinalityType, FS_EmptySet
<1>2. /\ g \in [S -> Int] /\ low \in [S -> Int] /\ above \in [S -> Int]
      /\ \A i \in S : g[i] = p * f[i] /\ low[i] = m /\ above[i] = m + 1 /\ g[i] \in Int
  <2>1. \A a, b \in Nat : a * b \in Int
    OBVIOUS
  <2> QED
    BY <2>1
<1>3. f \in [S -> Int] /\ p \in Int /\ m + 1 \in Int
  OBVIOUS
<1>4. Total(g) = p * Total(f)
  BY <1>3, TotalTimes
<1>5. Total(low) = n * m /\ Total(above) = n * (m + 1)
  BY <1>3, TotalConstant
<1>6. /\ Total(f) \in Int /\ Total(g) \in Int
  BY <1>2, <1>3, TotalInt
<1>7. \A a \in Nat : a * m = m * a /\ a * (m + 1) = m * a + a /\ m * a \in Int
  OBVIOUS
<1>8. n * m = m * n /\ n * (m + 1) = m * n + n /\ m * n \in Int
  BY <1>1, <1>7
<1> HIDE DEF g, low, above, n
<1>9. ASSUME \A i \in S : p * f[i] <= m PROVE p * Total(f) <= m * n
  <2>1. \A i \in S : g[i] <= low[i]
    BY <1>2, <1>9
  <2>2. Total(g) <= Total(low)
    BY <1>2, <2>1, TotalBelow
  <2> QED
    BY <1>4, <1>5, <1>8, <2>2
<1>10. ASSUME \A i \in S : m < p * f[i] PROVE m * n < p * Total(f)
  <2>1. \A i \in S : above[i] <= g[i]
    BY <1>2, <1>10
  <2>2. Total(above) <= Total(g)
    BY <1>2, <2>1, TotalBelow
  <2>3. m * n + n <= Total(g)
    BY <1>5, <1>8, <2>2
  <2>4. m * n < Total(g)
    BY <1>1, <1>6, <1>8, <2>3
  <2> QED
    BY <1>4, <2>4
<1> QED
  BY <1>9, <1>10 DEF n

Nearby(sizes, centres) == [i \in DOMAIN sizes |-> Nearest(sizes[i], centres)]

LEMMA RecentredIs ==
    ASSUME NEW n \in Nat, NEW sizes \in [1 .. n -> Nat], NEW cluster \in [1 .. n -> States],
           NEW c \in Centres
    PROVE  /\ Recentred(sizes, cluster, c) \in Centres
           /\ \A k \in States :
                 Recentred(sizes, cluster, c)[k]
                    = IF Members(cluster, k) = {} THEN c[k]
                      ELSE Mean(sizes, Members(cluster, k))
<1> DEFINE new == [k \in States |-> IF Members(cluster, k) = {} THEN c[k]
                                    ELSE Mean(sizes, Members(cluster, k))]
<1>1. Recentred(sizes, cluster, c) = ByState(new)
  BY DEF Recentred, Members, Mean
<1>2. ASSUME NEW k \in States PROVE new[k] \in Centre
  <2>1. Members(cluster, k) \in SUBSET (1 .. n) /\ IsFiniteSet(1 .. n)
    <3>1. 1 \in Int /\ n \in Int
      OBVIOUS
    <3> QED
      BY <3>1, FS_Interval DEF Members
  <2>2. Members(cluster, k) # {} => Mean(sizes, Members(cluster, k)) \in Centre
    BY <2>1, MeanIs
  <2>3. c[k] \in Centre
    BY DEF Centres
  <2> QED
    BY <2>2, <2>3
<1>3. new \in [States -> Centre] /\ \A k \in States :
         new[k] = IF Members(cluster, k) = {} THEN c[k] ELSE Mean(sizes, Members(cluster, k))
  BY <1>2
<1> HIDE DEF new
<1> QED
  BY <1>1, <1>3, ByStateIs DEF Centres

InLine(c) == \A j, k \in States : j < k => Before(c, j, k)

\* A smaller size has no later cluster.
LEMMA NearbyClimbs ==
    ASSUME NEW c \in Centres, InLine(c), NEW x \in Nat, NEW y \in Nat, x < y
    PROVE  Nearest(x, c) <= Nearest(y, c)
<1> DEFINE k == Nearest(x, c)
           j == Nearest(y, c)
<1>1. /\ k \in States /\ j \in States
      /\ \A i \in States : i < k => ~Closer(x, c, i, k)
      /\ \A i \in States : Closer(y, c, j, i)
  BY NearestIs
<1> HIDE DEF k, j
<1>2. SUFFICES ASSUME j < k PROVE FALSE
  <2>1. k \in Int /\ j \in Int
    BY <1>1, StatesAre
  <2>2. k <= j
    BY <1>2, <2>1
  <2> QED
    BY <2>2 DEF k, j
<1>3. ~Closer(x, c, j, k) /\ Closer(y, c, j, k) /\ Before(c, j, k)
  BY <1>1, <1>2 DEF InLine
<1> DEFINE p == 2 * (c[j].count * c[k].count)
           m == c[j].sum * c[k].count + c[k].sum * c[j].count
<1>4. ~(p * x <= m) /\ p * y <= m
  BY <1>1, <1>3, HalfWay
<1>5. p \in Nat /\ m \in Nat
  <2>1. \A a, b \in Nat : a * b \in Nat
    OBVIOUS
  <2>2. /\ c[j].count \in Nat /\ c[k].count \in Nat /\ c[j].sum \in Nat /\ c[k].sum \in Nat
    BY <1>1 DEF Centres, Centre
  <2>3. c[j].count * c[k].count \in Nat /\ c[j].sum * c[k].count \in Nat /\ c[k].sum * c[j].count \in Nat
    BY <2>1, <2>2
  <2> QED
    BY <2>3
<1> HIDE DEF p, m
<1>6. \A a, b, d \in Nat : a * (b + d) = a * b + a * d /\ a * d \in Nat /\ a * b \in Nat
  OBVIOUS
<1>7. y - x \in Nat /\ x + (y - x) = y
  BY <1>2
<1>8. p * y = p * x + p * (y - x) /\ p * (y - x) \in Nat /\ p * x \in Nat
  BY <1>5, <1>6, <1>7
<1> QED
  BY <1>4, <1>5, <1>8

\* What one mark divides is in order.
LEMMA Divided ==
    ASSUME NEW p \in Nat \ {0}, NEW m \in Nat, NEW a \in Nat, NEW b \in Nat,
           NEW u \in Nat \ {0}, NEW v \in Nat \ {0}, p * a <= m * u, m * v < p * b
    PROVE  a * v < b * u
<1>1. \A x, y \in Nat : x * y \in Int
  OBVIOUS
<1>2. /\ p * a \in Int /\ m * u \in Int /\ m * v \in Int /\ p * b \in Int
      /\ a * v \in Int /\ b * u \in Int
  BY <1>1
<1>3. (p * a) * v <= (m * u) * v /\ (m * v) * u < (p * b) * u
  BY <1>2, TimesOrder
<1>4. \A x, y, z \in Nat : /\ (x * y) * z = (y * z) * x /\ (x * y) * z = (x * z) * y
                           /\ (x * y) * z \in Int
  OBVIOUS
<1>5. /\ (p * a) * v = (a * v) * p /\ (p * b) * u = (b * u) * p /\ (m * u) * v = (m * v) * u
      /\ (p * a) * v \in Int /\ (p * b) * u \in Int /\ (m * v) * u \in Int
  BY <1>4
<1>6. (a * v) * p < (b * u) * p
  <2>1. \A x, y, z \in Int : x <= y /\ y < z => x < z
    OBVIOUS
  <2>2. (p * a) * v <= (m * v) * u
    BY <1>3, <1>5
  <2>3. (p * a) * v < (p * b) * u
    BY <1>3, <1>5, <2>1, <2>2
  <2> QED
    BY <1>5, <2>3
<1> QED
  BY <1>2, <1>6, TimesOrder

\* Both centres lie on their sides of the middle.
LEMMA Middle ==
    ASSUME NEW s \in Nat, NEW t \in Nat, NEW u \in Nat \ {0}, NEW v \in Nat \ {0}, s * v < t * u
    PROVE  /\ 2 * (u * v) \in Nat \ {0} /\ s * v + t * u \in Nat
           /\ 2 * (u * v) * s <= (s * v + t * u) * u
           /\ (s * v + t * u) * v < 2 * (u * v) * t
<1> DEFINE a == s * v
           b == t * u
<1>1. \A x, y \in Nat : x * y \in Nat
  OBVIOUS
<1>2. a \in Nat /\ b \in Nat /\ u * v \in Nat /\ a < b
  BY <1>1
<1>3. u * v > 0
  <2>1. 0 * v < u * v
    <3>1. 0 \in Int /\ u \in Int /\ 0 < u
      OBVIOUS
    <3> QED
      BY <3>1, TimesOrder
  <2>2. 0 * v = 0
    OBVIOUS
  <2> QED
    BY <2>1, <2>2
<1>4. \A x, y, z \in Nat : 2 * (x * y) * z = (2 * (z * y)) * x /\ 2 * (x * y) * z = (2 * (z * x)) * y
  OBVIOUS
<1>5. 2 * (u * v) * s = (2 * a) * u /\ 2 * (u * v) * t = (2 * b) * v
  BY <1>4
<1> HIDE DEF a, b
<1>6. 2 * a <= a + b /\ a + b < 2 * b /\ 2 * a \in Int /\ 2 * b \in Int /\ a + b \in Int
  BY <1>2
<1>7. (2 * a) * u <= (a + b) * u /\ (a + b) * v < (2 * b) * v
  BY <1>6, TimesOrder
<1>8. 2 * (u * v) \in Nat \ {0} /\ a + b \in Nat
  BY <1>2, <1>3
<1> QED
  BY <1>5, <1>7, <1>8 DEF a, b

\* The new centres keep the order of the old.
LEMMA OrderKept ==
    ASSUME NEW n \in Nat, NEW sizes \in [1 .. n -> Nat], NEW c \in Centres, InLine(c)
    PROVE  InLine(Recentred(sizes, Nearby(sizes, c), c))
<1> DEFINE cluster == Nearby(sizes, c)
           new == Recentred(sizes, cluster, c)
<1>1. /\ cluster \in [1 .. n -> States]
      /\ \A i \in 1 .. n : cluster[i] = Nearest(sizes[i], c)
  BY NearestIs DEF Nearby
<1> HIDE DEF cluster
<1>2. /\ new \in Centres
      /\ \A k \in States :
            new[k] = IF Members(cluster, k) = {} THEN c[k] ELSE Mean(sizes, Members(cluster, k))
  BY <1>1, RecentredIs
<1> HIDE DEF new
<1>3. SUFFICES ASSUME NEW j \in States, NEW k \in States, j < k PROVE Before(new, j, k)
  BY DEF InLine, new, cluster
<1> DEFINE p == 2 * (c[j].count * c[k].count)
           m == c[j].sum * c[k].count + c[k].sum * c[j].count
<1>4. Before(c, j, k)
  BY <1>3 DEF InLine
<1>5. /\ p \in Nat \ {0} /\ m \in Nat
      /\ p * c[j].sum <= m * c[j].count /\ m * c[k].count < p * c[k].sum
  <2>1. /\ c[j].sum \in Nat /\ c[k].sum \in Nat
        /\ c[j].count \in Nat \ {0} /\ c[k].count \in Nat \ {0}
        /\ c[j].sum * c[k].count < c[k].sum * c[j].count
    BY <1>4 DEF Centres, Centre, Before
  <2> QED
    BY <2>1, Middle
<1>6. \A i \in 1 .. n : /\ cluster[i] = j => p * sizes[i] <= m
                        /\ cluster[i] = k => m < p * sizes[i]
  <2>1. SUFFICES ASSUME NEW i \in 1 .. n
                 PROVE  /\ cluster[i] = j => p * sizes[i] <= m
                        /\ cluster[i] = k => m < p * sizes[i]
    OBVIOUS
  <2>2. sizes[i] \in Nat /\ cluster[i] = Nearest(sizes[i], c)
    BY <1>1
  <2>3. Closer(sizes[i], c, j, k) <=> p * sizes[i] <= m
    BY <1>4, <2>2, HalfWay
  <2>4. cluster[i] = j => Closer(sizes[i], c, j, k)
    BY <2>2, NearestIs
  <2>5. cluster[i] = k => ~Closer(sizes[i], c, j, k)
    BY <1>3, <2>2, NearestIs
  <2>6. p * sizes[i] \in Int
    <3>1. \A a, b \in Nat : a * b \in Int
      OBVIOUS
    <3> HIDE DEF p, m
    <3> QED
      BY <1>5, <2>2, <3>1
  <2> HIDE DEF p, m
  <2> QED
    BY <1>5, <2>3, <2>4, <2>5, <2>6
<1> HIDE DEF p, m
<1>7. ASSUME NEW s \in States, Members(cluster, s) # {}
      PROVE  /\ new[s].sum = Total([i \in Members(cluster, s) |-> sizes[i]])
             /\ new[s].count = Cardinality(Members(cluster, s))
             /\ IsFiniteSet(Members(cluster, s))
             /\ [i \in Members(cluster, s) |-> sizes[i]] \in [Members(cluster, s) -> Nat]
             /\ \A i \in Members(cluster, s) : i \in 1 .. n /\ cluster[i] = s
  <2>1. \A i \in Members(cluster, s) : i \in 1 .. n /\ cluster[i] = s
    BY <1>1 DEF Members
  <2>2. IsFiniteSet(1 .. n)
    <3>1. 1 \in Int /\ n \in Int
      OBVIOUS
    <3> QED
      BY <3>1, FS_Interval
  <2>3. IsFiniteSet(Members(cluster, s))
    BY <2>1, <2>2, FS_Subset
  <2>4. new[s] = Mean(sizes, Members(cluster, s))
    BY <1>2, <1>7
  <2>5. /\ new[s].sum = Total([i \in Members(cluster, s) |-> sizes[i]])
        /\ new[s].count = Cardinality(Members(cluster, s))
    BY <2>4 DEF Mean
  <2>6. [i \in Members(cluster, s) |-> sizes[i]] \in [Members(cluster, s) -> Nat]
    BY <2>1
  <2> QED
    BY <2>1, <2>3, <2>5, <2>6
<1>8. p * new[j].sum <= m * new[j].count
  <2>1. CASE Members(cluster, j) = {}
    BY <1>2, <1>5, <2>1
  <2>2. CASE Members(cluster, j) # {}
    <3> DEFINE own == Members(cluster, j)
               f == [i \in own |-> sizes[i]]
    <3>1. /\ new[j].sum = Total(f) /\ new[j].count = Cardinality(own)
          /\ IsFiniteSet(own) /\ f \in [own -> Nat]
          /\ \A i \in own : i \in 1 .. n /\ cluster[i] = j
      BY <1>7, <2>2
    <3>2. \A i \in own : p * f[i] <= m
      BY <1>6, <3>1
    <3>3. own # {} /\ p \in Nat /\ m \in Int
      BY <1>5, <2>2
    <3> HIDE DEF f, own
    <3>4. /\ (\A i \in own : p * f[i] <= m) => p * Total(f) <= m * Cardinality(own)
          /\ (\A i \in own : m < p * f[i]) => m * Cardinality(own) < p * Total(f)
      BY <3>1, <3>3, MeanBounds
    <3> QED
      BY <3>1, <3>2, <3>4
  <2> QED
    BY <2>1, <2>2
<1>9. m * new[k].count < p * new[k].sum
  <2>1. CASE Members(cluster, k) = {}
    BY <1>2, <1>5, <2>1
  <2>2. CASE Members(cluster, k) # {}
    <3> DEFINE own == Members(cluster, k)
               f == [i \in own |-> sizes[i]]
    <3>1. /\ new[k].sum = Total(f) /\ new[k].count = Cardinality(own)
          /\ IsFiniteSet(own) /\ f \in [own -> Nat]
          /\ \A i \in own : i \in 1 .. n /\ cluster[i] = k
      BY <1>7, <2>2
    <3>2. \A i \in own : m < p * f[i]
      BY <1>6, <3>1
    <3>3. own # {} /\ p \in Nat /\ m \in Int
      BY <1>5, <2>2
    <3> HIDE DEF f, own
    <3>4. /\ (\A i \in own : p * f[i] <= m) => p * Total(f) <= m * Cardinality(own)
          /\ (\A i \in own : m < p * f[i]) => m * Cardinality(own) < p * Total(f)
      BY <3>1, <3>3, MeanBounds
    <3> QED
      BY <3>1, <3>2, <3>4
  <2> QED
    BY <2>1, <2>2
<1>10. /\ new[j].sum \in Nat /\ new[k].sum \in Nat
       /\ new[j].count \in Nat \ {0} /\ new[k].count \in Nat \ {0}
  BY <1>2 DEF Centres, Centre
<1>11. p \in Nat \ {0} /\ m \in Nat
  BY <1>5
<1>12. new[j].sum * new[k].count < new[k].sum * new[j].count
  <2>1. \A a, b \in Nat : \A u, v \in Nat \ {0} :
           p * a <= m * u /\ m * v < p * b => a * v < b * u
    BY <1>11, Divided
  <2> DEFINE a == new[j].sum
             b == new[k].sum
             u == new[j].count
             v == new[k].count
  <2>2. /\ a \in Nat /\ b \in Nat /\ u \in Nat \ {0} /\ v \in Nat \ {0}
        /\ p * a <= m * u /\ m * v < p * b
    BY <1>8, <1>9, <1>10
  <2> HIDE DEF a, b, u, v
  <2>3. a * v < b * u
    BY <2>1, <2>2
  <2> QED
    BY <2>3 DEF a, b, u, v
<1> QED
  BY <1>12 DEF Before

Under(sizes, x) == {i \in DOMAIN sizes : sizes[i] < x}
NotOver(sizes, x) == {i \in DOMAIN sizes : sizes[i] <= x}

LEMMA SizesCount ==
    ASSUME NEW n \in Nat, NEW sizes \in [1 .. n -> Nat], NEW A \in SUBSET (1 .. n), NEW B \in SUBSET A
    PROVE  /\ IsFiniteSet(A) /\ Cardinality(A) \in Nat /\ Cardinality(B) \in Nat
           /\ Cardinality(B) <= Cardinality(A) /\ Cardinality(1 .. n) = n
<1>1. IsFiniteSet(1 .. n) /\ Cardinality(1 .. n) = n
  <2>1. 1 \in Int /\ n \in Int
    OBVIOUS
  <2>2. IsFiniteSet(1 .. n) /\ Cardinality(1 .. n) = IF 1 > n THEN 0 ELSE n - 1 + 1
    BY <2>1, FS_Interval
  <2> QED
    BY <2>2
<1>2. IsFiniteSet(A)
  BY <1>1, FS_Subset
<1>3. IsFiniteSet(B) /\ Cardinality(B) <= Cardinality(A)
  BY <1>2, FS_Subset
<1> QED
  BY <1>1, <1>2, <1>3, FS_CardinalityType

\* Of some days one moved furthest.
LEMMA FurthestDay ==
    ASSUME NEW n \in Nat, NEW sizes \in [1 .. n -> Nat], NEW A \in SUBSET (1 .. n), A # {}
    PROVE  \E i \in A : \A j \in A : sizes[j] <= sizes[i]
<1> DEFINE f == [i \in A |-> -sizes[i]]
<1>1. IsFiniteSet(A)
  BY SizesCount
<1>2. f \in [A -> Int] /\ \A i \in A : f[i] = -sizes[i] /\ sizes[i] \in Nat
  OBVIOUS
<1> HIDE DEF f
<1>3. PICK i \in A : \A j \in A : f[i] <= f[j]
  BY <1>1, <1>2, LeastValue
<1>4. ASSUME NEW j \in A PROVE sizes[j] <= sizes[i]
  <2>1. -sizes[i] <= -sizes[j] /\ sizes[i] \in Nat /\ sizes[j] \in Nat
    BY <1>2, <1>3
  <2> QED
    BY <2>1
<1> QED
  BY <1>4

\* The size at a place when they are sorted.
LEMMA SortedIs ==
    ASSUME NEW n \in Nat \ {0}, NEW sizes \in [1 .. n -> Nat], NEW place \in 0 .. n - 1
    PROVE  /\ Sorted(sizes, place) \in Nat
           /\ Cardinality(Under(sizes, Sorted(sizes, place))) <= place
           /\ place < Cardinality(NotOver(sizes, Sorted(sizes, place)))
<1> DEFINE values == {sizes[i] : i \in 1 .. n}
           Enough == {x \in values : place < Cardinality(NotOver(sizes, x))}
<1>1. /\ values \in SUBSET Nat /\ n \in Nat
      /\ \A x : /\ Under(sizes, x) \in SUBSET (1 .. n) /\ NotOver(sizes, x) \in SUBSET (1 .. n)
                /\ \A i \in 1 .. n : /\ i \in Under(sizes, x) <=> sizes[i] < x
                                     /\ i \in NotOver(sizes, x) <=> sizes[i] <= x
  BY DEF Under, NotOver
<1>2. \A i \in 1 .. n : sizes[i] \in values /\ sizes[i] \in Nat
  OBVIOUS
<1>3. \A x : x \in values => \E i \in 1 .. n : x = sizes[i]
  OBVIOUS
<1>0. \A A \in SUBSET (1 .. n) : A # {} => \E i \in A : \A j \in A : sizes[j] <= sizes[i]
  <2>1. n \in Nat
    OBVIOUS
  <2> HIDE DEF values, Enough
  <2> QED
    BY <2>1, FurthestDay
<1>4. Enough # {}
  <2>1. 1 .. n # {} /\ 1 .. n \in SUBSET (1 .. n)
    OBVIOUS
  <2>2. PICK i \in 1 .. n : \A j \in 1 .. n : sizes[j] <= sizes[i]
    BY <1>0, <2>1
  <2>3. NotOver(sizes, sizes[i]) = 1 .. n
    BY <1>1, <2>2
  <2>4. Cardinality(1 .. n) = n
    BY <1>1, <2>1, SizesCount
  <2>5. place < Cardinality(NotOver(sizes, sizes[i]))
    <3>1. place < n
      BY <1>1
    <3> QED
      BY <2>3, <2>4, <3>1
  <2>6. sizes[i] \in Enough
    BY <1>2, <2>5
  <2> QED
    BY <2>6
<1>5. Enough \in SUBSET Nat
  BY <1>1
<1>6. PICK x \in Enough : \A y \in Enough : x <= y
  <2> HIDE DEF Enough
  <2> QED
    BY <1>4, <1>5, LeastNumber
<1>7. x \in values /\ x \in Nat /\ place < Cardinality(NotOver(sizes, x))
  BY <1>1, <1>6
<1>8. Cardinality(Under(sizes, x)) <= place
  <2> DEFINE A == Under(sizes, x)
  <2>1. A \in SUBSET (1 .. n) /\ Cardinality(A) \in Nat
    BY <1>1, SizesCount
  <2>2. SUFFICES ASSUME Cardinality(A) > place PROVE FALSE
    BY <2>1
  <2>3. A # {}
    <3>1. A = {} => Cardinality(A) = 0
      BY FS_EmptySet
    <3>2. place \in Nat
      OBVIOUS
    <3> HIDE DEF A
    <3> QED
      BY <2>2, <3>1, <3>2
  <2>4. PICK i \in A : \A j \in A : sizes[j] <= sizes[i]
    <3> HIDE DEF A
    <3> QED
      BY <1>0, <2>1, <2>3
  <2>5. i \in 1 .. n /\ sizes[i] < x
    BY <1>1, <2>1
  <2>6. A \in SUBSET NotOver(sizes, sizes[i])
    BY <1>1, <2>1, <2>4
  <2>7. Cardinality(A) <= Cardinality(NotOver(sizes, sizes[i])) /\ Cardinality(NotOver(sizes, sizes[i])) \in Nat
    BY <1>1, <2>6, SizesCount
  <2>8. sizes[i] \in values /\ sizes[i] \in Nat
    BY <1>2, <2>5
  <2>9. place < Cardinality(NotOver(sizes, sizes[i]))
    BY <2>1, <2>2, <2>7
  <2>10. sizes[i] \in Enough
    BY <2>8, <2>9
  <2>11. x <= sizes[i]
    BY <1>6, <2>10
  <2> QED
    BY <1>7, <2>5, <2>8, <2>11
<1> DEFINE At(y) == Cardinality(Under(sizes, y)) <= place /\ place < Cardinality(NotOver(sizes, y))
<1>9. Sorted(sizes, place) = CHOOSE y \in values : At(y)
  BY DEF Sorted, Under, NotOver
<1>10. \E y \in values : At(y)
  BY <1>7, <1>8
<1> HIDE DEF values, Enough, At
<1>11. Sorted(sizes, place) \in values /\ At(Sorted(sizes, place))
  BY <1>9, <1>10
<1> QED
  BY <1>1, <1>11 DEF At

LEMMA SortedClimbs ==
    ASSUME NEW n \in Nat \ {0}, NEW sizes \in [1 .. n -> Nat],
           NEW p \in 0 .. n - 1, NEW q \in 0 .. n - 1, p <= q
    PROVE  Sorted(sizes, p) <= Sorted(sizes, q)
<1> DEFINE x == Sorted(sizes, p)
           y == Sorted(sizes, q)
<1>1. x \in Nat /\ Cardinality(Under(sizes, x)) <= p
  BY SortedIs
<1>2. y \in Nat /\ q < Cardinality(NotOver(sizes, y))
  BY SortedIs
<1> HIDE DEF x, y
<1>3. SUFFICES ASSUME y < x PROVE FALSE
  BY <1>1, <1>2 DEF x, y
<1>4. NotOver(sizes, y) \in SUBSET Under(sizes, x) /\ Under(sizes, x) \in SUBSET (1 .. n)
  <2>1. \A i \in 1 .. n : sizes[i] <= y => sizes[i] < x
    <3>1. \A i \in 1 .. n : sizes[i] \in Nat
      OBVIOUS
    <3> QED
      BY <1>1, <1>2, <1>3, <3>1
  <2> QED
    BY <2>1 DEF NotOver, Under
<1>5. /\ Cardinality(NotOver(sizes, y)) <= Cardinality(Under(sizes, x))
      /\ Cardinality(NotOver(sizes, y)) \in Nat /\ Cardinality(Under(sizes, x)) \in Nat
  BY <1>4, SizesCount
<1> QED
  BY <1>1, <1>2, <1>5

\* The three sizes the clusters start from, and whether they are apart.
FirstCentres(sizes, n) ==
    LET at(place) == [sum |-> Sorted(sizes, place), count |-> 1]
    IN  <<at(n \div 6), at(n \div 2), at((5 * n) \div 6)>>

Apart(sizes, n) ==
    Cardinality({Sorted(sizes, place) : place \in {n \div 6, n \div 2, (5 * n) \div 6}}) = 3

LEMMA FirstCentresAre ==
    ASSUME NEW n \in Nat \ {0}, NEW sizes \in [1 .. n -> Nat]
    PROVE  /\ FirstCentres(sizes, n) \in Centres
           /\ Apart(sizes, n) => InLine(FirstCentres(sizes, n))
<1> DEFINE p == n \div 6
           q == n \div 2
           r == (5 * n) \div 6
           a == Sorted(sizes, p)
           b == Sorted(sizes, q)
           d == Sorted(sizes, r)
           c == FirstCentres(sizes, n)
<1>1. /\ p \in 0 .. n - 1 /\ q \in 0 .. n - 1 /\ r \in 0 .. n - 1 /\ p <= q /\ q <= r
  OBVIOUS
<1>2. {Sorted(sizes, place) : place \in {p, q, r}} = {a, b, d}
  <2> HIDE DEF p, q, r
  <2> QED
    OBVIOUS
<1>3. Apart(sizes, n) => Cardinality({a, b, d}) = 3
  BY <1>2 DEF Apart
<1>4. c = <<[sum |-> a, count |-> 1], [sum |-> b, count |-> 1], [sum |-> d, count |-> 1]>>
  BY DEF FirstCentres
<1> HIDE DEF p, q, r
<1>5. a \in Nat /\ b \in Nat /\ d \in Nat
  BY <1>1, SortedIs
<1>6. a <= b /\ b <= d
  BY <1>1, SortedClimbs
<1> HIDE DEF a, b, d, c
<1>7. Apart(sizes, n) => a < b /\ b < d
  <2> SUFFICES ASSUME Apart(sizes, n) PROVE a # b /\ b # d
    BY <1>5, <1>6
  <2> DEFINE v == [k \in States |-> IF k = 1 THEN a ELSE IF k = 2 THEN b ELSE d]
  <2>1. v[1] = a /\ v[2] = b /\ v[3] = d
    BY StatesAre
  <2> HIDE DEF v
  <2>2. {v[k] : k \in States} = {a, b, d}
    BY <2>1, StatesAre
  <2>3. \A j, k \in States : v[j] = v[k] => j = k
    BY <1>3, <2>2, ThreeValues
  <2> QED
    BY <2>1, <2>3, StatesAre
<1>8. c \in Centres
  BY <1>4, <1>5, StatesAre DEF Centres, Centre
<1>9. /\ c[1].sum = a /\ c[2].sum = b /\ c[3].sum = d
      /\ c[1].count = 1 /\ c[2].count = 1 /\ c[3].count = 1
  BY <1>4
<1>10. ASSUME Apart(sizes, n), NEW j \in States, NEW k \in States, j < k PROVE Before(c, j, k)
  <2>1. (j = 1 /\ k = 2) \/ (j = 1 /\ k = 3) \/ (j = 2 /\ k = 3)
    BY <1>10, StatesAre
  <2>2. a * 1 = a /\ b * 1 = b /\ d * 1 = d /\ a < b /\ b < d /\ a < d
    BY <1>5, <1>7, <1>10
  <2>3. c[j].count = 1 /\ c[k].count = 1
    BY <1>9, <2>1
  <2>4. c[j].sum * 1 < c[k].sum * 1
    BY <1>9, <2>1, <2>2
  <2> QED
    BY <2>3, <2>4 DEF Before
<1> QED
  BY <1>8, <1>10 DEF InLine, c

\* A round of kmeans_init, and what it starts from.
KmeansStart(sizes, n) ==
    [centres |-> FirstCentres(sizes, n), cluster |-> [i \in 1 .. n |-> 1], changed |-> TRUE]

KmeansBody(sizes, n, last) ==
    LET cluster == [i \in 1 .. n |-> Nearest(sizes[i], last.centres)]
    IN  IF ~last.changed THEN last
        ELSE [centres |-> Recentred(sizes, cluster, last.centres),
              cluster |-> cluster,
              changed |-> cluster # last.cluster]

KmeansRoundsAre(sizes, n, round) ==
    round = [r \in 0 .. KmeansRounds |-> IF r = 0 THEN KmeansStart(sizes, n)
                                         ELSE KmeansBody(sizes, n, round[r - 1])]

LEMMA KmeansIsRounds ==
    ASSUME NEW observed
    PROVE  KmeansInit(observed)
             = (CHOOSE round : KmeansRoundsAre([i \in 1 .. Len(observed) |-> Size(observed[i])],
                                               Len(observed), round))[KmeansRounds]
  BY DEF KmeansInit, KmeansRoundsAre, KmeansStart, KmeansBody, FirstCentres

\* No day is nearer to the mean of another cluster.
NearOwn(sizes, n, cluster) ==
    \A i \in 1 .. n : \A k \in States :
       LET own == Mean(sizes, Members(cluster, cluster[i]))
           other == Mean(sizes, Members(cluster, k))
       IN  Members(cluster, k) # {} =>
              Distance(sizes[i], own) * other.count <= Distance(sizes[i], other) * own.count

Climbs(sizes, n, cluster) ==
    \A i, j \in 1 .. n : sizes[i] < sizes[j] => cluster[i] <= cluster[j]

\* The centres are the means of the clusters they were taken from.
FromMeans(sizes, w) ==
    \A k \in States : Members(w.cluster, k) # {} => w.centres[k] = Mean(sizes, Members(w.cluster, k))

\* What kmeans_init holds after any number of rounds.
Clustering(sizes, n) ==
    {w \in [centres : Centres, cluster : [1 .. n -> States], changed : BOOLEAN] :
        /\ (\A i \in 1 .. n : w.cluster[i] = 1) \/ FromMeans(sizes, w)
        /\ ~w.changed => NearOwn(sizes, n, w.cluster)
        /\ Apart(sizes, n) => InLine(w.centres) /\ Climbs(sizes, n, w.cluster)}

\* Days that are at their nearest centres are so when these are the means.
LEMMA NearOwnIs ==
    ASSUME NEW n \in Nat, NEW sizes \in [1 .. n -> Nat], NEW c \in Centres,
           NEW cluster \in [1 .. n -> States],
           \A i \in 1 .. n : cluster[i] = Nearest(sizes[i], c),
           \/ \A i \in 1 .. n : cluster[i] = 1
           \/ \A k \in States : Members(cluster, k) # {} => c[k] = Mean(sizes, Members(cluster, k))
    PROVE  NearOwn(sizes, n, cluster)
<1> SUFFICES ASSUME NEW i \in 1 .. n, NEW k \in States, Members(cluster, k) # {}
             PROVE  Distance(sizes[i], Mean(sizes, Members(cluster, cluster[i])))
                         * Mean(sizes, Members(cluster, k)).count
                      <= Distance(sizes[i], Mean(sizes, Members(cluster, k)))
                         * Mean(sizes, Members(cluster, cluster[i])).count
  BY DEF NearOwn
<1>1. sizes[i] \in Nat /\ cluster[i] \in States /\ cluster[i] = Nearest(sizes[i], c)
  OBVIOUS
<1>2. Members(cluster, cluster[i]) # {}
  BY DEF Members
<1>3. CASE \A s \in States : Members(cluster, s) # {} => c[s] = Mean(sizes, Members(cluster, s))
  <2>1. c[k] = Mean(sizes, Members(cluster, k)) /\ c[cluster[i]] = Mean(sizes, Members(cluster, cluster[i]))
    BY <1>1, <1>2, <1>3
  <2>2. Closer(sizes[i], c, cluster[i], k)
    BY <1>1, NearestIs
  <2> QED
    BY <2>1, <2>2 DEF Closer
<1>4. CASE \A t \in 1 .. n : cluster[t] = 1
  <2>1. k = cluster[i]
    BY <1>4 DEF Members
  <2> DEFINE own == Members(cluster, k)
  <2>2. own \in SUBSET (1 .. n) /\ own # {}
    BY DEF Members
  <2>3. IsFiniteSet(1 .. n)
    BY SizesCount
  <2>4. Mean(sizes, own) \in Centre
    BY <2>2, <2>3, MeanIs
  <2>5. Distance(sizes[i], Mean(sizes, own)) \in Nat /\ Mean(sizes, own).count \in Nat
    BY <1>1, <2>4, DistanceIs DEF Centre
  <2>6. \A x, y \in Nat : x * y <= x * y
    OBVIOUS
  <2> QED
    BY <2>1, <2>5, <2>6
<1> QED
  BY <1>3, <1>4

LEMMA KmeansStartIn ==
    ASSUME NEW n \in Nat \ {0}, NEW sizes \in [1 .. n -> Nat]
    PROVE  KmeansStart(sizes, n) \in Clustering(sizes, n)
<1> DEFINE w == KmeansStart(sizes, n)
<1>1. /\ w.centres = FirstCentres(sizes, n) /\ w.cluster = [i \in 1 .. n |-> 1] /\ w.changed = TRUE
      /\ w = [centres |-> w.centres, cluster |-> w.cluster, changed |-> w.changed]
  BY DEF KmeansStart
<1>2. w.cluster \in [1 .. n -> States] /\ \A i \in 1 .. n : w.cluster[i] = 1
  BY <1>1, StatesAre
<1>3. w.centres \in Centres /\ (Apart(sizes, n) => InLine(w.centres))
  BY <1>1, FirstCentresAre
<1> HIDE DEF w
<1>4. Climbs(sizes, n, w.cluster)
  BY <1>2 DEF Climbs
<1>5. w \in [centres : Centres, cluster : [1 .. n -> States], changed : BOOLEAN]
  BY <1>1, <1>2, <1>3
<1>6. w \in Clustering(sizes, n)
  BY <1>1, <1>2, <1>3, <1>4, <1>5 DEF Clustering
<1> QED
  BY <1>6 DEF w

LEMMA KmeansBodyIn ==
    ASSUME NEW n \in Nat \ {0}, NEW sizes \in [1 .. n -> Nat], NEW last \in Clustering(sizes, n)
    PROVE  KmeansBody(sizes, n, last) \in Clustering(sizes, n)
<1> DEFINE c == last.centres
           cluster == [i \in 1 .. n |-> Nearest(sizes[i], c)]
           next == [centres |-> Recentred(sizes, cluster, c), cluster |-> cluster,
                    changed |-> cluster # last.cluster]
<1>1. /\ c \in Centres /\ last.cluster \in [1 .. n -> States]
      /\ (\A i \in 1 .. n : last.cluster[i] = 1) \/ FromMeans(sizes, last)
      /\ Apart(sizes, n) => InLine(c)
  BY DEF Clustering
<1>2. KmeansBody(sizes, n, last) = IF ~last.changed THEN last ELSE next
  BY DEF KmeansBody
<1>3. /\ next.centres = Recentred(sizes, cluster, c) /\ next.cluster = cluster
      /\ next.changed = (cluster # last.cluster)
      /\ next = [centres |-> next.centres, cluster |-> next.cluster, changed |-> next.changed]
  OBVIOUS
<1>4. /\ cluster \in [1 .. n -> States] /\ n \in Nat
      /\ \A i \in 1 .. n : cluster[i] = Nearest(sizes[i], c) /\ sizes[i] \in Nat
      /\ cluster = Nearby(sizes, c)
  <2>1. \A i \in 1 .. n : Nearest(sizes[i], c) \in States
    BY <1>1, NearestIs
  <2> QED
    BY <2>1 DEF Nearby
<1> HIDE DEF next, cluster, c
<1>5. /\ next.centres \in Centres
      /\ \A k \in States : Members(cluster, k) # {} =>
            next.centres[k] = Mean(sizes, Members(cluster, k))
  BY <1>1, <1>3, <1>4, RecentredIs
<1>6. FromMeans(sizes, next)
  BY <1>3, <1>5 DEF FromMeans
<1>7. ~next.changed => NearOwn(sizes, n, next.cluster)
  <2> SUFFICES ASSUME ~next.changed PROVE NearOwn(sizes, n, cluster)
    BY <1>3
  <2>1. last.cluster = cluster
    BY <1>3
  <2>2. \/ \A i \in 1 .. n : cluster[i] = 1
        \/ \A k \in States : Members(cluster, k) # {} => c[k] = Mean(sizes, Members(cluster, k))
    BY <1>1, <2>1 DEF FromMeans, c
  <2> QED
    BY <1>1, <1>4, <2>2, NearOwnIs
<1>8. Apart(sizes, n) => InLine(next.centres) /\ Climbs(sizes, n, next.cluster)
  <2> SUFFICES ASSUME Apart(sizes, n) PROVE InLine(next.centres) /\ Climbs(sizes, n, cluster)
    BY <1>3
  <2>1. InLine(c)
    BY <1>1
  <2>2. InLine(next.centres)
    BY <1>1, <1>3, <1>4, <2>1, OrderKept
  <2>3. ASSUME NEW i \in 1 .. n, NEW j \in 1 .. n, sizes[i] < sizes[j]
        PROVE  cluster[i] <= cluster[j]
    BY <1>1, <1>4, <2>1, <2>3, NearbyClimbs
  <2> QED
    BY <2>2, <2>3 DEF Climbs
<1>9. next.changed \in BOOLEAN
  BY <1>3
<1>10. next \in [centres : Centres, cluster : [1 .. n -> States], changed : BOOLEAN]
  BY <1>3, <1>4, <1>5, <1>9
<1>11. next \in Clustering(sizes, n)
  BY <1>6, <1>7, <1>8, <1>10 DEF Clustering
<1> QED
  BY <1>2, <1>11

LEMMA KmeansIn ==
    ASSUME NEW observed, NEW n \in Nat \ {0}, Len(observed) = n,
           NEW sizes \in [1 .. n -> Nat], sizes = [i \in 1 .. n |-> Size(observed[i])]
    PROVE  KmeansInit(observed) \in Clustering(sizes, n)
<1> DEFINE h == KmeansRounds
           V == Clustering(sizes, n)
           start == KmeansStart(sizes, n)
           step == [p \in (1 .. h) \X V |-> KmeansBody(sizes, n, p[2])]
           chosen == CHOOSE round : KmeansRoundsAre(sizes, n, round)
<1>0. h \in Nat
  BY RoundsAssumption
<1>1. start \in V
  BY KmeansStartIn
<1>2. \A r \in V : KmeansBody(sizes, n, r) \in V
  BY KmeansBodyIn
<1>3. /\ step \in [(1 .. h) \X V -> V]
      /\ \A i \in 1 .. h : \A r \in V : step[<<i, r>>] = KmeansBody(sizes, n, r)
  <2> HIDE DEF V
  <2> QED
    BY <1>2
<1> HIDE DEF V, start, step, h
<1>4. PICK w \in [0 .. h -> V] : IsLoop(w, h, start, step)
  BY <1>0, <1>1, <1>3, LoopExists
<1>5. KmeansRoundsAre(sizes, n, w)
  <2> DEFINE body(k) == IF k = 0 THEN start ELSE KmeansBody(sizes, n, w[k - 1])
  <2>1. ASSUME NEW k \in 0 .. h PROVE w[k] = body(k)
    <3>1. CASE k = 0
      BY <1>4, <3>1 DEF IsLoop
    <3>2. CASE k # 0
      <4>1. k \in 1 .. h /\ k - 1 \in 0 .. h
        BY <1>0, <3>2
      <4>2. w[k] = step[<<k, w[k - 1]>>] /\ w[k - 1] \in V
        BY <1>4, <4>1 DEF IsLoop
      <4> QED
        BY <1>3, <3>2, <4>1, <4>2
    <3> QED
      BY <3>1, <3>2
  <2>2. w = [k \in 0 .. h |-> w[k]]
    BY <1>4
  <2>3. w = [k \in 0 .. h |-> body(k)]
    <3> HIDE DEF body
    <3> QED
      BY <2>1, <2>2
  <2> QED
    BY <2>3 DEF KmeansRoundsAre, start, h
<1>6. KmeansRoundsAre(sizes, n, chosen)
  BY <1>5
<1>7. KmeansInit(observed) = chosen[h]
  BY KmeansIsRounds DEF h
<1> HIDE DEF chosen
<1>8. chosen[0] = start /\ \A k \in 1 .. h : chosen[k] = KmeansBody(sizes, n, chosen[k - 1])
  BY <1>0, <1>6 DEF KmeansRoundsAre, start, h
<1>9. \A k \in 0 .. h : chosen[k] \in V
  <2>1. GoesRound(chosen, h, V, step)
    BY <1>3, <1>8 DEF GoesRound
  <2> QED
    BY <1>0, <1>1, <1>3, <1>8, <2>1, LoopHolds
<1>10. h \in 0 .. h
  BY <1>0
<1> QED
  BY <1>7, <1>9, <1>10 DEF V

\* kmeans_init ends because nothing changes any more, not for want of rounds.
RoundsSuffice == stage = "fitted" => ~KmeansInit(Observed).changed

LEMMA RunInvSettled == RunInv => (RoundsSuffice => ClustersSettled)
<1> SUFFICES ASSUME RunInv, stage = "fitted", ~KmeansInit(Observed).changed
             PROVE  ClustersSettled
  BY DEF RoundsSuffice, ClustersSettled
<1> DEFINE n == Len(Observed)
           start == KmeansInit(Observed)
           size == [i \in 1 .. n |-> IF Observed[i] < 0 THEN -Observed[i] ELSE Observed[i]]
           mean(k) == LET own == {i \in 1 .. n : start.cluster[i] = k}
                      IN  [sum   |-> Total([i \in own |-> size[i]]),
                           count |-> Cardinality(own)]
<1>1. n \in Nat \ {0} /\ \A i \in 1 .. n : Observed[i] \in Int
  <2>1. /\ Observation(World.hmm, Observed, Moves(World.raw["MARKET"]))
        /\ Moves(World.raw["MARKET"]) \subseteq Int
    BY FittedOn
  <2> QED
    BY <2>1 DEF Observation
<1>2. size \in [1 .. n -> Nat] /\ size = [i \in 1 .. n |-> Size(Observed[i])]
  <2>1. \A x \in Int : (IF x < 0 THEN -x ELSE x) \in Nat
    OBVIOUS
  <2>2. \A i \in 1 .. n : (IF Observed[i] < 0 THEN -Observed[i] ELSE Observed[i]) \in Nat
    BY <1>1, <2>1
  <2> HIDE DEF n
  <2> QED
    BY <2>2 DEF Size
<1> HIDE DEF size
<1>3. start \in Clustering(size, n)
  <2>1. Len(Observed) = n
    OBVIOUS
  <2> HIDE DEF n
  <2> QED
    BY <1>1, <1>2, <2>1, KmeansIn
<1>4. /\ start.cluster \in [1 .. n -> States] /\ NearOwn(size, n, start.cluster)
      /\ Apart(size, n) => Climbs(size, n, start.cluster)
  BY <1>3 DEF Clustering
<1>5. \A k : Members(start.cluster, k) = {i \in 1 .. n : start.cluster[i] = k}
  BY <1>4 DEF Members
<1>6. \A k : mean(k) = Mean(size, Members(start.cluster, k))
  BY <1>5 DEF Mean
<1>7. \A i \in 1 .. n : \A k \in States :
         mean(k).count > 0 =>
            Distance(size[i], mean(start.cluster[i])) * mean(k).count
               <= Distance(size[i], mean(k)) * mean(start.cluster[i]).count
  <2> SUFFICES ASSUME NEW i \in 1 .. n, NEW k \in States, mean(k).count > 0
               PROVE  Distance(size[i], mean(start.cluster[i])) * mean(k).count
                         <= Distance(size[i], mean(k)) * mean(start.cluster[i]).count
    OBVIOUS
  <2>1. Members(start.cluster, k) # {}
    <3>1. \A S : S = {} => Cardinality(S) = 0
      BY FS_EmptySet
    <3>2. mean(k).count = Cardinality(Members(start.cluster, k))
      BY <1>6 DEF Mean
    <3> DEFINE members == Members(start.cluster, k)
    <3>3. Cardinality(members) > 0
      BY <3>2
    <3> HIDE DEF members, mean
    <3>4. members # {}
      BY <3>1, <3>3
    <3> QED
      BY <3>4 DEF members
  <2> HIDE DEF mean
  <2> QED
    BY <1>4, <1>6, <2>1 DEF NearOwn
<1>8. Cardinality({Sorted(size, place) : place \in {n \div 6, n \div 2, (5 * n) \div 6}}) = 3 =>
         \A i, j \in 1 .. n : size[i] < size[j] => start.cluster[i] <= start.cluster[j]
  BY <1>4 DEF Apart, Climbs
<1> QED
  BY <1>7, <1>8 DEF ClustersSettled, size

(* If the rounds suffice, the clusters the fit starts from are settled: no *)
(* day is nearer to the mean of another cluster than to that of its own,   *)
(* and, when the three sizes they start from are apart, a calmer day is    *)
(* never in a wilder cluster.  The centres stay in line: the middle of two *)
(* parts what belongs to one from what belongs to the other, so the means  *)
(* lie on its two sides.  regime.rs: kmeans_init.                          *)
THEOREM ClustersSettledAlways == Spec => [](RoundsSuffice => ClustersSettled)
BY RunInvAlways, RunInvSettled, PTL
=============================================================================
