------------------------------ MODULE BaumWelch ------------------------------
(***************************************************************************)
(* compute/regime.rs, the pieces of the fit of the hidden Markov model:    *)
(* the clusters it starts from (kmeans_init), and one round of Baum-Welch  *)
(* (forward, backward, e_step, m_step).                                    *)
(*                                                                         *)
(* A record `hmm` has integer weights in place of probabilities: `initial` *)
(* and the rows of `transition` add up to one total, `density[k][o]` is    *)
(* that of an observation o in the state k.  The code divides the values   *)
(* of each day by their sum, so that they stay in range; without that, the *)
(* weights of every day add up to the same number, the weight of all the   *)
(* paths, and the divisions of e_step are by a common factor.  A quotient  *)
(* that is not is kept as its two terms.                                   *)
(***************************************************************************)
EXTENDS Integers, FiniteSets, Sequences, Totals, FiniteSetsExt

CONSTANT KmeansRounds   \* the rounds of kmeans_init, 100

ASSUME RoundsAssumption == KmeansRounds \in Nat \ {0}

States == 1 .. 3                                \* N_STATES = 3

(* A value for each state: a tuple, so that TLC computes each only once.   *)
ByState(f) == <<f[1], f[2], f[3]>>

(***************************************************************************)
(* kmeans_init                                                             *)
(***************************************************************************)

(* The days are told apart by how far the market moved, not by where to;   *)
(* the mistake is to take the direction as well.                           *)
SizeSigned(x) == x
Size(x) == IF x < 0 THEN -x ELSE x

(* sorted[place], counted from 0.                                          *)
Sorted(sizes, place) ==
    CHOOSE x \in {sizes[i] : i \in DOMAIN sizes} :
        /\ Cardinality({i \in DOMAIN sizes : sizes[i] < x}) <= place
        /\ place < Cardinality({i \in DOMAIN sizes : sizes[i] <= x})

(* A centre is a sum over a count; the nearest one, the first of equals.   *)
Distance(x, centre) ==
    LET apart == x * centre.count - centre.sum
    IN  IF apart < 0 THEN -apart ELSE apart
Nearest(x, centres) ==
    Min({k \in States : \A j \in States :
            Distance(x, centres[k]) * centres[j].count
               <= Distance(x, centres[j]) * centres[k].count})

(* The mean of a cluster; one without a member keeps the centre it has.    *)
Recentred(sizes, cluster, centres) ==
    ByState([k \in States |->
        LET members == {i \in DOMAIN cluster : cluster[i] = k}
        IN  IF members = {} THEN centres[k]
            ELSE [sum   |-> Total([i \in members |-> sizes[i]]),
                  count |-> Cardinality(members)]])

KmeansInit(observed) ==
    LET n == Len(observed)
        sizes == [i \in 1 .. n |-> Size(observed[i])]
        at(place) == [sum |-> Sorted(sizes, place), count |-> 1]
        round[r \in 0 .. KmeansRounds] ==
            IF r = 0
            THEN [centres |-> <<at(n \div 6), at(n \div 2), at((5 * n) \div 6)>>,
                  cluster |-> [i \in 1 .. n |-> 1], changed |-> TRUE]
            ELSE LET last == round[r - 1]
                     cluster == [i \in 1 .. n |-> Nearest(sizes[i], last.centres)]
                 IN  IF ~last.changed THEN last
                     ELSE [centres |-> Recentred(sizes, cluster, last.centres),
                           cluster |-> cluster,
                           changed |-> cluster # last.cluster]
    IN  round[KmeansRounds]

(***************************************************************************)
(* One round of Baum-Welch                                                 *)
(***************************************************************************)
VecMatMul(v, m) ==
    ByState([j \in States |-> v[1] * m[1][j] + v[2] * m[2][j] + v[3] * m[3][j]])

(* alpha[t][k]: all that leads to state k on day t.                        *)
Forward(hmm, observed) ==
    LET alpha[t \in DOMAIN observed] ==
          LET before == IF t = 1 THEN hmm.initial
                        ELSE VecMatMul(alpha[t - 1], hmm.transition)
          IN  ByState([k \in States |-> before[k] * hmm.density[k][observed[t]]])
    IN  [t \in DOMAIN observed |-> alpha[t]]

(* A mistake: the observation of the day itself, not of the one after it.  *)
BackwardSameDay(hmm, observed) ==
    LET beta[t \in DOMAIN observed] ==
          IF t = Len(observed) THEN <<1, 1, 1>>
          ELSE LET after == beta[t + 1]
               IN  ByState([k \in States |-> Total([j \in States |->
                      hmm.transition[k][j] * hmm.density[j][observed[t]] * after[j]])])
    IN  [t \in DOMAIN observed |-> beta[t]]

(* beta[t][k]: all that may follow upon state k on day t.                  *)
Backward(hmm, observed) ==
    LET beta[t \in DOMAIN observed] ==
          IF t = Len(observed) THEN <<1, 1, 1>>
          ELSE LET after == beta[t + 1]
               IN  ByState([k \in States |-> Total([j \in States |->
                      hmm.transition[k][j] * hmm.density[j][observed[t + 1]] * after[j]])])
    IN  [t \in DOMAIN observed |-> beta[t]]

(* gamma[t][k], the weight of being in k on day t, and xi[j][k], that of   *)
(* the moves from j to k over all days.                                    *)
EStep(hmm, observed) ==
    LET alpha == Forward(hmm, observed)
        beta  == Backward(hmm, observed)
    IN  [gamma |-> [t \in DOMAIN observed |->
                       ByState([k \in States |-> alpha[t][k] * beta[t][k]])],
         xi    |-> ByState([j \in States |-> ByState([k \in States |->
                       Total([t \in 1 .. Len(observed) - 1 |->
                          alpha[t][j] * hmm.transition[j][k]
                             * hmm.density[k][observed[t + 1]] * beta[t + 1][k]])])])]

(* The new transition is moves over left, the new means sums over days.    *)
MStep(observed, e) ==
    [initial |-> e.gamma[1],
     moves   |-> e.xi,
     left    |-> ByState([k \in States |->
                    Total([t \in 1 .. Len(observed) - 1 |-> e.gamma[t][k]])]),
     sums    |-> ByState([k \in States |->
                    Total([t \in DOMAIN observed |-> e.gamma[t][k] * observed[t]])]),
     days    |-> ByState([k \in States |->
                    Total([t \in DOMAIN observed |-> e.gamma[t][k]])])]
=============================================================================
