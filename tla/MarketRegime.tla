---------------------------- MODULE MarketRegime ----------------------------
(***************************************************************************)
(* compute/regime.rs after Baum-Welch: the states the fit converged to, in *)
(* whatever order it numbered them, are decoded (viterbi), put in the      *)
(* order of their variance (Bull, Bear, Crisis), and their forecasts are   *)
(* taken from powers of the transition matrix (build_regime_forecast).     *)
(*                                                                         *)
(* What Baum-Welch converges to is an input, a record `hmm` as in          *)
(* BaumWelch, with the order of its variances.  The logarithm of a weight  *)
(* is LogWeight.                                                           *)
(***************************************************************************)
EXTENDS BaumWelch

CONSTANTS LnFloor,       \* PROB_FLOOR.ln(): the score of what cannot happen
          LogWeight,     \* a weight -> its logarithm, LnFloor for 0
          ForecastDays   \* the horizons of the forecast, in the code 5, 10, 20

Crisis == 3

ASSUME RegimeAssumption ==
    /\ LnFloor \in Int
    /\ \A weight \in DOMAIN LogWeight : LogWeight[weight] \in Int
    /\ ForecastDays \subseteq Nat

(* Of the states with the highest value the first (a loop that replaces    *)
(* only what is smaller), and the last (Iterator::max_by).                 *)
Highest(value) == {k \in States : \A j \in States : value[j] <= value[k]}
FirstHighest(value) == Min(Highest(value))
LastHighest(value) == Max(Highest(value))

AtLeast(a, b) == IF a < b THEN b ELSE a

(* A mistake: the best state of each day by itself.                        *)
BacktrackGreedy(pass, days) == [t \in 1 .. days |-> LastHighest(pass[t].delta)]

(* viterbi, backwards: the best last state, then what each came from.      *)
Backtrack(pass, days) ==
    LET path[t \in 1 .. days] ==
          IF t = days THEN LastHighest(pass[t].delta)
          ELSE pass[t + 1].psi[path[t + 1]]
    IN  [t \in 1 .. days |-> path[t]]

(* viterbi, forwards: delta and psi after observation t.                   *)
Viterbi(hmm, observed) ==
    LET pass[t \in 1 .. Len(observed)] ==
          IF t = 1
          THEN [delta |-> ByState([k \in States |->
                   LogWeight[hmm.initial[k]] + LogWeight[hmm.density[k][observed[1]]]]),
                psi |-> ByState([k \in States |-> 1])]
          ELSE LET before == pass[t - 1].delta
                   reach == ByState([k \in States |-> ByState([j \in States |->
                               before[j] + LogWeight[hmm.transition[j][k]]])])
                   psi   == ByState([k \in States |-> FirstHighest(reach[k])])
               IN  [delta |-> ByState([k \in States |->
                        AtLeast(reach[k][psi[k]], LnFloor)
                           + LogWeight[hmm.density[k][observed[t]]]]),
                    psi |-> psi]
    IN  Backtrack(pass, Len(observed))

(* order[new] = old: a stable sort by variance.                            *)
VarianceOrder(hmm) ==
    LET before(k) == {j \in States :
                         \/ hmm.variance[j] < hmm.variance[k]
                         \/ hmm.variance[j] = hmm.variance[k] /\ j < k}
    IN  ByState([new \in States |->
            CHOOSE k \in States : Cardinality(before(k)) = new - 1])

(* old_to_new; a mistake would be to use new_to_old in its place.          *)
RankAsOrder(order) == order
Rank(order) ==
    ByState([old \in States |-> CHOOSE new \in States : order[new] = old])

MatMul(a, b) == ByState([i \in States |-> VecMatMul(a[i], b)])
Identity ==
    ByState([i \in States |-> ByState([j \in States |-> IF i = j THEN 1 ELSE 0])])

(* A mistake: squaring without the odd factors.                            *)
MatrixPowerEven(a, h) ==
    LET power[n \in 0 .. h] ==
          IF n <= 1 THEN a ELSE MatMul(power[n \div 2], power[n \div 2])
    IN  power[h]

(* matrix_power: repeated squaring; what the loop holds after k rounds.    *)
MatrixPower(a, h) ==
    LET round[k \in 0 .. h] ==
          IF k = 0 THEN [result |-> Identity, base |-> a, exp |-> h]
          ELSE LET r == round[k - 1]
               IN  IF r.exp = 0 THEN r
                   ELSE [result |-> IF r.exp % 2 = 1
                                    THEN MatMul(r.result, r.base)
                                    ELSE r.result,
                         base   |-> IF r.exp > 1
                                    THEN MatMul(r.base, r.base) ELSE r.base,
                         exp    |-> r.exp \div 2]
    IN  round[h].result

(* build_regime_forecast                                                   *)
RegimeForecast(smoothed, transition, current) ==
    [h \in ForecastDays |->
        LET ahead == VecMatMul(smoothed, MatrixPower(transition, h))
        IN  [probability |-> ahead,
             mostLikely  |-> LastHighest(ahead),
             change      |-> ahead[1] + ahead[2] + ahead[3] - ahead[current]]]

(* A fit in the order of the variances: the path in the new labels, the    *)
(* weights of the last day and the transition with the states moved.       *)
Relabelled(hmm, order, rank, path, gamma) ==
    [sequence   |-> [t \in DOMAIN path |-> rank[path[t]]],
     smoothed   |-> ByState([new \in States |-> gamma[order[new]]]),
     transition |-> ByState([j \in States |-> ByState([k \in States |->
                        hmm.transition[order[j]][order[k]]])])]

RegimeState(fit, current) ==
    [current    |-> current,
     sequence   |-> fit.sequence,
     observations |-> ByState([k \in States |->
             Cardinality({t \in DOMAIN fit.sequence : fit.sequence[t] = k})]),
     smoothed   |-> fit.smoothed,
     transition |-> fit.transition,
     forecast   |-> RegimeForecast(fit.smoothed, fit.transition, current)]

Classified(fit) == RegimeState(fit, LastHighest(fit.smoothed))

(* fit_hmm, from the converged fit to the RegimeState it returns.          *)
FitHmm(hmm, observed) ==
    LET order == VarianceOrder(hmm)
    IN  Classified(Relabelled(hmm, order, Rank(order), Viterbi(hmm, observed),
                              EStep(hmm, observed).gamma[Len(observed)]))
=============================================================================
