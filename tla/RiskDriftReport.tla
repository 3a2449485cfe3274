-------------------------- MODULE RiskDriftReport ---------------------------
(***************************************************************************)
(* compute/drift.rs, compute_risk_drift: a stored RiskDecomposition is     *)
(* compared with the decomposition of today.  A stored trace written by an *)
(* engine that did not record the betas and the correlation of the factors *)
(* yet carries none of them.                                               *)
(***************************************************************************)
EXTENDS FactorExperiments

CONSTANT ConcentrationStep   \* in percent of the risk, in the code 5

ASSUME DriftAssumption == ConcentrationStep \in Nat

(* delta_map: what one of the maps does not have counts as nothing.        *)
DeltaMap(before, after) ==
    LET at(map, k) == IF k \in DOMAIN map THEN map[k] ELSE 0
    IN  [k \in DOMAIN before \cup DOMAIN after |-> at(after, k) - at(before, k)]

(* The order of the maps: by the names of the factors, BRENT first.        *)
NameRank == <<3, 5, 1, 2, 4>>
PairRank == [p \in Pairs |-> 10 * NameRank[p[1]] + NameRank[p[2]]]

(* Of equal deltas max_by takes the last key, min_by the first.            *)
LastOf(keys, rank) == CHOOSE k \in keys : \A j \in keys : rank[j] <= rank[k]
FirstOf(keys, rank) == CHOOSE k \in keys : \A j \in keys : rank[j] >= rank[k]
LargestKey(delta) ==
    LastOf({k \in DOMAIN delta : \A j \in DOMAIN delta : delta[j] <= delta[k]},
           NameRank)
SmallestKey(delta) ==
    FirstOf({k \in DOMAIN delta : \A j \in DOMAIN delta : delta[j] >= delta[k]},
            NameRank)
LargestByAbs(delta) ==
    LastOf({p \in DOMAIN delta : \A q \in DOMAIN delta :
               Magnitude(delta[q]) <= Magnitude(delta[p])}, PairRank)

(* What a decomposition reports: the volatility and the contributions to   *)
(* it, in hundredths, the shares of it, in percent; all rounded down, all  *)
(* nothing where there is no variance.                                     *)
RootInHundredths(x) ==
    CHOOSE h \in 100 * Root(x) .. 100 * Root(x) + 99 :
        h * h <= 10000 * x /\ 10000 * x < (h + 1) * (h + 1)

Volatility(result) == RootInHundredths(AtLeast(result.variance, 0))

PartOfVolatility(result, part) ==
    IF result.variance <= 0 THEN 0 ELSE (10000 * part) \div Volatility(result)

(* A mistake: contributions to the variance, not to its root.              *)
ContributionsUndivided(result) == result.byFactor

Contributions(result) ==
    [k \in DOMAIN result.byFactor |-> PartOfVolatility(result, result.byFactor[k])]

Share(result, part) ==
    IF result.variance <= 0 THEN 0 ELSE (100 * part) \div result.variance
MaxShare(result) ==
    Max({Share(result, result.byFactor[k]) : k \in DOMAIN result.byFactor})

ComputeRiskDrift(id, baseline, result, regime) ==
    LET before == baseline.answer
        added  == DeltaMap(Contributions(before), Contributions(result))
        correlationAdded == DeltaMap(before.correlation, result.correlation)
    IN  IF \/ baseline.kind # "RiskDecomposition"
           \/ before.betas = <<>>
           \/ before.correlation = <<>>
        THEN Failed("error")
        ELSE [outcome |-> "ok",
              parent  |-> id,
              after   |-> result,
              volatilityAdded  |-> Volatility(result) - Volatility(before),
              byFactorAdded    |-> added,
              betasAdded       |-> DeltaMap(before.betas, result.betas),
              correlationAdded |-> correlationAdded,
              specificShareAdded |-> Share(result, result.specific)
                                        - Share(before, before.specific),
              growing   |-> LargestKey(added),
              shrinking |-> SmallestKey(added),
              moved     |-> LargestByAbs(correlationAdded),
              changed   |-> baseline.regime.regime.current # regime.current,
              worsened  |-> regime.current > baseline.regime.regime.current,
              increased |-> AtLeast(result.variance, 0) > AtLeast(before.variance, 0),
              concentrated |-> MaxShare(result) - MaxShare(before) > ConcentrationStep]
=============================================================================
