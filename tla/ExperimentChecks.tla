-------------------------- MODULE ExperimentChecks --------------------------
(***************************************************************************)
(* What is asked of ExperimentRun, each property against a definition of   *)
(* its own: dates, brute force over all paths or all weights, a sum taken  *)
(* the other way round, a second run of the same computation.              *)
(***************************************************************************)
EXTENDS ExperimentRun

(***************************************************************************)
(* Loading                                                                 *)
(***************************************************************************)

(* The close a date has: the latest one of the days the index traded on,   *)
(* unless it is more than MaxForwardFill of those days old.                *)
CloseAt(calendar, series, i) ==
    LET seen == {j \in 1 .. i : calendar[j] \in DOMAIN series}
    IN  IF seen = {} \/ i - Max(seen) > MaxForwardFill THEN None
        ELSE series[calendar[Max(seen)]]

PositionOf(calendar, date) ==
    CHOOSE i \in DOMAIN calendar : calendar[i] = date

(* The n returns of a series are those between the last n + 1 dates.       *)
DatedRight(calendar, returns, series) ==
    \A j \in DOMAIN returns :
        LET k     == Len(data.dates) - Len(returns) + j
            now   == CloseAt(calendar, series, PositionOf(calendar, data.dates[k]))
            then  == CloseAt(calendar, series, PositionOf(calendar, data.dates[k - 1]))
        IN  None \notin {now, then} /\ returns[j] = now - then

(* A history is cut short only behind a day without a close.               *)
CutForAReason(calendar, returns, series) ==
    LET first == Len(data.dates) - Len(returns)    \* the date it starts from
    IN  first > 1 => \E i \in PositionOf(calendar, data.dates[first - 1]) ..
                              PositionOf(calendar, data.dates[first]) - 1 :
                        CloseAt(calendar, series, i) = None

(* The daily returns of every series, and the dates kept.                  *)
AlignedRight(raw, calendar) ==
    /\ \A t \in DOMAIN data.stocks :
          /\ DatedRight(calendar, data.stocks[t], raw[t])
          /\ CutForAReason(calendar, data.stocks[t], raw[t])
    /\ \A f \in FactorTickers \ {"BANK"} :
          /\ Len(data.factors[f]) = Len(data.dates) - 1
          /\ DatedRight(calendar, data.factors[f], raw[f])
    /\ DatedRight(calendar,
          [i \in DOMAIN data.factors["MARKET"] |->
              data.factors["RATES_PROXY"][i] + data.factors["MARKET"][i]], raw["BANK"])
    /\ \A i \in DOMAIN calendar :
          LET known  == \A f \in FactorTickers : CloseAt(calendar, raw[f], i) # None
              isLast == i = Len(calendar) \/ Week(calendar[i + 1]) # Week(calendar[i])
          IN  (known /\ (FrequencyOf(Request) = "daily" \/ isLast))
                 => \E k \in DOMAIN data.dates : data.dates[k] = calendar[i]

(* The returns of every series belong to the dates they stand beside,      *)
(* whatever gaps the series had, at either frequency; no return is dropped *)
(* without need, and the dates are all those since the factors all have    *)
(* closes (the last of each week).  data.rs: align_to_calendar,            *)
(* trailing_non_none_run, weekly_resample_indices, to_returns.             *)
ReturnsDatedRight ==
    stage = "loaded" => AlignedRight(World.raw, Calendar(World.raw["MARKET"]))

(***************************************************************************)
(* The regimes                                                             *)
(***************************************************************************)

Observed == LET market == data.factors["MARKET"]
            IN  SubSeq(market, Len(market) - model.window + 1, Len(market))

(* The clusters the fit starts from are settled before the rounds run out: *)
(* no day is nearer to the mean of another cluster than to that of its     *)
(* own.  If the three sizes it starts from are apart, a calmer day is      *)
(* never in a wilder cluster; with two alike one cluster starts empty,     *)
(* keeps its centre, and the mean of the other may move past it.           *)
(* regime.rs: kmeans_init.                                                 *)
ClustersSettled ==
    stage = "fitted" =>
        LET start == KmeansInit(Observed)
            n == Len(Observed)
            size == [i \in 1 .. n |-> IF Observed[i] < 0 THEN -Observed[i] ELSE Observed[i]]
            mean(k) == LET own == {i \in 1 .. n : start.cluster[i] = k}
                       IN  [sum   |-> Total([i \in own |-> size[i]]),
                            count |-> Cardinality(own)]
            seeds == {Sorted(size, place) : place \in {n \div 6, n \div 2, (5 * n) \div 6}}
        IN  /\ ~start.changed
            /\ \A i \in 1 .. n : \A k \in States :
                  LET own == mean(start.cluster[i])
                  IN  mean(k).count > 0 =>
                        Distance(size[i], own) * mean(k).count
                           <= Distance(size[i], mean(k)) * own.count
            /\ Cardinality(seeds) = 3 =>
                  \A i, j \in 1 .. n :
                     size[i] < size[j] => start.cluster[i] <= start.cluster[j]

PathScore(hmm, path) ==
    LogWeight[hmm.initial[path[1]]]
      + Total([t \in DOMAIN path |-> LogWeight[hmm.density[path[t]][Observed[t]]]])
      + Total([t \in 2 .. Len(path) |-> LogWeight[hmm.transition[path[t - 1]][path[t]]]])

(* The paths no other path scores higher than, of all the paths there are. *)
BestPaths ==
    LET score == [p \in [1 .. model.window -> States] |-> PathScore(World.hmm, p)]
        best  == Max({score[p] : p \in DOMAIN score})
    IN  {p \in DOMAIN score : score[p] = best}

(* The decoded path is one of the best of all paths.  regime.rs: viterbi,  *)
(* forwards and backwards.                                                 *)
PathIsBest ==
    stage = "fitted" =>
        LET order == VarianceOrder(World.hmm)
        IN  \E p \in BestPaths : \A t \in 1 .. model.window :
                p[t] = order[model.regime.sequence[t]]

(* The weight of a path: what the probabilities of its steps and of what   *)
(* was observed on its days multiply to.                                   *)
PathWeight(hmm, path) ==
    LET upTo[t \in DOMAIN path] ==
          hmm.density[path[t]][Observed[t]]
             * (IF t = 1 THEN hmm.initial[path[1]]
                ELSE upTo[t - 1] * hmm.transition[path[t - 1]][path[t]])
    IN  upTo[Len(path)]

(* A round of Baum-Welch counts what it should: the paths that start in a  *)
(* state, the moves from one to another, the days in it and the returns of *)
(* those days, over all the paths there are by their weights, although     *)
(* each is put together of a pass forwards and one backwards that are a    *)
(* day apart.  regime.rs: forward, backward, e_step, m_step.               *)
ReestimateIsExpected ==
    stage = "fitted" =>
        LET n == model.window
            weight == [p \in [1 .. n -> States] |-> PathWeight(World.hmm, p)]
            over(count) == Total([p \in DOMAIN weight |-> weight[p] * count[p]])
            next == MStep(Observed, EStep(World.hmm, Observed))
        IN  \A k \in States :
               /\ next.initial[k] = over([p \in DOMAIN weight |-> IF p[1] = k THEN 1 ELSE 0])
               /\ \A j \in States : next.moves[j][k] = over([p \in DOMAIN weight |->
                     Cardinality({t \in 2 .. n : p[t - 1] = j /\ p[t] = k})])
               /\ next.left[k] = over([p \in DOMAIN weight |->
                     Cardinality({t \in 2 .. n : p[t - 1] = k})])
               /\ next.days[k] = over([p \in DOMAIN weight |->
                     Cardinality({t \in 1 .. n : p[t] = k})])
               /\ next.sums[k] = over([p \in DOMAIN weight |->
                     Total([t \in {u \in 1 .. n : p[u] = k} |-> Observed[t]])])

Renumbered(hmm, p) ==
    [initial    |-> ByState([k \in States |-> hmm.initial[p[k]]]),
     transition |-> ByState([j \in States |->
                        ByState([k \in States |-> hmm.transition[p[j]][p[k]]])]),
     density    |-> ByState([k \in States |-> hmm.density[p[k]]]),
     variance   |-> ByState([k \in States |-> hmm.variance[p[k]]])]

(* Whatever numbers the fit gave its states, the regimes, their path, the  *)
(* forecast and the covariance that is used come out the same (as long as  *)
(* no two variances are equal and one path is best).  regime.rs, the       *)
(* relabelling at the end of fit_hmm.                                      *)
LabelsOrderFree ==
    stage = "fitted" =>
        \/ Cardinality({World.hmm.variance[k] : k \in States}) # 3
        \/ Cardinality(BestPaths) # 1
        \/ \A p \in {q \in [States -> States] : \A j, k \in States :
                        q[j] = q[k] => j = k} :
              FitHmm(Renumbered(World.hmm, p), Observed) = model.regime

(* A forecast is that many single steps of the transition from today, and  *)
(* the likeliest regime and the chance of a change are read off it.        *)
(* regime.rs: matrix_power, build_regime_forecast.                         *)
ForecastIsStepwise ==
    stage = "fitted" =>
        \A h \in ForecastDays :
            LET walk[n \in 0 .. h] ==
                  IF n = 0 THEN model.regime.smoothed
                  ELSE VecMatMul(walk[n - 1], model.regime.transition)
                told == model.regime.forecast[h]
            IN  /\ told.probability = walk[h]
                /\ \A k \in States : walk[h][k] <= walk[h][told.mostLikely]
                /\ told.change = Total([k \in States \ {model.regime.current} |->
                                           walk[h][k]])

(***************************************************************************)
(* FactorShock and RiskDecomposition                                       *)
(***************************************************************************)
Prefixes == {1 .. n : n \in 1 .. 3}

(* To state a move that the given shocks imply anyway changes nothing: not *)
(* the other implied moves, not the result of any holding.  experiments.rs:*)
(* conditional_coefficients, propagate_and_price.                          *)
ImpliedIsNeutral ==
    (stage = "ran" /\ Kind = "FactorShock"
        /\ Propagates(Request.input) /\ DOMAIN Request.input.shocks \in Prefixes) =>
    LET given == Request.input.shocks
        next  == Cardinality(DOMAIN given) + 1
        told  == [k \in 1 .. next |-> trace.answer.primary.shock[k]]
    IN  PropagateAndPrice(model.covariance, model, Portfolio,
            [Request.input EXCEPT !.shocks = told]) = trace.answer.primary

(* The contributions of the holdings, and those of the factors with the    *)
(* specific part, both add up to the variance of the portfolio.            *)
(* experiments.rs: run_risk_decomposition.                                 *)
EulerAddsUp ==
    (stage = "ran" /\ Kind = "RiskDecomposition") =>
        /\ Total(trace.answer.byStock) = trace.answer.variance
        /\ Total(trace.answer.byFactor) + trace.answer.specific
              = trace.answer.variance

(***************************************************************************)
(* CvarRebalance and ReverseStress                                         *)
(***************************************************************************)
CapUsed == IF Request.input.cap = Unset THEN DefaultCap ELSE Request.input.cap
Allowed == Feasible(Portfolio.weights, CapUsed, Request.input.turnover)
TailOf(weights, k) ==
    HistoricalStats(Losses(data, Reweighted(Portfolio, weights),
                           trace.answer.window), k).tail

(* The weights proposed keep the cap, the budget and the turnover, and no  *)
(* allowed weights lose less in the worst scenarios counted one by one,    *)
(* which is not how the program measures them; infeasible is said only     *)
(* when no weights are allowed, although two tests are made before the     *)
(* program is solved.  cvar.rs: run_cvar_rebalance.                        *)
RebalanceIsBest ==
    (stage = "ran" /\ Kind = "CvarRebalance") =>
        LET solution == trace.answer.solution
            k == TailCount(trace.answer.window, trace.answer.confidence)
        IN  CASE trace.answer.status = "optimal" ->
                    /\ solution.weights \in Allowed
                    /\ \A w \in Allowed :
                          TailOf(solution.weights, k) <= TailOf(w, k)
              [] trace.answer.status = "infeasible" -> Allowed = {}
              [] OTHER -> Allowed # {}

(* The report on the policy is about the weights that are proposed: what   *)
(* it calls remaining they breach, what it calls resolved the first        *)
(* solution breached and they do not; it gives up early only when the      *)
(* solver did.  cvar.rs: the remediation loop.                             *)
RemediationHonest ==
    (stage = "ran" /\ Kind = "CvarRebalance" /\ trace.answer.status = "optimal"
        /\ trace.answer.policyAfter.outcome = "ok") =>
    LET answer == trace.answer
        final  == FitFactorModel(data, Portfolio.tickers, answer.window,
                      FrequencyOf(Request), World.hmm, World.estimates)
        judged(w) == EvaluatePolicy(Request.input.policy, data, final,
                                    Reweighted(Portfolio, w)).breached
        first  == Solve(data, Request.input, answer.window,
                        Request.input.confidence, 0)
    IN  /\ answer.remaining = judged(answer.solution.weights)
        /\ answer.resolved = judged(first.weights) \ answer.remaining
        /\ answer.remaining # {} =>
              answer.tries = MaxRemediations \/ answer.tries \in Request.input.failing
        /\ answer.tries > 0 => judged(first.weights) # {}

(* A loss that is called out of reach cannot be made anywhere within the   *)
(* bounds, although the test is made on the linear measure.                *)
(* reverse_stress.rs: the feasibility test of run_reverse_stress.          *)
RefusalIsSound ==
    stage = "refused" =>
        \A s \in Box(LogBounds(BoundsUsed(Request.input.bounds))) :
            NonlinearPnl(model, Portfolio, s) > -Request.input.loss


(* The shock that is reported loses the amount it was searched for.        *)
(* reverse_stress.rs:330-333: the final snap guarantees the hard breach    *)
(* invariant holds.                                                        *)
StressBreaches ==
    (stage = "ran" /\ Kind = "ReverseStress") => trace.answer.breached

(***************************************************************************)
(* The whole run                                                           *)
(***************************************************************************)

(* The label a history shows at a date is the one the path gives to the    *)
(* return of that date, and between two of its points the value grows by   *)
(* the weighted returns of that date: the path, the history and the        *)
(* returns have lengths of their own.  portfolio_history.rs.               *)
HistoryKeepsDates ==
    (stage = "answered" /\ trace.history.outcome = "ok") =>
        LET shown  == trace.history
            regime == RegimeForHistory(trace.regime, data,
                          DefaultWindow(FrequencyOf(Request)), World.hmm).regime
            back(date) == Len(data.dates)
                             - (CHOOSE k \in DOMAIN data.dates : data.dates[k] = date)
            growth(date) == Total([i \in Holdings(Portfolio) |->
                LET own == data.stocks[Portfolio.tickers[i]]
                    at  == Len(own) - back(date)
                IN  IF at \in DOMAIN own
                    THEN Portfolio.weights[i] * LogToSimple(own[at]) ELSE 0])
        IN  /\ Len(shown.regimes) = Len(shown.dates)
            /\ shown.dates[Len(shown.dates)] = data.dates[Len(data.dates)]
            /\ \A j \in 2 .. Len(shown.dates) :
                  /\ shown.regimes[j] = regime.sequence[
                        Len(regime.sequence) - back(shown.dates[j])]
                  /\ shown.value[j - 1] = shown.value[j - 2]
                        * (Whole * Unit + growth(shown.dates[j]))

(* A factor with a gap too long to be filled, or a day none has closed by. *)
GapWithin(raw, calendar) ==
    \E f \in FactorTickers : \E i \in DOMAIN calendar :
        CloseAt(calendar, raw[f], i) = None

(* The data window a trace reports holds what the computation saw: the     *)
(* regimes it counts fill it, and the last time the market moved as far is *)
(* a day of it, although the window of the model and the one of the trace  *)
(* are computed apart.  Of the steps modelled a request panics only in     *)
(* these: a factor with a gap, a data window of nothing or longer than the *)
(* dates, a rebalance of a holding with a single close, a reverse stress   *)
(* with a bound below the loss of everything.  dispatch.rs:                *)
(* build_data_window; data.rs; cvar.rs; reverse_stress.rs: the clamp of    *)
(* project_to_feasible.                                                    *)
DataWindowSound ==
    /\ (stage = "ran" /\ trace.regime.outcome = "ok") =>
          /\ Total(trace.regime.regime.observations)
                = Smaller(trace.window.periods, Len(data.dates) - 1)
          /\ trace.window.end = data.dates[Len(data.dates)]
          /\ (Kind = "FactorShock" /\ trace.answer.context.last # None) =>
                trace.answer.context.last \in trace.window.start .. trace.window.end
    /\ stage = "panic" =>
          \/ GapWithin(World.raw, Calendar(World.raw["MARKET"]))
          \/ Kind # "CvarRebalance" /\ Window \notin 1 .. Len(data.dates)
          \/ Kind = "CvarRebalance" /\ \E t \in DOMAIN data.stocks :
                                            data.stocks[t] = <<>>
          \/ Kind = "ReverseStress" /\ \E k \in DOMAIN Request.input.bounds :
                                            Request.input.bounds[k].lower < -Unit

(* What is not a factor's: specific_risk_contribution.                     *)
SpecificPart(result) == PartOfVolatility(result, result.specific)

(* Five contributions, the specific one and the volatility are rounded     *)
(* down, before and after: their sums are off by no more than this.        *)
RoundingOff == 7

(* A drift compares two decompositions of one portfolio: the factor that   *)
(* grew most and the one that shrank most bound the deltas of all others,  *)
(* though each contribution is divided by the volatility of its own day;   *)
(* the deltas add up to what the volatility gained but for the specific    *)
(* part, which the sum drift.rs:262 records leaves out; and against a      *)
(* decomposition of the same prices nothing has moved.  drift.rs:          *)
(* resolve_baseline, compute_risk_drift.                                   *)
DriftIsDifference ==
    (stage = "ran" /\ Kind = "RiskDrift") =>
        LET base  == stored[trace.answer.parent]
            drift == trace.answer
            delta == drift.byFactorAdded
        IN  /\ base.kind = "RiskDecomposition" /\ base.portfolio = Portfolio
            /\ drift.after = RunRiskDecomposition(data, model, Portfolio)
            /\ \A k \in Factors :
                  delta[k] \in delta[drift.shrinking] .. delta[drift.growing]
            /\ drift.volatilityAdded - Total(delta)
                  - (SpecificPart(drift.after) - SpecificPart(base.answer))
                     \in -RoundingOff .. RoundingOff
            /\ drift.worsened => drift.changed
            /\ (base.inputs.market = Request.market
                   /\ base.inputs.window = Request.window
                   /\ FrequencyOf(base.inputs) = FrequencyOf(Request))
               => /\ \A k \in Factors : 0 = delta[k] /\ 0 = drift.betasAdded[k]
                  /\ drift.volatilityAdded = 0 /\ drift.specificShareAdded = 0
                  /\ ~drift.changed /\ ~drift.increased /\ ~drift.concentrated
=============================================================================
