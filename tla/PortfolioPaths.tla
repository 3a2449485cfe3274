--------------------------- MODULE PortfolioPaths ---------------------------
(***************************************************************************)
(* The two computations that follow the value of a portfolio over time:    *)
(* the PortfolioPerformance experiment (compute/performance.rs) and the    *)
(* history attached to every trace (compute/portfolio_history.rs).         *)
(*                                                                         *)
(* Weights add up to Whole, so a step multiplies the value by a number of  *)
(* units of 1 / (Whole * Unit), and a path holds products of those         *)
(* numbers: the value after t steps, times (Whole * Unit) ^ t.             *)
(***************************************************************************)
EXTENDS FactorExperiments

CONSTANTS Whole,         \* the sum of the weights of a portfolio
          HistoryPoints  \* DEFAULT_HISTORY_DAYS

ASSUME PathAssumption ==
    /\ Whole \in Nat \ {0}
    /\ HistoryPoints \in Nat \ {0, 1}

(* The growth of the value in each of the steps, compounded: path[t] is    *)
(* the value after t steps.                                                *)
Compound(steps) ==
    LET path[t \in 0 .. Len(steps)] ==
          IF t = 0 THEN 1 ELSE path[t - 1] * (Whole * Unit + steps[t])
    IN  path

(* Each step is weighted by what the code holds at that time of each       *)
(* holding: the tail of its returns of `length`, nothing before its first. *)
WeightedSteps(data, portfolio, length) ==
    [t \in 1 .. length |-> Total([i \in Holdings(portfolio) |->
        LET own == data.stocks[portfolio.tickers[i]]
            idx == Len(own) - (length - t)
        IN  IF idx < 1 THEN 0 ELSE portfolio.weights[i] * LogToSimple(own[idx])])]

MarketTail(data, window) ==
    LET market == data.factors["MARKET"]
    IN  SubSeq(market, Len(market) - window + 1, Len(market))

(* A standalone fit on the tail of the market, if it is long enough.       *)
RegimeOfTail(data, window, hmm) ==
    IF window \notin MinModelWindow .. Len(data.factors["MARKET"])
    THEN Failed("none")
    ELSE [outcome |-> "ok", regime |-> FitHmm(hmm, MarketTail(data, window))]

(***************************************************************************)
(* run_portfolio_performance: refused when the window is longer than the   *)
(* shortest history of a holding.                                          *)
(***************************************************************************)
RunPortfolioPerformance(data, portfolio, window, hmm) ==
    LET steps == WeightedSteps(data, portfolio, window)
        taken == {steps[t] : t \in DOMAIN steps}
    IN  IF window > CommonLength(data, portfolio) THEN Failed("error")
        ELSE [outcome |-> "ok",
              end     |-> Compound(steps)[window],
              best    |-> Max(taken),
              worst   |-> Min(taken),
              regime  |-> RegimeOfTail(data, window, hmm),
              ofHolding |-> [i \in Holdings(portfolio) |->
                  Total([t \in 1 .. window |->
                      LET own == data.stocks[portfolio.tickers[i]]
                      IN  own[Len(own) - window + t]])]]

(* A mistake: the labels of the days before.                               *)
EarlierLabels(path, steps) == SubSeq(path, Len(path) - steps, Len(path) - 1)

(* The regimes of the last steps.                                          *)
LastLabels(path, steps) == SubSeq(path, Len(path) - steps + 1, Len(path))

(***************************************************************************)
(* compute_portfolio_history over the path of a fitted regime.             *)
(***************************************************************************)
ComputePortfolioHistory(data, portfolio, regime) ==
    LET points == Min({HistoryPoints, Len(data.dates), Len(regime.sequence) + 1})
        steps  == WeightedSteps(data, portfolio, points - 1)
        labels == LastLabels(regime.sequence, points - 1)
    IN  IF points < 2 THEN Failed("none")
        ELSE [outcome |-> "ok",
              dates   |-> SubSeq(data.dates, Len(data.dates) - points + 1,
                                 Len(data.dates)),
              value   |-> Compound(steps),
              regimes |-> <<labels[1]>> \o labels]

(* regime_for_history: the regime of the trace, else a standalone fit.     *)
RegimeForHistory(existing, data, window, hmm) ==
    IF existing.outcome = "ok" THEN existing ELSE RegimeOfTail(data, window, hmm)
=============================================================================
