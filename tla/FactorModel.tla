---------------------------- MODULE FactorModel -----------------------------
(***************************************************************************)
(* compute/model.rs: which observations the factor model of a portfolio is *)
(* fitted on.  The shared window is cut to the history of the factors, the *)
(* window of a holding to its own history; the covariance of the factors   *)
(* is that of the current regime, or the one of the whole window when the  *)
(* regime was seen too rarely.                                             *)
(*                                                                         *)
(* The results of the numerical kernels (least squares, Ledoit-Wolf) are   *)
(* an input, a record `estimates`: the betas and the residual variance of  *)
(* each holding, the covariance of each regime's own days and of the whole *)
(* window, indexed by the positions of FactorNames.                        *)
(***************************************************************************)
EXTENDS PriceAlignment, MarketRegime

CONSTANTS MinModelWindow,         \* MIN_MODEL_WINDOW
          MinTickerObservations,  \* MIN_TICKER_OBSERVATIONS
          MinRegimeObservations,  \* MIN_REGIME_OBSERVATIONS
          DailyWindow,            \* Frequency::default_window, in the code 252
          WeeklyWindow,           \* and 156
          Unset                   \* an input that is not given

ASSUME ModelAssumption ==
    /\ MinModelWindow \in Nat \ {0}
    /\ MinTickerObservations \in Nat \ {0}
    /\ MinRegimeObservations \in Nat \ {0}
    /\ {DailyWindow, WeeklyWindow} \subseteq Nat \ {0}
    /\ Unset \notin Int

Factors == DOMAIN FactorNames

Smaller(a, b) == IF a < b THEN a ELSE b

DefaultWindow(frequency) ==
    IF frequency = "weekly" THEN WeeklyWindow ELSE DailyWindow

(* resolved_window *)
ResolvedWindow(window, frequency) ==
    IF window = Unset THEN DefaultWindow(frequency) ELSE window

(* from_optional_str: an unknown word is refused.                          *)
ParsedFrequency(word) ==
    IF word \in {"none", "daily"} THEN "daily"
    ELSE IF word = "weekly" THEN "weekly" ELSE "invalid"

(* regime_conditional_factor_covariance                                    *)
RegimeCovariance(estimates, sequence) ==
    [k \in States |->
        IF Cardinality({t \in DOMAIN sequence : sequence[t] = k})
              < MinRegimeObservations
        THEN estimates.whole ELSE estimates.own[k]]

(* The rows of the least squares of one holding: the tail of its returns   *)
(* beside the tail of the factors' window.                                 *)
TickerRows(series, factorsWindow) ==
    LET rows  == Smaller(Len(series), Len(factorsWindow))
        seriesStart == Len(series) - rows
        factorStart == Len(factorsWindow) - rows
    IN  [i \in 1 .. rows |->
            [y |-> series[seriesStart + i], x |-> factorsWindow[factorStart + i]]]

(* The last returns of the factors, one row for each day.                  *)
FactorsWindow(data, window) ==
    LET before == Len(data.factors["MARKET"]) - window
    IN  [i \in 1 .. window |-> [k \in Factors |->
            data.factors[FactorNames[k]][before + i]]]

(* The model, given the regimes of the window and a covariance for each.   *)
Assembled(data, tickers, factorsWindow, frequency, state, covariance, estimates) ==
    [outcome    |-> "ok",
     frequency  |-> frequency,
     window     |-> Len(factorsWindow),
     tickers    |-> tickers,
     rows       |-> [k \in DOMAIN tickers |->
                        TickerRows(data.stocks[tickers[k]], factorsWindow)],
     betas      |-> [k \in DOMAIN tickers |-> estimates.betas[tickers[k]]],
     residual   |-> [k \in DOMAIN tickers |-> estimates.residual[tickers[k]]],
     covariance |-> covariance[state.current],
     ofRegime   |-> covariance,
     regime     |-> state,
     short      |-> {tickers[k] : k \in {j \in DOMAIN tickers :
                        Len(data.stocks[tickers[j]]) < Len(factorsWindow)}}]

FitOnWindow(data, tickers, factorsWindow, frequency, state, estimates) ==
    Assembled(data, tickers, factorsWindow, frequency, state,
              RegimeCovariance(estimates, state.sequence), estimates)

FitFactorModel(data, tickers, asked, frequency, hmm, estimates) ==
    LET window == Smaller(asked, Len(data.factors["MARKET"]))
        factorsWindow == FactorsWindow(data, window)
    IN  IF \/ window < MinModelWindow
           \/ \E k \in DOMAIN tickers :
                 Len(data.stocks[tickers[k]]) < MinTickerObservations
        THEN Failed("error")
        ELSE FitOnWindow(data, tickers, factorsWindow, frequency,
                 FitHmm(hmm, [i \in 1 .. window |-> factorsWindow[i][1]]), estimates)
=============================================================================
