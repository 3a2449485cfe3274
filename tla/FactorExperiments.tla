------------------------- MODULE FactorExperiments --------------------------
(***************************************************************************)
(* compute/experiments.rs: FactorShock and RiskDecomposition on a fitted   *)
(* factor model.                                                           *)
(*                                                                         *)
(* Factors are positions of FactorNames.  Log returns are base 2 and whole *)
(* (see PriceAlignment), simple returns are in units of 1/Unit, so a       *)
(* conversion is exact.  A portfolio is a record of its tickers and their  *)
(* weights, both in the order of its holdings, and its value.              *)
(***************************************************************************)
EXTENDS FactorModel

CONSTANTS Unit,             \* a simple return of 100 %
          CoefficientBound  \* the conditional coefficients lie within it

ASSUME ExperimentAssumption ==
    /\ Unit \in Nat \ {0}
    /\ CoefficientBound \in Nat

(* A value for each factor: a tuple, so that TLC computes each only once.  *)
ByFactor(f) == <<f[1], f[2], f[3], f[4], f[5]>>

LogToSimple(r) ==
    IF r >= 0 THEN Unit * (2 ^ r - 1) ELSE (Unit \div 2 ^ (-r)) - Unit
SimpleToLog(s) == CHOOSE r \in -6 .. 6 : LogToSimple(r) = s

Holdings(portfolio) == DOMAIN portfolio.tickers
ValueOf(portfolio, i) == portfolio.weights[i] * portfolio.value

(***************************************************************************)
(* FactorShock                                                             *)
(***************************************************************************)

(* conditional_coefficients: the rows of F_uk * F_kk^-1, that is, of the   *)
(* matrix C with C * F_kk = F_uk.                                          *)
Combine(row, f, j) == Total([k \in DOMAIN row |-> row[k] * f[k][j]])

CandidateRows(known) ==
    [known -> -CoefficientBound .. CoefficientBound]

Singular(f, known) ==
    \E row \in CandidateRows(known) :
        /\ \E k \in known : row[k] # 0
        /\ \A j \in known : Combine(row, f, j) = 0

(* A mistake: the covariances themselves, not divided by F_kk.             *)
ConditionalUndivided(f, known, unknown) ==
    [u \in unknown |-> [k \in known |-> f[u][k]]]

ConditionalCoefficients(f, known, unknown) ==
    [u \in unknown |->
        CHOOSE row \in CandidateRows(known) :
            \A j \in known : Combine(row, f, j) = f[u][j]]

Propagates(input) ==
    /\ input.propagate
    /\ DOMAIN input.shocks # {}
    /\ Factors \ DOMAIN input.shocks # {}

(* The move of every factor: what was given, and for the others what it    *)
(* implies, or nothing.  Both are in the space of the computation: logs,   *)
(* or simple returns under the linear approximation.                       *)
FullShock(f, input) ==
    LET known == DOMAIN input.shocks
        c     == ConditionalCoefficients(f, known, Factors \ known)
        implied(u) == Total([k \in known |-> c[u][k] * input.shocks[k]])
    IN  ByFactor([k \in Factors |->
            IF k \in known THEN input.shocks[k]
            ELSE IF Propagates(input) THEN implied(k) ELSE 0])

(* propagate_and_price                                                     *)
PropagateAndPrice(f, model, portfolio, input) ==
    LET shock  == FullShock(f, input)
        moved(i) == Total([k \in Factors |-> model.betas[i][k] * shock[k]])
        simple(i) == IF input.linear THEN moved(i) ELSE LogToSimple(moved(i))
    IN  IF Propagates(input) /\ Singular(f, DOMAIN input.shocks)
        THEN Failed("error")
        ELSE [outcome |-> "ok",
              shock   |-> shock,
              holdingPnl |-> [i \in Holdings(portfolio) |->
                                 ValueOf(portfolio, i) * simple(i)],
              pnl     |-> Total([i \in Holdings(portfolio) |->
                                 ValueOf(portfolio, i) * simple(i)]),
              logPnl  |-> Total([i \in Holdings(portfolio) |->
                                 ValueOf(portfolio, i) * moved(i)]),
              attribution |-> [k \in Factors |->
                  Total([i \in Holdings(portfolio) |->
                      ValueOf(portfolio, i) * model.betas[i][k] * shock[k]])]]

(* The part of compute_shock_context that reads the history: how often the *)
(* market moved as far in the window, and the date of the last time.       *)
Magnitude(x) == IF x < 0 THEN -x ELSE x
ShockContext(data, model, logMove) ==
    LET returns == data.factors["MARKET"]
        window  == Smaller(model.window, Len(returns))
        at(i)   == returns[Len(returns) - window + i]
        dateOf(i) == data.dates[Len(data.dates) - window + i]
        hits    == {i \in 1 .. window : Magnitude(at(i)) >= Magnitude(logMove)}
    IN  [occurrences |-> Cardinality(hits),
         last |-> IF hits = {} THEN None ELSE dateOf(Max(hits))]

(* The shock priced again under the covariance of Crisis, unless that is   *)
(* the current regime anyway.                                              *)
CrisisComparison(model, portfolio, input) ==
    IF model.regime.current = Crisis THEN Failed("none")
    ELSE PropagateAndPrice(model.ofRegime[Crisis], model, portfolio, input)

(* What is reported of a shock and of what it would be in a crisis.        *)
ShockReport(data, model, portfolio, input, primary, crisis) ==
    LET logMove(k) == IF input.linear THEN SimpleToLog(primary.shock[k])
                      ELSE primary.shock[k]
    IN  IF \/ input.unknownFactor
           \/ portfolio.tickers # model.tickers
           \/ primary.outcome # "ok"
           \/ crisis.outcome = "error"
        THEN Failed("error")
        ELSE [outcome |-> "ok",
              primary |-> primary,
              crisis  |-> crisis,
              goldInr |-> logMove(4) + logMove(2),
              context |-> ShockContext(data, model, logMove(1))]

(* run_factor_shock: refused for a factor it does not know, a model of     *)
(* other tickers, or a covariance that cannot be conditioned on.           *)
RunFactorShock(data, model, portfolio, input) ==
    ShockReport(data, model, portfolio, input,
                PropagateAndPrice(model.covariance, model, portfolio, input),
                CrisisComparison(model, portfolio, input))

(***************************************************************************)
(* RiskDecomposition                                                       *)
(***************************************************************************)
AnnualizationFactor(frequency) == IF frequency = "weekly" THEN 52 ELSE 252

(* stock_covariance: B F B' + D, annualized.                               *)
StockCovariance(model) ==
    LET n == DOMAIN model.tickers
        fb(j) == [k \in Factors |->
                     Total([l \in Factors |-> model.covariance[k][l] * model.betas[j][l]])]
    IN  [i \in n |-> [j \in n |->
            AnnualizationFactor(model.frequency) *
              (Total([k \in Factors |-> model.betas[i][k] * fb(j)[k]])
                 + (IF i = j THEN model.residual[i] ELSE 0))]]

(* b' w *)
Exposure(model, portfolio) ==
    ByFactor([k \in Factors |-> Total([i \in Holdings(portfolio) |->
        portfolio.weights[i] * model.betas[i][k]])])

PortfolioVariance(model, portfolio) ==
    LET sigma == StockCovariance(model)
    IN  Total([i \in Holdings(portfolio) |-> portfolio.weights[i] *
            Total([j \in Holdings(portfolio) |-> sigma[i][j] * portfolio.weights[j]])])

(* A mistake: each factor's own variance only.                             *)
FactorContributionsAlone(model, portfolio) ==
    LET x == Exposure(model, portfolio)
    IN  ByFactor([k \in Factors |-> AnnualizationFactor(model.frequency)
                               * x[k] * model.covariance[k][k] * x[k]])

(* In units of variance: RiskDriftReport divides by the volatility.        *)
FactorContributions(model, portfolio) ==
    LET x == Exposure(model, portfolio)
    IN  ByFactor([k \in Factors |-> AnnualizationFactor(model.frequency) * x[k] *
            Total([l \in Factors |-> model.covariance[k][l] * x[l]])])

(* portfolio_daily_log_returns: the tails of the common length.            *)
CommonLength(data, portfolio) ==
    Min({Len(data.stocks[portfolio.tickers[i]]) : i \in Holdings(portfolio)})

PortfolioLogReturns(data, portfolio) ==
    LET n == CommonLength(data, portfolio)
        tail(i) == LET own == data.stocks[portfolio.tickers[i]]
                   IN  SubSeq(own, Len(own) - n + 1, Len(own))
    IN  [t \in 1 .. n |-> Total([i \in Holdings(portfolio) |->
            portfolio.weights[i] * tail(i)[t]])]

(* The root of a whole number, rounded down.                               *)
Root(x) == CHOOSE r \in 0 .. x : r * r <= x /\ x < (r + 1) * (r + 1)

(* factor_correlation, in percent, each pair once.                         *)
Pairs == {p \in Factors \X Factors : p[1] < p[2]}
FactorCorrelation(f) ==
    [p \in Pairs |-> (100 * f[p[1]][p[2]]) \div Root(f[p[1]][p[1]] * f[p[2]][p[2]])]

RunRiskDecomposition(data, model, portfolio) ==
    LET sigma == StockCovariance(model)
    IN  IF portfolio.tickers # model.tickers THEN Failed("error")
        ELSE [outcome  |-> "ok",
              variance |-> PortfolioVariance(model, portfolio),
              byStock  |-> [i \in Holdings(portfolio) |-> portfolio.weights[i] *
                  Total([j \in Holdings(portfolio) |->
                            sigma[i][j] * portfolio.weights[j]])],
              byFactor |-> FactorContributions(model, portfolio),
              specific |-> AnnualizationFactor(model.frequency) *
                  Total([i \in Holdings(portfolio) |->
                      portfolio.weights[i] * portfolio.weights[i] * model.residual[i]]),
              betas    |-> Exposure(model, portfolio),
              correlation |-> FactorCorrelation(model.covariance),
              returns  |-> PortfolioLogReturns(data, portfolio)]
=============================================================================
