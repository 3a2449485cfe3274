--------------------------- MODULE ExperimentRun ----------------------------
(***************************************************************************)
(* compute/dispatch.rs, run_experiment: how a request becomes a trace.     *)
(* The prices are loaded, the factor model is fitted, the data window is   *)
(* built, the experiment runs, a policy and the history are attached.  Any *)
(* of these steps may refuse the request, some may panic.  The requests of *)
(* a session run one after the other, and a RiskDrift compares with a      *)
(* trace that an earlier one left in the store.                            *)
(*                                                                         *)
(* A request names the market it meets: its raw prices and what the        *)
(* numerical kernels make of them.                                         *)
(***************************************************************************)
EXTENDS CvarRebalance, ReverseStress, RiskDriftReport

CONSTANTS Markets,   \* name -> [raw, hmm, estimates]
          Sessions   \* the sequences of requests that may arrive

(***************************************************************************)
(* What a market is: for each series, the dates it has a close on; a fit   *)
(* with a density for whatever the index may do; estimates of each stock.  *)
(***************************************************************************)
Vector == [Factors -> Int]
Matrix == [Factors -> Vector]

IsSeries(series) ==
    /\ IsFiniteSet(DOMAIN series) /\ DOMAIN series \subseteq Nat
    /\ series \in [DOMAIN series -> Int]

Moves(series) == {series[d] - series[e] : d, e \in DOMAIN series}

Likelihoods == DOMAIN LogWeight \cap Nat   \* the weights with a logarithm

IsFit(hmm, moves) ==
    /\ hmm.initial \in [States -> Likelihoods]
    /\ hmm.transition \in [States -> [States -> Likelihoods]]
    /\ hmm.variance \in [States -> Nat]
    /\ \A k \in States : \A move \in moves : hmm.density[k][move] \in Likelihoods

IsEstimate(estimates, stocks) ==
    /\ \A t \in stocks : estimates.betas[t] \in Vector /\ estimates.residual[t] \in Nat
    /\ estimates.whole \in Matrix
    /\ estimates.own \in [States -> Matrix]

Stocks(market) == DOMAIN Markets[market].estimates.betas

ASSUME MarketsAssumption ==
    \A m \in DOMAIN Markets :
        LET raw == Markets[m].raw
        IN  /\ FactorTickers \cup Stocks(m) \subseteq DOMAIN raw
            /\ \A s \in DOMAIN raw : IsSeries(raw[s])
            /\ IsFit(Markets[m].hmm, Moves(raw["MARKET"]))
            /\ IsEstimate(Markets[m].estimates, Stocks(m))

(* What a request may be: of a portfolio of stocks of its market, with a   *)
(* value and weights that are not negative (validate.rs refuses others,    *)
(* and one with less than two holdings).  The weights of a rebalance add   *)
(* up to Whole: validate.rs lets them miss it by 0.01, less than the step  *)
(* the weights are counted in here.  A rebalance is given the portfolio    *)
(* and the frequency of its request.  Nothing checks the bounds of a       *)
(* reverse stress: one below -100 % is a request like another.             *)
Requests == UNION {{s[i] : i \in DOMAIN s} : s \in Sessions}

IsBound(simple) == HasLog(simple) \/ (simple \in Int /\ simple < -Unit)

IsRequest(request) ==
    /\ request.market \in DOMAIN Markets
    /\ request.portfolio \in [tickers : Seq(Stocks(request.market)) \ {<<>>},
                              weights : Seq(Nat), value : Nat]
    /\ Len(request.portfolio.weights) = Len(request.portfolio.tickers)
    /\ request.window = Unset \/ request.window \in Nat
    /\ request.kind = "FactorShock" =>
          /\ {"shocks", "propagate", "linear"} \subseteq DOMAIN request.input
          /\ DOMAIN request.input.shocks \subseteq Factors
          /\ request.input.shocks \in [DOMAIN request.input.shocks -> Int]
    /\ request.kind = "CvarRebalance" =>
          /\ Total(request.portfolio.weights) = Whole
          /\ request.input.portfolio = request.portfolio
          /\ request.input.frequency = ParsedFrequency(request.word)
          /\ request.input.window = Unset \/ request.input.window \in Nat
          /\ request.input.turnover \in Int
    /\ request.kind = "ReverseStress" =>
          /\ request.input.loss \in Int
          /\ \A k \in DOMAIN request.input.bounds :
                IsBound(request.input.bounds[k].lower) /\ IsBound(request.input.bounds[k].upper)

ASSUME SessionsAssumption ==
    /\ \A s \in Sessions : s \in Seq(Requests) /\ s # <<>>
    /\ \A r \in Requests : IsRequest(r)

VARIABLES session,   \* the requests still to answer, the current one first
          stage,     \* the last step of the current request
          data,      \* MarketData
          model,     \* FactorModel
          trace,     \* EvidenceTrace of the current request
          stored     \* the traces in the store, the oldest first

vars == <<session, stage, data, model, trace, stored>>

Request == Head(session)
World == Markets[Request.market]
Kind == Request.kind
Portfolio == Request.portfolio
FrequencyOf(request) == ParsedFrequency(request.word)
Window == ResolvedWindow(Request.window, FrequencyOf(Request))
TickersOf(portfolio) == {portfolio.tickers[i] : i \in Holdings(portfolio)}

Nothing == Failed("none")

WithModel == {"FactorShock", "RiskDecomposition", "RiskDrift",
              "ReverseStress", "PolicyCheck"}
WithPassivePolicy == {"FactorShock", "RiskDecomposition",
                      "PortfolioPerformance", "ReverseStress"}

Init ==
    /\ session \in Sessions
    /\ stage = "asked"
    /\ data = Nothing /\ model = Nothing /\ trace = Nothing
    /\ stored = <<>>

(* The request ends here, without a trace.                                 *)
End(outcome) == stage' = outcome /\ trace' = Nothing

(***************************************************************************)
(* resolve_baseline: the snapshot that was asked for, if it is one of this *)
(* portfolio, else the latest one of this portfolio.                       *)
(***************************************************************************)
OfPortfolio == {i \in DOMAIN stored : stored[i].portfolio = Portfolio}

Baseline ==
    IF Request.baseline = Unset
    THEN {i \in OfPortfolio : \A j \in OfPortfolio : j <= i}
    ELSE OfPortfolio \cap {Request.baseline}

(* An unknown frequency, or a drift without a baseline.                    *)
RefuseRequest ==
    /\ stage = "asked"
    /\ \/ FrequencyOf(Request) = "invalid"
       \/ Kind = "RiskDrift" /\ Baseline = {}
    /\ End("error")
    /\ UNCHANGED <<session, data, model, stored>>

LoadData ==
    /\ stage = "asked"
    /\ FrequencyOf(Request) # "invalid"
    /\ Kind = "RiskDrift" => Baseline # {}
    /\ data' = LoadMarketData(World.raw, TickersOf(Portfolio), FrequencyOf(Request))
    /\ IF data'.outcome = "ok" THEN stage' = "loaded" /\ UNCHANGED trace
       ELSE End(data'.outcome)
    /\ UNCHANGED <<session, model, stored>>

(* A mistake: the window that was asked for is ignored.                    *)
FittedByDefault ==
    FitFactorModel(data, Portfolio.tickers, DefaultWindow(FrequencyOf(Request)),
                   FrequencyOf(Request), World.hmm, World.estimates)

Fitted == FitFactorModel(data, Portfolio.tickers, Window, FrequencyOf(Request),
                         World.hmm, World.estimates)

FitModel ==
    /\ stage = "loaded" /\ Kind \in WithModel
    /\ model' = Fitted
    /\ IF model'.outcome = "ok" THEN stage' = "fitted" /\ UNCHANGED trace
       ELSE End(model'.outcome)
    /\ UNCHANGED <<session, data, stored>>

(* build_data_window indexes the dates by their number less the window,    *)
(* which is the one that was asked for, not the one the model was cut to.  *)
BuildDataWindow ==
    /\ stage = IF Kind \in WithModel THEN "fitted" ELSE "loaded"
    /\ Kind # "CvarRebalance"
    /\ IF Window \in 1 .. Len(data.dates)
       THEN /\ stage' = "windowed"
            /\ trace' = [periods |-> Window,
                         start   |-> data.dates[Len(data.dates) - Window + 1],
                         end     |-> data.dates[Len(data.dates)]]
       ELSE End("panic")
    /\ UNCHANGED <<session, data, model, stored>>

(***************************************************************************)
(* The experiments                                                         *)
(***************************************************************************)
Answered(answer, regime, window) ==
    /\ IF answer.outcome = "ok"
       THEN /\ stage' = "ran"
            /\ trace' = [kind |-> Kind, portfolio |-> Portfolio, inputs |-> Request,
                         window |-> window, answer |-> answer, regime |-> regime,
                         policy |-> Nothing, history |-> Nothing]
       ELSE End(answer.outcome)
    /\ UNCHANGED <<session, data, model, stored>>

FromModel(answer) ==
    Answered(answer, [outcome |-> "ok", regime |-> model.regime], trace)

FactorShock ==
    /\ stage = "windowed" /\ Kind = "FactorShock"
    /\ FromModel(RunFactorShock(data, model, Portfolio, Request.input))

RiskDecomposition ==
    /\ stage = "windowed" /\ Kind = "RiskDecomposition"
    /\ FromModel(RunRiskDecomposition(data, model, Portfolio))

(* run_risk_drift, from the decomposition on.                              *)
RiskDrift ==
    /\ stage = "windowed" /\ Kind = "RiskDrift"
    /\ LET result == RunRiskDecomposition(data, model, Portfolio)
       IN  \E i \in Baseline :
             FromModel(IF result.outcome # "ok" THEN result
                       ELSE ComputeRiskDrift(i, stored[i], result, model.regime))

(* Wherever the descent of the solver stopped.                             *)
ReverseStressed ==
    /\ stage = "windowed" /\ Kind = "ReverseStress"
    /\ \E stopped \in Box(LogBounds(BoundsUsed(Request.input.bounds)))
                        \cup {[k \in Factors |-> 0]} :
         FromModel(RunReverseStress(model, Portfolio, Request.input, stopped))

PolicyCheck ==
    /\ stage = "windowed" /\ Kind = "PolicyCheck"
    /\ FromModel(RunPolicyCheck(Request.input, data, model, Portfolio))

PortfolioPerformance ==
    /\ stage = "windowed" /\ Kind = "PortfolioPerformance"
    /\ \E answer \in {RunPortfolioPerformance(data, Portfolio, Window, World.hmm)} :
           Answered(answer, IF answer.outcome = "ok" THEN answer.regime ELSE Nothing,
                    trace)

CvarRebalanced ==
    /\ stage = "loaded" /\ Kind = "CvarRebalance"
    /\ \E answer \in {RunCvarRebalance(data, Request.input, World.hmm, World.estimates)} :
           IF answer.outcome = "ok"
           THEN Answered(answer, answer.regime,
                    [periods |-> answer.window,
                     start   |-> data.dates[Len(data.dates) - answer.window + 1],
                     end     |-> data.dates[Len(data.dates)]])
           ELSE Answered(answer, Nothing, Nothing)

(***************************************************************************)
(* What is attached to a trace                                             *)
(***************************************************************************)

(* maybe_attach_policy: a performance fits its model only now.             *)
AttachPolicy ==
    /\ stage = "ran"
    /\ IF Kind \in WithPassivePolicy /\ Request.policy # Unset
       THEN \E used \in {IF Kind = "PortfolioPerformance" THEN Fitted ELSE model} :
            /\ model' = used
            /\ IF used.outcome # "ok" THEN End("error")
               ELSE \E result \in {EvaluatePolicy(Request.policy, data, used, Portfolio)} :
                       IF result.outcome # "ok" THEN End("error")
                       ELSE /\ stage' = "judged"
                            /\ trace' = [trace EXCEPT !.policy = result]
       ELSE stage' = "judged" /\ UNCHANGED <<model, trace>>
    /\ UNCHANGED <<session, data, stored>>

(* run_experiment ends with the history.  A drift loads its prices again,  *)
(* and goes without one when that fails.                                   *)
AttachHistory ==
    /\ stage = "judged"
    /\ \E reloaded \in IF Kind = "RiskDrift" THEN {data, Nothing} ELSE {data} :
         LET regime == RegimeForHistory(trace.regime, reloaded,
                           DefaultWindow(FrequencyOf(Request)), World.hmm)
         IN  trace' = [trace EXCEPT !.history =
                 IF reloaded = Nothing \/ regime.outcome # "ok" THEN Nothing
                 ELSE ComputePortfolioHistory(reloaded, Portfolio, regime.regime)]
    /\ stage' = "answered"
    /\ stored' = Append(stored, trace')
    /\ UNCHANGED <<session, data, model>>

Ended == {"answered", "error", "refused", "panic"}

NextRequest ==
    /\ stage \in Ended /\ Len(session) > 1
    /\ session' = Tail(session)
    /\ stage' = "asked"
    /\ data' = Nothing /\ model' = Nothing /\ trace' = Nothing
    /\ UNCHANGED stored

Idle == stage \in Ended /\ Len(session) = 1 /\ UNCHANGED vars

Next ==
    \/ RefuseRequest \/ LoadData \/ FitModel \/ BuildDataWindow
    \/ FactorShock \/ RiskDecomposition \/ RiskDrift \/ ReverseStressed
    \/ PolicyCheck \/ PortfolioPerformance \/ CvarRebalanced
    \/ AttachPolicy \/ AttachHistory
    \/ NextRequest \/ Idle

Spec == Init /\ [][Next]_vars
=============================================================================
