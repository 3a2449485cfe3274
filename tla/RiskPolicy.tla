----------------------------- MODULE RiskPolicy -----------------------------
(***************************************************************************)
(* compute/policy.rs: the limits of a policy checked against a portfolio,  *)
(* its fitted model and its history.  A limit a policy does not set is     *)
(* Unset.  The volatility is the integer root of the variance, a share is  *)
(* in percent of the variance, a loss is in units of weight times return.  *)
(***************************************************************************)
EXTENDS PortfolioPaths

CONSTANT Scenarios  \* the shocks of each scenario, by its id

(* The k largest of the losses, one by one, added up.                      *)
WorstLosses(losses, k) ==
    LET rank(s) == 1 + Cardinality({r \in DOMAIN losses :
                       \/ losses[r] > losses[s]
                       \/ losses[r] = losses[s] /\ r < s})
        worst   == {s \in DOMAIN losses : rank(s) <= k}
    IN  Total([s \in worst |-> losses[s]])

(* scenario_count * (1 - confidence), rounded half away, at least one; a    *)
(* confidence is in thousandths.                                           *)
TailCount(scenarios, confidence) ==
    LET rounded == (2 * scenarios * (1000 - confidence) + 1000) \div 2000
    IN  IF rounded < 1 THEN 1 ELSE rounded

PortfolioVolatility(model, portfolio) ==
    Root(AtLeast(PortfolioVariance(model, portfolio), 0))

(* Signed: the factor that drives the risk most.                           *)
MaxFactorShare(model, portfolio) ==
    LET variance == PortfolioVariance(model, portfolio)
        parts    == FactorContributions(model, portfolio)
    IN  IF variance <= 0 THEN 0
        ELSE Max({(100 * parts[k]) \div variance : k \in Factors})

MaxPositionWeight(portfolio) ==
    Max({portfolio.weights[i] : i \in Holdings(portfolio)})

(* portfolio_cvar_95, times the number of losses it averages.              *)
PortfolioCvar95(portfolio, data) ==
    LET n == CommonLength(data, portfolio)
        steps == WeightedSteps(data, portfolio, n)
        k == Smaller(TailCount(n, 950), n)
    IN  WorstLosses([s \in 1 .. n |-> -steps[s]], k) \div k

(* scenario_loss_pct: the size of the result, whatever its sign.           *)
ScenarioLoss(data, model, portfolio, id) ==
    LET run == RunFactorShock(data, model, portfolio,
                   [shocks |-> Scenarios[id], propagate |-> FALSE,
                    linear |-> FALSE, unknownFactor |-> FALSE])
    IN  Magnitude(run.primary.pnl) \div portfolio.value

Check(rule, limit, actual) ==
    [rule |-> rule, limit |-> limit, actual |-> actual,
     passed |-> actual <= limit,
     magnitude |-> IF actual <= limit THEN 0 ELSE Magnitude(actual - limit)]

Verdict(checks) ==
    LET breached == {c \in checks : ~c.passed}
    IN  [outcome |-> "ok", checks |-> checks,
         breached |-> {c.rule : c \in breached},
         allPassed |-> breached = {}]

(* evaluate_policy: one check for each limit that is set, in this order;   *)
(* a scenario it does not know fails the whole evaluation.                 *)
EvaluatePolicy(policy, data, model, portfolio) ==
    LET when(limit, rule, actual) ==
          IF limit = Unset THEN {} ELSE {Check(rule, limit, actual)}
    IN  IF \/ DOMAIN policy.scenarios \ DOMAIN Scenarios # {}
           \/ portfolio.tickers # model.tickers /\ DOMAIN policy.scenarios # {}
        THEN Failed("error")
        ELSE Verdict(
          when(policy.maxVol, "max_vol_annualized",
                 PortfolioVolatility(model, portfolio))
          \cup when(policy.maxCvar, "max_cvar_95", PortfolioCvar95(portfolio, data))
          \cup when(policy.maxShare, "max_factor_contribution_share",
                 MaxFactorShare(model, portfolio))
          \cup when(policy.maxWeight, "max_position_weight",
                 MaxPositionWeight(portfolio))
          \cup {Check(id, policy.scenarios[id],
                      ScenarioLoss(data, model, portfolio, id)) :
                  id \in DOMAIN policy.scenarios})

(* run_policy_check                                                        *)
RunPolicyCheck(policy, data, model, portfolio) ==
    LET result == EvaluatePolicy(policy, data, model, portfolio)
    IN  IF portfolio.tickers # model.tickers \/ result.outcome # "ok"
        THEN Failed("error")
        ELSE [outcome |-> "ok", result |-> result,
              volatility |-> PortfolioVolatility(model, portfolio),
              cvar95     |-> PortfolioCvar95(portfolio, data),
              share      |-> MaxFactorShare(model, portfolio),
              position   |-> MaxPositionWeight(portfolio)]
=============================================================================
