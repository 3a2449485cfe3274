--------------------------- MODULE CvarRebalance ----------------------------
(***************************************************************************)
(* compute/cvar.rs: the rebalance that minimizes the conditional value at  *)
(* risk over the historical scenarios, and the loop that solves it again   *)
(* at a tighter confidence while the policy is breached.                   *)
(*                                                                         *)
(* The linear program is given by what its variables range over: weights   *)
(* in steps of 1 / Whole, and a threshold zeta among the losses, where the *)
(* minimum of its objective lies.  The solver returns one of the optima,   *)
(* or gives up: input.failing holds the attempts (0 the first) it fails.   *)
(***************************************************************************)
EXTENDS RiskPolicy

CONSTANTS MaxRemediations,   \* MAX_REMEDIATION_ITERATIONS
          ConfidenceStep,    \* REMEDIATION_CONFIDENCE_STEP, in thousandths
          DefaultCap         \* DEFAULT_PER_NAME_CAP, in units of 1 / Whole

ASSUME RebalanceAssumption ==
    /\ MaxRemediations \in Nat
    /\ ConfidenceStep \in Nat \ {0}
    /\ DefaultCap \in 1 .. Whole

(* The loss of each scenario of the window, the last one at the end.       *)
Losses(data, portfolio, window) ==
    LET steps == WeightedSteps(data, portfolio, window)
    IN  [s \in 1 .. window |-> -steps[s]]

(* historical_stats: the k-th worst loss, and the k worst added up.        *)
HistoricalStats(losses, k) ==
    LET n == Smaller(k, Len(losses))
    IN  [var  |-> WorstLosses(losses, n) - WorstLosses(losses, n - 1),
         tail |-> WorstLosses(losses, n)]

Excess(loss, zeta) == IF loss > zeta THEN loss - zeta ELSE 0

(* A mistake: the excesses are not averaged over the tail.                 *)
ObjectiveUnscaled(losses, k) ==
    Min({losses[z] + Total([s \in DOMAIN losses |-> Excess(losses[s], losses[z])]) :
            z \in DOMAIN losses})

(* k * zeta + the excesses, at the best zeta: k times the objective.       *)
Objective(losses, k) ==
    Min({k * losses[z] + Total([s \in DOMAIN losses |-> Excess(losses[s], losses[z])]) :
            z \in DOMAIN losses})

Turnover(before, after) ==
    Total([i \in DOMAIN before |-> Magnitude(after[i] - before[i])])

Feasible(before, cap, limit) ==
    {w \in [DOMAIN before -> 0 .. cap] :
        Total(w) = Whole /\ Turnover(before, w) <= limit}

Reweighted(portfolio, weights) == [portfolio EXCEPT !.weights = weights]

(* One run without a policy, up to the solution.                           *)
Solve(data, input, window, confidence, attempt) ==
    LET portfolio == input.portfolio
        before == portfolio.weights
        cap  == IF input.cap = Unset THEN DefaultCap ELSE input.cap
        k    == TailCount(window, confidence)
        over == Total([i \in DOMAIN before |->
                          IF before[i] > cap THEN before[i] - cap ELSE 0])
        lossesOf(w) == Losses(data, Reweighted(portfolio, w), window)
        choices == Feasible(before, cap, input.turnover)
        best == CHOOSE w \in choices : \A v \in choices :
                    Objective(lossesOf(w), k) <= Objective(lossesOf(v), k)
    IN  IF cap \notin 1 .. Whole THEN Failed("error")
        ELSE IF \/ cap * Len(before) < Whole    \* the caps cannot add up
                \/ 2 * over > input.turnover    \* the forced sales cost too much
                \/ choices = {}
        THEN Failed("infeasible")
        ELSE IF attempt \in input.failing THEN Failed("failed")
        ELSE [outcome  |-> "optimal",
              weights  |-> best,
              stats    |-> HistoricalStats(lossesOf(best), k),
              turnover |-> Turnover(before, best),
              objective |-> Objective(lossesOf(best), k)]

(* A mistake: the weights of a retry with the verdict on the last ones.    *)
ImprovedUnjudged(held, confidence, solution, result) ==
    [held EXCEPT !.confidence = confidence, !.solution = solution, !.tries = @ + 1]

(* A retry that was solved replaces everything that is reported.           *)
Improved(held, confidence, solution, result) ==
    [confidence |-> confidence, solution |-> solution, result |-> result,
     tries |-> held.tries + 1, stuck |-> FALSE]

(* The remediation loop: what it holds after at most m tries.              *)
Remediate(data, input, window, model, first) ==
    LET judged(solution) ==
          EvaluatePolicy(input.policy, data, model,
                         Reweighted(input.portfolio, solution.weights))
        loop[m \in 0 .. MaxRemediations] ==
          IF m = 0 THEN [confidence |-> input.confidence, solution |-> first,
                         result |-> judged(first), tries |-> 0, stuck |-> FALSE]
          ELSE LET held   == loop[m - 1]
                   tighter == Smaller(held.confidence + ConfidenceStep, 999)
                   retry  == Solve(data, input, window, tighter, m)
               IN  IF held.result.allPassed \/ held.stuck THEN held
                   ELSE IF retry.outcome # "optimal"
                   THEN [held EXCEPT !.tries = @ + 1, !.stuck = TRUE]
                   ELSE Improved(held, tighter, retry, judged(retry))
    IN  loop[MaxRemediations]

(* How many of the scenarios of the holdings are looked at.                *)
WindowUsed(data, input) ==
    LET total == CommonLength(data, input.portfolio)
    IN  IF input.window = Unset THEN total
        ELSE Max({1, Smaller(input.window, total)})

(* What a run starts from: its window, the tail counted, the model of the  *)
(* regime, and the policy it holds to, if that can be judged at all.       *)
Prepared(data, input, window, model) ==
    LET policed == input.policy # Unset /\ model.outcome = "ok"
    IN  [window  |-> window,
         k       |-> TailCount(window, input.confidence),
         model   |-> model,
         policed |-> policed,
         before  |-> IF policed
                     THEN EvaluatePolicy(input.policy, data, model, input.portfolio)
                     ELSE Failed("none")]

(* The output of a run: what it held last, or why there was no solution.   *)
Report(data, input, prepared, initial, status, held) ==
    LET judged == prepared.policed /\ status = "optimal"
    IN  [outcome |-> "ok", status |-> status,
         window  |-> prepared.window, tailCount |-> prepared.k,
         confidence |-> held.confidence, solution |-> held.solution,
         before  |-> HistoricalStats(Losses(data, input.portfolio, prepared.window),
                                     prepared.k),
         regime  |-> IF prepared.model.outcome = "ok"
                     THEN [outcome |-> "ok", regime |-> prepared.model.regime]
                     ELSE Failed("none"),
         policyBefore |-> prepared.before,
         policyAfter  |-> held.result,
         resolved  |-> IF judged THEN initial.breached \ held.result.breached ELSE {},
         remaining |-> IF judged THEN held.result.breached ELSE {},
         tries     |-> held.tries]

(* A run with what it starts from and its first solution.                  *)
Rebalanced(data, input, prepared, first) ==
    LET initial  == EvaluatePolicy(input.policy, data, prepared.model,
                                   Reweighted(input.portfolio, first.weights))
        unjudged == [confidence |-> input.confidence, solution |-> first,
                     result |-> Failed("none"), tries |-> 0]
    IN  IF \/ input.confidence \notin 0 .. 999
           \/ prepared.before.outcome = "error"
           \/ first.outcome = "error"
        THEN Failed("error")
        ELSE Report(data, input, prepared, initial, first.outcome,
                    IF first.outcome = "optimal" /\ prepared.policed
                    THEN Remediate(data, input, prepared.window, prepared.model,
                                   first)
                    ELSE unjudged)

(* run_cvar_rebalance: the model of the regime serves the policy only, and *)
(* the run goes on without a policy where it cannot be fitted.             *)
RunCvarRebalance(data, input, hmm, estimates) ==
    LET window == WindowUsed(data, input)
        model  == FitFactorModel(data, input.portfolio.tickers, window,
                                 input.frequency, hmm, estimates)
    IN  IF CommonLength(data, input.portfolio) = 0
        THEN Failed("panic")                 \* the last close of a holding only
        ELSE Rebalanced(data, input, Prepared(data, input, window, model),
                        Solve(data, input, window, input.confidence, 0))
=============================================================================
