--------------------------- MODULE ReverseStress ----------------------------
(***************************************************************************)
(* compute/reverse_stress.rs: the least severe shock within bounds that    *)
(* loses a given amount.  The descent that improves the shock visits only  *)
(* points it has projected into the bounds, so it is given by where it may *)
(* stop, any point of the box; the projection that ends it is modelled.    *)
(*                                                                         *)
(* A shock gives each factor a whole logarithm, so a ray from the origin   *)
(* is walked in multiples of its shortest step.  Slope is the derivative   *)
(* of LogToSimple at nothing, Unit * ln 2, rounded down: not below half    *)
(* the unit.                                                               *)
(***************************************************************************)
EXTENDS FactorExperiments

CONSTANTS NaN,
          Slope,
          MaxScale,          \* how far along a ray scale_to_breach looks
          Rounds,            \* max_rounds of project_to_feasible
          DefaultBounds      \* default_factor_bounds

(* The simple returns with a whole logarithm; all is lost at -Unit.        *)
HasLog(simple) == simple # -Unit /\ \E r \in -6 .. 6 : LogToSimple(r) = simple

ASSUME StressAssumption ==
    /\ NaN \notin Int
    /\ Slope \in Unit - (Unit \div 2) .. Unit
    /\ \A k \in Factors : HasLog(DefaultBounds[k].lower) /\ HasLog(DefaultBounds[k].upper)
    /\ MaxScale \in Nat \ {0}
    /\ Rounds \in Nat \ {0}

(* The bounds of each factor, simple returns: the given ones, else the     *)
(* default ones.                                                           *)
BoundsUsed(given) ==
    ByFactor([k \in Factors |->
        IF k \in DOMAIN given THEN given[k] ELSE DefaultBounds[k]])

(* simple_to_log: ln(1 + x), not a number below the loss of everything.    *)
ToLog(simple) == IF simple < -Unit THEN NaN ELSE SimpleToLog(simple)

LogBounds(bounds) ==
    ByFactor([k \in Factors |-> [lower |-> ToLog(bounds[k].lower),
                                 upper |-> ToLog(bounds[k].upper)]])

(* clamp panics on a bound that is not a number.                           *)
Unclampable(logs) == \E k \in Factors : NaN \in {logs[k].lower, logs[k].upper}

(* The shocks within the bounds, in logs from here on.                     *)
Box(bounds) ==
    IF Unclampable(bounds) THEN {}
    ELSE {s \in [Factors -> UNION {bounds[k].lower .. bounds[k].upper : k \in Factors}] :
             \A k \in Factors : s[k] \in bounds[k].lower .. bounds[k].upper}

Clamp(s, bounds) ==
    ByFactor([k \in Factors |-> IF s[k] < bounds[k].lower THEN bounds[k].lower
                        ELSE IF s[k] > bounds[k].upper THEN bounds[k].upper ELSE s[k]])

NonlinearPnl(model, portfolio, s) ==
    Total([i \in Holdings(portfolio) |-> ValueOf(portfolio, i) *
        LogToSimple(Total([k \in Factors |-> model.betas[i][k] * s[k]]))])

LinearPnl(model, portfolio, s) ==
    Slope * portfolio.value *
        Total([k \in Factors |-> Exposure(model, portfolio)[k] * s[k]])

(* A mistake: a factor the portfolio gains on counts as one it loses on.   *)
LowerCorner(model, portfolio, bounds) ==
    ByFactor([k \in Factors |-> bounds[k].lower])

(* The corner of the box that loses most by the linear measure.            *)
WorstCorner(model, portfolio, bounds) ==
    LET p == Exposure(model, portfolio)
    IN  ByFactor([k \in Factors |->
            IF p[k] >= 0 THEN bounds[k].lower ELSE bounds[k].upper])

Still(s) == \A k \in Factors : s[k] = 0

Scaled(t, s) == ByFactor([k \in Factors |-> t * s[k]])

(* The shortest whole step along the ray through a shock.                  *)
Direction(s) ==
    LET divides(d) == \A k \in Factors : Magnitude(s[k]) % d = 0
        longest == Max({Magnitude(s[k]) : k \in Factors})
        common  == Max({d \in 1 .. longest : divides(d)})
    IN  ByFactor([k \in Factors |-> IF s[k] < 0 THEN -(Magnitude(s[k]) \div common)
                            ELSE s[k] \div common])

(* scale_to_breach: the first shock of the ray that loses the amount, the  *)
(* last one of those tried if none does; a shock of nothing is left alone. *)
ScaleToBreach(model, portfolio, s, loss) ==
    LET step == Direction(s)
    IN  IF Still(s) THEN s
        ELSE Scaled(Min({MaxScale} \cup {t \in 1 .. MaxScale :
                        NonlinearPnl(model, portfolio, Scaled(t, step)) <= -loss}),
                    step)


(* project_to_feasible: scale and clip by turns.                           *)
ProjectToFeasible(model, portfolio, s, bounds, loss) ==
    LET current[m \in 0 .. Rounds] ==
          IF m = 0 THEN Clamp(s, bounds)
          ELSE Clamp(ScaleToBreach(model, portfolio, current[m - 1], loss), bounds)
    IN  current[Rounds]

(* The linear loss of that corner is compared: never so with a NaN in it.  *)
Refused(model, portfolio, bounds, loss) ==
    LET corner == WorstCorner(model, portfolio, bounds)
    IN  /\ \A k \in Factors : corner[k] # NaN
        /\ LinearPnl(model, portfolio, corner) > -loss

(* What is reported of a shock: its result and that of each holding, the   *)
(* three holdings that lose most, and whether it breaches.                 *)
StressReport(model, portfolio, shock, input) ==
    LET pnl(i) == NonlinearPnl(model, [portfolio EXCEPT
                      !.weights = [j \in DOMAIN @ |-> IF j = i THEN @[j] ELSE 0]], shock)
        ahead(i, j) == \/ pnl(j) < pnl(i)
                       \/ pnl(j) = pnl(i) /\ j < i
    IN  [outcome |-> "ok",
         shock   |-> shock,
         pnl     |-> NonlinearPnl(model, portfolio, shock),
         bounds  |-> BoundsUsed(input.bounds),
         loss    |-> input.loss,
         breached   |-> NonlinearPnl(model, portfolio, shock) <= -input.loss,
         vulnerable |-> {i \in Holdings(portfolio) :
                            Cardinality({j \in Holdings(portfolio) : ahead(i, j)}) < 3},
         attribution |-> ByFactor([k \in Factors |->
             portfolio.value * Exposure(model, portfolio)[k] * shock[k]])]

(* run_reverse_stress, for the point at which the descent stopped.         *)
RunReverseStress(model, portfolio, input, stopped) ==
    LET bounds == BoundsUsed(input.bounds)
        logs   == LogBounds(bounds)
    IN  IF \/ portfolio.tickers # model.tickers
           \/ input.loss <= 0
           \/ \E k \in Factors : bounds[k].lower > bounds[k].upper
        THEN Failed("error")
        ELSE IF Refused(model, portfolio, logs, input.loss) THEN Failed("refused")
        ELSE IF Unclampable(logs) THEN Failed("panic")
        ELSE StressReport(model, portfolio,
                 ProjectToFeasible(model, portfolio, stopped, logs, input.loss), input)
=============================================================================
