--------------------------- MODULE MCExperiments ----------------------------
(***************************************************************************)
(* Small markets and portfolios for ExperimentRun.  Six days, weeks of two *)
(* days, two holdings; each market has one peculiarity of its prices, or   *)
(* of what the fits make of them.                                          *)
(***************************************************************************)
EXTENDS ExperimentChecks, TLC

Series(closes) == [d \in 1 .. Len(closes) |-> closes[d]]
Without(raw, s, days) ==
    [raw EXCEPT ![s] = [d \in DOMAIN raw[s] \ days |-> raw[s][d]]]

MCLnFloor == -60
MCLogWeight == (0 :> -60) @@ (1 :> 0) @@ (2 :> 1) @@ (4 :> 2) @@ (8 :> 3)
MCScenarios == [crash |-> (1 :> -2), rupee |-> (2 :> 1) @@ (4 :> -1)]
Within(low, high) == [lower |-> LogToSimple(low), upper |-> LogToSimple(high)]
MCDefaultBounds == [k \in 1 .. 5 |->
    IF k = 1 THEN Within(-2, 0) ELSE IF k = 2 THEN Within(-1, 1) ELSE Within(0, 0)]

Full == [MARKET   |-> Series(<<0, 1, 0, -1, 0, 1>>),
         USDINR   |-> Series(<<0, 0, 1, 1, 0, 0>>),
         BRENT    |-> Series(<<0, 1, 1, 0, 0, 1>>),
         GOLD_USD |-> Series(<<0, 0, -1, 0, 0, -1>>),
         BANK     |-> Series(<<0, 1, 1, 0, 1, 1>>),
         A        |-> Series(<<0, 1, 1, 0, 0, 1>>),
         B        |-> Series(<<0, -1, 0, 0, 1, 0>>)]
Uneven == <<0, 2, 1, 1, 4, 4>>   \* moves of four sizes

(***************************************************************************)
(* What the fits converge to                                               *)
(***************************************************************************)
Observable == -4 .. 4
Density(weights) == [o \in Observable |-> weights[o + 5]]
Calm == [initial    |-> <<1, 1, 0>>,
         transition |-> << <<1, 1, 0>>, <<0, 1, 1>>, <<1, 0, 1>> >>,
         density    |-> << Density(<<0, 0, 0, 1, 4, 8, 4, 1, 0>>),
                           Density(<<0, 1, 2, 4, 4, 2, 2, 1, 0>>),
                           Density(<<2, 2, 2, 2, 1, 1, 1, 1, 1>>) >>,
         variance   |-> <<1, 2, 5>>]
Panicked == [Calm EXCEPT !.density[3] = Density(<<8, 8, 8, 8, 8, 8, 8, 8, 8>>)]
(* A fall that the best state of the day before cannot lead to.            *)
Sudden   == [Calm EXCEPT
    !.density = << Density(<<0, 0, 0, 0, 8, 8, 8, 8, 8>>),
                   Density(<<0, 0, 0, 0, 1, 1, 1, 1, 1>>),
                   Density(<<8, 8, 8, 8, 0, 0, 0, 0, 0>>) >>]
(* Two states that are as likely at the end.                               *)
Between  == [Calm EXCEPT
    !.initial = <<1, 1, 0>>,
    !.transition = << <<1, 1, 0>>, <<1, 1, 0>>, <<1, 0, 1>> >>,
    !.density[2] = Calm.density[1]]
Shuffled == Renumbered(Calm, <<3, 1, 2>>)

Gram(rows) == [i \in 1 .. 5 |-> [j \in 1 .. 5 |->
                  Total([k \in 1 .. 5 |-> rows[i][k] * rows[j][k]])]]
Loose == Gram(<< <<1, 0, 0, 0, 0>>, <<-1, 1, 0, 0, 0>>, <<0, 1, 1, 0, 0>>,
                 <<1, 0, 0, 1, 0>>, <<0, 0, 0, 0, 1>> >>)
Tied  == Gram(<< <<2, 0, 0, 0, 0>>, <<-2, 1, 0, 0, 0>>, <<2, 1, 1, 0, 0>>,
                 <<0, 0, 1, 1, 0>>, <<0, 0, 0, 0, 1>> >>)
Plain == Gram(<< <<1, 0, 0, 0, 0>>, <<0, 1, 0, 0, 0>>, <<0, 0, 1, 0, 0>>,
                 <<0, 0, 0, 1, 0>>, <<0, 0, 0, 0, 1>> >>)

Kernels == [betas    |-> [A |-> <<2, 0, 1, 0, 0>>, B |-> <<1, -1, 0, 1, 0>>],
            residual |-> [A |-> 1, B |-> 2],
            own      |-> <<Loose, Plain, Tied>>,
            whole    |-> Plain]
Hedged == [Kernels EXCEPT !.betas = [A |-> <<1, 1, 0, 0, 0>>, B |-> <<-1, 0, 0, 0, 1>>],
                          !.residual = [A |-> 2, B |-> 1]]

Market(raw, hmm, estimates) == [raw |-> raw, hmm |-> hmm, estimates |-> estimates]
MarketsOf(full, calm, panicked, kernels, hedged) ==
    [whole    |-> Market(full, calm, kernels),
     panicked |-> Market(full, panicked, kernels),
     between  |-> Market(full, Between, hedged),
     shuffled |-> Market(full, Shuffled, kernels),
     listed   |-> Market(Without(full, "B", 1 .. 3), calm, kernels),
     filled   |-> Market(Without(Without(full, "A", {3}), "BRENT", {4}), calm, kernels),
     gap      |-> Market(Without(full, "B", {3, 4}), panicked, kernels),
     ended    |-> Market(Without(full, "A", {5, 6}), calm, kernels),
     lastOnly |-> Market(Without(full, "B", 1 .. 5), calm, kernels),
     late     |-> Market(Without(full, "GOLD_USD", {1}), calm, kernels),
     holed    |-> Market(Without(full, "BRENT", {3, 4}), calm, kernels),
     sudden   |-> Market(full, Sudden, kernels),
     offDays  |-> Market(Without(full, "MARKET", {2}), panicked, hedged),
     uneven   |-> Market([full EXCEPT !.MARKET = Series(Uneven)], calm, kernels)]
MCMarkets == MarketsOf(Full, Calm, Panicked, Kernels, Hedged)

(***************************************************************************)
(* Requests                                                                *)
(***************************************************************************)
Pair == [tickers |-> <<"A", "B">>, weights |-> <<3, 1>>, value |-> 2]
Even == [tickers |-> <<"A", "B">>, weights |-> <<2, 2>>, value |-> 1]
Lone == [tickers |-> <<"B">>, weights |-> <<4>>, value |-> 1]

Shock(shocks, propagate, linear) ==
    [shocks |-> shocks, propagate |-> propagate, linear |-> linear,
     unknownFactor |-> FALSE]
Policy(vol, cvar, share, weight, scenarios) ==
    [maxVol |-> vol, maxCvar |-> cvar, maxShare |-> share, maxWeight |-> weight,
     scenarios |-> scenarios]
NoScenario == [id \in {} |-> 0]
Easy   == Policy(400, 100, 1000, 4, [crash |-> 100])
Strict == Policy(20, 4, 30, 2, [crash |-> 1, rupee |-> 40])
Misnamed == Policy(Unset, Unset, Unset, Unset, [boom |-> 1])
Capped == Policy(Unset, 9, Unset, 3, NoScenario)
LowTail   == Policy(400, 5, Unset, Unset, NoScenario)

Plea(kind, market, input) ==
    [kind |-> kind, market |-> market, portfolio |-> Pair, word |-> "daily",
     window |-> Unset, policy |-> Unset, baseline |-> Unset, input |-> input]

Down == Shock((1 :> -1), TRUE, FALSE)
Shocks ==
    {Down,
     Shock((1 :> -1), FALSE, FALSE),
     Shock((1 :> 1) @@ (2 :> -1), TRUE, FALSE),
     Shock((1 :> -1) @@ (2 :> 0) @@ (3 :> 1), TRUE, FALSE),
     Shock([k \in {} |-> 0], TRUE, FALSE),
     Shock([k \in 1 .. 5 |-> IF k = 3 THEN 1 ELSE 0], TRUE, FALSE),
     Shock((1 :> -4), FALSE, TRUE),
     Shock((1 :> 8) @@ (2 :> 0) @@ (3 :> -4) @@ (4 :> -4), TRUE, TRUE),
     [Down EXCEPT !.unknownFactor = TRUE]}

Names == DOMAIN MCMarkets
ShockPleas ==
    {Plea("FactorShock", m, s) : m \in {"whole", "panicked"}, s \in Shocks}
    \cup {[Plea("FactorShock", m, Down) EXCEPT !.window = w, !.word = f] :
             m \in Names, w \in {Unset, 2, 4}, f \in {"daily", "weekly"}}
    \cup {[Plea("FactorShock", "whole", Down) EXCEPT !.window = w] :
             w \in {1, 5, 6, 7}}
    \cup {[Plea("FactorShock", "whole", Down) EXCEPT !.policy = p] :
             p \in {Easy, Strict, Misnamed}}

RiskPleas ==
    {[Plea("RiskDecomposition", m, Unset) EXCEPT !.portfolio = p, !.word = f] :
        m \in {"whole", "panicked", "between"}, p \in {Pair, Even, Lone},
        f \in {"daily", "weekly"}}
    \cup {[Plea("RiskDecomposition", "whole", Unset) EXCEPT !.policy = Strict]}

PerformancePleas ==
    {[Plea("PortfolioPerformance", m, Unset) EXCEPT !.window = w, !.word = f] :
        m \in {"whole", "listed", "gap", "lastOnly"}, w \in {Unset, 0, 1, 4, 7},
        f \in {"daily", "weekly"}}
    \cup {[Plea("PortfolioPerformance", m, Unset) EXCEPT !.policy = p, !.window = w] :
             m \in {"whole", "panicked"}, p \in {Easy, Misnamed}, w \in {1, 3}}

Rebalance(p, cap, turnover, confidence, window, policy) ==
    [portfolio |-> p, cap |-> cap, turnover |-> turnover, confidence |-> confidence,
     window |-> window, policy |-> policy, frequency |-> "daily", failing |-> {}]
Rebalances ==
    {Rebalance(Pair, c, t, q, Unset, Unset) :
        c \in {Unset, 1, 2, 4}, t \in {0, 2, 8}, q \in {500, 950}}
    \cup {Rebalance(Pair, 4, 8, 400, w, p) :
             w \in {1, 4}, p \in {Unset, Easy, Strict, Capped}}
    \cup {[Rebalance(Even, 4, 8, 400, Unset, p) EXCEPT !.failing = n] :
             p \in {Strict, Capped}, n \in {{}, {0}, {1}, {2}}}
    \cup {[Rebalance(Pair, 4, 8, 600, Unset, LowTail) EXCEPT !.failing = n] :
             n \in {{}, {1}, {2}}}
    \cup {Rebalance(Pair, 5, 8, 400, Unset, Unset), Rebalance(Pair, 4, 8, 1000, Unset, Unset)}
RebalancePleas ==
    {[Plea("CvarRebalance", m, i) EXCEPT !.portfolio = i.portfolio] :
        m \in {"whole", "gap"}, i \in Rebalances}
    \cup {Plea("CvarRebalance", "lastOnly", Rebalance(Pair, 4, 8, 400, Unset, Unset))}

Bounds(market, rupee) ==
    (1 :> Within(market[1], market[2])) @@ (2 :> Within(rupee[1], rupee[2]))
(* Below the loss of everything there is no logarithm.                     *)
Beyond == {1 :> [lower |-> -9, upper |-> 0],
           (1 :> Within(0, 0)) @@ (2 :> [lower |-> -9, upper |-> 0]),
           2 :> [lower |-> -10, upper |-> -9],
           1 :> [lower |-> -9, upper |-> -10]}
StressPleas ==
    {[Plea("ReverseStress", m, [loss |-> l, bounds |-> b]) EXCEPT !.portfolio = p] :
        m \in {"whole", "between"}, l \in {0, 6, 20, 40, 60},
        b \in {Bounds(<<-2, 1>>, <<-1, 2>>), [k \in {} |-> 0],
               Bounds(<<-1, -1>>, <<0, 3>>), Bounds(<<1, -1>>, <<0, 0>>),
               Bounds(<<0, 0>>, <<-1, 1>>)} \cup Beyond,
        p \in {Pair, Even}}
    \cup {[Plea("ReverseStress", "whole", [loss |-> 6, bounds |-> [k \in {} |-> 0]])
             EXCEPT !.word = w, !.policy = Strict] : w \in {"hourly", "none"}}

(* More than any shock within the default bounds loses, less than the      *)
(* linear measure of the worst one.                                        *)
OverestimatedSessions ==
    {<<[Plea("ReverseStress", "whole", [loss |-> 63, bounds |-> [k \in {} |-> 0]])
          EXCEPT !.word = w]>> : w \in {"daily", "weekly"}}

PolicyPleas ==
    {[Plea("PolicyCheck", m, p) EXCEPT !.word = w] :
        m \in {"whole", "between", "lastOnly"}, p \in {Easy, Strict, Misnamed, Capped},
        w \in {"none", "weekly", "hourly"}}

Decomposed(m, p) == [Plea("RiskDecomposition", m, Unset) EXCEPT !.portfolio = p]
Drift(m, p, id) ==
    [Plea("RiskDrift", m, Unset) EXCEPT !.portfolio = p, !.baseline = id, !.word = "none"]

MCSessions ==
    {<<r>> : r \in ShockPleas \cup RiskPleas \cup PerformancePleas
                      \cup RebalancePleas \cup StressPleas \cup PolicyPleas}
    \cup {<<Decomposed(m, p), Drift(n, q, id)>> :
             m \in {"whole", "between"}, n \in {"whole", "between", "panicked", "holed"},
             p \in {Pair, Even}, q \in {Pair, Even}, id \in {Unset, 1, 2}}
    \cup {<<Decomposed("whole", Pair), Plea("FactorShock", "whole", Down),
            Drift("panicked", Pair, id)>> : id \in {Unset, 1}}
=============================================================================
