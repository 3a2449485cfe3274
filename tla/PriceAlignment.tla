--------------------------- MODULE PriceAlignment ---------------------------
(***************************************************************************)
(* compute/data.rs after the cache: the raw series of the holdings and of  *)
(* the five factor tickers are put on the calendar of the market index,    *)
(* short gaps are filled, the history is trimmed, and daily or weekly log  *)
(* returns are taken.  A raw series is a function from dates (naturals) to *)
(* the base 2 logarithm of its close, so that a log return is a difference *)
(* of integers and a simple return is exact.                               *)
(***************************************************************************)
EXTENDS Integers, FiniteSets, Sequences, FiniteSetsExt

CONSTANTS None,            \* a slot of the calendar without a close
          MaxForwardFill,  \* MAX_FORWARD_FILL_DAYS
          WeekDays         \* how many consecutive dates make a week

ASSUME AlignmentAssumption ==
    /\ MaxForwardFill \in Nat
    /\ WeekDays \in Nat \ {0}
    /\ None \notin Int

FactorNames == <<"MARKET", "USDINR", "BRENT", "GOLD_USD", "RATES_PROXY">>
FactorTickers == {"MARKET", "USDINR", "BRENT", "GOLD_USD", "BANK"}

Week(date) == (date - 1) \div WeekDays

(* The members of a set of numbers, in order.                              *)
Ascending(S) == [i \in 1 .. Cardinality(S) |->
    CHOOSE n \in S : Cardinality({m \in S : m < n}) = i - 1]

Calendar(series) == Ascending(DOMAIN series)

(* What the loop of align_to_calendar holds after each date: the last      *)
(* close seen, the length of the gap, and the close of the slot.           *)
AlignToCalendar(series, calendar) ==
    LET walk[i \in 0 .. Len(calendar)] ==
          IF i = 0 THEN [last |-> None, gap |-> 0, close |-> None]
          ELSE LET before == walk[i - 1]
                   gap == before.gap + 1
               IN  IF calendar[i] \in DOMAIN series
                   THEN [last |-> series[calendar[i]], gap |-> 0,
                         close |-> series[calendar[i]]]
                   ELSE [last |-> before.last, gap |-> gap,
                         close |-> IF gap <= MaxForwardFill
                                   THEN before.last ELSE None]
    IN  [i \in 1 .. Len(calendar) |-> walk[i].close]

Missing(closes) == {i \in DOMAIN closes : closes[i] = None}

(* The first slot at which every factor has a close; past the end if none. *)
StartIndex(aligned, slots) ==
    Min({slots + 1} \cup
        {i \in 1 .. slots : \A f \in FactorTickers : aligned[f][i] # None})

TrailingNonNoneRun(closes) ==
    SubSeq(closes, 1 + Max({0} \cup Missing(closes)), Len(closes))

LogReturns(closes) ==
    [i \in 1 .. Len(closes) - 1 |-> closes[i + 1] - closes[i]]

Failed(reason) == [outcome |-> reason]

(* A holding whose last close is missing is refused by name; a factor with *)
(* a hole after the trim, or a calendar trimmed to nothing, panics.        *)
LoadAlignedPrices(raw, tickers) ==
    LET calendar == Calendar(raw["MARKET"])
        aligned  == [s \in tickers \cup FactorTickers |->
                         AlignToCalendar(raw[s], calendar)]
        start    == StartIndex(aligned, Len(calendar))
        kept     == [s \in DOMAIN aligned |->
                         SubSeq(aligned[s], start, Len(calendar))]
        stocks   == [t \in tickers |-> TrailingNonNoneRun(kept[t])]
    IN  IF \E t \in tickers : stocks[t] = <<>> THEN Failed("error")
        ELSE IF \/ \E f \in FactorTickers : Missing(kept[f]) # {}
                \/ start > Len(calendar)
        THEN Failed("panic")
        ELSE [outcome |-> "ok",
              dates   |-> SubSeq(calendar, start, Len(calendar)),
              stocks  |-> stocks,
              factors |-> [f \in FactorTickers |-> kept[f]]]

(* The slots of the last date of each week.                                *)
WeeklyResampleIndices(dates) ==
    {i \in DOMAIN dates : i = Len(dates) \/ Week(dates[i + 1]) # Week(dates[i])}

(* A mistake this definition could have: the index of the calendar is used *)
(* in a series that starts later.                                          *)
ResampleFromStart(closes, indices, slots) ==
    LET own == Ascending(indices \cap 1 .. Len(closes))
    IN  [k \in DOMAIN own |-> closes[own[k]]]

(* A series shorter than the calendar ends where the calendar ends.        *)
Resample(closes, indices, slots) ==
    LET offset == slots - Len(closes)
        own    == Ascending(indices \ 1 .. offset)
    IN  [k \in DOMAIN own |-> closes[own[k] - offset]]

ToReturns(prices, frequency) ==
    LET slots   == Len(prices.dates)
        indices == IF frequency = "weekly"
                   THEN WeeklyResampleIndices(prices.dates) ELSE 1 .. slots
        kept    == Ascending(indices)
        at(closes) == LogReturns(Resample(closes, indices, slots))
        market == at(prices.factors["MARKET"])
        bank   == at(prices.factors["BANK"])
    IN  [outcome |-> "ok",
         dates   |-> [k \in DOMAIN kept |-> prices.dates[kept[k]]],
         stocks  |-> [t \in DOMAIN prices.stocks |-> at(prices.stocks[t])],
         factors |-> [f \in {FactorNames[k] : k \in DOMAIN FactorNames} |->
                         IF f = "RATES_PROXY"
                         THEN [i \in DOMAIN market |-> bank[i] - market[i]]
                         ELSE at(prices.factors[f])]]

LoadMarketData(raw, tickers, frequency) ==
    LET prices == LoadAlignedPrices(raw, tickers)
    IN  IF prices.outcome = "ok" THEN ToReturns(prices, frequency) ELSE prices
=============================================================================
