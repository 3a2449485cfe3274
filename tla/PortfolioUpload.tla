---------------------------- MODULE PortfolioUpload ----------------------------
(***************************************************************************)
(* POST /portfolio/upload from the rows of the file to the reply           *)
(* (server::upload), over the lookups of IsinBatch.                        *)
(*                                                                         *)
(* A row is a ticker and an amount: its weight in a file with a weight     *)
(* column, quantity times price in the others.  Weights are counted in     *)
(* units of 1/Scale (1e-6 in the program), to which value-based weights    *)
(* are rounded; a renormalised portfolio keeps its weights as shares of    *)
(* their sum.                                                              *)
(***************************************************************************)
EXTENDS IsinBatch, Sequences, Totals

CONSTANTS Files,       \* the sequences of rows a client may send
          Scale,       \* units in a weight of 1
          Tolerance    \* WEIGHT_SUM_TOLERANCE, in units

ASSUME FilesAssumption ==
    \A rows \in Files : /\ Len(rows) \in Nat
                        /\ DOMAIN rows = 1 .. Len(rows)
                        /\ \A k \in DOMAIN rows : rows[k].amount \in Nat
ASSUME ScaleAssumption == Scale \in Nat \ {0} /\ Tolerance \in Nat

VARIABLES
    file, layout,   \* the rows, and "weight" or "value"
    entries,        \* the holdings read from it, by their rows
    pc,             \* where the handler is
    reply,
    holdings,       \* the portfolio it replied, by the row that brought a ticker
    unit,           \* its weights are counted in shares of this
    renormalized    \* weights_renormalized

uploadVars == <<file, layout, entries, pc, reply, holdings, unit, renormalized>>
vars == <<batchVars, uploadVars>>

Init == /\ BatchInit
        /\ file \in Files
        /\ layout \in {"weight", "value"}
        /\ entries = <<>>
        /\ pc = "reading"
        /\ reply = "none"
        /\ holdings = <<>>
        /\ unit = Scale
        /\ renormalized = FALSE

----------------------------------------------------------------------------
(***************************************************************************)
(* Weights.                                                                *)
(***************************************************************************)
SumOver(portfolio) == Total([k \in DOMAIN portfolio |-> portfolio[k].weight])

AsWeights == [k \in DOMAIN file |-> [ticker |-> file[k].ticker, weight |-> file[k].amount]]

\* round6 of amount / total, for amounts that are not negative.
Rounded(amount, total) ==
    IF total > 0 THEN (2 * amount * Scale + total) \div (2 * total) ELSE 0

\* The residual of the rounding goes into the last row.
ValueWeights ==
    LET total == SumOver(AsWeights)
        rounded == [k \in DOMAIN file |->
                      [ticker |-> file[k].ticker, weight |-> Rounded(file[k].amount, total)]]
        residual == IF total > 0 THEN Scale - SumOver(rounded) ELSE 0
    IN [k \in DOMAIN file |->
          IF k = Len(file) THEN [rounded[k] EXCEPT !.weight = @ + residual] ELSE rounded[k]]

\* A weight of a unit or less is no position.
IsPosition(entry) == entry.weight > 1 \/ entry.weight < -1

Positions == LET all == IF layout = "value" THEN ValueWeights ELSE AsWeights
             IN  [k \in {r \in DOMAIN all : IsPosition(all[r])} |-> all[k]]

----------------------------------------------------------------------------
(***************************************************************************)
(* apply_isin_resolution and what follows it.                              *)
(***************************************************************************)
IsIsin(entry) == entry.ticker \in Isins

Usable(entry) == IsIsin(entry) => Told(entry.ticker).category = "resolved"

TickerOf(entry) == IF IsIsin(entry) THEN Told(entry.ticker).symbol ELSE entry.ticker

UsableRows == {k \in DOMAIN entries : Usable(entries[k])}

RowsOf(ticker) == {k \in UsableRows : TickerOf(entries[k]) = ticker}

\* The usable entry that brings its ticker first takes the weights of the others.
FirstRows == {k \in UsableRows : \A j \in RowsOf(TickerOf(entries[k])) : k <= j}

\* Mutant of WeightOf: a later row of a ticker takes the place of an earlier one.
WeightOfLast(ticker) == LET last == CHOOSE k \in RowsOf(ticker) : \A j \in RowsOf(ticker) : j <= k
                        IN entries[last].weight

WeightOf(ticker) == Total([k \in RowsOf(ticker) |-> entries[k].weight])

Merged == [k \in FirstRows |-> LET ticker == TickerOf(entries[k])
                              IN [ticker |-> ticker, weight |-> WeightOf(ticker)]]

SkippedIsins == {i \in Isins : /\ Told(i).category # "resolved"
                               /\ \E k \in DOMAIN entries : entries[k].ticker = i}

TimedOut == \E i \in SkippedIsins : Told(i).category = "timeout"

----------------------------------------------------------------------------
(***************************************************************************)
(* The replies.                                                            *)
(***************************************************************************)
Answer(how) == /\ pc' = "closed"
               /\ reply' = how
               /\ UNCHANGED <<file, layout, batchVars>>

Refuse(how) == Answer(how) /\ UNCHANGED <<holdings, unit, renormalized>>

\* validate_portfolio, for weights that are shares of whole; the total value is
\* positive as long as a position is left.
ValidWeights(portfolio, whole) ==
    /\ \A k \in DOMAIN portfolio : portfolio[k].weight > 0
    /\ Scale * (SumOver(portfolio) - whole) <= Tolerance * whole
    /\ Scale * (whole - SumOver(portfolio)) <= Tolerance * whole

Validate(portfolio, whole, rescaled) ==
    IF ValidWeights(portfolio, whole)
    THEN /\ Answer("ok")
         /\ holdings' = portfolio
         /\ unit' = whole
         /\ renormalized' = rescaled
    ELSE Refuse("invalid_portfolio")

\* A file that cannot be read, has no rows, no columns or a cell that is no number.
Unreadable == /\ pc = "reading"
              /\ Refuse("bad_request")
              /\ UNCHANGED entries

\* No row holds an ISIN: no lookup, no merging, no rescaling.
PlainFile ==
    /\ pc = "reading"
    /\ LET read == Positions
       IN /\ \A k \in DOMAIN read : ~IsIsin(read[k])
          /\ entries' = read
          /\ IF Cardinality(DOMAIN read) < 2 THEN Refuse("insufficient_holdings")
             ELSE Validate(read, Scale, FALSE)

Resolve ==
    /\ pc = "reading"
    /\ LET read == Positions
           rows == {k \in DOMAIN read : IsIsin(read[k])}
       IN /\ rows # {}
          /\ entries' = read
          /\ Enqueue([k \in rows |-> read[k].ticker])
    /\ pc' = "resolving"
    /\ UNCHANGED <<file, layout, reply, holdings, unit, renormalized>>

LookUp == /\ pc = "resolving"
          /\ BatchNext
          /\ UNCHANGED uploadVars

\* Mutant of TooFew: the file is blamed whatever the lookups met.
TooFewBlamed ==
    /\ pc = "resolving" /\ BatchOver
    /\ Cardinality(FirstRows) < 2
    /\ Refuse("insufficient_holdings")
    /\ UNCHANGED entries

\* Nothing usable: the lookups are to blame, or the file.
TooFew ==
    /\ pc = "resolving" /\ BatchOver
    /\ Cardinality(FirstRows) < 2
    /\ Refuse(IF TimedOut THEN "data_unavailable" ELSE "insufficient_holdings")
    /\ UNCHANGED entries

\* renormalize: shares of their sum, unless that is not positive.
Enough ==
    /\ pc = "resolving" /\ BatchOver
    /\ Cardinality(FirstRows) >= 2
    /\ LET sum == SumOver(Merged)
       IN Validate(Merged, IF sum > 0 THEN sum ELSE Scale, SkippedIsins # {})
    /\ UNCHANGED entries

\* The client goes: the handler is dropped, and its JoinSet aborts the lookups.
Disconnect == /\ pc = "resolving"
              /\ pc' = "closed"
              /\ reply' = "dropped"
              /\ queue' = <<>> /\ flight' = {}
              /\ UNCHANGED <<look, locale, asked, outcome, file, layout,
                             entries, holdings, unit, renormalized>>

Closed == pc = "closed" /\ UNCHANGED vars

HandlerStep == Unreadable \/ PlainFile \/ Resolve \/ TooFew \/ Enough \/ LookUp

Next == HandlerStep \/ Disconnect \/ Closed

\* Every request of a lookup ends by its timeout, and the handler is polled when
\* a task was joined.
Fairness == WF_vars(HandlerStep)

Spec == Init /\ [][Next]_vars
FairSpec == Spec /\ Fairness

----------------------------------------------------------------------------
SkippedRows == {k \in DOMAIN entries : entries[k].ticker \in SkippedIsins}

\* An accepted upload accounts for every position of the file: each is in the
\* portfolio under its ticker or was skipped with a reason, the weights of the
\* portfolio and of what was skipped are together those of the file, and the
\* client is told of a rescaling exactly when something was skipped.
EveryRowAccounted ==
    reply = "ok" =>
        /\ \A k \in DOMAIN entries \ SkippedRows :
              \E h \in DOMAIN holdings : holdings[h].ticker = TickerOf(entries[k])
        /\ SumOver(holdings) + SumOver([k \in SkippedRows |-> entries[k]]) = SumOver(entries)
        /\ renormalized <=> SkippedIsins # {}

\* The file is blamed only when its lookups all came back.
TransientNotBlamed ==
    reply = "insufficient_holdings" => \A i \in SkippedIsins : Told(i).category # "timeout"

\* Every upload ends, whatever its lookups meet.
UploadEnds == <>(pc = "closed")

\* upload.rs:276-280: a zero-share row or a rounding artifact is dropped "rather
\* than returning a portfolio entry that will just fail downstream validation
\* (every weight must be > 0)": a file of values that are not negative is never
\* refused for its weights.
NoArtifactFails ==
    (layout = "value" /\ \A k \in DOMAIN file : file[k].amount >= 0)
        => reply # "invalid_portfolio"

=============================================================================
