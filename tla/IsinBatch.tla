------------------------------- MODULE IsinBatch -------------------------------
(***************************************************************************)
(* compute::isin::resolve_isins_batch_with: the lookups of one upload.     *)
(*                                                                         *)
(* The ISINs that the static table does not know wait in a queue; batches  *)
(* of BatchSize tasks ask Yahoo's search, each in up to two locales with   *)
(* one retry in each, and a batch is over when its last task was joined.   *)
(* A response is reduced to what classify decides by: the kinds of quotes  *)
(* in it.                                                                  *)
(***************************************************************************)
EXTENDS Integers, FiniteSets

CONSTANTS Isins,        \* the ISINs a file can hold
          Symbols,      \* the tickers a search may find
          Cached,       \* the ISINs of the static table
          CachedSymbol, \* their tickers
          Structure,    \* what an ISIN's own digits tell: "non_equity" or "not_found"
          BatchSize

ASSUME CachedAssumption == Cached \subseteq Isins /\ CachedSymbol \in [Cached -> Symbols]
ASSUME StructureAssumption == Structure \in [Isins -> {"non_equity", "not_found"}]
ASSUME BatchAssumption == BatchSize \in Nat \ {0}

VARIABLES
    queue,     \* pending, from the next batch on, by the row that named it first
    flight,    \* the tasks of the current batch that are not joined yet
    look,      \* where the task of an ISIN is
    locale,    \* 1: en-US, 2: en-IN
    asked,     \* the requests it made
    outcome    \* the HashMap

batchVars == <<queue, flight, look, locale, asked, outcome>>

Resolved(s) == [category |-> "resolved", symbol |-> s]
Skipped(category) == [category |-> category, symbol |-> "none"]
NoOutcome == Skipped("none")

BatchInit == /\ queue = <<>>
             /\ flight = {}
             /\ look = [i \in Isins |-> "idle"]
             /\ locale = [i \in Isins |-> 1]
             /\ asked = [i \in Isins |-> 0]
             /\ outcome = [i \in Isins |-> NoOutcome]

Answered(isins) ==
    [i \in Isins |-> IF i \in Cached /\ \E k \in DOMAIN isins : isins[k] = i
                     THEN Resolved(CachedSymbol[i]) ELSE outcome[i]]

\* Mutant of Enqueue: a repeated ISIN waits in the queue twice.
EnqueueRepeats(isins) ==
    /\ queue' = [k \in {r \in DOMAIN isins : isins[r] \notin Cached} |-> isins[k]]
    /\ outcome' = Answered(isins)
    /\ UNCHANGED <<flight, look, locale, asked>>

\* The table answers at once; a repeated ISIN is asked for once.
Enqueue(isins) ==
    LET unknown == {k \in DOMAIN isins :
                      /\ isins[k] \notin Cached
                      /\ \A j \in DOMAIN isins : j < k => isins[j] # isins[k]}
    IN /\ queue' = [k \in unknown |-> isins[k]]
       /\ outcome' = Answered(isins)
       /\ UNCHANGED <<flight, look, locale, asked>>

\* pending.chunks(batch_size): the next batch after the last was joined.
Before(rows, k) == {j \in rows : j < k}

NextBatch == {k \in DOMAIN queue : Cardinality(Before(DOMAIN queue, k)) < BatchSize}

StartBatch ==
    /\ flight = {}
    /\ DOMAIN queue # {}
    /\ flight' = {queue[k] : k \in NextBatch}
    /\ queue' = [k \in DOMAIN queue \ NextBatch |-> queue[k]]
    /\ look' = [i \in Isins |-> IF i \in flight' THEN "first" ELSE look[i]]
    /\ asked' = [i \in Isins |-> IF i \in flight' THEN asked[i] + 1 ELSE asked[i]]
    /\ UNCHANGED <<locale, outcome>>

----------------------------------------------------------------------------
(***************************************************************************)
(* classify, over the kinds of the quotes in a response: a tradeable       *)
(* listing, one on an SME platform, a fund, currency or bond, or another.  *)
(***************************************************************************)
QuoteKinds == {"tradeable", "sme", "non_equity", "other"}

Verdicts(quotes) ==
    IF "tradeable" \in quotes THEN {Resolved(s) : s \in Symbols}
    ELSE IF "sme" \in quotes THEN {Skipped("sme")}
    ELSE IF "non_equity" \in quotes THEN {Skipped("non_equity")}
    ELSE {}

\* A task ends and is joined.
Finish(i, result) == /\ look' = [look EXCEPT ![i] = "done"]
                     /\ flight' = flight \ {i}
                     /\ outcome' = [outcome EXCEPT ![i] = result]
                     /\ UNCHANGED <<queue, locale, asked>>

Asking(i) == i \in flight /\ look[i] \in {"first", "again"}

\* A decisive response.
Decided(i) ==
    /\ Asking(i)
    /\ \E quotes \in SUBSET QuoteKinds : \E v \in Verdicts(quotes) : Finish(i, v)

\* Nothing decisive in the first locale: the second, with a retry of its own.
NextLocale(i) ==
    /\ Asking(i)
    /\ locale[i] = 1
    /\ locale' = [locale EXCEPT ![i] = 2]
    /\ look' = [look EXCEPT ![i] = "first"]
    /\ asked' = [asked EXCEPT ![i] = @ + 1]
    /\ UNCHANGED <<queue, flight, outcome>>

\* Nor in the second: the ISIN's own structure.
FallBack(i) == /\ Asking(i)
               /\ locale[i] = 2
               /\ Finish(i, Skipped(Structure[i]))

\* A timeout, a connection error, a 5xx, a broken body: one retry at once.
RetryNow(i) == /\ i \in flight
               /\ look[i] = "first"
               /\ look' = [look EXCEPT ![i] = "again"]
               /\ asked' = [asked EXCEPT ![i] = @ + 1]
               /\ UNCHANGED <<queue, flight, locale, outcome>>

\* A 429: one retry after rate_limit_wait.
RateLimited(i) == /\ i \in flight
                  /\ look[i] = "first"
                  /\ look' = [look EXCEPT ![i] = "waiting"]
                  /\ UNCHANGED <<queue, flight, locale, asked, outcome>>

RetryLater(i) == /\ i \in flight
                 /\ look[i] = "waiting"
                 /\ look' = [look EXCEPT ![i] = "again"]
                 /\ asked' = [asked EXCEPT ![i] = @ + 1]
                 /\ UNCHANGED <<queue, flight, locale, outcome>>

\* The retry failed too, in any of these ways.
GivesUp(i) == /\ i \in flight
              /\ look[i] = "again"
              /\ Finish(i, Skipped("timeout"))

\* Mutant of TaskPanics: the batch waits for a task that is gone.
TaskPanicsUnjoined(i) == /\ i \in flight
                         /\ look[i] \notin {"done", "panicked"}
                         /\ look' = [look EXCEPT ![i] = "panicked"]
                         /\ UNCHANGED <<queue, flight, locale, asked, outcome>>

\* A task that panics is joined without a result.
TaskPanics(i) == /\ i \in flight
                 /\ look' = [look EXCEPT ![i] = "panicked"]
                 /\ flight' = flight \ {i}
                 /\ UNCHANGED <<queue, locale, asked, outcome>>

TaskStep(i) == \/ Decided(i) \/ NextLocale(i) \/ FallBack(i)
               \/ RetryNow(i) \/ RateLimited(i) \/ RetryLater(i) \/ GivesUp(i)
               \/ TaskPanics(i)

BatchNext == StartBatch \/ \E i \in Isins : TaskStep(i)

BatchOver == DOMAIN queue = {} /\ flight = {}

\* What the caller is told of an ISIN it asked for.
Told(i) == IF outcome[i] = NoOutcome THEN Skipped("timeout") ELSE outcome[i]

----------------------------------------------------------------------------
\* At most a batch of requests is under way, an ISIN is asked for at most twice
\* in each locale, and one that the table knows not at all.
LookupsBounded ==
    /\ Cardinality(flight) <= BatchSize
    /\ \A i \in Isins : asked[i] <= 2 * locale[i]
    /\ \A i \in Cached : asked[i] = 0

=============================================================================
