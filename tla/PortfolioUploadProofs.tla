------------------------- MODULE PortfolioUploadProofs -------------------------
(***************************************************************************)
(* Proofs about PortfolioUpload, for any files, any table of ISINs, any    *)
(* size of a batch and whatever the lookups meet: a file is blamed for     *)
(* having too few holdings only when none of its lookups failed for a      *)
(* moment.                                                                 *)
(***************************************************************************)
EXTENDS PortfolioUpload, TotalProofs

\* A handler that has not answered has no reply yet; one that blames the file
\* met no lookup that timed out.
UploadInv == /\ pc # "closed" => reply = "none"
             /\ TransientNotBlamed

\* A file without an ISIN among its positions has none to skip.
LEMMA PlainSkipsNothing ==
    (\A k \in DOMAIN entries : ~IsIsin(entries[k])) => SkippedIsins = {}
  BY DEF IsIsin, SkippedIsins

LEMMA InitUpload == Init => UploadInv
  BY DEF Init, UploadInv, TransientNotBlamed

\* A reply that does not blame the file settles the invariant.
LEMMA OtherReply ==
    ASSUME pc' = "closed", reply' # "insufficient_holdings"
    PROVE  UploadInv'
  BY DEF UploadInv, TransientNotBlamed

\* So does a handler that still has none.
LEMMA StillOpen ==
    ASSUME UploadInv, pc # "closed", reply' = reply
    PROVE  UploadInv'
  BY DEF UploadInv, TransientNotBlamed

LEMMA ValidateReplies ==
    ASSUME NEW portfolio, NEW whole, NEW rescaled, Validate(portfolio, whole, rescaled)
    PROVE  pc' = "closed" /\ reply' \in {"ok", "invalid_portfolio"}
  BY DEF Validate, Answer, Refuse

\* The file without ISINs is blamed with no lookup behind it.
LEMMA PlainKeeps == ASSUME UploadInv, PlainFile PROVE UploadInv'
<1> DEFINE read == Positions
<1>1. /\ \A k \in DOMAIN read : ~IsIsin(read[k])
      /\ entries' = read
      /\ IF Cardinality(DOMAIN read) < 2 THEN Refuse("insufficient_holdings")
                                         ELSE Validate(read, Scale, FALSE)
  BY DEF PlainFile
<1>2. CASE Cardinality(DOMAIN read) < 2
  <2>1. pc' = "closed" /\ reply' = "insufficient_holdings"
    BY <1>1, <1>2 DEF Refuse, Answer
  <2>2. SkippedIsins' = {}
    BY <1>1 DEF SkippedIsins, IsIsin
  <2> QED
    BY <2>1, <2>2 DEF UploadInv, TransientNotBlamed
<1>3. CASE ~(Cardinality(DOMAIN read) < 2)
  BY <1>1, <1>3, ValidateReplies, OtherReply
<1> QED
  BY <1>2, <1>3

\* With too few holdings left, the lookups that timed out are asked about first.
LEMMA TooFewKeeps == ASSUME UploadInv, TooFew PROVE UploadInv'
<1>1. /\ pc' = "closed"
      /\ reply' = IF TimedOut THEN "data_unavailable" ELSE "insufficient_holdings"
      /\ entries' = entries /\ outcome' = outcome
  BY DEF TooFew, Refuse, Answer, batchVars
<1>2. CASE TimedOut
  BY <1>1, <1>2, OtherReply
<1>3. CASE ~TimedOut
  <2>1. SkippedIsins' = SkippedIsins /\ \A i : Told(i)' = Told(i)
    BY <1>1 DEF SkippedIsins, Told
  <2> QED
    BY <1>1, <1>3, <2>1 DEF TimedOut, UploadInv, TransientNotBlamed
<1> QED
  BY <1>2, <1>3

LEMMA UploadStep == UploadInv /\ [Next]_vars => UploadInv'
<1> SUFFICES ASSUME UploadInv, [Next]_vars PROVE UploadInv'
  OBVIOUS
<1>1. CASE Unreadable
  BY <1>1, OtherReply DEF Unreadable, Refuse, Answer
<1>2. CASE PlainFile
  BY <1>2, PlainKeeps
<1>3. CASE Resolve
  BY <1>3, StillOpen DEF Resolve, UploadInv, TransientNotBlamed
<1>4. CASE LookUp
  BY <1>4, StillOpen DEF LookUp, uploadVars
<1>5. CASE TooFew
  BY <1>5, TooFewKeeps
<1>6. CASE Enough
  BY <1>6, ValidateReplies, OtherReply DEF Enough
<1>7. CASE Disconnect
  BY <1>7, OtherReply DEF Disconnect
<1>8. CASE UNCHANGED vars
  BY <1>8 DEF vars, uploadVars, batchVars, UploadInv, TransientNotBlamed, SkippedIsins, Told
<1> QED
  BY <1>1, <1>2, <1>3, <1>4, <1>5, <1>6, <1>7, <1>8 DEF Next, HandlerStep, Closed

\* A file is blamed only when its lookups all came back.
THEOREM FileNotBlamed == Spec => []TransientNotBlamed
<1>1. UploadInv => TransientNotBlamed
  BY DEF UploadInv
<1> QED
  BY InitUpload, UploadStep, <1>1, PTL DEF Spec

----------------------------------------------------------------------------
(***************************************************************************)
(* The lookups.                                                            *)
(***************************************************************************)
\* The queue holds ISINs that the table does not know, each once, and asks for
\* none of them yet.
QueueInv ==
    /\ DOMAIN queue \subseteq Nat /\ IsFiniteSet(DOMAIN queue)
    /\ \A k \in DOMAIN queue : queue[k] \in Isins \ Cached /\ look[queue[k]] = "idle"
    /\ \A j, k \in DOMAIN queue : queue[j] = queue[k] => j = k

FlightInv ==
    /\ flight \subseteq Isins \ Cached
    /\ IsFiniteSet(flight) /\ Cardinality(flight) <= BatchSize
    /\ \A i \in flight : look[i] # "idle"

\* What a lookup has asked for by where it is.
AskedWithin(i) ==
    /\ asked[i] <= 2 * locale[i]
    /\ look[i] \in {"first", "waiting"} => asked[i] < 2 * locale[i]
    /\ look[i] = "idle" => asked[i] = 0

AskedInv ==
    /\ look \in [Isins -> {"idle", "first", "again", "waiting", "done", "panicked"}]
    /\ locale \in [Isins -> {1, 2}]
    /\ asked \in [Isins -> Nat]
    /\ \A i \in Isins : AskedWithin(i)
    /\ \A i \in Cached : asked[i] = 0

LookupInv ==
    /\ QueueInv /\ FlightInv /\ AskedInv
    /\ pc = "reading" => \A i \in Isins : look[i] = "idle"

LEMMA LookupImplies == LookupInv => LookupsBounded
  BY CachedAssumption DEF LookupInv, FlightInv, AskedInv, AskedWithin, LookupsBounded

LEMMA InitLookup == Init => LookupInv
<1> SUFFICES ASSUME Init PROVE LookupInv
  OBVIOUS
<1>1. DOMAIN queue = {} /\ flight = {}
  BY DEF Init, BatchInit
<1>2. QueueInv /\ FlightInv
  BY <1>1, FS_EmptySet, BatchAssumption DEF QueueInv, FlightInv
<1>3. AskedInv
  BY CachedAssumption DEF Init, BatchInit, AskedInv, AskedWithin
<1> QED
  BY <1>2, <1>3 DEF Init, BatchInit, LookupInv

\* The first numbers of a set, up to n of them.
LEMMA FirstFew ==
    ASSUME NEW S \in SUBSET Nat, IsFiniteSet(S), NEW n \in Nat \ {0}
    PROVE  Cardinality({k \in S : Cardinality(Before(S, k)) < n}) <= n
<1> DEFINE few == {k \in S : Cardinality(Before(S, k)) < n}
<1>0. few \in SUBSET S /\ \A k \in few : Cardinality(Before(S, k)) < n
  OBVIOUS
<1> SUFFICES Cardinality(few) <= n
  OBVIOUS
<1> HIDE DEF few
<1>1. IsFiniteSet(few)
  BY <1>0, FS_Subset
<1>2. CASE few = {}
  BY <1>2, FS_EmptySet
<1>3. CASE few # {}
  <2>1. PICK m \in few : \A k \in few : k <= m
    <3>1. few \in SUBSET Int
      BY <1>0
    <3> QED
      BY <1>1, <1>3, <3>1, GreatestNumber
  <2> DEFINE reach == Before(S, m) \cup {m}
  <2>2. m \in S /\ Cardinality(Before(S, m)) < n
    BY <1>0
  <2>3. IsFiniteSet(Before(S, m)) /\ Cardinality(Before(S, m)) \in Nat
    <3>1. Before(S, m) \in SUBSET S
      BY DEF Before
    <3> QED
      BY <3>1, FS_Subset, FS_CardinalityType
  <2>4. m \notin Before(S, m)
    BY <2>2 DEF Before
  <2>5. IsFiniteSet(reach) /\ Cardinality(reach) = Cardinality(Before(S, m)) + 1
    BY <2>3, <2>4, FS_AddElement
  <2>6. few \in SUBSET reach
    BY <1>0, <2>1, <2>2 DEF Before
  <2>7. Cardinality(few) <= Cardinality(reach) /\ Cardinality(few) \in Nat
    BY <1>1, <2>5, <2>6, FS_Subset, FS_CardinalityType
  <2> HIDE DEF reach
  <2> QED
    BY <2>2, <2>3, <2>5, <2>7
<1> QED
  BY <1>2, <1>3

LEMMA StartKeeps == ASSUME LookupInv, pc # "reading", pc' = pc, StartBatch PROVE LookupInv'
<1> DEFINE batch == NextBatch
<1>1. IsFiniteSet(batch) /\ Cardinality(batch) <= BatchSize /\ batch \subseteq DOMAIN queue
  <2>1. Cardinality(batch) <= BatchSize
    BY BatchAssumption, FirstFew DEF LookupInv, QueueInv, NextBatch
  <2> QED
    BY <2>1, FS_Subset DEF LookupInv, QueueInv, NextBatch
<1>2. flight' = {queue[k] : k \in batch}
  BY DEF StartBatch
<1>3. flight' \subseteq Isins \ Cached /\ \A i \in flight' : look[i] = "idle"
  BY <1>1, <1>2 DEF LookupInv, QueueInv
<1>4. IsFiniteSet(flight') /\ Cardinality(flight') <= BatchSize
  <2> DEFINE image == [k \in batch |-> queue[k]]
  <2>1. image \in Surjection(batch, flight')
    BY <1>2 DEF Surjection, Range
  <2>2. IsFiniteSet(flight') /\ Cardinality(flight') <= Cardinality(batch)
    <3> HIDE DEF image
    <3> QED
      BY <1>1, <2>1, FS_Surjection
  <2>3. Cardinality(batch) \in Nat /\ Cardinality(flight') \in Nat
    BY <1>1, <2>2, FS_CardinalityType
  <2> QED
    BY <1>1, <2>2, <2>3, BatchAssumption
<1>5. look' = [i \in Isins |-> IF i \in flight' THEN "first" ELSE look[i]]
  BY DEF StartBatch
<1>6. asked' = [i \in Isins |-> IF i \in flight' THEN asked[i] + 1 ELSE asked[i]]
  BY DEF StartBatch
<1>7. FlightInv'
  BY <1>3, <1>4, <1>5 DEF FlightInv
<1>8. QueueInv'
  <2>1. queue' = [k \in DOMAIN queue \ batch |-> queue[k]]
    BY DEF StartBatch
  <2>2. \A k \in DOMAIN queue \ batch : queue[k] \notin flight'
    BY <1>1, <1>2 DEF LookupInv, QueueInv
  <2>3. IsFiniteSet(DOMAIN queue \ batch)
    BY FS_Subset DEF LookupInv, QueueInv
  <2> HIDE DEF batch
  <2> QED
    BY <1>5, <2>1, <2>2, <2>3 DEF LookupInv, QueueInv
<1>9. AskedInv'
  <2>1. locale' = locale
    BY DEF StartBatch
  <2>2. \A i \in flight' : asked[i] = 0 /\ i \notin Cached
    BY <1>3 DEF LookupInv, AskedInv, AskedWithin
  <2> QED
    BY <1>5, <1>6, <2>1, <2>2, CachedAssumption DEF LookupInv, AskedInv, AskedWithin
<1> QED
  BY <1>7, <1>8, <1>9 DEF LookupInv

\* A step of the task of one ISIN.
LEMMA TaskKeeps ==
    ASSUME LookupInv, pc # "reading", pc' = pc, NEW i \in Isins, TaskStep(i)
    PROVE  LookupInv'
<1>0. /\ QueueInv /\ FlightInv /\ AskedInv
      /\ i \in flight /\ i \notin Cached /\ look[i] # "idle"
  BY DEF LookupInv, FlightInv, TaskStep, Decided, Asking, NextLocale, FallBack, RetryNow,
         RateLimited, RetryLater, GivesUp, TaskPanics, Finish
<1>1. /\ queue' = queue
      /\ flight' \in {flight, flight \ {i}}
      /\ \E l \in {"first", "again", "waiting", "done", "panicked"} :
            look' = [look EXCEPT ![i] = l]
  BY DEF TaskStep, Decided, Asking, NextLocale, FallBack, RetryNow,
         RateLimited, RetryLater, GivesUp, TaskPanics, Finish
<1>2. QueueInv'
  <2>1. \A k \in DOMAIN queue : look'[queue[k]] = look[queue[k]]
    BY <1>0, <1>1 DEF QueueInv, AskedInv
  <2> QED
    BY <1>0, <1>1, <2>1 DEF QueueInv
<1>3. FlightInv'
  <2>1. IsFiniteSet(flight \ {i}) /\ Cardinality(flight \ {i}) <= Cardinality(flight)
    BY <1>0, FS_Subset DEF FlightInv
  <2>2. Cardinality(flight \ {i}) \in Nat /\ Cardinality(flight) \in Nat
    BY <1>0, <2>1, FS_CardinalityType DEF FlightInv
  <2>3. \A j \in flight : look'[j] # "idle"
    BY <1>0, <1>1 DEF FlightInv, AskedInv
  <2>4. BatchSize \in Nat
    BY BatchAssumption
  <2> QED
    BY <1>0, <1>1, <2>1, <2>2, <2>3, <2>4 DEF FlightInv
<1>4. AskedInv'
  <2>1. CASE asked' = asked /\ locale' = locale /\ look'[i] \notin {"first", "idle"}
        /\ (look'[i] = "waiting" => look[i] = "first")
    BY <1>0, <1>1, <2>1 DEF AskedInv, AskedWithin
  <2>2. CASE NextLocale(i)
    <3>1. asked[i] \in Nat /\ asked[i] <= 2
      BY <1>0, <2>2 DEF AskedInv, AskedWithin, NextLocale
    <3>2. 2 * locale'[i] = 4
      BY <1>0, <2>2 DEF AskedInv, NextLocale
    <3> QED
      BY <1>0, <2>2, <3>1, <3>2 DEF AskedInv, AskedWithin, NextLocale
  <2>3. CASE RetryNow(i) \/ RetryLater(i)
    <3>1. asked[i] \in Nat /\ 2 * locale[i] \in Nat /\ asked[i] < 2 * locale[i]
      BY <1>0, <2>3 DEF AskedInv, AskedWithin, RetryNow, RetryLater
    <3>2. /\ locale' = locale /\ look' = [look EXCEPT ![i] = "again"]
          /\ asked' = [asked EXCEPT ![i] = asked[i] + 1]
      BY <2>3 DEF RetryNow, RetryLater
    <3>3. AskedWithin(i)'
      BY <1>0, <3>1, <3>2 DEF AskedInv, AskedWithin
    <3>4. \A j \in Isins : j # i => AskedWithin(j)'
      BY <1>0, <3>2 DEF AskedInv, AskedWithin
    <3> QED
      BY <1>0, <3>1, <3>2, <3>3, <3>4 DEF AskedInv
  <2>4. \/ NextLocale(i) \/ RetryNow(i) \/ RetryLater(i)
        \/ /\ asked' = asked /\ locale' = locale /\ look'[i] \notin {"first", "idle"}
           /\ look'[i] = "waiting" => look[i] = "first"
    BY <1>0 DEF AskedInv, AskedWithin, TaskStep, Decided, FallBack, RateLimited, GivesUp, TaskPanics, Finish
  <2> QED
    BY <2>1, <2>2, <2>3, <2>4
<1> QED
  BY <1>2, <1>3, <1>4 DEF LookupInv

\* Where the handler does not move the lookups, they stay as they are.
LEMMA LookupsStay ==
    ASSUME LookupInv, UNCHANGED batchVars, pc' # "reading" \/ pc' = pc
    PROVE  LookupInv'
  BY DEF LookupInv, batchVars, QueueInv, FlightInv, AskedInv, AskedWithin

\* The rows of a portfolio file are numbered, and their weights are numbers.
RowsOk(read) == DOMAIN read \subseteq Nat /\ IsFiniteSet(DOMAIN read)
WeightsOk(read) == \A k \in DOMAIN read : read[k].weight \in Int

LEMMA PositionsRows == ASSUME file \in Files PROVE RowsOk(Positions)
<1> DEFINE all == IF layout = "value" THEN ValueWeights ELSE AsWeights
<1>1. DOMAIN all = 1 .. Len(file) /\ Len(file) \in Nat
  BY FilesAssumption DEF ValueWeights, AsWeights
<1>2. DOMAIN Positions \in SUBSET (1 .. Len(file))
  <2>1. Positions = [k \in {r \in DOMAIN all : IsPosition(all[r])} |-> all[k]]
    BY DEF Positions
  <2> HIDE DEF all
  <2> QED
    BY <1>1, <2>1
<1>3. IsFiniteSet(1 .. Len(file))
  BY <1>1, FS_Interval
<1> QED
  BY <1>1, <1>2, <1>3, FS_Subset DEF RowsOk

LEMMA ResolveLooks == ASSUME LookupInv, file \in Files, Resolve PROVE LookupInv'
<1> DEFINE rows == {k \in DOMAIN Positions : IsIsin(Positions[k])}
           isins == [k \in rows |-> Positions[k].ticker]
           unknown == {k \in DOMAIN isins :
                         /\ isins[k] \notin Cached
                         /\ \A j \in DOMAIN isins : j < k => isins[j] # isins[k]}
<1>1. /\ queue' = [k \in unknown |-> isins[k]]
      /\ UNCHANGED <<flight, look, locale, asked>>
      /\ pc = "reading" /\ pc' = "resolving"
  BY DEF Resolve, Enqueue
<1>2. DOMAIN isins \subseteq Nat /\ IsFiniteSet(DOMAIN isins) /\ \A k \in DOMAIN isins : isins[k] \in Isins
  <2>1. rows \in SUBSET DOMAIN Positions
    OBVIOUS
  <2>2. RowsOk(Positions)
    BY PositionsRows
  <2>3. \A k \in rows : Positions[k].ticker \in Isins
    BY DEF IsIsin
  <2> HIDE DEF rows
  <2> QED
    BY <2>1, <2>2, <2>3, FS_Subset DEF RowsOk
<1> HIDE DEF isins
<1>3. unknown \in SUBSET DOMAIN isins
  OBVIOUS
<1>4. \A j, k \in unknown : isins[j] = isins[k] => j = k
  BY <1>2
<1>5. \A k \in unknown : isins[k] \in Isins \ Cached /\ look[isins[k]] = "idle"
  BY <1>1, <1>2 DEF LookupInv
<1> HIDE DEF unknown
<1>6. QueueInv'
  <2>1. IsFiniteSet(unknown) /\ unknown \subseteq Nat
    BY <1>2, <1>3, FS_Subset
  <2> QED
    BY <1>1, <1>4, <1>5, <2>1 DEF QueueInv
<1> QED
  BY <1>1, <1>6 DEF LookupInv, FlightInv, AskedInv, AskedWithin

LEMMA LookupStep == file \in Files /\ LookupInv /\ [Next]_vars => LookupInv'
<1> SUFFICES ASSUME file \in Files, LookupInv, [Next]_vars PROVE LookupInv'
  OBVIOUS
<1>1. CASE Unreadable \/ TooFew
  BY <1>1, LookupsStay DEF Unreadable, TooFew, Refuse, Answer
<1>2. CASE PlainFile \/ Enough
  BY <1>2, LookupsStay DEF PlainFile, Enough, Validate, Refuse, Answer
<1>3. CASE Resolve
  BY <1>3, ResolveLooks
<1>4. CASE LookUp
  <2>1. pc # "reading" /\ pc' = pc /\ BatchNext
    BY <1>4 DEF LookUp, uploadVars
  <2> QED
    BY <2>1, StartKeeps, TaskKeeps DEF BatchNext
<1>5. CASE Disconnect
  <2>1. /\ DOMAIN queue' = {} /\ flight' = {} /\ pc' # "reading"
        /\ UNCHANGED <<look, locale, asked>>
    BY <1>5 DEF Disconnect
  <2>2. QueueInv' /\ FlightInv'
    BY <2>1, FS_EmptySet, BatchAssumption DEF QueueInv, FlightInv
  <2> QED
    BY <2>1, <2>2 DEF LookupInv, AskedInv, AskedWithin
<1>6. CASE UNCHANGED vars
  BY <1>6, LookupsStay DEF vars, uploadVars
<1> QED
  BY <1>1, <1>2, <1>3, <1>4, <1>5, <1>6 DEF Next, HandlerStep, Closed

\* The file stays what was sent.
LEMMA FileStays == file \in Files /\ [Next]_vars => (file \in Files)'
  BY DEF Next, HandlerStep, Closed, vars, uploadVars, Unreadable, PlainFile, Resolve, TooFew,
         Enough, LookUp, Disconnect, Validate, Refuse, Answer

\* At most a batch of lookups is under way, an ISIN is asked for at most twice
\* in each locale, and one of the table not at all.
THEOREM LookupsStayBounded == Spec => []LookupsBounded
<1>1. Init => file \in Files /\ LookupInv
  BY InitLookup DEF Init
<1> QED
  BY <1>1, LookupStep, FileStays, LookupImplies, PTL DEF Spec

----------------------------------------------------------------------------
(***************************************************************************)
(* The weights.                                                            *)
(***************************************************************************)
LEMMA SumOverInt ==
    ASSUME NEW p, IsFiniteSet(DOMAIN p), WeightsOk(p)
    PROVE  SumOver(p) \in Int
<1> DEFINE w == [k \in DOMAIN p |-> p[k].weight]
<1>1. w \in [DOMAIN p -> Int]
  BY DEF WeightsOk
<1> HIDE DEF w
<1>2. Total(w) \in Int
  BY <1>1, TotalInt
<1> QED
  BY <1>2 DEF SumOver, w

LEMMA RoundedInt ==
    ASSUME NEW amount \in Nat, NEW total \in Int
    PROVE  Rounded(amount, total) \in Int
<1>1. CASE total > 0
  <2>1. 2 * amount * Scale + total \in Int /\ 2 * total \in Int /\ 2 * total > 0
    BY <1>1, ScaleAssumption
  <2>2. \A a, b \in Int : b > 0 => a \div b \in Int
    OBVIOUS
  <2> QED
    BY <1>1, <2>1, <2>2 DEF Rounded
<1>2. CASE ~(total > 0)
  BY <1>2 DEF Rounded
<1> QED
  BY <1>1, <1>2

LEMMA FileWeights ==
    ASSUME file \in Files
    PROVE  /\ DOMAIN AsWeights = 1 .. Len(file) /\ DOMAIN ValueWeights = 1 .. Len(file)
           /\ Len(file) \in Nat /\ IsFiniteSet(1 .. Len(file))
           /\ WeightsOk(AsWeights) /\ WeightsOk(ValueWeights)
<1> DEFINE total == SumOver(AsWeights)
           rounded == [k \in DOMAIN file |->
                        [ticker |-> file[k].ticker, weight |-> Rounded(file[k].amount, total)]]
           residual == IF total > 0 THEN Scale - SumOver(rounded) ELSE 0
<1>1. Len(file) \in Nat /\ DOMAIN file = 1 .. Len(file) /\ \A k \in DOMAIN file : file[k].amount \in Nat
  BY FilesAssumption
<1>2. IsFiniteSet(DOMAIN file)
  BY <1>1, FS_Interval
<1>3. DOMAIN AsWeights = DOMAIN file /\ WeightsOk(AsWeights)
  BY <1>1 DEF AsWeights, WeightsOk
<1>4. total \in Int
  BY <1>2, <1>3, SumOverInt
<1> HIDE DEF total
<1>5. DOMAIN rounded = DOMAIN file /\ WeightsOk(rounded)
  BY <1>1, <1>4, RoundedInt DEF WeightsOk
<1>6. SumOver(rounded) \in Int
  <2> HIDE DEF rounded
  <2> QED
    BY <1>2, <1>5, SumOverInt
<1>7. residual \in Int
  BY <1>6, ScaleAssumption
<1>8. ValueWeights = [k \in DOMAIN file |->
                       IF k = Len(file) THEN [rounded[k] EXCEPT !.weight = @ + residual]
                       ELSE rounded[k]]
  BY DEF ValueWeights, total
<1>9. WeightsOk(ValueWeights)
  <2>1. SUFFICES ASSUME NEW k \in DOMAIN file PROVE ValueWeights[k].weight \in Int
    BY <1>8 DEF WeightsOk
  <2>2. rounded[k].weight \in Int
    BY <1>5 DEF WeightsOk
  <2>3. [rounded[k] EXCEPT !.weight = @ + residual].weight = rounded[k].weight + residual
    OBVIOUS
  <2> HIDE DEF rounded, residual
  <2> QED
    BY <1>7, <1>8, <2>2, <2>3
<1> QED
  BY <1>1, <1>2, <1>3, <1>8, <1>9

LEMMA PositionsWeights == ASSUME file \in Files PROVE WeightsOk(Positions)
<1> DEFINE all == IF layout = "value" THEN ValueWeights ELSE AsWeights
<1>1. WeightsOk(all)
  BY FileWeights
<1>2. Positions = [k \in {r \in DOMAIN all : IsPosition(all[r])} |-> all[k]]
  BY DEF Positions
<1> HIDE DEF all
<1> QED
  BY <1>1, <1>2 DEF WeightsOk

\* The sum of the merged portfolio and of what was skipped is that of the rows.
LEMMA MergedSum ==
    ASSUME RowsOk(entries), WeightsOk(entries)
    PROVE  /\ SkippedRows = DOMAIN entries \ UsableRows
           /\ SumOver(Merged) + SumOver([k \in SkippedRows |-> entries[k]]) = SumOver(entries)
           /\ \A k \in UsableRows :
                 \E h \in DOMAIN Merged : Merged[h].ticker = TickerOf(entries[k])
<1> DEFINE rows == DOMAIN entries
           w == [k \in rows |-> entries[k].weight]
           group == [r \in FirstRows |-> RowsOf(TickerOf(entries[r]))]
<1>1. w \in [rows -> Int] /\ IsFiniteSet(rows) /\ rows \subseteq Nat
  BY DEF RowsOk, WeightsOk
<1>2. SkippedRows = rows \ UsableRows
  BY DEF SkippedRows, SkippedIsins, UsableRows, Usable, IsIsin
<1>3. UsableRows \in SUBSET rows /\ FirstRows \in SUBSET rows /\ IsFiniteSet(FirstRows)
  <2>1. UsableRows \in SUBSET rows /\ FirstRows \in SUBSET rows
    BY DEF UsableRows, FirstRows
  <2> QED
    BY <1>1, <2>1, FS_Subset
<1>4. group \in [FirstRows -> SUBSET rows]
  BY DEF RowsOf, UsableRows
<1>5. \A p, q \in FirstRows : p # q => group[p] \cap group[q] = {}
  <2>1. SUFFICES ASSUME NEW p \in FirstRows, NEW q \in FirstRows,
                        TickerOf(entries[p]) = TickerOf(entries[q])
                 PROVE  p = q
    BY DEF RowsOf
  <2>2. p \in RowsOf(TickerOf(entries[q])) /\ q \in RowsOf(TickerOf(entries[p]))
    BY <2>1 DEF FirstRows, RowsOf
  <2>3. p <= q /\ q <= p /\ p \in Int /\ q \in Int
    BY <1>1, <1>3, <2>2 DEF FirstRows
  <2> QED
    BY <2>3
<1>6. \A k \in UsableRows : \E r \in FirstRows : TickerOf(entries[r]) = TickerOf(entries[k])
  <2>1. SUFFICES ASSUME NEW k \in UsableRows
                 PROVE  \E r \in FirstRows : TickerOf(entries[r]) = TickerOf(entries[k])
    OBVIOUS
  <2> DEFINE same == RowsOf(TickerOf(entries[k]))
  <2>2. same \in SUBSET Nat /\ same # {}
    BY <1>1, <1>3 DEF RowsOf
  <2>3. PICK r \in same : \A j \in same : r <= j
    <3> HIDE DEF same
    <3> QED
      BY <2>2, LeastNumber
  <2>4. r \in UsableRows /\ TickerOf(entries[r]) = TickerOf(entries[k])
    BY DEF RowsOf
  <2>5. r \in FirstRows
    BY <2>3, <2>4 DEF FirstRows
  <2> QED
    BY <2>4, <2>5
<1>7. UNION {group[r] : r \in FirstRows} = UsableRows
  <2>1. \A r \in FirstRows : group[r] \subseteq UsableRows
    BY DEF RowsOf
  <2>2. \A k \in UsableRows : \E r \in FirstRows : k \in group[r]
    BY <1>6 DEF RowsOf
  <2> HIDE DEF group
  <2> QED
    BY <2>1, <2>2
<1>8. SumOver(Merged) = Total([r \in FirstRows |-> Total(Restrict(w, group[r]))])
  <2>1. \A r \in FirstRows : Merged[r].weight = Total(Restrict(w, group[r]))
    <3>1. SUFFICES ASSUME NEW r \in FirstRows
                   PROVE  WeightOf(TickerOf(entries[r])) = Total(Restrict(w, group[r]))
      BY DEF Merged
    <3>2. Restrict(w, group[r]) = [k \in RowsOf(TickerOf(entries[r])) |-> entries[k].weight]
      BY <1>4 DEF Restrict
    <3> QED
      BY <3>2 DEF WeightOf
  <2>2. DOMAIN Merged = FirstRows
    BY DEF Merged
  <2> HIDE DEF w, group
  <2> QED
    BY <2>1, <2>2 DEF SumOver
<1>9. SumOver(Merged) = Total(Restrict(w, UsableRows))
  <2> HIDE DEF w, group
  <2> QED
    BY <1>1, <1>3, <1>4, <1>5, <1>7, <1>8, TotalGroups
<1>10. SumOver([k \in SkippedRows |-> entries[k]]) = Total(Restrict(w, rows \ UsableRows))
  <2>1. Restrict(w, SkippedRows)
        = [k \in SkippedRows |-> [j \in SkippedRows |-> entries[j]][k].weight]
    BY <1>2 DEF Restrict
  <2> QED
    BY <1>2, <2>1 DEF SumOver
<1>11. SumOver(entries) = Total(w)
  BY DEF SumOver
<1>12. Total(w) = Total(Restrict(w, UsableRows)) + Total(Restrict(w, rows \ UsableRows))
  <2> HIDE DEF w, rows
  <2> QED
    BY <1>1, <1>3, TotalParts
<1>13. \A k \in UsableRows :
          \E h \in DOMAIN Merged : Merged[h].ticker = TickerOf(entries[k])
  BY <1>6 DEF Merged
<1> QED
  BY <1>2, <1>9, <1>10, <1>11, <1>12, <1>13

AccountInv == /\ file \in Files
              /\ RowsOk(entries) /\ WeightsOk(entries)
              /\ pc # "closed" => reply = "none"
              /\ EveryRowAccounted

LEMMA InitAccount == Init => AccountInv
<1> SUFFICES ASSUME Init PROVE AccountInv
  OBVIOUS
<1>1. DOMAIN entries = {} /\ reply = "none" /\ file \in Files
  BY DEF Init
<1> QED
  BY <1>1, FS_EmptySet DEF AccountInv, RowsOk, WeightsOk, EveryRowAccounted

\* A step that does not accept a portfolio.
LEMMA NotAccepted ==
    ASSUME AccountInv, file' = file, reply' # "ok",
           entries' = entries \/ entries' = Positions,
           pc' # "closed" => reply' = "none"
    PROVE  AccountInv'
<1>1. RowsOk(Positions) /\ WeightsOk(Positions)
  BY PositionsRows, PositionsWeights DEF AccountInv
<1> QED
  BY <1>1 DEF AccountInv, EveryRowAccounted, RowsOk, WeightsOk

LEMMA PlainAccounts == ASSUME AccountInv, PlainFile PROVE AccountInv'
<1> DEFINE read == Positions
<1>1. /\ \A k \in DOMAIN read : ~IsIsin(read[k])
      /\ entries' = read /\ file' = file /\ pc' = "closed"
      /\ IF Cardinality(DOMAIN read) < 2 THEN Refuse("insufficient_holdings")
                                         ELSE Validate(read, Scale, FALSE)
  BY DEF PlainFile, Refuse, Validate, Answer
<1>2. CASE reply' = "ok"
  <2>1. holdings' = read /\ renormalized' = FALSE
    BY <1>1, <1>2 DEF Refuse, Validate, Answer
  <2>2. SkippedIsins' = {} /\ SkippedRows' = {}
    BY <1>1 DEF SkippedIsins, SkippedRows, IsIsin
  <2>3. RowsOk(read) /\ WeightsOk(read)
    BY PositionsRows, PositionsWeights DEF AccountInv
  <2>4. \A k \in DOMAIN read : TickerOf(entries[k])' = read[k].ticker
    BY <1>1 DEF TickerOf, IsIsin
  <2>5. SumOver([k \in {} |-> entries[k]])' = 0
    <3>1. DOMAIN [k \in {} |-> [j \in {} |-> entries'[j]][k].weight] = {}
      OBVIOUS
    <3>2. Total([k \in {} |-> [j \in {} |-> entries'[j]][k].weight]) = 0
      BY <3>1, TotalEmpty
    <3> QED
      BY <3>2 DEF SumOver
  <2>6. SumOver(holdings)' = SumOver(entries)' /\ SumOver(read) \in Int
    BY <1>1, <2>1, <2>3, SumOverInt DEF SumOver, RowsOk
  <2>7. EveryRowAccounted'
    BY <1>1, <2>1, <2>2, <2>4, <2>5, <2>6 DEF EveryRowAccounted
  <2> QED
    BY <1>1, <2>3, <2>7 DEF AccountInv, RowsOk, WeightsOk
<1>3. CASE reply' # "ok"
  BY <1>1, <1>3, NotAccepted
<1> QED
  BY <1>2, <1>3

LEMMA EnoughAccounts == ASSUME AccountInv, Enough PROVE AccountInv'
<1>1. /\ entries' = entries /\ file' = file /\ outcome' = outcome /\ pc' = "closed"
      /\ reply' = "ok" => holdings' = Merged /\ renormalized' = (SkippedIsins # {})
  BY DEF Enough, Refuse, Validate, Answer, batchVars
<1>2. CASE reply' = "ok"
  <2>1. /\ SkippedIsins' = SkippedIsins /\ SkippedRows' = SkippedRows
        /\ \A k : TickerOf(entries[k])' = TickerOf(entries[k])
    BY <1>1 DEF SkippedIsins, SkippedRows, TickerOf, Told, IsIsin
  <2>2. /\ SkippedRows = DOMAIN entries \ UsableRows
        /\ SumOver(Merged) + SumOver([k \in SkippedRows |-> entries[k]]) = SumOver(entries)
        /\ \A k \in UsableRows :
              \E h \in DOMAIN Merged : Merged[h].ticker = TickerOf(entries[k])
    BY MergedSum DEF AccountInv
  <2>3. DOMAIN entries \ SkippedRows = UsableRows
    BY <2>2 DEF UsableRows
  <2>4. EveryRowAccounted'
    BY <1>1, <1>2, <2>1, <2>2, <2>3 DEF EveryRowAccounted
  <2> QED
    BY <1>1, <2>4 DEF AccountInv, RowsOk, WeightsOk
<1>3. CASE reply' # "ok"
  BY <1>1, <1>3, NotAccepted
<1> QED
  BY <1>2, <1>3

LEMMA AccountStep == AccountInv /\ [Next]_vars => AccountInv'
<1> SUFFICES ASSUME AccountInv, [Next]_vars PROVE AccountInv'
  OBVIOUS
<1>1. CASE Unreadable
  BY <1>1, NotAccepted DEF Unreadable, Refuse, Answer
<1>2. CASE PlainFile
  BY <1>2, PlainAccounts
<1>3. CASE Resolve
  BY <1>3, NotAccepted DEF Resolve, AccountInv
<1>4. CASE LookUp
  BY <1>4, NotAccepted DEF LookUp, uploadVars, AccountInv
<1>5. CASE TooFew
  BY <1>5, NotAccepted DEF TooFew, Refuse, Answer
<1>6. CASE Enough
  BY <1>6, EnoughAccounts
<1>7. CASE Disconnect
  BY <1>7, NotAccepted DEF Disconnect
<1>8. CASE UNCHANGED vars
  BY <1>8 DEF vars, uploadVars, batchVars, AccountInv, RowsOk, WeightsOk, EveryRowAccounted,
              SkippedRows, SkippedIsins, TickerOf, IsIsin, Told, SumOver
<1> QED
  BY <1>1, <1>2, <1>3, <1>4, <1>5, <1>6, <1>7, <1>8 DEF Next, HandlerStep, Closed

\* An accepted upload accounts for every position of the file: each is in the
\* portfolio or was skipped, the weights of both add up to those of the file, and
\* a rescaling is told of exactly when something was skipped.
THEOREM UploadsAccounted == Spec => []EveryRowAccounted
<1>1. AccountInv => EveryRowAccounted
  BY DEF AccountInv
<1> QED
  BY InitAccount, AccountStep, <1>1, PTL DEF Spec

=============================================================================
