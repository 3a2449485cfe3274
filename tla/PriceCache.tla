------------------------------ MODULE PriceCache ------------------------------
(***************************************************************************)
(* compute::data's cache of one ticker's price series: a CSV file that     *)
(* blocking threads (the tools of requests, the warm-up task) check, read, *)
(* and fill, without a lock and without a temporary file.                  *)
(*                                                                         *)
(* A write truncates the file and then writes it in place, one buffer at a *)
(* time; a five-year series takes several buffers.  The file is the        *)
(* sequence of its buffers, each known by the load whose fetch it came     *)
(* from; two fetches of a ticker may differ (the last day, an adjustment). *)
(* The program never passes refresh, and never removes a file.             *)
(***************************************************************************)
EXTENDS Naturals, Sequences

CONSTANTS Loads,       \* the calls of load_series for the ticker
          Blocks,      \* the buffers a whole series takes
          Hole,        \* a buffer the file system filled with zeros
          NoLoad,      \* no load yet
          MaxCrashes   \* bound on the crashes of the process

ASSUME BlocksAssumption == Blocks \in Nat \ {0}
ASSUME HoleAssumption == Hole \notin Loads /\ NoLoad \notin Loads /\ Hole # NoLoad
ASSUME CrashesAssumption == MaxCrashes \in Nat

VARIABLES
    exists,     \* path.exists()
    file,       \* its buffers
    creator,    \* the load that truncated it last (for the properties)
    pc,         \* where a load is
    seen,       \* the buffers a load has read
    written,    \* the buffers a load has written
    result,     \* what a load returned
    crashes

fileVars == <<exists, file, creator>>
vars == <<fileVars, pc, seen, written, result, crashes>>

Init == /\ exists = FALSE
        /\ file = <<>>
        /\ creator = NoLoad
        /\ pc = [l \in Loads |-> "idle"]
        /\ seen = [l \in Loads |-> <<>>]
        /\ written = [l \in Loads |-> 0]
        /\ result = [l \in Loads |-> "none"]
        /\ crashes = 0

Goto(l, where) == pc' = [pc EXCEPT ![l] = where]

Return(l, what) == /\ Goto(l, "done")
                   /\ result' = [result EXCEPT ![l] = what]

\* All of one fetch, from the first row to the last.
Whole(blocks) == \E l \in Loads : blocks = [i \in 1..Blocks |-> l]

----------------------------------------------------------------------------
(***************************************************************************)
(* read_cache.                                                             *)
(***************************************************************************)
\* Mutant of Check: the server refreshes a series it has cached.
CheckRefreshing(l) ==
    /\ pc[l] = "idle"
    /\ \E where \in {"reading", "fetching"} : Goto(l, where) /\ (where = "reading" => exists)
    /\ UNCHANGED <<fileVars, seen, written, result, crashes>>

Check(l) == /\ pc[l] = "idle"
            /\ Goto(l, IF exists THEN "reading" ELSE "fetching")
            /\ UNCHANGED <<fileVars, seen, written, result, crashes>>

ReadBlock(l) == /\ pc[l] = "reading"
                /\ Len(seen[l]) < Len(file)
                /\ seen' = [seen EXCEPT ![l] = Append(@, file[Len(@) + 1])]
                /\ UNCHANGED <<fileVars, pc, written, result, crashes>>

\* A file that was cut or mixed may end inside a row, which the parser may
\* refuse or take for a shorter number; cut between rows it is a shorter
\* series, and empty it is a series without a day.
Parsed(blocks) == IF Whole(blocks) \/ blocks = <<>> THEN {"cached"} ELSE {"cached", "error"}

\* Mutant of ReadEnd: a reader waits for the rest of a file that is too short.
ReadEndComplete(l) ==
    /\ pc[l] = "reading"
    /\ Len(seen[l]) >= Blocks
    /\ \E what \in Parsed(seen[l]) : Return(l, what)
    /\ UNCHANGED <<fileVars, seen, written, crashes>>

ReadEnd(l) == /\ pc[l] = "reading"
              /\ Len(seen[l]) >= Len(file)
              /\ \E what \in Parsed(seen[l]) : Return(l, what)
              /\ UNCHANGED <<fileVars, seen, written, crashes>>

----------------------------------------------------------------------------
(***************************************************************************)
(* fetch_yahoo_chart and write_cache.                                      *)
(***************************************************************************)
Fetch(l) == /\ pc[l] = "fetching"
            /\ Goto(l, "fetched")
            /\ UNCHANGED <<fileVars, seen, written, result, crashes>>

FetchFails(l) == /\ pc[l] = "fetching"
                 /\ Return(l, "error")
                 /\ UNCHANGED <<fileVars, seen, written, crashes>>

\* File::create: the file is there and empty, whatever it held.
Create(l) == /\ pc[l] = "fetched"
             /\ Goto(l, "writing")
             /\ exists' = TRUE
             /\ file' = <<>>
             /\ creator' = l
             /\ UNCHANGED <<seen, written, result, crashes>>

CreateFails(l) == /\ pc[l] = "fetched"
                  /\ Return(l, "error")
                  /\ UNCHANGED <<fileVars, seen, written, crashes>>

\* Writing at an offset beyond the end leaves a hole before it.
Put(blocks, at, b) ==
    [i \in 1..(IF at > Len(blocks) THEN at ELSE Len(blocks)) |->
        IF i = at THEN b ELSE IF i <= Len(blocks) THEN blocks[i] ELSE Hole]

\* Every writer has the file open for itself and writes at its own offset.
WriteBlock(l) == /\ pc[l] = "writing"
                 /\ written[l] < Blocks
                 /\ file' = Put(file, written[l] + 1, l)
                 /\ written' = [written EXCEPT ![l] = @ + 1]
                 /\ UNCHANGED <<exists, creator, pc, seen, result, crashes>>

\* A full disk: the load fails although it has its series, and what it wrote
\* stays; the dropped csv writer tries the failed buffer once more.
WriteFails(l) == /\ pc[l] = "writing"
                 /\ written[l] < Blocks
                 /\ Return(l, "error")
                 /\ file' \in {file, Put(file, written[l] + 1, l)}
                 /\ UNCHANGED <<exists, creator, seen, written, crashes>>

\* Mutant of WriteEnd: the last buffer is not flushed.
WriteEndUnflushed(l) == /\ pc[l] = "writing"
                        /\ written[l] >= Blocks - 1
                        /\ Return(l, "fetched")
                        /\ UNCHANGED <<fileVars, seen, written, crashes>>

WriteEnd(l) == /\ pc[l] = "writing"
               /\ written[l] = Blocks
               /\ Return(l, "fetched")
               /\ UNCHANGED <<fileVars, seen, written, crashes>>

----------------------------------------------------------------------------

\* The process dies with the loads it is in; the file stays unless the disk
\* goes too.
Crash == /\ crashes < MaxCrashes
         /\ crashes' = crashes + 1
         /\ pc' = [l \in Loads |-> IF pc[l] = "idle" THEN "idle" ELSE "done"]
         /\ result' = [l \in Loads |-> IF pc[l] \in {"idle", "done"} THEN result[l]
                                       ELSE "killed"]
         /\ \/ UNCHANGED fileVars
            \/ exists' = FALSE /\ file' = <<>> /\ creator' = NoLoad
         /\ UNCHANGED <<seen, written>>

Begin(l) == Check(l)

Step(l) == \/ ReadBlock(l) \/ ReadEnd(l)
           \/ Fetch(l) \/ FetchFails(l)
           \/ Create(l) \/ CreateFails(l)
           \/ WriteBlock(l) \/ WriteFails(l) \/ WriteEnd(l)

AllDone == (\A l \in Loads : pc[l] = "done") /\ UNCHANGED vars

Next == (\E l \in Loads : Begin(l) \/ Step(l)) \/ Crash \/ AllDone

\* A thread that began a load runs on: reads, writes and downloads all end.
Fairness == \A l \in Loads : WF_vars(Step(l))

Spec == Init /\ [][Next]_vars
FairSpec == Spec /\ Fairness

----------------------------------------------------------------------------
TypeOK == /\ exists \in BOOLEAN
          /\ file \in Seq(Loads \cup {Hole})
          /\ creator \in Loads \cup {NoLoad}
          /\ pc \in [Loads -> {"idle", "reading", "fetching", "fetched", "writing", "done"}]
          /\ seen \in [Loads -> Seq(Loads \cup {Hole})]
          /\ written \in [Loads -> 0..Blocks]
          /\ result \in [Loads -> {"none", "cached", "fetched", "error", "killed"}]
          /\ crashes \in Nat

\* Writers that overlap may mix their fetches, but once the load that truncated
\* the file last has returned its series, no row is missing: the file is there
\* in full length and without a hole, whatever the others still write.
NoRowMissing ==
    \A l \in Loads : (creator = l /\ result[l] = "fetched") =>
        /\ exists
        /\ Len(file) = Blocks
        /\ \A i \in 1..Blocks : file[i] # Hole

\* Nobody is on the way to write.
NoWriter == \A l \in Loads : pc[l] \notin {"fetching", "fetched", "writing"}

Settled == exists /\ Whole(file) /\ NoWriter

\* A whole file that nobody is about to write stays as it is, and nobody begins
\* to fetch the series again; it only goes with its disk.
SettledStays == [][Settled => (exists' => Settled' /\ file' = file)]_vars

\* Every load that began returns: a reader comes to the end of a file however it
\* grows and shrinks meanwhile.
EveryLoadReturns == \A l \in Loads : pc[l] # "idle" ~> pc[l] = "done"

\* data.rs:46: a PriceSeries is "a raw price series as fetched (or loaded from
\* cache)": what a load takes from the cache is a series as some load fetched it.
CachedAsFetched == \A l \in Loads : result[l] = "cached" => Whole(seen[l])

=============================================================================
