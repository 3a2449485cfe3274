--------------------------- MODULE PriceCacheProofs ---------------------------
(***************************************************************************)
(* Proofs about PriceCache, for any set of loads and any length of a       *)
(* series: type correctness, that no row is missing once the last creator  *)
(* of the file is through, and that a settled file stays.                  *)
(***************************************************************************)
EXTENDS PriceCache, SequenceTheorems, TLAPS

Buffers == Loads \cup {Hole}

\* What Put does to a file: it never shortens it, it takes no buffer away, and
\* the new one is in its place.
LEMMA PutFacts ==
    ASSUME NEW blocks \in Seq(Buffers), NEW at \in Nat \ {0}, NEW b \in Loads
    PROVE  /\ Put(blocks, at, b) \in Seq(Buffers)
           /\ Len(Put(blocks, at, b)) >= Len(blocks)
           /\ Len(Put(blocks, at, b)) >= at
           /\ Len(Put(blocks, at, b)) \in {at, Len(blocks)}
           /\ Put(blocks, at, b)[at] = b
           /\ \A i \in 1..Len(blocks) : i # at => Put(blocks, at, b)[i] = blocks[i]
<1> DEFINE n == IF at > Len(blocks) THEN at ELSE Len(blocks)
           P == [i \in 1..n |-> IF i = at THEN b
                                ELSE IF i <= Len(blocks) THEN blocks[i] ELSE Hole]
<1>1. n \in Nat /\ n >= at /\ n >= Len(blocks) /\ n \in {at, Len(blocks)}
  OBVIOUS
<1>2. \A i \in 1..n : P[i] \in Buffers
  BY DEF Buffers
<1>3. P \in Seq(Buffers) /\ Len(P) = n
  <2>1. P \in [1..n -> Buffers]
    BY <1>2
  <2> QED
    BY <1>1, <2>1
<1>4. at \in 1..n /\ P[at] = b
  BY <1>1
<1>5. \A i \in 1..Len(blocks) : i # at => P[i] = blocks[i]
  BY <1>1
<1>6. Put(blocks, at, b) = P
  BY DEF Put
<1> HIDE DEF P, n
<1> QED
  BY <1>1, <1>3, <1>4, <1>5, <1>6

----------------------------------------------------------------------------

LEMMA TypeInit == Init => TypeOK
<1> SUFFICES ASSUME Init PROVE TypeOK
  OBVIOUS
<1>1. <<>> \in Seq(Loads \cup {Hole})
  OBVIOUS
<1>2. /\ seen \in [Loads -> Seq(Loads \cup {Hole})]
      /\ written \in [Loads -> 0..Blocks]
  BY <1>1, BlocksAssumption DEF Init
<1>3. /\ exists \in BOOLEAN
      /\ file \in Seq(Loads \cup {Hole})
      /\ creator \in Loads \cup {NoLoad}
      /\ crashes \in Nat
  BY <1>1 DEF Init
<1>4. /\ pc \in [Loads -> {"idle", "reading", "fetching", "fetched", "writing", "done"}]
      /\ result \in [Loads -> {"none", "cached", "fetched", "error", "killed"}]
  BY DEF Init
<1> QED
  BY <1>2, <1>3, <1>4 DEF TypeOK

LEMMA TypeNext == TypeOK /\ [Next]_vars => TypeOK'
<1> SUFFICES ASSUME TypeOK, [Next]_vars
             PROVE  TypeOK'
  OBVIOUS
<1> USE BlocksAssumption, CrashesAssumption DEF TypeOK, fileVars
<1>1. ASSUME NEW l \in Loads, Check(l) PROVE TypeOK'
  BY <1>1 DEF Check, Goto
<1>2. ASSUME NEW l \in Loads, ReadBlock(l) PROVE TypeOK'
  <2>1. Len(seen[l]) + 1 \in 1..Len(file)
    BY <1>2 DEF ReadBlock
  <2>2. file[Len(seen[l]) + 1] \in Loads \cup {Hole}
    BY <2>1
  <2>3. seen' \in [Loads -> Seq(Loads \cup {Hole})]
    BY <1>2, <2>2 DEF ReadBlock
  <2> QED
    BY <1>2, <2>3 DEF ReadBlock
<1>3. ASSUME NEW l \in Loads, ReadEnd(l) PROVE TypeOK'
  BY <1>3 DEF ReadEnd, Parsed, Return, Goto
<1>4. ASSUME NEW l \in Loads, Fetch(l) PROVE TypeOK'
  BY <1>4 DEF Fetch, Goto
<1>5. ASSUME NEW l \in Loads, FetchFails(l) PROVE TypeOK'
  BY <1>5 DEF FetchFails, Return, Goto
<1>6. ASSUME NEW l \in Loads, Create(l) PROVE TypeOK'
  BY <1>6 DEF Create, Goto
<1>7. ASSUME NEW l \in Loads, CreateFails(l) PROVE TypeOK'
  BY <1>7 DEF CreateFails, Return, Goto
<1>8. ASSUME NEW l \in Loads, WriteBlock(l) PROVE TypeOK'
  <2>1. Put(file, written[l] + 1, l) \in Seq(Loads \cup {Hole})
    <3>1. file \in Seq(Buffers) /\ written[l] + 1 \in Nat \ {0}
      BY DEF Buffers
    <3> QED
      BY <3>1, PutFacts DEF Buffers
  <2>2. written' \in [Loads -> 0..Blocks]
    BY <1>8 DEF WriteBlock
  <2> QED
    BY <1>8, <2>1, <2>2 DEF WriteBlock
<1>9. ASSUME NEW l \in Loads, WriteFails(l) PROVE TypeOK'
  <2>1. Put(file, written[l] + 1, l) \in Seq(Loads \cup {Hole})
    <3>1. file \in Seq(Buffers) /\ written[l] + 1 \in Nat \ {0}
      BY DEF Buffers
    <3> QED
      BY <3>1, PutFacts DEF Buffers
  <2> QED
    BY <1>9, <2>1 DEF WriteFails, Return, Goto
<1>10. ASSUME NEW l \in Loads, WriteEnd(l) PROVE TypeOK'
  BY <1>10 DEF WriteEnd, Return, Goto
<1>11. ASSUME Crash PROVE TypeOK'
  <2>1. pc' \in [Loads -> {"idle", "reading", "fetching", "fetched", "writing", "done"}]
    BY <1>11 DEF Crash
  <2>2. result' \in [Loads -> {"none", "cached", "fetched", "error", "killed"}]
    BY <1>11 DEF Crash
  <2>3. /\ exists' \in BOOLEAN
        /\ file' \in Seq(Loads \cup {Hole})
        /\ creator' \in Loads \cup {NoLoad}
        /\ crashes' \in Nat
        /\ UNCHANGED <<seen, written>>
    <3>1. <<>> \in Seq(Loads \cup {Hole})
      OBVIOUS
    <3>2. crashes' = crashes + 1 /\ UNCHANGED <<seen, written>>
      BY <1>11 DEF Crash
    <3>3. \/ UNCHANGED <<exists, file, creator>>
          \/ exists' = FALSE /\ file' = <<>> /\ creator' = NoLoad
      BY <1>11 DEF Crash
    <3>4. exists' \in BOOLEAN
      BY <3>3, Zenon
    <3>5. crashes' \in Nat
      BY <3>2
    <3>6. file' \in Seq(Loads \cup {Hole}) /\ creator' \in Loads \cup {NoLoad}
      BY <3>1, <3>3
    <3> QED
      BY <3>2, <3>4, <3>5, <3>6
  <2> QED
    BY <2>1, <2>2, <2>3
<1>12. ASSUME UNCHANGED vars PROVE TypeOK'
  BY <1>12 DEF vars
<1> QED
  BY <1>1, <1>2, <1>3, <1>4, <1>5, <1>6, <1>7, <1>8, <1>9, <1>10, <1>11, <1>12
  DEF Next, Begin, Step, AllDone

\* Type correctness of the cache of one ticker.
THEOREM TypeCorrect == Spec => []TypeOK
  BY TypeInit, TypeNext, PTL DEF Spec

----------------------------------------------------------------------------
(***************************************************************************)
(* NoRowMissing.  It is not inductive: it says nothing of a creator that   *)
(* still writes.  The strengthening says that its file is without a hole   *)
(* as far as it has written, whatever the writers before it add.           *)
(***************************************************************************)
DenseTo(blocks, n) == n <= Len(blocks) /\ \A i \in 1..n : blocks[i] # Hole

FileOK == /\ Len(file) <= Blocks
          /\ creator # NoLoad => exists

LoadOK(l) == /\ pc[l] \in {"idle", "reading", "fetching", "fetched"} => written[l] = 0
             /\ result[l] = "fetched" => pc[l] = "done" /\ written[l] = Blocks
             /\ creator = l /\ (pc[l] = "writing" \/ result[l] = "fetched")
                    => DenseTo(file, written[l])

CacheInv == FileOK /\ \A l \in Loads : LoadOK(l)

LEMMA CacheInit == Init => CacheInv
<1> SUFFICES ASSUME Init PROVE CacheInv
  OBVIOUS
<1>1. FileOK
  BY BlocksAssumption DEF Init, FileOK
<1>2. ASSUME NEW l \in Loads PROVE LoadOK(l)
  BY <1>2, HoleAssumption DEF Init, LoadOK
<1> QED
  BY <1>1, <1>2 DEF CacheInv

\* A buffer put into the file keeps every prefix without a hole, and lengthens
\* the one it follows.
LEMMA PutKeepsDense ==
    ASSUME NEW blocks \in Seq(Buffers), Len(blocks) <= Blocks,
           NEW k \in Nat, k < Blocks, NEW l \in Loads
    PROVE  /\ Len(Put(blocks, k + 1, l)) <= Blocks
           /\ \A n \in Nat : DenseTo(blocks, n) => DenseTo(Put(blocks, k + 1, l), n)
           /\ DenseTo(blocks, k) => DenseTo(Put(blocks, k + 1, l), k + 1)
<1> DEFINE P == Put(blocks, k + 1, l)
<1>1. /\ P \in Seq(Buffers)
      /\ Len(P) >= Len(blocks)
      /\ Len(P) >= k + 1
      /\ Len(P) \in {k + 1, Len(blocks)}
      /\ P[k + 1] = l
      /\ \A i \in 1..Len(blocks) : i # k + 1 => P[i] = blocks[i]
  BY PutFacts
<1>2. l # Hole
  BY HoleAssumption
<1>3. Len(blocks) \in Nat /\ Len(P) \in Nat /\ Blocks \in Nat
  BY <1>1, BlocksAssumption
<1> HIDE DEF P
<1>4. Len(P) <= Blocks
  BY <1>1, <1>3
<1>5. ASSUME NEW n \in Nat, DenseTo(blocks, n) PROVE DenseTo(P, n)
  <2>1. n <= Len(P)
    BY <1>1, <1>3, <1>5 DEF DenseTo
  <2>2. ASSUME NEW i \in 1..n PROVE P[i] # Hole
    BY <1>1, <1>2, <1>3, <1>5 DEF DenseTo
  <2> QED
    BY <2>1, <2>2 DEF DenseTo
<1>6. ASSUME DenseTo(blocks, k) PROVE DenseTo(P, k + 1)
  <2>1. DenseTo(P, k)
    BY <1>5, <1>6
  <2>2. ASSUME NEW i \in 1..(k + 1) PROVE P[i] # Hole
    BY <1>1, <1>2, <2>1 DEF DenseTo
  <2> QED
    BY <1>1, <2>2 DEF DenseTo
<1> QED
  BY <1>4, <1>5, <1>6 DEF P

LEMMA CacheNext == TypeOK /\ CacheInv /\ [Next]_vars => CacheInv'
<1> SUFFICES ASSUME TypeOK, CacheInv, [Next]_vars
             PROVE  CacheInv'
  OBVIOUS
<1> USE DEF fileVars
<1>a. file \in Seq(Buffers) /\ Len(file) <= Blocks
  BY DEF TypeOK, CacheInv, FileOK, Buffers
<1>b. \A l \in Loads : written[l] \in Nat /\ l # NoLoad
  BY BlocksAssumption, HoleAssumption DEF TypeOK
\* The steps that leave the file alone: each only moves one load, and none
\* that moves it says that a series was fetched.
<1>c. ASSUME UNCHANGED fileVars, UNCHANGED written,
             NEW l \in Loads,
             \A m \in Loads : m # l => pc'[m] = pc[m] /\ result'[m] = result[m],
             pc'[l] \in {"idle", "reading", "fetching", "fetched"}
                => pc[l] \in {"idle", "reading", "fetching", "fetched"},
             pc'[l] = "writing" => pc[l] = "writing",
             result'[l] = "fetched" =>
                /\ pc'[l] = "done"
                /\ written[l] = Blocks
                /\ creator = l => DenseTo(file, written[l])
      PROVE  CacheInv'
  BY <1>c DEF CacheInv, FileOK, LoadOK
<1>1. ASSUME NEW l \in Loads, Check(l) PROVE CacheInv'
  BY <1>1, <1>c DEF Check, Goto, TypeOK, CacheInv, LoadOK
<1>2. ASSUME NEW l \in Loads, ReadBlock(l) PROVE CacheInv'
  BY <1>2 DEF ReadBlock, CacheInv, FileOK, LoadOK
<1>3. ASSUME NEW l \in Loads, ReadEnd(l) PROVE CacheInv'
  BY <1>3, <1>c DEF ReadEnd, Parsed, Return, Goto, TypeOK
<1>4. ASSUME NEW l \in Loads, Fetch(l) PROVE CacheInv'
  BY <1>4, <1>c DEF Fetch, Goto, TypeOK, CacheInv, LoadOK
<1>5. ASSUME NEW l \in Loads, FetchFails(l) PROVE CacheInv'
  BY <1>5, <1>c DEF FetchFails, Return, Goto, TypeOK
<1>6. ASSUME NEW l \in Loads, Create(l) PROVE CacheInv'
  <2>1. FileOK'
    BY <1>6, BlocksAssumption DEF Create, FileOK
  <2>2. ASSUME NEW m \in Loads PROVE LoadOK(m)'
    <3>1. DenseTo(<<>>, 0)
      BY DEF DenseTo
    <3>2. result[l] # "fetched" /\ written[l] = 0
      BY <1>6 DEF Create, CacheInv, LoadOK
    <3>3. /\ pc' = [pc EXCEPT ![l] = "writing"]
          /\ UNCHANGED <<written, result>>
          /\ creator' = l /\ file' = <<>>
      BY <1>6 DEF Create, Goto
    <3>4. LoadOK(m)
      BY DEF CacheInv
    <3> QED
      BY <3>1, <3>2, <3>3, <3>4 DEF LoadOK, TypeOK
  <2> QED
    BY <2>1, <2>2 DEF CacheInv
<1>7. ASSUME NEW l \in Loads, CreateFails(l) PROVE CacheInv'
  BY <1>7, <1>c DEF CreateFails, Return, Goto, TypeOK
\* What both kinds of write have in common.
<1>d. ASSUME NEW l \in Loads, written[l] < Blocks, file' = Put(file, written[l] + 1, l)
      PROVE  /\ Len(file') <= Blocks
             /\ \A n \in Nat : DenseTo(file, n) => DenseTo(file', n)
             /\ DenseTo(file, written[l]) => DenseTo(file', written[l] + 1)
  BY <1>a, <1>b, <1>d, PutKeepsDense
<1>8. ASSUME NEW l \in Loads, WriteBlock(l) PROVE CacheInv'
  <2>1. /\ pc[l] = "writing" /\ written[l] < Blocks
        /\ file' = Put(file, written[l] + 1, l)
        /\ written' = [written EXCEPT ![l] = @ + 1]
        /\ UNCHANGED <<exists, creator, pc, result>>
    BY <1>8 DEF WriteBlock
  <2>2. FileOK'
    BY <1>d, <2>1 DEF FileOK, CacheInv
  <2>3. ASSUME NEW m \in Loads PROVE LoadOK(m)'
    <3>1. LoadOK(m)
      BY DEF CacheInv
    <3>2. CASE m = l
      BY <1>d, <2>1, <3>1, <3>2 DEF LoadOK, TypeOK
    <3>3. CASE m # l
      BY <1>b, <1>d, <2>1, <3>1, <3>3 DEF LoadOK, TypeOK
    <3> QED
      BY <3>2, <3>3
  <2> QED
    BY <2>2, <2>3 DEF CacheInv
<1>9. ASSUME NEW l \in Loads, WriteFails(l) PROVE CacheInv'
  <2>1. /\ pc[l] = "writing" /\ written[l] < Blocks
        /\ file' = file \/ file' = Put(file, written[l] + 1, l)
        /\ pc' = [pc EXCEPT ![l] = "done"]
        /\ result' = [result EXCEPT ![l] = "error"]
        /\ UNCHANGED <<exists, creator, written>>
    BY <1>9 DEF WriteFails, Return, Goto
  <2>2. Len(file') <= Blocks /\ \A n \in Nat : DenseTo(file, n) => DenseTo(file', n)
    BY <1>a, <1>d, <2>1
  <2>3. FileOK'
    BY <2>1, <2>2 DEF FileOK, CacheInv
  <2>4. ASSUME NEW m \in Loads PROVE LoadOK(m)'
    <3>1. LoadOK(m)
      BY DEF CacheInv
    <3> QED
      BY <1>b, <2>1, <2>2, <3>1 DEF LoadOK, TypeOK
  <2> QED
    BY <2>3, <2>4 DEF CacheInv
<1>10. ASSUME NEW l \in Loads, WriteEnd(l) PROVE CacheInv'
  BY <1>10, <1>c DEF WriteEnd, Return, Goto, TypeOK, CacheInv, LoadOK
<1>11. ASSUME Crash PROVE CacheInv'
  <2>1. FileOK'
    BY <1>11, BlocksAssumption DEF Crash, CacheInv, FileOK
  <2>2. ASSUME NEW m \in Loads PROVE LoadOK(m)'
    <3>1. LoadOK(m)
      BY DEF CacheInv
    <3>2. /\ pc'[m] = IF pc[m] = "idle" THEN "idle" ELSE "done"
          /\ result'[m] = IF pc[m] \in {"idle", "done"} THEN result[m] ELSE "killed"
          /\ written' = written
          /\ UNCHANGED <<file, creator>> \/ creator' = NoLoad
      BY <1>11 DEF Crash
    <3> QED
      BY <1>b, <3>1, <3>2 DEF LoadOK
  <2> QED
    BY <2>1, <2>2 DEF CacheInv
<1>12. ASSUME UNCHANGED vars PROVE CacheInv'
  BY <1>12 DEF vars, CacheInv, FileOK, LoadOK
<1> QED
  BY <1>1, <1>2, <1>3, <1>4, <1>5, <1>6, <1>7, <1>8, <1>9, <1>10, <1>11, <1>12
  DEF Next, Begin, Step, AllDone

LEMMA CacheInvImplies == TypeOK /\ CacheInv => NoRowMissing
<1> SUFFICES ASSUME TypeOK, CacheInv, NEW l \in Loads,
                    creator = l, result[l] = "fetched"
             PROVE  exists /\ Len(file) = Blocks /\ \A i \in 1..Blocks : file[i] # Hole
  BY DEF NoRowMissing
<1>1. exists /\ Len(file) <= Blocks
  BY HoleAssumption DEF CacheInv, FileOK
<1>2. DenseTo(file, Blocks)
  BY DEF CacheInv, LoadOK
<1>3. Len(file) \in Nat /\ Blocks \in Nat
  BY BlocksAssumption DEF TypeOK
<1> QED
  BY <1>1, <1>2, <1>3 DEF DenseTo

\* Once the load that truncated the file last has returned its series no row is
\* missing, however many writers overlap and whenever they fail or die.
THEOREM RowsComplete == Spec => []NoRowMissing
<1>1. Init => CacheInv
  BY CacheInit
<1>2. TypeOK /\ CacheInv /\ [Next]_vars => CacheInv'
  BY CacheNext
<1>3. TypeOK /\ CacheInv => NoRowMissing
  BY CacheInvImplies
<1> QED
  BY <1>1, <1>2, <1>3, TypeCorrect, PTL DEF Spec

----------------------------------------------------------------------------

LEMMA SettledStep ==
    TypeOK /\ [Next]_vars => (Settled => (exists' => Settled' /\ file' = file))
<1> SUFFICES ASSUME TypeOK, [Next]_vars, Settled, exists'
             PROVE  Settled' /\ file' = file
  OBVIOUS
<1> USE DEF Settled, NoWriter, Whole, fileVars
<1>1. ASSUME NEW l \in Loads, Check(l) PROVE Settled' /\ file' = file
  BY <1>1 DEF Check, Goto, TypeOK
<1>2. ASSUME NEW l \in Loads, ReadBlock(l) PROVE Settled' /\ file' = file
  BY <1>2 DEF ReadBlock
<1>3. ASSUME NEW l \in Loads, ReadEnd(l) PROVE Settled' /\ file' = file
  BY <1>3 DEF ReadEnd, Return, Goto, TypeOK
<1>4. ASSUME NEW l \in Loads,
             \/ Fetch(l) \/ FetchFails(l) \/ Create(l) \/ CreateFails(l)
             \/ WriteBlock(l) \/ WriteFails(l) \/ WriteEnd(l)
      PROVE  FALSE
  BY <1>4 DEF Fetch, FetchFails, Create, CreateFails, WriteBlock, WriteFails, WriteEnd
<1>5. ASSUME Crash PROVE Settled' /\ file' = file
  BY <1>5 DEF Crash
<1>6. ASSUME UNCHANGED vars PROVE Settled' /\ file' = file
  BY <1>6 DEF vars
<1> QED
  BY <1>1, <1>2, <1>3, <1>4, <1>5, <1>6 DEF Next, Begin, Step, AllDone

\* A whole file that nobody is about to write stays until its disk goes, and no
\* load begins to fetch the series again.
THEOREM SettledForGood == Spec => SettledStays
<1>1. TypeOK /\ [Next]_vars => [Settled => (exists' => Settled' /\ file' = file)]_vars
  BY SettledStep
<1> QED
  BY <1>1, TypeCorrect, PTL DEF Spec, SettledStays

=============================================================================
