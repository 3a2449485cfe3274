-------------------------- MODULE AskServiceProofs --------------------------
(***************************************************************************)
(* What holds of AskService for every set of requests, every capacity and  *)
(* every answer of the planner, and what becomes of a drift: planned       *)
(* behind a current_risk it keeps its baseline, and once it was answered   *)
(* DriftListing lists it.                                                  *)
(***************************************************************************)
EXTENDS DriftListing, TotalProofs, FiniteSetTheorems

USE DEF Id

----------------------------------------------------------------------------
(***************************************************************************)
(* The semaphore: its operations keep its type and its accounts.           *)
(***************************************************************************)
SemOK == Sem!SemTypeOK /\ PermitsConserved /\ Sem!SemInv

LEMMA SemInitOK == Sem!SemInit => SemOK
<1> SUFFICES ASSUME Sem!SemInit PROVE SemOK
  OBVIOUS
<1>1. Sem!SemTypeOK
  BY CapacityAssumption DEF Sem!SemInit, Sem!SemTypeOK
<1>2. PermitsConserved
  BY FS_EmptySet, CapacityAssumption DEF Sem!SemInit, PermitsConserved, ActiveRequests
<1>3. Sem!NoIdlePermit /\ Sem!QueueOrdered
  BY DEF Sem!SemInit, Sem!NoIdlePermit, Sem!QueueOrdered, Sem!Waiting
<1> QED
  BY <1>1, <1>2, <1>3 DEF SemOK, Sem!SemInv

\* A restart creates the semaphore in its initial state.
LEMMA SemRecreateOK == Sem!Recreate => SemOK'
<1> SUFFICES ASSUME Sem!Recreate PROVE SemOK'
  OBVIOUS
<1>1. Sem!SemTypeOK'
  BY CapacityAssumption DEF Sem!Recreate, Sem!SemTypeOK
<1>2. PermitsConserved'
  BY FS_EmptySet, CapacityAssumption DEF Sem!Recreate, PermitsConserved, ActiveRequests
<1>3. Sem!NoIdlePermit' /\ Sem!QueueOrdered'
  BY DEF Sem!Recreate, Sem!NoIdlePermit, Sem!QueueOrdered, Sem!Waiting
<1> QED
  BY <1>1, <1>2, <1>3 DEF SemOK, Sem!SemInv

LEMMA HeldFinite == ASSUME SemOK PROVE IsFiniteSet(held)
BY RequestsAssumption, FS_Subset DEF SemOK, Sem!SemTypeOK

LEMMA SemAcquireOK ==
  ASSUME SemOK, NEW r \in Requests, Sem!Acquire(r)
  PROVE  SemOK'
<1>1. IsFiniteSet(held)
  BY HeldFinite
<1>2. CASE Sem!TakePermit(r)
  <2>1. Sem!SemTypeOK'
    BY <1>2, CapacityAssumption DEF SemOK, Sem!SemTypeOK, Sem!TakePermit
  <2>2. Cardinality(held') = Cardinality(held) + 1
    BY <1>1, <1>2, FS_AddElement DEF Sem!TakePermit, Sem!Acquire
  <2>3. PermitsConserved'
    BY <2>2, <1>2, CapacityAssumption
       DEF SemOK, Sem!SemInv, Sem!SemTypeOK, PermitsConserved, ActiveRequests, Sem!TakePermit
  <2>4. Sem!NoIdlePermit' /\ Sem!QueueOrdered'
    BY <1>2 DEF SemOK, Sem!SemInv, Sem!SemTypeOK, Sem!NoIdlePermit, Sem!QueueOrdered, Sem!Waiting,
                Sem!TakePermit, Sem!Acquire
  <2> QED
    BY <2>1, <2>3, <2>4 DEF SemOK, Sem!SemInv
<1>3. CASE Sem!JoinQueue(r)
  <2>1. Sem!SemTypeOK'
    BY <1>3 DEF SemOK, Sem!SemTypeOK, Sem!JoinQueue
  <2>2. PermitsConserved' /\ Sem!NoIdlePermit'
    BY <1>3 DEF SemOK, Sem!SemInv, PermitsConserved, ActiveRequests, Sem!NoIdlePermit,
                Sem!JoinQueue
  <2>3. Sem!QueueOrdered'
    BY <1>3 DEF SemOK, Sem!SemInv, Sem!SemTypeOK, Sem!QueueOrdered, Sem!Waiting, Sem!JoinQueue,
                Sem!Acquire
  <2> QED
    BY <2>1, <2>2, <2>3 DEF SemOK, Sem!SemInv
<1> QED
  BY <1>2, <1>3 DEF Sem!Acquire

LEMMA SemReleaseOK ==
  ASSUME SemOK, NEW r \in Requests, Sem!Release(r)
  PROVE  SemOK'
<1>1. IsFiniteSet(held)
  BY HeldFinite
<1>2. /\ IsFiniteSet(held \ {r})
      /\ Cardinality(held \ {r}) = Cardinality(held) - 1
  BY <1>1, FS_RemoveElement DEF Sem!Release
<1>3. CASE Sem!PassOn(r)
  <2>1. PICK u \in Sem!FirstWaiting :
             /\ held' = (held \ {r}) \cup {u}
             /\ ticket' = [ticket EXCEPT ![u] = 0]
             /\ UNCHANGED <<free, nextTicket>>
    BY <1>3 DEF Sem!PassOn
  <2>2. u \in Sem!Waiting /\ u \in Requests /\ u \notin held
    BY <2>1 DEF SemOK, Sem!SemInv, Sem!QueueOrdered, Sem!FirstWaiting, Sem!Waiting
  <2>3. Sem!SemTypeOK'
    BY <2>1, <2>2 DEF SemOK, Sem!SemTypeOK
  <2>4. Cardinality(held') = Cardinality(held)
    <3>1. Cardinality((held \ {r}) \cup {u}) = Cardinality(held \ {r}) + 1
      BY <1>2, <2>2, FS_AddElement
    <3>2. Cardinality(held) \in Nat
      BY <1>1, FS_CardinalityType
    <3> QED
      BY <3>1, <3>2, <1>2, <2>1
  <2>5. PermitsConserved' /\ Sem!NoIdlePermit'
    BY <2>1, <2>2, <2>4 DEF SemOK, Sem!SemInv, PermitsConserved, ActiveRequests,
                            Sem!NoIdlePermit
  <2>6. Sem!QueueOrdered'
    BY <2>1, <2>2 DEF SemOK, Sem!SemInv, Sem!SemTypeOK, Sem!QueueOrdered, Sem!Waiting
  <2> QED
    BY <2>3, <2>5, <2>6 DEF SemOK, Sem!SemInv
<1>4. CASE Sem!PutBack(r)
  <2>1. Cardinality(held) \in Nat
    BY <1>1, FS_CardinalityType
  <2>2. Cardinality(held \ {r}) \in Nat
    BY <1>2, FS_CardinalityType
  <2>3. PermitsConserved'
    BY <1>4, <1>2, <2>1, CapacityAssumption
       DEF SemOK, Sem!SemInv, Sem!SemTypeOK, PermitsConserved, ActiveRequests, Sem!PutBack
  <2>4. Sem!SemTypeOK'
    BY <1>4, <1>2, <2>1, <2>2, CapacityAssumption
       DEF SemOK, Sem!SemInv, Sem!SemTypeOK, PermitsConserved, ActiveRequests, Sem!PutBack
  <2>5. Sem!NoIdlePermit' /\ Sem!QueueOrdered'
    BY <1>4 DEF SemOK, Sem!SemInv, Sem!NoIdlePermit, Sem!QueueOrdered, Sem!Waiting, Sem!PutBack
  <2> QED
    BY <2>3, <2>4, <2>5 DEF SemOK, Sem!SemInv
<1> QED
  BY <1>3, <1>4 DEF Sem!Release

LEMMA SemAbandonOK ==
  ASSUME SemOK, NEW r \in Requests, Sem!Abandon(r)
  PROVE  SemOK'
<1>1. Sem!SemTypeOK'
  BY DEF SemOK, Sem!SemTypeOK, Sem!Abandon
<1>2. PermitsConserved' /\ Sem!NoIdlePermit'
  BY DEF SemOK, Sem!SemInv, Sem!SemTypeOK, PermitsConserved, ActiveRequests,
         Sem!NoIdlePermit, Sem!Waiting, Sem!Abandon
<1>3. Sem!QueueOrdered'
  BY DEF SemOK, Sem!SemInv, Sem!SemTypeOK, Sem!QueueOrdered, Sem!Waiting, Sem!Abandon
<1> QED
  BY <1>1, <1>2, <1>3 DEF SemOK, Sem!SemInv

LEMMA SemSame ==
  ASSUME SemOK, UNCHANGED semVars
  PROVE  SemOK'
BY DEF SemOK, semVars, Sem!SemTypeOK, Sem!SemInv, PermitsConserved, ActiveRequests,
       Sem!NoIdlePermit, Sem!QueueOrdered, Sem!Waiting

----------------------------------------------------------------------------
(***************************************************************************)
(* Ending a handler.                                                       *)
(***************************************************************************)
LEMMA CloseOK ==
  ASSUME TypeOK, SemOK, NEW r \in Requests, NEW how \in Replies, Close(r, how)
  PROVE  /\ SemOK'
         /\ pc' = [pc EXCEPT ![r] = "closed"]
         /\ pc' \in [Requests -> Places]
         /\ reply' \in [Requests -> Replies]
<1>1. SemOK'
  BY SemReleaseOK, SemAbandonOK, SemSame DEF Close
<1> QED
  BY <1>1 DEF Close, Goto, TypeOK, Places

LEMMA SpawnOK ==
  ASSUME TypeOK, NEW r \in Requests, NEW tools \in Seq(ToolNames), Spawn(r, tools)
  PROVE  /\ plan' \in [Requests -> Seq(ToolNames)]
         /\ base' \in [Requests -> Seq(Id \cup {NoId, UnknownId})]
         /\ thread' = [thread EXCEPT ![r] = "running"]
         /\ \A q \in Requests : thread'[q] = "returned" => step'[q] >= Len(plan'[q])
<1>1. PICK ids \in [DOMAIN tools -> UNION {NameableIds(tools[i]) : i \in DOMAIN tools}] :
             base' = [base EXCEPT ![r] = ids]
  BY DEF Spawn
<1>2. \A t : NameableIds(t) \subseteq Id \cup {NoId, UnknownId}
  BY DEF NameableIds, TypeOK, Rows
<1>3. ids \in [1..Len(tools) -> Id \cup {NoId, UnknownId}]
  BY <1>1, <1>2
<1>4. ids \in Seq(Id \cup {NoId, UnknownId})
  BY <1>3, Len(tools) \in Nat
<1>5. \A q \in Requests : thread'[q] = "returned" => step'[q] >= Len(plan'[q])
  <2> SUFFICES ASSUME NEW q \in Requests, thread'[q] = "returned"
               PROVE  step'[q] >= Len(plan'[q])
    OBVIOUS
  <2>1. thread' = [thread EXCEPT ![r] = "running"] /\ plan' = [plan EXCEPT ![r] = tools] /\ step' = step
    BY DEF Spawn
  <2>2. q # r /\ thread[q] = "returned"
    BY <2>1 DEF TypeOK
  <2>3. plan'[q] = plan[q]
    BY <2>1, <2>2 DEF TypeOK
  <2> QED
    BY <2>1, <2>2, <2>3 DEF TypeOK
<1> QED
  BY <1>1, <1>4, <1>5 DEF Spawn, TypeOK

----------------------------------------------------------------------------
(***************************************************************************)
(* The type invariant, together with the accounts of the semaphore.        *)
(***************************************************************************)
THEOREM TypeInit == Init => TypeOK /\ SemOK
<1> SUFFICES ASSUME Init PROVE TypeOK /\ SemOK
  OBVIOUS
<1>1. SemOK
  BY SemInitOK DEF Init
<1>2. TypeOK
  BY <1>1, BoundsAssumption
     DEF Init, SemOK, TypeOK, Store!StoreInit, Places, Replies, InService, PersistPoints, TraceTypes
<1> QED
  BY <1>1, <1>2

\* Every way of ending a handler keeps the types.
LEMMA CloseTypes ==
  ASSUME TypeOK, SemOK, NEW r \in Requests, NEW how \in Replies, Close(r, how),
         kind' \in [Requests -> {"none", "ask", "experiment"}],
         stamp' \in [Requests -> Nat],
         UNCHANGED <<storeVars, hash, plan, base, threadVars, callVars, envVars>>
  PROVE  TypeOK' /\ SemOK'
<1>1. /\ SemOK'
      /\ pc' = [pc EXCEPT ![r] = "closed"]
      /\ pc' \in [Requests -> Places]
      /\ reply' \in [Requests -> Replies]
  BY CloseOK
<1>2. \A q \in Requests : pc'[q] \in PersistPoints => first'[q] # NoTrace
  BY <1>1 DEF TypeOK, PersistPoints, threadVars
<1>3. SemOK' => Sem!SemTypeOK'
  BY DEF SemOK
<1> QED
  BY <1>1, <1>2, <1>3 DEF TypeOK, storeVars, threadVars, callVars, envVars

LEMMA CommitRowOK ==
  ASSUME rows \subseteq Rows, nextRow \in Nat,
         NEW id \in Id, NEW at \in Nat, NEW h \in Portfolios, NEW type \in ExperimentTypes,
         NEW parent \in Id \cup {NoId}, NEW full \in BOOLEAN,
         Store!CommitRow(id, at, h, type, parent, full)
  PROVE  rows' \subseteq Rows
BY DEF Store!CommitRow, Rows

LEMMA AdvanceOK ==
  ASSUME TypeOK, NEW r \in Requests, thread[r] = "running", Advance(r)
  PROVE  /\ thread' \in [Requests -> {"none", "running", "returned", "panicked", "killed"}]
         /\ step' \in [Requests -> Nat \ {0}]
         /\ \A q \in Requests : thread'[q] = "returned" => step'[q] >= Len(plan[q])
<1>1. /\ thread \in [Requests -> {"none", "running", "returned", "panicked", "killed"}]
      /\ step \in [Requests -> Nat \ {0}]
      /\ plan[r] \in Seq(ToolNames)
      /\ \A q \in Requests : thread[q] = "returned" => step[q] >= Len(plan[q])
  BY DEF TypeOK
<1>2. step[r] + 1 \in Nat \ {0} /\ Len(plan[r]) \in Nat
  BY <1>1
<1>3. \/ step' = [step EXCEPT ![r] = @ + 1] /\ thread' = thread
      \/ /\ ~(step[r] < Len(plan[r]))
         /\ thread' = [thread EXCEPT ![r] = "returned"] /\ step' = step
  BY Zenon DEF Advance
<1>4. step[r] \in Nat
  BY <1>1
<1> QED
  BY <1>1, <1>2, <1>3, <1>4

LEMMA ToolFailsOK ==
  ASSUME TypeOK, SemOK, NEW r \in Requests, NEW cause \in Causes,
         thread[r] = "running", ToolFails(r, cause)
  PROVE  TypeOK' /\ SemOK'
<1> USE DEF storeVars, inputVars, threadVars, callVars, envVars
<1>1. SemOK'
  BY SemSame DEF ToolFails
<1>2. /\ thread' \in [Requests -> {"none", "running", "returned", "panicked", "killed"}]
      /\ step' \in [Requests -> Nat \ {0}]
      /\ \A q \in Requests : thread'[q] = "returned" => step'[q] >= Len(plan[q])
  BY AdvanceOK DEF ToolFails
<1>3. errors' \in [Requests -> Seq(Causes)]
  BY DEF ToolFails, TypeOK
<1> QED
  BY <1>1, <1>2, <1>3 DEF ToolFails, SemOK, TypeOK

\* Every step keeps the types and the accounts of the semaphore.
LEMMA TypeStep == TypeOK /\ SemOK /\ [Next]_vars => TypeOK' /\ SemOK'
<1> SUFFICES ASSUME TypeOK, SemOK, [Next]_vars PROVE TypeOK' /\ SemOK'
  OBVIOUS
<1> USE DEF storeVars, inputVars, threadVars, callVars, envVars
<1>0. /\ kind \in [Requests -> {"none", "ask", "experiment"}]
      /\ stamp \in [Requests -> Nat]
  BY DEF TypeOK
<1>1. ASSUME NEW r \in Requests, RejectInput(r) PROVE TypeOK' /\ SemOK'
  <2>1. /\ Close(r, "bad_request")
        /\ kind' \in [Requests -> {"none", "ask", "experiment"}]
        /\ stamp' \in [Requests -> Nat]
        /\ UNCHANGED <<storeVars, hash, plan, base, threadVars, callVars, envVars>>
    BY <1>1, <1>0 DEF RejectInput
  <2>2. "bad_request" \in Replies
    BY DEF Replies
  <2> QED
    BY <2>1, <2>2, CloseTypes
<1>2. ASSUME NEW r \in Requests, QueueTimeout(r) PROVE TypeOK' /\ SemOK'
  <2>1. /\ Close(r, "busy")
        /\ kind' \in [Requests -> {"none", "ask", "experiment"}]
        /\ stamp' \in [Requests -> Nat]
        /\ UNCHANGED <<storeVars, hash, plan, base, threadVars, callVars, envVars>>
    BY <1>2, <1>0 DEF QueueTimeout
  <2>2. "busy" \in Replies
    BY DEF Replies
  <2> QED
    BY <2>1, <2>2, CloseTypes
<1>3. ASSUME NEW r \in Requests, PlanDeclined(r) PROVE TypeOK' /\ SemOK'
  <2>1. /\ Close(r, "redirect")
        /\ kind' \in [Requests -> {"none", "ask", "experiment"}]
        /\ stamp' \in [Requests -> Nat]
        /\ UNCHANGED <<storeVars, hash, plan, base, threadVars, callVars, envVars>>
    BY <1>3, <1>0 DEF PlanDeclined
  <2>2. "redirect" \in Replies
    BY DEF Replies
  <2> QED
    BY <2>1, <2>2, CloseTypes
<1>4. ASSUME NEW r \in Requests, PlanFails(r) PROVE TypeOK' /\ SemOK'
  <2>1. /\ Close(r, "ai_unavailable")
        /\ kind' \in [Requests -> {"none", "ask", "experiment"}]
        /\ stamp' \in [Requests -> Nat]
        /\ UNCHANGED <<storeVars, hash, plan, base, threadVars, callVars, envVars>>
    BY <1>4, <1>0 DEF PlanFails
  <2>2. "ai_unavailable" \in Replies
    BY DEF Replies
  <2> QED
    BY <2>1, <2>2, CloseTypes
<1>5. ASSUME NEW r \in Requests, ToolsFailed(r) PROVE TypeOK' /\ SemOK'
  <2>1. /\ Close(r, ToolsErrorReply(r))
        /\ kind' \in [Requests -> {"none", "ask", "experiment"}]
        /\ stamp' \in [Requests -> Nat]
        /\ UNCHANGED <<storeVars, hash, plan, base, threadVars, callVars, envVars>>
    BY <1>5, <1>0 DEF ToolsFailed, ToolsErrorReply
  <2>2. ToolsErrorReply(r) \in Replies
    BY DEF Replies, ToolsErrorReply
  <2> QED
    BY <2>1, <2>2, CloseTypes
<1>6. ASSUME NEW r \in Requests, ToolsPanicked(r) PROVE TypeOK' /\ SemOK'
  <2>1. PICK how \in {"dropped", "internal"} : Close(r, how)
    BY <1>6 DEF ToolsPanicked
  <2>2. how \in Replies
    BY DEF Replies
  <2> QED
    BY <2>1, <2>2, <1>6, <1>0, CloseTypes DEF ToolsPanicked
<1>7. ASSUME NEW r \in Requests, CallsFailed(r) PROVE TypeOK' /\ SemOK'
  <2>1. /\ Close(r, "ai_unavailable")
        /\ kind' \in [Requests -> {"none", "ask", "experiment"}]
        /\ stamp' \in [Requests -> Nat]
        /\ UNCHANGED <<storeVars, hash, plan, base, threadVars, callVars, envVars>>
    BY <1>7, <1>0 DEF CallsFailed
  <2>2. "ai_unavailable" \in Replies
    BY DEF Replies
  <2> QED
    BY <2>1, <2>2, CloseTypes
<1>8. ASSUME NEW r \in Requests, SaveSnapshotFails(r) PROVE TypeOK' /\ SemOK'
  <2>1. /\ Close(r, "store_error")
        /\ kind' \in [Requests -> {"none", "ask", "experiment"}]
        /\ stamp' \in [Requests -> Nat]
        /\ UNCHANGED <<storeVars, hash, plan, base, threadVars, callVars, envVars>>
    BY <1>8, <1>0 DEF SaveSnapshotFails
  <2>2. "store_error" \in Replies
    BY DEF Replies
  <2> QED
    BY <2>1, <2>2, CloseTypes
<1>9. ASSUME NEW r \in Requests, SaveTraceFails(r) PROVE TypeOK' /\ SemOK'
  <2>1. /\ Close(r, "store_error")
        /\ kind' \in [Requests -> {"none", "ask", "experiment"}]
        /\ stamp' \in [Requests -> Nat]
        /\ UNCHANGED <<storeVars, hash, plan, base, threadVars, callVars, envVars>>
    BY <1>9, <1>0 DEF SaveTraceFails
  <2>2. "store_error" \in Replies
    BY DEF Replies
  <2> QED
    BY <2>1, <2>2, CloseTypes
<1>10. ASSUME NEW r \in Requests, SendReply(r) PROVE TypeOK' /\ SemOK'
  <2>1. /\ Close(r, "ok")
        /\ kind' \in [Requests -> {"none", "ask", "experiment"}]
        /\ stamp' \in [Requests -> Nat]
        /\ UNCHANGED <<storeVars, hash, plan, base, threadVars, callVars, envVars>>
    BY <1>10, <1>0 DEF SendReply
  <2>2. "ok" \in Replies
    BY DEF Replies
  <2> QED
    BY <2>1, <2>2, CloseTypes
<1>11. ASSUME NEW r \in Requests, Disconnect(r) PROVE TypeOK' /\ SemOK'
  <2>1. /\ Close(r, "dropped")
        /\ kind' \in [Requests -> {"none", "ask", "experiment"}]
        /\ stamp' \in [Requests -> Nat]
        /\ UNCHANGED <<storeVars, hash, plan, base, threadVars, callVars, envVars>>
    BY <1>11, <1>0 DEF Disconnect
  <2>2. "dropped" \in Replies
    BY DEF Replies
  <2> QED
    BY <2>1, <2>2, CloseTypes
<1>12. ASSUME NEW r \in Requests, PostAsk(r) PROVE TypeOK' /\ SemOK'
  <2>1. SemOK'
    BY <1>12, SemAcquireOK DEF PostAsk
  <2> QED
    BY <2>1, <1>12 DEF PostAsk, Goto, SemOK, TypeOK, Places, InService, PersistPoints
<1>13. ASSUME NEW r \in Requests, PostExperiment(r) PROVE TypeOK' /\ SemOK'
  <2>1. PICK tool \in DirectTools : Spawn(r, <<tool>>)
    BY <1>13 DEF PostExperiment
  <2>2. <<tool>> \in Seq(ToolNames)
    BY DirectAssumption DEF ToolNames
  <2>3. SemOK'
    BY <1>13, SemSame DEF PostExperiment
  <2> QED
    <3>1. /\ plan' \in [Requests -> Seq(ToolNames)]
          /\ base' \in [Requests -> Seq(Id \cup {NoId, UnknownId})]
          /\ thread' = [thread EXCEPT ![r] = "running"]
          /\ \A q \in Requests : thread'[q] = "returned" => step'[q] >= Len(plan'[q])
      BY <2>1, <2>2, SpawnOK
    <3>2. pc' \in [Requests -> Places]
      BY <1>13 DEF PostExperiment, Goto, TypeOK, Places, InService
    <3>3. \A q \in Requests : pc'[q] \in {"calling"} \cup PersistPoints => first'[q] # NoTrace
      BY <2>1, <1>13 DEF PostExperiment, Spawn, Goto, TypeOK, PersistPoints
    <3>4. /\ kind' \in [Requests -> {"none", "ask", "experiment"}]
          /\ thread' \in [Requests -> {"none", "running", "returned", "panicked", "killed"}]
      BY <1>0, <3>1, <1>13 DEF PostExperiment, TypeOK
    <3>5. UNCHANGED <<rows, traces, nextRow, now, reply, hash, step, first, errors, chain, stamp,
                      calls, failed, lost, restarts>>
      BY <2>1, <1>13 DEF PostExperiment, Spawn
    <3>6. Sem!SemTypeOK'
      BY <2>3 DEF SemOK
    <3> QED
      BY <2>3, <3>1, <3>2, <3>3, <3>4, <3>5, <3>6 DEF TypeOK
<1>14. ASSUME NEW r \in Requests, PlanReady(r) PROVE TypeOK' /\ SemOK'
  <2>1. PICK answer \in Answers : Spawn(r, PlannedTools(answer))
    BY <1>14 DEF PlanReady
  <2>2. PlannedTools(answer) \in Seq(ToolNames)
    <3>1. <<"current_risk">> \in Seq(ToolNames)
      BY DEF ToolNames, RiskTools
    <3> QED
      BY <3>1, AnswersAssumption DEF PlannedTools
  <2>3. SemOK'
    BY <1>14, SemSame DEF PlanReady
  <2> QED
    <3>1. /\ plan' \in [Requests -> Seq(ToolNames)]
          /\ base' \in [Requests -> Seq(Id \cup {NoId, UnknownId})]
          /\ thread' = [thread EXCEPT ![r] = "running"]
          /\ \A q \in Requests : thread'[q] = "returned" => step'[q] >= Len(plan'[q])
      BY <2>1, <2>2, SpawnOK
    <3>2. pc' \in [Requests -> Places]
      BY <1>14 DEF PlanReady, Goto, TypeOK, Places, InService
    <3>3. \A q \in Requests : pc'[q] \in {"calling"} \cup PersistPoints => first'[q] # NoTrace
      BY <2>1, <1>14 DEF PlanReady, Spawn, Goto, TypeOK, PersistPoints
    <3>4. /\ kind' \in [Requests -> {"none", "ask", "experiment"}]
          /\ thread' \in [Requests -> {"none", "running", "returned", "panicked", "killed"}]
      BY <1>0, <3>1, <1>14 DEF PlanReady, TypeOK
    <3>5. UNCHANGED <<rows, traces, nextRow, now, reply, hash, step, first, errors, chain, stamp,
                      calls, failed, lost, restarts>>
      BY <2>1, <1>14 DEF PlanReady, Spawn
    <3>6. Sem!SemTypeOK'
      BY <2>3 DEF SemOK
    <3> QED
      BY <2>3, <3>1, <3>2, <3>3, <3>4, <3>5, <3>6 DEF TypeOK
<1>15. ASSUME NEW r \in Requests, GetPermit(r) PROVE TypeOK' /\ SemOK'
  <2>1. SemOK'
    BY <1>15, SemSame DEF GetPermit
  <2> QED
    BY <2>1, <1>15 DEF GetPermit, SemOK, TypeOK, Goto, Places, InService, PersistPoints
<1>16. ASSUME NEW r \in Requests, ToolError(r) PROVE TypeOK' /\ SemOK'
  <2>1. PICK cause \in {"compute", "unknown_tool"} : ToolFails(r, cause)
    BY <1>16 DEF ToolError
  <2>2. cause \in Causes
    BY DEF Causes
  <2>3. thread[r] = "running"
    BY <1>16 DEF ToolError, Running
  <2> QED
    BY <2>1, <2>2, <2>3, ToolFailsOK
<1>17. ASSUME NEW r \in Requests, DriftWithoutBaseline(r) PROVE TypeOK' /\ SemOK'
  <2>1. ToolFails(r, "no_prior")
    BY <1>17 DEF DriftWithoutBaseline
  <2>2. thread[r] = "running"
    BY <1>17 DEF DriftWithoutBaseline, Running
  <2> QED
    BY <2>1, <2>2, ToolFailsOK DEF Causes
<1>18. ASSUME NEW r \in Requests, DriftWrongBaseline(r) PROVE TypeOK' /\ SemOK'
  <2>1. PICK row \in Baselines(r) : BaselineFault(r, row) # "none" /\ ToolFails(r, BaselineFault(r, row))
    BY <1>18 DEF DriftWrongBaseline
  <2>2. BaselineFault(r, row) \in Causes
    BY <2>1 DEF BaselineFault, Causes
  <2>3. thread[r] = "running"
    BY <1>18 DEF DriftWrongBaseline, Running
  <2> QED
    BY <2>1, <2>2, <2>3, ToolFailsOK
<1>19. ASSUME NEW r \in Requests, DriftSucceeds(r) PROVE TypeOK' /\ SemOK'
  <2>1. SemOK'
    BY <1>19, SemSame DEF DriftSucceeds
  <2>2. PICK row \in Baselines(r) : KeepTrace(r, "RiskDrift", row.id)
    BY <1>19 DEF DriftSucceeds
  <2>3. row.id \in Id
    BY <2>2 DEF Baselines, Store!Latest, Store!RowsOf, Store!ById, TypeOK, Rows
  <2>4. "RiskDrift" \in ExperimentTypes
    BY DEF ExperimentTypes, ExperimentOf, RiskTools
  <2>5. first' \in [Requests -> TraceTypes] /\ \A q \in Requests : first[q] # NoTrace => first'[q] # NoTrace
    BY <2>2, <2>3, <2>4 DEF KeepTrace, TypeOK, TraceTypes, NoTrace
  <2> QED
    BY <2>1, <2>5, <1>19, AdvanceOK DEF DriftSucceeds, Running, SemOK, TypeOK
<1>20. ASSUME NEW r \in Requests, ToolSucceeds(r) PROVE TypeOK' /\ SemOK'
  <2>1. SemOK'
    BY <1>20, SemSame DEF ToolSucceeds
  <2>2. ExperimentOf(Tool(r)) \in ExperimentTypes
    BY <1>20 DEF ToolSucceeds, ExperimentTypes
  <2>3. first' \in [Requests -> TraceTypes] /\ \A q \in Requests : first[q] # NoTrace => first'[q] # NoTrace
    BY <2>2, <1>20 DEF ToolSucceeds, KeepTrace, TypeOK, TraceTypes, NoTrace
  <2>4. /\ thread' \in [Requests -> {"none", "running", "returned", "panicked", "killed"}]
        /\ step' \in [Requests -> Nat \ {0}]
        /\ \A q \in Requests : thread'[q] = "returned" => step'[q] >= Len(plan[q])
    BY <1>20, AdvanceOK DEF ToolSucceeds, Running, TypeOK
  <2>5. stamp' \in [Requests -> Nat]
    BY <1>20 DEF ToolSucceeds, TypeOK
  <2> QED
    BY <2>1, <2>3, <2>4, <2>5, <1>20 DEF ToolSucceeds, SemOK, TypeOK
<1>21. ASSUME NEW r \in Requests, ChainCommits(r) PROVE TypeOK' /\ SemOK'
  <2>1. SemOK'
    BY <1>21, SemSame DEF ChainCommits
  <2>2. ChainId(r, step[r]) \in Id
    BY DEF ChainId, TypeOK
  <2>3. "RiskDecomposition" \in ExperimentTypes
    BY DEF ExperimentTypes, ExperimentOf, RiskTools
  <2>4. rows' \subseteq Rows
    <3>1. Store!CommitRow(ChainId(r, step[r]), stamp[r], hash[r], "RiskDecomposition", NoId, FALSE)
      BY <1>21 DEF ChainCommits
    <3> QED
      BY <3>1, <2>2, <2>3, CommitRowOK DEF TypeOK
  <2>5. /\ nextRow' \in Nat /\ traces' = traces /\ now' = now
        /\ chain' \in [Requests -> Id \cup {NoId}]
        /\ stamp' \in [Requests -> Nat]
    BY <2>2, <1>21 DEF ChainCommits, Store!CommitRow, TypeOK
  <2> QED
    BY <2>1, <2>4, <2>5, <1>21, AdvanceOK DEF ChainCommits, SemOK, TypeOK
<1>22. ASSUME NEW r \in Requests, ChainInsertFails(r) PROVE TypeOK' /\ SemOK'
  <2>1. SemOK'
    BY <1>22, SemSame DEF ChainInsertFails
  <2> QED
    BY <2>1, <1>22, AdvanceOK DEF ChainInsertFails, SemOK, TypeOK
<1>23. ASSUME NEW r \in Requests, ToolPanics(r) PROVE TypeOK' /\ SemOK'
  <2>1. SemOK'
    BY <1>23, SemSame DEF ToolPanics
  <2> QED
    BY <2>1, <1>23 DEF ToolPanics, SemOK, TypeOK
<1>24. ASSUME NEW r \in Requests, ExperimentDone(r) PROVE TypeOK' /\ SemOK'
  <2>1. SemOK'
    BY <1>24, SemSame DEF ExperimentDone
  <2> QED
    BY <2>1, <1>24 DEF ExperimentDone, SemOK, TypeOK, Goto, Places, InService, PersistPoints
<1>25. ASSUME NEW r \in Requests, StartCalls(r) PROVE TypeOK' /\ SemOK'
  <2>1. SemOK'
    BY <1>25, SemSame DEF StartCalls
  <2> QED
    BY <2>1, <1>25 DEF StartCalls, SemOK, TypeOK, Goto, Places, InService, PersistPoints
<1>26. ASSUME NEW r \in Requests, CallReturns(r) PROVE TypeOK' /\ SemOK'
  <2>1. SemOK'
    BY <1>26, SemSame DEF CallReturns
  <2>2. calls' \in [Requests -> SUBSET {"narration", "suggestion"}]
    BY <1>26 DEF CallReturns, TypeOK
  <2>3. failed' \in [Requests -> BOOLEAN]
    BY <1>26 DEF CallReturns, TypeOK
  <2> QED
    BY <2>1, <2>2, <2>3, <1>26 DEF CallReturns, SemOK, TypeOK
<1>27. ASSUME NEW r \in Requests, CallsDone(r) PROVE TypeOK' /\ SemOK'
  <2>1. SemOK'
    BY <1>27, SemSame DEF CallsDone
  <2> QED
    BY <2>1, <1>27 DEF CallsDone, SemOK, TypeOK, Goto, Places, InService, PersistPoints
<1>28. ASSUME NEW r \in Requests, StampResult(r) PROVE TypeOK' /\ SemOK'
  <2>1. SemOK'
    BY <1>28, SemSame DEF StampResult
  <2> QED
    BY <2>1, <1>28 DEF StampResult, SemOK, TypeOK, Goto, Places, InService, PersistPoints
<1>29. ASSUME NEW r \in Requests, SaveSnapshot(r) PROVE TypeOK' /\ SemOK'
  <2>1. SemOK'
    BY <1>29, SemSame DEF SaveSnapshot
  <2>2. ResultId(r) \in Id
    BY DEF ResultId
  <2>3. first[r] \in [type : ExperimentTypes, parent : Id \cup {NoId}]
    BY <1>29 DEF SaveSnapshot, TypeOK, TraceTypes, PersistPoints
  <2>4. /\ pc' \in [Requests -> Places]
        /\ \A q \in Requests : pc'[q] \in {"calling"} \cup PersistPoints =>
                                 pc[q] \in {"calling"} \cup PersistPoints
    BY <1>29 DEF SaveSnapshot, Goto, Places, InService, PersistPoints, TypeOK
  <2>5. rows' \subseteq Rows
    <3>1. Store!CommitRow(ResultId(r), stamp[r], hash[r], first[r].type, first[r].parent, TRUE)
      BY <1>29 DEF SaveSnapshot
    <3>2. first[r].type \in ExperimentTypes /\ first[r].parent \in Id \cup {NoId}
      BY <2>3
    <3> QED
      BY <3>1, <3>2, <2>2, CommitRowOK DEF TypeOK
  <2>6. /\ nextRow' \in Nat /\ traces' = traces /\ now' = now
        /\ stamp' \in [Requests -> Nat]
    BY <1>29 DEF SaveSnapshot, Store!CommitRow, TypeOK
  <2> QED
    BY <2>1, <2>4, <2>5, <2>6, <1>29 DEF SaveSnapshot, SemOK, TypeOK, PersistPoints
<1>30. ASSUME NEW r \in Requests, SaveTrace(r) PROVE TypeOK' /\ SemOK'
  <2>1. SemOK'
    BY <1>30, SemSame DEF SaveTrace
  <2> QED
    BY <2>1, <1>30 DEF SaveTrace, SemOK, TypeOK, Store!CommitTrace, Goto, Places, InService, PersistPoints
<1>31. CASE ClockTicks
  <2>1. SemOK'
    BY <1>31, SemSame DEF ClockTicks
  <2>2. now' \in Nat \ {0} /\ UNCHANGED <<rows, traces, nextRow>>
    BY <1>31 DEF ClockTicks, Store!Tick, TypeOK
  <2> QED
    BY <2>1, <2>2, <1>31 DEF ClockTicks, SemOK, TypeOK
<1>32. CASE Restart
  <2>1. SemOK'
    BY <1>32, SemRecreateOK DEF Restart
  <2>2. PICK kept \in BOOLEAN : /\ Store!Reopen(kept)
                               /\ lost' = IF kept THEN lost ELSE {r \in Requests : pc[r] # "idle"}
    BY <1>32 DEF Restart
  <2>3. /\ rows' \subseteq rows /\ traces' \subseteq traces /\ nextRow' \in Nat
        /\ now' = now /\ lost' \subseteq Requests
    BY <2>2 DEF Store!Reopen, TypeOK
  <2>4. /\ pc' \in [Requests -> Places]
        /\ \A q \in Requests : pc'[q] \notin {"calling"} \cup PersistPoints
    BY <1>32 DEF Restart, TypeOK, Goto, Places, InService, PersistPoints
  <2>5. /\ reply' \in [Requests -> Replies]
        /\ thread' \in [Requests -> {"none", "running", "returned", "panicked", "killed"}]
        /\ stamp' \in [Requests -> Nat]
        /\ restarts' \in Nat
    BY <1>32 DEF Restart, TypeOK, Replies
  <2> QED
    BY <2>1, <2>3, <2>4, <2>5, <1>32 DEF Restart, SemOK, TypeOK
<1>33. CASE UNCHANGED vars
  <2>1. SemOK'
    BY <1>33, SemSame DEF vars
  <2> QED
    BY <2>1, <1>33 DEF vars, SemOK, TypeOK
<1> QED
  BY <1>1, <1>2, <1>3, <1>4, <1>5, <1>6, <1>7, <1>8, <1>9, <1>10, <1>11, <1>12, <1>13, <1>14, <1>15, <1>16, <1>17, <1>18, <1>19, <1>20, <1>21, <1>22, <1>23, <1>24, <1>25, <1>26, <1>27, <1>28, <1>29, <1>30, <1>31, <1>32, <1>33 DEF Next, ClientStep, HandlerStep, ThreadStep, AllQuiet

\* The variables of the service stay in their types.
THEOREM TypeCorrect == Spec => []TypeOK
<1>1. Init => TypeOK /\ SemOK
  BY TypeInit
<1>2. TypeOK /\ SemOK /\ [Next]_vars => TypeOK' /\ SemOK'
  BY TypeStep
<1> QED
  BY <1>1, <1>2, PTL DEF Spec

----------------------------------------------------------------------------
(***************************************************************************)
(* The permits and the handlers agree.                                     *)
(***************************************************************************)
HandlerPermits ==
    /\ \A r \in Requests : (kind[r] = "ask" /\ pc[r] \in InService) => r \in held
    /\ \A r \in held : kind[r] = "ask" /\ pc[r] \in InService \cup {"queued"}
    /\ \A r \in Requests : pc[r] = "queued" => r \in held \cup Sem!Waiting
    /\ \A r \in Sem!Waiting : kind[r] = "ask" /\ pc[r] = "queued"

\* A handler that goes from one point of its service to another.
LEMMA MovePermits ==
  ASSUME TypeOK, HandlerPermits, UNCHANGED <<semVars, kind>>,
         \A q \in Requests : pc'[q] = pc[q] \/ (pc[q] \in InService /\ pc'[q] \in InService)
  PROVE  HandlerPermits'
<1>1. held \subseteq Requests /\ Sem!Waiting \subseteq Requests
  BY DEF TypeOK, Sem!SemTypeOK, Sem!Waiting
<1>2. held' = held /\ Sem!Waiting' = Sem!Waiting /\ kind' = kind
  BY DEF semVars, Sem!Waiting
<1>3. "queued" \notin InService
  BY DEF InService, PersistPoints
<1> QED
  BY <1>1, <1>2, <1>3 DEF HandlerPermits

LEMMA ClosePermits ==
  ASSUME TypeOK, SemOK, HandlerPermits, NEW r \in Requests, NEW how, Close(r, how),
         \A q \in Requests \ {r} : kind'[q] = kind[q]
  PROVE  HandlerPermits'
<1>1. held \subseteq Requests /\ Sem!Waiting \subseteq Requests /\ held \cap Sem!Waiting = {}
  BY DEF TypeOK, SemOK, Sem!SemInv, Sem!QueueOrdered, Sem!SemTypeOK, Sem!Waiting
<1>2. /\ pc'[r] = "closed" /\ "closed" \notin InService \cup {"queued"}
      /\ \A q \in Requests \ {r} : pc'[q] = pc[q]
  BY DEF Close, Goto, TypeOK, InService, PersistPoints
<1>3. CASE Sem!PassOn(r) /\ r \in held
  <2>1. PICK u \in Sem!FirstWaiting : /\ held' = (held \ {r}) \cup {u}
                                      /\ ticket' = [ticket EXCEPT ![u] = 0]
    BY <1>3 DEF Sem!PassOn
  <2>2. u \in Sem!Waiting /\ u # r /\ Sem!Waiting' = Sem!Waiting \ {u}
    BY <2>1, <1>1, <1>3 DEF Sem!FirstWaiting, Sem!Waiting, TypeOK, Sem!SemTypeOK
  <2> QED
    BY <2>1, <2>2, <1>1, <1>2, <1>3 DEF HandlerPermits
<1>4. CASE Sem!PutBack(r) /\ r \in held
  <2>1. held' = held \ {r} /\ Sem!Waiting' = Sem!Waiting
    BY <1>4 DEF Sem!PutBack, Sem!Waiting
  <2> QED
    BY <2>1, <1>1, <1>2, <1>4 DEF HandlerPermits
<1>5. CASE Sem!Abandon(r)
  <2>1. held' = held /\ r \notin held /\ Sem!Waiting' = Sem!Waiting \ {r}
    BY <1>5, <1>1 DEF Sem!Abandon, Sem!Waiting, TypeOK, Sem!SemTypeOK
  <2> QED
    BY <2>1, <1>1, <1>2 DEF HandlerPermits
<1>6. CASE r \notin held \cup Sem!Waiting /\ UNCHANGED semVars
  <2>1. held' = held /\ Sem!Waiting' = Sem!Waiting
    BY <1>6 DEF semVars, Sem!Waiting
  <2> QED
    BY <2>1, <1>1, <1>2, <1>6 DEF HandlerPermits
<1> QED
  BY <1>3, <1>4, <1>5, <1>6 DEF Close, Sem!Release

LEMMA PostAskPermits ==
  ASSUME TypeOK, SemOK, HandlerPermits, NEW r \in Requests, PostAsk(r)
  PROVE  HandlerPermits'
<1>1. held \subseteq Requests /\ Sem!Waiting \subseteq Requests /\ r \notin held \cup Sem!Waiting
  BY DEF TypeOK, Sem!SemTypeOK, Sem!Waiting, PostAsk, Sem!Acquire
<1>2. /\ kind'[r] = "ask"
      /\ \A q \in Requests \ {r} : kind'[q] = kind[q] /\ pc'[q] = pc[q]
  BY DEF PostAsk, Goto, TypeOK
<1>3. "planning" \in InService /\ "queued" \notin InService
  BY DEF InService, PersistPoints
<1>4. CASE Sem!TakePermit(r)
  <2>1. held' = held \cup {r} /\ Sem!Waiting' = Sem!Waiting
    BY <1>4 DEF Sem!TakePermit, Sem!Waiting
  <2>2. pc'[r] = "planning"
    BY <2>1 DEF PostAsk, Goto, TypeOK
  <2> QED
    BY <2>1, <2>2, <1>1, <1>2, <1>3 DEF HandlerPermits
<1>5. CASE Sem!JoinQueue(r)
  <2>1. held' = held /\ Sem!Waiting' = Sem!Waiting \cup {r}
    BY <1>5 DEF Sem!JoinQueue, Sem!Waiting, TypeOK, Sem!SemTypeOK
  <2>2. pc'[r] = "queued"
    BY <2>1, <1>1 DEF PostAsk, Goto, TypeOK
  <2> QED
    BY <2>1, <2>2, <1>1, <1>2, <1>3 DEF HandlerPermits
<1> QED
  BY <1>4, <1>5 DEF PostAsk, Sem!Acquire

LEMMA PermitStep == TypeOK /\ SemOK /\ HandlerPermits /\ [Next]_vars => HandlerPermits'
<1> SUFFICES ASSUME TypeOK, SemOK, HandlerPermits, [Next]_vars PROVE HandlerPermits'
  OBVIOUS
<1> USE DEF inputVars
<1>1. ASSUME NEW r \in Requests, RejectInput(r) PROVE HandlerPermits'
  <2>1. /\ Close(r, "bad_request")
        /\ \A q \in Requests \ {r} : kind'[q] = kind[q]
    BY <1>1 DEF RejectInput, TypeOK
  <2> QED
    BY <2>1, ClosePermits
<1>2. ASSUME NEW r \in Requests, QueueTimeout(r) PROVE HandlerPermits'
  <2>1. /\ Close(r, "busy")
        /\ \A q \in Requests \ {r} : kind'[q] = kind[q]
    BY <1>2 DEF QueueTimeout
  <2> QED
    BY <2>1, ClosePermits
<1>3. ASSUME NEW r \in Requests, PlanDeclined(r) PROVE HandlerPermits'
  <2>1. /\ Close(r, "redirect")
        /\ \A q \in Requests \ {r} : kind'[q] = kind[q]
    BY <1>3 DEF PlanDeclined
  <2> QED
    BY <2>1, ClosePermits
<1>4. ASSUME NEW r \in Requests, PlanFails(r) PROVE HandlerPermits'
  <2>1. /\ Close(r, "ai_unavailable")
        /\ \A q \in Requests \ {r} : kind'[q] = kind[q]
    BY <1>4 DEF PlanFails
  <2> QED
    BY <2>1, ClosePermits
<1>5. ASSUME NEW r \in Requests, ToolsFailed(r) PROVE HandlerPermits'
  <2>1. /\ Close(r, ToolsErrorReply(r))
        /\ \A q \in Requests \ {r} : kind'[q] = kind[q]
    BY <1>5 DEF ToolsFailed
  <2> QED
    BY <2>1, ClosePermits
<1>6. ASSUME NEW r \in Requests, ToolsPanicked(r) PROVE HandlerPermits'
  <2>1. /\ Close(r, IF kind[r] = "ask" THEN "dropped" ELSE "internal")
        /\ \A q \in Requests \ {r} : kind'[q] = kind[q]
    BY <1>6 DEF ToolsPanicked
  <2> QED
    BY <2>1, ClosePermits
<1>7. ASSUME NEW r \in Requests, CallsFailed(r) PROVE HandlerPermits'
  <2>1. /\ Close(r, "ai_unavailable")
        /\ \A q \in Requests \ {r} : kind'[q] = kind[q]
    BY <1>7 DEF CallsFailed
  <2> QED
    BY <2>1, ClosePermits
<1>8. ASSUME NEW r \in Requests, SaveSnapshotFails(r) PROVE HandlerPermits'
  <2>1. /\ Close(r, "store_error")
        /\ \A q \in Requests \ {r} : kind'[q] = kind[q]
    BY <1>8 DEF SaveSnapshotFails
  <2> QED
    BY <2>1, ClosePermits
<1>9. ASSUME NEW r \in Requests, SaveTraceFails(r) PROVE HandlerPermits'
  <2>1. /\ Close(r, "store_error")
        /\ \A q \in Requests \ {r} : kind'[q] = kind[q]
    BY <1>9 DEF SaveTraceFails
  <2> QED
    BY <2>1, ClosePermits
<1>10. ASSUME NEW r \in Requests, SendReply(r) PROVE HandlerPermits'
  <2>1. /\ Close(r, "ok")
        /\ \A q \in Requests \ {r} : kind'[q] = kind[q]
    BY <1>10 DEF SendReply
  <2> QED
    BY <2>1, ClosePermits
<1>11. ASSUME NEW r \in Requests, Disconnect(r) PROVE HandlerPermits'
  <2>1. /\ Close(r, "dropped")
        /\ \A q \in Requests \ {r} : kind'[q] = kind[q]
    BY <1>11 DEF Disconnect
  <2> QED
    BY <2>1, ClosePermits
<1>12. ASSUME NEW r \in Requests, PostAsk(r) PROVE HandlerPermits'
  BY <1>12, PostAskPermits
<1>13. ASSUME NEW r \in Requests, PostExperiment(r) PROVE HandlerPermits'
  <2>1. r \notin held \cup Sem!Waiting
    BY <1>13 DEF PostExperiment, HandlerPermits, InService, PersistPoints
  <2>2. held' = held /\ Sem!Waiting' = Sem!Waiting
    BY <1>13 DEF PostExperiment, semVars, Sem!Waiting
  <2>3. /\ kind'[r] = "experiment" /\ pc'[r] = "tools"
        /\ \A q \in Requests \ {r} : kind'[q] = kind[q] /\ pc'[q] = pc[q]
    BY <1>13 DEF PostExperiment, Goto, TypeOK
  <2>4. held \subseteq Requests /\ Sem!Waiting \subseteq Requests
    BY DEF TypeOK, Sem!SemTypeOK, Sem!Waiting
  <2> QED
    BY <2>1, <2>2, <2>3, <2>4 DEF HandlerPermits
<1>14. ASSUME NEW r \in Requests, GetPermit(r) PROVE HandlerPermits'
  <2>1. /\ held' = held /\ Sem!Waiting' = Sem!Waiting /\ kind' = kind
        /\ r \in held /\ r \notin Sem!Waiting
    BY <1>14 DEF GetPermit, semVars, Sem!Waiting, SemOK, Sem!SemInv, Sem!QueueOrdered
  <2>2. pc'[r] = "planning" /\ \A q \in Requests \ {r} : pc'[q] = pc[q]
    BY <1>14 DEF GetPermit, Goto, TypeOK
  <2>3. held \subseteq Requests /\ Sem!Waiting \subseteq Requests /\ "planning" \in InService
    BY DEF TypeOK, Sem!SemTypeOK, Sem!Waiting, InService
  <2> QED
    BY <2>1, <2>2, <2>3 DEF HandlerPermits
<1>15. ASSUME NEW r \in Requests, PlanReady(r) PROVE HandlerPermits'
  <2>1. UNCHANGED <<semVars, kind>>
    BY <1>15 DEF PlanReady
  <2>2. \A q \in Requests : pc'[q] = pc[q] \/ (pc[q] \in InService /\ pc'[q] \in InService)
    BY <1>15 DEF PlanReady, Goto, TypeOK, InService, PersistPoints
  <2> QED
    BY <2>1, <2>2, MovePermits
<1>16. ASSUME NEW r \in Requests, ExperimentDone(r) PROVE HandlerPermits'
  <2>1. UNCHANGED <<semVars, kind>>
    BY <1>16 DEF ExperimentDone
  <2>2. \A q \in Requests : pc'[q] = pc[q] \/ (pc[q] \in InService /\ pc'[q] \in InService)
    BY <1>16 DEF ExperimentDone, Goto, TypeOK, InService, PersistPoints
  <2> QED
    BY <2>1, <2>2, MovePermits
<1>17. ASSUME NEW r \in Requests, StartCalls(r) PROVE HandlerPermits'
  <2>1. UNCHANGED <<semVars, kind>>
    BY <1>17 DEF StartCalls
  <2>2. \A q \in Requests : pc'[q] = pc[q] \/ (pc[q] \in InService /\ pc'[q] \in InService)
    BY <1>17 DEF StartCalls, Goto, TypeOK, InService, PersistPoints
  <2> QED
    BY <2>1, <2>2, MovePermits
<1>18. ASSUME NEW r \in Requests, CallsDone(r) PROVE HandlerPermits'
  <2>1. UNCHANGED <<semVars, kind>>
    BY <1>18 DEF CallsDone
  <2>2. \A q \in Requests : pc'[q] = pc[q] \/ (pc[q] \in InService /\ pc'[q] \in InService)
    BY <1>18 DEF CallsDone, Goto, TypeOK, InService, PersistPoints
  <2> QED
    BY <2>1, <2>2, MovePermits
<1>19. ASSUME NEW r \in Requests, StampResult(r) PROVE HandlerPermits'
  <2>1. UNCHANGED <<semVars, kind>>
    BY <1>19 DEF StampResult
  <2>2. \A q \in Requests : pc'[q] = pc[q] \/ (pc[q] \in InService /\ pc'[q] \in InService)
    BY <1>19 DEF StampResult, Goto, TypeOK, InService, PersistPoints
  <2> QED
    BY <2>1, <2>2, MovePermits
<1>20. ASSUME NEW r \in Requests, SaveSnapshot(r) PROVE HandlerPermits'
  <2>1. UNCHANGED <<semVars, kind>>
    BY <1>20 DEF SaveSnapshot
  <2>2. \A q \in Requests : pc'[q] = pc[q] \/ (pc[q] \in InService /\ pc'[q] \in InService)
    BY <1>20 DEF SaveSnapshot, Goto, TypeOK, InService, PersistPoints
  <2> QED
    BY <2>1, <2>2, MovePermits
<1>21. ASSUME NEW r \in Requests, SaveTrace(r) PROVE HandlerPermits'
  <2>1. UNCHANGED <<semVars, kind>>
    BY <1>21 DEF SaveTrace
  <2>2. \A q \in Requests : pc'[q] = pc[q] \/ (pc[q] \in InService /\ pc'[q] \in InService)
    BY <1>21 DEF SaveTrace, Goto, TypeOK, InService, PersistPoints
  <2> QED
    BY <2>1, <2>2, MovePermits
<1>22. ASSUME NEW r \in Requests, ThreadStep(r) \/ CallReturns(r) PROVE HandlerPermits'
  <2>1. UNCHANGED <<semVars, kind, pc>>
    BY <1>22 DEF ThreadStep, ToolError, DriftWithoutBaseline, DriftWrongBaseline, ToolFails,
       DriftSucceeds, ToolSucceeds, ChainCommits, ChainInsertFails, ToolPanics, CallReturns
  <2> QED
    BY <2>1, MovePermits
<1>23. CASE ClockTicks \/ UNCHANGED vars
  BY <1>23, MovePermits DEF ClockTicks, vars
<1>24. CASE Restart
  <2>1. held' = {} /\ Sem!Waiting' = {}
    BY <1>24 DEF Restart, Sem!Recreate, Sem!Waiting
  <2>2. \A r \in Requests : pc'[r] \notin InService \cup {"queued"}
    BY <1>24 DEF Restart, InService, PersistPoints
  <2> QED
    BY <2>1, <2>2 DEF HandlerPermits
<1> QED
  BY <1>1, <1>2, <1>3, <1>4, <1>5, <1>6, <1>7, <1>8, <1>9, <1>10, <1>11, <1>12, <1>13, <1>14, <1>15, <1>16, <1>17, <1>18, <1>19, <1>20, <1>21, <1>22, <1>23, <1>24 DEF Next, ClientStep, HandlerStep, AllQuiet

\* A permit is held by exactly the asks being served, and none is ever lost: not
\* to a refusal, an error, a panic, a dropped handler or a restart.
THEOREM PermitsAccounted == Spec => []PermitAccounting
<1>1. Init => TypeOK /\ SemOK /\ HandlerPermits
  <2>1. Init => HandlerPermits
    BY DEF Init, Sem!SemInit, Sem!Waiting, HandlerPermits, InService, PersistPoints
  <2> QED
    BY <2>1, TypeInit
<1>2. TypeOK /\ SemOK /\ HandlerPermits /\ [Next]_vars => (TypeOK /\ SemOK /\ HandlerPermits)'
  BY TypeStep, PermitStep
<1>3. SemOK /\ HandlerPermits => PermitAccounting
  BY DEF SemOK, HandlerPermits, PermitAccounting
<1> QED
  BY <1>1, <1>2, <1>3, PTL DEF Spec

----------------------------------------------------------------------------
(***************************************************************************)
(* Where the thread is, given where the handler is, and what the store     *)
(* cannot hold yet.                                                        *)
(***************************************************************************)
BeforeTools == {"idle", "queued", "planning"}
AfterTools == {"calling"} \cup PersistPoints

ThreadOK ==
    \A r \in Requests :
       /\ pc[r] \in BeforeTools => thread[r] = "none" /\ first[r] = NoTrace
       /\ pc[r] \in AfterTools => thread[r] = "returned"
       /\ pc[r] = "closed" <=> reply[r] # "none"

ClockOK == /\ \A row \in rows : row.at <= now /\ row.rowid < nextRow
           /\ \A r \in Requests : stamp[r] <= now

USE DEF BeforeTools, AfterTools

\* One handler is ended; nothing else is.
LEMMA CloseThread ==
  ASSUME TypeOK, ThreadOK, NEW r \in Requests, NEW how \in Replies \ {"none"}, Close(r, how),
         UNCHANGED <<thread, first>>
  PROVE  ThreadOK'
<1>1. /\ pc' = [pc EXCEPT ![r] = "closed"]
      /\ reply' = [reply EXCEPT ![r] = how]
  BY DEF Close, Goto
<1> QED
  BY <1>1 DEF ThreadOK, TypeOK, PersistPoints

LEMMA ThreadStepOK == TypeOK /\ ThreadOK /\ [Next]_vars => ThreadOK'
<1> SUFFICES ASSUME TypeOK, ThreadOK, [Next]_vars PROVE ThreadOK'
  OBVIOUS
<1> USE DEF inputVars, threadVars
<1>1. ASSUME NEW r \in Requests, RejectInput(r) PROVE ThreadOK'
  BY <1>1, CloseThread DEF RejectInput, Replies
<1>2. ASSUME NEW r \in Requests, QueueTimeout(r) PROVE ThreadOK'
  BY <1>2, CloseThread DEF QueueTimeout, Replies
<1>3. ASSUME NEW r \in Requests, PlanDeclined(r) PROVE ThreadOK'
  BY <1>3, CloseThread DEF PlanDeclined, Replies
<1>4. ASSUME NEW r \in Requests, PlanFails(r) PROVE ThreadOK'
  BY <1>4, CloseThread DEF PlanFails, Replies
<1>5. ASSUME NEW r \in Requests, ToolsFailed(r) PROVE ThreadOK'
  BY <1>5, CloseThread DEF ToolsFailed, Replies, ToolsErrorReply
<1>6. ASSUME NEW r \in Requests, ToolsPanicked(r) PROVE ThreadOK'
  BY <1>6, CloseThread DEF ToolsPanicked, Replies
<1>7. ASSUME NEW r \in Requests, CallsFailed(r) PROVE ThreadOK'
  BY <1>7, CloseThread DEF CallsFailed, Replies
<1>8. ASSUME NEW r \in Requests, SaveSnapshotFails(r) PROVE ThreadOK'
  BY <1>8, CloseThread DEF SaveSnapshotFails, Replies
<1>9. ASSUME NEW r \in Requests, SaveTraceFails(r) PROVE ThreadOK'
  BY <1>9, CloseThread DEF SaveTraceFails, Replies
<1>10. ASSUME NEW r \in Requests, SendReply(r) PROVE ThreadOK'
  BY <1>10, CloseThread DEF SendReply, Replies
<1>11. ASSUME NEW r \in Requests, Disconnect(r) PROVE ThreadOK'
  BY <1>11, CloseThread DEF Disconnect, Replies
<1>12. ASSUME NEW r \in Requests, PostAsk(r) PROVE ThreadOK'
  BY <1>12 DEF PostAsk, Goto, ThreadOK, TypeOK, PersistPoints
<1>13. ASSUME NEW r \in Requests, GetPermit(r) PROVE ThreadOK'
  BY <1>13 DEF GetPermit, Goto, ThreadOK, TypeOK, PersistPoints
<1>14. ASSUME NEW r \in Requests, ExperimentDone(r) PROVE ThreadOK'
  BY <1>14 DEF ExperimentDone, Goto, ThreadOK, TypeOK, PersistPoints
<1>15. ASSUME NEW r \in Requests, StartCalls(r) PROVE ThreadOK'
  BY <1>15 DEF StartCalls, Goto, ThreadOK, TypeOK, PersistPoints
<1>16. ASSUME NEW r \in Requests, CallsDone(r) PROVE ThreadOK'
  BY <1>16 DEF CallsDone, Goto, ThreadOK, TypeOK, PersistPoints
<1>17. ASSUME NEW r \in Requests, StampResult(r) PROVE ThreadOK'
  BY <1>17 DEF StampResult, Goto, ThreadOK, TypeOK, PersistPoints
<1>18. ASSUME NEW r \in Requests, SaveSnapshot(r) PROVE ThreadOK'
  BY <1>18 DEF SaveSnapshot, Goto, ThreadOK, TypeOK, PersistPoints
<1>19. ASSUME NEW r \in Requests, SaveTrace(r) PROVE ThreadOK'
  BY <1>19 DEF SaveTrace, Goto, ThreadOK, TypeOK, PersistPoints
<1>20. ASSUME NEW r \in Requests, PostExperiment(r) PROVE ThreadOK'
  <2>1. /\ thread' = [thread EXCEPT ![r] = "running"]
        /\ pc' = [pc EXCEPT ![r] = "tools"]
        /\ pc[r] # "closed"
        /\ UNCHANGED <<first, reply>>
    BY <1>20 DEF PostExperiment, Spawn, Goto
  <2> QED
    BY <2>1 DEF ThreadOK, TypeOK, PersistPoints
<1>21. ASSUME NEW r \in Requests, PlanReady(r) PROVE ThreadOK'
  <2>1. /\ thread' = [thread EXCEPT ![r] = "running"]
        /\ pc' = [pc EXCEPT ![r] = "tools"]
        /\ pc[r] # "closed"
        /\ UNCHANGED <<first, reply>>
    BY <1>21 DEF PlanReady, Spawn, Goto
  <2> QED
    BY <2>1 DEF ThreadOK, TypeOK, PersistPoints
<1>22. ASSUME NEW r \in Requests, ThreadStep(r) PROVE ThreadOK'
  <2>1. /\ thread[r] = "running"
        /\ UNCHANGED <<pc, reply>>
        /\ \A q \in Requests \ {r} : thread'[q] = thread[q] /\ first'[q] = first[q]
    <3>1. thread \in [Requests -> {"none", "running", "returned", "panicked", "killed"}]
          /\ DOMAIN first = Requests
      BY DEF TypeOK
    <3>2. CASE ToolError(r) \/ DriftWithoutBaseline(r) \/ DriftWrongBaseline(r)
      BY <3>1, <3>2 DEF ToolError, DriftWithoutBaseline, DriftWrongBaseline, ToolFails, Running,
         Advance
    <3>3. CASE DriftSucceeds(r) \/ ToolSucceeds(r)
      BY <3>1, <3>3 DEF DriftSucceeds, ToolSucceeds, Running, Advance, KeepTrace
    <3>4. CASE ChainCommits(r) \/ ChainInsertFails(r) \/ ToolPanics(r)
      BY <3>1, <3>4 DEF ChainCommits, ChainInsertFails, ToolPanics, Running, Advance, KeepTrace
    <3> QED
      BY <1>22, <3>2, <3>3, <3>4 DEF ThreadStep
  <2> QED
    BY <2>1 DEF ThreadOK
<1>23. ASSUME NEW r \in Requests, CallReturns(r) PROVE ThreadOK'
  BY <1>23 DEF CallReturns, ThreadOK
<1>24. CASE ClockTicks \/ UNCHANGED vars
  BY <1>24 DEF ClockTicks, vars, ThreadOK
<1>25. CASE Restart
  <2>1. \A q \in Requests : IF pc[q] = "idle"
                            THEN pc'[q] = "idle" /\ thread'[q] = thread[q] /\ reply'[q] = reply[q]
                            ELSE pc'[q] = "closed" /\ reply'[q] # "none"
    BY <1>25 DEF Restart, ThreadOK
  <2>2. first' = first
    BY <1>25 DEF Restart
  <2> QED
    BY <2>1, <2>2 DEF ThreadOK, PersistPoints
<1> QED
  BY <1>1, <1>2, <1>3, <1>4, <1>5, <1>6, <1>7, <1>8, <1>9, <1>10, <1>11, <1>12, <1>13, <1>14, <1>15, <1>16, <1>17, <1>18, <1>19, <1>20, <1>21, <1>22, <1>23, <1>24, <1>25 DEF Next, ClientStep, HandlerStep, AllQuiet

LEMMA ClockStepOK == TypeOK /\ ClockOK /\ [Next]_vars => ClockOK'
<1> SUFFICES ASSUME TypeOK, ClockOK, [Next]_vars PROVE ClockOK'
  OBVIOUS
<1> USE DEF storeVars
<1>1. ASSUME NEW r \in Requests, SaveSnapshot(r) \/ ChainCommits(r) PROVE ClockOK'
  <2>1. PICK id, h, type, parent, full : Store!CommitRow(id, stamp[r], h, type, parent, full)
    BY <1>1 DEF SaveSnapshot, ChainCommits
  <2> DEFINE new == [id |-> id, at |-> stamp[r], rowid |-> nextRow, hash |-> h, type |-> type,
                     parent |-> parent, full |-> full]
  <2>2. rows' = rows \cup {new} /\ nextRow' = nextRow + 1 /\ now' = now
    BY <2>1 DEF Store!CommitRow
  <2>3. stamp' = [stamp EXCEPT ![r] = 0]
    BY <1>1 DEF SaveSnapshot, ChainCommits
  <2>4. rows \subseteq Rows /\ nextRow \in Nat /\ now \in Nat /\ stamp \in [Requests -> Nat]
    BY DEF TypeOK
  <2>5. \A row \in rows' : row.at <= now' /\ row.rowid < nextRow'
    BY <2>2, <2>4 DEF ClockOK, Rows
  <2> QED
    BY <2>2, <2>3, <2>4, <2>5 DEF ClockOK
<1>2. ASSUME NEW r \in Requests, StampResult(r) \/ SaveSnapshotFails(r) \/ ChainInsertFails(r) \/ ToolSucceeds(r) PROVE ClockOK'
  <2>1. /\ UNCHANGED <<rows, nextRow, now>>
        /\ stamp' = stamp \/ stamp' = [stamp EXCEPT ![r] = now] \/ stamp' = [stamp EXCEPT ![r] = 0]
    BY <1>2 DEF StampResult, SaveSnapshotFails, ChainInsertFails, ToolSucceeds
  <2>2. now \in Nat /\ stamp \in [Requests -> Nat]
    BY DEF TypeOK
  <2> QED
    BY <2>1, <2>2 DEF ClockOK
<1>3. CASE ClockTicks
  <2>1. now' = now + 1 /\ UNCHANGED <<rows, nextRow, stamp>>
    BY <1>3 DEF ClockTicks, Store!Tick
  <2>2. now \in Nat /\ rows \subseteq Rows /\ stamp \in [Requests -> Nat]
    BY DEF TypeOK
  <2> QED
    BY <2>1, <2>2 DEF ClockOK, Rows
<1>4. CASE Restart
  <2>1. PICK kept \in BOOLEAN : Store!Reopen(kept)
    BY <1>4 DEF Restart
  <2>2. /\ now' = now
        /\ rows' = {} \/ (rows' = rows /\ nextRow' = nextRow)
        /\ \A q \in Requests : stamp'[q] = 0
    BY <1>4, <2>1 DEF Restart, Store!Reopen
  <2>3. now \in Nat
    BY DEF TypeOK
  <2> QED
    BY <2>2, <2>3 DEF ClockOK
<1>5. CASE UNCHANGED <<rows, nextRow, now, stamp>>
  BY <1>5 DEF ClockOK
<1>6. ASSUME NEW r \in Requests,
              \/ ClientStep(r)
              \/ HandlerStep(r) /\ ~SaveSnapshot(r) /\ ~StampResult(r) /\ ~SaveSnapshotFails(r)
              \/ ThreadStep(r) /\ ~ChainCommits(r) /\ ~ChainInsertFails(r) /\ ~ToolSucceeds(r)
       PROVE  UNCHANGED <<rows, nextRow, now, stamp>>
  BY <1>6, Zenon DEF ClientStep, HandlerStep, ThreadStep, RejectInput, QueueTimeout, PlanDeclined, PlanFails, ToolsFailed, ToolsPanicked, CallsFailed, SaveTraceFails, SendReply, Disconnect, PostAsk, PostExperiment, GetPermit, PlanReady, ExperimentDone, StartCalls, CallReturns, CallsDone, SaveTrace, ToolError, DriftWithoutBaseline, DriftWrongBaseline, DriftSucceeds, ToolPanics,
     ToolFails, Store!CommitTrace
<1> QED
  BY <1>1, <1>2, <1>3, <1>4, <1>5, <1>6 DEF Next, AllQuiet, vars, HandlerStep, ThreadStep

----------------------------------------------------------------------------
(***************************************************************************)
(* Every drift has its baseline: from the moment the thread resolved it,   *)
(* over the narration and the stamping, to the stored row.                 *)
(***************************************************************************)
FirstDriftOK ==
    \A r \in Requests : (pc[r] # "closed" /\ first[r].type = "RiskDrift") =>
       \E p \in Store!ById(first[r].parent) :
          /\ p.hash = hash[r]
          /\ p.type = "RiskDecomposition"
          /\ p.at <= now
          /\ pc[r] = "stamped" => p.at <= stamp[r]

DriftInv == FirstDriftOK /\ DriftParentOK

\* A commit of anything that has a proper parent, or needs none.
LEMMA CommitKeepsParents ==
  ASSUME DriftParentOK, NEW new, rows' = rows \cup {new},
         new.type = "RiskDrift" =>
            \E p \in Store!ById(new.parent) : /\ p.hash = new.hash
                                              /\ p.type = "RiskDecomposition"
                                              /\ p.rowid < new.rowid
                                              /\ p.at <= new.at
  PROVE  DriftParentOK'
<1>1. \A id : Store!ById(id) \subseteq Store!ById(id)'
  BY DEF Store!ById
<1> QED
  BY <1>1 DEF DriftParentOK

\* A step that keeps every row and what the handlers have in hand.
LEMMA KeepsFirstDrift ==
  ASSUME FirstDriftOK, UNCHANGED <<first, hash, now>>, rows \subseteq rows',
         \A q \in Requests : pc'[q] # "closed" => pc[q] # "closed",
         \A q \in Requests : pc'[q] = "stamped" => pc[q] = "stamped" /\ stamp'[q] = stamp[q]
  PROVE  FirstDriftOK'
<1>1. \A id : Store!ById(id) \subseteq Store!ById(id)'
  BY DEF Store!ById
<1> QED
  BY <1>1 DEF FirstDriftOK

LEMMA DriftStep ==
  TypeOK /\ ThreadOK /\ ClockOK /\ DriftInv /\ [Next]_vars => DriftInv'
<1> SUFFICES ASSUME TypeOK, ThreadOK, ClockOK, DriftInv, [Next]_vars PROVE DriftInv'
  OBVIOUS
<1> USE DEF storeVars, inputVars, threadVars
<1>1. ASSUME NEW r \in Requests, SaveSnapshot(r) PROVE DriftInv'
  <2> DEFINE new == [id |-> ResultId(r), at |-> stamp[r], rowid |-> nextRow, hash |-> hash[r],
                     type |-> first[r].type, parent |-> first[r].parent, full |-> TRUE]
  <2>1. rows' = rows \cup {new} /\ UNCHANGED <<first, hash, now>>
    BY <1>1 DEF SaveSnapshot, Store!CommitRow
  <2>2. /\ pc[r] = "stamped"
        /\ \A q \in Requests : pc'[q] # "closed" => pc[q] # "closed"
        /\ \A q \in Requests : pc'[q] = "stamped" => pc[q] = "stamped" /\ q # r
    BY <1>1 DEF SaveSnapshot, Goto, TypeOK
  <2>3. \A q \in Requests \ {r} : stamp'[q] = stamp[q]
    BY <1>1 DEF SaveSnapshot, TypeOK
  <2>4. FirstDriftOK'
    <3>1. rows \subseteq rows' /\ UNCHANGED <<first, hash, now>>
      BY <2>1
    <3>2. \A q \in Requests : pc'[q] # "closed" => pc[q] # "closed"
      BY <2>2
    <3>3. ASSUME NEW q \in Requests, pc'[q] = "stamped" PROVE pc[q] = "stamped" /\ stamp'[q] = stamp[q]
      <4>1. pc[q] = "stamped" /\ q # r
        BY <2>2, <3>3
      <4> QED
        BY <4>1, <2>3
    <3> QED
      BY <3>1, <3>2, <3>3, KeepsFirstDrift DEF DriftInv
  <2>5. new.type = "RiskDrift" =>
           \E p \in Store!ById(new.parent) : /\ p.hash = new.hash
                                             /\ p.type = "RiskDecomposition"
                                             /\ p.rowid < new.rowid
                                             /\ p.at <= new.at
    BY <2>2 DEF DriftInv, FirstDriftOK, ClockOK, Store!ById
  <2>6. DriftParentOK'
    BY <2>1, <2>5, CommitKeepsParents DEF DriftInv
  <2> QED
    BY <2>4, <2>6 DEF DriftInv
<1>2. ASSUME NEW r \in Requests, ChainCommits(r) PROVE DriftInv'
  <2> DEFINE new == [id |-> ChainId(r, step[r]), at |-> stamp[r], rowid |-> nextRow,
                     hash |-> hash[r], type |-> "RiskDecomposition", parent |-> NoId,
                     full |-> FALSE]
  <2>1. rows' = rows \cup {new} /\ UNCHANGED <<first, hash, now, pc>>
    BY <1>2 DEF ChainCommits, Store!CommitRow
  <2>2. pc[r] # "stamped" /\ \A q \in Requests \ {r} : stamp'[q] = stamp[q]
    BY <1>2 DEF ChainCommits, ThreadOK, PersistPoints, TypeOK
  <2>3. FirstDriftOK'
    BY <2>1, <2>2, KeepsFirstDrift DEF DriftInv
  <2>4. DriftParentOK'
    BY <2>1, CommitKeepsParents DEF DriftInv
  <2> QED
    BY <2>3, <2>4 DEF DriftInv
<1>3. ASSUME NEW r \in Requests, DriftSucceeds(r) PROVE DriftInv'
  <2>1. PICK row \in Baselines(r) : /\ BaselineFault(r, row) = "none"
                                    /\ KeepTrace(r, "RiskDrift", row.id)
    BY <1>3 DEF DriftSucceeds
  <2>2. /\ row \in Store!ById(row.id)
        /\ row.hash = hash[r] /\ row.type = "RiskDecomposition" /\ row.at <= now
    BY <2>1 DEF Baselines, Store!Latest, Store!RowsOf, Store!ById, BaselineFault, ClockOK
  <2>3. UNCHANGED <<rows, now, hash, pc, stamp>> /\ pc[r] # "stamped"
    BY <1>3 DEF DriftSucceeds, Running, ThreadOK, PersistPoints
  <2>4. /\ first'[r] = first[r] \/ first'[r] = [type |-> "RiskDrift", parent |-> row.id]
        /\ \A q \in Requests \ {r} : first'[q] = first[q]
    BY <2>1 DEF KeepTrace, TypeOK
  <2>5. FirstDriftOK'
    BY <2>2, <2>3, <2>4 DEF DriftInv, FirstDriftOK, Store!ById
  <2> QED
    BY <2>3, <2>5 DEF DriftInv, DriftParentOK, Store!ById
<1>4. ASSUME NEW r \in Requests, ToolSucceeds(r) PROVE DriftInv'
  <2>1. ExperimentOf(Tool(r)) # "RiskDrift"
    BY <1>4 DEF ToolSucceeds, ExperimentOf, RiskTools
  <2>2. /\ first'[r] = first[r] \/ first'[r] = [type |-> ExperimentOf(Tool(r)), parent |-> NoId]
        /\ \A q \in Requests \ {r} : first'[q] = first[q] /\ stamp'[q] = stamp[q]
    BY <1>4 DEF ToolSucceeds, KeepTrace, TypeOK
  <2>3. UNCHANGED <<rows, now, hash, pc>> /\ pc[r] # "stamped"
    BY <1>4 DEF ToolSucceeds, Running, ThreadOK, PersistPoints
  <2>4. FirstDriftOK'
    BY <2>1, <2>2, <2>3 DEF DriftInv, FirstDriftOK, Store!ById
  <2> QED
    BY <2>3, <2>4 DEF DriftInv, DriftParentOK, Store!ById
<1>5. ASSUME NEW r \in Requests, StampResult(r) PROVE DriftInv'
  <2>1. UNCHANGED <<rows, now, hash, first>> /\ stamp'[r] = now
    BY <1>5 DEF StampResult, TypeOK
  <2>2. \A q \in Requests \ {r} : stamp'[q] = stamp[q] /\ pc'[q] = pc[q]
    BY <1>5 DEF StampResult, Goto, TypeOK
  <2>3. pc[r] # "closed"
    BY <1>5 DEF StampResult
  <2>4. FirstDriftOK'
    BY <2>1, <2>2, <2>3 DEF DriftInv, FirstDriftOK, Store!ById
  <2> QED
    BY <2>1, <2>4 DEF DriftInv, DriftParentOK, Store!ById
<1>6. CASE ClockTicks
  <2>1. now' = now + 1 /\ UNCHANGED <<rows, hash, first, pc, stamp>>
    BY <1>6 DEF ClockTicks, Store!Tick
  <2>2. now \in Nat /\ \A row \in rows : row.at \in Nat
    BY DEF TypeOK, Rows
  <2>3. FirstDriftOK'
    BY <2>1, <2>2 DEF DriftInv, FirstDriftOK, Store!ById
  <2> QED
    BY <2>1, <2>3 DEF DriftInv, DriftParentOK, Store!ById
<1>7. CASE Restart
  <2>1. PICK kept \in BOOLEAN : Store!Reopen(kept)
    BY <1>7 DEF Restart
  <2>2. rows' = rows \/ rows' = {}
    BY <2>1 DEF Store!Reopen
  <2>3. \A q \in Requests : pc'[q] = "closed" \/ first'[q] = NoTrace
    BY <1>7 DEF Restart, ThreadOK
  <2>4. FirstDriftOK'
    BY <2>3 DEF FirstDriftOK, NoTrace
  <2> QED
    BY <2>2, <2>4 DEF DriftInv, DriftParentOK, Store!ById
<1>8. ASSUME NEW r \in Requests,
             \/ ClientStep(r)
             \/ HandlerStep(r) /\ ~SaveSnapshot(r) /\ ~StampResult(r)
      PROVE  DriftInv'
  <2>1. UNCHANGED <<rows, now, hash, first>>
    BY <1>8, Zenon DEF ClientStep, HandlerStep, RejectInput, QueueTimeout, PlanDeclined, PlanFails, ToolsFailed, ToolsPanicked, CallsFailed, SaveTraceFails, SendReply, Disconnect, SaveSnapshotFails, PostAsk, PostExperiment, Spawn,
       GetPermit, PlanReady, ExperimentDone, StartCalls, CallReturns, CallsDone, SaveTrace,
       Store!CommitTrace
  <2>2. \/ stamp' = stamp
        \/ stamp' = [stamp EXCEPT ![r] = 0] /\ pc' = [pc EXCEPT ![r] = "closed"]
    BY <1>8, Zenon DEF ClientStep, HandlerStep, RejectInput, QueueTimeout, PlanDeclined, PlanFails, ToolsFailed, ToolsPanicked, CallsFailed, SaveTraceFails, SendReply, Disconnect, SaveSnapshotFails, PostAsk, PostExperiment,
       GetPermit, PlanReady, ExperimentDone, StartCalls, CallReturns, CallsDone, SaveTrace,
       Close, Goto
  <2>3. /\ pc[r] # "closed"
        /\ \/ pc' = pc
           \/ \E where \in Places \ {"stamped"} : pc' = [pc EXCEPT ![r] = where]
    BY <1>8 DEF ClientStep, HandlerStep, RejectInput, QueueTimeout, PlanDeclined, PlanFails, ToolsFailed, ToolsPanicked, CallsFailed, SaveTraceFails, SendReply, Disconnect, SaveSnapshotFails, PostAsk, PostExperiment,
       GetPermit, PlanReady, ExperimentDone, StartCalls, CallReturns, CallsDone, SaveTrace,
       Close, Goto, AwaitPoints, Places, InService, PersistPoints
  <2>4. FirstDriftOK'
    <3>1. \A q \in Requests : pc'[q] # "closed" => pc[q] # "closed"
      BY <2>3 DEF TypeOK
    <3>2. ASSUME NEW q \in Requests, pc'[q] = "stamped" PROVE pc[q] = "stamped" /\ stamp'[q] = stamp[q]
      <4>1. pc[q] = "stamped"
        BY <2>3, <3>2 DEF TypeOK
      <4>2. stamp' # stamp => pc'[r] = "closed"
        BY <2>2 DEF TypeOK
      <4> QED
        BY <2>2, <3>2, <4>1, <4>2 DEF TypeOK
    <3> QED
      BY <2>1, <3>1, <3>2, KeepsFirstDrift DEF DriftInv
  <2> QED
    BY <2>1, <2>4 DEF DriftInv, DriftParentOK, Store!ById
<1>9. ASSUME NEW r \in Requests,
             ThreadStep(r) /\ ~ChainCommits(r) /\ ~DriftSucceeds(r) /\ ~ToolSucceeds(r)
      PROVE  DriftInv'
  <2>1. UNCHANGED <<rows, now, hash, first, pc>> /\ thread[r] = "running"
    BY <1>9, Zenon DEF ThreadStep, ToolError, DriftWithoutBaseline, DriftWrongBaseline, ToolFails,
       ChainInsertFails, ToolPanics, Running
  <2>2. \A q \in Requests \ {r} : stamp'[q] = stamp[q]
    BY <1>9 DEF ThreadStep, ToolError, DriftWithoutBaseline, DriftWrongBaseline, ToolFails,
       ChainInsertFails, ToolPanics, TypeOK
  <2>3. pc[r] # "stamped"
    BY <2>1 DEF ThreadOK, PersistPoints
  <2>4. FirstDriftOK'
    BY <2>1, <2>2, <2>3, KeepsFirstDrift DEF DriftInv
  <2> QED
    BY <2>1, <2>4 DEF DriftInv, DriftParentOK, Store!ById
<1>10. CASE UNCHANGED vars
  <2>1. UNCHANGED <<rows, now, hash, first, pc, stamp>>
    BY <1>10 DEF vars
  <2> QED
    BY <2>1 DEF DriftInv, FirstDriftOK, DriftParentOK, Store!ById
<1> QED
  BY <1>1, <1>2, <1>3, <1>4, <1>5, <1>6, <1>7, <1>8, <1>9, <1>10 DEF Next, AllQuiet, HandlerStep, ThreadStep

\* Every stored drift names a stored, older decomposition of its own portfolio.
THEOREM DriftsHaveParents == Spec => []DriftParentOK
<1> DEFINE Inv == TypeOK /\ SemOK /\ ThreadOK /\ ClockOK /\ DriftInv
<1>1. Init => Inv
  <2> SUFFICES ASSUME Init PROVE Inv
    OBVIOUS
  <2>1. ThreadOK
    BY DEF Init, ThreadOK, PersistPoints
  <2>2. ClockOK
    BY DEF Init, ClockOK, Store!StoreInit
  <2>3. DriftInv
    BY DEF Init, DriftInv, FirstDriftOK, DriftParentOK, Store!StoreInit, NoTrace
  <2> QED
    BY <2>1, <2>2, <2>3, TypeInit
<1>2. Inv /\ [Next]_vars => Inv'
  BY TypeStep, ThreadStepOK, ClockStepOK, DriftStep
<1>3. Inv => DriftParentOK
  BY DEF DriftInv
<1> QED
  BY <1>1, <1>2, <1>3, PTL DEF Spec

----------------------------------------------------------------------------
(***************************************************************************)
(* What is stored, and who was told.                                       *)
(***************************************************************************)
DroppedByRestart(r) == reply[r] = "dropped" /\ restarts > 0
TurnedAway == {"bad_request", "busy", "redirect"}

ResultInv ==
    /\ \A r \in Requests : pc[r] \in {"saved", "replying"} =>
          \E row \in ResultRows(r) : row.full /\ row.hash = hash[r]
    /\ \A r \in Requests : (pc[r] = "replying" /\ kind[r] = "ask") => r \in traces
    /\ \A r \in Requests : (ResultRows(r) # {} \/ r \in traces) =>
          pc[r] \in {"saved", "replying"} \/ reply[r] \in {"ok", "store_error"} \/ DroppedByRestart(r)
    /\ \A r \in Requests : pc[r] = "saved" => kind[r] = "ask"
    /\ \A r \in traces : kind[r] = "ask" /\ ResultRows(r) # {}
    /\ \A r \in lost : pc[r] = "closed" /\ ResultRows(r) = {}
    /\ \A r \in Requests : thread[r] = "none" => \A row \in rows : row.id[1] # r
    /\ \A r \in Requests : reply[r] \in TurnedAway => thread[r] = "none"
    /\ AnsweredDurable

USE DEF DroppedByRestart, TurnedAway

LEMMA SameRows == ASSUME rows' = rows PROVE \A r : ResultRows(r)' = ResultRows(r)
BY DEF ResultRows, Store!ById

\* A handler ends without an "ok", and without a result in hand unless the store
\* failed.
LEMMA CloseResults ==
  ASSUME TypeOK, ThreadOK, ResultInv, NEW r \in Requests, NEW how \in Replies \ {"none", "ok"},
         Close(r, how), pc[r] # "closed",
         pc[r] \in {"saved", "replying"} => how = "store_error",
         how \in TurnedAway => thread[r] = "none",
         pc[r] = "idle" \/ kind' = kind,
         \A q \in Requests \ {r} : kind'[q] = kind[q],
         UNCHANGED <<rows, traces, hash, thread, lost, restarts>>
  PROVE  ResultInv'
<1>1. /\ pc'[r] = "closed" /\ reply'[r] = how
      /\ \A q \in Requests \ {r} : pc'[q] = pc[q] /\ reply'[q] = reply[q]
  BY DEF Close, Goto, TypeOK
<1>2. \A q : ResultRows(q)' = ResultRows(q)
  BY SameRows
<1>3. traces \subseteq Requests /\ lost \subseteq Requests
  BY DEF TypeOK
<1>4. pc[r] = "idle" => r \notin traces
  BY DEF ResultInv, ThreadOK
<1>5. AnsweredDurable'
  BY <1>1, <1>2 DEF AnsweredDurable, ResultInv
<1>6. \A q \in Requests : reply'[q] \in TurnedAway => thread'[q] = "none"
  BY <1>1 DEF ResultInv
<1>7. \A q \in Requests : (ResultRows(q)' # {} \/ q \in traces') =>
          pc'[q] \in {"saved", "replying"} \/ reply'[q] \in {"ok", "store_error"} \/ DroppedByRestart(q)'
  <2>1. ASSUME ResultRows(r) # {} \/ r \in traces PROVE how = "store_error"
    BY <2>1 DEF ResultInv, ThreadOK
  <2> QED
    BY <2>1, <1>1, <1>2 DEF ResultInv
<1>8. \A q \in traces' : kind'[q] = "ask" /\ ResultRows(q)' # {}
  BY <1>2, <1>3, <1>4 DEF ResultInv
<1> QED
  BY <1>1, <1>2, <1>3, <1>5, <1>6, <1>7, <1>8 DEF ResultInv

\* A step that stores and ends nothing.
LEMMA KeepResults ==
  ASSUME TypeOK, ThreadOK, ResultInv, UNCHANGED <<rows, traces, hash, reply, lost, restarts>>,
         \A q \in Requests : /\ pc'[q] # pc[q] => /\ {pc[q], pc'[q]} \cap {"saved", "replying", "closed"} = {}
                             /\ kind'[q] # kind[q] => pc[q] = "idle" /\ pc'[q] # "idle"
                             /\ thread'[q] = "none" => thread[q] = "none"
                             /\ thread'[q] # thread[q] => reply[q] = "none" \/ thread[q] # "none"
  PROVE  ResultInv'
<1>1. \A q : ResultRows(q)' = ResultRows(q)
  BY SameRows
<1>2. traces \subseteq Requests /\ lost \subseteq Requests
  BY DEF TypeOK
<1>3. \A q \in Requests : kind'[q] # kind[q] => q \notin traces /\ reply[q] = "none"
  BY DEF ResultInv, ThreadOK
<1>4. AnsweredDurable'
  BY <1>1, <1>3 DEF AnsweredDurable, ResultInv
<1>5. \A q \in Requests : reply'[q] \in TurnedAway => thread'[q] = "none"
  BY DEF ResultInv
<1>6. \A q \in Requests : pc'[q] \in {"saved", "replying", "closed"} <=> pc[q] \in {"saved", "replying", "closed"}
  OBVIOUS
<1>7. \A q \in Requests : pc'[q] \in {"saved", "replying", "closed"} => pc'[q] = pc[q] /\ kind'[q] = kind[q]
  OBVIOUS
<1> QED
  BY <1>1, <1>2, <1>3, <1>4, <1>5, <1>6, <1>7 DEF ResultInv

LEMMA ResultStep ==
  TypeOK /\ ThreadOK /\ ResultInv /\ [Next]_vars => ResultInv'
<1> SUFFICES ASSUME TypeOK, ThreadOK, ResultInv, [Next]_vars PROVE ResultInv'
  OBVIOUS
<1> USE DEF storeVars, inputVars, threadVars, envVars
<1>1. ASSUME NEW r \in Requests, SaveSnapshot(r) PROVE ResultInv'
  <2> DEFINE new == [id |-> ResultId(r), at |-> stamp[r], rowid |-> nextRow, hash |-> hash[r],
                     type |-> first[r].type, parent |-> first[r].parent, full |-> TRUE]
  <2>1. rows' = rows \cup {new} /\ UNCHANGED <<traces, hash, kind, reply, thread, lost, restarts>>
    BY <1>1 DEF SaveSnapshot, Store!CommitRow
  <2>2. \A q \in Requests \ {r} : pc'[q] = pc[q] /\ ResultRows(q)' = ResultRows(q)
    BY <1>1, <2>1 DEF SaveSnapshot, Goto, TypeOK, ResultRows, Store!ById, ResultId
  <2>3. new \in ResultRows(r)' /\ new.full /\ new.hash = hash[r]
    BY <2>1 DEF ResultRows, Store!ById
  <2>4. /\ pc[r] = "stamped"
        /\ pc'[r] = IF kind[r] = "ask" THEN "saved" ELSE "replying"
    BY <1>1 DEF SaveSnapshot, Goto, TypeOK
  <2>5. r \notin lost /\ r \notin traces /\ reply[r] = "none" /\ thread[r] # "none"
    BY <2>4 DEF ResultInv, ThreadOK, PersistPoints
  <2>6. \A q \in Requests : thread'[q] = "none" => \A row \in rows' : row.id[1] # q
    <3>1. new.id[1] = r
      BY DEF ResultId
    <3> QED
      BY <2>1, <2>5, <3>1 DEF ResultInv
  <2>7. AnsweredDurable'
    BY <2>1, <2>2, <2>5 DEF ResultInv, AnsweredDurable
  <2>8. traces \subseteq Requests /\ lost \subseteq Requests
    BY DEF TypeOK
  <2> HIDE DEF new
  <2>9. \A q \in Requests : pc'[q] \in {"saved", "replying"} =>
          \E row \in ResultRows(q)' : row.full /\ row.hash = hash'[q]
    BY <2>1, <2>2, <2>3 DEF ResultInv
  <2>10. \A q \in Requests : (pc'[q] = "replying" /\ kind'[q] = "ask") => q \in traces'
    BY <2>1, <2>2, <2>4 DEF ResultInv
  <2>11. \A q \in Requests : (ResultRows(q)' # {} \/ q \in traces') =>
          pc'[q] \in {"saved", "replying"} \/ reply'[q] \in {"ok", "store_error"} \/ DroppedByRestart(q)'
    BY <2>1, <2>2, <2>4 DEF ResultInv
  <2>12. \A q \in traces' : kind'[q] = "ask" /\ ResultRows(q)' # {}
    BY <2>1, <2>2, <2>5, <2>8 DEF ResultInv
  <2>13. \A q \in Requests : pc'[q] = "saved" => kind'[q] = "ask"
    BY <2>1, <2>2, <2>4 DEF ResultInv
  <2>14. \A q \in lost' : pc'[q] = "closed" /\ ResultRows(q)' = {}
    BY <2>1, <2>2, <2>5, <2>8 DEF ResultInv
  <2> QED
    BY <2>1, <2>6, <2>7, <2>9, <2>10, <2>11, <2>12, <2>13, <2>14 DEF ResultInv
<1>2. ASSUME NEW r \in Requests, ChainCommits(r) PROVE ResultInv'
  <2> DEFINE new == [id |-> ChainId(r, step[r]), at |-> stamp[r], rowid |-> nextRow,
                     hash |-> hash[r], type |-> "RiskDecomposition", parent |-> NoId,
                     full |-> FALSE]
  <2>1. rows' = rows \cup {new} /\ UNCHANGED <<traces, hash, kind, reply, pc, lost, restarts>>
    BY <1>2 DEF ChainCommits, Store!CommitRow
  <2>2. new.id[1] = r /\ \A q : new.id # ResultId(q)
    BY DEF ChainId, ResultId, TypeOK
  <2>3. \A q : ResultRows(q)' = ResultRows(q)
    BY <2>1, <2>2 DEF ResultRows, Store!ById
  <2>4. /\ thread[r] = "running" /\ thread'[r] # "none"
        /\ \A q \in Requests \ {r} : thread'[q] = thread[q]
    BY <1>2 DEF ChainCommits, Advance, TypeOK
  <2> HIDE DEF new
  <2>5. \A q \in Requests : thread'[q] = "none" => \A row \in rows' : row.id[1] # q
    BY <2>1, <2>2, <2>4 DEF ResultInv
  <2>6. \A q \in Requests : reply'[q] \in TurnedAway => thread'[q] = "none"
    BY <2>1, <2>4 DEF ResultInv
  <2>7. AnsweredDurable'
    BY <2>1, <2>3 DEF ResultInv, AnsweredDurable
  <2>8. traces \subseteq Requests /\ lost \subseteq Requests
    BY DEF TypeOK
  <2> QED
    BY <2>1, <2>3, <2>5, <2>6, <2>7, <2>8 DEF ResultInv
<1>3. ASSUME NEW r \in Requests, SaveTrace(r) PROVE ResultInv'
  <2>1. traces' = traces \cup {r} /\ UNCHANGED <<rows, hash, kind, reply, thread, lost, restarts>>
    BY <1>3 DEF SaveTrace, Store!CommitTrace
  <2>2. /\ pc[r] = "saved" /\ pc'[r] = "replying"
        /\ \A q \in Requests \ {r} : pc'[q] = pc[q]
    BY <1>3 DEF SaveTrace, Goto, TypeOK
  <2>3. \A q : ResultRows(q)' = ResultRows(q)
    BY <2>1, SameRows
  <2>4. traces \subseteq Requests /\ lost \subseteq Requests
    BY DEF TypeOK
  <2>5. AnsweredDurable'
    BY <2>1, <2>3 DEF ResultInv, AnsweredDurable
  <2>6. kind[r] = "ask"
    BY <2>2 DEF ResultInv
  <2> QED
    BY <2>1, <2>2, <2>3, <2>4, <2>5, <2>6 DEF ResultInv
<1>4. ASSUME NEW r \in Requests, SendReply(r) PROVE ResultInv'
  <2>1. /\ pc[r] = "replying" /\ pc'[r] = "closed" /\ reply'[r] = "ok"
        /\ \A q \in Requests \ {r} : pc'[q] = pc[q] /\ reply'[q] = reply[q]
        /\ UNCHANGED <<rows, traces, hash, kind, thread, lost, restarts>>
    BY <1>4 DEF SendReply, Close, Goto, TypeOK
  <2>2. \A q : ResultRows(q)' = ResultRows(q)
    BY <2>1, SameRows
  <2>3. traces \subseteq Requests /\ lost \subseteq Requests
    BY DEF TypeOK
  <2>4. AnsweredDurable'
    BY <2>1, <2>2 DEF ResultInv, AnsweredDurable
  <2> QED
    BY <2>1, <2>2, <2>3, <2>4 DEF ResultInv
<1>5. ASSUME NEW r \in Requests, RejectInput(r) PROVE ResultInv'
  <2>1. /\ Close(r, "bad_request") /\ pc[r] # "closed"
        /\ pc[r] \in {"saved", "replying"} => "bad_request" = "store_error"
        /\ "bad_request" \in TurnedAway => pc[r] \in BeforeTools
        /\ "bad_request" \in Replies \ {"none", "ok"}
        /\ UNCHANGED <<rows, traces, hash, thread, lost, restarts>>
        /\ pc[r] = "idle" \/ kind' = kind
        /\ \A q \in Requests \ {r} : kind'[q] = kind[q]
    BY <1>5 DEF RejectInput, Replies, TypeOK
  <2>2. "bad_request" \in TurnedAway => thread[r] = "none"
    BY <2>1 DEF ThreadOK
  <2> QED
    BY <2>1, <2>2, CloseResults
<1>6. ASSUME NEW r \in Requests, QueueTimeout(r) PROVE ResultInv'
  <2>1. /\ Close(r, "busy") /\ pc[r] # "closed"
        /\ pc[r] \in {"saved", "replying"} => "busy" = "store_error"
        /\ "busy" \in TurnedAway => pc[r] \in BeforeTools
        /\ "busy" \in Replies \ {"none", "ok"}
        /\ UNCHANGED <<rows, traces, hash, thread, lost, restarts>>
        /\ pc[r] = "idle" \/ kind' = kind
        /\ \A q \in Requests \ {r} : kind'[q] = kind[q]
    BY <1>6 DEF QueueTimeout, Replies
  <2>2. "busy" \in TurnedAway => thread[r] = "none"
    BY <2>1 DEF ThreadOK
  <2> QED
    BY <2>1, <2>2, CloseResults
<1>7. ASSUME NEW r \in Requests, PlanDeclined(r) PROVE ResultInv'
  <2>1. /\ Close(r, "redirect") /\ pc[r] # "closed"
        /\ pc[r] \in {"saved", "replying"} => "redirect" = "store_error"
        /\ "redirect" \in TurnedAway => pc[r] \in BeforeTools
        /\ "redirect" \in Replies \ {"none", "ok"}
        /\ UNCHANGED <<rows, traces, hash, thread, lost, restarts>>
        /\ pc[r] = "idle" \/ kind' = kind
        /\ \A q \in Requests \ {r} : kind'[q] = kind[q]
    BY <1>7 DEF PlanDeclined, Replies
  <2>2. "redirect" \in TurnedAway => thread[r] = "none"
    BY <2>1 DEF ThreadOK
  <2> QED
    BY <2>1, <2>2, CloseResults
<1>8. ASSUME NEW r \in Requests, PlanFails(r) PROVE ResultInv'
  <2>1. /\ Close(r, "ai_unavailable") /\ pc[r] # "closed"
        /\ pc[r] \in {"saved", "replying"} => "ai_unavailable" = "store_error"
        /\ "ai_unavailable" \in TurnedAway => pc[r] \in BeforeTools
        /\ "ai_unavailable" \in Replies \ {"none", "ok"}
        /\ UNCHANGED <<rows, traces, hash, thread, lost, restarts>>
        /\ pc[r] = "idle" \/ kind' = kind
        /\ \A q \in Requests \ {r} : kind'[q] = kind[q]
    BY <1>8 DEF PlanFails, Replies
  <2>2. "ai_unavailable" \in TurnedAway => thread[r] = "none"
    BY <2>1 DEF ThreadOK
  <2> QED
    BY <2>1, <2>2, CloseResults
<1>9. ASSUME NEW r \in Requests, ToolsFailed(r) PROVE ResultInv'
  <2>1. /\ Close(r, ToolsErrorReply(r)) /\ pc[r] # "closed"
        /\ pc[r] \in {"saved", "replying"} => ToolsErrorReply(r) = "store_error"
        /\ ToolsErrorReply(r) \in TurnedAway => pc[r] \in BeforeTools
        /\ ToolsErrorReply(r) \in Replies \ {"none", "ok"}
        /\ UNCHANGED <<rows, traces, hash, thread, lost, restarts>>
        /\ pc[r] = "idle" \/ kind' = kind
        /\ \A q \in Requests \ {r} : kind'[q] = kind[q]
    BY <1>9 DEF ToolsFailed, Replies, ToolsErrorReply
  <2>2. ToolsErrorReply(r) \in TurnedAway => thread[r] = "none"
    BY <2>1 DEF ThreadOK
  <2> QED
    BY <2>1, <2>2, CloseResults
<1>10. ASSUME NEW r \in Requests, ToolsPanicked(r) PROVE ResultInv'
  <2>1. /\ Close(r, (IF kind[r] = "ask" THEN "dropped" ELSE "internal")) /\ pc[r] # "closed"
        /\ pc[r] \in {"saved", "replying"} => (IF kind[r] = "ask" THEN "dropped" ELSE "internal") = "store_error"
        /\ (IF kind[r] = "ask" THEN "dropped" ELSE "internal") \in TurnedAway => pc[r] \in BeforeTools
        /\ (IF kind[r] = "ask" THEN "dropped" ELSE "internal") \in Replies \ {"none", "ok"}
        /\ UNCHANGED <<rows, traces, hash, thread, lost, restarts>>
        /\ pc[r] = "idle" \/ kind' = kind
        /\ \A q \in Requests \ {r} : kind'[q] = kind[q]
    BY <1>10 DEF ToolsPanicked, Replies
  <2>2. (IF kind[r] = "ask" THEN "dropped" ELSE "internal") \in TurnedAway => thread[r] = "none"
    BY <2>1 DEF ThreadOK
  <2> QED
    BY <2>1, <2>2, CloseResults
<1>11. ASSUME NEW r \in Requests, CallsFailed(r) PROVE ResultInv'
  <2>1. /\ Close(r, "ai_unavailable") /\ pc[r] # "closed"
        /\ pc[r] \in {"saved", "replying"} => "ai_unavailable" = "store_error"
        /\ "ai_unavailable" \in TurnedAway => pc[r] \in BeforeTools
        /\ "ai_unavailable" \in Replies \ {"none", "ok"}
        /\ UNCHANGED <<rows, traces, hash, thread, lost, restarts>>
        /\ pc[r] = "idle" \/ kind' = kind
        /\ \A q \in Requests \ {r} : kind'[q] = kind[q]
    BY <1>11 DEF CallsFailed, Replies
  <2>2. "ai_unavailable" \in TurnedAway => thread[r] = "none"
    BY <2>1 DEF ThreadOK
  <2> QED
    BY <2>1, <2>2, CloseResults
<1>12. ASSUME NEW r \in Requests, SaveSnapshotFails(r) PROVE ResultInv'
  <2>1. /\ Close(r, "store_error") /\ pc[r] # "closed"
        /\ pc[r] \in {"saved", "replying"} => "store_error" = "store_error"
        /\ "store_error" \in TurnedAway => pc[r] \in BeforeTools
        /\ "store_error" \in Replies \ {"none", "ok"}
        /\ UNCHANGED <<rows, traces, hash, thread, lost, restarts>>
        /\ pc[r] = "idle" \/ kind' = kind
        /\ \A q \in Requests \ {r} : kind'[q] = kind[q]
    BY <1>12 DEF SaveSnapshotFails, Replies
  <2>2. "store_error" \in TurnedAway => thread[r] = "none"
    BY <2>1 DEF ThreadOK
  <2> QED
    BY <2>1, <2>2, CloseResults
<1>13. ASSUME NEW r \in Requests, SaveTraceFails(r) PROVE ResultInv'
  <2>1. /\ Close(r, "store_error") /\ pc[r] # "closed"
        /\ pc[r] \in {"saved", "replying"} => "store_error" = "store_error"
        /\ "store_error" \in TurnedAway => pc[r] \in BeforeTools
        /\ "store_error" \in Replies \ {"none", "ok"}
        /\ UNCHANGED <<rows, traces, hash, thread, lost, restarts>>
        /\ pc[r] = "idle" \/ kind' = kind
        /\ \A q \in Requests \ {r} : kind'[q] = kind[q]
    BY <1>13 DEF SaveTraceFails, Replies
  <2>2. "store_error" \in TurnedAway => thread[r] = "none"
    BY <2>1 DEF ThreadOK
  <2> QED
    BY <2>1, <2>2, CloseResults
<1>14. ASSUME NEW r \in Requests, Disconnect(r) PROVE ResultInv'
  <2>1. /\ Close(r, "dropped") /\ pc[r] # "closed"
        /\ pc[r] \in {"saved", "replying"} => "dropped" = "store_error"
        /\ "dropped" \in TurnedAway => pc[r] \in BeforeTools
        /\ "dropped" \in Replies \ {"none", "ok"}
        /\ UNCHANGED <<rows, traces, hash, thread, lost, restarts>>
        /\ pc[r] = "idle" \/ kind' = kind
        /\ \A q \in Requests \ {r} : kind'[q] = kind[q]
    BY <1>14 DEF Disconnect, Replies, AwaitPoints
  <2>2. "dropped" \in TurnedAway => thread[r] = "none"
    BY <2>1 DEF ThreadOK
  <2> QED
    BY <2>1, <2>2, CloseResults
<1>15. ASSUME NEW r \in Requests, \/ PostAsk(r) \/ PostExperiment(r) \/ GetPermit(r) \/ PlanReady(r)
                                  \/ ExperimentDone(r) \/ StartCalls(r) \/ CallsDone(r) \/ StampResult(r)
      PROVE  ResultInv'
  <2>1. /\ UNCHANGED <<rows, traces, hash, reply, lost, restarts>>
        /\ \E where \in {"queued", "planning", "tools", "calling", "saving", "stamped"} :
              pc' = [pc EXCEPT ![r] = where]
        /\ pc[r] \in Places \ {"saved", "replying", "closed"}
        /\ \/ kind' = kind
           \/ pc[r] = "idle" /\ \E k \in {"ask", "experiment"} : kind' = [kind EXCEPT ![r] = k]
        /\ thread' = thread \/ thread' = [thread EXCEPT ![r] = "running"]
    BY <1>15 DEF PostAsk, PostExperiment, Spawn, GetPermit, PlanReady, ExperimentDone, StartCalls,
       CallsDone, StampResult, Goto, Places, InService, PersistPoints
  <2>2. reply[r] = "none"
    BY <2>1 DEF ThreadOK
  <2>3. \A q \in Requests : /\ pc'[q] # pc[q] => {pc[q], pc'[q]} \cap {"saved", "replying", "closed"} = {}
                            /\ kind'[q] # kind[q] => pc[q] = "idle" /\ pc'[q] # "idle"
    BY <2>1 DEF TypeOK
  <2>4. \A q \in Requests : /\ thread'[q] = "none" => thread[q] = "none"
                            /\ thread'[q] # thread[q] => reply[q] = "none" \/ thread[q] # "none"
    BY <2>1, <2>2 DEF TypeOK
  <2> QED
    BY <2>1, <2>3, <2>4, KeepResults
<1>16. ASSUME NEW r \in Requests, CallReturns(r) \/ (ThreadStep(r) /\ ~ChainCommits(r))
      PROVE  ResultInv'
  <2>1. /\ UNCHANGED <<rows, traces, hash, kind, pc, reply, lost, restarts>>
        /\ \/ thread' = thread
           \/ thread[r] = "running" /\ \E end \in {"returned", "panicked"} :
                                           thread' = [thread EXCEPT ![r] = end]
    BY <1>16 DEF CallReturns, ThreadStep, ToolError, DriftWithoutBaseline, DriftWrongBaseline, ToolFails,
       DriftSucceeds, ToolSucceeds, ChainInsertFails, ToolPanics, Running, Advance
  <2>2. \A q \in Requests : /\ thread'[q] = "none" => thread[q] = "none"
                            /\ thread'[q] # thread[q] => thread[q] # "none"
    BY <2>1 DEF TypeOK
  <2> QED
    BY <2>1, <2>2, KeepResults
<1>17. CASE ClockTicks \/ UNCHANGED vars
  <2>1. UNCHANGED <<rows, traces, hash, kind, pc, reply, thread, lost, restarts>>
    BY <1>17 DEF ClockTicks, Store!Tick, vars
  <2> QED
    BY <2>1, KeepResults
<1>18. CASE Restart
  <2>1. PICK kept \in BOOLEAN :
             /\ Store!Reopen(kept)
             /\ lost' = IF kept THEN lost ELSE {r \in Requests : pc[r] # "idle"}
    BY <1>18 DEF Restart
  <2>2. /\ restarts' = restarts + 1 /\ restarts' > 0 /\ UNCHANGED <<kind, hash>>
        /\ \A q \in Requests : /\ pc'[q] = IF pc[q] = "idle" THEN "idle" ELSE "closed"
                               /\ reply'[q] = IF pc[q] \in {"idle", "closed"} THEN reply[q] ELSE "dropped"
                               /\ thread'[q] = IF thread[q] = "running" THEN "killed" ELSE thread[q]
    BY <1>18 DEF Restart, TypeOK
  <2>3. traces \subseteq Requests /\ lost \subseteq Requests /\ restarts \in Nat
    BY DEF TypeOK
  <2>4. \A q \in Requests : reply'[q] \in TurnedAway => thread'[q] = "none"
    BY <2>2 DEF ResultInv
  <2>5. CASE kept
    <3>1. rows' = rows /\ traces' = traces /\ lost' = lost
      BY <2>1, <2>5 DEF Store!Reopen
    <3>2. \A q : ResultRows(q)' = ResultRows(q)
      BY <3>1, SameRows
    <3>3. AnsweredDurable'
      BY <2>2, <3>1, <3>2 DEF ResultInv, AnsweredDurable
    <3>4. \A q \in Requests : (ResultRows(q)' # {} \/ q \in traces') =>
            reply'[q] \in {"ok", "store_error"} \/ DroppedByRestart(q)'
      BY <2>2, <2>3, <3>1, <3>2 DEF ResultInv, ThreadOK
    <3> QED
      BY <2>2, <2>3, <2>4, <3>1, <3>2, <3>3, <3>4 DEF ResultInv
  <2>6. CASE ~kept
    <3>1. /\ rows' = {} /\ traces' = {}
          /\ \A q \in Requests : q \in lost' <=> pc[q] # "idle"
          /\ lost' \subseteq Requests
      BY <2>1, <2>6 DEF Store!Reopen
    <3>2. \A q : ResultRows(q)' = {}
      BY <3>1 DEF ResultRows, Store!ById
    <3>3. AnsweredDurable'
      BY <2>2, <3>1 DEF AnsweredDurable, ThreadOK
    <3> QED
      BY <2>2, <2>4, <3>1, <3>2, <3>3 DEF ResultInv
  <2> QED
    BY <2>5, <2>6
<1> QED
  BY <1>1, <1>2, <1>3, <1>4, <1>5, <1>6, <1>7, <1>8, <1>9, <1>10, <1>11, <1>12, <1>13, <1>14, <1>15, <1>16, <1>17, <1>18 DEF Next, ClientStep, HandlerStep, AllQuiet

\* An ask that was answered is stored whole, one that failed or was cut short is
\* not half stored by its client leaving, and one that was refused left nothing.
THEOREM AnswersStored == Spec => [](AnsweredDurable /\ StoredTogether /\ FailedLeavesNothing)
<1> DEFINE Inv == TypeOK /\ SemOK /\ ThreadOK /\ ResultInv
<1>1. Init => Inv
  <2> SUFFICES ASSUME Init PROVE Inv
    OBVIOUS
  <2>1. ThreadOK
    BY DEF Init, ThreadOK, PersistPoints
  <2>2. ResultInv
    BY DEF Init, ResultInv, AnsweredDurable, ResultRows, Store!ById, Store!StoreInit
  <2> QED
    BY <2>1, <2>2, TypeInit
<1>2. Inv /\ [Next]_vars => Inv'
  BY TypeStep, ThreadStepOK, ResultStep
<1>3. Inv => AnsweredDurable /\ StoredTogether /\ FailedLeavesNothing
  <2> SUFFICES ASSUME Inv PROVE AnsweredDurable /\ StoredTogether /\ FailedLeavesNothing
    OBVIOUS
  <2>1. AnsweredDurable
    BY DEF ResultInv
  <2>2. \A r \in Requests : ResultRows(r) # {} => r \notin lost
    BY DEF ResultInv
  <2>3. StoredTogether
    BY <2>2 DEF ResultInv, AnsweredDurable, StoredTogether, ThreadOK
  <2>4. FailedLeavesNothing
    BY DEF ResultInv, FailedLeavesNothing, ThreadOK, Replies
  <2> QED
    BY <2>1, <2>3, <2>4
<1> QED
  BY <1>1, <1>2, <1>3, PTL DEF Spec

\* A result without its trace belongs to a handler between its two inserts, to a
\* request that was told of a store error, or to one that a restart cut there; a
\* trace never stands without its result.
THEOREM PairsStored == Spec => []StoredTogether
  BY AnswersStored, PTL

\* A request that was told it failed, or was redirected, left no result and no
\* trace; one that was turned away before a tool ran left no row of any kind.
THEOREM FailuresLeaveNothing == Spec => []FailedLeavesNothing
  BY AnswersStored, PTL

(***************************************************************************)
(* Every step of the server's request path is a step of AskContract, or    *)
(* none, for every set of requests, every capacity and every planner.      *)
(***************************************************************************)
\* What the contract's variables stand for.
Statuses == [r \in Requests |-> AskStatus(r)]
Recorded == {r \in traces : ResultRows(r) # {}}

\* A request gets its kind with its first step.
IdleKind == \A r \in Requests : pc[r] = "idle" <=> kind[r] = "none"

ContractInv == TypeOK /\ SemOK /\ HandlerPermits /\ ThreadOK /\ ResultInv /\ IdleKind

\* The contract counts with a Cardinality of its own.
LEMMA SameCount == ASSUME NEW S PROVE Contract!Cardinality(S) = Cardinality(S)
BY DEF Contract!Cardinality, Cardinality

LEMMA KindStep == TypeOK /\ IdleKind /\ [Next]_vars => IdleKind'
<1> SUFFICES ASSUME TypeOK, IdleKind, [Next]_vars PROVE IdleKind'
  OBVIOUS
<1> USE DEF inputVars
<1>1. ASSUME NEW r \in Requests, ClientStep(r) \/ HandlerStep(r) \/ ThreadStep(r)
      PROVE  /\ pc' = pc /\ kind' = kind
             \/ /\ pc[r] # "idle" /\ kind' = kind
                /\ \E p : p # "idle" /\ pc' = [pc EXCEPT ![r] = p]
             \/ /\ \E k \in {"ask", "experiment"} : kind' = [kind EXCEPT ![r] = k]
                /\ \E p : p # "idle" /\ pc' = [pc EXCEPT ![r] = p]
  <2>1. CASE ClientStep(r)
    BY <2>1 DEF ClientStep, RejectInput, PostAsk, PostExperiment, Disconnect, AwaitPoints, Close,
       Goto
  <2>2. CASE HandlerStep(r)
    BY <2>2 DEF HandlerStep, GetPermit, QueueTimeout, PlanReady, PlanDeclined, PlanFails,
       ToolsFailed, ToolsPanicked, ExperimentDone, StartCalls, CallReturns, CallsFailed,
       CallsDone, StampResult, SaveSnapshot, SaveSnapshotFails, SaveTrace, SaveTraceFails,
       SendReply, Close, Goto
  <2>3. CASE ThreadStep(r)
    BY <2>3 DEF ThreadStep, ToolError, DriftWithoutBaseline, DriftWrongBaseline, ToolFails,
       DriftSucceeds, ToolSucceeds, ChainCommits, ChainInsertFails, ToolPanics
  <2> QED
    BY <1>1, <2>1, <2>2, <2>3
<1>2. ASSUME NEW r \in Requests, ClientStep(r) \/ HandlerStep(r) \/ ThreadStep(r) PROVE IdleKind'
  BY <1>1, <1>2 DEF IdleKind, TypeOK
<1>3. CASE Restart
  BY <1>3 DEF Restart, IdleKind
<1>4. CASE ClockTicks \/ UNCHANGED vars
  BY <1>4 DEF ClockTicks, vars, IdleKind
<1> QED
  BY <1>2, <1>3, <1>4 DEF Next, AllQuiet

----------------------------------------------------------------------------
(***************************************************************************)
(* The contract's view of a state.                                         *)
(***************************************************************************)
LEMMA StatusSets ==
  ASSUME ContractInv
  PROVE  /\ Contract!WithStatus("serving") = held
         /\ Contract!WithStatus("waiting") = Sem!Waiting
         /\ Contract!Full <=> free = 0
         /\ Recorded = traces
         /\ held \subseteq Requests /\ Sem!Waiting \subseteq Requests
         /\ held \cap Sem!Waiting = {}
<1>1. /\ held \subseteq Requests /\ Sem!Waiting \subseteq Requests
      /\ held \cap Sem!Waiting = {}
  BY DEF ContractInv, SemOK, Sem!SemTypeOK, Sem!SemInv, Sem!QueueOrdered, Sem!Waiting
<1>2. Contract!WithStatus("serving") = held
  BY <1>1 DEF Contract!WithStatus, ContractInv, HandlerPermits, AskStatus
<1>3. Contract!WithStatus("waiting") = Sem!Waiting
  BY <1>1 DEF Contract!WithStatus, ContractInv, HandlerPermits, AskStatus
<1>4. Contract!Full <=> Cardinality(held) = Capacity
  BY <1>2, SameCount DEF Contract!Full
<1>5. Capacity - free = Cardinality(held) /\ free \in Nat
  BY CapacityAssumption DEF ContractInv, SemOK, PermitsConserved, ActiveRequests, Sem!SemTypeOK
<1>6. Recorded = traces
  BY DEF Recorded, ContractInv, ResultInv
<1> QED
  BY <1>1, <1>2, <1>3, <1>4, <1>5, <1>6, CapacityAssumption

\* Nothing a request's status depends on changes.
LEMMA SameStatuses ==
  ASSUME UNCHANGED <<semVars, reply>>,
         \A q \in Requests : kind'[q] = kind[q] \/ "ask" \notin {kind[q], kind'[q]}
  PROVE  Statuses' = Statuses
BY DEF Statuses, AskStatus, semVars, Sem!Waiting

\* A handler ends: its own status becomes final, and the first request of the
\* queue may go on.
LEMMA CloseStatus ==
  ASSUME ContractInv, NEW r \in Requests, NEW how, Close(r, how), kind' = kind, kind[r] = "ask",
         NEW final, final = (IF how = "bad_request" THEN "rejected" ELSE IF how = "busy" THEN "refused"
                             ELSE IF how = "ok" THEN "answered" ELSE "failed")
  PROVE  \/ /\ r \in held
            /\ \/ Sem!Waiting = {} /\ Statuses' = [Statuses EXCEPT ![r] = final]
               \/ \E u \in Sem!Waiting :
                     Statuses' = [Statuses EXCEPT ![r] = final, ![u] = "serving"]
         \/ r \in Sem!Waiting /\ Statuses' = [Statuses EXCEPT ![r] = final]
         \/ r \notin held \cup Sem!Waiting
<1>1. /\ held \subseteq Requests /\ Sem!Waiting \subseteq Requests
      /\ held \cap Sem!Waiting = {}
  BY StatusSets
<1>2. /\ reply'[r] = how
      /\ \A q \in Requests \ {r} : reply'[q] = reply[q]
  BY DEF Close, ContractInv, TypeOK
<1>3. CASE Sem!PutBack(r) /\ r \in held
  <2>1. held' = held \ {r} /\ Sem!Waiting' = Sem!Waiting /\ Sem!Waiting = {}
    BY <1>3 DEF Sem!PutBack, Sem!Waiting
  <2>2. AskStatus(r)' = final
    BY <1>1, <1>2, <2>1 DEF AskStatus
  <2>3. \A q \in Requests \ {r} : AskStatus(q)' = AskStatus(q)
    BY <1>2, <2>1 DEF AskStatus
  <2>4. Statuses' = [Statuses EXCEPT ![r] = final]
    BY <2>2, <2>3 DEF Statuses
  <2> QED
    BY <1>3, <2>1, <2>4
<1>4. CASE Sem!PassOn(r) /\ r \in held
  <2>1. PICK u \in Sem!FirstWaiting : /\ held' = (held \ {r}) \cup {u}
                                      /\ ticket' = [ticket EXCEPT ![u] = 0]
    BY <1>4 DEF Sem!PassOn
  <2>2. /\ u \in Sem!Waiting /\ u \in Requests /\ u # r
        /\ Sem!Waiting' = Sem!Waiting \ {u}
    BY <2>1, <1>1, <1>4 DEF Sem!FirstWaiting, Sem!Waiting, ContractInv, TypeOK, Sem!SemTypeOK
  <2>3. AskStatus(r)' = final
    BY <1>1, <1>2, <1>4, <2>1, <2>2 DEF AskStatus
  <2>4. AskStatus(u)' = "serving"
    BY <2>1, <2>2 DEF AskStatus, ContractInv, HandlerPermits
  <2>5. \A q \in Requests \ {r, u} : AskStatus(q)' = AskStatus(q)
    BY <1>2, <2>1, <2>2 DEF AskStatus
  <2>6. Statuses' = [Statuses EXCEPT ![r] = final, ![u] = "serving"]
    BY <2>2, <2>3, <2>4, <2>5 DEF Statuses
  <2> QED
    BY <1>4, <2>2, <2>6
<1>5. CASE Sem!Abandon(r)
  <2>1. r \in Sem!Waiting /\ held' = held /\ Sem!Waiting' = Sem!Waiting \ {r}
    BY <1>5 DEF Sem!Abandon, Sem!Waiting, ContractInv, TypeOK, Sem!SemTypeOK
  <2>2. AskStatus(r)' = final
    BY <1>1, <1>2, <2>1 DEF AskStatus
  <2>3. \A q \in Requests \ {r} : AskStatus(q)' = AskStatus(q)
    BY <1>2, <2>1 DEF AskStatus
  <2>4. Statuses' = [Statuses EXCEPT ![r] = final]
    BY <2>2, <2>3 DEF Statuses
  <2> QED
    BY <2>1, <2>4
<1> QED
  BY <1>3, <1>4, <1>5 DEF Close, Sem!Release

\* An experiment has no permit, and no part in the contract.
LEMMA CloseExperiment ==
  ASSUME ContractInv, NEW r \in Requests, NEW how, Close(r, how), kind' = kind, kind[r] # "ask"
  PROVE  Statuses' = Statuses
<1>1. r \notin held \cup Sem!Waiting
  BY DEF ContractInv, HandlerPermits
<1>2. UNCHANGED semVars
  BY <1>1 DEF Close, Sem!Release, Sem!Abandon
<1>3. \A q \in Requests \ {r} : reply'[q] = reply[q]
  BY DEF Close, ContractInv, TypeOK
<1> QED
  BY <1>2, <1>3 DEF Statuses, AskStatus, semVars, Sem!Waiting

----------------------------------------------------------------------------
(***************************************************************************)
(* The refinement.                                                         *)
(***************************************************************************)
ContractStep == Contract!ContractNext \/ (Statuses' = Statuses /\ Recorded' = Recorded)

\* A handler that holds a permit or waits for one ends without an answer.
LEMMA FailsContract ==
  ASSUME ContractInv, NEW r \in Requests, NEW how, Close(r, how), kind' = kind,
         how \notin {"bad_request", "busy", "ok"}, Recorded' = Recorded,
         pc[r] \notin {"idle", "closed"}
  PROVE  ContractStep
<1>1. CASE kind[r] # "ask"
  BY <1>1, CloseExperiment DEF ContractStep
<1>2. CASE kind[r] = "ask"
  <2>1. r \in held \cup Sem!Waiting
    BY <1>2 DEF ContractInv, HandlerPermits, TypeOK, Places
  <2>2. /\ Statuses[r] = "serving" <=> r \in held
        /\ Statuses[r] = "waiting" <=> r \in Sem!Waiting
    BY StatusSets DEF Contract!WithStatus, Statuses
  <2>3. CASE r \in held
    <3>1. Contract!Finish(r, "failed")
      BY <1>2, <2>2, <2>3, CloseStatus, StatusSets
         DEF Contract!Finish, Statuses, Recorded
    <3> QED
      BY <3>1 DEF ContractStep, Contract!ContractNext
  <2>4. CASE r \in Sem!Waiting
    <3>1. Statuses' = [Statuses EXCEPT ![r] = "failed"]
      BY <1>2, <2>4, CloseStatus, StatusSets
    <3>2. Contract!GiveUp(r)
      BY <2>2, <2>4, <3>1 DEF Contract!GiveUp, Contract!Become, Statuses, Recorded
    <3> QED
      BY <3>2 DEF ContractStep, Contract!ContractNext
  <2> QED
    BY <2>1, <2>3, <2>4
<1> QED
  BY <1>1, <1>2

LEMMA ContractStepOK == ContractInv /\ ContractInv' /\ [Next]_vars => ContractStep
<1> SUFFICES ASSUME ContractInv, ContractInv', [Next]_vars PROVE ContractStep
  OBVIOUS
<1> USE DEF inputVars, storeVars
<1>1. Recorded = traces /\ Recorded' = traces'
  BY DEF Recorded, ContractInv, ResultInv
<1>2. \A q \in Requests : pc[q] = "idle" => /\ Statuses[q] = "new"
                                            /\ q \notin held \cup Sem!Waiting
  BY DEF ContractInv, IdleKind, HandlerPermits, InService, PersistPoints, Statuses, AskStatus
<1>3. ASSUME NEW r \in Requests, RejectInput(r) PROVE ContractStep
  <2>1. UNCHANGED <<semVars, traces>> /\ reply' = [reply EXCEPT ![r] = "bad_request"]
    BY <1>2, <1>3 DEF RejectInput, Close, Sem!Release, Sem!Abandon
  <2>2. PICK k \in {"ask", "experiment"} : kind' = [kind EXCEPT ![r] = k]
    BY <1>3 DEF RejectInput
  <2>3. \A q \in Requests \ {r} : AskStatus(q)' = AskStatus(q)
    BY <2>1, <2>2 DEF AskStatus, semVars, Sem!Waiting, ContractInv, TypeOK
  <2>4. AskStatus(r)' = IF k = "ask" THEN "rejected" ELSE "new"
    BY <1>2, <1>3, <2>1, <2>2 DEF AskStatus, semVars, Sem!Waiting, ContractInv, TypeOK, RejectInput
  <2>5. Statuses' = [Statuses EXCEPT ![r] = AskStatus(r)']
    BY <2>3 DEF Statuses
  <2>6. CASE k = "ask"
    <3>1. Contract!Reject(r)
      BY <1>1, <1>2, <1>3, <2>1, <2>4, <2>5, <2>6
         DEF Contract!Reject, Contract!Become, Statuses, Recorded, RejectInput
    <3> QED
      BY <3>1 DEF ContractStep, Contract!ContractNext
  <2>7. CASE k # "ask"
    <3>1. Statuses' = Statuses
      BY <1>2, <1>3, <2>4, <2>5, <2>7 DEF Statuses, RejectInput
    <3> QED
      BY <1>1, <2>1, <3>1 DEF ContractStep
  <2> QED
    BY <2>6, <2>7
<1>4. ASSUME NEW r \in Requests, PostAsk(r) PROVE ContractStep
  <2>1. /\ kind' = [kind EXCEPT ![r] = "ask"] /\ UNCHANGED <<reply, traces>>
        /\ pc[r] = "idle"
    BY <1>4 DEF PostAsk
  <2>2. CASE Sem!TakePermit(r)
    <3>1. held' = held \cup {r} /\ Sem!Waiting' = Sem!Waiting /\ free # 0
      BY <2>2 DEF Sem!TakePermit, Sem!Waiting, ContractInv, TypeOK, Sem!SemTypeOK
    <3>2. AskStatus(r)' = "serving"
      BY <2>1, <3>1 DEF AskStatus, ContractInv, TypeOK
    <3>3. \A q \in Requests \ {r} : AskStatus(q)' = AskStatus(q)
      BY <2>1, <3>1 DEF AskStatus, ContractInv, TypeOK
    <3>4. Statuses' = [Statuses EXCEPT ![r] = "serving"]
      BY <3>2, <3>3 DEF Statuses
    <3>5. Contract!Admit(r)
      BY <1>1, <1>2, <2>1, <3>1, <3>4, StatusSets
         DEF Contract!Admit, Contract!Become, Statuses, Recorded
    <3> QED
      BY <3>5 DEF ContractStep, Contract!ContractNext
  <2>3. CASE Sem!JoinQueue(r)
    <3>1. held' = held /\ Sem!Waiting' = Sem!Waiting \cup {r} /\ free = 0
      BY <2>3 DEF Sem!JoinQueue, Sem!Waiting, ContractInv, TypeOK, Sem!SemTypeOK
    <3>2. AskStatus(r)' = "waiting"
      BY <1>2, <2>1, <3>1 DEF AskStatus, ContractInv, TypeOK
    <3>3. \A q \in Requests \ {r} : AskStatus(q)' = AskStatus(q)
      BY <2>1, <3>1 DEF AskStatus, ContractInv, TypeOK
    <3>4. Statuses' = [Statuses EXCEPT ![r] = "waiting"]
      BY <3>2, <3>3 DEF Statuses
    <3>5. Contract!Wait(r)
      BY <1>1, <1>2, <2>1, <3>1, <3>4, StatusSets
         DEF Contract!Wait, Contract!Become, Statuses, Recorded
    <3> QED
      BY <3>5 DEF ContractStep, Contract!ContractNext
  <2> QED
    BY <1>4, <2>2, <2>3 DEF PostAsk, Sem!Acquire
<1>5. ASSUME NEW r \in Requests, PostExperiment(r) PROVE ContractStep
  <2>1. /\ pc[r] = "idle" /\ kind' = [kind EXCEPT ![r] = "experiment"]
        /\ UNCHANGED <<semVars, reply, traces>>
    BY <1>5 DEF PostExperiment
  <2>2. \A q \in Requests : kind'[q] = kind[q] \/ "ask" \notin {kind[q], kind'[q]}
    BY <2>1 DEF ContractInv, TypeOK, IdleKind
  <2> QED
    BY <1>1, <2>1, <2>2, SameStatuses DEF ContractStep
<1>6. ASSUME NEW r \in Requests, QueueTimeout(r) PROVE ContractStep
  <2>1. /\ Close(r, "busy") /\ UNCHANGED <<kind, traces>>
        /\ kind[r] = "ask" /\ r \in Sem!Waiting /\ r \notin held
    BY <1>6 DEF QueueTimeout, ContractInv, HandlerPermits
  <2>2. Statuses' = [Statuses EXCEPT ![r] = "refused"]
    BY <2>1, CloseStatus
  <2>3. free = 0
    BY <2>1 DEF ContractInv, SemOK, Sem!SemInv, Sem!NoIdlePermit
  <2>4. Statuses[r] = "waiting"
    BY <2>1, StatusSets DEF Contract!WithStatus, Statuses
  <2>5. Contract!Refuse(r)
    BY <1>1, <2>1, <2>2, <2>3, <2>4, StatusSets
       DEF Contract!Refuse, Contract!Become, Statuses, Recorded
  <2> QED
    BY <2>5 DEF ContractStep, Contract!ContractNext
<1>7. ASSUME NEW r \in Requests,
             \/ PlanDeclined(r) \/ PlanFails(r) \/ ToolsFailed(r) \/ ToolsPanicked(r)
             \/ CallsFailed(r) \/ SaveSnapshotFails(r) \/ SaveTraceFails(r) \/ Disconnect(r)
      PROVE  ContractStep
  <2>1. /\ \E how : /\ Close(r, how)
                    /\ how \notin {"bad_request", "busy", "ok"}
        /\ UNCHANGED <<kind, traces>>
        /\ pc[r] \notin {"idle", "closed"}
    BY <1>7 DEF PlanDeclined, PlanFails, ToolsFailed, ToolsErrorReply, ToolsPanicked, CallsFailed,
       SaveSnapshotFails, SaveTraceFails, Disconnect, AwaitPoints
  <2> QED
    BY <1>1, <2>1, FailsContract
<1>8. ASSUME NEW r \in Requests, SendReply(r) PROVE ContractStep
  <2>1. /\ Close(r, "ok") /\ UNCHANGED <<kind, traces>> /\ pc[r] = "replying"
    BY <1>8 DEF SendReply
  <2>2. CASE kind[r] # "ask"
    BY <1>1, <2>1, <2>2, CloseExperiment DEF ContractStep
  <2>3. CASE kind[r] = "ask"
    <3>1. r \in held /\ r \in traces
      BY <2>1, <2>3 DEF ContractInv, HandlerPermits, InService, PersistPoints, ResultInv
    <3>2. Statuses[r] = "serving"
      BY <3>1, StatusSets DEF Contract!WithStatus, Statuses
    <3>3. Contract!Finish(r, "answered")
      BY <1>1, <2>1, <2>3, <3>1, <3>2, CloseStatus, StatusSets
         DEF Contract!Finish, Statuses, Recorded
    <3> QED
      BY <3>3 DEF ContractStep, Contract!ContractNext
  <2> QED
    BY <2>2, <2>3
<1>9. ASSUME NEW r \in Requests, SaveTrace(r) PROVE ContractStep
  <2>1. /\ traces' = traces \cup {r} /\ UNCHANGED <<semVars, reply, kind>> /\ pc[r] = "saved"
    BY <1>9 DEF SaveTrace, Store!CommitTrace
  <2>2. Statuses' = Statuses
    BY <2>1, SameStatuses
  <2>3. Statuses[r] = "serving"
    BY <2>1 DEF ContractInv, HandlerPermits, InService, PersistPoints, ResultInv, Statuses, AskStatus
  <2>4. Contract!Record(r)
    BY <1>1, <2>1, <2>2, <2>3 DEF Contract!Record, Statuses, Recorded
  <2> QED
    BY <2>4 DEF ContractStep, Contract!ContractNext
<1>10. CASE Restart
  <2>1. traces' \in {traces, {}}
    BY <1>10 DEF Restart, Store!Reopen
  <2>2. /\ held' = {} /\ Sem!Waiting' = {} /\ kind' = kind
        /\ \A q \in Requests : reply'[q] = IF pc[q] \in {"idle", "closed"} THEN reply[q]
                                           ELSE "dropped"
    BY <1>10 DEF Restart, Sem!Recreate, Sem!Waiting
  <2>3. \A q \in Requests : AskStatus(q)' = IF AskStatus(q) \in {"waiting", "serving"} THEN "failed"
                                            ELSE AskStatus(q)
    <3> TAKE q \in Requests
    <3>1. CASE kind[q] # "ask"
      BY <2>2, <3>1 DEF AskStatus
    <3>2. CASE kind[q] = "ask" /\ q \in held \cup Sem!Waiting
      <4>1. pc[q] \notin {"idle", "closed"}
        BY <3>2 DEF ContractInv, HandlerPermits, InService, PersistPoints
      <4> QED
        BY <2>2, <3>2, <4>1 DEF AskStatus
    <3>3. CASE kind[q] = "ask" /\ q \notin held \cup Sem!Waiting
      <4>1. pc[q] \in {"idle", "closed"}
        BY <3>3 DEF ContractInv, HandlerPermits, TypeOK, Places
      <4> QED
        BY <2>2, <3>3, <4>1 DEF AskStatus
    <3> QED
      BY <3>1, <3>2, <3>3
  <2>4. Contract!Outage
    BY <1>1, <2>1, <2>3 DEF Contract!Outage, Statuses, Recorded
  <2> QED
    BY <2>4 DEF ContractStep, Contract!ContractNext
<1>11. ASSUME NEW r \in Requests,
              \/ ThreadStep(r) \/ GetPermit(r) \/ PlanReady(r) \/ ExperimentDone(r)
              \/ StartCalls(r) \/ CallReturns(r) \/ CallsDone(r) \/ StampResult(r)
              \/ SaveSnapshot(r)
       PROVE  ContractStep
  <2>1. UNCHANGED <<semVars, reply, kind, traces>>
    BY <1>11 DEF ThreadStep, ToolError, DriftWithoutBaseline, DriftWrongBaseline, ToolFails,
       DriftSucceeds, ToolSucceeds, ChainCommits, ChainInsertFails, ToolPanics, GetPermit,
       PlanReady, ExperimentDone, StartCalls, CallReturns, CallsDone, StampResult, SaveSnapshot,
       Store!CommitRow
  <2> QED
    BY <1>1, <2>1, SameStatuses DEF ContractStep
<1>12. CASE ClockTicks \/ UNCHANGED vars
  <2>1. UNCHANGED <<semVars, reply, kind, traces>>
    BY <1>12 DEF ClockTicks, Store!Tick, vars
  <2> QED
    BY <1>1, <2>1, SameStatuses DEF ContractStep
<1> QED
  BY <1>3, <1>4, <1>5, <1>6, <1>7, <1>8, <1>9, <1>10, <1>11, <1>12
     DEF Next, AllQuiet, ClientStep, HandlerStep

\* The request path implements the contract: whatever its interleavings of
\* disconnects, timeouts, errors and restarts, no more than Capacity asks are
\* served, none waits or is refused while fewer are, and none is answered
\* before it is recorded (routes.rs, post_ask).
THEOREM RefinesContract == Spec => ImplementsContract
<1>1. Init => ContractInv /\ Contract!ContractInit
  <2> SUFFICES ASSUME Init PROVE ContractInv /\ Contract!ContractInit
    OBVIOUS
  <2>1. TypeOK /\ SemOK
    BY TypeInit
  <2>2. HandlerPermits /\ IdleKind
    BY DEF Init, Sem!SemInit, Sem!Waiting, HandlerPermits, InService, PersistPoints, IdleKind
  <2>3. ThreadOK
    BY DEF Init, ThreadOK, PersistPoints
  <2>4. ResultInv
    BY DEF Init, ResultInv, AnsweredDurable, ResultRows, Store!ById, Store!StoreInit
  <2>5. Contract!ContractInit
    BY DEF Init, Contract!ContractInit, AskStatus, Store!StoreInit
  <2> QED
    BY <2>1, <2>2, <2>3, <2>4, <2>5 DEF ContractInv
<1>2. ContractInv /\ [Next]_vars => ContractInv'
  BY TypeStep, PermitStep, ThreadStepOK, ResultStep, KindStep DEF ContractInv
<1>3. ContractInv /\ ContractInv' /\ [Next]_vars => [Contract!ContractNext]_(Contract!contractVars)
  <2>1. ContractStep => [Contract!ContractNext]_(Contract!contractVars)
    BY DEF ContractStep, Statuses, Recorded, Contract!contractVars
  <2> QED
    BY <2>1, ContractStepOK
<1> QED
  BY <1>1, <1>2, <1>3, PTL DEF Spec, ImplementsContract, Contract!ContractSpec


----------------------------------------------------------------------------
(***************************************************************************)
(* Drifts: what they are measured against and where they are listed.       *)
(***************************************************************************)

\* What a row written mid-plan is, whoever reads it and however much later.
RowsChained ==
    \A row \in rows : row.id[2] # 0 => /\ row.type = "RiskDecomposition"
                                       /\ row.hash = hash[row.id[1]]

\* The id a running thread goes on with is that of a row of its own, which is
\* stored; a thread that was not spawned has none.
ChainOK ==
    \A r \in Requests :
       /\ thread[r] = "none" => chain[r] = NoId
       /\ (thread[r] = "running" /\ chain[r] # NoId) =>
             \E i \in Nat \ {0} : /\ chain[r] = <<r, i>>
                                  /\ \E row \in rows : row.id = <<r, i>>

ChainInv == RowsChained /\ ChainOK

\* No step changes what portfolio a request is about.
LEMMA HashStays == [Next]_vars => hash' = hash
<1>1. ASSUME NEW r \in Requests, ClientStep(r) PROVE hash' = hash
  BY <1>1, Zenon DEF ClientStep, RejectInput, PostAsk, PostExperiment, Disconnect, Spawn, inputVars
<1>2. ASSUME NEW r \in Requests, HandlerStep(r) PROVE hash' = hash
  <2>1. CASE GetPermit(r) \/ QueueTimeout(r) \/ PlanReady(r) \/ PlanDeclined(r) \/ PlanFails(r)
    BY <2>1, Zenon DEF GetPermit, QueueTimeout, PlanReady, PlanDeclined, PlanFails, Spawn, inputVars
  <2>2. CASE ToolsFailed(r) \/ ToolsPanicked(r) \/ ExperimentDone(r) \/ StartCalls(r)
                \/ CallReturns(r) \/ CallsFailed(r) \/ CallsDone(r)
    BY <2>2, Zenon DEF ToolsFailed, ToolsPanicked, ExperimentDone, StartCalls, CallReturns,
       CallsFailed, CallsDone, inputVars
  <2>3. CASE StampResult(r) \/ SaveSnapshot(r) \/ SaveSnapshotFails(r) \/ SaveTrace(r)
                \/ SaveTraceFails(r) \/ SendReply(r)
    BY <2>3, Zenon DEF StampResult, SaveSnapshot, SaveSnapshotFails, SaveTrace, SaveTraceFails,
       SendReply, inputVars
  <2> QED
    BY <1>2, <2>1, <2>2, <2>3 DEF HandlerStep
<1>3. ASSUME NEW r \in Requests, ThreadStep(r) PROVE hash' = hash
  BY <1>3, Zenon DEF ThreadStep, ToolError, DriftWithoutBaseline, DriftWrongBaseline, ToolFails,
     DriftSucceeds, ToolSucceeds, ChainCommits, ChainInsertFails, ToolPanics, inputVars
<1>4. ClockTicks \/ Restart \/ AllQuiet \/ UNCHANGED vars => hash' = hash
  BY Zenon DEF ClockTicks, Restart, AllQuiet, vars, inputVars
<1> QED
  BY <1>1, <1>2, <1>3, <1>4 DEF Next

\* A step that starts no thread, chains nothing and loses no row.
LEMMA KeepChains ==
  ASSUME ChainInv, hash' = hash, rows' = rows, chain' = chain,
         \A q \in Requests : thread'[q] \in {"none", "running"} => thread'[q] = thread[q]
  PROVE  ChainInv'
BY DEF ChainInv, RowsChained, ChainOK

LEMMA ChainStep == TypeOK /\ ThreadOK /\ ChainInv /\ [Next]_vars => ChainInv'
<1> SUFFICES ASSUME TypeOK, ThreadOK, ChainInv, [Next]_vars PROVE ChainInv'
  OBVIOUS
<1>0. hash' = hash
  BY HashStays
<1> USE DEF storeVars, inputVars, threadVars
<1>1. ASSUME NEW r \in Requests, SaveSnapshot(r) PROVE ChainInv'
  <2>1. PICK new : new.id = <<r, 0>> /\ rows' = rows \cup {new}
    BY <1>1 DEF SaveSnapshot, Store!CommitRow, ResultId
  <2>2. UNCHANGED <<thread, chain>>
    BY <1>1 DEF SaveSnapshot
  <2> QED
    BY <1>0, <2>1, <2>2 DEF ChainInv, RowsChained, ChainOK
<1>2. ASSUME NEW r \in Requests, ChainCommits(r) PROVE ChainInv'
  <2> DEFINE i == step[r]
  <2>1. i \in Nat \ {0} /\ chain \in [Requests -> Id \cup {NoId}]
    BY DEF TypeOK
  <2>2. PICK new : /\ new.id = <<r, i>> /\ new.hash = hash[r] /\ new.type = "RiskDecomposition"
                   /\ rows' = rows \cup {new}
    BY <1>2 DEF ChainCommits, Store!CommitRow, ChainId
  <2>3. chain' = [chain EXCEPT ![r] = <<r, i>>]
    BY <1>2 DEF ChainCommits, ChainId
  <2>4. \A q \in Requests : thread'[q] \in {"none", "running"} => thread'[q] = thread[q]
    BY <1>2 DEF ChainCommits, Advance, TypeOK
  <2>5. thread[r] = "running"
    BY <1>2 DEF ChainCommits
  <2>6. RowsChained'
    BY <1>0, <2>2 DEF ChainInv, RowsChained
  <2>7. ChainOK'
    <3> SUFFICES ASSUME NEW q \in Requests
                 PROVE  /\ thread'[q] = "none" => chain'[q] = NoId
                        /\ (thread'[q] = "running" /\ chain'[q] # NoId) =>
                              \E k \in Nat \ {0} : /\ chain'[q] = <<q, k>>
                                                   /\ \E row \in rows' : row.id = <<q, k>>
      BY DEF ChainOK
    <3>1. CASE q = r
      BY <3>1, <2>1, <2>2, <2>3, <2>4, <2>5
    <3>2. CASE q # r
      BY <3>2, <2>1, <2>2, <2>3, <2>4 DEF ChainInv, ChainOK
    <3> QED
      BY <3>1, <3>2
  <2> QED
    BY <2>6, <2>7 DEF ChainInv
<1>3. ASSUME NEW r \in Requests, PostExperiment(r) \/ PlanReady(r) PROVE ChainInv'
  <2>1. /\ thread' = [thread EXCEPT ![r] = "running"]
        /\ UNCHANGED <<rows, chain>>
    BY <1>3 DEF PostExperiment, PlanReady, Spawn
  <2>2. thread[r] = "none"
    BY <1>3 DEF PostExperiment, PlanReady, ThreadOK
  <2> QED
    BY <1>0, <2>1, <2>2 DEF ChainInv, RowsChained, ChainOK, TypeOK
<1>4. CASE Restart
  <2>1. PICK kept \in BOOLEAN : Store!Reopen(kept)
    BY <1>4 DEF Restart
  <2>2. /\ rows' \subseteq rows
        /\ chain' = chain
        /\ \A q \in Requests : thread'[q] # "running" /\ (thread'[q] = "none" => thread[q] = "none")
    BY <1>4, <2>1 DEF Restart, Store!Reopen
  <2> QED
    BY <1>0, <2>2 DEF ChainInv, RowsChained, ChainOK
<1>5. ASSUME NEW r \in Requests, ThreadStep(r), ~ChainCommits(r) PROVE ChainInv'
  <2>1. /\ UNCHANGED <<rows, chain>>
        /\ \A q \in Requests : thread'[q] \in {"none", "running"} => thread'[q] = thread[q]
    BY <1>5 DEF ThreadStep, ToolError, DriftWithoutBaseline, DriftWrongBaseline, ToolFails,
       DriftSucceeds, ToolSucceeds, ChainInsertFails, ToolPanics, Advance, TypeOK
  <2> QED
    BY <1>0, <2>1, KeepChains
<1>6. CASE UNCHANGED <<rows, thread, chain>>
  BY <1>0, <1>6, KeepChains
<1>7. ASSUME NEW r \in Requests,
             \/ ClientStep(r) /\ ~PostExperiment(r)
             \/ HandlerStep(r) /\ ~SaveSnapshot(r) /\ ~PlanReady(r)
      PROVE  UNCHANGED <<rows, thread, chain>>
  BY <1>7, Zenon DEF ClientStep, HandlerStep, RejectInput, PostAsk, Disconnect, GetPermit,
     QueueTimeout, PlanDeclined, PlanFails, ToolsFailed, ToolsPanicked, ExperimentDone,
     StartCalls, CallReturns, CallsFailed, CallsDone, StampResult, SaveSnapshotFails, SaveTrace,
     SaveTraceFails, SendReply, Store!CommitTrace
<1>8. ClockTicks \/ UNCHANGED vars => UNCHANGED <<rows, thread, chain>>
  BY DEF ClockTicks, Store!Tick, vars
<1> QED
  BY <1>1, <1>2, <1>3, <1>4, <1>5, <1>6, <1>7, <1>8 DEF Next, AllQuiet, HandlerStep, ClientStep

\* The errors of a thread grow only by its own failing tools.
LEMMA WhoFails ==
  ASSUME TypeOK, NEW r \in Requests, [Next]_vars, errors'[r] # errors[r]
  PROVE  ToolError(r) \/ DriftWithoutBaseline(r) \/ DriftWrongBaseline(r)
<1> USE DEF threadVars
<1>1. ASSUME NEW q \in Requests, ToolError(q) \/ DriftWithoutBaseline(q) \/ DriftWrongBaseline(q)
      PROVE  q = r
  <2>1. \E cause : errors' = [errors EXCEPT ![q] = Append(@, cause)]
    BY <1>1 DEF ToolError, DriftWithoutBaseline, DriftWrongBaseline, ToolFails
  <2> QED
    BY <2>1 DEF TypeOK
<1>2. ASSUME NEW q \in Requests,
             \/ ClientStep(q)
             \/ HandlerStep(q)
             \/ ThreadStep(q) /\ ~ToolError(q) /\ ~DriftWithoutBaseline(q) /\ ~DriftWrongBaseline(q)
      PROVE  errors' = errors
  BY <1>2, Zenon DEF ClientStep, HandlerStep, ThreadStep, RejectInput, PostAsk, PostExperiment,
     Disconnect, GetPermit, QueueTimeout, PlanReady, PlanDeclined, PlanFails, ToolsFailed,
     ToolsPanicked, ExperimentDone, StartCalls, CallReturns, CallsFailed, CallsDone, StampResult,
     SaveSnapshot, SaveSnapshotFails, SaveTrace, SaveTraceFails, SendReply, DriftSucceeds,
     ToolSucceeds, ChainCommits, ChainInsertFails, ToolPanics, Spawn
<1>3. ClockTicks \/ Restart \/ UNCHANGED vars => errors' = errors
  BY DEF ClockTicks, Restart, vars
<1> QED
  BY <1>1, <1>2, <1>3 DEF Next, AllQuiet, ThreadStep

\* The step of the property: with the row of its own current_risk at hand, a
\* drift finds a decomposition of its own portfolio.
LEMMA ChainedStep ==
  ASSUME TypeOK, ChainInv, [Next]_vars, NEW r \in Requests,
         Running(r), chain[r] # NoId, base[r][step[r]] = NoId
  PROVE  ~FailsFor(r, BaselineCauses)
<1> SUFFICES ASSUME FailsFor(r, BaselineCauses) PROVE FALSE
  OBVIOUS
<1>1. errors[r] \in Seq(Causes)
  BY DEF TypeOK
<1>2. Len(errors'[r]) > Len(errors[r]) /\ errors'[r][Len(errors'[r])] \in BaselineCauses
  BY DEF FailsFor
<1>3. errors'[r] # errors[r]
  BY <1>1, <1>2
<1>4. ASSUME NEW cause, ToolFails(r, cause) PROVE cause \in BaselineCauses
  <2>1. errors'[r] = Append(errors[r], cause)
    BY <1>4 DEF ToolFails, TypeOK
  <2>2. errors[r] \in Seq(Causes \cup {cause})
    BY <1>1
  <2> QED
    BY <1>2, <2>1, <2>2
<1>5. PICK i \in Nat \ {0} : /\ chain[r] = <<r, i>>
                             /\ \E row \in rows : row.id = <<r, i>>
  BY DEF ChainInv, ChainOK, Running
<1>6. Baselines(r) = {row \in rows : row.id = <<r, i>>}
  BY <1>5 DEF Baselines, BaselineId, Store!ById
<1>7. CASE ToolError(r)
  BY <1>4, <1>7 DEF ToolError, BaselineCauses
<1>8. CASE DriftWithoutBaseline(r)
  BY <1>5, <1>6, <1>8 DEF DriftWithoutBaseline
<1>9. CASE DriftWrongBaseline(r)
  <2>1. PICK row \in rows : row.id = <<r, i>> /\ BaselineFault(r, row) # "none"
    BY <1>6, <1>9 DEF DriftWrongBaseline
  <2>2. row.type = "RiskDecomposition" /\ row.hash = hash[r]
    BY <1>5, <2>1 DEF ChainInv, RowsChained
  <2> QED
    BY <2>1, <2>2 DEF BaselineFault
<1> QED
  BY <1>3, <1>7, <1>8, <1>9, WhoFails

\* A drift behind a chained current_risk never fails for want of a baseline,
\* whatever other requests store for its portfolio meanwhile, for any requests
\* and plans (orchestrator::run_tool_plans, current_risk_snapshot_id).
THEOREM ChainedDrifts == Spec => ChainedDriftHasBaseline
<1> DEFINE Inv == TypeOK /\ SemOK /\ ThreadOK /\ ChainInv
<1> DEFINE Step == \A r \in Requests :
              (Running(r) /\ chain[r] # NoId /\ base[r][step[r]] = NoId)
                 => ~FailsFor(r, BaselineCauses)
<1>1. Init => Inv
  <2> SUFFICES ASSUME Init PROVE Inv
    OBVIOUS
  <2>1. ThreadOK
    BY DEF Init, ThreadOK, PersistPoints
  <2>2. ChainInv
    BY DEF Init, ChainInv, RowsChained, ChainOK, Store!StoreInit
  <2> QED
    BY <2>1, <2>2, TypeInit
<1>2. Inv /\ [Next]_vars => Inv'
  BY TypeStep, ThreadStepOK, ChainStep
<1>3. Inv /\ [Next]_vars => Step
  BY ChainedStep
<1> QED
  BY <1>1, <1>2, <1>3, PTL DEF Spec, ChainedDriftHasBaseline

----------------------------------------------------------------------------
(***************************************************************************)
(* Rows in the order of the queries.                                       *)
(***************************************************************************)
\* The order leaves no two rows of S in either order.
Ordered(S) == /\ IsFiniteSet(S)
              /\ \A s \in S : s.at \in Nat /\ s.rowid \in Nat
              /\ \A s, t \in S : s.rowid = t.rowid => s = t

Newest(S, n) == {s \in S : Ahead(s, S) < n}

LEMMA OneOrder ==
  ASSUME NEW S, Ordered(S), NEW s \in S, NEW t \in S
  PROVE  /\ ~Store!Newer(s, s)
         /\ s # t => (Store!Newer(s, t) <=> ~Store!Newer(t, s))
         /\ \A u \in S : Store!Newer(s, t) /\ Store!Newer(t, u) => Store!Newer(s, u)
BY DEF Ordered, Store!Newer

LEMMA OrderedPart ==
  ASSUME NEW S, Ordered(S), NEW T \in SUBSET S
  PROVE  Ordered(T)
<1>1. IsFiniteSet(T)
  BY FS_Subset DEF Ordered
<1> QED
  BY <1>1 DEF Ordered

LEMMA AheadNat ==
  ASSUME NEW S, Ordered(S), NEW s
  PROVE  /\ Ahead(s, S) \in Nat
         /\ IsFiniteSet({t \in S : Store!Newer(t, s)})
<1>1. {t \in S : Store!Newer(t, s)} \in SUBSET S
  OBVIOUS
<1>2. IsFiniteSet({t \in S : Store!Newer(t, s)})
  BY <1>1, FS_Subset DEF Ordered
<1> QED
  BY <1>2, FS_CardinalityType DEF Ahead

\* Whatever is newer has fewer rows ahead of it.
LEMMA AheadLess ==
  ASSUME NEW S, Ordered(S), NEW s \in S, NEW t \in S, Store!Newer(s, t)
  PROVE  Ahead(s, S) < Ahead(t, S)
<1> DEFINE A == {u \in S : Store!Newer(u, s)}
           B == {u \in S : Store!Newer(u, t)}
<1>1. A \in SUBSET B /\ s \in B /\ s \notin A
  BY OneOrder
<1>2. IsFiniteSet(B) /\ Cardinality(B) \in Nat /\ Cardinality(A) \in Nat
  BY AheadNat DEF Ahead
<1>3. Cardinality(A) = Ahead(s, S) /\ Cardinality(B) = Ahead(t, S)
  BY DEF Ahead
<1> HIDE DEF A, B
<1>4. Cardinality(A) <= Cardinality(B) /\ (Cardinality(B) = Cardinality(A) => B = A)
  BY <1>1, <1>2, FS_Subset, Zenon
<1> QED
  BY <1>1, <1>2, <1>3, <1>4

LEMMA NewestFew ==
  ASSUME NEW S, Ordered(S), NEW n \in Nat
  PROVE  Cardinality(Newest(S, n)) \in Nat /\ Cardinality(Newest(S, n)) <= n
<1> DEFINE F == Newest(S, n)
           N == {Ahead(s, S) : s \in F}
<1>1. F \in SUBSET S
  BY DEF Newest
<1>2. IsFiniteSet(F) /\ Cardinality(F) \in Nat
  BY <1>1, FS_Subset, FS_CardinalityType DEF Ordered
<1>3. CASE F = {}
  BY <1>3, FS_EmptySet
<1>4. CASE F # {}
  <2>1. \A s \in S : Ahead(s, S) \in Nat
    BY AheadNat
  <2>2. N \in SUBSET (0 .. n) /\ N # {}
    BY <1>1, <1>4, <2>1 DEF Newest
  <2> HIDE DEF N
  <2>3. IsFiniteSet(N) /\ N \in SUBSET Int
    <3>1. IsFiniteSet(0 .. n)
      BY FS_Interval
    <3>2. IsFiniteSet(N)
      BY <2>2, <3>1, FS_Subset
    <3>3. \A k \in N : k \in Int
      BY <2>2
    <3> QED
      BY <3>2, <3>3
  <2>4. PICK m \in N : \A k \in N : k <= m
    BY <2>2, <2>3, GreatestNumber
  <2>5. PICK last \in F : Ahead(last, S) = m
    BY <2>4 DEF N
  <2>6. \A s \in F : Ahead(s, S) <= Ahead(last, S)
    BY <2>4, <2>5 DEF N
  <2> DEFINE A == {s \in S : Store!Newer(s, last)}
  <2>7. F \in SUBSET (A \cup {last})
    <3>1. ASSUME NEW s \in F, s # last
          PROVE  Store!Newer(s, last)
      <4>1. s \in S /\ last \in S
        BY <1>1, <2>5
      <4>2. ASSUME Store!Newer(last, s) PROVE FALSE
        <5>1. Ahead(last, S) < Ahead(s, S)
          BY <4>1, <4>2, AheadLess
        <5>2. Ahead(last, S) \in Nat /\ Ahead(s, S) \in Nat
          BY AheadNat
        <5> QED
          BY <2>6, <5>1, <5>2
      <4> QED
        BY <3>1, <4>1, <4>2, OneOrder
    <3> QED
      BY <1>1, <3>1
  <2>8. IsFiniteSet(A) /\ Cardinality(A) = Ahead(last, S) /\ Ahead(last, S) \in Nat
    BY AheadNat DEF Ahead
  <2>9. last \notin A
    BY <1>1, <2>5, OneOrder
  <2>10. Ahead(last, S) < n
    BY <2>5 DEF Newest
  <2> HIDE DEF A, F
  <2>11. IsFiniteSet(A \cup {last}) /\ Cardinality(A \cup {last}) = Ahead(last, S) + 1
    BY <2>8, <2>9, FS_AddElement
  <2>12. Cardinality(F) <= Cardinality(A \cup {last})
    BY <2>7, <2>11, FS_Subset
  <2> QED
    BY <1>2, <2>8, <2>10, <2>11, <2>12 DEF F
<1> QED
  BY <1>2, <1>3, <1>4

\* A row that is not among the newest n has as many before it, all newer.
LEMMA NewestAll ==
  ASSUME NEW S, Ordered(S), NEW n \in Nat, NEW row \in S, row \notin Newest(S, n)
  PROVE  /\ Cardinality(Newest(S, n)) >= n
         /\ \A s \in Newest(S, n) : Store!Newer(s, row)
<1> DEFINE F == Newest(S, n)
           N == {Ahead(s, S) : s \in S \ F}
<1>1. \A s \in S : Ahead(s, S) \in Nat
  BY AheadNat
<1>2. ASSUME NEW s \in F, NEW t \in S \ F
      PROVE  Store!Newer(s, t)
  <2>1. /\ s \in S /\ t \in S /\ s # t
        /\ Ahead(s, S) \in Nat /\ Ahead(t, S) \in Nat
        /\ Ahead(s, S) < n /\ ~(Ahead(t, S) < n)
    BY <1>1, <1>2 DEF Newest
  <2>2. ASSUME Store!Newer(t, s) PROVE FALSE
    <3>1. Ahead(t, S) < Ahead(s, S)
      BY <2>1, <2>2, AheadLess
    <3> QED
      BY <2>1, <3>1
  <2> QED
    BY <2>1, <2>2, OneOrder
<1>3. N \in SUBSET Nat /\ N # {}
  BY <1>1
<1>4. PICK m \in N : \A k \in N : m <= k
  <2> HIDE DEF N
  <2> QED
    BY <1>3, LeastNumber
<1>5. PICK next \in S \ F : Ahead(next, S) = m
  BY <1>4
<1>6. \A t \in S \ F : Ahead(next, S) <= Ahead(t, S)
  BY <1>4, <1>5
<1>7. ASSUME NEW t \in S, Store!Newer(t, next)
      PROVE  t \in F
  <2>1. Ahead(t, S) < Ahead(next, S)
    BY <1>5, <1>7, AheadLess
  <2>2. Ahead(t, S) \in Nat /\ Ahead(next, S) \in Nat
    BY <1>1, <1>5
  <2> QED
    BY <1>6, <1>7, <2>1, <2>2
<1>8. F = {s \in S : Store!Newer(s, next)}
  BY <1>2, <1>5, <1>7 DEF Newest
<1>9. Cardinality(F) = Ahead(next, S)
  BY <1>8 DEF Ahead
<1>10. ~(Ahead(next, S) < n)
  BY <1>5 DEF Newest
<1>11. Ahead(next, S) \in Nat
  BY <1>1, <1>5
<1>12. row \in S \ F
  OBVIOUS
<1> HIDE DEF F
<1>13. \A s \in F : Store!Newer(s, row)
  BY <1>2, <1>12
<1> QED
  BY <1>9, <1>10, <1>11, <1>13 DEF F

----------------------------------------------------------------------------
(***************************************************************************)
(* What the listing finds in the store.                                    *)
(***************************************************************************)
\* Rows are told apart by their rowid, and a stored result is that of the trace
\* its request still holds: its thread is done with it.
ListInv ==
    /\ IsFiniteSet(rows)
    /\ \A a, b \in rows : a.rowid = b.rowid => a = b
    /\ \A r \in Requests : \A row \in ResultRows(r) : /\ row.type = first[r].type
                                                     /\ row.hash = hash[r]
                                                     /\ thread[r] \notin {"none", "running"}

\* A step that adds no result, and changes the first trace only of a thread that
\* has stored none.
LEMMA KeepListed ==
  ASSUME TypeOK, ListInv, hash' = hash, rows' \subseteq rows,
         \A q \in Requests : thread[q] \notin {"none", "running"} =>
                               thread'[q] = thread[q] /\ first'[q] = first[q]
  PROVE  ListInv'
<1>1. IsFiniteSet(rows')
  BY FS_Subset DEF ListInv
<1>2. \A q : ResultRows(q)' \subseteq ResultRows(q)
  BY DEF ResultRows, Store!ById
<1>3. \A a, b \in rows' : a.rowid = b.rowid => a = b
  BY DEF ListInv
<1>4. ASSUME NEW q \in Requests, NEW row \in ResultRows(q)'
      PROVE  row.type = first'[q].type /\ row.hash = hash'[q] /\ thread'[q] \notin {"none", "running"}
  <2>1. row \in ResultRows(q)
    BY <1>2
  <2> QED
    BY <2>1 DEF ListInv
<1> QED
  BY <1>1, <1>3, <1>4 DEF ListInv

\* A row that is committed comes last.
LEMMA CommitListed ==
  ASSUME TypeOK, ClockOK, ListInv, NEW new, new.rowid = nextRow, rows' = rows \cup {new}
  PROVE  /\ IsFiniteSet(rows')
         /\ \A a, b \in rows' : a.rowid = b.rowid => a = b
<1>1. IsFiniteSet(rows')
  BY FS_AddElement DEF ListInv
<1>2. \A row \in rows : row.rowid # new.rowid
  BY DEF TypeOK, Rows, ClockOK
<1> QED
  BY <1>1, <1>2 DEF ListInv

LEMMA ListStep == TypeOK /\ ThreadOK /\ ClockOK /\ ListInv /\ [Next]_vars => ListInv'
<1> SUFFICES ASSUME TypeOK, ThreadOK, ClockOK, ListInv, [Next]_vars PROVE ListInv'
  OBVIOUS
<1>0. hash' = hash
  BY HashStays
<1> USE DEF storeVars, inputVars, threadVars
<1>1. ASSUME NEW r \in Requests, SaveSnapshot(r) PROVE ListInv'
  <2> DEFINE new == [id |-> ResultId(r), at |-> stamp[r], rowid |-> nextRow, hash |-> hash[r],
                     type |-> first[r].type, parent |-> first[r].parent, full |-> TRUE]
  <2>1. rows' = rows \cup {new} /\ UNCHANGED <<first, thread>>
    BY <1>1 DEF SaveSnapshot, Store!CommitRow
  <2>2. thread[r] = "returned"
    BY <1>1 DEF SaveSnapshot, ThreadOK, PersistPoints
  <2>3. /\ new.rowid = nextRow /\ new.type = first[r].type /\ new.hash = hash[r]
        /\ \A q \in Requests : new.id = ResultId(q) => q = r
    BY DEF ResultId
  <2> HIDE DEF new
  <2>4. /\ IsFiniteSet(rows')
        /\ \A a, b \in rows' : a.rowid = b.rowid => a = b
    BY <2>1, <2>3, CommitListed
  <2>5. \A q \in Requests : \A row \in ResultRows(q)' : row \in ResultRows(q) \/ (q = r /\ row = new)
    BY <2>1, <2>3 DEF ResultRows, Store!ById
  <2>6. ASSUME NEW q \in Requests, NEW row \in ResultRows(q)'
        PROVE  row.type = first'[q].type /\ row.hash = hash'[q] /\ thread'[q] \notin {"none", "running"}
    BY <1>0, <2>1, <2>2, <2>3, <2>5 DEF ListInv
  <2> QED
    BY <2>4, <2>6 DEF ListInv
<1>2. ASSUME NEW r \in Requests, ChainCommits(r) PROVE ListInv'
  <2> DEFINE new == [id |-> ChainId(r, step[r]), at |-> stamp[r], rowid |-> nextRow,
                     hash |-> hash[r], type |-> "RiskDecomposition", parent |-> NoId,
                     full |-> FALSE]
  <2>1. rows' = rows \cup {new} /\ UNCHANGED first
    BY <1>2 DEF ChainCommits, Store!CommitRow
  <2>2. new.rowid = nextRow /\ \A q : new.id # ResultId(q)
    BY DEF ChainId, ResultId, TypeOK
  <2>3. \A q \in Requests : thread[q] \notin {"none", "running"} => thread'[q] = thread[q]
    BY <1>2 DEF ChainCommits, Advance, TypeOK
  <2> HIDE DEF new
  <2>4. /\ IsFiniteSet(rows')
        /\ \A a, b \in rows' : a.rowid = b.rowid => a = b
    BY <2>1, <2>2, CommitListed
  <2>5. \A q : ResultRows(q)' = ResultRows(q)
    BY <2>1, <2>2 DEF ResultRows, Store!ById
  <2> QED
    BY <1>0, <2>1, <2>3, <2>4, <2>5 DEF ListInv
<1>3. ASSUME NEW r \in Requests, PostExperiment(r) \/ PlanReady(r) PROVE ListInv'
  <2>1. /\ thread' = [thread EXCEPT ![r] = "running"]
        /\ UNCHANGED <<rows, first>>
    BY <1>3 DEF PostExperiment, PlanReady, Spawn
  <2>2. thread[r] = "none"
    BY <1>3 DEF PostExperiment, PlanReady, ThreadOK
  <2>3. \A q \in Requests : thread[q] \notin {"none", "running"} =>
                               thread'[q] = thread[q] /\ first'[q] = first[q]
    BY <2>1, <2>2 DEF TypeOK
  <2> QED
    BY <1>0, <2>1, <2>3, KeepListed
<1>4. CASE Restart
  <2>1. PICK kept \in BOOLEAN : Store!Reopen(kept)
    BY <1>4 DEF Restart
  <2>2. /\ rows' \subseteq rows
        /\ \A q \in Requests : thread[q] \notin {"none", "running"} =>
                                  thread'[q] = thread[q] /\ first'[q] = first[q]
    BY <1>4, <2>1 DEF Restart, Store!Reopen
  <2> QED
    BY <1>0, <2>2, KeepListed
<1>5. ASSUME NEW r \in Requests, ThreadStep(r), ~ChainCommits(r) PROVE ListInv'
  <2>1. /\ thread[r] = "running" /\ rows' = rows
        /\ thread' = thread \/ \E end \in {"returned", "panicked"} : thread' = [thread EXCEPT ![r] = end]
    BY <1>5 DEF ThreadStep, ToolError, DriftWithoutBaseline, DriftWrongBaseline, ToolFails,
       DriftSucceeds, ToolSucceeds, ChainInsertFails, ToolPanics, Advance, Running
  <2>2. first' = first \/ \E trace : first' = [first EXCEPT ![r] = trace]
    BY <1>5 DEF ThreadStep, ToolError, DriftWithoutBaseline, DriftWrongBaseline, ToolFails,
       DriftSucceeds, ToolSucceeds, ChainInsertFails, ToolPanics, KeepTrace
  <2>3. \A q \in Requests : thread[q] \notin {"none", "running"} =>
                               thread'[q] = thread[q] /\ first'[q] = first[q]
    BY <2>1, <2>2 DEF TypeOK
  <2> QED
    BY <1>0, <2>1, <2>3, KeepListed
<1>6. CASE UNCHANGED <<rows, thread, first>>
  BY <1>0, <1>6, KeepListed
<1>7. ASSUME NEW r \in Requests,
             \/ ClientStep(r) /\ ~PostExperiment(r)
             \/ HandlerStep(r) /\ ~SaveSnapshot(r) /\ ~PlanReady(r)
      PROVE  UNCHANGED <<rows, thread, first>>
  BY <1>7, Zenon DEF ClientStep, HandlerStep, RejectInput, PostAsk, Disconnect, GetPermit,
     QueueTimeout, PlanDeclined, PlanFails, ToolsFailed, ToolsPanicked, ExperimentDone,
     StartCalls, CallReturns, CallsFailed, CallsDone, StampResult, SaveSnapshotFails, SaveTrace,
     SaveTraceFails, SendReply, Store!CommitTrace
<1>8. ClockTicks \/ UNCHANGED vars => UNCHANGED <<rows, thread, first>>
  BY DEF ClockTicks, Store!Tick, vars
<1> QED
  BY <1>1, <1>2, <1>3, <1>4, <1>5, <1>6, <1>7, <1>8 DEF Next, AllQuiet, HandlerStep, ClientStep

\* The drifts that a listing scans, in their order.
LEMMA ScannedOrdered ==
  ASSUME TypeOK, ListInv, NEW p
  PROVE  Ordered(ScannedDrifts(p))
<1>1. Ordered(rows)
  BY DEF TypeOK, Rows, ListInv, Ordered
<1>2. ScannedDrifts(p) \in SUBSET rows
  BY DEF ScannedDrifts, Candidates, Store!RowsOf
<1> QED
  BY <1>1, <1>2, OrderedPart

LEMMA ListedDrifts ==
  ASSUME TypeOK, ListInv, AnsweredDurable
  PROVE  AnsweredDriftListed
<1> SUFFICES ASSUME NEW limit \in Limits, NEW p \in Portfolios
             PROVE  LET list == Listing(p, limit)
                    IN /\ Cardinality(list) <= Most(limit)
                       /\ \A a, b \in list : a # b => (Store!Newer(a, b) <=> ~Store!Newer(b, a))
                       /\ \A r \in Requests \ lost :
                             (reply[r] = "ok" /\ hash[r] = p /\ first[r].type = "RiskDrift") =>
                                \E row \in ResultRows(r) :
                                   \/ row \in list
                                   \/ Cardinality(list) >= limit /\ \A s \in list : Store!Newer(s, row)
                                   \/ Place(row) >= ScanWindow
  BY DEF AnsweredDriftListed
<1> DEFINE list == Listing(p, limit)
           S == ScannedDrifts(p)
<1>1. limit \in Nat /\ Most(limit) \in Nat /\ limit <= Most(limit)
  BY ListingAssumption DEF Most
<1>2. Ordered(S)
  BY ScannedOrdered
<1>3. list = Newest(S, Most(limit))
  BY DEF Listing, Newest
<1>4. Cardinality(list) \in Nat /\ Cardinality(list) <= Most(limit)
  BY <1>1, <1>2, <1>3, NewestFew
<1>5. \A a, b \in list : a # b => (Store!Newer(a, b) <=> ~Store!Newer(b, a))
  BY <1>2, <1>3, OneOrder DEF Newest
<1>6. ASSUME NEW r \in Requests \ lost, reply[r] = "ok", hash[r] = p, first[r].type = "RiskDrift"
      PROVE  \E row \in ResultRows(r) :
                \/ row \in list
                \/ Cardinality(list) >= limit /\ \A s \in list : Store!Newer(s, row)
                \/ Place(row) >= ScanWindow
  <2>1. PICK row \in ResultRows(r) : row.hash = p
    BY <1>6 DEF AnsweredDurable
  <2>2. row.type = "RiskDrift"
    BY <1>6, <2>1 DEF ListInv
  <2>3. row \in Store!RowsOf(p)
    BY <2>1 DEF ResultRows, Store!ById, Store!RowsOf
  <2>4. Place(row) \in Nat
    <3>1. Ordered(rows)
      BY DEF TypeOK, Rows, ListInv, Ordered
    <3>2. Store!RowsOf(row.hash) \in SUBSET rows
      BY DEF Store!RowsOf
    <3>3. Ordered(Store!RowsOf(row.hash))
      BY <3>1, <3>2, OrderedPart
    <3> QED
      BY <3>3, AheadNat DEF Place
  <2>5. CASE row \in S
    <3>1. CASE row \in list
      BY <3>1
    <3>2. CASE row \notin list
      <4> HIDE DEF list, S
      <4>1. /\ Cardinality(list) >= Most(limit)
            /\ \A s \in list : Store!Newer(s, row)
        BY <1>1, <1>2, <1>3, <2>5, <3>2, NewestAll
      <4> QED
        BY <1>1, <1>4, <4>1
    <3> QED
      BY <3>1, <3>2
  <2>6. CASE row \notin S
    <3>1. ~(Place(row) < ScanWindow)
      BY <2>2, <2>3, <2>6 DEF ScannedDrifts, Candidates
    <3> QED
      BY <2>4, <3>1, ListingAssumption
  <2> QED
    BY <2>5, <2>6
<1> QED
  BY <1>4, <1>5, <1>6

\* For any requests, plans, limits and size of the scan, a drift whose client was
\* answered is in the listing of its portfolio, or as many newer ones are as were
\* asked for, or the rows before it fill the scan (routes::get_drift).
THEOREM DriftsListed == Spec => []AnsweredDriftListed
<1> DEFINE Inv == TypeOK /\ SemOK /\ ThreadOK /\ ClockOK /\ ResultInv /\ ListInv
<1>1. Init => Inv
  <2> SUFFICES ASSUME Init PROVE Inv
    OBVIOUS
  <2>1. ThreadOK
    BY DEF Init, ThreadOK, PersistPoints
  <2>2. ResultInv
    BY DEF Init, ResultInv, AnsweredDurable, ResultRows, Store!ById, Store!StoreInit
  <2>3. ClockOK
    BY DEF Init, ClockOK, Store!StoreInit
  <2>4. ListInv
    BY FS_EmptySet DEF Init, ListInv, ResultRows, Store!ById, Store!StoreInit
  <2> QED
    BY <2>1, <2>2, <2>3, <2>4, TypeInit
<1>2. Inv /\ [Next]_vars => Inv'
  BY TypeStep, ThreadStepOK, ClockStepOK, ResultStep, ListStep
<1>3. Inv => AnsweredDriftListed
  BY ListedDrifts DEF ResultInv
<1> QED
  BY <1>1, <1>2, <1>3, PTL DEF Spec

=============================================================================
