------------------------------ MODULE AskService ------------------------------
(***************************************************************************)
(* The request path of the server: POST /ask and POST /experiment from     *)
(* admission to reply, with everything they share.                         *)
(*                                                                         *)
(*   handler   routes::post_ask / post_experiment with agent::pipeline::run*)
(*             inlined: an async task that can be dropped at an await      *)
(*   thread    the spawn_blocking closure that runs the planned tools      *)
(*             (orchestrator::run_tool_plans, dispatch::run_experiment);   *)
(*             nothing stops it once it is spawned, not even the loss of   *)
(*             its handler                                                 *)
(*   sem       the concurrency permits of /ask    (FairSemaphore)          *)
(*   store     the snapshot database              (SnapshotStore)          *)
(*                                                                         *)
(* Gemini, the market data behind a tool, the client's connection and the  *)
(* process itself may fail at any step.                                    *)
(***************************************************************************)
EXTENDS Naturals, Sequences, FiniteSets

CONSTANTS
    Requests,       \* the HTTP requests that ever arrive
    Capacity,       \* MAX_CONCURRENT_ASKS
    Portfolios,     \* the portfolio hashes the clients send
    Answers,        \* what the planner may answer: sequences of tool names
    DirectTools,    \* the experiments POST /experiment is asked for
    NoId,           \* Option::None
    UnknownId,      \* an id no row ever had
    MaxTime,        \* bound on the clock
    MaxRestarts     \* bound on the restarts of the process

RiskTools == {"current_risk", "risk_drift", "factor_shock", "reverse_stress",
              "historical_stress", "cvar_rebalance", "policy_check",
              "portfolio_performance"}

\* A planner may name any tool; RiskTool::parse knows eight of them.
ToolNames == RiskTools \cup {"decline", "other_name"}

ASSUME RequestsAssumption == IsFiniteSet(Requests)
ASSUME CapacityAssumption == Capacity \in Nat \ {0}
ASSUME AnswersAssumption == Answers \subseteq Seq(ToolNames)
ASSUME DirectAssumption == DirectTools \subseteq RiskTools
ASSUME IdsAssumption == /\ NoId \notin Requests \X Nat
                        /\ UnknownId \notin Requests \X Nat
                        /\ NoId # UnknownId
ASSUME BoundsAssumption == MaxTime \in Nat \ {0} /\ MaxRestarts \in Nat

VARIABLES
    free, held, ticket, nextTicket,   \* the semaphore
    rows, traces, nextRow, now,       \* the store
    kind,       \* the endpoint a request was sent to
    pc,         \* where its handler is
    reply,      \* what its client was told
    hash,       \* the hash of its portfolio
    plan,       \* its tools
    base,       \* the baseline_snapshot_id each of them names
    thread,     \* the state of its blocking thread
    step,       \* the tool the thread is at
    first,      \* traces[0]: the first tool's trace that succeeded
    errors,     \* why its tools failed, in order
    chain,      \* current_risk_snapshot_id
    stamp,      \* created_at of the insert it is in the middle of, or 0
    calls,      \* the Gemini calls the tokio::join! still waits for
    failed,     \* whether one of them failed
    lost,       \* requests whose records went with a replaced disk
    restarts

Sem == INSTANCE FairSemaphore WITH Tasks <- Requests
Store == INSTANCE SnapshotStore

semVars == <<free, held, ticket, nextTicket>>
storeVars == <<rows, traces, nextRow, now>>
inputVars == <<kind, hash, plan, base>>
threadVars == <<thread, step, first, errors, chain>>
callVars == <<calls, failed>>
envVars == <<lost, restarts>>
vars == <<semVars, storeVars, inputVars, threadVars, callVars, envVars,
          pc, reply, stamp>>

Id == Requests \X Nat
ResultId(r) == <<r, 0>>              \* the row of the request's own result
ChainId(r, i) == <<r, i>>            \* the row written after its i-th tool

NoTrace == [type |-> "none", parent |-> NoId]

\* The experiment a tool dispatches to (orchestrator::build_experiment).
ExperimentOf(tool) ==
    CASE tool = "current_risk"                             -> "RiskDecomposition"
      [] tool = "risk_drift"                               -> "RiskDrift"
      [] tool \in {"factor_shock", "historical_stress"}    -> "FactorShock"
      [] tool = "reverse_stress"                           -> "ReverseStress"
      [] tool = "cvar_rebalance"                           -> "CvarRebalance"
      [] tool = "policy_check"                             -> "PolicyCheck"
      [] OTHER                                             -> "PortfolioPerformance"

ExperimentTypes == {ExperimentOf(tool) : tool \in RiskTools}

Init ==
    /\ Sem!SemInit
    /\ Store!StoreInit
    /\ kind = [r \in Requests |-> "none"]
    /\ pc = [r \in Requests |-> "idle"]
    /\ reply = [r \in Requests |-> "none"]
    /\ hash \in [Requests -> Portfolios]
    /\ plan = [r \in Requests |-> <<>>]
    /\ base = [r \in Requests |-> <<>>]
    /\ thread = [r \in Requests |-> "none"]
    /\ step = [r \in Requests |-> 1]
    /\ first = [r \in Requests |-> NoTrace]
    /\ errors = [r \in Requests |-> <<>>]
    /\ chain = [r \in Requests |-> NoId]
    /\ stamp = [r \in Requests |-> 0]
    /\ calls = [r \in Requests |-> {}]
    /\ failed = [r \in Requests |-> FALSE]
    /\ lost = {}
    /\ restarts = 0

----------------------------------------------------------------------------
(***************************************************************************)
(* Moving a handler on, and ending it.                                     *)
(***************************************************************************)
Goto(r, where) == pc' = [pc EXCEPT ![r] = where]

\* Mutant of Close: the permit is given back by hand, on the way to an answer only.
CloseForgetting(r, how) ==
    /\ Goto(r, "closed")
    /\ reply' = [reply EXCEPT ![r] = how]
    /\ \/ how = "ok" /\ Sem!Release(r)
       \/ Sem!Abandon(r)
       \/ (how # "ok" \/ r \notin held) /\ r \notin Sem!Waiting /\ UNCHANGED semVars

\* The handler is dropped or returns: its permit guard, if it has one, goes
\* with it, and an acquire that still waits leaves the queue.
Close(r, how) ==
    /\ Goto(r, "closed")
    /\ reply' = [reply EXCEPT ![r] = how]
    /\ \/ Sem!Release(r)
       \/ Sem!Abandon(r)
       \/ r \notin held \cup Sem!Waiting /\ UNCHANGED semVars

\* The baselines a tool can name: only a risk_drift names any, one it has seen
\* stored or one that does not exist (any more).
NameableIds(tool) == {NoId} \cup IF tool = "risk_drift"
                                 THEN {UnknownId} \cup {row.id : row \in rows} ELSE {}

\* spawn_blocking: the thread starts at the first tool of the plan.
Spawn(r, tools) ==
    /\ plan' = [plan EXCEPT ![r] = tools]
    /\ \E ids \in [DOMAIN tools -> UNION {NameableIds(tools[i]) : i \in DOMAIN tools}] :
          /\ \A i \in DOMAIN tools : ids[i] \in NameableIds(tools[i])
          /\ base' = [base EXCEPT ![r] = ids]
    /\ thread' = [thread EXCEPT ![r] = "running"]
    /\ UNCHANGED <<hash, step, first, errors, chain>>

----------------------------------------------------------------------------
(***************************************************************************)
(* Admission.                                                              *)
(***************************************************************************)

\* An empty message, a portfolio validate_portfolio refuses, or a body that is
\* not an experiment: 400 before anything else happens.
RejectInput(r) ==
    /\ pc[r] = "idle"
    /\ \E k \in {"ask", "experiment"} : kind' = [kind EXCEPT ![r] = k]
    /\ Close(r, "bad_request")
    /\ UNCHANGED <<storeVars, hash, plan, base, threadVars, callVars, envVars, stamp>>

PostAsk(r) ==
    /\ pc[r] = "idle"
    /\ kind' = [kind EXCEPT ![r] = "ask"]
    /\ Sem!Acquire(r)
    /\ Goto(r, IF r \in held' THEN "planning" ELSE "queued")
    /\ UNCHANGED <<storeVars, hash, plan, base, threadVars, callVars, envVars,
                   reply, stamp>>

PostExperiment(r) ==
    /\ pc[r] = "idle"
    /\ kind' = [kind EXCEPT ![r] = "experiment"]
    /\ Goto(r, "tools")
    /\ \E tool \in DirectTools : Spawn(r, <<tool>>)
    /\ UNCHANGED <<semVars, storeVars, callVars, envVars, reply, stamp>>

\* The queued acquire is polled again after a permit was handed to it.
GetPermit(r) ==
    /\ pc[r] = "queued"
    /\ r \in held
    /\ Goto(r, "planning")
    /\ UNCHANGED <<semVars, storeVars, inputVars, threadVars, callVars, envVars,
                   reply, stamp>>

\* Mutant of QueueTimeout: the timer is polled before the acquire.
QueueTimeoutFirst(r) ==
    /\ pc[r] = "queued"
    /\ Close(r, "busy")
    /\ UNCHANGED <<storeVars, inputVars, threadVars, callVars, envVars, stamp>>

\* The timeout fires first.  tokio polls the acquire before the timer, so a
\* request that was handed a permit is never turned away.
QueueTimeout(r) ==
    /\ pc[r] = "queued"
    /\ r \notin held
    /\ Close(r, "busy")
    /\ UNCHANGED <<storeVars, inputVars, threadVars, callVars, envVars, stamp>>

----------------------------------------------------------------------------
(***************************************************************************)
(* Planning.                                                               *)
(***************************************************************************)

\* parse_plan_response gives nothing usable (written <<>>) and the plan falls
\* back to current_risk; anything but a lone decline is run as it stands.
PlannedTools(answer) == IF answer = <<>> THEN <<"current_risk">> ELSE answer

PlanReady(r) ==
    /\ pc[r] = "planning"
    /\ \E answer \in Answers \ {<<"decline">>} : Spawn(r, PlannedTools(answer))
    /\ Goto(r, "tools")
    /\ UNCHANGED <<semVars, storeVars, kind, callVars, envVars, reply, stamp>>

PlanDeclined(r) ==
    /\ pc[r] = "planning"
    /\ <<"decline">> \in Answers
    /\ Close(r, "redirect")
    /\ UNCHANGED <<storeVars, inputVars, threadVars, callVars, envVars, stamp>>

PlanFails(r) ==
    /\ pc[r] = "planning"
    /\ Close(r, "ai_unavailable")
    /\ UNCHANGED <<storeVars, inputVars, threadVars, callVars, envVars, stamp>>

----------------------------------------------------------------------------
(***************************************************************************)
(* The blocking thread: run_tool_plans for /ask, one experiment for        *)
(* /experiment.                                                            *)
(***************************************************************************)
Tool(r) == plan[r][step[r]]

NextIsDrift(r) == step[r] < Len(plan[r]) /\ plan[r][step[r] + 1] = "risk_drift"

Running(r) == thread[r] = "running" /\ stamp[r] = 0

\* The tool at hand is done: go on with the next one, or return.
Advance(r) == IF step[r] < Len(plan[r])
              THEN /\ step' = [step EXCEPT ![r] = @ + 1]
                   /\ UNCHANGED thread
              ELSE /\ thread' = [thread EXCEPT ![r] = "returned"]
                   /\ UNCHANGED step

\* The trace joins traces; only the first one is looked at again.
KeepTrace(r, type, parent) ==
    first' = [first EXCEPT ![r] = IF @ = NoTrace
                                  THEN [type |-> type, parent |-> parent] ELSE @]

\* Mutant of BaselineId: the chained id is not passed on to the drift.
BaselineIdUnchained(r) == base[r][step[r]]

\* drift::resolve_baseline: the id the plan names, else the chained one, else
\* whatever is the portfolio's latest row.
BaselineId(r) == IF base[r][step[r]] # NoId THEN base[r][step[r]] ELSE chain[r]

Baselines(r) == IF BaselineId(r) = NoId THEN Store!Latest(hash[r])
                                        ELSE Store!ById(BaselineId(r))

\* Mutant of BaselineFault: the row's experiment type is not looked at.
BaselineFaultUntyped(r, row) == IF row.hash # hash[r] THEN "other_portfolio" ELSE "none"

\* Why run_risk_drift cannot use the row it resolved.
BaselineFault(r, row) ==
    IF row.hash # hash[r] THEN "other_portfolio"
    ELSE IF row.type # "RiskDecomposition" THEN "not_decomposition"
    ELSE "none"

ToolFails(r, cause) ==
    /\ errors' = [errors EXCEPT ![r] = Append(@, cause)]
    /\ Advance(r)
    /\ UNCHANGED <<semVars, storeVars, inputVars, first, chain, callVars, envVars,
                   pc, reply, stamp>>

\* A name RiskTool::parse does not know, or a data, model or parameter error.
ToolError(r) ==
    /\ Running(r)
    /\ ToolFails(r, IF Tool(r) \in RiskTools THEN "compute" ELSE "unknown_tool")

DriftWithoutBaseline(r) ==
    /\ Running(r)
    /\ Tool(r) = "risk_drift"
    /\ Baselines(r) = {}
    /\ ToolFails(r, "no_prior")

DriftWrongBaseline(r) ==
    /\ Running(r)
    /\ Tool(r) = "risk_drift"
    /\ \E row \in Baselines(r) :
          /\ BaselineFault(r, row) # "none"
          /\ ToolFails(r, BaselineFault(r, row))

DriftSucceeds(r) ==
    /\ Running(r)
    /\ Tool(r) = "risk_drift"
    /\ \E row \in Baselines(r) :
          /\ BaselineFault(r, row) = "none"
          /\ KeepTrace(r, "RiskDrift", row.id)
    /\ Advance(r)
    /\ UNCHANGED <<semVars, storeVars, inputVars, errors, chain, callVars, envVars,
                   pc, reply, stamp>>

\* A current_risk that a risk_drift follows goes on to write its snapshot at
\* once, so that the drift has a baseline to look up.
ToolSucceeds(r) ==
    /\ Running(r)
    /\ Tool(r) \in RiskTools \ {"risk_drift"}
    /\ KeepTrace(r, ExperimentOf(Tool(r)), NoId)
    /\ IF Tool(r) = "current_risk" /\ NextIsDrift(r)
       THEN /\ stamp' = [stamp EXCEPT ![r] = now]
            /\ UNCHANGED <<thread, step>>
       ELSE /\ Advance(r)
            /\ UNCHANGED stamp
    /\ UNCHANGED <<semVars, storeVars, inputVars, errors, chain, callVars, envVars,
                   pc, reply>>

ChainCommits(r) ==
    /\ thread[r] = "running"
    /\ stamp[r] # 0
    /\ Store!CommitRow(ChainId(r, step[r]), stamp[r], hash[r], "RiskDecomposition",
                       NoId, FALSE)
    /\ chain' = [chain EXCEPT ![r] = ChainId(r, step[r])]
    /\ stamp' = [stamp EXCEPT ![r] = 0]
    /\ Advance(r)
    /\ UNCHANGED <<semVars, inputVars, first, errors, callVars, envVars, pc, reply>>

\* Mutant of ChainInsertFails: the insert is tried again until it succeeds.
ChainInsertRetries(r) ==
    /\ thread[r] = "running"
    /\ stamp[r] # 0
    /\ stamp' = [stamp EXCEPT ![r] = 0]
    /\ UNCHANGED <<semVars, storeVars, inputVars, threadVars, callVars, envVars, pc, reply>>

\* Mutant of ChainInsertFails: the plan ends with it.
ChainInsertStops(r) ==
    /\ thread[r] = "running"
    /\ stamp[r] # 0
    /\ stamp' = [stamp EXCEPT ![r] = 0]
    /\ thread' = [thread EXCEPT ![r] = "returned"]
    /\ UNCHANGED <<semVars, storeVars, inputVars, step, first, errors, chain, callVars,
                   envVars, pc, reply>>

\* The mid-plan insert fails: the drift is left to find its own baseline.
ChainInsertFails(r) ==
    /\ thread[r] = "running"
    /\ stamp[r] # 0
    /\ stamp' = [stamp EXCEPT ![r] = 0]
    /\ Advance(r)
    /\ UNCHANGED <<semVars, storeVars, inputVars, first, errors, chain, callVars,
                   envVars, pc, reply>>

ToolPanics(r) ==
    /\ Running(r)
    /\ thread' = [thread EXCEPT ![r] = "panicked"]
    /\ UNCHANGED <<semVars, storeVars, inputVars, step, first, errors, chain, callVars,
                   envVars, pc, reply, stamp>>

----------------------------------------------------------------------------
(***************************************************************************)
(* The handler, once its thread has come back.                             *)
(***************************************************************************)

\* From<PipelineError>: a single compute failure keeps its own status, of which
\* "run a risk analysis first" (422) is told apart here.
ToolsErrorReply(r) == IF errors[r] = <<"no_prior">> THEN "no_baseline"
                                                    ELSE "tools_failed"

ToolsFailed(r) ==
    /\ pc[r] = "tools"
    /\ thread[r] = "returned"
    /\ first[r] = NoTrace
    /\ Close(r, ToolsErrorReply(r))
    /\ UNCHANGED <<storeVars, inputVars, threadVars, callVars, envVars, stamp>>

\* Mutant of ToolsPanicked: the pipeline waits for a result the thread was to send.
ToolsPanickedUnseen(r) ==
    /\ pc[r] = "tools"
    /\ thread[r] = "panicked"
    /\ kind[r] = "experiment"
    /\ Close(r, "internal")
    /\ UNCHANGED <<storeVars, inputVars, threadVars, callVars, envVars, stamp>>

\* The /experiment route turns a panic into a 500; the /ask pipeline unwraps the
\* join and panics with it, which drops the connection.
ToolsPanicked(r) ==
    /\ pc[r] = "tools"
    /\ thread[r] = "panicked"
    /\ Close(r, IF kind[r] = "ask" THEN "dropped" ELSE "internal")
    /\ UNCHANGED <<storeVars, inputVars, threadVars, callVars, envVars, stamp>>

ExperimentDone(r) ==
    /\ pc[r] = "tools"
    /\ kind[r] = "experiment"
    /\ thread[r] = "returned"
    /\ first[r] # NoTrace
    /\ Goto(r, "saving")
    /\ UNCHANGED <<semVars, storeVars, inputVars, threadVars, callVars, envVars,
                   reply, stamp>>

\* Mutant of StartCalls: the result is stored before it is narrated.
StartCallsStored(r) ==
    /\ pc[r] = "tools"
    /\ kind[r] = "ask"
    /\ thread[r] = "returned"
    /\ first[r] # NoTrace
    /\ Goto(r, "calling")
    /\ calls' = [calls EXCEPT ![r] = {"narration", "suggestion"}]
    /\ Store!CommitRow(ResultId(r), now, hash[r], first[r].type, first[r].parent, TRUE)
    /\ UNCHANGED <<semVars, inputVars, threadVars, failed, envVars, reply, stamp>>

\* tokio::join! of the grounded narration and the follow-up suggestion.
StartCalls(r) ==
    /\ pc[r] = "tools"
    /\ kind[r] = "ask"
    /\ thread[r] = "returned"
    /\ first[r] # NoTrace
    /\ Goto(r, "calling")
    /\ calls' = [calls EXCEPT ![r] = {"narration", "suggestion"}]
    /\ UNCHANGED <<semVars, storeVars, inputVars, threadVars, failed, envVars,
                   reply, stamp>>

CallReturns(r) ==
    /\ pc[r] = "calling"
    /\ \E c \in calls[r] : calls' = [calls EXCEPT ![r] = @ \ {c}]
    /\ \E ok \in BOOLEAN : failed' = [failed EXCEPT ![r] = @ \/ ~ok]
    /\ UNCHANGED <<semVars, storeVars, inputVars, threadVars, envVars, pc, reply, stamp>>

CallsFailed(r) ==
    /\ pc[r] = "calling"
    /\ calls[r] = {}
    /\ failed[r]
    /\ Close(r, "ai_unavailable")
    /\ UNCHANGED <<storeVars, inputVars, threadVars, callVars, envVars, stamp>>

CallsDone(r) ==
    /\ pc[r] = "calling"
    /\ calls[r] = {}
    /\ ~failed[r]
    /\ Goto(r, "saving")
    /\ UNCHANGED <<semVars, storeVars, inputVars, threadVars, callVars, envVars,
                   reply, stamp>>

----------------------------------------------------------------------------
(***************************************************************************)
(* Persisting and replying.  There is no await from here to the reply, so  *)
(* only a store error or the end of the process can come in between.  An   *)
(* /ask writes two tables, one statement each.                             *)
(***************************************************************************)
StampResult(r) ==
    /\ pc[r] = "saving"
    /\ Goto(r, "stamped")
    /\ stamp' = [stamp EXCEPT ![r] = now]
    /\ UNCHANGED <<semVars, storeVars, inputVars, threadVars, callVars, envVars, reply>>

SaveSnapshot(r) ==
    /\ pc[r] = "stamped"
    /\ Store!CommitRow(ResultId(r), stamp[r], hash[r], first[r].type, first[r].parent, TRUE)
    /\ stamp' = [stamp EXCEPT ![r] = 0]
    /\ Goto(r, IF kind[r] = "ask" THEN "saved" ELSE "replying")
    /\ UNCHANGED <<semVars, inputVars, threadVars, callVars, envVars, reply>>

SaveSnapshotFails(r) ==
    /\ pc[r] = "stamped"
    /\ stamp' = [stamp EXCEPT ![r] = 0]
    /\ Close(r, "store_error")
    /\ UNCHANGED <<storeVars, inputVars, threadVars, callVars, envVars>>

SaveTrace(r) ==
    /\ pc[r] = "saved"
    /\ Store!CommitTrace(r)
    /\ Goto(r, "replying")
    /\ UNCHANGED <<semVars, inputVars, threadVars, callVars, envVars, reply, stamp>>

\* Mutant of SaveTraceFails: the error is logged and the answer goes out.
SaveTraceFailsQuietly(r) ==
    /\ pc[r] = "saved"
    /\ Goto(r, "replying")
    /\ UNCHANGED <<semVars, storeVars, inputVars, threadVars, callVars, envVars,
                   reply, stamp>>

SaveTraceFails(r) ==
    /\ pc[r] = "saved"
    /\ Close(r, "store_error")
    /\ UNCHANGED <<storeVars, inputVars, threadVars, callVars, envVars, stamp>>

SendReply(r) ==
    /\ pc[r] = "replying"
    /\ Close(r, "ok")
    /\ UNCHANGED <<storeVars, inputVars, threadVars, callVars, envVars, stamp>>

----------------------------------------------------------------------------
(***************************************************************************)
(* The environment.                                                        *)
(***************************************************************************)
\* Mutant of AwaitPoints: the second insert is awaited on the blocking pool.
AwaitPointsOnSave == {"queued", "planning", "tools", "calling", "saved"}

AwaitPoints == {"queued", "planning", "tools", "calling"}

\* The client goes away while the handler awaits: the handler is dropped there.
\* Its thread, if it has one, runs on.
Disconnect(r) ==
    /\ pc[r] \in AwaitPoints
    /\ Close(r, "dropped")
    /\ UNCHANGED <<storeVars, inputVars, threadVars, callVars, envVars, stamp>>

ClockTicks ==
    /\ now < MaxTime
    /\ Store!Tick
    /\ UNCHANGED <<semVars, inputVars, threadVars, callVars, envVars, pc, reply, stamp>>

\* The process ends and a new one starts, on the same disk or on a new one.
Restart ==
    /\ restarts < MaxRestarts
    /\ restarts' = restarts + 1
    /\ \E kept \in BOOLEAN :
          /\ Store!Reopen(kept)
          /\ lost' = IF kept THEN lost ELSE {r \in Requests : pc[r] # "idle"}
    /\ Sem!Recreate
    /\ pc' = [r \in Requests |-> IF pc[r] = "idle" THEN "idle" ELSE "closed"]
    /\ reply' = [r \in Requests |-> IF pc[r] \in {"idle", "closed"}
                                    THEN reply[r] ELSE "dropped"]
    /\ thread' = [r \in Requests |-> IF thread[r] = "running" THEN "killed"
                                     ELSE thread[r]]
    /\ stamp' = [r \in Requests |-> 0]
    /\ UNCHANGED <<inputVars, step, first, errors, chain, callVars>>

----------------------------------------------------------------------------

ThreadStep(r) ==
    \/ ToolError(r) \/ DriftWithoutBaseline(r) \/ DriftWrongBaseline(r)
    \/ DriftSucceeds(r) \/ ToolSucceeds(r) \/ ChainCommits(r) \/ ChainInsertFails(r)
    \/ ToolPanics(r)

HandlerStep(r) ==
    \/ GetPermit(r) \/ QueueTimeout(r)
    \/ PlanReady(r) \/ PlanDeclined(r) \/ PlanFails(r)
    \/ ToolsFailed(r) \/ ToolsPanicked(r) \/ ExperimentDone(r)
    \/ StartCalls(r) \/ CallReturns(r) \/ CallsFailed(r) \/ CallsDone(r)
    \/ StampResult(r) \/ SaveSnapshot(r) \/ SaveSnapshotFails(r)
    \/ SaveTrace(r) \/ SaveTraceFails(r) \/ SendReply(r)

ClientStep(r) == RejectInput(r) \/ PostAsk(r) \/ PostExperiment(r) \/ Disconnect(r)

\* Every request came back and no thread is left behind: nothing more happens.
AllQuiet == /\ \A r \in Requests : pc[r] = "closed" /\ thread[r] # "running"
            /\ UNCHANGED vars

Next == \/ \E r \in Requests : ClientStep(r) \/ HandlerStep(r) \/ ThreadStep(r)
        \/ ClockTicks
        \/ Restart
        \/ AllQuiet

\* The runtime polls a woken task and the pool runs a spawned closure; Gemini
\* calls, downloads and the queue timer all end by themselves.  Nothing forces
\* a client, the clock or a restart.
Fairness == \A r \in Requests : WF_vars(HandlerStep(r)) /\ WF_vars(ThreadStep(r))

Spec == Init /\ [][Next]_vars
FairSpec == Spec /\ Fairness

----------------------------------------------------------------------------
(***************************************************************************)
(* What holds in every reachable state.                                    *)
(***************************************************************************)
Causes == {"compute", "unknown_tool", "no_prior", "other_portfolio", "not_decomposition"}
PersistPoints == {"saving", "stamped", "saved", "replying"}
InService == {"planning", "tools", "calling"} \cup PersistPoints
Places == {"idle", "queued", "closed"} \cup InService
Replies == {"none", "bad_request", "busy", "redirect", "ai_unavailable", "tools_failed",
            "no_baseline", "internal", "store_error", "dropped", "ok"}
TraceTypes == {NoTrace} \cup [type : ExperimentTypes, parent : Id \cup {NoId}]
Rows == [id : Id, at : Nat, rowid : Nat, hash : Portfolios, type : ExperimentTypes,
         parent : Id \cup {NoId}, full : BOOLEAN]

\* The variables stay in their types; what is narrated and persisted is the
\* trace of some tool; and a thread that returned has been through its whole
\* plan, whatever failed on the way, the mid-plan insert included.
TypeOK ==
    /\ Sem!SemTypeOK
    /\ rows \subseteq Rows
    /\ traces \subseteq Requests
    /\ nextRow \in Nat /\ now \in Nat \ {0}
    /\ kind \in [Requests -> {"none", "ask", "experiment"}]
    /\ pc \in [Requests -> Places]
    /\ reply \in [Requests -> Replies]
    /\ hash \in [Requests -> Portfolios]
    /\ plan \in [Requests -> Seq(ToolNames)]
    /\ base \in [Requests -> Seq(Id \cup {NoId, UnknownId})]
    /\ thread \in [Requests -> {"none", "running", "returned", "panicked", "killed"}]
    /\ step \in [Requests -> Nat \ {0}]
    /\ first \in [Requests -> TraceTypes]
    /\ errors \in [Requests -> Seq(Causes)]
    /\ chain \in [Requests -> Id \cup {NoId}]
    /\ stamp \in [Requests -> Nat]
    /\ calls \in [Requests -> SUBSET {"narration", "suggestion"}]
    /\ failed \in [Requests -> BOOLEAN]
    /\ lost \subseteq Requests
    /\ restarts \in Nat
    /\ \A r \in Requests : pc[r] \in {"calling"} \cup PersistPoints => first[r] # NoTrace
    /\ \A r \in Requests : thread[r] = "returned" => step[r] >= Len(plan[r])

\* GET /health reports capacity - available_permits as active_requests: the asks
\* a permit is assigned to.
ActiveRequests == Capacity - free
PermitsConserved == ActiveRequests = Cardinality(held)

\* A permit is held by exactly the /ask handlers past the queue, or is on its
\* way to one that still has to be polled; so every way out of post_ask, the
\* drop of the handler at any await included, gives it back, and health's
\* active_requests counts the asks being served.
PermitAccounting ==
    /\ PermitsConserved
    /\ \A r \in Requests : (kind[r] = "ask" /\ pc[r] \in InService) => r \in held
    /\ \A r \in held : kind[r] = "ask" /\ pc[r] \in InService \cup {"queued"}
    /\ \A r \in Requests : pc[r] = "queued" => r \in held \cup Sem!Waiting
    /\ \A r \in Sem!Waiting : kind[r] = "ask" /\ pc[r] = "queued"
    /\ Sem!SemInv

\* The rows of a request's own result.
ResultRows(r) == Store!ById(ResultId(r))

\* An ask that was answered can be looked up: its result under result_id, for
\* the portfolio that was asked about, and its execution trace; unless the disk
\* it was written to was replaced since.
AnsweredDurable ==
    \A r \in Requests \ lost :
       reply[r] = "ok" => /\ \E row \in ResultRows(r) : row.full /\ row.hash = hash[r]
                          /\ kind[r] = "ask" => r \in traces

\* The two inserts of an ask are not one transaction, but the client cannot come
\* between them: an ask whose result is stored without its execution trace is
\* about to write it, was told of a store error, or was cut by a restart.  A
\* trace is never stored without its result.
StoredTogether ==
    /\ \A r \in Requests :
          (kind[r] = "ask" /\ ResultRows(r) # {} /\ r \notin traces) =>
             \/ pc[r] = "saved"
             \/ reply[r] = "store_error"
             \/ reply[r] = "dropped" /\ restarts > 0
    /\ \A r \in traces : kind[r] = "ask" /\ ResultRows(r) # {}

\* A request that was told it failed, or was redirected, left no result behind;
\* and one that was turned away before a tool ran left nothing at all.
FailedLeavesNothing ==
    \A r \in Requests :
       /\ reply[r] \in Replies \ {"none", "ok", "store_error", "dropped"} =>
             ResultRows(r) = {} /\ r \notin traces
       /\ reply[r] \in {"bad_request", "busy", "redirect"} =>
             \A row \in rows : row.id[1] # r

\* Every stored risk_drift compares against a risk decomposition of the same
\* portfolio that was stored before it and is still there, whoever wrote it:
\* the same request mid-plan, another request, a thread whose client is gone.
DriftParentOK ==
    \A row \in rows : row.type = "RiskDrift" =>
       \E p \in Store!ById(row.parent) : /\ p.hash = row.hash
                                         /\ p.type = "RiskDecomposition"
                                         /\ p.rowid < row.rowid
                                         /\ p.at <= row.at

----------------------------------------------------------------------------
(***************************************************************************)
(* What a step may do.                                                     *)
(***************************************************************************)
BaselineCauses == {"no_prior", "other_portfolio", "not_decomposition"}

\* The tool r's thread is at fails in this step, for one of the causes.
FailsFor(r, causes) == /\ Len(errors'[r]) > Len(errors[r])
                       /\ errors'[r][Len(errors'[r])] \in causes

\* A risk_drift behind a current_risk that was chained never fails for want of
\* a baseline, whatever other requests store for that portfolio meanwhile.
ChainedDriftHasBaseline ==
    [][\A r \in Requests :
          (Running(r) /\ chain[r] # NoId /\ base[r][step[r]] = NoId)
             => ~FailsFor(r, BaselineCauses)]_vars

\* The asks implement the contract: a request is served while the semaphore has
\* a permit assigned to it, and recorded when both of its records are stored.
AskStatus(r) ==
    IF kind[r] # "ask" THEN "new"
    ELSE IF r \in held THEN "serving"
    ELSE IF r \in Sem!Waiting THEN "waiting"
    ELSE IF reply[r] = "bad_request" THEN "rejected"
    ELSE IF reply[r] = "busy" THEN "refused"
    ELSE IF reply[r] = "ok" THEN "answered"
    ELSE "failed"

Contract == INSTANCE AskContract
    WITH status <- [r \in Requests |-> AskStatus(r)],
         recorded <- {r \in traces : ResultRows(r) # {}}

ImplementsContract == Contract!ContractSpec

----------------------------------------------------------------------------
(***************************************************************************)
(* What must happen.                                                       *)
(***************************************************************************)

\* Every request that arrived comes to an end, so no permit stays out for good.
EveryRequestEnds == \A r \in Requests : pc[r] # "idle" ~> pc[r] = "closed"

\* Every blocking thread stops, that of a dropped handler too.
EveryThreadStops == \A r \in Requests : thread[r] = "running" ~> thread[r] # "running"

----------------------------------------------------------------------------
(***************************************************************************)
(* What the documentation says and the code does not keep.                 *)
(***************************************************************************)

\* routes.rs:49: the semaphore "bounds concurrent POST /ask requests (each fans
\* out to several Gemini calls plus a CPU-heavy compute step)": no more compute
\* steps of asks run at a time than there are permits.
ComputeBounded ==
    Cardinality({r \in Requests : kind[r] = "ask" /\ thread[r] = "running"}) <= Capacity

\* drift.rs:321: "a single prior RiskDecomposition snapshot must be usable
\* immediately as a baseline for the very next RiskDrift call": a drift that
\* names no baseline finds one once its portfolio has a decomposition and no
\* drift was stored yet.
FirstDriftHasBaseline ==
    [][\A r \in Requests :
          (/\ Running(r)
           /\ BaselineId(r) = NoId
           /\ \E row \in Store!RowsOf(hash[r]) : row.type = "RiskDecomposition"
           /\ \A row \in Store!RowsOf(hash[r]) : row.type # "RiskDrift")
             => ~FailsFor(r, BaselineCauses)]_vars

=============================================================================
