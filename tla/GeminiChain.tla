------------------------------ MODULE GeminiChain ------------------------------
(***************************************************************************)
(* The Gemini calls of one POST /ask (agent::pipeline::run): the planning  *)
(* call, then the tools, then the narration with its rewrites beside the   *)
(* suggestion, joined.                                                     *)
(*                                                                         *)
(* The three lines of calls are legs.  A call is a series of requests with *)
(* doubling waits between them (gemini::HttpGeminiClient::generate); the   *)
(* narration leg makes another call while its text contradicts the traces  *)
(* (grounding::grounded_narrate_many_with).  Every leg counts its own      *)
(* seconds; the two joined legs run in parallel.                           *)
(***************************************************************************)
EXTENDS Naturals, FiniteSets

CONSTANTS MaxRetries,       \* gemini.rs MAX_RETRIES
          BackoffBase,      \* DEFAULT_BACKOFF_BASE, in seconds
          RequestTimeout,   \* REQUEST_TIMEOUT, in seconds
          Durations,        \* the seconds a request may take
          MaxRewrites,      \* grounding.rs MAX_RETRIES
          GatewayLimit      \* Cloud Run's timeoutSeconds

ASSUME LimitsAssumption == /\ MaxRetries \in Nat
                           /\ MaxRewrites \in Nat
                           /\ BackoffBase \in Nat
                           /\ RequestTimeout \in Nat
                           /\ GatewayLimit \in Nat
ASSUME DurationsAssumption == Durations \subseteq 0..RequestTimeout

Legs == {"plan", "narration", "suggestion"}
Joined == {"narration", "suggestion"}

\* What a narration can get wrong: a number that is in no trace, a direction a
\* trace contradicts, or advice and entities the traces do not call for.
Flaws == {"number", "direction", "advice"}
\* The flaws the user is warned of (grounding_warnings).
Warned == {"number", "direction"}

VARIABLES
    phase,      \* where the ask is
    leg,        \* what a leg is doing
    retries,    \* the retries of its current call
    spent,      \* the seconds its calls took so far
    begun,      \* spent when its current call began
    calls,      \* the generate calls made, on all legs
    rewrites,   \* the narration's retry_count
    flaws,      \* the flaws of the latest narration
    warnings,   \* the warnings that went out with the answer
    counted     \* the execution trace's gemini_calls

vars == <<phase, leg, retries, spent, begun, calls, rewrites, flaws, warnings, counted>>
answerVars == <<warnings, counted>>

Init == /\ phase = "planning"
        /\ leg = [l \in Legs |-> IF l = "plan" THEN "sending" ELSE "idle"]
        /\ retries = [l \in Legs |-> 0]
        /\ spent = [l \in Legs |-> 0]
        /\ begun = [l \in Legs |-> 0]
        /\ calls = 1
        /\ rewrites = 0
        /\ flaws = {}
        /\ warnings = {}
        /\ counted = 0

----------------------------------------------------------------------------
(***************************************************************************)
(* One call.                                                               *)
(***************************************************************************)
\* Mutant of Backoff: the exponent is not lessened by one.
BackoffDoubled(retry) == BackoffBase * 2^retry

Backoff(retry) == BackoffBase * 2^(retry - 1)

Takes(l, seconds) == spent' = [spent EXCEPT ![l] = @ + seconds]

Becomes(l, what) == leg' = [leg EXCEPT ![l] = what]

\* 200 and a body that parses.
Responds(l) ==
    /\ leg[l] = "sending"
    /\ Becomes(l, "responded")
    /\ \E d \in Durations : Takes(l, d)
    /\ UNCHANGED <<phase, retries, begun, calls, rewrites, flaws, answerVars>>

\* A status that is not retried, or a 200 whose body is not the expected JSON.
Refused(l) ==
    /\ leg[l] = "sending"
    /\ Becomes(l, "error")
    /\ \E d \in Durations : Takes(l, d)
    /\ UNCHANGED <<phase, retries, begun, calls, rewrites, flaws, answerVars>>

\* 429, 500, 503, a transport error, a timeout, or a body that broke off.
RetryLater(l) ==
    /\ leg[l] = "sending"
    /\ retries[l] < MaxRetries
    /\ retries' = [retries EXCEPT ![l] = @ + 1]
    /\ Becomes(l, "waiting")
    /\ \E d \in Durations : Takes(l, d)
    /\ UNCHANGED <<phase, begun, calls, rewrites, flaws, answerVars>>

Unavailable(l) ==
    /\ leg[l] = "sending"
    /\ retries[l] >= MaxRetries
    /\ Becomes(l, "error")
    /\ \E d \in Durations : Takes(l, d)
    /\ UNCHANGED <<phase, retries, begun, calls, rewrites, flaws, answerVars>>

SendAgain(l) ==
    /\ leg[l] = "waiting"
    /\ Becomes(l, "sending")
    /\ Takes(l, Backoff(retries[l]))
    /\ UNCHANGED <<phase, retries, begun, calls, rewrites, flaws, answerVars>>

----------------------------------------------------------------------------
(***************************************************************************)
(* Planning and the tools.                                                 *)
(***************************************************************************)

\* Whatever text came back, or none, there is a plan: the fallback if need be.
Planned ==
    /\ phase = "planning"
    /\ leg["plan"] = "responded"
    /\ phase' = "tools"
    /\ Becomes("plan", "done")
    /\ UNCHANGED <<retries, spent, begun, calls, rewrites, flaws, answerVars>>

Declined ==
    /\ phase = "planning"
    /\ leg["plan"] = "responded"
    /\ phase' = "redirected"
    /\ Becomes("plan", "done")
    /\ UNCHANGED <<retries, spent, begun, calls, rewrites, flaws, answerVars>>

PlanFailed ==
    /\ phase = "planning"
    /\ leg["plan"] = "error"
    /\ phase' = "failed"
    /\ UNCHANGED <<leg, retries, spent, begun, calls, rewrites, flaws, answerVars>>

\* Every tool failed, or the thread panicked.
ToolsFailed ==
    /\ phase = "tools"
    /\ phase' = "failed"
    /\ UNCHANGED <<leg, retries, spent, begun, calls, rewrites, flaws, answerVars>>

ToolsDone ==
    /\ phase = "tools"
    /\ phase' = "calling"
    /\ leg' = [l \in Legs |-> IF l \in Joined THEN "sending" ELSE leg[l]]
    /\ calls' = calls + 2
    /\ UNCHANGED <<retries, spent, begun, rewrites, flaws, answerVars>>

----------------------------------------------------------------------------
(***************************************************************************)
(* Narration and suggestion.                                               *)
(***************************************************************************)

\* A response without a candidate or without text.
NoText(l) ==
    /\ l \in Joined
    /\ leg[l] = "responded"
    /\ Becomes(l, "error")
    /\ UNCHANGED <<phase, retries, spent, begun, calls, rewrites, flaws, answerVars>>

Suggested ==
    /\ leg["suggestion"] = "responded"
    /\ Becomes("suggestion", "done")
    /\ UNCHANGED <<phase, retries, spent, begun, calls, rewrites, flaws, answerVars>>

Rewritable(found) == found # {} /\ rewrites < MaxRewrites

\* The checks find fault and a rewrite is left: another call.
Rewrite ==
    /\ leg["narration"] = "responded"
    /\ flaws' \in SUBSET Flaws
    /\ Rewritable(flaws')
    /\ Becomes("narration", "sending")
    /\ rewrites' = rewrites + 1
    /\ calls' = calls + 1
    /\ retries' = [retries EXCEPT !["narration"] = 0]
    /\ begun' = [begun EXCEPT !["narration"] = spent["narration"]]
    /\ UNCHANGED <<phase, spent, answerVars>>

\* Mutant of Narrated: directions are not looked at once the numbers are right.
NarratedByNumbers ==
    /\ leg["narration"] = "responded"
    /\ flaws' \in SUBSET Flaws
    /\ "number" \notin flaws' \/ ~Rewritable(flaws')
    /\ Becomes("narration", "done")
    /\ UNCHANGED <<phase, retries, spent, begun, calls, rewrites, answerVars>>

Narrated ==
    /\ leg["narration"] = "responded"
    /\ flaws' \in SUBSET Flaws
    /\ ~Rewritable(flaws')
    /\ Becomes("narration", "done")
    /\ UNCHANGED <<phase, retries, spent, begun, calls, rewrites, answerVars>>

Ended(l) == leg[l] \in {"done", "error"}

\* Mutants of JoinFailed: the join ends with the first error (try_join!); only
\* the error of both is an error.
JoinFailedEarly ==
    /\ phase = "calling"
    /\ \E l \in Joined : leg[l] = "error"
    /\ phase' = "failed"
    /\ UNCHANGED <<leg, retries, spent, begun, calls, rewrites, flaws, answerVars>>

JoinFailedBoth ==
    /\ phase = "calling"
    /\ \A l \in Joined : leg[l] = "error"
    /\ phase' = "failed"
    /\ UNCHANGED <<leg, retries, spent, begun, calls, rewrites, flaws, answerVars>>

\* tokio::join! has both, then narration_result? and suggestion_result?.
JoinFailed ==
    /\ phase = "calling"
    /\ \A l \in Joined : Ended(l)
    /\ \E l \in Joined : leg[l] = "error"
    /\ phase' = "failed"
    /\ UNCHANGED <<leg, retries, spent, begun, calls, rewrites, flaws, answerVars>>

\* The sum pipeline::run makes: one plan, the narration with its rewrites, one
\* suggestion.  The mutant forgets the rewrites.
GeminiCallsBut == 1 + 1 + 1
GeminiCalls == 1 + (1 + rewrites) + 1

Answer ==
    /\ phase = "calling"
    /\ \A l \in Joined : leg[l] = "done"
    /\ phase' = "answered"
    /\ warnings' = flaws \cap Warned
    /\ counted' = GeminiCalls
    /\ UNCHANGED <<leg, retries, spent, begun, calls, rewrites, flaws>>

----------------------------------------------------------------------------
Over == phase \in {"answered", "failed", "redirected"}

Idle == Over /\ UNCHANGED vars

LegStep(l) == \/ Responds(l) \/ Refused(l) \/ RetryLater(l) \/ Unavailable(l)
              \/ SendAgain(l) \/ NoText(l)

ChainStep == \/ Planned \/ Declined \/ PlanFailed \/ ToolsFailed \/ ToolsDone
             \/ Suggested \/ Rewrite \/ Narrated \/ JoinFailed \/ Answer

Next == (\E l \in Legs : LegStep(l)) \/ ChainStep \/ Idle

\* Every request ends by its own timeout, every wait by its timer, and the
\* handler is polled when one of its legs is ready.
Fairness == WF_vars(ChainStep) /\ \A l \in Legs : WF_vars(LegStep(l))

Spec == Init /\ [][Next]_vars
FairSpec == Spec /\ Fairness

----------------------------------------------------------------------------
\* gemini.rs:29: the request timeout "keeps one call's worst case (6 x 30s plus
\* 62s of backoff) inside Cloud Run's 300s request limit".
CallFitsLimit == \A l \in Legs : spent[l] - begun[l] <= GatewayLimit

\* A flaw reaches the user only after every rewrite was used up, and then with a
\* warning, unless it is a slip of advice; the counter in the execution trace is
\* the number of calls that were made.
AnswerIsChecked ==
    phase = "answered" =>
        /\ flaws # {} => rewrites = MaxRewrites
        /\ warnings = {} => flaws \subseteq {"advice"}
        /\ counted = calls

\* The handler never leaves while a call of its ask is under way, so the permit
\* it holds covers every request to Gemini (but for a client that disconnects).
NothingInFlight == Over => \A l \in Legs : leg[l] \notin {"sending", "waiting"}

\* The chain comes to an end, however often requests fail and texts are refused.
ChainEnds == <>Over

=============================================================================
