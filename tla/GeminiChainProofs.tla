--------------------------- MODULE GeminiChainProofs ---------------------------
(***************************************************************************)
(* What holds of the Gemini calls of an ask for any number of retries and  *)
(* of rewrites and however long requests take.                             *)
(***************************************************************************)
EXTENDS GeminiChain, TotalProofs

LegStates == {"idle", "sending", "waiting", "responded", "error", "done"}

TypeOK ==
    /\ phase \in {"planning", "tools", "calling", "answered", "failed", "redirected"}
    /\ leg \in [Legs -> LegStates]
    /\ calls \in Nat
    /\ rewrites \in Nat
    /\ flaws \subseteq Flaws

\* Where the legs are, given where the ask is.
LegsOK ==
    /\ phase \in {"planning", "tools"} => \A l \in Joined : leg[l] = "idle"
    /\ phase # "planning" => leg["plan"] \in {"done", "error"}
    /\ phase = "answered" => \A l \in Joined : leg[l] = "done"
    /\ Over => \A l \in Joined : leg[l] \in {"idle", "done", "error"}

\* The calls counted one by one are those the sum counts.
CallsOK ==
    /\ phase \in {"planning", "tools"} => calls = 1 /\ rewrites = 0
    /\ phase \in {"calling", "answered"} => calls = GeminiCalls

\* A narration is let through sound, or as the last one there is.
NarrationOK ==
    /\ rewrites <= MaxRewrites
    /\ leg["narration"] = "done" /\ flaws # {} => rewrites = MaxRewrites

AnswerOK == phase = "answered" => warnings = flaws \cap Warned /\ counted = calls

ChainInv == TypeOK /\ LegsOK /\ CallsOK /\ NarrationOK /\ AnswerOK

USE DEF Joined, Over, LegStates, Flaws, GeminiCalls

LEMMA ChainInit == Init => ChainInv
BY LimitsAssumption
   DEF Init, ChainInv, TypeOK, LegsOK, CallsOK, NarrationOK, AnswerOK, Legs

\* A step of one leg within its call: an idle or ended leg stays as it is, and
\* none ends its narration.
LEMMA LegStepOK ==
  ASSUME ChainInv, NEW l \in Legs, LegStep(l)
  PROVE  ChainInv'
<1>1. PICK to \in {"sending", "waiting", "responded", "error"} :
           /\ leg[l] \in {"sending", "waiting", "responded"}
           /\ leg' = [leg EXCEPT ![l] = to]
           /\ l = "plan" => leg[l] # "responded"
  BY DEF LegStep, Responds, Refused, RetryLater, Unavailable, SendAgain, NoText, Becomes
<1>2. UNCHANGED <<phase, calls, rewrites, flaws, answerVars>>
  BY DEF LegStep, Responds, Refused, RetryLater, Unavailable, SendAgain, NoText
<1>3. TypeOK'
  BY <1>1, <1>2 DEF ChainInv, TypeOK
<1>4. LegsOK'
  <2>1. phase = "planning" \/ l # "plan"
    BY <1>1 DEF ChainInv, LegsOK
  <2>2. l # "plan" => phase = "calling"
    BY <1>1 DEF ChainInv, LegsOK, TypeOK, Legs
  <2> QED
    BY <1>1, <1>2, <2>1, <2>2 DEF ChainInv, LegsOK, TypeOK, Legs
<1>5. CallsOK' /\ NarrationOK' /\ AnswerOK'
  BY <1>1, <1>2 DEF ChainInv, CallsOK, NarrationOK, AnswerOK, TypeOK, answerVars, Legs
<1> QED
  BY <1>3, <1>4, <1>5 DEF ChainInv

LEMMA ChainStepOK ==
  ASSUME ChainInv, ChainStep
  PROVE  ChainInv'
<1> USE LimitsAssumption DEF ChainInv, TypeOK, LegsOK, CallsOK, NarrationOK, AnswerOK,
        Becomes, answerVars, Legs
<1>1. CASE Planned \/ Declined
  BY <1>1 DEF Planned, Declined
<1>2. CASE PlanFailed \/ ToolsFailed
  BY <1>2 DEF PlanFailed, ToolsFailed
<1>3. CASE ToolsDone
  BY <1>3 DEF ToolsDone
<1>4. CASE Suggested
  BY <1>4 DEF Suggested
<1>5. CASE Rewrite
  <2>1. phase = "calling"
    BY <1>5 DEF Rewrite
  <2> QED
    BY <1>5, <2>1 DEF Rewrite, Rewritable
<1>6. CASE Narrated
  <2>1. phase = "calling"
    BY <1>6 DEF Narrated
  <2> QED
    BY <1>6, <2>1 DEF Narrated, Rewritable
<1>7. CASE JoinFailed
  BY <1>7 DEF JoinFailed, Ended
<1>8. CASE Answer
  BY <1>8 DEF Answer
<1> QED
  BY <1>1, <1>2, <1>3, <1>4, <1>5, <1>6, <1>7, <1>8 DEF ChainStep

LEMMA ChainInvariant == Spec => []ChainInv
<1>1. ChainInv /\ [Next]_vars => ChainInv'
  <2> SUFFICES ASSUME ChainInv, [Next]_vars PROVE ChainInv'
    OBVIOUS
  <2>1. CASE UNCHANGED vars
    BY <2>1 DEF vars, answerVars, ChainInv, TypeOK, LegsOK, CallsOK, NarrationOK, AnswerOK
  <2> QED
    BY <2>1, LegStepOK, ChainStepOK DEF Next, Idle
<1> QED
  BY <1>1, ChainInit, PTL DEF Spec

\* A flaw reaches the user only as the last rewrite's, and with its warning; the
\* calls reported are those that were made (grounding.rs,
\* grounded_narrate_many_with; pipeline.rs, gemini_calls).
THEOREM AnswersChecked == Spec => []AnswerIsChecked
<1>1. ChainInv => AnswerIsChecked
  BY DEF ChainInv, TypeOK, LegsOK, CallsOK, NarrationOK, AnswerOK, AnswerIsChecked, Warned
<1> QED
  BY <1>1, ChainInvariant, PTL

\* However an ask ends, no call of its legs is left under way (pipeline.rs,
\* tokio::join! rather than try_join!).
THEOREM NoneInFlight == Spec => []NothingInFlight
<1>1. ChainInv => NothingInFlight
  BY DEF ChainInv, TypeOK, LegsOK, NothingInFlight, Legs
<1> QED
  BY <1>1, ChainInvariant, PTL

----------------------------------------------------------------------------
(***************************************************************************)
(* The seconds of one call.                                                *)
(***************************************************************************)
\* The waits before the first n retries.
Waits(n) == BackoffBase * (2^n - 1)

\* Every request of a call timed out, and every wait between them.
WorstCase == (MaxRetries + 1) * RequestTimeout + Waits(MaxRetries)

TimeType == /\ leg \in [Legs -> LegStates]
            /\ retries \in [Legs -> Nat]
            /\ spent \in [Legs -> Nat]
            /\ begun \in [Legs -> Nat]

Took(l) == spent[l] - begun[l]

\* What a call has taken, given the requests and the waits it has had.
CallTime(l) ==
    /\ retries[l] <= MaxRetries
    /\ leg[l] = "idle" => retries[l] = 0 /\ spent[l] = begun[l]
    /\ leg[l] = "sending" => Took(l) <= retries[l] * RequestTimeout + Waits(retries[l])
    /\ leg[l] = "waiting" =>
           /\ retries[l] # 0
           /\ Took(l) <= retries[l] * RequestTimeout + Waits(retries[l] - 1)
    /\ Took(l) <= (retries[l] + 1) * RequestTimeout + Waits(retries[l])

TimeInv == TimeType /\ \A l \in Legs : CallTime(l)

LEMMA WaitsNat ==
  ASSUME NEW n \in Nat
  PROVE  /\ Waits(n) \in Nat
         /\ Waits(0) = 0
         /\ n # 0 => Waits(n) = Waits(n - 1) + Backoff(n)
<1>1. \A m \in Nat : 2^m \in Nat
  BY PowerNat
<1>2. 2^0 = 1
  BY SMT
<1>3. 2^0 <= 2^n
  <2>1. 0 \in Nat /\ 0 <= n
    OBVIOUS
  <2> QED
    BY <2>1, PowerGrows, Zenon
<1>4. \A b, p \in Nat : p >= 1 => b * (p - 1) \in Nat
  BY SMT
<1>5. Waits(n) \in Nat
  BY <1>1, <1>2, <1>3, <1>4, LimitsAssumption DEF Waits
<1>6. Waits(0) = 0
  BY <1>2, LimitsAssumption DEF Waits
<1>7. ASSUME n # 0
      PROVE  Waits(n) = Waits(n - 1) + Backoff(n)
  <2>1. PICK k \in Nat : n = k + 1
    BY <1>7
  <2>2. 2^n = 2 * 2^k
    BY <2>1, PowerNext
  <2>3. \A b, p \in Nat : b * (2 * p - 1) = b * (p - 1) + b * p
    BY SMT
  <2>4. n - 1 = k
    BY <2>1
  <2> QED
    BY <1>1, <2>2, <2>3, <2>4, LimitsAssumption DEF Waits, Backoff
<1> QED
  BY <1>5, <1>6, <1>7

LEMMA WorstIsWorst ==
  ASSUME NEW n \in Nat, n <= MaxRetries
  PROVE  (n + 1) * RequestTimeout + Waits(n) <= WorstCase
<1>1. \A a, b, t \in Nat : a <= b => (a + 1) * t <= (b + 1) * t
  BY SMT
<1>2. (n + 1) * RequestTimeout <= (MaxRetries + 1) * RequestTimeout
  BY <1>1, LimitsAssumption
<1>3. \A b, p, q \in Nat : p <= q => b * (p - 1) <= b * (q - 1)
  BY SMT
<1>4. 2^n \in Nat /\ 2^MaxRetries \in Nat /\ 2^n <= 2^MaxRetries
  BY PowerNat, PowerGrows, LimitsAssumption
<1>5. Waits(n) <= Waits(MaxRetries)
  BY <1>3, <1>4, LimitsAssumption DEF Waits
<1>6. Waits(n) \in Nat /\ Waits(MaxRetries) \in Nat
  BY WaitsNat, LimitsAssumption
<1>7. (n + 1) * RequestTimeout \in Nat /\ (MaxRetries + 1) * RequestTimeout \in Nat
  BY LimitsAssumption
<1> QED
  BY <1>2, <1>5, <1>6, <1>7 DEF WorstCase

LEMMA TimeInit == Init => TimeInv
<1> SUFFICES ASSUME Init PROVE TimeInv
  OBVIOUS
<1>1. TimeType
  BY DEF Init, TimeType, Legs
<1>2. ASSUME NEW l \in Legs
      PROVE  CallTime(l)
  <2>1. /\ retries[l] = 0
        /\ Took(l) = 0
        /\ leg[l] \in {"idle", "sending"}
    BY <1>2 DEF Init, Took, Legs
  <2> QED
    BY <2>1, WaitsNat, LimitsAssumption, Took(l) = 0 DEF CallTime, Init
<1> QED
  BY <1>1, <1>2 DEF TimeInv

\* A leg nothing happens to keeps its call's time.
LEMMA CallTimeStays ==
  ASSUME NEW l \in Legs, CallTime(l),
         leg'[l] = leg[l], retries'[l] = retries[l], spent'[l] = spent[l], begun'[l] = begun[l]
  PROVE  CallTime(l)'
BY DEF CallTime, Took

LEMMA LegStepTimed ==
  ASSUME TimeInv, NEW l \in Legs, LegStep(l)
  PROVE  TimeInv'
<1> DEFINE r == retries[l]
           R == RequestTimeout
<1>1. /\ TimeType
      /\ CallTime(l)
      /\ r \in Nat /\ R \in Nat /\ MaxRetries \in Nat
      /\ spent[l] \in Nat /\ begun[l] \in Nat
  BY LimitsAssumption DEF TimeInv, TimeType
<1>2. /\ Waits(r) \in Nat
      /\ r # 0 => Waits(r) = Waits(r - 1) + Backoff(r) /\ Waits(r - 1) \in Nat
  <2>1. r # 0 => r - 1 \in Nat
    BY <1>1
  <2> QED
    BY <1>1, <2>1, WaitsNat
<1>3. r # 0 => Backoff(r) \in Nat
  <2>1. r # 0 => r - 1 \in Nat
    BY <1>1
  <2>2. r # 0 => 2^(r - 1) \in Nat
    BY <2>1, PowerNat
  <2>3. \A b, p \in Nat : b * p \in Nat
    BY SMT
  <2> QED
    BY <2>2, <2>3, LimitsAssumption DEF Backoff
<1>4. \A n \in Nat : n * R \in Nat /\ (n + 1) * R = n * R + R
  BY <1>1, SMT
<1>5. \A d \in Durations : d \in Nat /\ d <= R
  BY LimitsAssumption, DurationsAssumption
<1>6. ASSUME NEW k \in Legs, k # l
      PROVE  CallTime(k)'
  <2>1. CallTime(k)
    BY DEF TimeInv
  <2>2. /\ leg'[k] = leg[k] /\ retries'[k] = retries[k]
        /\ spent'[k] = spent[k] /\ begun'[k] = begun[k]
    BY <1>1, <1>6 DEF LegStep, Responds, Refused, RetryLater, Unavailable, SendAgain, NoText,
                      Becomes, Takes, TimeType
  <2> QED
    BY <2>1, <2>2, CallTimeStays
<1>7. CASE Responds(l) \/ Refused(l) \/ Unavailable(l)
  <2>1. PICK d \in Durations : spent' = [spent EXCEPT ![l] = @ + d]
    BY <1>7 DEF Responds, Refused, Unavailable, Takes
  <2>2. PICK to \in {"responded", "error"} : leg' = [leg EXCEPT ![l] = to]
    BY <1>7 DEF Responds, Refused, Unavailable, Becomes
  <2>3. UNCHANGED <<retries, begun>> /\ leg[l] = "sending"
    BY <1>7 DEF Responds, Refused, Unavailable
  <2>4. TimeType'
    BY <1>1, <1>5, <2>1, <2>2, <2>3 DEF TimeType
  <2>5. Took(l)' = Took(l) + d /\ Took(l) \in Int
    BY <1>1, <1>5, <2>1, <2>3 DEF Took, TimeType
  <2>6. Took(l) <= r * R + Waits(r)
    BY <1>1, <2>3 DEF CallTime
  <2>7. Took(l)' <= (r + 1) * R + Waits(r)
    <3> HIDE DEF r, R
    <3> QED
      BY <1>1, <1>2, <1>4, <1>5, <2>5, <2>6
  <2>8. CallTime(l)'
    BY <1>1, <2>2, <2>3, <2>7 DEF CallTime, TimeType
  <2> QED
    BY <1>6, <2>4, <2>8 DEF TimeInv
<1>8. CASE RetryLater(l)
  <2>1. PICK d \in Durations : spent' = [spent EXCEPT ![l] = @ + d]
    BY <1>8 DEF RetryLater, Takes
  <2>2. /\ leg[l] = "sending"
        /\ leg' = [leg EXCEPT ![l] = "waiting"]
        /\ r < MaxRetries
        /\ retries' = [retries EXCEPT ![l] = @ + 1]
        /\ UNCHANGED begun
    BY <1>8 DEF RetryLater, Becomes
  <2>3. TimeType'
    BY <1>1, <1>5, <2>1, <2>2 DEF TimeType
  <2>4. Took(l)' = Took(l) + d /\ Took(l) \in Int
    BY <1>1, <1>5, <2>1, <2>2 DEF Took, TimeType
  <2>5. Took(l) <= r * R + Waits(r)
    BY <1>1, <2>2 DEF CallTime
  <2>6. retries'[l] = r + 1 /\ leg'[l] = "waiting"
    BY <1>1, <2>2 DEF TimeType
  <2>7. /\ Waits(r + 1) \in Nat
        /\ Waits(r) <= Waits(r + 1)
    <3>1. r + 1 \in Nat /\ r + 1 # 0 /\ (r + 1) - 1 = r
      BY <1>1
    <3>2. Waits(r + 1) = Waits(r) + Backoff(r + 1) /\ Waits(r + 1) \in Nat
      BY <3>1, WaitsNat
    <3>3. 2^r \in Nat
      BY <1>1, PowerNat
    <3>4. \A b, p \in Nat : b * p \in Nat
      BY SMT
    <3>5. Backoff(r + 1) \in Nat
      BY <3>1, <3>3, <3>4, LimitsAssumption DEF Backoff
    <3> QED
      BY <1>2, <3>2, <3>5
  <2>8. Took(l)' <= (r + 1) * R + Waits(r)
    <3> HIDE DEF r, R
    <3> QED
      BY <1>1, <1>2, <1>4, <1>5, <2>4, <2>5
  <2>9. Took(l)' <= (r + 2) * R + Waits(r + 1)
    <3> HIDE DEF r, R
    <3>1. (r + 2) * R = (r + 1) * R + R /\ (r + 1) * R \in Nat
      BY <1>1, <1>4
    <3>2. Took(l)' \in Int
      BY <1>5, <2>4
    <3> QED
      BY <1>1, <1>2, <2>7, <2>8, <3>1, <3>2
  <2>10. CallTime(l)'
    <3>1. (r + 1) - 1 = r /\ (r + 1) + 1 = r + 2 /\ r + 1 <= MaxRetries /\ r + 1 # 0
      BY <1>1, <2>2
    <3> HIDE DEF r
    <3> QED
      BY <2>6, <2>8, <2>9, <3>1 DEF CallTime
  <2> QED
    BY <1>6, <2>3, <2>10 DEF TimeInv
<1>9. CASE SendAgain(l)
  <2>1. /\ leg[l] = "waiting"
        /\ leg' = [leg EXCEPT ![l] = "sending"]
        /\ spent' = [spent EXCEPT ![l] = @ + Backoff(r)]
        /\ UNCHANGED <<retries, begun>>
    BY <1>9 DEF SendAgain, Becomes, Takes
  <2>2. r # 0 /\ Took(l) <= r * R + Waits(r - 1)
    BY <1>1, <2>1 DEF CallTime
  <2>3. Backoff(r) \in Nat /\ Waits(r) = Waits(r - 1) + Backoff(r) /\ Waits(r - 1) \in Nat
    BY <1>2, <1>3, <2>2
  <2>4. TimeType'
    BY <1>1, <2>1, <2>3 DEF TimeType
  <2>5. Took(l)' = Took(l) + Backoff(r) /\ Took(l) \in Int
    BY <1>1, <2>1, <2>3 DEF Took, TimeType
  <2>6. Took(l)' <= r * R + Waits(r)
    <3> HIDE DEF r, R
    <3> QED
      BY <1>1, <1>4, <2>2, <2>3, <2>5
  <2>7. Took(l)' <= (r + 1) * R + Waits(r)
    <3> HIDE DEF r, R
    <3> QED
      BY <1>1, <1>2, <1>4, <2>3, <2>5, <2>6
  <2>8. CallTime(l)'
    BY <1>1, <2>1, <2>6, <2>7 DEF CallTime, TimeType
  <2> QED
    BY <1>6, <2>4, <2>8 DEF TimeInv
<1>10. CASE NoText(l)
  <2>1. /\ leg' = [leg EXCEPT ![l] = "error"]
        /\ UNCHANGED <<retries, spent, begun>>
    BY <1>10 DEF NoText, Becomes
  <2>2. TimeType'
    BY <1>1, <2>1 DEF TimeType
  <2>3. CallTime(l)'
    BY <1>1, <2>1 DEF CallTime, Took, TimeType
  <2> QED
    BY <1>6, <2>2, <2>3 DEF TimeInv
<1> QED
  BY <1>7, <1>8, <1>9, <1>10 DEF LegStep

LEMMA ChainStepTimed ==
  ASSUME ChainInv, TimeInv, ChainStep
  PROVE  TimeInv'
<1>1. /\ TimeType
      /\ \A l \in Legs : CallTime(l)
  BY DEF TimeInv
<1>2. CASE UNCHANGED <<leg, retries, spent, begun>>
  BY <1>1, <1>2 DEF TimeInv, TimeType, CallTime, Took
<1>3. ASSUME NEW l \in Legs, leg' = [leg EXCEPT ![l] = "done"], UNCHANGED <<retries, spent, begun>>
      PROVE  TimeInv'
  <2>1. TimeType'
    BY <1>1, <1>3 DEF TimeType
  <2>2. CallTime(l)'
    BY <1>1, <1>3 DEF CallTime, Took, TimeType
  <2>3. ASSUME NEW k \in Legs, k # l
        PROVE  CallTime(k)'
    BY <1>1, <1>3, <2>3, CallTimeStays DEF TimeType
  <2> QED
    BY <2>1, <2>2, <2>3 DEF TimeInv
<1>4. CASE ToolsDone
  <2>1. /\ leg' = [l \in Legs |-> IF l \in {"narration", "suggestion"} THEN "sending" ELSE leg[l]]
        /\ UNCHANGED <<retries, spent, begun>>
        /\ \A l \in {"narration", "suggestion"} : leg[l] = "idle"
    BY <1>4 DEF ToolsDone, ChainInv, LegsOK
  <2>2. TimeType'
    BY <1>1, <2>1 DEF TimeType
  <2>3. ASSUME NEW l \in Legs, l \in {"narration", "suggestion"}
        PROVE  CallTime(l)'
    <3>1. retries[l] = 0 /\ Took(l) = 0 /\ spent[l] = begun[l]
      BY <1>1, <2>1, <2>3 DEF CallTime, Took, TimeType
    <3>2. retries'[l] = 0 /\ Took(l)' = 0 /\ leg'[l] = "sending"
      BY <2>1, <2>3, <3>1 DEF Took
    <3> QED
      BY <3>2, WaitsNat, LimitsAssumption DEF CallTime
  <2>4. ASSUME NEW l \in Legs, l \notin {"narration", "suggestion"}
        PROVE  CallTime(l)'
    BY <1>1, <2>1, <2>4, CallTimeStays
  <2> QED
    BY <2>2, <2>3, <2>4 DEF TimeInv
<1>5. CASE Rewrite
  <2> DEFINE n == "narration"
  <2>1. /\ leg' = [leg EXCEPT ![n] = "sending"]
        /\ retries' = [retries EXCEPT ![n] = 0]
        /\ begun' = [begun EXCEPT ![n] = spent[n]]
        /\ UNCHANGED spent
    BY <1>5 DEF Rewrite, Becomes
  <2>2. n \in Legs
    BY DEF Legs
  <2>3. TimeType'
    BY <1>1, <2>1, <2>2 DEF TimeType
  <2>4. retries'[n] = 0 /\ Took(n)' = 0 /\ leg'[n] = "sending"
    BY <1>1, <2>1, <2>2 DEF TimeType, Took
  <2>5. CallTime(n)'
    BY <2>4, WaitsNat, LimitsAssumption DEF CallTime
  <2>6. ASSUME NEW k \in Legs, k # n
        PROVE  CallTime(k)'
    BY <1>1, <2>1, <2>6, CallTimeStays DEF TimeType
  <2> QED
    BY <2>3, <2>5, <2>6 DEF TimeInv
<1>6. CASE Planned \/ Declined
  BY <1>3, <1>6 DEF Planned, Declined, Becomes, Legs
<1>7. CASE Suggested \/ Narrated
  BY <1>3, <1>7 DEF Suggested, Narrated, Becomes, Legs
<1>8. CASE PlanFailed \/ ToolsFailed \/ JoinFailed \/ Answer
  BY <1>2, <1>8 DEF PlanFailed, ToolsFailed, JoinFailed, Answer
<1> QED
  BY <1>4, <1>5, <1>6, <1>7, <1>8 DEF ChainStep

LEMMA TimeInvariant == Spec => []TimeInv
<1>1. ChainInv /\ TimeInv /\ [Next]_vars => TimeInv'
  <2> SUFFICES ASSUME ChainInv, TimeInv, [Next]_vars PROVE TimeInv'
    OBVIOUS
  <2>1. CASE UNCHANGED vars
    BY <2>1 DEF vars, TimeInv, TimeType, CallTime, Took
  <2> QED
    BY <2>1, LegStepTimed, ChainStepTimed DEF Next, Idle
<1> QED
  BY <1>1, ChainInvariant, TimeInit, PTL DEF Spec

\* No call takes longer than its requests timing out with all the waits between
\* them; so when that worst case is within the gateway's limit, as gemini.rs says
\* of its constants (6 x 30s plus 62s within 300s), every call of an ask is, each
\* rewrite's anew, whichever requests fail and however long they take.
THEOREM CallsFit ==
  ASSUME WorstCase <= GatewayLimit
  PROVE  Spec => []CallFitsLimit
<1>1. TimeInv => CallFitsLimit
  <2> SUFFICES ASSUME TimeInv, NEW l \in Legs
               PROVE  spent[l] - begun[l] <= GatewayLimit
    BY DEF CallFitsLimit
  <2> DEFINE r == retries[l]
  <2>1. /\ r \in Nat /\ r <= MaxRetries
        /\ Took(l) <= (r + 1) * RequestTimeout + Waits(r)
        /\ Took(l) \in Int
    BY DEF TimeInv, TimeType, CallTime, Took
  <2>2. (r + 1) * RequestTimeout + Waits(r) <= WorstCase
    BY <2>1, WorstIsWorst
  <2>3. \A a, b \in Nat : a * b \in Nat
    BY SMT
  <2>4. (r + 1) * RequestTimeout \in Nat /\ (MaxRetries + 1) * RequestTimeout \in Nat
    BY <2>1, <2>3, LimitsAssumption
  <2>5. Waits(r) \in Nat /\ Waits(MaxRetries) \in Nat
    BY <2>1, WaitsNat, LimitsAssumption
  <2>6. WorstCase \in Nat
    BY <2>4, <2>5 DEF WorstCase
  <2> HIDE DEF r
  <2>7. Took(l) <= GatewayLimit
    BY <2>1, <2>2, <2>4, <2>5, <2>6, LimitsAssumption
  <2> QED
    BY <2>7 DEF Took
<1> QED
  BY <1>1, TimeInvariant, PTL

=============================================================================
