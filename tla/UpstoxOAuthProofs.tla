-------------------------- MODULE UpstoxOAuthProofs --------------------------
(***************************************************************************)
(* Proofs about UpstoxOAuth, for any logins, callbacks, TTL and restarts:  *)
(* a state is redeemed once, and in time.                                  *)
(***************************************************************************)
EXTENDS UpstoxOAuth, TotalProofs

LEMMA TypeInit == Init => TypeOK
  BY DEF Init, TypeOK, CallbackPlaces, Replies, Nothing, Portfolios

LEMMA TypeNext == TypeOK /\ [Next]_vars => TypeOK'
<1> SUFFICES ASSUME TypeOK, [Next]_vars
             PROVE  TypeOK'
  OBVIOUS
<1> USE DEF TypeOK, config, loginVars, callVars, importVars, envVars, CallbackPlaces, Replies, Nothing
<1>1. ASSUME NEW l \in Logins, Login(l) \/ LoginRefused(l) PROVE TypeOK'
  <2>1. CASE Login(l)
    BY <2>1 DEF Login
  <2>2. CASE LoginRefused(l)
    BY <2>2 DEF LoginRefused
  <2> QED
    BY <1>1, <2>1, <2>2
<1>2. ASSUME NEW c \in Callbacks, MissingParameter(c) \/ Invalid(c) \/ NotConfigured(c)
      PROVE  TypeOK'
  BY <1>2 DEF MissingParameter, Invalid, NotConfigured, Close
<1>3. ASSUME NEW c \in Callbacks, Consume(c) PROVE TypeOK'
  <2>1. PICK s \in Brought :
          /\ state' = [state EXCEPT ![c] = s]
          /\ taken' = [taken EXCEPT ![c] = Found(s)]
          /\ map' = [l \in Logins |-> IF l = s THEN Nothing ELSE map[l]]
    BY <1>3 DEF Consume
  <2>2. s \in Logins \cup {NoState} /\ Found(s) \in SUBSET Nat
    BY DEF Brought, Found
  <2>3. map' \in [Logins -> SUBSET Nat]
    BY <2>1
  <2> QED
    BY <1>3, <2>1, <2>2, <2>3 DEF Consume
<1>4. ASSUME NEW c \in Callbacks, Valid(c) \/ Exchanged(c) PROVE TypeOK'
  BY <1>4 DEF Valid, Exchanged
<1>5. ASSUME NEW c \in Callbacks, UpstoxFails(c) \/ Disconnect(c) PROVE TypeOK'
  BY <1>5 DEF UpstoxFails, Disconnect, Close
<1>9. ASSUME NEW c \in Callbacks, Fetched(c) PROVE TypeOK'
  <2>1. PICK account \in Accounts :
          LET nse == NseOf(account)
          IN  /\ holdings' = [holdings EXCEPT ![c] = account]
              /\ IF Cardinality(DOMAIN nse) < 2
                 THEN Close(c, "insufficient_holdings") /\ UNCHANGED portfolio
                 ELSE /\ Close(c, "imported")
                      /\ portfolio' = [portfolio EXCEPT ![c] = WeightsOf(nse)]
    BY <1>9 DEF Fetched
  <2>2. holdings' \in [Callbacks -> {<<>>} \cup Accounts]
    BY <2>1
  <2>3. WeightsOf(NseOf(account)) \in Portfolios
    BY DEF Portfolios
  <2>4. portfolio' \in [Callbacks -> Portfolios]
    BY <2>1, <2>3
  <2>5. pc' \in [Callbacks -> CallbackPlaces] /\ reply' \in [Callbacks -> Replies]
    BY <2>1 DEF Close
  <2> QED
    BY <1>9, <2>2, <2>4, <2>5 DEF Fetched
<1>6. ASSUME ClockTicks PROVE TypeOK'
  BY <1>6 DEF ClockTicks
<1>7. ASSUME Restart PROVE TypeOK'
  <2>1. map' \in [Logins -> SUBSET Nat]
    BY <1>7 DEF Restart
  <2>2. pc' \in [Callbacks -> CallbackPlaces] /\ reply' \in [Callbacks -> Replies]
    BY <1>7 DEF Restart
  <2>3. key' \in BOOLEAN /\ secret' \in BOOLEAN
    BY <1>7, Zenon DEF Restart
  <2>4. restarts' \in Nat /\ UNCHANGED <<login, issued, state, taken, holdings, portfolio, now>>
    BY <1>7 DEF Restart
  <2> QED
    BY <2>1, <2>2, <2>3, <2>4
<1>8. ASSUME UNCHANGED vars PROVE TypeOK'
  BY <1>8 DEF vars
<1> QED
  BY <1>1, <1>2, <1>3, <1>4, <1>5, <1>6, <1>7, <1>8, <1>9 DEF Next, CallbackStep, AllQuiet

\* Type correctness of the import.
THEOREM TypeCorrect == Spec => []TypeOK
  BY TypeInit, TypeNext, PTL DEF Spec

----------------------------------------------------------------------------
(***************************************************************************)
(* Where a state is: in the map from its login on, or with one of the      *)
(* callbacks that brought it, or gone.                                     *)
(***************************************************************************)
StatesKept == \A l \in Logins : /\ map[l] \subseteq {issued[l]}
                                /\ map[l] # Nothing => login[l] = "redirected"

CallbackOK(c) ==
    /\ pc[c] # "closed" => reply[c] = "none"
    /\ pc[c] = "idle" => state[c] = NoState /\ taken[c] = Nothing
    /\ state[c] = NoState => taken[c] = Nothing
    /\ state[c] # NoState => /\ login[state[c]] = "redirected"
                             /\ map[state[c]] = Nothing
                             /\ taken[c] \subseteq {issued[state[c]]}
    /\ ReachedUpstox(c) => taken[c] # Nothing

TakenOnce == \A c, d \in Callbacks :
                taken[c] # Nothing /\ taken[d] # Nothing /\ state[c] = state[d] => c = d

RedeemInv == StatesKept /\ (\A c \in Callbacks : CallbackOK(c)) /\ TakenOnce

LEMMA RedeemInit == Init => RedeemInv
  BY DEF Init, RedeemInv, StatesKept, CallbackOK, TakenOnce, ReachedUpstox, InCalls, Nothing

LEMMA RedeemNext == TypeOK /\ RedeemInv /\ [Next]_vars => RedeemInv'
<1> SUFFICES ASSUME TypeOK, RedeemInv, [Next]_vars
             PROVE  RedeemInv'
  OBVIOUS
<1> USE DEF config, loginVars, callVars, envVars
\* The steps of a callback that leave its state and what it took alone.
<1>a. ASSUME UNCHANGED <<loginVars, state, taken>>,
             NEW c \in Callbacks,
             \A d \in Callbacks : d # c => pc'[d] = pc[d] /\ reply'[d] = reply[d],
             pc[c] = "idle" <=> pc'[c] = "idle",
             pc'[c] # "closed" => reply'[c] = "none",
             ReachedUpstox(c)' => taken[c] # Nothing
      PROVE  RedeemInv'
  BY <1>a DEF RedeemInv, StatesKept, CallbackOK, TakenOnce, ReachedUpstox, InCalls
<1>1. ASSUME NEW l \in Logins, Login(l) PROVE RedeemInv'
  <2>1. /\ login[l] = "idle" /\ map' = [map EXCEPT ![l] = {now}]
        /\ login' = [login EXCEPT ![l] = "redirected"]
        /\ issued' = [issued EXCEPT ![l] = now]
        /\ UNCHANGED callVars
    BY <1>1 DEF Login
  <2>2. \A c \in Callbacks : state[c] # l
    <3>1. l # NoState
      BY StatesAssumption
    <3> QED
      BY <2>1, <3>1 DEF RedeemInv, CallbackOK
  <2>3. StatesKept'
    BY <2>1 DEF TypeOK, RedeemInv, StatesKept
  <2>4. ASSUME NEW c \in Callbacks PROVE CallbackOK(c)'
    BY <2>1, <2>2 DEF TypeOK, RedeemInv, CallbackOK, ReachedUpstox, InCalls
  <2>5. TakenOnce'
    BY <2>1 DEF RedeemInv, TakenOnce
  <2> QED
    BY <2>3, <2>4, <2>5 DEF RedeemInv
<1>2. ASSUME NEW l \in Logins, LoginRefused(l) PROVE RedeemInv'
  <2>1. /\ login[l] = "idle" /\ login' = [login EXCEPT ![l] = "not_configured"]
        /\ UNCHANGED <<map, issued, callVars>>
    BY <1>2 DEF LoginRefused
  <2>2. StatesKept'
    BY <2>1 DEF TypeOK, RedeemInv, StatesKept
  <2>3. ASSUME NEW c \in Callbacks PROVE CallbackOK(c)'
    BY <2>1 DEF TypeOK, RedeemInv, CallbackOK, ReachedUpstox, InCalls
  <2>4. TakenOnce'
    BY <2>1 DEF RedeemInv, TakenOnce
  <2> QED
    BY <2>2, <2>3, <2>4 DEF RedeemInv
<1>3. ASSUME NEW c \in Callbacks, MissingParameter(c) PROVE RedeemInv'
  <2>1. /\ UNCHANGED <<loginVars, state, taken>>
        /\ pc' = [pc EXCEPT ![c] = "closed"]
        /\ reply' = [reply EXCEPT ![c] = "invalid_callback"]
    BY <1>3 DEF MissingParameter, Close
  <2>2. StatesKept' /\ TakenOnce'
    BY <2>1 DEF RedeemInv, StatesKept, TakenOnce
  <2>3. ASSUME NEW d \in Callbacks PROVE CallbackOK(d)'
    BY <2>1 DEF TypeOK, RedeemInv, CallbackOK, ReachedUpstox, InCalls
  <2> QED
    BY <2>2, <2>3 DEF RedeemInv
<1>4. ASSUME NEW c \in Callbacks, Consume(c) PROVE RedeemInv'
  <2>1. PICK s \in Brought :
          /\ state' = [state EXCEPT ![c] = s]
          /\ taken' = [taken EXCEPT ![c] = Found(s)]
          /\ map' = [l \in Logins |-> IF l = s THEN Nothing ELSE map[l]]
    BY <1>4 DEF Consume
  <2>2. /\ pc[c] = "idle"
        /\ pc' = [pc EXCEPT ![c] = "validating"]
        /\ UNCHANGED <<login, issued, reply>>
    BY <1>4 DEF Consume
  <2>3. StatesKept'
    BY <2>1, <2>2 DEF RedeemInv, StatesKept, Nothing
  <2>4. ASSUME NEW d \in Callbacks PROVE CallbackOK(d)'
    <3>1. CallbackOK(d)
      BY DEF RedeemInv
    <3>2. CASE d # c
      BY <2>1, <2>2, <3>1, <3>2 DEF TypeOK, CallbackOK, ReachedUpstox, InCalls
    <3>3. CASE d = c
      <4>1. s # NoState => /\ s \in Logins
                           /\ login[s] = "redirected"
                           /\ Found(s) \subseteq {issued[s]}
        BY DEF Brought, Found, RedeemInv, StatesKept
      <4>2. s = NoState => Found(s) = Nothing
        BY DEF Found
      <4>3. /\ state'[c] = s /\ taken'[c] = Found(s)
            /\ pc'[c] = "validating" /\ reply'[c] = "none"
        BY <2>1, <2>2, <3>1, <3>3 DEF TypeOK, CallbackOK
      <4>4. s # NoState => map'[s] = Nothing
        BY <2>1, <4>1
      <4> QED
        BY <2>2, <3>3, <4>1, <4>2, <4>3, <4>4 DEF CallbackOK, ReachedUpstox, InCalls
    <3> QED
      BY <3>2, <3>3
  <2>5. TakenOnce'
    <3> SUFFICES ASSUME NEW d \in Callbacks, d # c,
                        Found(s) # Nothing, taken[d] # Nothing, state[d] = s
                 PROVE  FALSE
      BY <2>1 DEF TypeOK, RedeemInv, TakenOnce
    <3>1. s # NoState /\ map[s] # Nothing
      BY DEF Found
    <3> QED
      BY <3>1 DEF RedeemInv, CallbackOK
  <2> QED
    BY <2>3, <2>4, <2>5 DEF RedeemInv
<1>5. ASSUME NEW c \in Callbacks, Invalid(c) PROVE RedeemInv'
  BY <1>5, <1>a DEF Invalid, Close, TypeOK, ReachedUpstox, InCalls
<1>6. ASSUME NEW c \in Callbacks, NotConfigured(c) PROVE RedeemInv'
  BY <1>6, <1>a DEF NotConfigured, Close, TypeOK, ReachedUpstox, InCalls
<1>7. ASSUME NEW c \in Callbacks, Valid(c) PROVE RedeemInv'
  <2>1. taken[c] # Nothing
    BY <1>7 DEF Valid, Fresh, Nothing
  <2> QED
    BY <1>7, <1>a, <2>1 DEF Valid, TypeOK, RedeemInv, CallbackOK
<1>8. ASSUME NEW c \in Callbacks, Exchanged(c) PROVE RedeemInv'
  <2>1. taken[c] # Nothing /\ reply[c] = "none"
    BY <1>8 DEF Exchanged, RedeemInv, CallbackOK, ReachedUpstox, InCalls
  <2> QED
    BY <1>8, <1>a, <2>1 DEF Exchanged, TypeOK
<1>9. ASSUME NEW c \in Callbacks, UpstoxFails(c) \/ Fetched(c) \/ Disconnect(c)
      PROVE  RedeemInv'
  <2>1. taken[c] # Nothing
    BY <1>9 DEF UpstoxFails, Fetched, Disconnect, RedeemInv, CallbackOK, ReachedUpstox, InCalls
  <2> QED
    BY <1>9, <1>a, <2>1 DEF UpstoxFails, Fetched, Disconnect, Close, TypeOK, InCalls
<1>10. ASSUME ClockTicks PROVE RedeemInv'
  BY <1>10 DEF ClockTicks, RedeemInv, StatesKept, CallbackOK, TakenOnce, ReachedUpstox, InCalls
<1>11. ASSUME Restart PROVE RedeemInv'
  <2>1. /\ map' = [l \in Logins |-> Nothing]
        /\ UNCHANGED <<login, issued, state, taken>>
        /\ \A d \in Callbacks : /\ pc'[d] = IF pc[d] = "idle" THEN "idle" ELSE "closed"
                                /\ reply'[d] = IF pc[d] \in {"idle", "closed"} THEN reply[d]
                                               ELSE "dropped"
    BY <1>11 DEF Restart
  <2>2. StatesKept' /\ TakenOnce'
    BY <2>1 DEF RedeemInv, StatesKept, TakenOnce, Nothing
  <2>3. ASSUME NEW d \in Callbacks PROVE CallbackOK(d)'
    BY <2>1 DEF TypeOK, RedeemInv, CallbackOK, ReachedUpstox, InCalls
  <2> QED
    BY <2>2, <2>3 DEF RedeemInv
<1>12. ASSUME UNCHANGED vars PROVE RedeemInv'
  BY <1>12 DEF vars, RedeemInv, StatesKept, CallbackOK, TakenOnce, ReachedUpstox, InCalls
<1> QED
  BY <1>1, <1>2, <1>3, <1>4, <1>5, <1>6, <1>7, <1>8, <1>9, <1>10, <1>11, <1>12
  DEF Next, CallbackStep, AllQuiet

LEMMA RedeemInvImplies == RedeemInv => RedeemedOnce
  BY DEF RedeemInv, CallbackOK, TakenOnce, RedeemedOnce

\* Whatever the callbacks bring and however they end, a login is redeemed once.
THEOREM RedeemsOnce == Spec => []RedeemedOnce
<1>1. RedeemInv => RedeemedOnce
  BY RedeemInvImplies
<1> QED
  BY <1>1, RedeemInit, RedeemNext, TypeCorrect, PTL DEF Spec

----------------------------------------------------------------------------

LEMMA InTimeStep ==
    TypeOK /\ RedeemInv /\ [Next]_vars =>
        \A c \in Callbacks :
          (~InCalls(c) /\ InCalls(c)') =>
              /\ state[c] # NoState
              /\ login[state[c]] = "redirected"
              /\ now - issued[state[c]] < Ttl
<1> SUFFICES ASSUME TypeOK, RedeemInv, [Next]_vars,
                    NEW c \in Callbacks, ~InCalls(c), InCalls(c)'
             PROVE  /\ state[c] # NoState
                    /\ login[state[c]] = "redirected"
                    /\ now - issued[state[c]] < Ttl
  OBVIOUS
<1> USE DEF InCalls, TypeOK, callVars, loginVars, envVars, config
<1>1. Valid(c)
  <2>1. ASSUME NEW l \in Logins, Login(l) \/ LoginRefused(l) PROVE FALSE
    BY <2>1 DEF Login, LoginRefused
  <2>2. ASSUME NEW d \in Callbacks, CallbackStep(d), ~(d = c /\ Valid(d)) PROVE FALSE
    <3>1. \/ pc'[c] = pc[c]
          \/ d = c /\ pc'[c] \in {"closed", "validating"}
          \/ d = c /\ pc[c] = "exchanging"
      BY <2>2 DEF CallbackStep, MissingParameter, Consume, Invalid, NotConfigured, Valid,
                  Exchanged, UpstoxFails, Fetched, Disconnect, Close
    <3> QED
      BY <3>1
  <2>3. ASSUME ClockTicks \/ UNCHANGED vars PROVE FALSE
    BY <2>3 DEF ClockTicks, vars
  <2>4. ASSUME Restart PROVE FALSE
    BY <2>4 DEF Restart
  <2> QED
    BY <2>1, <2>2, <2>3, <2>4 DEF Next, AllQuiet
<1>2. PICK t \in taken[c] : now - t < Ttl
  BY <1>1 DEF Valid, Fresh
<1>3. CallbackOK(c)
  BY DEF RedeemInv
<1>4. state[c] # NoState /\ t = issued[state[c]] /\ login[state[c]] = "redirected"
  BY <1>2, <1>3 DEF CallbackOK, Nothing
<1> QED
  BY <1>2, <1>4

\* No callback goes to Upstox for a login it comes too late for.
THEOREM RedeemsInTime == Spec => RedeemedInTime
<1>1. TypeOK /\ RedeemInv /\ [Next]_vars =>
        [\A c \in Callbacks :
          (~InCalls(c) /\ InCalls(c)') =>
              /\ state[c] # NoState
              /\ login[state[c]] = "redirected"
              /\ now - issued[state[c]] < Ttl]_vars
  BY InTimeStep
<1> QED
  BY <1>1, RedeemInit, RedeemNext, TypeCorrect, PTL DEF Spec, RedeemedInTime

----------------------------------------------------------------------------
(***************************************************************************)
(* The weights of an imported portfolio.                                   *)
(***************************************************************************)
\* A rounded weight is within half a unit of the share.
LEMMA RoundedNear ==
    ASSUME NEW v \in Nat, NEW total \in Nat, total > 0
    PROVE  /\ Rounded(v, total) \in Int
           /\ -total <= 2 * (Rounded(v, total) * total - v * Unit)
           /\ 2 * (Rounded(v, total) * total - v * Unit) <= total
<1> DEFINE a == 2 * v * Unit + total
           b == 2 * total
           q == a \div b
<1>1. a \in Int /\ b \in Int /\ b > 0 /\ v * Unit \in Int /\ a = 2 * (v * Unit) + total
  BY UnitAssumption
<1>2. Rounded(v, total) = q
  BY DEF Rounded
<1>3. q \in Int /\ b * q <= a /\ a < b * q + b
  <2> HIDE DEF a, b
  <2> QED
    BY <1>1, QuotientBounds
<1>4. b * q = 2 * (q * total) /\ q * total \in Int
  <2>1. \A i \in Int : (2 * total) * i = 2 * (i * total) /\ i * total \in Int
    OBVIOUS
  <2> HIDE DEF q
  <2> QED
    BY <1>3, <2>1
<1> HIDE DEF q
<1> QED
  BY <1>1, <1>2, <1>3, <1>4

\* An account's NSE holdings are a finite number of values.
LEMMA NseFacts ==
    ASSUME NEW account \in Accounts
    PROVE  /\ DOMAIN NseOf(account) \subseteq Int
           /\ IsFiniteSet(DOMAIN NseOf(account))
           /\ \A k \in DOMAIN NseOf(account) : NseOf(account)[k].value \in Nat
           /\ Value(NseOf(account)) \in Nat
<1> DEFINE nse == NseOf(account)
           values == [k \in DOMAIN nse |-> nse[k].value]
<1>1. /\ DOMAIN nse \in SUBSET (1 .. Len(account)) /\ Len(account) \in Nat
      /\ \A k \in DOMAIN nse : nse[k].value \in Nat
  BY AccountsAssumption DEF NseOf
<1>2. IsFiniteSet(DOMAIN nse)
  <2>1. IsFiniteSet(1 .. Len(account))
    BY <1>1, FS_Interval
  <2> HIDE DEF nse
  <2> QED
    BY <1>1, <2>1, FS_Subset
<1>3. values \in [DOMAIN nse -> Nat]
  BY <1>1
<1>4. Total(values) \in Nat
  <2> HIDE DEF values, nse
  <2> QED
    BY <1>2, <1>3, TotalNat
<1> QED
  BY <1>1, <1>2, <1>4 DEF Value

\* The weights add up to the whole, and none is further from its share than the
\* roundings of the others can push it.
LEMMA WeightsWhole ==
    ASSUME NEW account \in Accounts, Cardinality(DOMAIN NseOf(account)) >= 2
    PROVE  LET nse   == NseOf(account)
               total == Value(nse)
               off(k) == 2 * (WeightsOf(nse)[k] * total - nse[k].value * Unit)
               most  == (Cardinality(DOMAIN nse) - 1) * total
           IN  /\ DOMAIN WeightsOf(nse) = DOMAIN nse
               /\ Total(WeightsOf(nse)) = Unit
               /\ total > 0 => \A k \in DOMAIN nse : off(k) <= most /\ -off(k) <= most
<1> DEFINE nse == NseOf(account)
           S == DOMAIN nse
           total == Value(nse)
           r == [k \in S |-> Rounded(nse[k].value, total)]
           rest == Unit - Total(r)
           w == WeightsOf(nse)
           d == [k \in S |-> 2 * (r[k] * total - nse[k].value * Unit)]
           most == (Cardinality(S) - 1) * total
<1>1. S \subseteq Int /\ IsFiniteSet(S) /\ total \in Nat /\ \A k \in S : nse[k].value \in Nat
  BY NseFacts
<1>2. Cardinality(S) \in Nat /\ Cardinality(S) >= 2
  BY <1>1, FS_CardinalityType
<1>3. PICK last \in S : \A k \in S : k <= last
  <2>1. S # {}
    BY <1>2, FS_EmptySet
  <2> HIDE DEF S
  <2> QED
    BY <1>1, <2>1, GreatestNumber
<1>4. r \in [S -> Int]
  <2>1. SUFFICES ASSUME NEW k \in S PROVE Rounded(nse[k].value, total) \in Int
    OBVIOUS
  <2>2. CASE total > 0
    BY <1>1, <2>2, RoundedNear
  <2>3. CASE ~(total > 0)
    BY <2>3 DEF Rounded
  <2> QED
    BY <2>2, <2>3
<1>5. Total(r) \in Int /\ rest \in Int
  <2>1. Total(r) \in Int
    <3> HIDE DEF r, S
    <3> QED
      BY <1>1, <1>4, TotalInt
  <2> QED
    BY <2>1, UnitAssumption
<1>6. w = [k \in S |-> IF k = last THEN r[k] + rest ELSE r[k]]
  <2>1. \A k \in S : IsLast(k, r) <=> k = last
    <3>1. SUFFICES ASSUME NEW k \in S PROVE (\A j \in S : j <= k) <=> k = last
      BY DEF IsLast
    <3>2. k \in Int /\ last \in Int /\ k <= last
      BY <1>1, <1>3
    <3> HIDE DEF S
    <3> QED
      BY <1>3, <3>2
  <2>2. w = [k \in S |-> IF IsLast(k, r) THEN r[k] + rest ELSE r[k]]
    BY DEF WeightsOf, Settled
  <2> HIDE DEF S, r, w, rest
  <2> QED
    BY <2>1, <2>2
<1>7. w \in [S -> Int] /\ w[last] = r[last] + rest /\ \A k \in S : k # last => w[k] = r[k]
  <2> HIDE DEF S, r, rest, w
  <2> QED
    BY <1>3, <1>4, <1>5, <1>6
<1>8. Total(w) = Unit
  <2>1. Restrict(w, S \ {last}) = Restrict(r, S \ {last})
    <3> HIDE DEF S, r, w
    <3> QED
      BY <1>7 DEF Restrict
  <2>2. /\ Total(w) = w[last] + Total(Restrict(w, S \ {last}))
        /\ Total(r) = r[last] + Total(Restrict(r, S \ {last}))
        /\ Total(Restrict(r, S \ {last})) \in Int
    <3> HIDE DEF S, r, w
    <3> QED
      BY <1>1, <1>3, <1>4, <1>7, TotalTake, TotalOfPart
  <2>3. r[last] \in Int /\ rest = Unit - Total(r)
    BY <1>3, <1>4
  <2> HIDE DEF S, r, w, rest
  <2> QED
    BY <1>5, <1>7, <2>1, <2>2, <2>3, UnitAssumption
<1>9. ASSUME total > 0, NEW k \in S
      PROVE  /\ 2 * (w[k] * total - nse[k].value * Unit) <= most
             /\ -(2 * (w[k] * total - nse[k].value * Unit)) <= most
  <2>1. d \in [S -> Int] /\ \A j \in S : -total <= d[j] /\ d[j] <= total
    <3>1. SUFFICES ASSUME NEW j \in S PROVE d[j] \in Int /\ -total <= d[j] /\ d[j] <= total
      OBVIOUS
    <3>2. d[j] = 2 * (Rounded(nse[j].value, total) * total - nse[j].value * Unit)
      OBVIOUS
    <3>3. nse[j].value \in Nat /\ r[j] \in Int
      BY <1>1, <1>4
    <3>4. d[j] \in Int
      <4>1. r[j] * total \in Int /\ nse[j].value * Unit \in Int
        BY <1>1, <3>3, UnitAssumption
      <4> QED
        BY <4>1
    <3> HIDE DEF d, r
    <3> QED
      BY <1>1, <1>9, <3>2, <3>3, <3>4, RoundedNear
  <2>2. Cardinality(S \ {last}) = Cardinality(S) - 1 /\ IsFiniteSet(S \ {last})
    <3> HIDE DEF S
    <3> QED
      BY <1>1, <1>3, FS_RemoveElement, FS_Subset
  <2>3. total <= most /\ most \in Int
    <3>1. \A n \in Nat : n >= 1 => total <= n * total /\ n * total \in Int
      BY <1>1
    <3>2. Cardinality(S) - 1 \in Nat /\ Cardinality(S) - 1 >= 1
      BY <1>2
    <3> HIDE DEF S, total
    <3> QED
      BY <3>1, <3>2
  <2>4. CASE k # last
    <3>1. w[k] = r[k] /\ d[k] = 2 * (r[k] * total - nse[k].value * Unit)
      BY <1>7, <2>4
    <3>2. -total <= d[k] /\ d[k] <= total /\ d[k] \in Int
      BY <2>1
    <3>3. 2 * (w[k] * total - nse[k].value * Unit) = d[k]
      <4> HIDE DEF d, w, r
      <4> QED
        BY <3>1
    <3> HIDE DEF d, w, r, S, most, total
    <3> QED
      BY <1>1, <2>3, <3>2, <3>3
  <2>5. CASE k = last
    <3> DEFINE v == [j \in S |-> nse[j].value]
               others == Total(Restrict(d, S \ {last}))
    <3>1. v \in [S -> Int] /\ Total(v) = total
      BY <1>1 DEF Value
    <3>2. d[last] + others = (2 * total) * Total(r) + (-2 * Unit) * total
      <4> DEFINE f == [j \in S |-> (2 * total) * r[j]]
                 g == [j \in S |-> (-2 * Unit) * v[j]]
      <4>0. 2 * total \in Int /\ -2 * Unit \in Int
        BY <1>1, UnitAssumption
      <4>1. \A j \in S : f[j] \in Int /\ g[j] \in Int /\ d[j] = f[j] + g[j]
        <5>1. SUFFICES ASSUME NEW j \in S
                       PROVE  /\ (2 * total) * r[j] \in Int /\ (-2 * Unit) * v[j] \in Int
                              /\ 2 * (r[j] * total - v[j] * Unit) = (2 * total) * r[j] + (-2 * Unit) * v[j]
          OBVIOUS
        <5>2. r[j] \in Int /\ v[j] \in Int
          BY <1>4, <3>1
        <5> HIDE DEF r, v
        <5> QED
          BY <1>1, <5>2, UnitAssumption
      <4>2. f \in [S -> Int] /\ g \in [S -> Int] /\ d = [j \in S |-> f[j] + g[j]]
        BY <4>1
      <4>3. Total(d) = Total(f) + Total(g)
        <5> HIDE DEF f, g, d, S
        <5> QED
          BY <1>1, <4>2, TotalPlus
      <4>4. Total(f) = (2 * total) * Total(r)
        <5> HIDE DEF r, S
        <5> QED
          BY <1>1, <1>4, <4>0, TotalTimes
      <4>5. Total(g) = (-2 * Unit) * Total(v)
        <5> HIDE DEF v, S
        <5> QED
          BY <1>1, <3>1, <4>0, TotalTimes
      <4>6. Total(d) = d[last] + others
        <5> HIDE DEF d, S
        <5> QED
          BY <1>1, <1>3, <2>1, TotalTake
      <4> HIDE DEF f, g, d, r, v, others
      <4> QED
        BY <3>1, <4>3, <4>4, <4>5, <4>6
    <3>3. others \in Int /\ -most <= others /\ others <= most
      <4> DEFINE R == S \ {last}
                 e == Restrict(d, R)
      <4>1. e \in [R -> Int] /\ \A j \in R : -total <= e[j] /\ e[j] <= total
        <5> HIDE DEF d
        <5> QED
          BY <2>1 DEF Restrict
      <4>2. /\ -(Cardinality(R) * total) <= Total(e)
            /\ Total(e) <= Cardinality(R) * total
            /\ Total(e) \in Int
        <5> HIDE DEF e, R
        <5> QED
          BY <1>1, <2>2, <4>1, TotalWithin, TotalInt DEF R
      <4> HIDE DEF e, S, total
      <4> QED
        BY <2>2, <4>2 DEF e
    <3>4. 2 * (w[last] * total - v[last] * Unit) = -others
      <4>1. d[last] = 2 * (r[last] * total - v[last] * Unit) /\ d[last] \in Int
        BY <1>3, <2>1
      <4>2. w[last] = r[last] + Unit - Total(r) /\ r[last] \in Int /\ v[last] \in Int
        <5>1. w[last] = r[last] + rest /\ r[last] \in Int /\ v[last] \in Int
          BY <1>3, <1>4, <1>7, <3>1
        <5> HIDE DEF w, r, v
        <5> QED
          BY <1>5, <5>1, UnitAssumption
      <4>3. 2 * ((r[last] + Unit - Total(r)) * total - v[last] * Unit)
            = 2 * (r[last] * total - v[last] * Unit) - ((2 * total) * Total(r) + (-2 * Unit) * total)
        <5> HIDE DEF r, v, total
        <5>1. total \in Int /\ Unit \in Int /\ r[last] \in Int /\ v[last] \in Int /\ Total(r) \in Int
          BY <1>1, <1>5, <4>2, UnitAssumption
        <5>2. PICK a \in Int, b \in Int, x \in Int, t \in Int :
                 a = r[last] /\ b = v[last] /\ x = Total(r) /\ t = total
          BY <5>1
        <5>3. 2 * ((a + Unit - x) * t - b * Unit)
              = 2 * (a * t - b * Unit) - ((2 * t) * x + (-2 * Unit) * t)
          BY <5>1
        <5> QED
          BY <5>2, <5>3
      <4> HIDE DEF d, w, r, v, others, total
      <4> QED
        BY <3>2, <3>3, <4>1, <4>2, <4>3
    <3>5. v[last] = nse[last].value
      OBVIOUS
    <3> HIDE DEF w, v, others, most, total
    <3> QED
      BY <2>3, <2>5, <3>3, <3>4, <3>5
  <2> QED
    BY <2>4, <2>5
<1> QED
  BY <1>7, <1>8, <1>9

\* An imported portfolio is the weights of what Upstox told.
ImportOf(c) ==
    reply[c] = "imported" =>
        /\ holdings[c] \in Accounts
        /\ Cardinality(DOMAIN NseOf(holdings[c])) >= 2
        /\ portfolio[c] = WeightsOf(NseOf(holdings[c]))

ImportInv == \A c \in Callbacks : ImportOf(c)

LEMMA ImportFetched ==
    ASSUME TypeOK, ImportInv, NEW c \in Callbacks, Fetched(c)
    PROVE  ImportInv'
<1>1. PICK account \in Accounts :
        /\ holdings' = [holdings EXCEPT ![c] = account]
        /\ IF Cardinality(DOMAIN NseOf(account)) < 2
           THEN Close(c, "insufficient_holdings") /\ UNCHANGED portfolio
           ELSE /\ Close(c, "imported")
                /\ portfolio' = [portfolio EXCEPT ![c] = WeightsOf(NseOf(account))]
  BY DEF Fetched
<1>2. ASSUME NEW d \in Callbacks, d # c PROVE ImportOf(d)'
  BY <1>1, <1>2 DEF ImportInv, ImportOf, Close, TypeOK
<1>3. ImportOf(c)'
  <2>1. CASE Cardinality(DOMAIN NseOf(account)) < 2
    BY <1>1, <2>1 DEF ImportOf, Close, TypeOK
  <2>2. CASE ~(Cardinality(DOMAIN NseOf(account)) < 2)
    <3>1. holdings'[c] = account /\ portfolio'[c] = WeightsOf(NseOf(account))
      BY <1>1, <2>2 DEF TypeOK
    <3>2. Cardinality(DOMAIN NseOf(account)) >= 2
      BY <2>2, NseFacts, FS_CardinalityType
    <3> QED
      BY <3>1, <3>2 DEF ImportOf
  <2> QED
    BY <2>1, <2>2
<1> QED
  BY <1>2, <1>3 DEF ImportInv

LEMMA ImportStep == TypeOK /\ ImportInv /\ [Next]_vars => ImportInv'
<1> SUFFICES ASSUME TypeOK, ImportInv, [Next]_vars PROVE ImportInv'
  OBVIOUS
<1>1. ASSUME NEW c \in Callbacks, CallbackStep(c), ~Fetched(c) PROVE ImportInv'
  <2>1. /\ UNCHANGED importVars
        /\ reply' = reply \/ \E how \in Replies \ {"imported"} :
                                reply' = [reply EXCEPT ![c] = how]
    BY <1>1 DEF CallbackStep, MissingParameter, Consume, Invalid, NotConfigured, Valid,
                Exchanged, UpstoxFails, Disconnect, Close, Replies
  <2> QED
    BY <2>1 DEF ImportInv, ImportOf, importVars, TypeOK
<1>2. CASE \E l \in Logins : Login(l) \/ LoginRefused(l)
  BY <1>2 DEF Login, LoginRefused, callVars, ImportInv, ImportOf
<1>3. CASE ClockTicks \/ UNCHANGED vars
  BY <1>3 DEF ClockTicks, vars, callVars, ImportInv, ImportOf
<1>4. CASE Restart
  BY <1>4 DEF Restart, importVars, ImportInv, ImportOf
<1> QED
  BY <1>1, <1>2, <1>3, <1>4, ImportFetched DEF Next, AllQuiet

LEMMA ImportImplies == ImportInv => ImportedWhole
  BY WeightsWhole DEF ImportInv, ImportOf, ImportedWhole

\* An imported portfolio has a weight for each NSE holding; the weights add up to
\* the whole, and each is as near to its share as the roundings allow.
THEOREM ImportsWhole == Spec => []ImportedWhole
<1>1. Init => ImportInv
  BY DEF Init, ImportInv, ImportOf
<1> QED
  BY <1>1, ImportStep, ImportImplies, TypeCorrect, PTL DEF Spec

=============================================================================
