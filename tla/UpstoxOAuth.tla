----------------------------- MODULE UpstoxOAuth -----------------------------
(***************************************************************************)
(* The Upstox import: GET /auth/upstox/login hands out an OAuth state and  *)
(* GET /auth/upstox/callback redeems it, then exchanges the code for a     *)
(* token and fetches the holdings (server::upstox, server::routes).        *)
(*                                                                         *)
(* The states wait in a map behind a mutex, which nothing clears.  The     *)
(* browser brings a state back never, late, twice, or after the process    *)
(* was replaced and its map lost.  A callback is a task that is dropped    *)
(* when its client goes; the calls to Upstox have no timeout.              *)
(***************************************************************************)
EXTENDS Integers, Sequences, FiniteSets, Totals

CONSTANTS Logins,       \* the logins; each one's uuid is named by the login
          Callbacks,    \* the callback requests
          NoState,      \* a state the server never made, or none
          Ttl,          \* STATE_TTL
          Accounts,     \* the holdings Upstox may tell of: [exchange, value]
          Unit,         \* weights are whole numbers of 1/Unit, in the code 1e-6
          MaxTime,      \* bound on the clock
          MaxRestarts   \* bound on the restarts of the process

ASSUME StatesAssumption == NoState \notin Logins
ASSUME TtlAssumption == Ttl \in Nat \ {0}
ASSUME AccountsAssumption ==
    \A account \in Accounts : /\ Len(account) \in Nat
                              /\ DOMAIN account = 1 .. Len(account)
                              /\ \A k \in DOMAIN account : account[k].value \in Nat
ASSUME UnitAssumption == Unit \in Nat \ {0}
ASSUME BoundsAssumption == MaxTime \in Nat /\ MaxRestarts \in Nat

VARIABLES
    key, secret,   \* whether UpstoxConfig has the api_key, the api_secret
    map,           \* upstox_state_map: when a state was inserted
    login,         \* what a login was answered
    issued,        \* when its state was inserted (for the properties)
    pc,            \* where a callback is
    state,         \* the state it brought
    taken,         \* what validate_and_consume_state removed: a time, or nothing
    reply,
    holdings,      \* what Upstox told it
    portfolio,     \* the weights it answered with
    now,           \* Instant::now
    restarts

config == <<key, secret>>
loginVars == <<map, login, issued>>
callVars == <<pc, state, taken, reply, holdings, portfolio>>
importVars == <<holdings, portfolio>>
envVars == <<now, restarts>>
vars == <<config, loginVars, callVars, envVars>>

Nothing == {}

Init == /\ key \in BOOLEAN /\ secret \in BOOLEAN
        /\ map = [l \in Logins |-> Nothing]
        /\ login = [l \in Logins |-> "idle"]
        /\ issued = [l \in Logins |-> 0]
        /\ pc = [c \in Callbacks |-> "idle"]
        /\ state = [c \in Callbacks |-> NoState]
        /\ taken = [c \in Callbacks |-> Nothing]
        /\ reply = [c \in Callbacks |-> "none"]
        /\ holdings = [c \in Callbacks |-> <<>>]
        /\ portfolio = [c \in Callbacks |-> <<>>]
        /\ now = 0
        /\ restarts = 0

----------------------------------------------------------------------------
(***************************************************************************)
(* get_upstox_login.                                                       *)
(***************************************************************************)

\* The redirect carries the new state; only the key is needed for it.
Login(l) == /\ login[l] = "idle"
            /\ key
            /\ map' = [map EXCEPT ![l] = {now}]
            /\ login' = [login EXCEPT ![l] = "redirected"]
            /\ issued' = [issued EXCEPT ![l] = now]
            /\ UNCHANGED <<config, callVars, envVars>>

LoginRefused(l) == /\ login[l] = "idle"
                   /\ ~key
                   /\ login' = [login EXCEPT ![l] = "not_configured"]
                   /\ UNCHANGED <<config, map, issued, callVars, envVars>>

----------------------------------------------------------------------------
(***************************************************************************)
(* get_upstox_callback.                                                    *)
(***************************************************************************)
Close(c, how) == /\ pc' = [pc EXCEPT ![c] = "closed"]
                 /\ reply' = [reply EXCEPT ![c] = how]

\* No code, or no state: the map is not looked at.
MissingParameter(c) ==
    /\ pc[c] = "idle"
    /\ Close(c, "invalid_callback")
    /\ UNCHANGED <<config, loginVars, state, taken, importVars, envVars>>

\* The states a browser can bring: those of the redirects, and others.
Brought == {l \in Logins : login[l] = "redirected"} \cup {NoState}

Found(s) == IF s = NoState THEN Nothing ELSE map[s]

\* Mutant of Consume: the state is looked up, and removed once it served.
ConsumeLate(c) ==
    /\ pc[c] = "idle"
    /\ \E s \in Brought :
          /\ state' = [state EXCEPT ![c] = s]
          /\ taken' = [taken EXCEPT ![c] = Found(s)]
    /\ pc' = [pc EXCEPT ![c] = "validating"]
    /\ UNCHANGED <<config, loginVars, reply, importVars, envVars>>

\* map.lock().unwrap().remove(state): under the mutex, whatever becomes of it.
Consume(c) ==
    /\ pc[c] = "idle"
    /\ \E s \in Brought :
          /\ state' = [state EXCEPT ![c] = s]
          /\ taken' = [taken EXCEPT ![c] = Found(s)]
          /\ map' = [l \in Logins |-> IF l = s THEN Nothing ELSE map[l]]
    /\ pc' = [pc EXCEPT ![c] = "validating"]
    /\ UNCHANGED <<config, login, issued, reply, importVars, envVars>>

\* Mutant of Fresh: an expired state is only refused after another TTL.
FreshTwice(c) == \E t \in taken[c] : now - t < 2 * Ttl

\* t.elapsed() < STATE_TTL, read after the mutex is let go.
Fresh(c) == \E t \in taken[c] : now - t < Ttl

Invalid(c) ==
    /\ pc[c] = "validating"
    /\ ~Fresh(c)
    /\ Close(c, "invalid_state")
    /\ UNCHANGED <<config, loginVars, state, taken, importVars, envVars>>

\* The state is spent although the credentials are not there.
NotConfigured(c) ==
    /\ pc[c] = "validating"
    /\ Fresh(c)
    /\ ~(key /\ secret)
    /\ Close(c, "not_configured")
    /\ UNCHANGED <<config, loginVars, state, taken, importVars, envVars>>

Valid(c) ==
    /\ pc[c] = "validating"
    /\ Fresh(c)
    /\ key /\ secret
    /\ pc' = [pc EXCEPT ![c] = "exchanging"]
    /\ UNCHANGED <<config, loginVars, state, taken, reply, importVars, envVars>>

Exchanged(c) ==
    /\ pc[c] = "exchanging"
    /\ pc' = [pc EXCEPT ![c] = "fetching"]
    /\ UNCHANGED <<config, loginVars, state, taken, reply, importVars, envVars>>

\* The code was refused, or a call to Upstox broke: 502.
UpstoxFails(c) ==
    /\ pc[c] \in {"exchanging", "fetching"}
    /\ Close(c, "upstox_error")
    /\ UNCHANGED <<config, loginVars, state, taken, importVars, envVars>>

\* holdings_to_portfolio: the NSE holdings by value, each weight rounded by
\* itself and the last one given what the rounding left over.
NseOf(account) ==
    [k \in {h \in DOMAIN account : account[h].exchange = "NSE_EQ"} |-> account[k]]

Value(nse) == Total([k \in DOMAIN nse |-> nse[k].value])

\* Half a unit goes up; a total of nothing makes every weight nothing.
Rounded(value, total) ==
    IF total > 0 THEN (2 * value * Unit + total) \div (2 * total) ELSE 0

IsLast(k, rounded) == \A j \in DOMAIN rounded : j <= k

\* Mutant of Settled: the last weight takes the rest only where there is some
\* (what the guard `if rounded_sum < 1.0` would do).
SettledUpwards(rounded) ==
    LET rest == Unit - Total(rounded)
    IN  [k \in DOMAIN rounded |->
           IF IsLast(k, rounded) /\ rest > 0 THEN rounded[k] + rest ELSE rounded[k]]

Settled(rounded) ==
    LET rest == Unit - Total(rounded)
    IN  [k \in DOMAIN rounded |->
           IF IsLast(k, rounded) THEN rounded[k] + rest ELSE rounded[k]]

WeightsOf(nse) ==
    LET total == Value(nse)
    IN  Settled([k \in DOMAIN nse |-> Rounded(nse[k].value, total)])

\* Fewer than two NSE holdings: 422; otherwise the portfolio.
Fetched(c) ==
    /\ pc[c] = "fetching"
    /\ \E account \in Accounts :
          LET nse == NseOf(account)
          IN  /\ holdings' = [holdings EXCEPT ![c] = account]
              /\ IF Cardinality(DOMAIN nse) < 2
                 THEN Close(c, "insufficient_holdings") /\ UNCHANGED portfolio
                 ELSE /\ Close(c, "imported")
                      /\ portfolio' = [portfolio EXCEPT ![c] = WeightsOf(nse)]
    /\ UNCHANGED <<config, loginVars, state, taken, envVars>>

----------------------------------------------------------------------------
(***************************************************************************)
(* The environment.                                                        *)
(***************************************************************************)
InCalls(c) == pc[c] \in {"exchanging", "fetching"}

Disconnect(c) == /\ InCalls(c)
                 /\ Close(c, "dropped")
                 /\ UNCHANGED <<config, loginVars, state, taken, importVars, envVars>>

ClockTicks == /\ now < MaxTime
              /\ now' = now + 1
              /\ UNCHANGED <<config, loginVars, callVars, restarts>>

\* A new process has an empty map, and the environment's credentials anew.
Restart ==
    /\ restarts < MaxRestarts
    /\ restarts' = restarts + 1
    /\ key' \in BOOLEAN /\ secret' \in BOOLEAN
    /\ map' = [l \in Logins |-> Nothing]
    /\ pc' = [c \in Callbacks |-> IF pc[c] = "idle" THEN "idle" ELSE "closed"]
    /\ reply' = [c \in Callbacks |-> IF pc[c] \in {"idle", "closed"} THEN reply[c]
                                     ELSE "dropped"]
    /\ UNCHANGED <<login, issued, state, taken, importVars, now>>

AllQuiet == /\ \A c \in Callbacks : pc[c] = "closed"
            /\ UNCHANGED vars

CallbackStep(c) == \/ MissingParameter(c) \/ Consume(c)
                   \/ Invalid(c) \/ NotConfigured(c) \/ Valid(c)
                   \/ Exchanged(c) \/ UpstoxFails(c) \/ Fetched(c)
                   \/ Disconnect(c)

Next == \/ \E l \in Logins : Login(l) \/ LoginRefused(l)
        \/ \E c \in Callbacks : CallbackStep(c)
        \/ ClockTicks \/ Restart \/ AllQuiet

Spec == Init /\ [][Next]_vars

----------------------------------------------------------------------------
CallbackPlaces == {"idle", "validating", "exchanging", "fetching", "closed"}
Replies == {"none", "invalid_callback", "invalid_state", "not_configured", "upstox_error",
            "insufficient_holdings", "imported", "dropped"}

Portfolios == {<<>>} \cup
    {WeightsOf(NseOf(account)) : account \in Accounts}

\* The variables stay in their types.
TypeOK == /\ key \in BOOLEAN /\ secret \in BOOLEAN
          /\ map \in [Logins -> SUBSET Nat]
          /\ login \in [Logins -> {"idle", "redirected", "not_configured"}]
          /\ issued \in [Logins -> Nat]
          /\ pc \in [Callbacks -> CallbackPlaces]
          /\ state \in [Callbacks -> Logins \cup {NoState}]
          /\ taken \in [Callbacks -> SUBSET Nat]
          /\ reply \in [Callbacks -> Replies]
          /\ holdings \in [Callbacks -> {<<>>} \cup Accounts]
          /\ portfolio \in [Callbacks -> Portfolios]
          /\ now \in Nat /\ restarts \in Nat

\* A callback reaches Upstox only past the check of its state.
ReachedUpstox(c) ==
    \/ InCalls(c)
    \/ reply[c] \in {"upstox_error", "insufficient_holdings", "imported"}

\* A login is redeemed once: two callbacks with the same state, one after the
\* other or at the same time, do not both reach Upstox, whatever became of the
\* first; and the second has nothing left to find.
RedeemedOnce ==
    /\ \A c, d \in Callbacks :
          ReachedUpstox(c) /\ ReachedUpstox(d) /\ state[c] = state[d] => c = d
    /\ \A c \in Callbacks : state[c] # NoState => map[state[c]] = Nothing

\* A callback goes to Upstox only for a state of a login that was answered less
\* than the TTL ago.
RedeemedInTime ==
    [][\A c \in Callbacks :
          (~InCalls(c) /\ InCalls(c)') =>
              /\ state[c] # NoState
              /\ login[state[c]] = "redirected"
              /\ now - issued[state[c]] < Ttl]_vars

\* An imported portfolio has a weight for each NSE holding, the weights add up
\* to the whole, and none is further from its holding's share of the value than
\* the roundings of the others can push it, half a unit each: the rest that the
\* last one takes hides no holding that was dropped or counted twice.
ImportedWhole ==
    \A c \in Callbacks :
        reply[c] = "imported" =>
            LET nse   == NseOf(holdings[c])
                total == Value(nse)
                off(k) == 2 * (portfolio[c][k] * total - nse[k].value * Unit)
                most  == (Cardinality(DOMAIN nse) - 1) * total
            IN  /\ DOMAIN portfolio[c] = DOMAIN nse
                /\ Total(portfolio[c]) = Unit
                /\ total > 0 =>
                      \A k \in DOMAIN nse : off(k) <= most /\ -off(k) <= most

=============================================================================
