---------------------------- MODULE MCUpstoxOAuth ----------------------------
(***************************************************************************)
(* An instance of UpstoxOAuth for TLC: two logins and three callbacks, so  *)
(* that a state comes back twice beside another's.                         *)
(***************************************************************************)
EXTENDS UpstoxOAuth, TLC

CONSTANTS l1, l2, c1, c2, c3

Nse(value) == [exchange |-> "NSE_EQ", value |-> value]
Abroad(value) == [exchange |-> "NASDAQ", value |-> value]

\* Shares that round down, that round up beyond the whole, a last one of
\* nothing after them (which gets less than nothing), nothing at all.
MCAccounts ==
    {<<Nse(1), Abroad(1)>>,
     <<Nse(1), Abroad(5), Nse(1), Nse(1)>>,
     <<Nse(1), Nse(1), Nse(1), Nse(1), Nse(1), Nse(1), Nse(0)>>,
     <<Nse(0), Nse(0)>>}

Alike == Permutations({l1, l2}) \cup Permutations({c1, c2, c3})

=============================================================================
