-------------------------- MODULE MCPortfolioUpload --------------------------
(***************************************************************************)
(* Instances of PortfolioUpload for TLC.  A table with one ISIN and three  *)
(* that are asked for, more than a batch; files that repeat a ticker, an   *)
(* ISIN, or both under one ticker.  The artifact needs six equal rows,     *)
(* which round up by two units together, and a row of no shares.           *)
(***************************************************************************)
EXTENDS PortfolioUpload

CONSTANTS TCS, INFY, Table, New, Fund, Old

Row(t, a) == [ticker |-> t, amount |-> a]

TableSymbols == [i \in {Table} |-> TCS]
Structures == [i \in {Table, New, Fund, Old} |->
                 IF i = Fund THEN "non_equity" ELSE "not_found"]

MixedFiles ==
    {<<Row(New, 60), Row(Fund, 40)>>,
     <<Row(TCS, 30), Row(New, 30), Row(Table, 40)>>,
     <<Row(New, 20), Row(INFY, 60), Row(New, 20)>>,
     <<Row(Old, 40), Row(TCS, 1), Row(Fund, 20), Row(New, 40), Row(Old, 40)>>,
     <<Row(TCS, 30), Row(INFY, 70)>>, <<Row(TCS, 20), Row(INFY, 30)>>,
     <<Row(TCS, 100)>>, <<>>}

ArtifactFiles == {<<Row(TCS, 5), Row(INFY, 5), Row(TCS, 5), Row(INFY, 5), Row(TCS, 5),
                    Row(INFY, 5), Row(t, a)>> : t \in {TCS, INFY}, a \in 0..60}

=============================================================================
