--------------------------------- MODULE Totals ---------------------------------
(***************************************************************************)
(* The sums of this program: `.iter().sum()` over the rows of a file, the  *)
(* holdings of a portfolio, the days of a series, the states of a model.   *)
(***************************************************************************)
EXTENDS Integers

(* The sum of the values of a function of numbers with a finite domain.    *)
Total(f) ==
    LET sum[S \in SUBSET DOMAIN f] ==
          IF S = {} THEN 0
          ELSE LET x == CHOOSE x \in S : TRUE IN f[x] + sum[S \ {x}]
    IN  sum[DOMAIN f]

=============================================================================
