-------------------------------- MODULE Sums --------------------------------
(***************************************************************************)
(* The sum of a function's values.  The community modules define it by a   *)
(* fold, whose higher-order parameters the provers cannot reason about;    *)
(* this first-order form computes the same and its typing is a theorem     *)
(* (Sums_proofs).                                                          *)
(***************************************************************************)
EXTENDS Integers

Pick(S) == CHOOSE x \in S : TRUE

\* The sums of f over every subset of its domain.
SumTable(f) ==
    LET sum[T \in SUBSET DOMAIN f] ==
          IF T = {} THEN 0 ELSE f[Pick(T)] + sum[T \ {Pick(T)}]
    IN  sum

SumOver(f) == SumTable(f)[DOMAIN f]

\* The sum over a part of the domain.
SumIn(f, S) == SumTable(f)[S]
=============================================================================
