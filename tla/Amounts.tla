------------------------------ MODULE Amounts -------------------------------
(***************************************************************************)
(* What a transaction costs: an int64 that grows line by line by           *)
(* int64(price) * int64(qty), both uint32.  Neither the product nor the    *)
(* sum is checked for overflow.                                            *)
(***************************************************************************)
EXTENDS Integers, Sequences

CONSTANT Int64Half    \* an int64 has the values -Int64Half .. Int64Half - 1

ASSUME AmountsAssumption == Int64Half \in Nat \ {0}

Wrap64(x) == ((x + Int64Half) % (2 * Int64Half)) - Int64Half

\* (variant) total = sub
Added_LastLine(total, price, qty) == Wrap64(price * qty)

\* total += sub
Added(total, price, qty) == Wrap64(total + Wrap64(price * qty))

\* The loop over the lines of a cart, at the prices the product service answers.
AmountOf(lines, prices) ==
    LET total[n \in 0..Len(lines)] ==
            IF n = 0 THEN 0 ELSE Added(total[n - 1], prices[lines[n].id], lines[n].qty)
    IN  total[Len(lines)]
=============================================================================
