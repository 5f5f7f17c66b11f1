----------------------------- MODULE CartLines ------------------------------
(***************************************************************************)
(* The products column of a cart: a JSON list of {id, qty}, edited as a    *)
(* whole by the cart service.  Quantities are added as 64-bit uint and     *)
(* stored back through uint32(p.Qty), hence modulo Uint32.                 *)
(***************************************************************************)
EXTENDS Integers, SequencesExt

CONSTANT Uint32       \* the number of values of a uint32

ASSUME CartLinesAssumption == Uint32 \in Nat \ {0}

Line(p, q) == [id |-> p, qty |-> q]

Positions(lines, p) == {i \in DOMAIN lines : lines[i].id = p}

InCart(lines, p) == Positions(lines, p) # {}

\* (variant) the sum is stored without its conversion to uint32
AddQty_NoWrap(lines, i, q) == [lines EXCEPT ![i].qty = @ + q]

AddQty(lines, i, q) == [lines EXCEPT ![i].qty = (@ + q) % Uint32]

\* (variant) a product that is in the cart gets the quantity of the request
AddLine_Overwrite(lines, p, q) ==
    IF InCart(lines, p)
    THEN LET first == CHOOSE i \in Positions(lines, p) :
                          \A j \in Positions(lines, p) : i <= j
         IN  [lines EXCEPT ![first].qty = q]
    ELSE Append(lines, Line(p, q))

\* AddToCart: the first line of the product grows, or a line is appended.
AddLine(lines, p, q) ==
    IF InCart(lines, p)
    THEN LET first == CHOOSE i \in Positions(lines, p) :
                          \A j \in Positions(lines, p) : i <= j
         IN  AddQty(lines, first, q)
    ELSE Append(lines, Line(p, q))

\* (variant) idxMap is not told of the lines that are appended
MergeLines_StaleIndex(lines, incoming) ==
    LET StaleOne(acc, in) ==
            IF InCart(lines, in.id)
            THEN LET last == CHOOSE i \in Positions(lines, in.id) :
                                 \A j \in Positions(lines, in.id) : j <= i
                 IN  AddQty(acc, last, in.qty)
            ELSE Append(acc, in)
    IN  FoldLeft(StaleOne, lines, incoming)

\* One turn of CreateCart's loop: idxMap holds the last line of a product, and
\* the line appended for a new one.
MergeOne(lines, in) ==
    IF InCart(lines, in.id)
    THEN LET last == CHOOSE i \in Positions(lines, in.id) :
                         \A j \in Positions(lines, in.id) : j <= i
         IN  AddQty(lines, last, in.qty)
    ELSE Append(lines, in)

\* CreateCart on an existing cart, after all the lines of the request.
MergeLines(lines, incoming) ==
    LET merged[n \in 0..Len(incoming)] ==
            IF n = 0 THEN lines ELSE MergeOne(merged[n - 1], incoming[n])
    IN  merged[Len(incoming)]

\* RemoveProductFromCart, and UpdateProductQty with qty 0.
RemoveLines(lines, p) ==
    LET kept[n \in 0..Len(lines)] ==
            IF n = 0 THEN <<>>
            ELSE IF lines[n].id = p THEN kept[n - 1] ELSE Append(kept[n - 1], lines[n])
    IN  kept[Len(lines)]

\* (variant) the loop stops at the first line of the product
SetQty_First(lines, p, q) ==
    IF InCart(lines, p)
    THEN LET first == CHOOSE i \in Positions(lines, p) :
                          \A j \in Positions(lines, p) : i <= j
         IN  IF q = 0 THEN RemoveAt(lines, first)
                      ELSE [lines EXCEPT ![first].qty = q]
    ELSE IF q = 0 THEN lines ELSE Append(lines, Line(p, q))

\* UpdateProductQty: 0 removes the product, any other quantity replaces the
\* one of every line of the product, or is appended.
SetQty(lines, p, q) ==
    IF q = 0 THEN RemoveLines(lines, p)
    ELSE IF InCart(lines, p)
         THEN [i \in DOMAIN lines |->
                  IF lines[i].id = p THEN Line(p, q) ELSE lines[i]]
         ELSE Append(lines, Line(p, q))
=============================================================================
