----------------------------- MODULE CartEdits ------------------------------
(***************************************************************************)
(* One products list, edited by any sequence of requests, compared with    *)
(* what it stands for: a number of pieces of each product, and an amount.  *)
(***************************************************************************)
EXTENDS CartLines, Amounts

CONSTANTS
    Products,
    MaxIncoming,      \* bound: lines of one request
    MaxLines          \* bound: a longer list is not edited further

VARIABLES
    lines,            \* the list
    request           \* the request that led to it

ASSUME CartEditsAssumption == MaxIncoming \in Nat

LineSet == [id : Products, qty : 0..(Uint32 - 1)]

Incoming == BoundedSeq(LineSet, MaxIncoming)

SumOf(numbers) ==
    LET sum[n \in 0..Len(numbers)] == IF n = 0 THEN 0 ELSE sum[n - 1] + numbers[n]
    IN  sum[Len(numbers)]

PiecesIn(list, p) == [i \in DOMAIN list |-> IF list[i].id = p THEN list[i].qty ELSE 0]

\* The reference: how many pieces of p the list stands for, as a uint32.
Pieces(list, p) == SumOf(PiecesIn(list, p)) % Uint32

NoDuplicates(list) ==
    \A i, j \in DOMAIN list : list[i].id = list[j].id => i = j

\* A new cart, and a PUT, store the list of the request as it is.
Init == lines \in Incoming /\ request = [name |-> "put"]

AddPieces == \E p \in Products, q \in 0..(Uint32 - 1) :
    /\ lines' = AddLine(lines, p, q)
    /\ request' = [name |-> "add", id |-> p, qty |-> q]

MergePieces == \E incoming \in Incoming :
    /\ lines' = MergeLines(lines, incoming)
    /\ request' = [name |-> "merge", incoming |-> incoming]

SetPieces == \E p \in Products, q \in 0..(Uint32 - 1) :
    /\ lines' = SetQty(lines, p, q)
    /\ request' = [name |-> "set", id |-> p, qty |-> q]

RemoveProduct == \E p \in Products :
    /\ InCart(lines, p)
    /\ lines' = RemoveLines(lines, p)
    /\ request' = [name |-> "set", id |-> p, qty |-> 0]

Next == Len(lines) <= MaxLines /\ (AddPieces \/ MergePieces \/ SetPieces \/ RemoveProduct)

listVars == <<lines, request>>

Spec == Init /\ [][Next]_listVars

-----------------------------------------------------------------------------

\* AddToCart and CreateCart never lose or invent a piece: afterwards the list
\* stands for the pieces it stood for and those of the request, product by
\* product and modulo 2^32, whether or not a product had several lines.
PiecesAdd ==
    [][\A p \in Products :
          /\ request'.name = "add" =>
                Pieces(lines', p) = Pieces(Append(lines,
                    Line(request'.id, request'.qty)), p)
          /\ request'.name = "merge" =>
                Pieces(lines', p) = Pieces(lines \o request'.incoming, p)]_listVars

\* UpdateProductQty and RemoveProductFromCart reach every line of the product
\* and no other: no stale duplicate line survives with another quantity.
PiecesSet ==
    [][request'.name = "set" =>
          /\ \A l \in Range(lines') : l.id = request'.id => l.qty = request'.qty
          /\ InCart(lines', request'.id) <=> request'.qty # 0
          /\ \A p \in Products \ {request'.id} :
                Pieces(lines', p) = Pieces(lines, p)]_listVars

\* No request gives a product a second line once every product has one: only
\* the list of a new cart or of a PUT can bring duplicates in.
DuplicatesOnlyFromPut == [][NoDuplicates(lines) => NoDuplicates(lines')]_listVars

\* What each line costs.
Costs(list, prices) == [i \in DOMAIN list |-> prices[list[i].id] * list[i].qty]

\* A transaction is charged for every piece the list stands for, duplicate lines
\* included: exactly, if the sum fits an int64; otherwise, and one line is enough
\* for that, what is charged differs from it by whole turns of 2^64.
AmountIsExact ==
    \A prices \in [Products -> 0..(Uint32 - 1)] :
        LET exact == SumOf(Costs(lines, prices))
            charged == AmountOf(lines, prices)
        IN  /\ exact < Int64Half => charged = exact
            /\ (exact - charged) % (2 * Int64Half) = 0
            /\ charged \in -Int64Half .. Int64Half - 1

\* Lines keep their type: a quantity is a uint32 after every addition.
LinesTypeOK == lines \in Seq(LineSet)
=============================================================================
