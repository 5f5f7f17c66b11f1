----------------------------- MODULE CartStore ------------------------------
(***************************************************************************)
(* The cart service as its callers may think of it: every request that     *)
(* changes the carts table takes effect in one step, its commit.           *)
(*                                                                         *)
(* One thing is looser than one would wish.  The lookup of the active cart *)
(* locks rows, and where there is no row there is nothing to lock: an      *)
(* insert that was decided when the user had no active cart may commit     *)
(* when there is one.  CartService models the lookups, locks and commits   *)
(* one by one and is checked to implement this module.                     *)
(***************************************************************************)
EXTENDS Platform, CartLines

CONSTANTS
    Qtys,             \* the quantities of a request
    CartInputs,       \* the product lists of CreateCart and UpdateCart
    PutStatuses,      \* the status of an UpdateCart request, a free string
    MaxCarts          \* bound: carts ever inserted

ASSUME CartStoreAssumption == MaxCarts \in Nat

VARIABLES
    carts,            \* the carts table: id -> [owner, lines, status]
    nextCart          \* the serial the next INSERT takes

cartVars == <<carts, nextCart>>

CartRow(u, lines, st) == [owner |-> u, lines |-> lines, status |-> st]

CartStatuses == {"active", "paid"} \cup PutStatuses

\* (variant) the lookup forgets status='active'
ActiveCarts_AnyStatus(u) == {c \in DOMAIN carts : carts[c].owner = u}

ActiveCarts(u) ==
    {c \in DOMAIN carts : carts[c].owner = u /\ carts[c].status = "active"}

CartInit ==
    /\ carts = [c \in {} |-> CartRow(0, <<>>, "active")]
    /\ nextCart = 1

-----------------------------------------------------------------------------
(* Statements. *)

\* (variant) the id of a row is not taken from the serial
InsertCart_SameSerial(u, lines) ==
    /\ nextCart <= MaxCarts
    /\ carts' = [c \in DOMAIN carts \cup {nextCart} |->
                    IF c = nextCart THEN CartRow(u, lines, "active")
                                    ELSE carts[c]]
    /\ UNCHANGED nextCart

InsertCart(u, lines) ==
    /\ nextCart <= MaxCarts
    /\ carts' = [c \in DOMAIN carts \cup {nextCart} |->
                    IF c = nextCart THEN CartRow(u, lines, "active")
                                    ELSE carts[c]]
    /\ nextCart' = nextCart + 1

PutCart(c, lines, st) ==
    /\ carts' = [carts EXCEPT ![c] = CartRow(carts[c].owner, lines, st)]
    /\ UNCHANGED nextCart

SetLines(c, lines) == PutCart(c, lines, carts[c].status)

SetStatus(c, st) == PutCart(c, carts[c].lines, st)

-----------------------------------------------------------------------------
(* Requests.  A request that is refused changes nothing and is not a step. *)

CreateCart(u, lines) ==
    \/ \E c \in ActiveCarts(u) : SetLines(c, MergeLines(carts[c].lines, lines))
    \/ InsertCart(u, lines)

AddToCart(u, p, q) ==
    \/ \E c \in ActiveCarts(u) : SetLines(c, AddLine(carts[c].lines, p, q))
    \/ InsertCart(u, <<Line(p, q)>>)

UpdateProductQty(u, p, q) ==
    \E c \in ActiveCarts(u) : SetLines(c, SetQty(carts[c].lines, p, q))

RemoveProductFromCart(u, p) ==
    \E c \in ActiveCarts(u) :
        /\ InCart(carts[c].lines, p)
        /\ SetLines(c, RemoveLines(carts[c].lines, p))

CheckoutCart(u) == \E c \in ActiveCarts(u) : SetStatus(c, "paid")

\* PUT replaces the products and the status of any cart, whatever its status.
UpdateCart(c, lines, st) == c \in DOMAIN carts /\ PutCart(c, lines, st)

DeleteCart(c, u) ==
    /\ c \in DOMAIN carts
    /\ carts[c].owner = u
    /\ carts' = [d \in DOMAIN carts \ {c} |-> carts[d]]
    /\ UNCHANGED nextCart

\* GetCart: the replies that are not errors; only the owner is answered.
GetCart(c, u) ==
    IF c \in DOMAIN carts /\ carts[c].owner = u THEN {carts[c]} ELSE {}

-----------------------------------------------------------------------------
(* The consumer of "cart.paid". *)

\* (variant) WHERE owner_id = ? AND status = ?, without the id of the cart
HandleCartCheckedOut_ByOwner ==
    /\ HasMessage(cartPaid)
    /\ LET event == Head(cartPaid.queue)
       IN  IF ActiveCarts(event.user) # {}
           THEN \E c \in ActiveCarts(event.user) : SetStatus(c, "paid")
           ELSE UNCHANGED cartVars
    /\ cartPaid' = Consumed(cartPaid)

HandleCartCheckedOut ==
    /\ HasMessage(cartPaid)
    /\ LET event == Head(cartPaid.queue)
       IN  IF event.cart \in ActiveCarts(event.user)
           THEN SetStatus(event.cart, "paid")
           ELSE UNCHANGED cartVars
    /\ cartPaid' = Consumed(cartPaid)

\* The UPDATE fails: logged, and the message is not seen again.
HandleCartCheckedOutFails ==
    /\ "dberror" \in Faults
    /\ HasMessage(cartPaid)
    /\ cartPaid' = Consumed(cartPaid)
    /\ UNCHANGED cartVars

CartServiceCrashes ==
    /\ "crash" \in Faults
    /\ cartPaid' = Unsubscribed
    /\ UNCHANGED cartVars

\* The consumer of a started process subscribes, after its HTTP and gRPC
\* servers began to answer.
CartServiceSubscribes ==
    /\ ~cartPaid.up
    /\ cartPaid' = Subscribed
    /\ UNCHANGED cartVars

CartRequest ==
    \/ \E u \in Users :
          \/ \E lines \in CartInputs : CreateCart(u, lines)
          \/ \E p \in Products, q \in Qtys :
                AddToCart(u, p, q) \/ UpdateProductQty(u, p, q)
          \/ \E p \in Products : RemoveProductFromCart(u, p)
          \/ CheckoutCart(u)
          \/ \E c \in DOMAIN carts : DeleteCart(c, u)
    \/ \E c \in DOMAIN carts, lines \in CartInputs, st \in PutStatuses :
          UpdateCart(c, lines, st)

CartConsumer ==
    \/ HandleCartCheckedOut
    \/ HandleCartCheckedOutFails
    \/ CartServiceCrashes
    \/ CartServiceSubscribes

\* A step of the cart service among the services of an order.
CartNext ==
    \/ CartRequest /\ UNCHANGED cartPaid
    \/ CartConsumer

-----------------------------------------------------------------------------
(* The cart service on its own: any event of one of its carts may arrive.  *)

cartStoreVars == <<cartVars, platformVars>>

CartPaidArrives ==
    /\ Len(cartPaid.queue) < MaxSends
    /\ \E c \in DOMAIN carts :
          cartPaid' = Appended(cartPaid,
                          [cart |-> c, user |-> carts[c].owner, tx |-> c])
    /\ UNCHANGED cartVars

CartStoreSpec ==
    /\ PlatformInit /\ CartInit
    /\ [][(CartNext \/ CartPaidArrives)
             /\ UNCHANGED <<paymentPaid, clock>>]_cartStoreVars
=============================================================================
