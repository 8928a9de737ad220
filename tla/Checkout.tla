------------------------------ MODULE Checkout ------------------------------
(***************************************************************************)
(* What an order costs: PlaceOrder reads the price of one product after    *)
(* the other, a coupon takes something off, and the payment service        *)
(* charges the final price, while an administrator edits prices and makes  *)
(* coupons.                                                                *)
(*                                                                         *)
(* Prices and fixed discounts are in cents.  The money of a bill is in     *)
(* hundredths of a cent, so that a percentage of it is exact.  The code    *)
(* computes in floating point: where that can show, in the charge, it is a *)
(* choice.                                                                 *)
(***************************************************************************)
EXTENDS Requests, Integers, FiniteSets, FiniteSetsExt

CONSTANTS Goods, Prices,
          Quantities, \* units of a product that a line asks for
          Offers      \* coupons that administrators ask for, valid or not

Kinds == {"fixed", "percentage"}

(* The type of discount, its value and the least total it is for *)
CouponRow(c) == c.kind \in Kinds /\ c.value \in Int /\ c.least \in Int

ASSUME CheckoutAssumption ==
    /\ Prices \subseteq Nat
    /\ Quantities \subseteq Nat \ {0}
    /\ \A c \in Offers : CouponRow(c)
    /\ None \notin Offers

VARIABLES
  price,  \* products.price
  coupon, \* the coupon that the buyer's code names
  usable, \* it has not expired and is not used up
  bill,   \* the order: its lines, what is to be priced yet, and the sums
  charge  \* the amount of the payment intent, in cents

checkoutVars == <<price, coupon, usable, bill, charge, left>>

NoBill == [at |-> "none", units |-> [g \in Goods |-> 0], todo |-> {},
           line |-> [g \in Goods |-> 0], total |-> 0, discount |-> 0, kind |-> None,
           value |-> 0]

CheckoutInit ==
    /\ price \in [Goods -> Prices]
    /\ coupon = None
    /\ usable = TRUE
    /\ bill = NoBill
    /\ charge = None
    /\ left = MaxRequests

-----------------------------------------------------------------------------

Reprice(g, x) ==
    /\ NextRequest
    /\ price' = [price EXCEPT ![g] = x]
    /\ UNCHANGED <<coupon, usable, bill, charge>>

(* validate:"gt=0" and validate:"gte=0"; the kind is fixed or percentage *)
ValidOffer(c) == c.value > 0 /\ c.least >= 0

CreateCoupon(c) ==
    /\ NextRequest
    /\ coupon = None
    /\ ValidOffer(c)
    /\ coupon' = c
    /\ UNCHANGED <<price, usable, bill, charge>>

(* Its date passes, or other orders use it up *)
CouponEnds ==
    /\ usable
    /\ usable' = FALSE
    /\ UNCHANGED <<price, coupon, bill, charge, left>>

SendOrder(u) ==
    /\ bill.at = "none"
    /\ NextRequest
    /\ bill' = [NoBill EXCEPT !.at = "pricing", !.units = u, !.todo = {g \in Goods : u[g] > 0}]
    /\ UNCHANGED <<price, coupon, usable, charge>>

(* A line's price is the product's price, as it is now, times the quantity *)
PriceLine(g) ==
    /\ bill.at = "pricing" /\ g \in bill.todo
    /\ bill' = [bill EXCEPT !.todo = @ \ {g},
                            !.line[g] = price[g] * bill.units[g],
                            !.total = @ + 100 * price[g] * bill.units[g]]
    /\ UNCHANGED <<price, coupon, usable, charge, left>>

(* [variant] a fixed discount is taken off as it is *)
DiscountUncapped(c, total) ==
    IF c.kind = "fixed" THEN 100 * c.value ELSE (total \div 100) * c.value

(* A fixed discount is at most the total; a percentage is taken as it is *)
Discount(c, total) ==
    IF c.kind = "percentage" THEN (total \div 100) * c.value
    ELSE IF 100 * c.value > total THEN total ELSE 100 * c.value

(* Apply checks the coupon, then the order is saved *)
PlaceWithCoupon ==
    /\ bill.at = "pricing" /\ bill.todo = {}
    /\ coupon # None /\ usable
    /\ bill.total >= 100 * coupon.least
    /\ bill' = [bill EXCEPT !.at = "placed", !.discount = Discount(coupon, bill.total),
                            !.kind = coupon.kind, !.value = coupon.value]
    /\ UNCHANGED <<price, coupon, usable, charge, left>>

PlaceWithout ==
    /\ bill.at = "pricing" /\ bill.todo = {}
    /\ bill' = [bill EXCEPT !.at = "placed"]
    /\ UNCHANGED <<price, coupon, usable, charge, left>>

(* A product, the coupon or a statement fails the request *)
RefuseOrder ==
    /\ bill.at = "pricing"
    /\ bill' = NoBill
    /\ UNCHANGED <<price, coupon, usable, charge, left>>

Final == bill.total - bill.discount

(* int64(final * 100): towards zero; the product of floats may come out just
   below a whole number of cents *)
Whole(x) == {x \div 100} \cup {n \in {x \div 100 - 1} : x % 100 = 0 /\ x > 0}

MinorUnits(x) == IF x >= 0 THEN Whole(x) ELSE {- n : n \in Whole(- x)}

CreateIntent ==
    /\ bill.at = "placed"
    /\ charge = None
    /\ charge' \in MinorUnits(Final)
    /\ UNCHANGED <<price, coupon, usable, bill, left>>

CheckoutNext ==
    \/ \E g \in Goods : PriceLine(g) \/ \E x \in Prices : Reprice(g, x)
    \/ \E c \in Offers : CreateCoupon(c)
    \/ CouponEnds
    \/ \E u \in [Goods -> Quantities \cup {0}] : u # NoBill.units /\ SendOrder(u)
    \/ PlaceWithCoupon \/ PlaceWithout \/ RefuseOrder
    \/ CreateIntent

CheckoutSpec == CheckoutInit /\ [][CheckoutNext]_checkoutVars

-----------------------------------------------------------------------------

OverOneHundred == bill.kind = "percentage" /\ bill.value > 100

(* The bill of a placed order adds up, whatever became of the prices meanwhile;
   unless its coupon is one of more than 100 percent, the final price is neither
   negative nor above the total, and the charge is at most the final price and
   at most a cent below it (internal/order/service/coupon.go:54-83,
   order.go:97-110, internal/payment/service/service.go:76) *)
BillsAddUp ==
    bill.at = "placed" =>
      /\ bill.total = 100 * SumFunctionOnSet(bill.line, Goods)
      /\ OverOneHundred \/ Final \in 0..bill.total
      /\ OverOneHundred \/ charge = None \/ Final - 100 * charge \in 0..100

=============================================================================
