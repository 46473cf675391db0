------------------------------ MODULE Pricing ------------------------------
(***************************************************************************)
(* The price rules of the products and cart services as operators on       *)
(* integers.  Money is a whole number of cents and a percentage a whole    *)
(* number of hundredths of a percent, the two decimal places the models'   *)
(* DecimalFields keep: 8.25% is 825.  Their exact product is therefore a   *)
(* number of ten-thousandths of a cent, and Decimal.quantize brings it     *)
(* back to cents.                                                          *)
(***************************************************************************)
EXTENDS Integers

Scale == 10000

\* The two mutants of quantize: truncation, and a comparison turned round.
TruncateCents(n) == n \div Scale
RoundAwayCents(n) ==
  IF 2 * (n % Scale) > Scale THEN n \div Scale ELSE n \div Scale + 1

\* Decimal.quantize(Decimal("0.01")) of n ten-thousandths of a cent, in the
\* default context: to the nearest cent, a half to the even one.
Quantize(n) ==
  LET cents == n \div Scale
      rest  == n % Scale
  IN  IF 2 * rest < Scale \/ (2 * rest = Scale /\ cents % 2 = 0)
      THEN cents
      ELSE cents + 1

Lesser(a, b) == IF a <= b THEN a ELSE b

\* ProductService.get_effective_price with an active discount of
\* `percentage`, or with none (0).
EffectivePrice(price, percentage) == Quantize(price * (Scale - percentage))

-----------------------------------------------------------------------------
(***************************************************************************)
(* A coupon is [kind |-> "percentage" | "fixed" | "blank" | "none",        *)
(* value |-> Nat]: "blank" has neither a percentage nor an amount, and     *)
(* "none" is no coupon, or one that is not valid now.                      *)
(***************************************************************************)
ExactDiscount(coupon, subtotal) ==
  CASE coupon.kind = "percentage" -> subtotal * coupon.value
    [] coupon.kind = "fixed"      -> coupon.value * Scale
    [] coupon.kind = "blank"      -> 0

\* A mutant: the cap at the subtotal is forgotten.
UncappedDiscount(coupon, subtotal) ==
  IF coupon.kind = "none" THEN 0 ELSE Quantize(ExactDiscount(coupon, subtotal))

CouponDiscount(coupon, subtotal) ==
  IF coupon.kind = "none" THEN 0
  ELSE Quantize(Lesser(ExactDiscount(coupon, subtotal), subtotal * Scale))

TaxAmount(taxRate, taxable) == Quantize(taxable * taxRate)

\* CartService.totals, given the sum of the line totals.
Totals(subtotal, coupon, taxRate) ==
  LET discount == CouponDiscount(coupon, subtotal)
      taxable  == subtotal - discount
      tax      == TaxAmount(taxRate, taxable)
  IN  [subtotal |-> subtotal, discount |-> discount, tax |-> tax,
       total |-> taxable + tax]
=============================================================================
