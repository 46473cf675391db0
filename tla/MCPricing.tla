----------------------------- MODULE MCPricing -----------------------------
(***************************************************************************)
(* The pricing operators over bounded inputs.  A behaviour takes a cart    *)
(* with one line, computes its totals, and may then take one more unit of  *)
(* the product and compute them again.                                     *)
(***************************************************************************)
EXTENDS Pricing

CONSTANTS MaxPrice,        \* unit prices 1..MaxPrice, in cents
          Percentages,     \* product discounts, hundredths of a percent
          Coupons,         \* coupons as Pricing describes them
          TaxRates,        \* tax rates, hundredths of a percent
          MaxQuantity

\* Discount.percentage has a minimum and no maximum but its five digits.
LargestPercentage == 99999
ASSUME PercentagesAssumption == Percentages \subseteq 0 .. LargestPercentage
\* Cart.tax_rate, too, has a minimum and no maximum.
ASSUME TaxRatesAssumption == TaxRates \subseteq Nat
ASSUME BoundsAssumption == MaxPrice \in Nat /\ MaxQuantity \in Nat
ASSUME CouponsAssumption ==
  Coupons \subseteq [kind : {"percentage", "fixed", "blank", "none"}, value : Nat]

\* Values for the cfg, which cannot write records.
SomeCoupons ==
  [kind : {"percentage"}, value : {1, 1250, 3333, 9999, 20000}]
    \cup [kind : {"fixed"}, value : {1, 40, 500}]
    \cup [kind : {"blank", "none"}, value : {0}]

VARIABLES price, percentage, quantity, coupon, taxRate, quote

vars == <<price, percentage, quantity, coupon, taxRate, quote>>

NoQuote == [subtotal |-> 0, discount |-> 0, tax |-> 0, total |-> 0]

Init ==
  /\ price \in 1 .. MaxPrice
  /\ percentage \in Percentages
  /\ coupon \in Coupons
  /\ taxRate \in TaxRates
  /\ quantity = 0
  /\ quote = NoQuote

AddUnit ==
  /\ quantity < MaxQuantity
  /\ quantity' = quantity + 1
  /\ quote' = Totals(EffectivePrice(price, percentage) * quantity', coupon, taxRate)
  /\ UNCHANGED <<price, percentage, coupon, taxRate>>

Next == AddUnit

Spec == Init /\ [][Next]_vars

-----------------------------------------------------------------------------
Distance(a, b) == IF a >= b THEN a - b ELSE b - a

\* The effective price is the nearest cent to the exact discounted price, an
\* exact half going to the even cent (apps/products/services.py,
\* get_effective_price: "never undercharge due to truncation"), and at most the
\* list price; up to 100% it is not less than nothing.
EffectivePriceIsNearest ==
  LET exact == price * (Scale - percentage)
      e     == EffectivePrice(price, percentage)
  IN  /\ e <= price
      /\ percentage <= Scale => e >= 0
      /\ \A c \in e - 1 .. e + 1 :
           /\ Distance(e * Scale, exact) <= Distance(c * Scale, exact)
           /\ (c # e /\ Distance(e * Scale, exact) = Distance(c * Scale, exact))
                => e % 2 = 0

\* "Never discount more than the subtotal" (apps/cart/services.py,
\* coupon_discount), whatever the coupon, a percentage above 100 included, and
\* whatever the product's discount; so no cart of products that cost something
\* is worth less than nothing.
DiscountWithinSubtotal ==
  /\ coupon.kind # "none" => quote.discount <= quote.subtotal
  /\ percentage <= Scale => quote.discount >= 0 /\ quote.total >= 0

\* One more unit never makes the bill smaller, although the coupon and the
\* tax are both rounded, unless the product's discount is above 100%.
MoreIsNeverCheaper == [][percentage <= Scale => quote'.total >= quote.total]_vars
=============================================================================
