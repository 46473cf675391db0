--------------------------- MODULE PricingProofs ---------------------------
(***************************************************************************)
(* The price rules for every price, discount, coupon, tax rate and         *)
(* quantity.                                                               *)
(***************************************************************************)
EXTENDS MCPricing, TLAPS

\* Decimal.quantize rounds to a nearest cent, and a half to the even one.
LEMMA QuantizeNearest ==
  ASSUME NEW n \in Int
  PROVE  /\ Quantize(n) \in Int
         /\ 2 * (n - Quantize(n) * Scale) <= Scale
         /\ 2 * (Quantize(n) * Scale - n) <= Scale
         /\ 2 * (n - Quantize(n) * Scale) = Scale => Quantize(n) % 2 = 0
         /\ 2 * (Quantize(n) * Scale - n) = Scale => Quantize(n) % 2 = 0
<1>1. /\ n \div Scale \in Int
      /\ n % Scale \in 0 .. Scale - 1
      /\ n = (n \div Scale) * Scale + (n % Scale)
  BY DEF Scale
<1>2. PICK q \in Int, r \in 0 .. Scale - 1 :
        q = n \div Scale /\ r = n % Scale /\ n = q * Scale + r
  BY <1>1
<1>3. Quantize(n) = IF 2 * r < Scale \/ (2 * r = Scale /\ q % 2 = 0) THEN q ELSE q + 1
  BY <1>2 DEF Quantize
<1>4. q % 2 # 0 => (q + 1) % 2 = 0
  OBVIOUS
<1> QED
  BY <1>2, <1>3, <1>4 DEF Scale

\* Only a nearest cent can be the result, so a greater amount is never
\* quantized to less, and a whole number of cents is kept.
LEMMA QuantizeMonotone ==
  ASSUME NEW m \in Int, NEW n \in Int, m <= n
  PROVE  Quantize(m) <= Quantize(n)
<1>1. PICK a \in Int, b \in Int : a = Quantize(m) /\ b = Quantize(n)
  BY QuantizeNearest
<1>2. /\ 2 * (m - a * Scale) <= Scale
      /\ 2 * (a * Scale - m) <= Scale
      /\ 2 * (a * Scale - m) = Scale => a % 2 = 0
  BY <1>1, QuantizeNearest
<1>3. /\ 2 * (n - b * Scale) <= Scale
      /\ 2 * (b * Scale - n) <= Scale
      /\ 2 * (n - b * Scale) = Scale => b % 2 = 0
  BY <1>1, QuantizeNearest
<1>4. ~ (a > b + 1)
  BY <1>2, <1>3 DEF Scale
<1>5. CASE a = b + 1
  <2>1. b % 2 = 0 /\ a % 2 = 0
    BY <1>2, <1>3, <1>5 DEF Scale
  <2> QED
    BY <2>1, <1>5
<1> QED
  BY <1>1, <1>4, <1>5

LEMMA QuantizeWhole ==
  ASSUME NEW k \in Int
  PROVE  Quantize(k * Scale) = k
<1>1. PICK n \in Int : n = k * Scale
  BY DEF Scale
<1>2. PICK q \in Int : q = Quantize(n)
  BY QuantizeNearest
<1>3. 2 * (n - q * Scale) <= Scale /\ 2 * (q * Scale - n) <= Scale
  BY <1>2, QuantizeNearest
<1>4. q = k
  BY <1>1, <1>3 DEF Scale
<1> QED
  BY <1>1, <1>2, <1>4

LEMMA QuantizeZero == Quantize(0) = 0
BY DEF Quantize, Scale

\* Less than k cents more is at most k cents more after rounding.
LEMMA QuantizeStep ==
  ASSUME NEW m \in Int, NEW n \in Int, NEW k \in Int, n < m + k * Scale
  PROVE  Quantize(n) <= Quantize(m) + k
<1>1. PICK a \in Int, b \in Int : a = Quantize(m) /\ b = Quantize(n)
  BY QuantizeNearest
<1>2. 2 * (m - a * Scale) <= Scale /\ 2 * (b * Scale - n) <= Scale
  BY <1>1, QuantizeNearest
<1> QED
  BY <1>1, <1>2 DEF Scale

-----------------------------------------------------------------------------
CouponRecord == [kind : {"percentage", "fixed", "blank", "none"}, value : Nat]

\* A product with two factors of unknown sign, for the solver.
LEMMA ProductInt ==
  ASSUME NEW a \in Int, NEW b \in Int
  PROVE  /\ a * b \in Int
         /\ a >= 0 /\ b >= 0 => a * b >= 0
OBVIOUS

LEMMA ProductMonotone ==
  ASSUME NEW a \in Int, NEW b \in Int, NEW k \in Nat, a <= b
  PROVE  a * k <= b * k
<1>1. (b - a) * k >= 0
  OBVIOUS
<1>2. (b - a) * k = b * k - a * k
  OBVIOUS
<1>3. a * k \in Int /\ b * k \in Int
  OBVIOUS
<1> QED
  BY <1>1, <1>2, <1>3

\* The discount in ten-thousandths of a cent, before it is quantized.
LEMMA ExactDiscountType ==
  ASSUME NEW c \in CouponRecord, c.kind # "none", NEW s \in Int
  PROVE  /\ ExactDiscount(c, s) \in Int
         /\ s >= 0 => ExactDiscount(c, s) >= 0
<1>1. c.kind \in {"percentage", "fixed", "blank", "none"} /\ c.value \in Nat
  BY DEF CouponRecord
<1>2. CASE c.kind = "percentage"
  <2>1. ExactDiscount(c, s) = s * c.value
    BY <1>2 DEF ExactDiscount
  <2> QED
    BY <2>1, <1>1, ProductInt
<1>3. CASE c.kind = "fixed"
  <2>1. ExactDiscount(c, s) = c.value * Scale
    BY <1>3 DEF ExactDiscount
  <2> QED
    BY <2>1, <1>1 DEF Scale
<1>4. CASE c.kind = "blank"
  <2>1. ExactDiscount(c, s) = 0
    BY <1>4 DEF ExactDiscount
  <2> QED
    BY <2>1
<1> QED
  BY <1>1, <1>2, <1>3, <1>4

\* coupon_discount never exceeds the subtotal, and never is less than
\* nothing on a subtotal that is not.
LEMMA CouponDiscountBounds ==
  ASSUME NEW c \in CouponRecord, NEW s \in Int
  PROVE  /\ CouponDiscount(c, s) \in Int
         /\ c.kind # "none" => CouponDiscount(c, s) <= s
         /\ s >= 0 => 0 <= CouponDiscount(c, s) /\ CouponDiscount(c, s) <= s
<1>1. CASE c.kind = "none"
  BY <1>1 DEF CouponDiscount
<1>2. CASE c.kind # "none"
  <2>1. PICK x \in Int : x = ExactDiscount(c, s) /\ (s >= 0 => x >= 0)
    BY <1>2, ExactDiscountType
  <2>2. PICK w \in Int : w = s * Scale
    BY DEF Scale
  <2>3. PICK y \in Int : y = Lesser(x, w) /\ y <= w /\ (s >= 0 => y >= 0)
    BY <2>1, <2>2 DEF Lesser, Scale
  <2>4. CouponDiscount(c, s) = Quantize(y)
    BY <1>2, <2>1, <2>2, <2>3 DEF CouponDiscount
  <2>5. Quantize(y) \in Int /\ Quantize(w) = s /\ Quantize(0) = 0
    <3>1. Quantize(0) = 0
      BY QuantizeZero
    <3>2. Quantize(w) = s
      BY <2>2, QuantizeWhole
    <3> QED
      BY <3>1, <3>2, QuantizeNearest
  <2>6. Quantize(y) <= s
    BY <2>2, <2>3, <2>5, QuantizeMonotone
  <2>7. s >= 0 => Quantize(y) >= 0
    BY <2>3, <2>5, QuantizeMonotone
  <2> QED
    BY <2>4, <2>5, <2>6, <2>7, <1>2
<1> QED
  BY <1>1, <1>2

\* What is left to pay for a greater subtotal is not less, although the
\* discount grows with it.
LEMMA TaxableMonotone ==
  ASSUME NEW c \in CouponRecord, NEW s \in Nat, NEW e \in Nat
  PROVE  s - CouponDiscount(c, s) <= (s + e) - CouponDiscount(c, s + e)
<1>1. c.kind \in {"percentage", "fixed", "blank", "none"} /\ c.value \in Nat
  BY DEF CouponRecord
<1>2. CASE c.kind = "none"
  BY <1>2 DEF CouponDiscount
<1>3. CASE c.kind = "blank"
  <2>1. CouponDiscount(c, s) = Quantize(0) /\ CouponDiscount(c, s + e) = Quantize(0)
    BY <1>3 DEF CouponDiscount, ExactDiscount, Lesser, Scale
  <2> QED
    BY <2>1, QuantizeNearest
<1>4. CASE c.kind = "fixed"
  <2>1. ASSUME NEW t \in Nat
        PROVE  CouponDiscount(c, t) = IF c.value <= t THEN c.value ELSE t
    <3>1. ExactDiscount(c, t) = c.value * Scale
      BY <1>4 DEF ExactDiscount
    <3>2. CouponDiscount(c, t) = Quantize(Lesser(c.value * Scale, t * Scale))
      BY <1>4, <3>1 DEF CouponDiscount
    <3>3. Lesser(c.value * Scale, t * Scale)
            = IF c.value <= t THEN c.value * Scale ELSE t * Scale
      BY <1>1 DEF Lesser, Scale
    <3>4. Quantize(c.value * Scale) = c.value /\ Quantize(t * Scale) = t
      BY <1>1, QuantizeWhole
    <3> QED
      BY <3>2, <3>3, <3>4
  <2>2. s + e \in Nat
    OBVIOUS
  <2> QED
    BY <2>1, <2>2, <1>1
<1>5. CASE c.kind = "percentage"
  <2> DEFINE v == c.value
  <2>1. v \in Nat
    BY <1>1
  <2>2. ASSUME NEW t \in Int
        PROVE  CouponDiscount(c, t) = Quantize(Lesser(t * v, t * Scale))
    BY <1>5 DEF CouponDiscount, ExactDiscount
  <2> HIDE DEF v
  <2>3. PICK m \in Int : m = s * v
    BY <2>1
  <2>4. PICK d \in Int : d = e * v
    BY <2>1
  <2>5. (s + e) * v = m + d
    BY <2>1, <2>3, <2>4
  <2>6. CASE v >= Scale
    <3>1. s * Scale <= m /\ (s + e) * Scale <= m + d
      <4>1. Scale * s <= v * s /\ Scale * (s + e) <= v * (s + e)
        BY <2>1, <2>6, ProductMonotone DEF Scale
      <4> QED
        BY <4>1, <2>1, <2>3, <2>5 DEF Scale
    <3>2. Lesser(m, s * Scale) = s * Scale
      BY <3>1 DEF Lesser, Scale
    <3>3. Lesser(m + d, (s + e) * Scale) = (s + e) * Scale
      BY <3>1 DEF Lesser, Scale
    <3>4. CouponDiscount(c, s) = s /\ CouponDiscount(c, s + e) = s + e
      BY <2>2, <2>3, <2>5, <3>2, <3>3, QuantizeWhole
    <3> QED
      BY <3>4
  <2>7. CASE v < Scale
    <3>1. m <= s * Scale /\ m + d <= (s + e) * Scale
      <4>1. v * s <= Scale * s /\ v * (s + e) <= Scale * (s + e)
        BY <2>1, <2>7, ProductMonotone DEF Scale
      <4> QED
        BY <4>1, <2>1, <2>3, <2>5 DEF Scale
    <3>2. CouponDiscount(c, s) = Quantize(m) /\ CouponDiscount(c, s + e) = Quantize(m + d)
      <4>1. Lesser(m, s * Scale) = m /\ Lesser(m + d, (s + e) * Scale) = m + d
        BY <3>1 DEF Lesser
      <4> QED
        BY <4>1, <2>2, <2>3, <2>5
    <3>3. CASE e = 0
      BY <3>3, <3>2, <2>1, <2>4, QuantizeNearest
    <3>4. CASE e > 0
      <4>1. d < e * Scale
        <5>1. v + 1 \in Int /\ Scale \in Int /\ v + 1 <= Scale
          BY <2>1, <2>7 DEF Scale
        <5>2. (v + 1) * e <= Scale * e
          BY <5>1, ProductMonotone
        <5>3. (v + 1) * e = d + e
          BY <2>1, <2>4
        <5> QED
          BY <5>2, <5>3, <3>4 DEF Scale
      <4>2. m + d < m + e * Scale
        BY <4>1 DEF Scale
      <4>3. Quantize(m + d) <= Quantize(m) + e
        BY <4>2, QuantizeStep
      <4>4. Quantize(m) \in Int /\ Quantize(m + d) \in Int
        BY QuantizeNearest
      <4> QED
        BY <3>2, <4>3, <4>4
    <3> QED
      BY <3>3, <3>4
  <2> QED
    BY <2>1, <2>6, <2>7 DEF Scale
<1> QED
  BY <1>1, <1>2, <1>3, <1>4, <1>5

-----------------------------------------------------------------------------
\* The values the system can have, and the quote, which is always the
\* totals of the units in the cart.
TypeOK ==
  /\ price \in 1 .. MaxPrice
  /\ percentage \in Percentages
  /\ coupon \in Coupons
  /\ taxRate \in TaxRates
  /\ quantity \in Nat

Worth == EffectivePrice(price, percentage) * quantity

PriceInv == TypeOK /\ quote = Totals(Worth, coupon, taxRate)

LEMMA Types ==
  ASSUME TypeOK
  PROVE  /\ price \in Nat /\ price > 0
         /\ percentage \in Nat
         /\ coupon \in CouponRecord
         /\ taxRate \in Nat
         /\ quantity \in Nat
<1>1. price \in Nat /\ price > 0
  BY BoundsAssumption DEF TypeOK
<1>2. percentage \in Nat
  BY PercentagesAssumption DEF TypeOK
<1>3. coupon \in CouponRecord
  BY CouponsAssumption, Zenon DEF TypeOK, CouponRecord
<1>4. taxRate \in Nat
  BY TaxRatesAssumption DEF TypeOK
<1> QED
  BY <1>1, <1>2, <1>3, <1>4 DEF TypeOK

\* The discounted price in ten-thousandths of a cent.
LEMMA ExactPrice ==
  ASSUME NEW p \in Nat, NEW r \in Nat
  PROVE  /\ p * (Scale - r) \in Int
         /\ p * (Scale - r) <= p * Scale
         /\ r <= Scale => p * (Scale - r) >= 0
         /\ EffectivePrice(p, r) \in Int
         /\ EffectivePrice(p, r) <= p
         /\ r <= Scale => EffectivePrice(p, r) >= 0
<1>1. /\ Scale - r \in Int /\ Scale \in Int /\ Scale - r <= Scale
      /\ r <= Scale => Scale - r >= 0
  BY DEF Scale
<1>2. p * (Scale - r) \in Int /\ (Scale - r) * p = p * (Scale - r) /\ Scale * p = p * Scale
  BY <1>1 DEF Scale
<1>3. p * (Scale - r) <= p * Scale
  BY <1>1, <1>2, ProductMonotone
<1>4. r <= Scale => p * (Scale - r) >= 0
  BY <1>1, ProductInt
<1>5. PICK n \in Int : n = p * (Scale - r)
  BY <1>2
<1>6. EffectivePrice(p, r) = Quantize(n) /\ Quantize(n) \in Int
  BY <1>5, QuantizeNearest DEF EffectivePrice
<1>7. Quantize(n) <= p
  <2>1. p * Scale \in Int
    BY DEF Scale
  <2> QED
    BY <1>3, <1>5, <2>1, QuantizeMonotone, QuantizeWhole
<1>8. n >= 0 => Quantize(n) >= 0
  <2>1. Quantize(0) = 0
    BY QuantizeZero
  <2> QED
    BY <2>1, QuantizeMonotone
<1> QED
  BY <1>2, <1>3, <1>4, <1>5, <1>6, <1>7, <1>8

LEMMA TotalsFields ==
  ASSUME NEW c \in CouponRecord, NEW s \in Int, NEW t \in Nat
  PROVE  /\ Totals(s, c, t).subtotal = s
         /\ Totals(s, c, t).discount = CouponDiscount(c, s)
         /\ Totals(s, c, t).total
              = (s - CouponDiscount(c, s)) + Quantize((s - CouponDiscount(c, s)) * t)
BY DEF Totals, TaxAmount

\* The bill for a greater subtotal, with the coupon and the tax.
LEMMA TotalMonotone ==
  ASSUME NEW c \in CouponRecord, NEW s \in Nat, NEW e \in Nat, NEW t \in Nat
  PROVE  /\ Totals(s, c, t).total >= 0
         /\ Totals(s, c, t).total <= Totals(s + e, c, t).total
<1>1. PICK a \in Int, b \in Int :
        /\ a = s - CouponDiscount(c, s)
        /\ b = (s + e) - CouponDiscount(c, s + e)
        /\ 0 <= a
        /\ a <= b
  <2>1. s \in Int /\ s + e \in Int
    OBVIOUS
  <2>2. /\ CouponDiscount(c, s) \in Int /\ CouponDiscount(c, s) <= s
        /\ CouponDiscount(c, s + e) \in Int
    BY <2>1, CouponDiscountBounds
  <2>3. s - CouponDiscount(c, s) <= (s + e) - CouponDiscount(c, s + e)
    BY TaxableMonotone
  <2>4. /\ s - CouponDiscount(c, s) \in Int /\ 0 <= s - CouponDiscount(c, s)
        /\ (s + e) - CouponDiscount(c, s + e) \in Int
    BY <2>1, <2>2
  <2> QED
    BY <2>3, <2>4
<1>2. a * t \in Int /\ b * t \in Int /\ 0 <= a * t /\ a * t <= b * t
  BY <1>1, ProductInt, ProductMonotone
<1>3. /\ Quantize(a * t) \in Int /\ Quantize(b * t) \in Int
      /\ 0 <= Quantize(a * t) /\ Quantize(a * t) <= Quantize(b * t)
  BY <1>2, QuantizeNearest, QuantizeMonotone, QuantizeZero
<1>4. Totals(s, c, t).total = a + Quantize(a * t)
  BY <1>1, TotalsFields
<1>5. Totals(s + e, c, t).total = b + Quantize(b * t)
  <2>1. s + e \in Int
    OBVIOUS
  <2> QED
    BY <1>1, <2>1, TotalsFields
<1> QED
  BY <1>1, <1>3, <1>4, <1>5

LEMMA TotalsInt ==
  ASSUME NEW c \in CouponRecord, NEW s \in Nat, NEW t \in Nat
  PROVE  Totals(s, c, t).total \in Int
<1>1. PICK a \in Int : a = s - CouponDiscount(c, s)
  BY CouponDiscountBounds
<1>2. a * t \in Int
  BY ProductInt
<1> QED
  BY <1>1, <1>2, TotalsFields, QuantizeNearest

\* A cart without a unit of the product owes nothing.
LEMMA NothingOwed ==
  ASSUME NEW c \in CouponRecord, NEW t \in Nat
  PROVE  Totals(0, c, t) = NoQuote
<1>1. CouponDiscount(c, 0) = 0
  BY CouponDiscountBounds
<1>2. 0 - CouponDiscount(c, 0) = 0 /\ 0 * t = 0
  BY <1>1
<1>3. TaxAmount(t, 0) = 0
  BY <1>2, QuantizeZero DEF TaxAmount
<1> QED
  BY <1>1, <1>2, <1>3 DEF Totals, NoQuote

THEOREM PriceInductive == Spec => []PriceInv
<1>1. Init => PriceInv
  <2> SUFFICES ASSUME Init PROVE PriceInv
    OBVIOUS
  <2>1. TypeOK
    BY DEF Init, TypeOK
  <2>2. Worth = 0
    <3>1. EffectivePrice(price, percentage) \in Int
      BY <2>1, Types, ExactPrice
    <3> QED
      BY <3>1 DEF Worth, Init
  <2>3. Totals(0, coupon, taxRate) = NoQuote
    BY <2>1, Types, NothingOwed
  <2> QED
    BY <2>1, <2>2, <2>3 DEF Init, PriceInv
<1>2. PriceInv /\ [Next]_vars => PriceInv'
  <2> SUFFICES ASSUME PriceInv, [Next]_vars PROVE PriceInv'
    OBVIOUS
  <2>1. CASE AddUnit
    BY <2>1 DEF AddUnit, PriceInv, TypeOK, Worth
  <2>2. CASE UNCHANGED vars
    BY <2>2 DEF vars, PriceInv, TypeOK, Worth
  <2> QED
    BY <2>1, <2>2 DEF Next
<1> QED
  BY <1>1, <1>2, PTL DEF Spec

-----------------------------------------------------------------------------
\* The effective price of ProductService.get_effective_price is a nearest
\* cent to the exact discounted price, the even one of two, at most the list
\* price, and not less than nothing for a discount up to 100%.
THEOREM NearestPrice == Spec => []EffectivePriceIsNearest
<1>1. PriceInv => EffectivePriceIsNearest
  <2> SUFFICES ASSUME PriceInv PROVE EffectivePriceIsNearest
    OBVIOUS
  <2>1. price \in Nat /\ percentage \in Nat
    BY Types DEF PriceInv
  <2>2. PICK n \in Int, e \in Int :
          /\ n = price * (Scale - percentage)
          /\ e = EffectivePrice(price, percentage)
          /\ e <= price
          /\ percentage <= Scale => e >= 0
    BY <2>1, ExactPrice
  <2>3. /\ e = Quantize(n)
        /\ 2 * (n - e * Scale) <= Scale
        /\ 2 * (e * Scale - n) <= Scale
        /\ 2 * (n - e * Scale) = Scale => e % 2 = 0
        /\ 2 * (e * Scale - n) = Scale => e % 2 = 0
    BY <2>2, QuantizeNearest DEF EffectivePrice
  <2>4. ASSUME NEW c \in e - 1 .. e + 1
        PROVE  /\ Distance(e * Scale, n) <= Distance(c * Scale, n)
               /\ (c # e /\ Distance(e * Scale, n) = Distance(c * Scale, n))
                    => e % 2 = 0
    <3>1. c = e - 1 \/ c = e \/ c = e + 1
      OBVIOUS
    <3>2. CASE c = e
      BY <3>2, <2>3 DEF Distance, Scale
    <3>3. CASE c = e - 1
      BY <3>3, <2>3 DEF Distance, Scale
    <3>4. CASE c = e + 1
      BY <3>4, <2>3 DEF Distance, Scale
    <3> QED
      BY <3>1, <3>2, <3>3, <3>4
  <2> QED
    BY <2>2, <2>4 DEF EffectivePriceIsNearest
<1> QED
  BY <1>1, PriceInductive, PTL

\* CartService.coupon_discount never takes off more than the subtotal, and
\* no cart of products that cost something is worth less than nothing.
THEOREM DiscountStaysWithin == Spec => []DiscountWithinSubtotal
<1>1. PriceInv => DiscountWithinSubtotal
  <2> SUFFICES ASSUME PriceInv PROVE DiscountWithinSubtotal
    OBVIOUS
  <2>1. /\ price \in Nat /\ percentage \in Nat /\ quantity \in Nat
        /\ coupon \in CouponRecord /\ taxRate \in Nat
    BY Types DEF PriceInv
  <2>2. PICK e \in Int : /\ e = EffectivePrice(price, percentage)
                         /\ percentage <= Scale => e >= 0
    BY <2>1, ExactPrice
  <2>3. PICK s \in Int : s = Worth /\ (percentage <= Scale => s >= 0)
    BY <2>1, <2>2, ProductInt DEF Worth
  <2>4. quote.subtotal = s /\ quote.discount = CouponDiscount(coupon, s)
    BY <2>1, <2>3, TotalsFields DEF PriceInv
  <2>5. coupon.kind # "none" => quote.discount <= quote.subtotal
    BY <2>1, <2>4, CouponDiscountBounds
  <2>6. percentage <= Scale => quote.discount >= 0
    BY <2>1, <2>3, <2>4, CouponDiscountBounds
  <2>7. percentage <= Scale => quote.total >= 0
    <3> SUFFICES ASSUME s \in Nat PROVE quote.total >= 0
      BY <2>3
    <3>1. Totals(s, coupon, taxRate).total >= 0
      BY <2>1, TotalMonotone
    <3> QED
      BY <3>1, <2>3 DEF PriceInv
  <2> QED
    BY <2>5, <2>6, <2>7 DEF DiscountWithinSubtotal
<1> QED
  BY <1>1, PriceInductive, PTL

\* One more unit never makes the bill of CartService.totals smaller, unless
\* the product's discount is above 100%.
THEOREM MoreCostsMore == Spec => MoreIsNeverCheaper
<1> DEFINE Grows == percentage <= Scale => quote'.total >= quote.total
<1>1. PriceInv /\ PriceInv' /\ [Next]_vars => [Grows]_vars
  <2> SUFFICES ASSUME PriceInv, PriceInv', AddUnit, percentage <= Scale
               PROVE  quote'.total >= quote.total
    BY DEF Next
  <2>1. /\ price \in Nat /\ percentage \in Nat /\ quantity \in Nat
        /\ coupon \in CouponRecord /\ taxRate \in Nat
    BY Types DEF PriceInv
  <2>2. PICK e \in Nat : e = EffectivePrice(price, percentage)
    BY <2>1, ExactPrice
  <2>3. PICK s \in Nat : s = Worth /\ s + e = Worth'
    <3>1. e * quantity \in Nat /\ e * (quantity + 1) = e * quantity + e
      BY <2>1
    <3> QED
      BY <3>1, <2>2 DEF Worth, AddUnit
  <2>4. quote = Totals(s, coupon, taxRate)
    BY <2>3 DEF PriceInv
  <2>5. quote' = Totals(s + e, coupon, taxRate)
    BY <2>3 DEF PriceInv, AddUnit
  <2>6. Totals(s, coupon, taxRate).total <= Totals(s + e, coupon, taxRate).total
    BY <2>1, TotalMonotone
  <2>7. /\ Totals(s, coupon, taxRate).total \in Int
        /\ Totals(s + e, coupon, taxRate).total \in Int
    BY <2>1, TotalsInt
  <2> QED
    BY <2>4, <2>5, <2>6, <2>7
<1> HIDE DEF Grows
<1>2. Spec => [][Grows]_vars
  BY <1>1, PriceInductive, PTL DEF Spec
<1> QED
  BY <1>2 DEF MoreIsNeverCheaper, Grows
=============================================================================
