SPECIFICATION Spec
CONSTANTS
  MaxPrice = 40
  Percentages = {0, 1, 1250, 5000, 9999, 10000, 12500}
  Coupons <- SomeCoupons
  TaxRates = {0, 825, 2000, 12500}
  MaxQuantity = 4
INVARIANTS
  EffectivePriceIsNearest
  DiscountWithinSubtotal
PROPERTY
  MoreIsNeverCheaper
CHECK_DEADLOCK FALSE
