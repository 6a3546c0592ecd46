-------------------------------- MODULE Pricing --------------------------------
(***************************************************************************)
(* What an order costs: OrderPricingService.resolveItems.  Amounts are in  *)
(* cents and rates in percent; a basket is a sequence of lines and a line  *)
(* is its unit price, modifiers included, and a quantity.  Math.round goes *)
(* up on a half.  The code's proportions are floating point, here exact.   *)
(***************************************************************************)
EXTENDS Integers, Sequences, Functions

Round(n, d) ==
    IF d > 0 THEN (2 * n + d) \div (2 * d) ELSE (2 * (-n) + (-d)) \div (2 * (-d))
Percent(rate, n) == Round(rate * n, 100)

Lines == [unitPrice : Nat, quantity : Nat]
IsCoupon(c) ==
    /\ c.type \in {"none", "FIXED_AMOUNT", "PERCENTAGE"}
    /\ c.type = "FIXED_AMOUNT" => c.amountOff \in Nat
    /\ c.type = "PERCENTAGE" => c.percentOff \in Nat /\ c.maxDiscount \in Nat

Total(s) == SumFunction(s)
Subtotals(basket) == [i \in DOMAIN basket |-> basket[i].unitPrice * basket[i].quantity]

\* A coupon that asks for more than the basket holds is an error.
CouponApplies(coupon, subtotal) == subtotal >= coupon.minimumAmount

applyPromotions(coupon, subtotal) ==
    CASE coupon.type = "none" -> 0
      [] coupon.type = "FIXED_AMOUNT" -> coupon.amountOff
      [] coupon.type = "PERCENTAGE" ->
             LET off == Percent(coupon.percentOff, subtotal)
             IN  IF coupon.maxDiscount = 0 \/ off < coupon.maxDiscount THEN off ELSE coupon.maxDiscount

\* distributeDiscount and distributeTax: to each line its share of an amount,
\* every share rounded for itself.
Shares(amount, parts) ==
    [i \in DOMAIN parts |-> IF amount = 0 THEN 0 ELSE Round(amount * parts[i], Total(parts))]

\* Faulty variant: the lines keep their price before the discount.
QuoteFullPrice(basket, coupon, taxRate, serviceRate) ==
    LET subtotals == Subtotals(basket)
        subtotal == Total(subtotals)
        discount == applyPromotions(coupon, subtotal)
        tax == Percent(taxRate, subtotal - discount)
        service == Percent(serviceRate, subtotal)
    IN  [subtotal |-> subtotal, discount |-> discount, tax |-> tax, service |-> service,
         total |-> subtotal - discount + tax + service, priced |-> TRUE,
         finals |-> subtotals, taxes |-> Shares(tax, subtotals)]

\* resolveItems: the discount is spread over the lines before the tax is taken
\* on them, but the total uses the discount itself.  When the lines come to
\* nothing, before the discount or after, a share of it or of the tax is NaN, and
\* the order cannot be written.
Quote(basket, coupon, taxRate, serviceRate) ==
    LET subtotals == Subtotals(basket)
        subtotal == Total(subtotals)
        discount == applyPromotions(coupon, subtotal)
        discounts == Shares(discount, subtotals)
        finals == [i \in DOMAIN basket |-> subtotals[i] - discounts[i]]
        tax == Percent(taxRate, Total(finals))
        service == Percent(serviceRate, subtotal)
    IN  [subtotal |-> subtotal, discount |-> discount, tax |-> tax, service |-> service,
         total |-> subtotal - discount + tax + service,
         priced |-> subtotal # 0 /\ Total(finals) # 0,
         finals |-> finals, taxes |-> Shares(tax, finals)]

\* The receipt adds up: what its lines say differs from the total by at most a
\* cent for each line, half for its share of the discount and half for its share
\* of the tax, and no line is negative unless the coupon exceeds the basket.
AddsUp(quote) ==
    LET lines == Total(quote.finals) + Total(quote.taxes) + quote.service
        n == Len(quote.finals)
    IN  /\ quote.total - lines \in -n .. n
        /\ quote.discount <= quote.subtotal =>
               \A i \in 1 .. n : quote.finals[i] >= 0 /\ quote.taxes[i] >= 0
================================================================================
