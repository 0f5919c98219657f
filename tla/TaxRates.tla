------------------------------ MODULE TaxRates ------------------------------
(***************************************************************************)
(* TaxService: tax rates are inserted, and calculate_tax applies the       *)
(* newest one of a place to an amount, adding the tax to it or finding the *)
(* tax that is in it.  Amounts are in cents, stored percentages in         *)
(* hundredths of a percent (the column is DECIMAL(5,2)), percentages that  *)
(* requests give in thousandths.                                           *)
(***************************************************************************)
EXTENDS Integers, FiniteSetsExt

CONSTANTS TaxRates,      \* rows, named by their created_at
          Places,        \* the places of rates, [country, jurisdiction]
          Percentages,   \* those requests give, not negative
          TaxedAmounts,  \* the amounts they ask about, any sign
          None           \* no country, no jurisdiction, no row

VARIABLES tax_rate,     \* tax_rates: the rows, or None
          calculation   \* the last answer of calculate_tax, or None

taxVars == <<tax_rate, calculation>>

Init ==
  /\ tax_rate = [r \in TaxRates |-> None]
  /\ calculation = None

Whole == 10000  \* 100 percent

(* f64 round: the nearest integers to n / d.  Of an exact half, division   *)
(* and multiplication in f64 may fall on either side.                      *)
Nearest(n, d) ==
  {k \in {n \div d, n \div d + 1} : -d <= 2 * (n - k * d) /\ 2 * (n - k * d) <= d}

-----------------------------------------------------------------------------
(* create_tax_rate: one INSERT, which rounds the percentage to the scale   *)
(* of the column; above 999.99 it is refused.  created_at was taken before *)
(* it, so that rows may appear out of that order.  All rates are active.   *)
Stored(percentage) == (percentage + 5) \div 10

CreateTaxRate(r, percentage, inclusive, place) ==
  /\ tax_rate[r] = None
  /\ Stored(percentage) < 10 * Whole
  /\ tax_rate' = [tax_rate EXCEPT ![r] =
       [percentage |-> Stored(percentage), inclusive |-> inclusive, place |-> place]]
  /\ UNCHANGED calculation

(* get_applicable_tax_rate: rows of the country and jurisdiction, or, when *)
(* no jurisdiction is given, of the country and any jurisdiction.          *)
Applies(r, country, jurisdiction) ==
  /\ tax_rate[r] # None /\ country # None
  /\ tax_rate[r].place.country = country
  /\ jurisdiction = None \/ tax_rate[r].place.jurisdiction = jurisdiction

NoTax == [percentage |-> 0, inclusive |-> FALSE]

ApplicableTaxRate(country, jurisdiction) ==
  LET rows == {r \in TaxRates : Applies(r, country, jurisdiction)}
  IN IF rows = {} THEN NoTax ELSE tax_rate[Max(rows)]

(* The tax on an amount, and the tax in a total.  Mutant: the percentage   *)
(* is taken of the total.                                                  *)
TaxOn(amount, percentage) == Nearest(amount * percentage, Whole)
TaxOfTotal(total, percentage) == TaxOn(total, percentage)
TaxIn(total, percentage) == Nearest(total * percentage, Whole + percentage)

Calculation(amount, tax, rate) ==
  [percentage |-> rate.percentage, inclusive |-> rate.inclusive, tax_amount |-> tax,
   subtotal |-> IF rate.inclusive THEN amount - tax ELSE amount,
   total |-> IF rate.inclusive THEN amount ELSE amount + tax]

CalculateTax(amount, country, jurisdiction) ==
  LET rate == ApplicableTaxRate(country, jurisdiction) IN
    /\ \E tax \in IF rate.inclusive THEN TaxIn(amount, rate.percentage)
                  ELSE TaxOn(amount, rate.percentage) :
         calculation' = Calculation(amount, tax, rate)
    /\ UNCHANGED tax_rate

Next ==
  \/ \E r \in TaxRates, percentage \in Percentages, inclusive \in BOOLEAN, place \in Places :
       CreateTaxRate(r, percentage, inclusive, place)
  \/ \E amount \in TaxedAmounts, place \in Places :
       CalculateTax(amount, place.country, place.jurisdiction)

Spec == Init /\ [][Next]_taxVars

-----------------------------------------------------------------------------
(* The two ways of calculating agree, at every amount and whichever way an *)
(* exact half is rounded: the tax in a total that was made by adding the   *)
(* tax is that tax, and adding the tax to a subtotal found by taking it    *)
(* out gives back the total, up to one cent (for rates up to 100 percent). *)
TaxIsReversible ==
  calculation # None =>
    LET c == calculation IN
      /\ c.subtotal + c.tax_amount = c.total
      /\ ~c.inclusive /\ c.percentage > 0 => TaxIn(c.total, c.percentage) = {c.tax_amount}
      /\ c.inclusive /\ c.percentage <= Whole =>
           TaxOn(c.subtotal, c.percentage) \subseteq c.tax_amount - 1 .. c.tax_amount + 1
=============================================================================
