----------------------------- MODULE RoundedBytes -----------------------------
(***************************************************************************)
(* rounded_bytes of src/model.rs: the bounds a size printed by the docker  *)
(* program stands for.  The module gives the bounds a meaning: the true    *)
(* size, and the formatter of the vendor that rounds it, changes the unit  *)
(* and drops trailing zeros.  A printed size is its digits without the     *)
(* point, how many of them are decimals, and the index of its unit.        *)
(***************************************************************************)
EXTENDS Integers, FiniteSetsExt

CONSTANTS
  Base,        \* from one unit to the next: 1000
  LastUnit,    \* the index of the largest unit: 6, for EB
  Digits,      \* significant digits the vendor prints: 4
  Limit,       \* u64::MAX
  MaxSize      \* BOUND: the largest true size

\* The powers the units and the decimals are made of.
Tens[k \in Nat] == IF k = 0 THEN 1 ELSE 10 * Tens[k - 1]
Units[k \in Nat] == IF k = 0 THEN 1 ELSE Base * Units[k - 1]

\* The digits are enough for a number below one unit of the next, and for every
\* size in the largest one: u64 ends at 18.4 EB.
ASSUME RoundedAssumption ==
  /\ Base \in Nat \ {0} /\ LastUnit \in Nat
  /\ Digits \in Nat \ {0} /\ Limit \in Nat \ {0} /\ MaxSize \in Nat
  /\ Base <= Tens[Digits] /\ MaxSize < Tens[Digits] * Units[LastUnit]

VARIABLES
  size,        \* the true size
  printed,     \* what the vendor printed
  bounds       \* the answer of rounded_bytes

roundedVars == <<size, printed, bounds>>

Blank == [mantissa |-> -1, decimals |-> 0, unit |-> 0]
Nowhere == [lower |-> -1, upper |-> -1]

RoundedInit ==
  /\ size \in 0..MaxSize
  /\ printed = Blank
  /\ bounds = Nowhere

-----------------------------------------------------------------------------
(* The vendor: HumanSize, "%.4g".                                          *)

UnitOf(n) == Max({u \in 0..LastUnit : u = 0 \/ Units[u] <= n})
Length(n) == Min({k \in 1..Digits : n < Tens[k]})

\* Half a digit may go either way: the vendor divides floating-point numbers.
Nearest(a, b) ==
  {q \in {a \div b, a \div b + 1} : 2 * (a - q * b) <= b /\ 2 * (q * b - a) <= b}

Trimmed(q, decimals, u) ==
  LET t == Max({z \in 0..decimals : q % Tens[z] = 0})
  IN [mantissa |-> q \div Tens[t], decimals |-> decimals - t, unit |-> u]

HumanSize(n) ==
  LET u == UnitOf(n)
      decimals == IF u = 0 THEN 0 ELSE Digits - Length(n \div Units[u])
  IN {Trimmed(q, decimals, u) : q \in Nearest(n * Tens[decimals], Units[u])}

PrintSize ==
  /\ printed = Blank
  /\ printed' \in HumanSize(size)
  /\ UNCHANGED <<size, bounds>>

-----------------------------------------------------------------------------
(* rounded_bytes                                                           *)

Scale == Tens[printed.decimals]
Unit == Units[printed.unit]
Center == printed.mantissa * Unit

\* MUTANT of Lower: what is printed is taken for the least it may stand for.
LowerPrinted == Center \div Scale
Lower == (IF Center >= Unit THEN Center - Unit ELSE 0) \div Scale
Upper == (Center + Unit + Scale - 1) \div Scale

Exact == printed.unit = 0 /\ printed.decimals = 0

\* A product or sum that does not fit is refused.
Fits ==
  /\ Scale <= Limit
  /\ Center <= Limit
  /\ Exact \/ Center + Unit + Scale - 1 <= Limit

Refused == [lower |-> 0, upper |-> -1]

Rounded ==
  IF ~Fits THEN Refused
  ELSE IF Exact THEN [lower |-> Center, upper |-> Center]
  ELSE [lower |-> Lower, upper |-> Upper]

RoundedBytes ==
  /\ printed # Blank
  /\ bounds = Nowhere
  /\ bounds' = Rounded
  /\ UNCHANGED <<size, printed>>

RoundedNext == PrintSize \/ RoundedBytes
RoundedSpec == RoundedInit /\ [][RoundedNext]_roundedVars

-----------------------------------------------------------------------------
\* decisions.md Q56, SPEC.md:1063: the bounds of a size the vendor printed hold
\* the true size, whichever unit it is printed in and however many zeros were
\* dropped; they are one size where it is printed in bytes; they are no wider
\* than two of the last printed digit; and only sizes near the largest unit are
\* refused (model.rs:461-476).
RoundedBracketsTruth ==
  bounds # Nowhere =>
    IF bounds = Refused THEN size * Tens[Digits] > Limit
    ELSE /\ bounds.lower <= size /\ size <= bounds.upper
         /\ size < Base => bounds.lower = size /\ bounds.upper = size
         /\ (bounds.upper - bounds.lower - 2) * Scale <= 2 * Unit

\* The inductive invariant behind it.
RoundedInv ==
  /\ size \in 0..MaxSize
  /\ printed = Blank \/ printed \in HumanSize(size)
  /\ bounds = Nowhere \/ (printed # Blank /\ bounds = Rounded)
=============================================================================
