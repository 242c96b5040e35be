----------------------------- MODULE ScaledAmounts -----------------------------
(***************************************************************************)
(* From a decimal string to the scaled integer of the wire, and back       *)
(* (codecs/money.go, codecs/scalars.go, models/money.go).                  *)
(*                                                                         *)
(* A decimal is what its string says: [n |-> 150, f |-> 2] is "1.50".      *)
(* Integers have the ranges of the code's: int64 is -Half..Half-1 and      *)
(* uint64 0..2*Half-1, with Half 2^63; a big.Int is accepted up to MaxBig, *)
(* which is 2^128 - 1.                                                     *)
(***************************************************************************)
EXTENDS Integers

CONSTANTS
    Half,        \* how many values of an int64 are negative
    MaxBig,      \* the greatest value whose BitLen() is accepted
    WideScale,   \* the scale at which uint64 is accepted (18)
    MaxScale,    \* MaxProtocolScale
    MaxDecimal,  \* bounds of the decimals that are looked at: 0..MaxDecimal, with
    MaxPlaces    \* up to MaxPlaces places

ASSUME AmountAssumptions ==
    /\ Half \in Nat \ {0} /\ MaxBig \in Nat /\ 2 * Half - 1 <= MaxBig
    /\ WideScale \in 0..MaxScale /\ MaxScale \in Nat
    /\ MaxDecimal \in Nat /\ MaxPlaces \in Nat

MaxInt64  == Half - 1
MaxUint64 == 2 * Half - 1

Invalid == -(MaxBig + 1)     \* a ValidationError: below every amount
Int64(u) == IF u > MaxInt64 THEN u - 2 * Half ELSE u     \* Go's conversion

Ten[k \in Nat] == IF k = 0 THEN 1 ELSE 10 * Ten[k - 1]   \* 10^k

-----------------------------------------------------------------------------
(* Parsing.                                                                *)

\* Trailing zeros of the fraction go.
TrimTrailingFracZeros(d) ==
    LET f == CHOOSE k \in 0..d.f :
                /\ d.n % Ten[d.f - k] = 0
                /\ \A j \in 0..(k - 1) : d.n % Ten[d.f - j] # 0
    IN  [n |-> d.n \div Ten[d.f - f], f |-> f]

DecimalToScaled(d, scale) ==
    LET t == TrimTrailingFracZeros(d) IN
    IF scale > MaxScale \/ t.f > scale THEN Invalid ELSE t.n * Ten[scale - t.f]

ParsePriceTicks(d, scale) ==
    LET v == DecimalToScaled(d, scale) IN IF v > MaxInt64 THEN Invalid ELSE v

\* Mutant: no bound for the scale at which uint64 is accepted.
ParseQtyScaledUnbounded(d, scale) ==
    LET v == DecimalToScaled(d, scale) IN
    IF v <= 0 \/ (scale # WideScale /\ v > MaxInt64) THEN Invalid ELSE v

ParseQtyScaled(d, scale) ==
    LET v == DecimalToScaled(d, scale) IN
    IF v <= 0 \/ v > MaxUint64 \/ (scale # WideScale /\ v > MaxInt64) THEN Invalid ELSE v

\* The order's base quantity.
ResolveQtyScaled(d, scale) ==
    IF scale <= 0 THEN Invalid ELSE Int64(ParseQtyScaled(d, scale))

\* Mutant: the conversion is not looked at again.
ResolveQuoteQtyUnchecked(d, scale) == Int64(ParseQtyScaled(d, scale))

\* The budget of an order in quote units.
ResolveQuoteQtyScaled(d, scale) ==
    LET q == Int64(ParseQtyScaled(d, scale)) IN IF q <= 0 THEN Invalid ELSE q

RescaleExact(v, source, target) ==
    LET r == IF source <= target THEN v * Ten[target - source]
             ELSE v \div Ten[source - target]
    IN  IF \/ source > MaxScale
           \/ source > target /\ v % Ten[source - target] # 0
           \/ r > MaxBig
        THEN Invalid ELSE r

\* A transfer's or a withdrawal's amount, given at one scale, sent at another.
ResolveAssetAmountScaledToScale(d, source, target, ledger) ==
    LET Fits(v)    == IF ~ledger /\ v > MaxInt64 THEN Invalid ELSE v
        Rescale(v) == IF v <= 0 THEN Invalid ELSE Fits(RescaleExact(v, source, target))
    IN  IF target > MaxScale THEN Invalid ELSE Rescale(DecimalToScaled(d, source))

-----------------------------------------------------------------------------
(* Formatting.                                                             *)

\* formatFixed of an integer that is not negative.
FormatFixed(v, scale) == TrimTrailingFracZeros([n |-> v, f |-> scale])

-----------------------------------------------------------------------------
(* Properties: the arithmetic of the decimals themselves.                  *)

Decimals == [n : 0..MaxDecimal, f : 0..MaxPlaces]
Scales   == 0..(MaxScale + 1)

\* The integer in S that is d at a scale, if there is one.
Exactly(d, scale, S) ==
    LET places == Ten[d.f]
        scaled == d.n * Ten[scale]
    IN  IF scaled % places = 0 /\ (scaled \div places) \in S THEN scaled \div places
        ELSE Invalid

\* A decimal becomes exactly the integer it is at the scale, or is refused: it is
\* never rounded, wrapped or refused for the zeros it was written with ("strict; no
\* rounding").  A base quantity has no scale 0, and at WideScale one that fits a
\* uint64 only becomes negative, never a positive one that is wrong: see the README.
QuantitiesAreExact ==
    \A d \in Decimals, s \in 0..MaxScale :
        /\ ParsePriceTicks(d, s) = Exactly(d, s, 0..MaxInt64)
        /\ \/ ResolveQtyScaled(d, s) = Exactly(d, s, 1..MaxInt64)
           \/ /\ ResolveQtyScaled(d, s) < 0
              /\ s = 0 \/ (s = WideScale /\ Exactly(d, s, 1..MaxInt64) = Invalid)
        /\ ResolveQuoteQtyScaled(d, s) = Exactly(d, s, 1..MaxInt64)

\* An amount is the same amount at the scale it is sent at, or it is refused ("It
\* never rounds").
AmountsAreExact ==
    \A d \in Decimals, source \in Scales, target \in Scales, ledger \in BOOLEAN :
        ResolveAssetAmountScaledToScale(d, source, target, ledger) =
            IF {source, target} \subseteq 0..MaxScale /\ Exactly(d, source, Nat) # Invalid
            THEN Exactly(d, target, IF ledger THEN 1..MaxBig ELSE 1..MaxInt64)
            ELSE Invalid

\* What a quantity is formatted as is parsed as that quantity again.
QuantitiesFormatBack ==
    \A v \in 0..MaxInt64, s \in 0..MaxScale : DecimalToScaled(FormatFixed(v, s), s) = v
=============================================================================
