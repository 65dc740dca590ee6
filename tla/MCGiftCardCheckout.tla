------------------------- MODULE MCGiftCardCheckout -------------------------
(* Instances of GiftCardCheckout for TLC. *)
EXTENDS GiftCardCheckout, TLC

CONSTANTS o1, o2, c1, c2, c3, d1, d2

\* One order of a single code.
SingleLines == (o1 :> (d1 :> 1))
\* An order of two items, one of them for two codes, and an order that needs
\* one of the same codes.
ContendedLines == (o1 :> (d1 :> 2 @@ d2 :> 1)) @@ (o2 :> (d1 :> 1 @@ d2 :> 0))

OneCode == (c1 :> d1)
ThreeCodes == (c1 :> d1) @@ (c2 :> d1) @@ (c3 :> d2)

\* Codes of one denomination are interchangeable.
SameCodes == Permutations({c1, c2})
==============================================================================
