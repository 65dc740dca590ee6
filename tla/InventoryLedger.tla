--------------------------- MODULE InventoryLedger ---------------------------
(***************************************************************************)
(* What the gift-card stock promises, with no payment, gateway or process  *)
(* in sight: a code is free, held for one order, or sold to one order.  An *)
(* order acquires all the codes it asked for in one step or none of them,  *)
(* what it holds is given back as a whole or sold as a whole, and a sold   *)
(* code never changes hands.  GiftCardCheckout implements this module.     *)
(***************************************************************************)

CONSTANTS Orders, Codes,
          NoOrder,       \* the holder of a free code
          Fills(_, _)    \* Fills(S, o): S is what order o asked for

VARIABLES holder,      \* [Codes -> Orders \cup {NoOrder}]
          sold         \* the codes that were sold, to their holder

ledgerVars == <<holder, sold>>

Free == {c \in Codes : holder[c] = NoOrder}
Kept(o) == {c \in Codes : holder[c] = o /\ c \notin sold}
Bought(o) == {c \in Codes : holder[c] = o /\ c \in sold}

Give(S, o) == holder' = [c \in Codes |-> IF c \in S THEN o ELSE holder[c]]

Init == holder = [c \in Codes |-> NoOrder] /\ sold = {}

\* An order that has no code yet takes a full set of free ones.
Hold(o, S) ==
  /\ Kept(o) = {} /\ Bought(o) = {}
  /\ S \subseteq Free /\ Fills(S, o)
  /\ Give(S, o)
  /\ UNCHANGED sold

\* Everything the order holds goes back to stock.
GiveBack(o) ==
  /\ Give(Kept(o), NoOrder)
  /\ UNCHANGED sold

\* Everything the order holds, a full set, is sold to it.
Sell(o) ==
  /\ Fills(Kept(o), o) /\ Bought(o) = {}
  /\ sold' = sold \cup Kept(o)
  /\ UNCHANGED holder

\* An order that has no code buys a full set of free ones outright.
SellFromStock(o, S) ==
  /\ Kept(o) = {} /\ Bought(o) = {}
  /\ S \subseteq Free /\ Fills(S, o)
  /\ Give(S, o)
  /\ sold' = sold \cup S

Next ==
  \E o \in Orders :
    \/ GiveBack(o)
    \/ Sell(o)
    \/ \E S \in SUBSET Codes : Hold(o, S) \/ SellFromStock(o, S)

Spec == Init /\ [][Next]_ledgerVars
==============================================================================
