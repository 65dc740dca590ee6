---------------------------- MODULE MCGiftCardStock ----------------------------
(* Instances of GiftCardStock for TLC. *)
EXTENDS GiftCardStock, TLC

CONSTANTS c1, c2, d1, d2, o1, o2, s1, s2

\* One order and two administrators whose edits of codes overlap.
StaleEdits ==
  [legacy |-> {c1}, denominations |-> {d1}, orders |-> {o1}, quantity |-> 2,
   ops |-> CodeOps, statuses |-> {"keep", "AVAILABLE"}, expiries |-> {"keep", "past"},
   requests |-> 2, staleEdits |-> TRUE, restarts |-> FALSE]

\* Two orders compete for two codes beside edits that nothing interrupts.
AtomicEdits ==
  [legacy |-> {c1, c2}, denominations |-> {d1}, orders |-> {o1, o2}, quantity |-> 1,
   ops |-> {"updateCode", "deleteCode"}, statuses |-> {"keep", "AVAILABLE", "DISABLED"},
   expiries |-> {"keep", "past"}, requests |-> 1, staleEdits |-> FALSE, restarts |-> FALSE]

\* Products and denominations come and go while codes are added and expire.
Catalogue ==
  [legacy |-> {c1}, denominations |-> {d1, d2}, orders |-> {o1}, quantity |-> 1,
   ops |-> ProductOps \cup DenominationOps \cup {"addCodes"}, statuses |-> {"keep"},
   expiries |-> {"keep", "future"}, requests |-> 2, staleEdits |-> TRUE, restarts |-> TRUE]

\* An edit that frees a reserved code is written after the code was sold.
SlowRelease ==
  [legacy |-> {c1}, denominations |-> {d1}, orders |-> {o1, o2}, quantity |-> 1,
   ops |-> {"updateCode"}, statuses |-> {"AVAILABLE"}, expiries |-> {"keep"},
   requests |-> 1, staleEdits |-> TRUE, restarts |-> FALSE]

AllScenarios == {StaleEdits, AtomicEdits, Catalogue}
OnlySlowRelease == {SlowRelease}
SecretOf == c1 :> s1 @@ c2 :> s2
AllWantFirst == [o \in Orders |-> d1]
AdminSymmetry == Permutations(Admins)
================================================================================
