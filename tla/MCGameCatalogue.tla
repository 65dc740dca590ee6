----------------------------- MODULE MCGameCatalogue -----------------------------
(* The instance of GameCatalogue for TLC, with four scenarios. *)
EXTENDS GameCatalogue, TLC

CONSTANTS g1, g2, p1, f1, f2, f3

\* A customer orders while an administrator edits game, package and field.
Edits ==
  [games |-> {g1}, packages |-> {p1}, fields |-> {f1}, offers |-> {<<1, 1>>, <<2, 2>>},
   values |-> {"absent", "blank", "fits"}, admins |-> 1, overlap |-> TRUE]

\* One request at a time, two games, a package and two fields.
InTurn ==
  [games |-> {g1, g2}, packages |-> {p1}, fields |-> {f1, f2}, offers |-> {<<1, 1>>},
   values |-> {"absent", "blank", "fits"}, admins |-> 1, overlap |-> FALSE]

\* Two administrators edit and archive a game while a customer orders.
Archived ==
  [games |-> {g1}, packages |-> {p1}, fields |-> {}, offers |-> {<<1, 1>>},
   values |-> {"fits"}, admins |-> 2, overlap |-> TRUE]

\* One request at a time, a field customers may fill and one whose key has "token" in it.
TokenForm ==
  [games |-> {g1}, packages |-> {p1}, fields |-> {f1, f3}, offers |-> {<<1, 1>>},
   values |-> {"absent", "fits"}, admins |-> 1, overlap |-> FALSE]

AllScenarios == {Edits, InTurn, Archived, TokenForm}
OwnerOf == p1 :> g1 @@ f1 :> g1 @@ f2 :> g1 @@ f3 :> g1
TwoOffers == {<<1, 1>>, <<2, 2>>}
AdminSymmetry == Permutations(Admins)
================================================================================
