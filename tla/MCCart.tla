--------------------------------- MODULE MCCart ---------------------------------
(* The instance of Cart for TLC, with four scenarios. *)
EXTENDS Cart, TLC

CONSTANTS g1, g2, t1, k1, k2

\* Requests that add, change, remove and clear at once.
Edits ==
  [options |-> {g1, t1}, quantities |-> {1, 2}, prices |-> {1}, keys |-> {}, ops |-> {"add", "update", "remove", "clear"},
   requests |-> 2, edited |-> {}, rows |-> 2, orders |-> 0]

\* Every operation on the cart, one request at a time.
OneByOne ==
  [options |-> {g1, t1}, quantities |-> {1, 2}, prices |-> {1}, keys |-> {}, ops |-> Ops \ {"buyNow"},
   requests |-> 1, edited |-> {g1}, rows |-> 3, orders |-> 1]

\* Requests that fill the cart and buy it while prices change.
Checkouts ==
  [options |-> {g1, g2}, quantities |-> {1}, prices |-> {1, 2}, keys |-> {}, ops |-> {"add", "checkoutCart"},
   requests |-> 2, edited |-> {g1}, rows |-> 3, orders |-> 1]

\* Three direct purchases repeated with their key.
Repeated ==
  [options |-> {g1}, quantities |-> {1}, prices |-> {1}, keys |-> {k1, k2}, ops |-> {"buyNow"},
   requests |-> 3, edited |-> {}, rows |-> 0, orders |-> 2]

AllScenarios == {Edits, OneByOne, Checkouts, Repeated}
Many == 9
StockOf == g1 :> 2 @@ g2 :> 1 @@ t1 :> Many
RequestSymmetry == Permutations(Requests)
================================================================================
