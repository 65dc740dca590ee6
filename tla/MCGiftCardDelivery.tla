--------------------------- MODULE MCGiftCardDelivery ---------------------------
(* The instance of GiftCardDelivery for TLC, with three scenarios. *)
EXTENDS GiftCardDelivery, TLC

CONSTANTS o1, o2, h1

\* Two orders, one of which cannot be decrypted, and sends that end in time.
TwoOrders == [started |-> {o1, o2}, requests |-> {h1}, overrides |-> {}, edited |-> {}, slow |-> FALSE]

\* One order, a request, an administrator, and sends that outlast the delay.
SlowSends == [started |-> {o1}, requests |-> {h1}, overrides |-> {"COMPLETED"},
              edited |-> {}, slow |-> TRUE]

\* One order whose code an administrator was editing when it was sold.
CodeEdited == [started |-> {o1}, requests |-> {h1}, overrides |-> {}, edited |-> {o1}, slow |-> FALSE]

AllScenarios == {TwoOrders, SlowSends, CodeEdited}
=================================================================================
