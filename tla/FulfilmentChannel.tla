--------------------------- MODULE FulfilmentChannel ---------------------------
(***************************************************************************)
(* What the fulfilment of game top-ups promises: an order is open until one *)
(* channel, the provider or an administrator, takes it; that channel keeps  *)
(* it and brings it to one outcome, which is final; only an open order can  *)
(* be cancelled.  GameTopUp implements this module.                         *)
(***************************************************************************)
CONSTANTS Orders

VARIABLES phase,    \* open, working, delivered, failed, review, cancelled
          channel   \* none, provider, admin

channelVars == <<phase, channel>>

Outcomes == {"delivered", "failed", "review"}

Init == phase = [o \in Orders |-> "open"] /\ channel = [o \in Orders |-> "none"]

Take(o, c) ==
  /\ phase[o] = "open" /\ channel[o] = "none"
  /\ phase' = [phase EXCEPT ![o] = "working"]
  /\ channel' = [channel EXCEPT ![o] = c]

Finish(o, outcome) ==
  /\ phase[o] = "working"
  /\ outcome = "review" => channel[o] = "provider"
  /\ phase' = [phase EXCEPT ![o] = outcome]
  /\ UNCHANGED channel

Cancel(o) ==
  /\ phase[o] = "open"
  /\ phase' = [phase EXCEPT ![o] = "cancelled"]
  /\ UNCHANGED channel

Next ==
  \E o \in Orders :
    \/ \E c \in {"provider", "admin"} : Take(o, c)
    \/ \E outcome \in Outcomes : Finish(o, outcome)
    \/ Cancel(o)

Spec == Init /\ [][Next]_channelVars
==============================================================================
