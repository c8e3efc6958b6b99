------------------------- MODULE DeliveryLifecycle -------------------------
(***************************************************************************)
(* What the webhook endpoint promises about a delivery: it is taken once,  *)
(* announced once if it is to be announced, and settled after that; one    *)
(* whose handler broke off stays broken.  There is no worker, session or   *)
(* row here; module PullRequests implements this one.                      *)
(***************************************************************************)
EXTENDS Naturals

CONSTANT Delivery

VARIABLES
  known,     \* deliveries that report a change there was
  loud,      \* those that are to be announced
  stage,     \* of each: "unseen", "taken", "settled" or "broken"
  announced  \* how often each was announced

vars == <<known, loud, stage, announced>>

Init ==
  /\ known = {} /\ loud = {}
  /\ stage = [d \in Delivery |-> "unseen"]
  /\ announced = [d \in Delivery |-> 0]

Arise(d) ==
  /\ d \notin known
  /\ known' = known \cup {d}
  /\ loud' \in {loud, loud \cup {d}}
  /\ UNCHANGED <<stage, announced>>

Move(d, from, to) ==
  /\ stage[d] = from
  /\ stage' = [stage EXCEPT ![d] = to]
  /\ UNCHANGED <<known, loud, announced>>

Take(d)  == d \in known /\ Move(d, "unseen", "taken")
Break(d) == Move(d, "taken", "broken")

Announce(d) ==
  /\ stage[d] = "taken" /\ d \in loud
  /\ announced[d] = 0
  /\ announced' = [announced EXCEPT ![d] = 1]
  /\ UNCHANGED <<known, loud, stage>>

Settle(d) ==
  /\ announced[d] = IF d \in loud THEN 1 ELSE 0
  /\ Move(d, "taken", "settled")

Next == \E d \in Delivery : Arise(d) \/ Take(d) \/ Break(d) \/ Announce(d) \/ Settle(d)

Spec == Init /\ [][Next]_vars
=============================================================================
