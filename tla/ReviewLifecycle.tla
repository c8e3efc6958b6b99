-------------------------- MODULE ReviewLifecycle --------------------------
(***************************************************************************)
(* What execute_review promises about a review: it is opened once, judged  *)
(* once and stored with that verdict, announced and then posted at most    *)
(* once with the verdict that was stored, and nothing more is heard of it  *)
(* once its request broke off.  There is no thread, diff or finding here;  *)
(* module Reviews implements this one.                                     *)
(***************************************************************************)
EXTENDS Sequences

CONSTANTS Run, Verdict

VARIABLES
  opened,  \* runs announced as started
  rows,    \* the stored reviews, a run and a verdict each, oldest first
  told,    \* those announced as completed
  posted,  \* those GitHub was told of
  broken   \* runs whose request broke off

vars == <<opened, rows, told, posted, broken>>

Init == opened = {} /\ rows = <<>> /\ told = {} /\ posted = {} /\ broken = {}

Rows == {rows[i] : i \in DOMAIN rows}

Open(r) ==
  /\ r \notin opened \cup broken
  /\ opened' = opened \cup {r}
  /\ UNCHANGED <<rows, told, posted, broken>>

Judge(r, verdict) ==
  /\ r \in opened \ broken
  /\ \A j \in Rows : j.run # r
  /\ rows' = Append(rows, [run |-> r, verdict |-> verdict])
  /\ UNCHANGED <<opened, told, posted, broken>>

Tell(j) ==
  /\ j \in Rows \ told /\ j.run \notin broken
  /\ told' = told \cup {j}
  /\ UNCHANGED <<opened, rows, posted, broken>>

Post(j) ==
  /\ j \in told \ posted /\ j.run \notin broken
  /\ posted' = posted \cup {j}
  /\ UNCHANGED <<opened, rows, told, broken>>

\* Before it was opened, too: a run is known before its review begins.
Break(r) ==
  /\ r \notin broken /\ \A j \in posted : j.run # r
  /\ broken' = broken \cup {r}
  /\ UNCHANGED <<opened, rows, told, posted>>

Next ==
  \/ \E r \in Run : Open(r) \/ Break(r) \/ \E verdict \in Verdict : Judge(r, verdict)
  \/ \E j \in [run : Run, verdict : Verdict] : Tell(j) \/ Post(j)

Spec == Init /\ [][Next]_vars
=============================================================================
