------------------------------ MODULE Schedule ------------------------------
(* What a sell plan promises, in slots instead of seconds: between its opening *)
(* and its last slot each slot is served at most once, by a crank that comes   *)
(* in that very slot; slots that pass unserved are skipped, never caught up;   *)
(* and after the last due slot has been served, or skipped by a later one, the *)
(* plan serves no more.                                                        *)
EXTENDS Integers

VARIABLES
  open,     \* is there a plan?
  clock,    \* the slot the present falls into
  last,     \* the last slot the plan may become due in
  next,     \* the next slot to become due
  served,   \* the slots served
  count     \* how often a slot was served

vars == <<open, clock, last, next, served, count>>

Closed == open = FALSE /\ clock = 0 /\ last = 0 /\ next = 0 /\ served = {} /\ count = 0

Init == Closed

Open ==
  /\ ~open
  /\ open' = TRUE
  /\ clock' = 0 /\ next' = 0 /\ served' = {} /\ count' = 0
  /\ last' \in Nat \ {0}

Close == open /\ Closed'

Pass ==
  /\ open
  /\ clock' \in Nat /\ clock' > clock
  /\ UNCHANGED <<open, last, next, served, count>>

Serve ==
  /\ open
  /\ next <= clock
  /\ next <= last
  /\ clock \notin served
  /\ served' = served \cup {clock}
  /\ count' = count + 1
  /\ next' = clock + 1
  /\ UNCHANGED <<open, clock, last>>

Next == Open \/ Close \/ Pass \/ Serve

Spec == Init /\ [][Next]_vars
=============================================================================
