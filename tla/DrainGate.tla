---- MODULE DrainGate ----
(***************************************************************************)
(* What drain.rs promises: an admission gate that is open until it is      *)
(* closed for good, and a report that the node is idle which stays true.   *)
(***************************************************************************)
CONSTANT Requests

VARIABLES
  open,     \* whether requests are admitted
  holders,  \* requests admitted and not yet finished
  idle      \* whether the drain has been reported complete

vars == <<open, holders, idle>>

Init == open = TRUE /\ holders = {} /\ idle = FALSE

Acquire(r) ==
  /\ open /\ r \notin holders
  /\ holders' = holders \cup {r}
  /\ UNCHANGED <<open, idle>>

Release(r) ==
  /\ r \in holders
  /\ holders' = holders \ {r}
  /\ UNCHANGED <<open, idle>>

Close ==
  /\ open' = FALSE
  /\ UNCHANGED <<holders, idle>>

ReportIdle ==
  /\ ~open /\ holders = {}
  /\ idle' = TRUE
  /\ UNCHANGED <<open, holders>>

Next == Close \/ ReportIdle \/ \E r \in Requests : Acquire(r) \/ Release(r)

Spec == Init /\ [][Next]_vars
====
