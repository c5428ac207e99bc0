------------------------------ MODULE UnitLease ------------------------------
(***************************************************************************)
(* What the experiment queue promises about units (the_lab/queue.py,       *)
(* "The runtime allocator tracks which units a running experiment holds so *)
(* they can be released when it finishes"), without saying how: units are  *)
(* granted to one experiment at a time, an experiment runs only on units   *)
(* it has been granted, and they come back only when it no longer runs.    *)
(***************************************************************************)
CONSTANTS Exps, Units

VARIABLES
  granted,   \* the units each experiment has been granted
  using      \* the units each experiment's processes use

vars == <<granted, using>>

Init ==
  /\ granted = [e \in Exps |-> {}]
  /\ using = [e \in Exps |-> {}]

Grant(e, U) ==
  /\ granted[e] = {} /\ using[e] = {}
  /\ \A f \in Exps : granted[f] \cap U = {}
  /\ granted' = [granted EXCEPT ![e] = U]
  /\ UNCHANGED using

Run(e) ==
  /\ using[e] = {} /\ using' = [using EXCEPT ![e] = granted[e]]
  /\ UNCHANGED granted

Stop(e) ==
  /\ using' = [using EXCEPT ![e] = {}]
  /\ UNCHANGED granted

Return(e) ==
  /\ using[e] = {}
  /\ granted' = [granted EXCEPT ![e] = {}]
  /\ UNCHANGED using

Next ==
  \E e \in Exps : \/ \E U \in SUBSET Units : Grant(e, U)
                  \/ Run(e) \/ Stop(e) \/ Return(e)

Spec == Init /\ [][Next]_vars
=============================================================================
