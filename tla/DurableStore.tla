---------------------------- MODULE DurableStore ----------------------------
(* What the message store promises of its file, whatever threads, timers and  *)
(* generations are used to keep the promise.  A store is the set of changes   *)
(* it contains, numbered in the order in which they were made.  The live      *)
(* store runs ahead of the file; the file only moves forward, always to a     *)
(* store that was once live; a restart goes back to the file and no further.  *)
EXTENDS Naturals

VARIABLES mem, disk

Init == mem = {} /\ disk = {}

\* A change is later than everything the live store and the file contain.
Change == \E k \in mem':
              /\ k \in Nat
              /\ \A j \in mem \union disk: j < k
              /\ mem' = mem \union {k}
              /\ UNCHANGED disk

\* The file becomes the store as it was right after change k.
Save == \E k \in mem:
            /\ disk' = {j \in mem: j <= k}
            /\ disk \subseteq disk'
            /\ UNCHANGED mem

Restart == mem' = disk /\ UNCHANGED disk

Next == Change \/ Save \/ Restart

Spec == Init /\ [][Next]_<<mem, disk>>
=============================================================================
