------------------------------ MODULE MCRunner ------------------------------
(* Small instances of Runner.                                              *)
EXTENDS RunnerInvariant, TLC

CONSTANTS e1, e2, e3

Sym == Permutations(Procs)

NoNeeds == [kind |-> "any", tags |-> {}, units |-> 0]
Gpu(n) == [capacity |-> n, num |-> 1, den |-> 1, kind |-> "gpu", tags |-> {}]

OneGpu == [g |-> Gpu(1)]
TwoGpus == [g |-> Gpu(2)]

Singles == [e \in Exps |-> NoNeeds]

NoDeps == [e \in Exps |-> {}]
\* e2 waits for e1.
Chain == [e \in Exps |-> IF e = e2 THEN {e1} ELSE {}]

Order == [e \in Exps |-> IF e = e1 THEN 1 ELSE IF e = e2 THEN 2
                          ELSE IF e = e3 THEN 3 ELSE 4]
=============================================================================
