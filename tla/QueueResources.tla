--------------------------- MODULE QueueResources ---------------------------
(***************************************************************************)
(* The sizing and matching rules of the experiment queue                   *)
(* (the_lab/queue.py), as operators: how many units a job takes on a       *)
(* resource, how many jobs a resource runs at once, which resource a job   *)
(* is matched with and which of its units a reservation picks.             *)
(*                                                                         *)
(* A resource table "cfg" maps a resource name to a record                 *)
(*    capacity, num, den, kind, tags                                       *)
(* where num/den stands for the float jobs_per_unit.  A requirement is a   *)
(* record (kind, tags, units); kind "any" and units 0 mean "not given".    *)
(* An allocation table maps a label to the set of <<resource, index>>      *)
(* units it holds; a label the code has no entry for holds the empty set   *)
(* (an entry always has at least one unit).                                *)
(***************************************************************************)
EXTENDS Integers, FiniteSets

AtLeastOne(n) == IF n < 1 THEN 1 ELSE n

\* Resource.default_units_per_job: ceil(1 / jobs_per_unit), at least one.
DefaultUnits(c) ==
  IF c.num <= 0 THEN 1 ELSE AtLeastOne((c.den + c.num - 1) \div c.num)

\* Resource.max_parallel_jobs: floor(capacity * jobs_per_unit), at least one.
MaxParallel(c) == AtLeastOne((c.capacity * c.num) \div c.den)

Candidates(cfg, q) ==
  {r \in DOMAIN cfg : /\ q.kind \in {"any", cfg[r].kind}
                      /\ q.tags \subseteq cfg[r].tags}

\* The candidates left after "prefer those with enough capacity, or all".
Preferred(cfg, q) ==
  LET roomy == {r \in Candidates(cfg, q) : cfg[r].capacity >= q.units}
  IN  IF q.units # 0 /\ roomy # {} THEN roomy ELSE Candidates(cfg, q)

\* The resources match_resource may return: those of the largest capacity
\* (the list order that breaks a tie is left out); empty when it returns None.
MatchResource(cfg, q) ==
  {r \in Preferred(cfg, q) :
     \A s \in Preferred(cfg, q) : cfg[s].capacity <= cfg[r].capacity}

UnitsWanted(c, q) == IF q.units # 0 THEN q.units ELSE DefaultUnits(c)

Taken(allocs) == UNION {allocs[l] : l \in DOMAIN allocs}

Holders(allocs, r) ==
  {l \in DOMAIN allocs : \E u \in allocs[l] : u[1] = r}

\* Faulty: the units of the other holders are not taken out.
FreeUnitsAll(cfg, allocs, r) == {r} \X (0 .. cfg[r].capacity - 1)

\* Faulty: units counted from one.
FreeUnitsFromOne(cfg, allocs, r) ==
  {u \in {r} \X (1 .. cfg[r].capacity) : u \notin Taken(allocs)}

FreeUnits(cfg, allocs, r) ==
  {u \in {r} \X (0 .. cfg[r].capacity - 1) : u \notin Taken(allocs)}

CanReserve(cfg, allocs, r, n) ==
  /\ Cardinality(Holders(allocs, r)) < MaxParallel(cfg[r])
  /\ Cardinality(FreeUnits(cfg, allocs, r)) >= n

\* free[:count]: the free units of the n lowest indices.
Lowest(free, n) ==
  {u \in free : Cardinality({v \in free : v[2] < u[2]}) < n}

=============================================================================
