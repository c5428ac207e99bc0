--------------------------- MODULE ServicesProofs ---------------------------
(* Proofs about the parts of Services: the claims, the notices and the registry *)
(* here, the others in modules of their own; and that the whole keeps what each *)
(* keeps.                                                                      *)
EXTENDS Services, EventsProofs, WorkspacesProofs, RecordsProofs, TLAPS

-----------------------------------------------------------------------------
(* Claims, for any claimants, questions, leases and clock: an agent that counts *)
(* on its lease is the one in the file, so there is at most one, and a          *)
(* completed answer is not claimed again.                                      *)

\* What a call that holds the lock is about.
LEMMA CallTyped ==
    ASSUME ClaimsTypeOK, NEW p \in ClaimCallers, asking[p] # Idle
    PROVE  /\ asking[p] \in ClaimCalls
           /\ asking[p].question \in Questions
           /\ asking[p].lease \in Nat /\ asking[p].now \in Nat
           /\ asking[p].now + asking[p].lease \in Nat
           /\ record[asking[p].question] \in ClaimRecords
           /\ record[asking[p].question].expires \in Nat
           /\ record[asking[p].question].owner \in ClaimCallers
<1>1. asking[p] \in ClaimCalls
  BY DEF ClaimsTypeOK
<1>2. /\ asking[p].question \in Questions
      /\ asking[p].lease \in Leases
      /\ asking[p].now \in 0..LastMoment
  BY <1>1 DEF ClaimCalls
<1>3. record[asking[p].question] \in ClaimRecords
  BY <1>2 DEF ClaimsTypeOK
<1>4. /\ record[asking[p].question].expires \in Nat
      /\ record[asking[p].question].owner \in ClaimCallers
  BY <1>3 DEF ClaimRecords
<1>5. asking[p].lease \in Nat /\ asking[p].now \in Nat
  BY <1>2, ClaimsAssumption
<1> QED
  BY <1>1, <1>2, <1>3, <1>4, <1>5

\* Every decision is about a call that was made.
LEMMA DecidesOnCall ==
    ASSUME ClaimsTypeOK, NEW p \in ClaimCallers, Decide(p)
    PROVE  asking[p] # Idle
BY DEF Decide, Refused, Kept, Leased, LeasedUnheard, Completed, Released, Dies, Idle

-----------------------------------------------------------------------------
(* Types.                                                                     *)

LEMMA AnsweredTyped ==
    ASSUME ClaimsTypeOK, NEW p \in ClaimCallers, Answered(p)
    PROVE  asking' \in [ClaimCallers -> ClaimCalls \union {Idle}]
BY DEF ClaimsTypeOK, Answered

LEMMA ToldTyped ==
    ASSUME ClaimsTypeOK, NEW p \in ClaimCallers, asking[p] # Idle,
           NEW until \in Nat, Told(p, until)
    PROVE  told' \in [Claimants -> [Questions -> Nat]]
<1>1. asking[p].question \in Questions
  BY CallTyped
<1> QED
  BY <1>1 DEF ClaimsTypeOK, Told, ClaimCallers

LEMMA SettlesTyped ==
    ASSUME ClaimsTypeOK, NEW p \in ClaimCallers, asking[p] # Idle,
           NEW status \in {"active", "completed", "released"}, NEW until \in Nat,
           Settles(p, status, until)
    PROVE  record' \in [Questions -> ClaimRecords]
<1>1. asking[p].question \in Questions /\ record[asking[p].question].owner \in ClaimCallers
  BY CallTyped
<1> DEFINE r == [status |-> status,
                 owner |-> IF Taken(p) THEN record[asking[p].question].owner ELSE p,
                 expires |-> until]
<1>2. r \in ClaimRecords
  BY <1>1 DEF ClaimRecords
<1>3. record' = [record EXCEPT ![asking[p].question] = r]
  BY DEF Settles
<1> HIDE DEF r
<1> QED
  BY <1>1, <1>2, <1>3 DEF ClaimsTypeOK

LEMMA AskTyped ==
    ASSUME ClaimsTypeOK, NEW p \in ClaimCallers, NEW q \in Questions, NEW lease \in Leases,
           NEW action \in {"acquire", "renew", "release", "complete"},
           Ask(p, q, action, lease)
    PROVE  ClaimsTypeOK'
<1>1. [action |-> action, question |-> q, lease |-> lease, now |-> time] \in ClaimCalls
  BY DEF ClaimsTypeOK, ClaimCalls
<1>2. asking' \in [ClaimCallers -> ClaimCalls \union {Idle}]
  BY <1>1 DEF ClaimsTypeOK, Ask
<1>3. time \in Nat /\ lease \in Nat /\ time + lease \in Nat
  BY ClaimsAssumption DEF ClaimsTypeOK
<1>4. told' \in [Claimants -> [Questions -> Nat]]
  <2>1. CASE p = Operator
    BY <2>1 DEF ClaimsTypeOK, Ask, CountsOn
  <2>2. CASE p # Operator
    <3>1. p \in Claimants /\ told[p][q] \in Nat
      BY <2>2 DEF ClaimCallers, ClaimsTypeOK
    <3>2. PICK n \in Nat : told' = [told EXCEPT ![p][q] = n]
      BY <1>3, <2>2, <3>1 DEF Ask, CountsOn
    <3> QED
      BY <3>1, <3>2 DEF ClaimsTypeOK
  <2> QED
    BY <2>1, <2>2
<1> QED
  BY <1>2, <1>4 DEF ClaimsTypeOK, Ask

LEMMA DecideTyped ==
    ASSUME ClaimsTypeOK, NEW p \in ClaimCallers, Decide(p)
    PROVE  ClaimsTypeOK'
<1>0. asking[p] # Idle
  BY DecidesOnCall
<1> DEFINE c == asking[p]
<1>t. /\ c.question \in Questions /\ c.now + c.lease \in Nat
      /\ record[c.question].expires \in Nat
  BY <1>0, CallTyped
<1>1. CASE Refused(p)
  BY <1>0, <1>1, AnsweredTyped, ToldTyped DEF Refused, ClaimsTypeOK
<1>2. CASE Kept(p)
  <2>1. PICK n \in Nat : Told(p, n)
    BY <1>2, <1>t DEF Kept
  <2> QED
    BY <1>0, <1>2, <2>1, AnsweredTyped, ToldTyped DEF Kept, ClaimsTypeOK
<1>3. CASE Leased(p)
  <2>1. Settles(p, "active", c.now + c.lease) /\ Told(p, c.now + c.lease)
    BY <1>3 DEF Leased
  <2> QED
    BY <1>0, <1>t, <1>3, <2>1, AnsweredTyped, ToldTyped, SettlesTyped DEF Leased, ClaimsTypeOK
<1>4. CASE LeasedUnheard(p)
  <2>1. Settles(p, "active", c.now + c.lease)
    BY <1>4 DEF LeasedUnheard
  <2> QED
    BY <1>0, <1>t, <1>4, <2>1, AnsweredTyped, SettlesTyped DEF LeasedUnheard, ClaimsTypeOK
<1>5. CASE Completed(p)
  BY <1>0, <1>5, AnsweredTyped, ToldTyped, SettlesTyped DEF Completed, ClaimsTypeOK
<1>6. CASE Released(p)
  <2>1. told' \in [Claimants -> [Questions -> Nat]]
    BY <1>6, <1>t DEF Released, ClaimsTypeOK
  <2> QED
    BY <1>0, <1>6, <2>1, AnsweredTyped, SettlesTyped DEF Released, ClaimsTypeOK
<1>7. CASE Dies(p)
  BY <1>7, AnsweredTyped DEF Dies, ClaimsTypeOK
<1> QED
  BY <1>1, <1>2, <1>3, <1>4, <1>5, <1>6, <1>7 DEF Decide

\* The file, the calls and what claimants were told keep their types.
THEOREM ClaimsTyped == ClaimsSpec => []ClaimsTypeOK
<1>1. ClaimsInit => ClaimsTypeOK
  BY ClaimsAssumption DEF ClaimsInit, ClaimsTypeOK, Unclaimed, ClaimRecords, ClaimCallers
<1>2. ClaimsTypeOK /\ [ClaimsNext]_claimVars => ClaimsTypeOK'
  <2> SUFFICES ASSUME ClaimsTypeOK, [ClaimsNext]_claimVars
               PROVE  ClaimsTypeOK'
    OBVIOUS
  <2>1. ASSUME NEW p \in ClaimCallers, NEW q \in Questions, NEW lease \in Leases,
               NEW action \in {"acquire", "renew", "release", "complete"},
               Ask(p, q, action, lease)
        PROVE  ClaimsTypeOK'
    BY <2>1, AskTyped
  <2>2. ASSUME NEW p \in ClaimCallers, Decide(p)
        PROVE  ClaimsTypeOK'
    BY <2>2, DecideTyped
  <2>3. CASE TimePasses
    BY <2>3, ClaimsAssumption DEF TimePasses, ClaimsTypeOK
  <2>4. CASE UNCHANGED claimVars
    BY <2>4 DEF claimVars, ClaimsTypeOK
  <2> QED
    BY <2>1, <2>2, <2>3, <2>4 DEF ClaimsNext
<1> QED
  BY <1>1, <1>2, PTL DEF ClaimsSpec

-----------------------------------------------------------------------------
(* The leases.                                                                *)

\* A call that writes about a question nobody else holds takes no lease away.
LEMMA OwnerOnly ==
    ASSUME ClaimsIInv, NEW p \in ClaimCallers, asking[p] # Idle, ~Foreign(p),
           NEW a \in Claimants, a # p
    PROVE  told[a][asking[p].question] <= time
<1> DEFINE q == asking[p].question
<1> SUFFICES ASSUME told[a][q] > time PROVE FALSE
  <2>1. told[a][q] \in Nat /\ time \in Nat
    BY CallTyped, ClaimsAssumption DEF ClaimsIInv, ClaimsTypeOK
  <2> QED
    BY <2>1
<1>1. q \in Questions /\ record[q].expires \in Nat /\ asking[p].now \in Nat
  BY CallTyped DEF ClaimsIInv
<1>2. LeaseOnFile(a, q)
  BY <1>1 DEF ClaimsIInv, LeasesOnFile
<1>3. asking[p].now <= time
  BY DEF ClaimsIInv, ClocksBehind
<1>4. told[a][q] \in Nat /\ time \in Nat
  BY <1>1, ClaimsAssumption DEF ClaimsIInv, ClaimsTypeOK
<1>5. record[q].status = "active" /\ record[q].owner = a /\ record[q].expires > asking[p].now
  BY <1>1, <1>2, <1>3, <1>4 DEF LeaseOnFile
<1>6. Taken(p) /\ record[q].owner # p
  BY <1>5 DEF Taken, Visible
<1> QED
  BY <1>6 DEF Foreign

\* A call that is answered leaves the other calls as they are.
LEMMA AnsweredKeeps ==
    ASSUME ClaimsIInv, NEW p \in ClaimCallers, Answered(p), time' = time
    PROVE  /\ ClocksBehind'
           /\ \A a \in Claimants : asking'[a].action = "renew" =>
                  a # p /\ asking'[a] = asking[a]
BY DEF ClaimsIInv, ClaimsTypeOK, ClocksBehind, Answered, Idle, ClaimCallers

\* When nobody else is told anything, those that renew stay as cautious.
LEMMA CautionKept ==
    ASSUME ClaimsIInv, NEW p \in ClaimCallers, Answered(p), time' = time,
           \A a \in Claimants \ {p} : told'[a] = told[a]
    PROVE  RenewalsCautious'
BY AnsweredKeeps DEF ClaimsIInv, RenewalsCautious

\* What the claimant is told concerns it and its question alone.
LEMMA ToldOthers ==
    ASSUME ClaimsTypeOK, NEW p \in ClaimCallers, asking[p] # Idle,
           NEW until \in Nat, Told(p, until)
    PROVE  \A a \in Claimants, q \in Questions :
              told'[a][q] = IF a = p /\ q = asking[p].question THEN until ELSE told[a][q]
<1>1. asking[p].question \in Questions
  BY CallTyped
<1>2. CASE p = Operator
  BY <1>2, ClaimsAssumption DEF Told
<1>3. CASE p # Operator
  BY <1>1, <1>3 DEF Told, ClaimCallers, ClaimsTypeOK
<1> QED
  BY <1>2, <1>3

LEMMA SettlesOne ==
    ASSUME ClaimsTypeOK, NEW p \in ClaimCallers, asking[p] # Idle,
           NEW status \in {"active", "completed", "released"}, NEW until \in Nat,
           Settles(p, status, until)
    PROVE  /\ \A q \in Questions \ {asking[p].question} : record'[q] = record[q]
           /\ record'[asking[p].question].status = status
           /\ record'[asking[p].question].expires = until
           /\ record'[asking[p].question].owner =
                 IF Taken(p) THEN record[asking[p].question].owner ELSE p
<1>1. asking[p].question \in Questions
  BY CallTyped
<1> QED
  BY <1>1 DEF Settles, ClaimsTypeOK

LEMMA AskKeeps ==
    ASSUME ClaimsIInv, NEW p \in ClaimCallers, NEW q \in Questions, NEW lease \in Leases,
           NEW action \in {"acquire", "renew", "release", "complete"},
           Ask(p, q, action, lease)
    PROVE  ClaimsIInv'
<1> DEFINE asked == [action |-> action, question |-> q, lease |-> lease, now |-> time]
<1>0. ClaimsTypeOK'
  BY AskTyped DEF ClaimsIInv
<1>1. ClaimsTypeOK' /\ time \in Nat /\ lease \in Nat
  BY <1>0, ClaimsAssumption DEF ClaimsIInv, ClaimsTypeOK
<1>2. /\ asking' = [asking EXCEPT ![p] = asked] /\ time' = time /\ record' = record
      /\ \A x \in ClaimCallers : asking'[x] = IF x = p THEN asked ELSE asking[x]
  BY DEF Ask, ClaimsIInv, ClaimsTypeOK
<1>3. \A a \in Claimants, b \in Questions :
         /\ told[a][b] \in Nat
         /\ told'[a][b] \in Nat
         /\ told'[a][b] <= told[a][b]
         /\ a = p /\ b = q /\ action = "renew" => told'[a][b] <= time + lease
  <2> SUFFICES ASSUME NEW a \in Claimants, NEW b \in Questions
               PROVE  /\ told[a][b] \in Nat
                      /\ told'[a][b] \in Nat
                      /\ told'[a][b] <= told[a][b]
                      /\ a = p /\ b = q /\ action = "renew" => told'[a][b] <= time + lease
    OBVIOUS
  <2>1. told[a][b] \in Nat /\ told'[a][b] \in Nat
    BY <1>1 DEF ClaimsIInv, ClaimsTypeOK
  <2>2. CASE a = p /\ b = q
    <3>1. told'[a][b] = CASE action = "acquire" -> told[a][b]
                          [] action = "renew" ->
                               IF told[a][b] <= time + lease THEN told[a][b] ELSE time + lease
                          [] OTHER -> 0
      BY <2>2, ClaimsAssumption DEF Ask, CountsOn, ClaimsIInv, ClaimsTypeOK
    <3> QED
      BY <1>1, <2>1, <3>1
  <2>3. CASE a # p \/ b # q
    <3>1. told'[a][b] = told[a][b]
      BY <2>3 DEF Ask, CountsOn, ClaimsIInv, ClaimsTypeOK, ClaimCallers
    <3> QED
      BY <2>1, <2>3, <3>1
  <2> QED
    BY <2>2, <2>3
<1>4. ClocksBehind'
  BY <1>1, <1>2 DEF ClaimsIInv, ClocksBehind
<1>5. RenewalsCautious'
  <2> SUFFICES ASSUME NEW a \in Claimants, asking'[a].action = "renew"
               PROVE  told'[a][asking'[a].question] <= asking'[a].now + asking'[a].lease
    BY DEF RenewalsCautious
  <2>1. a \in ClaimCallers
    BY DEF ClaimCallers
  <2>2. CASE a = p
    BY <1>2, <1>3, <2>1, <2>2
  <2>3. CASE a # p
    <3>1. asking'[a] = asking[a] /\ asking[a] # Idle
      BY <1>2, <2>1, <2>3 DEF Idle
    <3>2. /\ asking[a].question \in Questions /\ asking[a].now + asking[a].lease \in Nat
          /\ told[a][asking[a].question] <= asking[a].now + asking[a].lease
      BY <2>1, <3>1, CallTyped DEF ClaimsIInv, RenewalsCautious
    <3> QED
      BY <1>3, <3>1, <3>2
  <2> QED
    BY <2>2, <2>3
<1>6. LeasesOnFile'
  <2> SUFFICES ASSUME NEW a \in Claimants, NEW b \in Questions, told'[a][b] > time
               PROVE  LeaseOnFile(a, b)'
    BY <1>2 DEF LeasesOnFile
  <2>1. told[a][b] > time /\ told'[a][b] <= told[a][b] /\ told[a][b] \in Nat /\ told'[a][b] \in Nat
    BY <1>1, <1>3
  <2>2. LeaseOnFile(a, b) /\ record[b].expires \in Nat
    BY <2>1 DEF ClaimsIInv, LeasesOnFile, ClaimsTypeOK, ClaimRecords
  <2> QED
    BY <1>2, <2>1, <2>2 DEF LeaseOnFile
<1>7. AnswersEndless'
  BY <1>2 DEF ClaimsIInv, AnswersEndless
<1> QED
  BY <1>1, <1>4, <1>5, <1>6, <1>7 DEF ClaimsIInv

\* A call that is refused, or dies before its change.
LEMMA NothingWritten ==
    ASSUME ClaimsIInv, NEW p \in ClaimCallers, asking[p] # Idle, ClaimsTypeOK',
           Answered(p), record' = record, time' = time,
           told' = told \/ Told(p, 0)
    PROVE  ClaimsIInv'
<1>1. \A a \in Claimants, q \in Questions :
         told'[a][q] = told[a][q] \/ told'[a][q] = 0
  BY ToldOthers DEF ClaimsIInv
<1>2. \A a \in Claimants \ {p}, q \in Questions : told'[a][q] = told[a][q]
  BY ToldOthers DEF ClaimsIInv
<1>3. RenewalsCautious'
  <2> SUFFICES ASSUME NEW a \in Claimants, asking'[a].action = "renew"
               PROVE  told'[a][asking'[a].question] <= asking'[a].now + asking'[a].lease
    BY DEF RenewalsCautious
  <2>1. a # p /\ asking'[a] = asking[a] /\ asking[a] # Idle /\ a \in ClaimCallers
    BY AnsweredKeeps DEF Idle, ClaimCallers
  <2>2. asking[a].question \in Questions
    BY <2>1, CallTyped DEF ClaimsIInv
  <2> QED
    BY <1>2, <2>1, <2>2 DEF ClaimsIInv, RenewalsCautious
<1>4. LeasesOnFile'
  <2> SUFFICES ASSUME NEW a \in Claimants, NEW q \in Questions, told'[a][q] > time
               PROVE  LeaseOnFile(a, q)'
    BY DEF LeasesOnFile
  <2>1. told'[a][q] = told[a][q]
    BY <1>1, ClaimsAssumption DEF ClaimsIInv, ClaimsTypeOK
  <2> QED
    BY <2>1 DEF ClaimsIInv, LeasesOnFile, LeaseOnFile
<1> QED
  BY <1>3, <1>4, AnsweredKeeps DEF ClaimsIInv, AnswersEndless

\* The claimant gets the end of its own claim, or learns that it is answered.
LEMMA KeptKeeps ==
    ASSUME ClaimsIInv, NEW p \in ClaimCallers, Kept(p), asking[p] # Idle, ClaimsTypeOK'
    PROVE  ClaimsIInv'
<1> DEFINE b == asking[p].question
<1> DEFINE until == IF record[b].status = "active" THEN record[b].expires ELSE 0
<1>1. b \in Questions /\ until \in Nat
  BY CallTyped DEF ClaimsIInv
<1>2. \A a \in Claimants, q \in Questions :
         told'[a][q] = IF a = p /\ q = b THEN until ELSE told[a][q]
  BY <1>1, ToldOthers DEF Kept, ClaimsIInv
<1>3. Answered(p) /\ record' = record /\ time' = time /\ record[b].owner = p
  BY DEF Kept, Foreign
<1>4. RenewalsCautious'
  <2> SUFFICES ASSUME NEW a \in Claimants, asking'[a].action = "renew"
               PROVE  told'[a][asking'[a].question] <= asking'[a].now + asking'[a].lease
    BY DEF RenewalsCautious
  <2>1. a # p /\ asking'[a] = asking[a] /\ asking[a] # Idle /\ a \in ClaimCallers
    BY <1>3, AnsweredKeeps DEF Idle, ClaimCallers
  <2>2. asking[a].question \in Questions
    BY <2>1, CallTyped DEF ClaimsIInv
  <2> QED
    BY <1>2, <2>1, <2>2 DEF ClaimsIInv, RenewalsCautious
<1>5. LeasesOnFile'
  <2> SUFFICES ASSUME NEW a \in Claimants, NEW q \in Questions, told'[a][q] > time
               PROVE  LeaseOnFile(a, q)'
    BY <1>3 DEF LeasesOnFile
  <2>1. time \in Nat
    BY ClaimsAssumption DEF ClaimsIInv, ClaimsTypeOK
  <2>2. CASE a = p /\ q = b
    <3>1. told'[a][q] = until
      BY <1>2, <2>2
    <3>2. record[b].status = "active"
      BY <2>1, <3>1
    <3> QED
      BY <1>1, <1>3, <2>2, <3>1, <3>2 DEF LeaseOnFile
  <2>3. CASE ~(a = p /\ q = b)
    BY <1>2, <1>3, <2>3 DEF ClaimsIInv, LeasesOnFile, LeaseOnFile
  <2> QED
    BY <2>2, <2>3
<1> QED
  BY <1>3, <1>4, <1>5, AnsweredKeeps DEF ClaimsIInv, AnswersEndless

\* A claim or a renewal is written, and the claimant hears of it or does not.
LEMMA LeasedKeeps ==
    ASSUME ClaimsIInv, NEW p \in ClaimCallers, Leased(p) \/ LeasedUnheard(p),
           asking[p] # Idle, ClaimsTypeOK'
    PROVE  ClaimsIInv'
<1> DEFINE b == asking[p].question
<1> DEFINE until == asking[p].now + asking[p].lease
<1>1. b \in Questions /\ until \in Nat /\ p \in ClaimCallers
  BY CallTyped DEF ClaimsIInv
<1>2. /\ Settles(p, "active", until) /\ Answered(p) /\ time' = time /\ ~Foreign(p)
      /\ told' = told \/ Told(p, until)
      /\ Taken(p) => asking[p].action = "renew"
  <2>1. CASE Leased(p)
    <3>1. Settles(p, "active", until) /\ Told(p, until)
      BY <2>1 DEF Leased
    <3>2. Answered(p) /\ time' = time
      BY <2>1 DEF Leased
    <3>3. \/ asking[p].action = "acquire" /\ ~Taken(p)
          \/ asking[p].action = "renew" /\ Taken(p) /\ ~Foreign(p)
      BY <2>1 DEF Leased
    <3> QED
      BY <3>1, <3>2, <3>3 DEF Foreign
  <2>2. CASE LeasedUnheard(p)
    <3>1. Settles(p, "active", until)
      BY <2>2 DEF LeasedUnheard
    <3>2. Answered(p) /\ told' = told /\ time' = time
      BY <2>2 DEF LeasedUnheard
    <3>3. \/ asking[p].action = "acquire" /\ ~Taken(p)
          \/ asking[p].action = "renew" /\ Taken(p) /\ ~Foreign(p)
      BY <2>2 DEF LeasedUnheard
    <3> QED
      BY <3>1, <3>2, <3>3 DEF Foreign
  <2> QED
    BY <2>1, <2>2
<1>3. /\ record'[b].status = "active" /\ record'[b].expires = until /\ record'[b].owner = p
      /\ \A q \in Questions : q # b => record'[q] = record[q]
  <2>1. /\ \A q \in Questions \ {b} : record'[q] = record[q]
        /\ record'[b].status = "active"
        /\ record'[b].expires = until
        /\ record'[b].owner = IF Taken(p) THEN record[b].owner ELSE p
    BY <1>1, <1>2, SettlesOne DEF ClaimsIInv
  <2>2. Taken(p) => record[b].owner = p
    BY <1>2 DEF Foreign
  <2> HIDE DEF until
  <2> QED
    BY <1>1, <2>1, <2>2
<1>4. /\ \A a \in Claimants, q \in Questions : a # p \/ q # b => told'[a][q] = told[a][q]
      /\ p \in Claimants => told'[p][b] = told[p][b] \/ told'[p][b] = until
  BY <1>1, <1>2, ToldOthers DEF ClaimsIInv
<1>5. RenewalsCautious'
  <2> SUFFICES ASSUME NEW a \in Claimants, asking'[a].action = "renew"
               PROVE  told'[a][asking'[a].question] <= asking'[a].now + asking'[a].lease
    BY DEF RenewalsCautious
  <2>1. a # p /\ asking'[a] = asking[a] /\ asking[a] # Idle /\ a \in ClaimCallers
    BY <1>2, AnsweredKeeps DEF Idle, ClaimCallers
  <2>2. asking[a].question \in Questions
    BY <2>1, CallTyped DEF ClaimsIInv
  <2> QED
    BY <1>4, <2>1, <2>2 DEF ClaimsIInv, RenewalsCautious
<1>6. ASSUME p \in Claimants, told[p][b] > time
      PROVE  told[p][b] <= until
  <2>1. told[p][b] \in Nat /\ time \in Nat /\ asking[p].now \in Nat /\ record[b].expires \in Nat
    BY <1>1, <1>6, CallTyped, ClaimsAssumption DEF ClaimsIInv, ClaimsTypeOK
  <2>2. LeaseOnFile(p, b) /\ asking[p].now <= time
    BY <1>1, <1>6 DEF ClaimsIInv, LeasesOnFile, ClocksBehind
  <2>3. Taken(p)
    BY <1>6, <2>1, <2>2 DEF LeaseOnFile, Taken, Visible
  <2>4. asking[p].action = "renew"
    BY <1>2, <2>3
  <2> QED
    BY <1>6, <2>4 DEF ClaimsIInv, RenewalsCautious
<1>7. LeasesOnFile'
  <2> SUFFICES ASSUME NEW a \in Claimants, NEW q \in Questions, told'[a][q] > time
               PROVE  LeaseOnFile(a, q)'
    BY <1>2 DEF LeasesOnFile
  <2>1. CASE a = p /\ q = b
    <3>1. told'[p][b] = until \/ told'[p][b] <= until
      BY <1>4, <1>6, <2>1
    <3> QED
      BY <1>1, <1>3, <2>1, <3>1 DEF LeaseOnFile
  <2>2. CASE a # p \/ q # b
    <3>1. told'[a][q] = told[a][q]
      BY <1>4, <2>2
    <3>2. told[a][q] \in Nat /\ time \in Nat
      BY ClaimsAssumption DEF ClaimsIInv, ClaimsTypeOK
    <3>3. q # b
      BY <1>2, <2>2, <3>1, <3>2, OwnerOnly
    <3>4. record'[q] = record[q]
      BY <1>3, <3>3
    <3> QED
      BY <3>1, <3>4 DEF ClaimsIInv, LeasesOnFile, LeaseOnFile
  <2> QED
    BY <2>1, <2>2
<1>8. AnswersEndless'
  BY <1>3 DEF ClaimsIInv, AnswersEndless
<1> QED
  BY <1>2, <1>5, <1>7, <1>8, AnsweredKeeps DEF ClaimsIInv

\* A claim that ends: its owner stops counting on it.
LEMMA EndedKeeps ==
    ASSUME ClaimsIInv, NEW p \in ClaimCallers, Completed(p) \/ Released(p),
           asking[p] # Idle, ClaimsTypeOK'
    PROVE  ClaimsIInv'
<1> DEFINE b == asking[p].question
<1>1. b \in Questions /\ record[b].owner \in ClaimCallers
  BY CallTyped DEF ClaimsIInv
<1>2. PICK status \in {"completed", "released"} : Settles(p, status, 0)
  BY DEF Completed, Released
<1>3. Answered(p) /\ time' = time /\ Taken(p)
  BY DEF Completed, Released
<1>4. /\ record'[b].expires = 0
      /\ \A q \in Questions : q # b => record'[q] = record[q]
  <2>1. /\ \A q \in Questions \ {b} : record'[q] = record[q]
        /\ record'[b].expires = 0
    BY <1>2, SettlesOne DEF ClaimsIInv
  <2> QED
    BY <1>1, <2>1
<1>5. /\ \A a \in Claimants, q \in Questions : q # b => told'[a][q] = told[a][q]
      /\ \A a \in Claimants : told'[a][b] = told[a][b] \/ told'[a][b] = 0
      /\ record[b].owner \in Claimants => told'[record[b].owner][b] = 0
  <2>1. CASE Completed(p)
    <3>1. Told(p, 0) /\ record[b].owner = p
      BY <2>1 DEF Completed, Foreign
    <3> QED
      BY <1>1, <3>1, ToldOthers DEF ClaimsIInv
  <2>2. CASE Released(p)
    BY <1>1, <2>2 DEF Released, ClaimsIInv, ClaimsTypeOK
  <2> QED
    BY <2>1, <2>2
<1>6. RenewalsCautious'
  <2> SUFFICES ASSUME NEW a \in Claimants, asking'[a].action = "renew"
               PROVE  told'[a][asking'[a].question] <= asking'[a].now + asking'[a].lease
    BY DEF RenewalsCautious
  <2>1. a # p /\ asking'[a] = asking[a] /\ asking[a] # Idle /\ a \in ClaimCallers
    BY <1>3, AnsweredKeeps DEF Idle, ClaimCallers
  <2>2. asking[a].question \in Questions /\ asking[a].now + asking[a].lease \in Nat
    BY <2>1, CallTyped DEF ClaimsIInv
  <2>3. told[a][asking[a].question] <= asking[a].now + asking[a].lease
    BY <2>1 DEF ClaimsIInv, RenewalsCautious
  <2>4. told'[a][asking[a].question] = told[a][asking[a].question]
        \/ told'[a][asking[a].question] = 0
    BY <1>5, <2>2
  <2> QED
    BY <2>1, <2>2, <2>3, <2>4
<1>7. LeasesOnFile'
  <2> SUFFICES ASSUME NEW a \in Claimants, NEW q \in Questions, told'[a][q] > time
               PROVE  LeaseOnFile(a, q)'
    BY <1>3 DEF LeasesOnFile
  <2>1. told'[a][q] # 0
    BY ClaimsAssumption DEF ClaimsIInv, ClaimsTypeOK
  <2>2. told'[a][q] = told[a][q]
    BY <1>5, <2>1
  <2>3. LeaseOnFile(a, q)
    BY <2>2 DEF ClaimsIInv, LeasesOnFile
  <2>4. q # b
    BY <1>5, <2>1, <2>3 DEF LeaseOnFile
  <2> QED
    BY <1>4, <2>2, <2>3, <2>4 DEF LeaseOnFile
<1>8. AnswersEndless'
  BY <1>4 DEF ClaimsIInv, AnswersEndless
<1> QED
  BY <1>3, <1>6, <1>7, <1>8, AnsweredKeeps DEF ClaimsIInv

LEMMA TimeKeeps ==
    ASSUME ClaimsIInv, TimePasses, ClaimsTypeOK'
    PROVE  ClaimsIInv'
<1>1. time \in Nat /\ time' = time + 1 /\ UNCHANGED <<record, asking, told>>
  BY ClaimsAssumption DEF ClaimsIInv, ClaimsTypeOK, TimePasses
<1>2. ClocksBehind'
  <2> SUFFICES ASSUME NEW p \in ClaimCallers, asking[p] # Idle
               PROVE  asking[p].now <= time + 1
    BY <1>1 DEF ClocksBehind
  <2>1. asking[p].now \in Nat /\ asking[p].now <= time
    BY CallTyped DEF ClaimsIInv, ClocksBehind
  <2> QED
    BY <1>1, <2>1
<1>3. LeasesOnFile'
  <2> SUFFICES ASSUME NEW a \in Claimants, NEW q \in Questions, told[a][q] > time + 1
               PROVE  LeaseOnFile(a, q)
    BY <1>1 DEF LeasesOnFile, LeaseOnFile
  <2>1. told[a][q] > time
    BY <1>1 DEF ClaimsIInv, ClaimsTypeOK
  <2> QED
    BY <2>1 DEF ClaimsIInv, LeasesOnFile
<1>4. RenewalsCautious' /\ AnswersEndless'
  BY <1>1 DEF ClaimsIInv, RenewalsCautious, AnswersEndless
<1> QED
  BY <1>2, <1>3, <1>4 DEF ClaimsIInv

LEMMA DecideKeeps ==
    ASSUME ClaimsIInv, NEW p \in ClaimCallers, Decide(p)
    PROVE  ClaimsIInv'
<1>1. asking[p] # Idle /\ ClaimsTypeOK'
  BY DecidesOnCall, DecideTyped DEF ClaimsIInv
<1>2. CASE Refused(p)
  BY <1>1, <1>2, NothingWritten DEF Refused
<1>3. CASE Dies(p)
  BY <1>1, <1>3, NothingWritten DEF Dies
<1> QED
  BY <1>1, <1>2, <1>3, KeptKeeps, LeasedKeeps, EndedKeeps DEF Decide

LEMMA ClaimsInitSound == ClaimsInit => ClaimsIInv
<1> SUFFICES ASSUME ClaimsInit PROVE ClaimsIInv
  OBVIOUS
<1>1. ClaimsTypeOK
  BY ClaimsAssumption DEF ClaimsInit, ClaimsTypeOK, Unclaimed, ClaimRecords, ClaimCallers
<1>2. ClocksBehind /\ RenewalsCautious
  BY DEF ClaimsInit, ClocksBehind, RenewalsCautious, Idle, ClaimCallers
<1>3. LeasesOnFile /\ AnswersEndless
  BY DEF ClaimsInit, LeasesOnFile, AnswersEndless, Unclaimed
<1> QED
  BY <1>1, <1>2, <1>3 DEF ClaimsIInv

LEMMA ClaimsStepSound == ClaimsIInv /\ [ClaimsNext]_claimVars => ClaimsIInv'
<1> SUFFICES ASSUME ClaimsIInv, [ClaimsNext]_claimVars
             PROVE  ClaimsIInv'
  OBVIOUS
<1>1. ASSUME NEW p \in ClaimCallers, NEW q \in Questions, NEW lease \in Leases,
             NEW action \in {"acquire", "renew", "release", "complete"},
             Ask(p, q, action, lease)
      PROVE  ClaimsIInv'
  BY <1>1, AskKeeps
<1>2. ASSUME NEW p \in ClaimCallers, Decide(p)
      PROVE  ClaimsIInv'
  BY <1>2, DecideKeeps
<1>3. CASE TimePasses
  <2>1. ClaimsTypeOK'
    BY <1>3, ClaimsAssumption DEF TimePasses, ClaimsIInv, ClaimsTypeOK
  <2> QED
    BY <1>3, <2>1, TimeKeeps
<1>4. CASE UNCHANGED claimVars
  BY <1>4 DEF claimVars, ClaimsIInv, ClaimsTypeOK, ClocksBehind, RenewalsCautious,
              LeasesOnFile, LeaseOnFile, AnswersEndless
<1> QED
  BY <1>1, <1>2, <1>3, <1>4 DEF ClaimsNext

\* What agents count on is in the file, whatever calls overtake one another,
\* expire, die or go unheard.
THEOREM ClaimsSound == ClaimsSpec => []ClaimsIInv
<1> QED
  BY ClaimsInitSound, ClaimsStepSound, PTL DEF ClaimsSpec

\* At most one agent counts on answering a question, and none beside somebody
\* else's completed answer.
THEOREM OneAnswererHolds == ClaimsSpec => []OneAnswerer
<1>1. ClaimsIInv => OneAnswerer
  <2> SUFFICES ASSUME ClaimsIInv, NEW q \in Questions, NEW a \in Claimants, told[a][q] > time
               PROVE  /\ \A b \in Claimants \ {a} : told[b][q] <= time
                      /\ record[q].status = "completed" => record[q].owner = a
    BY DEF OneAnswerer
  <2>1. LeaseOnFile(a, q)
    BY DEF ClaimsIInv, LeasesOnFile
  <2>2. ASSUME NEW b \in Claimants \ {a}
        PROVE  told[b][q] <= time
    <3>1. ~(told[b][q] > time)
      BY <2>1 DEF ClaimsIInv, LeasesOnFile, LeaseOnFile
    <3> QED
      BY <3>1, ClaimsAssumption DEF ClaimsIInv, ClaimsTypeOK
  <2> QED
    BY <2>1, <2>2 DEF LeaseOnFile
<1> QED
  BY <1>1, ClaimsSound, PTL

\* A decision leaves a completed answer as it is, or releases it.
LEMMA AnswersStay ==
    ASSUME ClaimsIInv, NEW p \in ClaimCallers, Decide(p),
           NEW q \in Questions, record[q].status = "completed"
    PROVE  record'[q].status = "released" \/ record'[q] = record[q]
<1> DEFINE b == asking[p].question
<1>1. asking[p] # Idle
  BY DecidesOnCall DEF ClaimsIInv
<1>2. b \in Questions /\ record[b] \in ClaimRecords
  BY <1>1, CallTyped DEF ClaimsIInv
<1>3. q = b => Taken(p)
  BY DEF Taken, Visible
<1>4. CASE Refused(p) \/ Kept(p) \/ Dies(p)
  BY <1>4 DEF Refused, Kept, Dies
<1>5. CASE Leased(p) \/ LeasedUnheard(p)
  <2>1. q # b
    BY <1>3, <1>5 DEF Leased, LeasedUnheard
  <2>2. asking[p].now + asking[p].lease \in Nat
    BY <1>1, CallTyped DEF ClaimsIInv
  <2>3. Settles(p, "active", asking[p].now + asking[p].lease)
    BY <1>5 DEF Leased, LeasedUnheard
  <2> QED
    BY <1>1, <2>1, <2>2, <2>3, SettlesOne DEF ClaimsIInv
<1>6. CASE Completed(p)
  <2>1. Settles(p, "completed", 0) /\ record[b].owner = p
    BY <1>6 DEF Completed, Foreign
  <2>2. CASE q # b
    BY <1>1, <2>1, <2>2, SettlesOne DEF ClaimsIInv
  <2>3. CASE q = b
    <3>1. /\ record[b].status = "completed" /\ record[b].expires = 0
          /\ record'[b] = [status |-> "completed", owner |-> p, expires |-> 0]
      BY <1>2, <1>3, <2>1, <2>3 DEF Settles, ClaimsIInv, ClaimsTypeOK, AnswersEndless
    <3> QED
      BY <1>2, <2>1, <2>3, <3>1 DEF ClaimRecords
  <2> QED
    BY <2>2, <2>3
<1>7. CASE Released(p)
  <2>1. Settles(p, "released", 0)
    BY <1>7 DEF Released
  <2> QED
    BY <1>1, <2>1, SettlesOne DEF ClaimsIInv
<1> QED
  BY <1>4, <1>5, <1>6, <1>7 DEF Decide

\* A completed answer stays as it is until it is released.
THEOREM AnswerKeptHolds == ClaimsSpec => AnswerKept
<1>1. ClaimsIInv /\ [ClaimsNext]_claimVars =>
         [\A q \in Questions :
             record[q].status = "completed" =>
                \/ record'[q].status = "released"
                \/ record'[q] = record[q]]_claimVars
  <2> SUFFICES ASSUME ClaimsIInv, [ClaimsNext]_claimVars,
                      NEW q \in Questions, record[q].status = "completed"
               PROVE  record'[q].status = "released" \/ record'[q] = record[q]
    OBVIOUS
  <2>1. CASE UNCHANGED record
    BY <2>1
  <2>2. ASSUME NEW p \in ClaimCallers, Decide(p)
        PROVE  record'[q].status = "released" \/ record'[q] = record[q]
    BY <2>2, AnswersStay
  <2> QED
    BY <2>1, <2>2 DEF ClaimsNext, Ask, TimePasses, claimVars
<1> QED
  BY <1>1, ClaimsSound, PTL DEF ClaimsSpec, AnswerKept

-----------------------------------------------------------------------------
(* Notices, for any notices, calls under way, bound of a batch and number of   *)
(* restarts: each notice is shown once.                                        *)

LEMMA KnownOrNot ==
    ASSUME NEW s \in SUBSET Keys
    PROVE  s # Unknown
BY NoticesAssumption DEF Unknown

-----------------------------------------------------------------------------
(* Each action.                                                               *)

LEMMA NoticesInitSound == NoticesInit => NoticesIInv
BY DEF NoticesInit, NoticesIInv, NoticesTypeOK, FileBehind, ShownRecorded, OutRecorded,
       OutMade, OutOnce, ShownOnce, Recorded, NoAnswer, AnswerRecords

\* Steps that give, record and lose nothing.
LEMMA NothingGiven ==
    ASSUME NoticesIInv, NoticesTypeOK',
           UNCHANGED <<seen, seenFile, baseline, unsaved, shown, lost>>,
           \A c \in AnswerSlots : /\ answer'[c].out = answer[c].out
                                  /\ answer[c].at = "made" => answer'[c].at = "made"
    PROVE  NoticesIInv'
<1> USE DEF NoticesIInv
<1>1. Recorded' = Recorded
  BY DEF Recorded
<1>2. FileBehind'
  BY DEF FileBehind
<1>3. ShownRecorded'
  BY <1>1 DEF ShownRecorded
<1>4. OutRecorded' /\ OutMade'
  BY <1>1 DEF OutRecorded, OutMade
<1>5. OutOnce'
  BY DEF OutOnce
<1>6. ShownOnce'
  BY DEF ShownOnce
<1> QED
  BY <1>2, <1>3, <1>4, <1>5, <1>6

LEMMA OccursSound ==
    ASSUME NoticesIInv, Occurs
    PROVE  NoticesIInv'
<1>1. NoticesTypeOK'
  BY DEF NoticesIInv, NoticesTypeOK, Occurs, SeenSame
<1> QED
  BY <1>1, NothingGiven DEF Occurs, SeenSame

LEMMA BeforeAnyIsMade ==
    ASSUME NoticesIInv, NEW c \in AnswerSlots,
           Sends(c) \/ PassesThrough(c) \/ Collects(c)
    PROVE  NoticesIInv'
<1>1. answer[c].out = {} /\ answer[c].at # "made"
  BY DEF NoticesIInv, OutMade, Sends, PassesThrough, Collects
<1>2. NoticesTypeOK'
  <2>1. UNCHANGED <<current, stale, seen, seenFile, shown, baseline, lost, unsaved>>
    BY DEF Sends, PassesThrough, Collects, LabSame, SeenSame
  <2>2. answer \in [AnswerSlots -> AnswerRecords] /\ current \union stale \in SUBSET Keys
    BY DEF NoticesIInv, NoticesTypeOK
  <2>3. CASE Sends(c)
    BY <2>1, <2>2, <2>3 DEF Sends, AnswerRecords, NoticesIInv, NoticesTypeOK
  <2>4. CASE PassesThrough(c)
    <3>1. NoAnswer \in AnswerRecords
      BY DEF NoAnswer, AnswerRecords
    <3> QED
      BY <3>1, <2>1, <2>2, <2>4 DEF PassesThrough, NoticesIInv, NoticesTypeOK
  <2>5. CASE Collects(c)
    <3>1. [at |-> "collected", keyed |-> current, all |-> current \union stale, out |-> {}] \in AnswerRecords
      BY <2>2 DEF AnswerRecords, NoticesIInv, NoticesTypeOK
    <3>2. answer' \in [AnswerSlots -> AnswerRecords]
      BY <3>1, <2>2, <2>5 DEF Collects
    <3> QED
      BY <3>2, <2>1 DEF NoticesIInv, NoticesTypeOK
  <2> QED
    BY <2>3, <2>4, <2>5
<1>3. \A d \in AnswerSlots : /\ answer'[d].out = answer[d].out
                             /\ answer[d].at = "made" => answer'[d].at = "made"
  <2>1. answer \in [AnswerSlots -> AnswerRecords]
    BY DEF NoticesIInv, NoticesTypeOK
  <2>2. \A d \in AnswerSlots \ {c} : answer'[d] = answer[d]
    BY <2>1 DEF Sends, PassesThrough, Collects
  <2>3. answer'[c].out = {}
    <3>1. CASE Sends(c)
      BY <3>1, <1>1, <2>1 DEF Sends, AnswerRecords
    <3>2. CASE PassesThrough(c)
      BY <3>2, <2>1 DEF PassesThrough, NoAnswer
    <3>3. CASE Collects(c)
      BY <3>3, <2>1 DEF Collects
    <3> QED
      BY <3>1, <3>2, <3>3
  <2> QED
    BY <1>1, <2>2, <2>3
<1>4. UNCHANGED <<seen, seenFile, baseline, unsaved, shown, lost>>
  BY DEF Sends, PassesThrough, Collects, SeenSame
<1> QED
  BY <1>2, <1>3, <1>4, NothingGiven

\* Nothing unrecorded has been shown, so recording what there is gives nothing twice.
LEMMA FirstTimeSound ==
    ASSUME NoticesIInv, NEW c \in AnswerSlots, FirstTime(c)
    PROVE  NoticesIInv'
<1> USE DEF NoticesIInv
<1> DEFINE all == answer[c].all
<1>1. /\ all \in SUBSET Keys /\ all # Unknown
      /\ seen = Unknown /\ seenFile = Unknown /\ Recorded = {}
  BY KnownOrNot DEF FirstTime, NoticesTypeOK, AnswerRecords, FileBehind, Recorded
<1>2. \A d \in AnswerSlots : answer[d].out = {}
  BY <1>1 DEF OutRecorded
<1>3. \A d \in AnswerSlots : answer'[d].out = {}
  BY <1>2 DEF FirstTime, Makes, NoticesTypeOK
<1>4. /\ seen' = all /\ seenFile' \in {all, Unknown} /\ Recorded' = all
      /\ UNCHANGED <<shown, lost, unsaved>> /\ baseline' = baseline \union all
  BY <1>1 DEF FirstTime, Saves, Recorded
<1>5. NoticesTypeOK'
  <2>1. answer' \in [AnswerSlots -> AnswerRecords]
    BY DEF FirstTime, Makes, NoticesTypeOK, AnswerRecords
  <2>2. UNCHANGED <<current, stale>>
    BY DEF FirstTime, LabSame
  <2> QED
    BY <1>1, <1>4, <2>1, <2>2 DEF NoticesTypeOK
<1>6. FileBehind'
  BY <1>1, <1>4 DEF FileBehind
<1>7. ShownRecorded'
  BY <1>1, <1>4 DEF ShownRecorded
<1>8. OutRecorded' /\ OutMade' /\ OutOnce'
  BY <1>3 DEF OutRecorded, OutMade, OutOnce
<1>9. ShownOnce'
  BY <1>1, <1>4 DEF ShownOnce
<1> QED
  BY <1>5, <1>6, <1>7, <1>8, <1>9

\* What is shown has not been recorded, so it has not been shown and no other
\* answer carries it.
LEMMA ShowsSound ==
    ASSUME NoticesIInv, NEW c \in AnswerSlots, Shows(c)
    PROVE  NoticesIInv'
<1> USE DEF NoticesIInv
<1>1. PICK out \in SUBSET (answer[c].keyed \ seen) :
         /\ IF out = {} THEN UNCHANGED <<seen, seenFile>> ELSE Saves(seen \union out)
         /\ Makes(c, out)
  BY DEF Shows
<1>2. /\ answer[c].at = "collected" /\ seen # Unknown /\ seen \in SUBSET Keys
      /\ seenFile \in (SUBSET Keys) \union {Unknown}
      /\ out \in SUBSET Keys /\ out \cap seen = {} /\ Recorded = seen
      /\ UNCHANGED <<shown, baseline, lost, unsaved, current, stale>>
  BY <1>1 DEF Shows, NoticesTypeOK, AnswerRecords, Recorded, LabSame
<1>3. seen' = seen \union out /\ seenFile' \in {seenFile, seen'}
  BY <1>1 DEF Saves
<1>4. /\ seen' \in SUBSET Keys /\ seen' # Unknown /\ Recorded' = seen'
  BY <1>2, <1>3, KnownOrNot DEF Recorded
<1>5. answer[c].out = {}
  BY <1>2 DEF OutMade
<1>6. /\ answer'[c].out = out /\ answer'[c].at = "made"
      /\ \A d \in AnswerSlots \ {c} : answer'[d] = answer[d]
      /\ answer' \in [AnswerSlots -> AnswerRecords]
  BY <1>1, <1>2 DEF Makes, NoticesTypeOK, AnswerRecords
<1>7. NoticesTypeOK'
  BY <1>2, <1>3, <1>4, <1>6 DEF NoticesTypeOK
<1>8. FileBehind'
  BY <1>2, <1>3, <1>4 DEF FileBehind
<1>9. ShownRecorded'
  BY <1>2, <1>3, <1>4 DEF ShownRecorded
<1>10. OutRecorded' /\ OutMade'
  BY <1>2, <1>3, <1>4, <1>6 DEF OutRecorded, OutMade
<1>11. OutOnce'
  <2>1. \A k \in out \ unsaved : shown[k] = 0
    BY <1>2 DEF ShownRecorded, NoticesTypeOK
  <2>2. \A d \in AnswerSlots \ {c} : answer[d].out \cap out = {}
    BY <1>2 DEF OutRecorded
  <2> QED
    BY <2>1, <2>2, <1>2, <1>6 DEF OutOnce
<1>12. ShownOnce'
  BY <1>2, <1>3, <1>5, <1>6 DEF ShownOnce
<1> QED
  BY <1>7, <1>8, <1>9, <1>10, <1>11, <1>12

LEMMA ArrivedSound ==
    ASSUME NoticesIInv, NEW c \in AnswerSlots, Arrived(c)
    PROVE  NoticesIInv'
<1> USE DEF NoticesIInv
<1> DEFINE out == answer[c].out
<1>1. /\ UNCHANGED <<seen, seenFile, baseline, unsaved, current, stale>>
      /\ Recorded' = Recorded /\ out \in SUBSET Keys
  BY DEF Arrived, LabSame, SeenSame, Recorded, NoticesTypeOK, AnswerRecords
<1>2. /\ answer'[c].out = {} /\ answer' \in [AnswerSlots -> AnswerRecords]
      /\ \A d \in AnswerSlots \ {c} : answer'[d] = answer[d]
  BY DEF Arrived, NoAnswer, NoticesTypeOK, AnswerRecords
<1>3. /\ shown' \in [Keys -> Nat] /\ lost' \in SUBSET Keys /\ lost \subseteq lost'
      /\ \A k \in Keys \ out : shown'[k] = shown[k]
      /\ \A k \in out : \/ shown'[k] = shown[k] + 1
                        \/ shown'[k] = shown[k] /\ k \in lost'
  BY <1>1 DEF Arrived, NoticesTypeOK
<1>4. NoticesTypeOK'
  BY <1>1, <1>2, <1>3 DEF NoticesTypeOK
<1>5. FileBehind'
  BY <1>1 DEF FileBehind
<1>6. ShownRecorded'
  BY <1>1, <1>3 DEF ShownRecorded, OutRecorded
<1>7. OutRecorded' /\ OutMade'
  BY <1>1, <1>2 DEF OutRecorded, OutMade
<1>8. OutOnce'
  <2>1. \A d \in AnswerSlots \ {c} : answer[d].out \cap out = {} /\ answer[d].out \subseteq Keys
    BY DEF OutOnce, NoticesTypeOK, AnswerRecords
  <2>2. \A d \in AnswerSlots : \A k \in answer'[d].out \ unsaved' : shown'[k] = 0
    BY <2>1, <1>1, <1>2, <1>3 DEF OutOnce
  <2> QED
    BY <2>2, <1>2 DEF OutOnce
<1>9. ShownOnce'
  <2>1. \A k \in Keys \ unsaved' : shown'[k] <= 1
    BY <1>1, <1>3 DEF ShownOnce, OutOnce, NoticesTypeOK
  <2>2. \A k \in Keys : shown[k] > 0 => shown'[k] > 0
    BY <1>3 DEF NoticesTypeOK
  <2>3. \A k \in out : shown'[k] > 0 \/ k \in lost'
    BY <1>1, <1>3 DEF NoticesTypeOK
  <2>4. seen # Unknown => seen \subseteq Keys
    BY DEF NoticesTypeOK
  <2> QED
    BY <2>1, <2>2, <2>3, <2>4, <1>1, <1>2, <1>3 DEF ShownOnce
<1> QED
  BY <1>4, <1>5, <1>6, <1>7, <1>8, <1>9

\* What the file does not have is unsaved, what was on its way is lost.
LEMMA ReloadsSound ==
    ASSUME NoticesIInv, Reloads
    PROVE  NoticesIInv'
<1> USE DEF NoticesIInv
<1>1. /\ seen' = seenFile /\ UNCHANGED <<seenFile, shown, baseline, current, stale>>
      /\ unsaved' = unsaved \union (IF seen = Unknown THEN {} ELSE seen \ seenFile)
      /\ lost' = lost \union UNION {answer[c].out : c \in AnswerSlots}
      /\ answer' = [c \in AnswerSlots |-> NoAnswer]
  BY DEF Reloads, LabSame
<1>2. NoticesTypeOK'
  BY <1>1 DEF NoticesTypeOK, NoAnswer, AnswerRecords
<1>3. FileBehind'
  BY <1>1 DEF FileBehind
<1>4. \A k \in Keys \ unsaved' : k \in Recorded => k \in Recorded'
  BY <1>1, NoticesAssumption DEF Recorded, Unknown
<1>5. ShownRecorded'
  BY <1>1, <1>4 DEF ShownRecorded
<1>6. OutRecorded' /\ OutMade' /\ OutOnce'
  BY <1>1 DEF OutRecorded, OutMade, OutOnce, NoAnswer
<1>7. ShownOnce'
  BY <1>1 DEF ShownOnce, FileBehind
<1> QED
  BY <1>2, <1>3, <1>5, <1>6, <1>7

-----------------------------------------------------------------------------
(* The theorems.                                                              *)

LEMMA NoticesStepSound == NoticesIInv /\ [NoticesNext]_noticeVars => NoticesIInv'
<1> SUFFICES ASSUME NoticesIInv, [NoticesNext]_noticeVars PROVE NoticesIInv'
  OBVIOUS
<1>1. CASE Occurs
  BY <1>1, OccursSound
<1>2. CASE Reloads
  BY <1>2, ReloadsSound
<1>3. ASSUME NEW c \in AnswerSlots,
             Sends(c) \/ PassesThrough(c) \/ Collects(c) \/ FirstTime(c) \/ Shows(c) \/ Arrived(c)
      PROVE  NoticesIInv'
  BY <1>3, BeforeAnyIsMade, FirstTimeSound, ShowsSound, ArrivedSound
<1>4. CASE UNCHANGED noticeVars
  <2>1. NoticesTypeOK'
    BY <1>4 DEF noticeVars, NoticesIInv, NoticesTypeOK
  <2> QED
    BY <1>4, <2>1, NothingGiven DEF noticeVars
<1> QED
  BY <1>1, <1>2, <1>3, <1>4 DEF NoticesNext

\* In every reachable state the notices satisfy their inductive invariant: the file
\* is behind memory, and what was shown or is on its way is recorded
\* (_filter_and_mark_seen).
THEOREM NoticesSound == NoticesSpec => []NoticesIInv
<1> QED
  BY NoticesInitSound, NoticesStepSound, PTL DEF NoticesSpec

\* No notice reaches the agent twice, and none is taken for seen that was not told,
\* for answers that overlap in any way and any number of restarts.
THEOREM ShownOnceHolds == NoticesSpec => []ShownOnce
<1>1. NoticesIInv => ShownOnce
  BY DEF NoticesIInv
<1> QED
  BY NoticesSound, <1>1, PTL

-----------------------------------------------------------------------------
(* Requests.                                                                  *)

LEMMA ManagerVisits == Manager \in Visitors \ Wrappers /\ Wrappers \subseteq Visitors
BY RegistryAssumption DEF Visitors

LEMMA Bounds == 
    /\ MaxLive \in Nat /\ MaxIds \in Nat /\ MaxVisits \in Nat /\ MaxCrashes \in Nat
    /\ NoPid \notin Wrappers
BY RegistryAssumption DEF NoPid

LEMMA NoVisitTyped ==
    /\ NoVisit \in Visits
    /\ NoVisit.op = "none" /\ NoVisit.at = "none" /\ NoVisit.id = 0 /\ NoVisit.pid = NoPid
<1>1. 0 \in 0..MaxIds
  BY Bounds
<1> QED
  BY <1>1 DEF NoVisit, Request, Visits, Stages

LEMMA MovesTyped ==
    ASSUME RegistryTypeOK, NEW v \in Visitors, NEW stage \in Stages, Moves(v, stage)
    PROVE  /\ visit' \in [Visitors -> Visits] /\ visits' = visits
           /\ \A u \in Visitors \ {v} : visit'[u] = visit[u]
           /\ visit'[v].at = stage
           /\ visit'[v].op = visit[v].op /\ visit'[v].id = visit[v].id
           /\ visit'[v].pid = visit[v].pid /\ visit'[v].text = visit[v].text
<1>1. \A c \in Visits : [c EXCEPT !.at = stage] \in Visits
  BY DEF Visits
<1>2. visit[v] \in Visits /\ visit'[v] = [visit[v] EXCEPT !.at = stage]
  BY DEF RegistryTypeOK, Moves
<1> QED
  BY <1>1, <1>2 DEF RegistryTypeOK, Moves, Visits

LEMMA DumpsTyped ==
    ASSUME RegistryTypeOK, NEW v \in Visitors, NEW reg \in Registries, Dumps(v, reg)
    PROVE  /\ visit' \in [Visitors -> Visits] /\ visits' = visits
           /\ \A u \in Visitors \ {v} : visit'[u] = visit[u]
           /\ visit'[v].at = "replace" /\ visit'[v].text = reg
           /\ visit'[v].op = visit[v].op /\ visit'[v].id = visit[v].id
           /\ visit'[v].pid = visit[v].pid
<1>1. \A c \in Visits : [c EXCEPT !.at = "replace", !.text = reg] \in Visits
  BY DEF Visits, Stages
<1>2. visit[v] \in Visits /\ visit'[v] = [visit[v] EXCEPT !.at = "replace", !.text = reg]
  BY DEF RegistryTypeOK, Dumps
<1> QED
  BY <1>1, <1>2 DEF RegistryTypeOK, Dumps, Visits

LEMMA LeavesTyped ==
    ASSUME RegistryTypeOK, NEW v \in Visitors, Leaves(v)
    PROVE  /\ visit' \in [Visitors -> Visits] /\ visits' = visits
           /\ visit'[v] = NoVisit
           /\ \A u \in Visitors \ {v} : visit'[u] = visit[u]
BY NoVisitTyped DEF RegistryTypeOK, Leaves

LEMMA ComesTyped ==
    ASSUME RegistryTypeOK, NEW v \in Visitors, NEW new \in Visits, Comes(v, new)
    PROVE  /\ visit' \in [Visitors -> Visits] /\ visits' \in 0..MaxVisits
           /\ visit[v] = NoVisit /\ visit'[v] = new /\ serving
           /\ \A u \in Visitors \ {v} : visit'[u] = visit[u]
BY Bounds DEF RegistryTypeOK, Comes

\* A request of a process is refused, though an id may have been given out.
LEMMA TurnedAwayAfter ==
    ASSUME RegistryIInv, NEW w \in Wrappers, TurnedAway(w), serving,
           visit[w].op \in {"register", "resume"},
           usedIds' \in 0..MaxIds, usedIds <= usedIds',
           UNCHANGED <<live, liveFile, past, pastFile, checkout>>,
           UNCHANGED <<serving, crashes, granted, overtaken, dismissed>>
    PROVE  RegistryIInv'
<1>1. Leaves(w) /\ w \in Visitors /\ RegistryTypeOK
  BY ManagerVisits DEF TurnedAway, RegistryIInv
<1>2. /\ visit' \in [Visitors -> Visits] /\ visits' = visits
      /\ visit'[w] = NoVisit
      /\ \A u \in Visitors \ {w} : visit'[u] = visit[u]
  BY <1>1, LeavesTyped
<1>3. /\ wrapper' \in [Wrappers -> [stage: {"off", "asking", "running", "over"}, id: 0..MaxIds]]
      /\ wrapper'[w].stage = "off" /\ wrapper'[w].id = 0 /\ wrapper'[w] = Away
      /\ \A u \in Wrappers \ {w} : wrapper'[u] = wrapper[u]
  BY <1>1, Bounds DEF TurnedAway, RegistryTypeOK, Away
<1>4. RegistryTypeOK'
  BY <1>1, <1>2, <1>3 DEF RegistryTypeOK
<1>5. NoneBefore' /\ StagesFit' 
  BY <1>2, NoVisitTyped DEF RegistryIInv, NoneBefore, StagesFit
<1>6. ProcessesFit' /\ IdsKnown'
  <2>1. ProcessesFit'
    <3>1. ASSUME NEW u \in Wrappers, u # w
          PROVE  visit'[u] = visit[u] /\ wrapper'[u] = wrapper[u]
      BY <1>2, <1>3, ManagerVisits, <3>1
    <3>2. visit'[Manager] = visit[Manager]
      BY <1>2, ManagerVisits
    <3>3. visit'[w] = NoVisit /\ wrapper'[w] = Away
      BY <1>2, <1>3
    <3> QED
      BY <3>1, <3>2, <3>3, NoVisitTyped DEF RegistryIInv, ProcessesFit, Away
  <2>2. IdsKnown'
    <3>1. /\ usedIds \in Int /\ usedIds' \in Int /\ 0 <= usedIds'
          /\ \A u \in Visitors : visit[u].id \in Int
      BY <1>1, Bounds DEF RegistryTypeOK, Visits
    <3>2. \A a \in 1..usedIds : a \in 1..usedIds'
      BY <3>1
    <3>3. granted' \subseteq 1..usedIds'
      BY <3>2 DEF RegistryIInv, IdsKnown
    <3>4. \A u \in Visitors : visit'[u].id <= usedIds'
      BY <1>2, <3>1, NoVisitTyped DEF RegistryIInv, IdsKnown
    <3> QED
      BY <1>2, <1>3, <3>3, <3>4, NoVisitTyped DEF RegistryIInv, IdsKnown
  <2> QED
    BY <2>1, <2>2
<1>7. FreshAlone' /\ OwnersAlone'
  BY <1>2, <1>3, NoVisitTyped, ManagerVisits DEF RegistryIInv, FreshAlone, OwnersAlone
<1>8. HistoryOnFile' /\ AgentsKept'
  BY DEF RegistryIInv, HistoryOnFile, AgentsKept, OnRecord
<1>9. MemoryKeeps'
  <2>1. visit[w].at # "history"
    BY ManagerVisits DEF RegistryIInv, StagesFit
  <2>2. \A a : KeptInMemory(a) => KeptInMemory(a)'
    BY <1>1, <1>2, <2>1 DEF KeptInMemory, OnRecord
  <2> QED
    BY <1>2, <2>2, NoVisitTyped DEF RegistryIInv, MemoryKeeps, OnItsWay
<1>10. EnteredKept' /\ RunningKept' /\ RunningOnFile'
  BY <1>2, <1>3, NoVisitTyped, ManagerVisits DEF RegistryIInv, EnteredKept, RunningKept, RunningOnFile
<1> QED
  BY <1>4, <1>5, <1>6, <1>7, <1>8, <1>9, <1>10 DEF RegistryIInv

LEMMA TurnedAwaySound ==
    ASSUME RegistryIInv, NEW w \in Wrappers, TurnedAway(w), serving,
           visit[w].op \in {"register", "resume"},
           UNCHANGED <<live, checkout, usedIds>>, FilesSame, HostSame, GhostsSame
    PROVE  RegistryIInv'
<1>1. usedIds' \in 0..MaxIds /\ usedIds <= usedIds'
  BY Bounds DEF RegistryIInv, RegistryTypeOK
<1> QED
  BY <1>1, TurnedAwayAfter DEF FilesSame, HostSame, GhostsSame

\* Ids of running processes, and of requests that have come that far, are agents'.
LEMMA RunningIds ==
    ASSUME RegistryIInv
    PROVE  /\ \A w \in Wrappers : wrapper[w].id # 0 => wrapper[w].id \in AgentIds
           /\ \A w \in Wrappers : wrapper[w].stage \in {"running", "over"} => wrapper[w].id \in AgentIds
           /\ \A v \in Visitors : visit[v].op \in {"resume", "unregister"} => visit[v].id \in AgentIds
           /\ \A v \in Visitors : visit[v].at \in {"enter", "replace"} => visit[v].id \in AgentIds
           /\ granted \subseteq AgentIds
<1>1. granted \subseteq AgentIds
  BY DEF RegistryIInv, RegistryTypeOK
<1>2. \A v \in Visitors : visit[v].id \in 0..MaxIds /\ visit[v].op \in {"none", "register", "resume", "unregister"}
  BY DEF RegistryIInv, RegistryTypeOK, Visits
<1>3. \A i \in 0..MaxIds : i # 0 => i \in AgentIds
  BY Bounds DEF AgentIds
<1>4. \A v \in Visitors : visit[v].at \in {"enter", "replace"} => visit[v].op # "none"
  BY NoVisitTyped DEF RegistryIInv, StagesFit
<1> QED
  BY <1>1, <1>2, <1>3, <1>4 DEF RegistryIInv, IdsKnown, ProcessesFit

\* A request of a process moves on without touching the registry.
LEMMA MovesSound ==
    ASSUME RegistryIInv, NEW w \in Wrappers, NEW stage \in Stages, Moves(w, stage), serving,
           \/ visit[w].op = "register" /\ visit[w].at = "count" /\ stage = "create"
           \/ visit[w].op = "resume" /\ stage \in {"look", "worktree", "enter"},
           checkout \subseteq checkout', checkout' \subseteq AgentIds,
           stage = "enter" => visit[w].id \in checkout',
           UNCHANGED <<live, wrapper, usedIds>>, FilesSame, HostSame, GhostsSame
    PROVE  RegistryIInv'
<1> USE DEF FilesSame, HostSame, GhostsSame
<1>1. /\ w \in Visitors /\ RegistryTypeOK
      /\ visit[w].op \in {"register", "resume"} /\ visit[w].at # "history"
      /\ stage \notin {"replace", "history"}
  BY ManagerVisits DEF RegistryIInv, StagesFit
<1>2. /\ visit' \in [Visitors -> Visits] /\ visits' = visits
      /\ \A u \in Visitors \ {w} : visit'[u] = visit[u]
      /\ visit'[w].at = stage
      /\ visit'[w].op = visit[w].op /\ visit'[w].id = visit[w].id
      /\ visit'[w].pid = visit[w].pid
  BY <1>1, MovesTyped
<1>3. RegistryTypeOK'
  BY <1>1, <1>2 DEF RegistryTypeOK
<1>4. NoneBefore' /\ StagesFit'
  BY <1>1, <1>2 DEF RegistryIInv, NoneBefore, StagesFit
<1>5. ProcessesFit'
  BY <1>1, <1>2, ManagerVisits DEF RegistryIInv, ProcessesFit
<1>6. IdsKnown'
  <2>1. visit[w].op = "register" => visit[w].id = 0 /\ visit[w].at = "count" /\ stage = "create"
    BY <1>1 DEF RegistryIInv, IdsKnown
  <2> QED
    BY <1>1, <1>2, <2>1 DEF RegistryIInv, IdsKnown
<1>7. FreshAlone' /\ OwnersAlone'
  BY <1>1, <1>2, ManagerVisits DEF RegistryIInv, FreshAlone, OwnersAlone
<1>8. HistoryOnFile' /\ AgentsKept'
  BY DEF RegistryIInv, HistoryOnFile, AgentsKept, OnRecord
<1>9. MemoryKeeps'
  <2>1. \A a : KeptInMemory(a) => KeptInMemory(a)'
    BY <1>1, <1>2 DEF KeptInMemory, OnRecord
  <2> QED
    BY <1>1, <1>2, <2>1 DEF RegistryIInv, MemoryKeeps, OnItsWay
<1>10. EnteredKept' /\ RunningKept' /\ RunningOnFile'
  BY <1>1, <1>2, ManagerVisits DEF RegistryIInv, EnteredKept, RunningKept, RunningOnFile
<1> QED
  BY <1>3, <1>4, <1>5, <1>6, <1>7, <1>8, <1>9, <1>10 DEF RegistryIInv

LEMMA CountLiveSound ==
    ASSUME RegistryIInv, NEW w \in Wrappers, CountLive(w)
    PROVE  RegistryIInv'
<1>1. w \in Visitors /\ serving /\ visit[w].at = "count" /\ visit[w].op \in {"register", "resume"}
  BY ManagerVisits, NoVisitTyped DEF CountLive, Visiting, RegistryIInv, StagesFit, RegistryTypeOK, Visits
<1>2. checkout \subseteq AgentIds
  BY DEF RegistryIInv, RegistryTypeOK
<1>3. CASE TurnedAway(w)
  BY <1>1, <1>3, TurnedAwaySound DEF CountLive
<1>4. CASE Moves(w, IF visit[w].op = "register" THEN "create" ELSE "look") /\ UNCHANGED wrapper
  <2>1. CASE visit[w].op = "register"
    BY <1>1, <1>2, <1>4, <2>1, MovesSound DEF CountLive, Stages
  <2>2. CASE visit[w].op # "register"
    BY <1>1, <1>2, <1>4, <2>2, MovesSound DEF CountLive, Stages
  <2> QED
    BY <2>1, <2>2
<1> QED
  BY <1>3, <1>4 DEF CountLive

LEMMA LookUpSound ==
    ASSUME RegistryIInv, NEW w \in Wrappers, LookUp(w)
    PROVE  RegistryIInv'
<1>1. w \in Visitors /\ serving /\ visit[w].op = "resume"
  BY ManagerVisits, NoVisitTyped DEF LookUp, Visiting, RegistryIInv, StagesFit, RegistryTypeOK, Visits
<1>2. checkout \subseteq AgentIds
  BY DEF RegistryIInv, RegistryTypeOK
<1>3. CASE TurnedAway(w)
  BY <1>1, <1>3, TurnedAwaySound DEF LookUp
<1>4. CASE Moves(w, "worktree") /\ UNCHANGED wrapper
  BY <1>1, <1>2, <1>4, MovesSound DEF LookUp, Stages
<1> QED
  BY <1>3, <1>4 DEF LookUp

LEMMA RecreateWorktreeSound ==
    ASSUME RegistryIInv, NEW w \in Wrappers, RecreateWorktree(w)
    PROVE  RegistryIInv'
<1>1. w \in Visitors /\ serving /\ visit[w].op = "resume"
  BY ManagerVisits, NoVisitTyped DEF RecreateWorktree, Visiting, RegistryIInv, StagesFit, RegistryTypeOK, Visits
<1>2. checkout \subseteq AgentIds /\ visit[w].id \in AgentIds
  BY <1>1, Bounds DEF RegistryIInv, RegistryTypeOK, IdsKnown
<1>3. CASE TurnedAway(w) /\ UNCHANGED checkout
  BY <1>1, <1>3, TurnedAwaySound DEF RecreateWorktree
<1>4. CASE checkout' = checkout \union {visit[w].id} /\ Moves(w, "enter") /\ UNCHANGED wrapper
  BY <1>1, <1>2, <1>4, MovesSound DEF RecreateWorktree, Stages
<1> QED
  BY <1>3, <1>4 DEF RecreateWorktree

LEMMA CreateWorktreeSound ==
    ASSUME RegistryIInv, NEW w \in Wrappers, CreateWorktree(w)
    PROVE  RegistryIInv'
<1> USE DEF FilesSame, HostSame, GhostsSame
<1>1. /\ w \in Visitors /\ serving /\ RegistryTypeOK /\ RegistryIInv
      /\ visit[w].op = "register" /\ visit[w].at = "create"
  BY ManagerVisits, NoVisitTyped
     DEF CreateWorktree, Visiting, RegistryIInv, StagesFit, RegistryTypeOK, Visits
<1>a. /\ usedIds \in Nat /\ usedIds' = usedIds + 1
      /\ usedIds' \in 1..MaxIds /\ usedIds' \in 0..MaxIds /\ usedIds <= usedIds'
  BY <1>1, Bounds DEF CreateWorktree, RegistryTypeOK
<1>2. CASE TurnedAway(w) /\ UNCHANGED checkout
  <2>1. UNCHANGED <<live, liveFile, past, pastFile, serving, crashes, granted, overtaken, dismissed>>
    BY DEF CreateWorktree
  <2> HIDE DEF FilesSame, HostSame, GhostsSame
  <2> QED
    BY <1>1, <1>a, <1>2, <2>1, TurnedAwayAfter
<1>3. CASE /\ checkout' = checkout \union {usedIds'}
           /\ visit' = [visit EXCEPT ![w].id = usedIds', ![w].at = "enter"]
           /\ UNCHANGED <<wrapper, visits>>
  <2>1. /\ UNCHANGED <<live, liveFile, past, pastFile, serving, crashes, granted, overtaken, dismissed>>
        /\ wrapper[w].stage = "asking" /\ wrapper[w].id = 0 /\ visit[w].pid = w
    BY <1>1 DEF CreateWorktree, RegistryIInv, ProcessesFit
  <2>2. /\ visit' \in [Visitors -> Visits]
        /\ \A u \in Visitors \ {w} : visit'[u] = visit[u]
        /\ visit'[w].at = "enter" /\ visit'[w].id = usedIds'
        /\ visit'[w].op = visit[w].op /\ visit'[w].pid = visit[w].pid
    <3>1. \A c \in Visits :
             LET d == [c EXCEPT !.id = usedIds', !.at = "enter"] IN
             d \in Visits /\ d.at = "enter" /\ d.id = usedIds' /\ d.op = c.op /\ d.pid = c.pid
      BY <1>a DEF Visits, Stages
    <3>2. visit[w] \in Visits /\ visit'[w] = [visit[w] EXCEPT !.id = usedIds', !.at = "enter"]
      BY <1>1, <1>3 DEF RegistryTypeOK
    <3> QED
      BY <1>1, <1>3, <3>1, <3>2 DEF RegistryTypeOK
  <2>3. /\ usedIds' \notin granted /\ \A u \in Visitors \ {w} : visit[u].id # usedIds'
        /\ \A u \in Wrappers : wrapper[u].id # usedIds'
        /\ \A a \in granted : a \in 1..usedIds'
        /\ \A u \in Visitors : visit[u].id <= usedIds'
    BY <1>1, <1>a DEF RegistryIInv, IdsKnown, RegistryTypeOK, Visits
  <2>4. RegistryTypeOK'
    BY <1>1, <1>a, <1>3, <2>1, <2>2, Bounds DEF RegistryTypeOK, AgentIds
  <2>5. NoneBefore' /\ StagesFit'
    BY <1>1, <1>a, <2>1, <2>2 DEF RegistryIInv, NoneBefore, StagesFit
  <2>6. ProcessesFit'
    BY <1>1, <1>a, <1>3, <2>1, <2>2, ManagerVisits DEF RegistryIInv, ProcessesFit
  <2>7. IdsKnown'
    BY <1>1, <1>a, <1>3, <2>1, <2>2, <2>3 DEF RegistryIInv, IdsKnown
  <2>8. FreshAlone' /\ OwnersAlone'
    BY <1>1, <1>a, <1>3, <2>1, <2>2, <2>3, ManagerVisits DEF RegistryIInv, FreshAlone, OwnersAlone
  <2>9. HistoryOnFile' /\ AgentsKept'
    BY <2>1 DEF RegistryIInv, HistoryOnFile, AgentsKept, OnRecord
  <2>10. MemoryKeeps'
    <3>1. \A a : KeptInMemory(a) => KeptInMemory(a)'
      BY <1>1, <1>a, <2>1, <2>2 DEF KeptInMemory, OnRecord
    <3> QED
      BY <1>1, <1>a, <2>1, <2>2, <3>1 DEF RegistryIInv, MemoryKeeps, OnItsWay
  <2>11. EnteredKept' /\ RunningKept' /\ RunningOnFile'
    BY <1>1, <1>a, <1>3, <2>1, <2>2, ManagerVisits DEF RegistryIInv, EnteredKept, RunningKept, RunningOnFile
  <2> QED
    BY <2>4, <2>5, <2>6, <2>7, <2>8, <2>9, <2>10, <2>11 DEF RegistryIInv
<1> QED
  BY <1>1, <1>a, <1>2, <1>3 DEF CreateWorktree

\* The entry is made in memory, where every call sees it, and the text of the file.
LEMMA EnterSound ==
    ASSUME RegistryIInv, NEW w \in Wrappers, Enter(w)
    PROVE  RegistryIInv'
<1> USE DEF FilesSame, HostSame, GhostsSame
<1> DEFINE a == visit[w].id
<1>1. /\ w \in Visitors /\ serving /\ RegistryTypeOK /\ RegistryIInv
      /\ visit[w].op \in {"register", "resume"} /\ visit[w].at = "enter"
  BY ManagerVisits, NoVisitTyped DEF Enter, Visiting, RegistryIInv, StagesFit, RegistryTypeOK, Visits
<1>2. a \in AgentIds /\ visit[w].pid = w /\ w # NoPid
  <2>1. a \in 0..MaxIds /\ a # 0 /\ visit[w].pid = w /\ granted \subseteq AgentIds
    <3>1. granted \subseteq AgentIds /\ a \in 0..MaxIds
      BY <1>1 DEF RegistryTypeOK, Visits
    <3>2. visit[w].op = "register" => a # 0
      BY <1>1 DEF RegistryIInv, IdsKnown
    <3>3. visit[w].op = "resume" => a \in granted
      BY <1>1 DEF RegistryIInv, IdsKnown
    <3> QED
      BY <1>1, <3>1, <3>2, <3>3 DEF RegistryIInv, ProcessesFit, AgentIds
  <2> QED
    BY <2>1, Bounds DEF AgentIds
<1>3. /\ live' = [live EXCEPT ![a] = w] /\ live \in Registries /\ live' \in Registries
      /\ Dumps(w, live') /\ UNCHANGED <<checkout, wrapper, usedIds>>
  BY <1>1, <1>2 DEF Enter, RegistryTypeOK, Registries
<1>4. /\ live'[a] = w /\ \A b \in AgentIds \ {a} : live'[b] = live[b]
  BY <1>2, <1>3 DEF Registries
<1>5. /\ visit' \in [Visitors -> Visits] /\ visits' = visits
      /\ \A u \in Visitors \ {w} : visit'[u] = visit[u]
      /\ visit'[w].at = "replace" /\ visit'[w].text = live'
      /\ visit'[w].op = visit[w].op /\ visit'[w].id = visit[w].id
      /\ visit'[w].pid = visit[w].pid
  BY <1>1, <1>3, DumpsTyped
<1>6. UNCHANGED <<liveFile, past, pastFile, serving, crashes, granted, overtaken, dismissed>>
  BY DEF Enter
<1> HIDE DEF a
<1>7. RegistryTypeOK'
  BY <1>1, <1>3, <1>5, <1>6 DEF RegistryTypeOK
<1>8. NoneBefore' /\ StagesFit'
  BY <1>1, <1>3, <1>5, <1>6 DEF RegistryIInv, NoneBefore, StagesFit
<1>9. ProcessesFit' /\ IdsKnown'
  BY <1>1, <1>3, <1>5, <1>6, ManagerVisits DEF RegistryIInv, ProcessesFit, IdsKnown
<1>10. FreshAlone' /\ OwnersAlone'
  BY <1>1, <1>3, <1>5, <1>6, ManagerVisits DEF RegistryIInv, FreshAlone, OwnersAlone
<1>11. HistoryOnFile' /\ AgentsKept'
  BY <1>6 DEF RegistryIInv, HistoryOnFile, AgentsKept, OnRecord
<1>12. MemoryKeeps'
  <2>1. \A b : KeptInMemory(b) => KeptInMemory(b)'
    BY <1>1, <1>2, <1>4, <1>5, <1>6 DEF KeptInMemory, OnRecord
  <2>2. KeptInMemory(a)' /\ visit'[w].text[visit'[w].id] = w
    BY <1>2, <1>4, <1>5 DEF KeptInMemory, OnRecord, a
  <2> QED
    BY <1>1, <1>5, <1>6, <2>1, <2>2 DEF RegistryIInv, MemoryKeeps, OnItsWay, a
<1>13. EnteredKept' /\ RunningKept' /\ RunningOnFile'
  <2>1. ASSUME NEW u \in Wrappers, u # w, a \notin dismissed
        PROVE  /\ wrapper[u].id # a
               /\ visit[u].op \in {"register", "resume"} => visit[u].id # a
    <3>1. CASE visit[w].op = "register"
      BY <1>1, <1>2, <2>1, <3>1, ManagerVisits DEF RegistryIInv, FreshAlone, IdsKnown, AgentIds, a
    <3>2. CASE visit[w].op = "resume"
      BY <1>1, <1>2, <2>1, <3>2, ManagerVisits DEF RegistryIInv, ProcessesFit, OwnersAlone, AgentIds, a
    <3> QED
      BY <1>1, <3>1, <3>2
  <2>2. wrapper[w].stage = "asking"
    BY <1>1 DEF RegistryIInv, ProcessesFit
  <2>3. /\ \A u \in Wrappers : wrapper[u].stage = "running" => wrapper[u].id \in AgentIds
        /\ \A u \in Wrappers : visit[u].at = "replace" => visit[u].id \in AgentIds \/ visit[u].op = "unregister"
    BY <1>1, Bounds, ManagerVisits, RunningIds DEF RegistryIInv, RegistryTypeOK, AgentIds
  <2>4. EnteredKept'
    BY <1>1, <1>3, <1>4, <1>5, <1>6, <2>1, <2>3, ManagerVisits DEF RegistryIInv, EnteredKept, a
  <2>5. RunningKept' /\ RunningOnFile'
    BY <1>1, <1>3, <1>4, <1>5, <1>6, <2>1, <2>2, <2>3, ManagerVisits DEF RegistryIInv, RunningKept, RunningOnFile
  <2> QED
    BY <2>4, <2>5
<1> QED
  BY <1>7, <1>8, <1>9, <1>10, <1>11, <1>12, <1>13 DEF RegistryIInv

-----------------------------------------------------------------------------
(* Requests that come in.                                                     *)

LEMMA EnrolSound ==
    ASSUME RegistryIInv, NEW w \in Wrappers, Enrol(w)
    PROVE  RegistryIInv'
<1> USE DEF FilesSame, HostSame, GhostsSame
<1> DEFINE new == Request("register", "count", 0, w)
<1>1. w \in Visitors /\ RegistryTypeOK /\ wrapper[w].stage = "off" /\ wrapper[w].id = 0
  BY ManagerVisits DEF Enrol, RegistryIInv, ProcessesFit
<1>2. /\ new \in Visits /\ new.op = "register" /\ new.at = "count" /\ new.id = 0 /\ new.pid = w
  <2>1. 0 \in 0..MaxIds
    BY Bounds
  <2> QED
    BY <2>1 DEF Request, Visits, Stages
<1>3. /\ visit' \in [Visitors -> Visits] /\ visits' \in 0..MaxVisits
      /\ visit[w] = NoVisit /\ visit'[w] = new /\ serving
      /\ \A u \in Visitors \ {w} : visit'[u] = visit[u]
  BY <1>1, <1>2, ComesTyped DEF Enrol
<1> HIDE DEF new
<1>4. /\ wrapper' \in [Wrappers -> [stage: {"off", "asking", "running", "over"}, id: 0..MaxIds]]
      /\ wrapper'[w].stage = "asking" /\ wrapper'[w].id = wrapper[w].id
      /\ \A u \in Wrappers \ {w} : wrapper'[u] = wrapper[u]
  BY <1>1 DEF Enrol, RegistryTypeOK
<1>5. UNCHANGED <<live, checkout, usedIds, liveFile, past, pastFile, serving, crashes, granted, overtaken, dismissed>>
  BY DEF Enrol
<1>6. RegistryTypeOK'
  BY <1>1, <1>3, <1>4, <1>5 DEF RegistryTypeOK
<1>7. NoneBefore' /\ StagesFit'
  BY <1>2, <1>3, <1>5 DEF RegistryIInv, NoneBefore, StagesFit
<1>8. ProcessesFit'
  BY <1>1, <1>2, <1>3, <1>4, ManagerVisits DEF RegistryIInv, ProcessesFit
<1>9. IdsKnown'
  BY <1>1, <1>2, <1>3, <1>4, <1>5, NoVisitTyped DEF RegistryIInv, IdsKnown
<1>10. FreshAlone' /\ OwnersAlone'
  BY <1>1, <1>2, <1>3, <1>4, <1>5, ManagerVisits DEF RegistryIInv, FreshAlone, OwnersAlone
<1>11. HistoryOnFile' /\ AgentsKept'
  BY <1>5 DEF RegistryIInv, HistoryOnFile, AgentsKept, OnRecord
<1>12. MemoryKeeps'
  <2>1. \A b : KeptInMemory(b) => KeptInMemory(b)'
    BY <1>3, <1>5, NoVisitTyped DEF KeptInMemory, OnRecord
  <2> QED
    BY <1>2, <1>3, <1>5, <2>1 DEF RegistryIInv, MemoryKeeps, OnItsWay
<1>13. EnteredKept' /\ RunningKept' /\ RunningOnFile'
  BY <1>1, <1>2, <1>3, <1>4, <1>5, ManagerVisits DEF RegistryIInv, EnteredKept, RunningKept, RunningOnFile
<1> QED
  BY <1>6, <1>7, <1>8, <1>9, <1>10, <1>11, <1>12, <1>13 DEF RegistryIInv

\* A process that asks for an agent has been seen doing so by everybody else at it.
LEMMA AsksSound ==
    ASSUME RegistryIInv, NEW w \in Wrappers, NEW a \in granted, AsksToResume(w, a),
           wrapper[w].id \in {0, a},
           wrapper[w].stage \in {"off", "asking"},
           wrapper' = [wrapper EXCEPT ![w] = [stage |-> "asking", id |-> a]]
    PROVE  RegistryIInv'
<1> USE DEF FilesSame, HostSame
<1> DEFINE new == Request("resume", "count", a, w)
<1>1. w \in Visitors /\ RegistryTypeOK /\ a \in AgentIds /\ a \in 0..MaxIds /\ a # 0
  <2>1. a \in AgentIds
    BY DEF RegistryIInv, RegistryTypeOK
  <2> QED
    BY <2>1, ManagerVisits, Bounds DEF RegistryIInv, AgentIds
<1>2. /\ new \in Visits /\ new.op = "resume" /\ new.at = "count" /\ new.id = a /\ new.pid = w
  BY <1>1 DEF Request, Visits, Stages
<1>3. /\ visit' \in [Visitors -> Visits] /\ visits' \in 0..MaxVisits
      /\ visit[w] = NoVisit /\ visit'[w] = new /\ serving
      /\ \A u \in Visitors \ {w} : visit'[u] = visit[u]
  BY <1>1, <1>2, ComesTyped DEF AsksToResume
<1> HIDE DEF new
<1>4. /\ wrapper' \in [Wrappers -> [stage: {"off", "asking", "running", "over"}, id: 0..MaxIds]]
      /\ wrapper'[w].stage = "asking" /\ wrapper'[w].id = a
      /\ \A u \in Wrappers \ {w} : wrapper'[u] = wrapper[u]
  BY <1>1 DEF RegistryTypeOK
<1>5. /\ UNCHANGED <<live, checkout, usedIds, liveFile, past, pastFile, serving, crashes, granted, overtaken>>
      /\ dismissed \subseteq dismissed' /\ dismissed' \subseteq dismissed \union {a}
      /\ a \notin dismissed' =>
            /\ \A v \in Visitors \ {w} : visit[v].id # a
            /\ \A u \in Wrappers \ {w} : wrapper[u].id # a
  <2>1. CASE \/ \E v \in Visitors \ {w} : visit[v].id = a
             \/ \E u \in Wrappers \ {w} : wrapper[u].id = a
    BY <2>1 DEF AsksToResume
  <2>2. CASE ~(\/ \E v \in Visitors \ {w} : visit[v].id = a
               \/ \E u \in Wrappers \ {w} : wrapper[u].id = a)
    BY <2>2 DEF AsksToResume
  <2> QED
    BY <2>1, <2>2
<1>6. RegistryTypeOK'
  BY <1>1, <1>3, <1>4, <1>5 DEF RegistryTypeOK
<1>7. NoneBefore' /\ StagesFit'
  BY <1>2, <1>3, <1>5 DEF RegistryIInv, NoneBefore, StagesFit
<1>8. ProcessesFit'
  BY <1>1, <1>2, <1>3, <1>4, ManagerVisits DEF RegistryIInv, ProcessesFit
<1>9. IdsKnown'
  <2>1. a <= usedIds
    BY <1>1, Bounds DEF RegistryIInv, IdsKnown, RegistryTypeOK
  <2> QED
    BY <1>1, <1>2, <1>3, <1>4, <1>5, <2>1 DEF RegistryIInv, IdsKnown
<1>10. FreshAlone'
  BY <1>1, <1>2, <1>3, <1>4, <1>5, ManagerVisits DEF RegistryIInv, FreshAlone
<1>11. OwnersAlone'
  BY <1>1, <1>2, <1>3, <1>4, <1>5, ManagerVisits DEF RegistryIInv, OwnersAlone
<1>12. HistoryOnFile' /\ AgentsKept'
  BY <1>5 DEF RegistryIInv, HistoryOnFile, AgentsKept, OnRecord
<1>13. MemoryKeeps'
  <2>1. \A b : KeptInMemory(b) => KeptInMemory(b)'
    BY <1>3, <1>5, NoVisitTyped DEF KeptInMemory, OnRecord
  <2> QED
    BY <1>2, <1>3, <1>5, <2>1 DEF RegistryIInv, MemoryKeeps, OnItsWay
<1>14. EnteredKept' /\ RunningKept' /\ RunningOnFile'
  BY <1>1, <1>2, <1>3, <1>4, <1>5, ManagerVisits DEF RegistryIInv, EnteredKept, RunningKept, RunningOnFile
<1> QED
  BY <1>6, <1>7, <1>8, <1>9, <1>10, <1>11, <1>12, <1>13, <1>14 DEF RegistryIInv

LEMMA ResumeSound ==
    ASSUME RegistryIInv, NEW w \in Wrappers, Resume(w)
    PROVE  RegistryIInv'
<1>1. PICK a \in granted :
         /\ wrapper' = [wrapper EXCEPT ![w] = [stage |-> "asking", id |-> a]]
         /\ AsksToResume(w, a)
  BY DEF Resume
<1>2. wrapper[w].stage = "off" /\ wrapper[w].id = 0
  BY DEF Resume, RegistryIInv, ProcessesFit
<1> QED
  BY <1>1, <1>2, AsksSound

\* The process has given up.
LEMMA GivesUpSound ==
    ASSUME RegistryIInv, NEW w \in Wrappers, wrapper[w].stage \in {"asking", "over"},
           visit[w] = NoVisit, wrapper' = [wrapper EXCEPT ![w] = Away],
           UNCHANGED <<live, checkout, visit, visits, usedIds>>, FilesSame, HostSame, GhostsSame
    PROVE  RegistryIInv'
<1>1. /\ wrapper' \in [Wrappers -> [stage: {"off", "asking", "running", "over"}, id: 0..MaxIds]]
      /\ wrapper'[w].stage = "off" /\ wrapper'[w].id = 0
      /\ \A u \in Wrappers \ {w} : wrapper'[u] = wrapper[u]
  BY Bounds DEF RegistryIInv, RegistryTypeOK, Away
<1>2. RegistryTypeOK' /\ NoneBefore' /\ StagesFit'
  BY <1>1 DEF FilesSame, HostSame, GhostsSame, RegistryIInv, RegistryTypeOK, NoneBefore, StagesFit
<1>3. ProcessesFit' /\ IdsKnown'
  BY <1>1, NoVisitTyped DEF GhostsSame, RegistryIInv, ProcessesFit, IdsKnown
<1>4. FreshAlone' /\ OwnersAlone'
  BY <1>1 DEF GhostsSame, RegistryIInv, FreshAlone, OwnersAlone
<1>5. HistoryOnFile' /\ AgentsKept'
  BY DEF GhostsSame, FilesSame, RegistryIInv, HistoryOnFile, AgentsKept, OnRecord
<1>6. MemoryKeeps'
  BY DEF GhostsSame, FilesSame, RegistryIInv, MemoryKeeps, KeptInMemory, OnItsWay, OnRecord
<1>7. EnteredKept' /\ RunningKept' /\ RunningOnFile'
  BY <1>1 DEF GhostsSame, FilesSame, RegistryIInv, EnteredKept, RunningKept, RunningOnFile
<1> QED
  BY <1>2, <1>3, <1>4, <1>5, <1>6, <1>7 DEF RegistryIInv

LEMMA AsksAgainSound ==
    ASSUME RegistryIInv, NEW w \in Wrappers, AsksAgain(w)
    PROVE  RegistryIInv'
<1>1. wrapper[w].stage = "asking" /\ visit[w] = NoVisit
  BY DEF AsksAgain
<1>2. CASE wrapper[w].id # 0 /\ AsksToResume(w, wrapper[w].id) /\ UNCHANGED wrapper
  <2>1. wrapper[w].id \in granted
    BY <1>2 DEF RegistryIInv, IdsKnown
  <2>2. wrapper[w] = [stage |-> "asking", id |-> wrapper[w].id]
    BY <1>1 DEF RegistryIInv, RegistryTypeOK
  <2>3. wrapper' = [wrapper EXCEPT ![w] = [stage |-> "asking", id |-> wrapper[w].id]]
    BY <1>2, <2>2 DEF RegistryIInv, RegistryTypeOK
  <2> QED
    BY <1>1, <1>2, <2>1, <2>3, AsksSound
<1>3. CASE /\ wrapper' = [wrapper EXCEPT ![w] = Away]
           /\ UNCHANGED <<live, checkout, visit, visits, usedIds>> /\ FilesSame /\ HostSame /\ GhostsSame
  BY <1>1, <1>3, GivesUpSound
<1> QED
  BY <1>2, <1>3 DEF AsksAgain

LEMMA ExitSound ==
    ASSUME RegistryIInv, NEW w \in Wrappers, Exit(w)
    PROVE  RegistryIInv'
<1>1. /\ wrapper' \in [Wrappers -> [stage: {"off", "asking", "running", "over"}, id: 0..MaxIds]]
      /\ wrapper[w].stage = "running"
      /\ wrapper'[w].stage = "over" /\ wrapper'[w].id = wrapper[w].id
      /\ \A u \in Wrappers \ {w} : wrapper'[u] = wrapper[u]
  BY DEF Exit, RegistryIInv, RegistryTypeOK
<1>2. UNCHANGED <<live, checkout, visit, visits, usedIds, liveFile, past, pastFile, serving, crashes, granted, overtaken, dismissed>>
  BY DEF Exit, FilesSame, HostSame, GhostsSame
<1>3. RegistryTypeOK' /\ NoneBefore' /\ StagesFit'
  BY <1>1, <1>2 DEF RegistryIInv, RegistryTypeOK, NoneBefore, StagesFit
<1>4. ProcessesFit' /\ IdsKnown'
  BY <1>1, <1>2 DEF RegistryIInv, ProcessesFit, IdsKnown
<1>5. FreshAlone' /\ OwnersAlone'
  BY <1>1, <1>2 DEF RegistryIInv, FreshAlone, OwnersAlone
<1>6. HistoryOnFile' /\ AgentsKept'
  BY <1>2 DEF RegistryIInv, HistoryOnFile, AgentsKept, OnRecord
<1>7. MemoryKeeps'
  BY <1>2 DEF RegistryIInv, MemoryKeeps, KeptInMemory, OnItsWay, OnRecord
<1>8. EnteredKept' /\ RunningKept' /\ RunningOnFile'
  BY <1>1, <1>2 DEF RegistryIInv, EnteredKept, RunningKept, RunningOnFile
<1> QED
  BY <1>3, <1>4, <1>5, <1>6, <1>7, <1>8 DEF RegistryIInv

-----------------------------------------------------------------------------
(* Unregistering.                                                             *)

LEMMA SaysGoodbyeSound ==
    ASSUME RegistryIInv, NEW w \in Wrappers, SaysGoodbye(w)
    PROVE  RegistryIInv'
<1> DEFINE a   == wrapper[w].id
           new == Request("unregister", "pop", a, NoPid)
<1>1. /\ w \in Visitors /\ RegistryTypeOK /\ wrapper[w].stage = "over"
      /\ a \in AgentIds /\ a \in granted /\ visit[w] = NoVisit
  <2>1. a \in AgentIds /\ a \in granted /\ wrapper[w].stage = "over"
    BY RunningIds DEF SaysGoodbye, RegistryIInv, ProcessesFit, IdsKnown
  <2>2. visit[w].op = "none"
    BY <2>1, ManagerVisits DEF RegistryIInv, RegistryTypeOK, Visits, ProcessesFit
  <2> QED
    BY <2>1, <2>2, ManagerVisits DEF RegistryIInv, StagesFit
<1>2. UNCHANGED <<live, checkout, usedIds, liveFile, past, pastFile, serving, crashes, granted, overtaken>>
  BY DEF SaysGoodbye, FilesSame, HostSame
<1>3. CASE UNCHANGED <<visit, visits, dismissed>>
  BY <1>1, <1>2, <1>3, GivesUpSound DEF SaysGoodbye, FilesSame, HostSame, GhostsSame
<1>4. CASE Comes(w, new) /\ Dismisses(a, w)
  <2>1. new \in Visits /\ new.op = "unregister" /\ new.at = "pop" /\ new.id = a
    <3>1. a \in 0..MaxIds
      BY <1>1, Bounds DEF AgentIds
    <3> QED
      BY <3>1 DEF Request, Visits, Stages
  <2> HIDE DEF new
  <2>2. /\ visit' \in [Visitors -> Visits] /\ visits' \in 0..MaxVisits
        /\ visit[w] = NoVisit /\ visit'[w] = new /\ serving
        /\ \A u \in Visitors \ {w} : visit'[u] = visit[u]
    BY <1>1, <1>4, <2>1, ComesTyped
  <2>3. /\ wrapper' \in [Wrappers -> [stage: {"off", "asking", "running", "over"}, id: 0..MaxIds]]
        /\ wrapper'[w].stage = "off" /\ wrapper'[w].id = 0
        /\ \A u \in Wrappers \ {w} : wrapper'[u] = wrapper[u]
    BY <1>1, Bounds DEF SaysGoodbye, RegistryTypeOK, Away
  <2>4. /\ dismissed \subseteq dismissed' /\ dismissed' \subseteq dismissed \union {a}
        /\ a \notin dismissed' => \A u \in Wrappers \ {w} : wrapper[u].id # a
    <3>1. w # Manager
      BY ManagerVisits
    <3>2. CASE \E u \in Wrappers \ {w} : wrapper[u].id = a
      BY <1>4, <3>1, <3>2 DEF Dismisses
    <3>3. CASE ~\E u \in Wrappers \ {w} : wrapper[u].id = a
      BY <1>4, <3>1, <3>3 DEF Dismisses
    <3> QED
      BY <3>2, <3>3
  <2> HIDE DEF a
  <2>5. RegistryTypeOK'
    BY <1>1, <1>2, <2>2, <2>3, <2>4 DEF RegistryTypeOK
  <2>6. NoneBefore' /\ StagesFit'
    BY <1>2, <2>1, <2>2 DEF RegistryIInv, NoneBefore, StagesFit
  <2>7. ProcessesFit'
    BY <1>1, <2>1, <2>2, <2>3, ManagerVisits DEF RegistryIInv, ProcessesFit
  <2>8. IdsKnown'
    <3>1. a <= usedIds
      BY <1>1, Bounds DEF RegistryIInv, IdsKnown, RegistryTypeOK
    <3> QED
      BY <1>1, <1>2, <2>1, <2>2, <2>3, <3>1 DEF RegistryIInv, IdsKnown
  <2>9. FreshAlone'
    BY <1>1, <1>2, <2>1, <2>2, ManagerVisits DEF RegistryIInv, FreshAlone
  <2>10. OwnersAlone'
    BY <1>1, <2>1, <2>2, <2>3, <2>4, ManagerVisits DEF RegistryIInv, OwnersAlone
  <2>11. HistoryOnFile' /\ AgentsKept'
    BY <1>2 DEF RegistryIInv, HistoryOnFile, AgentsKept, OnRecord
  <2>12. MemoryKeeps'
    <3>1. \A b : KeptInMemory(b) => KeptInMemory(b)'
      BY <1>2, <2>2, NoVisitTyped DEF KeptInMemory, OnRecord
    <3> QED
      BY <1>2, <2>1, <2>2, <3>1 DEF RegistryIInv, MemoryKeeps, OnItsWay
  <2>13. EnteredKept' /\ RunningKept' /\ RunningOnFile'
    BY <1>1, <1>2, <2>1, <2>2, <2>3, <2>4, ManagerVisits
       DEF RegistryIInv, EnteredKept, RunningKept, RunningOnFile
  <2> QED
    BY <2>5, <2>6, <2>7, <2>8, <2>9, <2>10, <2>11, <2>12, <2>13 DEF RegistryIInv
<1> QED
  BY <1>3, <1>4 DEF SaysGoodbye

LEMMA DismissSound ==
    ASSUME RegistryIInv, Dismiss
    PROVE  RegistryIInv'
<1>1. PICK a \in granted, keep \in BOOLEAN :
         /\ Comes(Manager, [Request("unregister", "pop", a, NoPid) EXCEPT !.keep = keep])
         /\ Dismisses(a, Manager)
  BY DEF Dismiss
<1> DEFINE new == [Request("unregister", "pop", a, NoPid) EXCEPT !.keep = keep]
<1>2. RegistryTypeOK /\ a \in AgentIds /\ a \in 0..MaxIds
  <2>1. a \in AgentIds
    BY <1>1 DEF RegistryIInv, RegistryTypeOK
  <2> QED
    BY <2>1, Bounds DEF RegistryIInv, AgentIds
<1>3. new \in Visits /\ new.op = "unregister" /\ new.at = "pop" /\ new.id = a
  BY <1>2 DEF Request, Visits, Stages
<1> HIDE DEF new
<1>4. /\ visit' \in [Visitors -> Visits] /\ visits' \in 0..MaxVisits
      /\ visit[Manager] = NoVisit /\ visit'[Manager] = new /\ serving
      /\ \A u \in Visitors \ {Manager} : visit'[u] = visit[u]
  BY <1>1, <1>2, <1>3, ComesTyped, ManagerVisits DEF new
<1>5. /\ UNCHANGED <<live, checkout, wrapper, usedIds, liveFile, past, pastFile, serving, crashes, granted, overtaken>>
      /\ dismissed' = dismissed \union {a}
  BY <1>1 DEF Dismiss, Dismisses, FilesSame, HostSame
<1>6. RegistryTypeOK'
  BY <1>2, <1>4, <1>5 DEF RegistryTypeOK
<1>7. NoneBefore' /\ StagesFit'
  BY <1>3, <1>4, <1>5 DEF RegistryIInv, NoneBefore, StagesFit
<1>8. ProcessesFit'
  BY <1>3, <1>4, <1>5, ManagerVisits DEF RegistryIInv, ProcessesFit
<1>9. IdsKnown'
  <2>1. a <= usedIds
    BY <1>1, Bounds DEF RegistryIInv, IdsKnown, RegistryTypeOK
  <2> QED
    BY <1>3, <1>4, <1>5, <2>1 DEF RegistryIInv, IdsKnown
<1>10. FreshAlone' /\ OwnersAlone'
  BY <1>3, <1>4, <1>5, ManagerVisits DEF RegistryIInv, FreshAlone, OwnersAlone
<1>11. HistoryOnFile' /\ AgentsKept'
  BY <1>5 DEF RegistryIInv, HistoryOnFile, AgentsKept, OnRecord
<1>12. MemoryKeeps'
  <2>1. \A b : KeptInMemory(b) => KeptInMemory(b)'
    BY <1>4, <1>5, NoVisitTyped DEF KeptInMemory, OnRecord
  <2> QED
    BY <1>3, <1>4, <1>5, <2>1 DEF RegistryIInv, MemoryKeeps, OnItsWay
<1>13. EnteredKept' /\ RunningKept' /\ RunningOnFile'
  BY <1>4, <1>5, ManagerVisits DEF RegistryIInv, EnteredKept, RunningKept, RunningOnFile
<1> QED
  BY <1>6, <1>7, <1>8, <1>9, <1>10, <1>11, <1>12, <1>13 DEF RegistryIInv

\* Whoever runs or is about to run an agent that may not be dismissed, no call
\* unregisters it.
LEMMA NoneUnregisters ==
    ASSUME RegistryIInv, NEW v \in Visitors, visit[v].op = "unregister"
    PROVE  \A w \in Wrappers :
              /\ wrapper[w].stage = "running" /\ wrapper[w].id \notin dismissed =>
                    wrapper[w].id # visit[v].id
              /\ visit[w].op \in {"register", "resume"} /\ visit[w].id \notin dismissed =>
                    visit[w].id # visit[v].id
<1> DEFINE a == visit[v].id
<1>1. a # 0
  BY RunningIds, Bounds DEF AgentIds
<1>2. ASSUME NEW w \in Wrappers, wrapper[w].stage = "running", wrapper[w].id \notin dismissed
      PROVE  wrapper[w].id # a
  BY <1>1, <1>2, ManagerVisits DEF RegistryIInv, ProcessesFit, OwnersAlone
<1>3. ASSUME NEW w \in Wrappers, visit[w].op = "register", visit[w].id \notin dismissed
      PROVE  visit[w].id # a
  BY <1>1, <1>3, ManagerVisits DEF RegistryIInv, FreshAlone
<1>4. ASSUME NEW w \in Wrappers, visit[w].op = "resume", visit[w].id \notin dismissed
      PROVE  visit[w].id # a
  BY <1>1, <1>4, ManagerVisits DEF RegistryIInv, ProcessesFit, OwnersAlone
<1> QED
  BY <1>2, <1>3, <1>4

LEMMA PopEntrySound ==
    ASSUME RegistryIInv, NEW v \in Visitors, PopEntry(v)
    PROVE  RegistryIInv'
<1> DEFINE a == visit[v].id
<1>1. /\ RegistryTypeOK /\ serving /\ visit[v].at = "pop" /\ visit[v].op = "unregister"
      /\ a \in AgentIds
  <2>1. serving /\ visit[v].at = "pop" /\ visit[v].op = "unregister"
    BY NoVisitTyped DEF PopEntry, Visiting, RegistryIInv, StagesFit, RegistryTypeOK, Visits
  <2> QED
    BY <2>1, RunningIds DEF RegistryIInv
<1>2. UNCHANGED <<checkout, wrapper, usedIds, liveFile, past, pastFile, serving, crashes, granted, overtaken, dismissed>>
  BY DEF PopEntry, FilesSame, HostSame, GhostsSame
<1>3. PICK at \in {"none", "history"} :
        /\ visit' \in [Visitors -> Visits] /\ visits' = visits
        /\ \A u \in Visitors \ {v} : visit'[u] = visit[u]
        /\ visit'[v].at = at
        /\ at = "none" => visit'[v] = NoVisit /\ live' = live
        /\ at = "history" => visit'[v].op = "unregister" /\ visit'[v].id = a
                             /\ live' = [live EXCEPT ![a] = NoPid]
  <2>1. CASE a \in OnRecord(live)
    <3>1. Moves(v, "history") /\ live' = [live EXCEPT ![a] = NoPid]
      BY <2>1 DEF PopEntry
    <3>2. "history" \in Stages
      BY DEF Stages
    <3> QED
      BY <1>1, <3>1, <3>2, MovesTyped
  <2>2. CASE a \notin OnRecord(live)
    <3>1. Leaves(v) /\ live' = live
      BY <2>2 DEF PopEntry
    <3> QED
      BY <1>1, <3>1, LeavesTyped, NoVisitTyped
  <2> QED
    BY <2>1, <2>2
<1>4. /\ live \in Registries /\ live' \in Registries
      /\ \A b \in AgentIds \ {a} : live'[b] = live[b]
  BY <1>1, <1>3 DEF RegistryTypeOK, Registries
<1>5. RegistryTypeOK'
  BY <1>1, <1>2, <1>3, <1>4 DEF RegistryTypeOK
<1>6. NoneBefore' /\ StagesFit'
  BY <1>1, <1>2, <1>3, NoVisitTyped DEF RegistryIInv, NoneBefore, StagesFit
<1>7. ProcessesFit'
  BY <1>1, <1>2, <1>3, NoVisitTyped, ManagerVisits DEF RegistryIInv, ProcessesFit
<1>8. IdsKnown'
  <2>1. 0 <= usedIds
    BY <1>1, Bounds DEF RegistryTypeOK
  <2> QED
    BY <1>1, <1>2, <1>3, <2>1, NoVisitTyped DEF RegistryIInv, IdsKnown
<1>9. FreshAlone' /\ OwnersAlone'
  BY <1>1, <1>2, <1>3, NoVisitTyped, ManagerVisits DEF RegistryIInv, FreshAlone, OwnersAlone
<1>10. HistoryOnFile' /\ AgentsKept'
  BY <1>2 DEF RegistryIInv, HistoryOnFile, AgentsKept, OnRecord
<1>11. MemoryKeeps'
  <2>1. \A b : KeptInMemory(b) => KeptInMemory(b)'
    <3>1. ASSUME NEW b, KeptInMemory(b), visit'[v].at = "none"
          PROVE  KeptInMemory(b)'
      BY <1>1, <1>2, <1>3, <3>1 DEF KeptInMemory, OnRecord
    <3>2. ASSUME NEW b, KeptInMemory(b), visit'[v].at = "history", b # a
          PROVE  KeptInMemory(b)'
      BY <1>1, <1>2, <1>3, <1>4, <3>2 DEF KeptInMemory, OnRecord
    <3>3. ASSUME visit'[v].at = "history"
          PROVE  KeptInMemory(a)'
      BY <1>3, <3>3 DEF KeptInMemory
    <3> QED
      BY <1>3, <3>1, <3>2, <3>3
  <2> QED
    BY <1>1, <1>2, <1>3, <2>1, NoVisitTyped DEF RegistryIInv, MemoryKeeps, OnItsWay
<1>12. EnteredKept' /\ RunningKept' /\ RunningOnFile'
  <2>1. \A w \in Wrappers : visit'[w].op \in {"register", "resume"} =>
           visit'[w] = visit[w] /\ (visit[w].at = "replace" => visit[w].id \in AgentIds)
    BY <1>3, NoVisitTyped, RunningIds, ManagerVisits
  <2>2. EnteredKept'
    BY <1>1, <1>2, <1>4, <2>1, NoneUnregisters DEF RegistryIInv, EnteredKept
  <2>3. RunningKept' /\ RunningOnFile'
    BY <1>1, <1>2, <1>4, NoneUnregisters, RunningIds DEF RegistryIInv, RunningKept, RunningOnFile
  <2> QED
    BY <2>2, <2>3
<1> QED
  BY <1>5, <1>6, <1>7, <1>8, <1>9, <1>10, <1>11, <1>12 DEF RegistryIInv

LEMMA RecordCompletedSound ==
    ASSUME RegistryIInv, NEW v \in Visitors, RecordCompleted(v)
    PROVE  RegistryIInv'
<1> DEFINE a == visit[v].id
<1>1. /\ RegistryTypeOK /\ serving /\ visit[v].at = "history" /\ visit[v].op = "unregister"
      /\ a \in AgentIds
  <2>1. serving /\ visit[v].at = "history" /\ visit[v].op = "unregister"
    BY NoVisitTyped DEF RecordCompleted, Visiting, RegistryIInv, StagesFit, RegistryTypeOK, Visits
  <2> QED
    BY <2>1, RunningIds DEF RegistryIInv
<1>2. /\ UNCHANGED <<live, liveFile, checkout, wrapper, usedIds, serving, crashes, granted, overtaken, dismissed>>
      /\ past' = past \union {a} /\ pastFile' = past' /\ pastFile' = pastFile \union {a}
      /\ live \in Registries
  BY <1>1 DEF RecordCompleted, HostSame, GhostsSame, RegistryIInv, HistoryOnFile, RegistryTypeOK
<1>3. /\ visit' \in [Visitors -> Visits] /\ visits' = visits
      /\ \A u \in Visitors \ {v} : visit'[u] = visit[u]
      /\ visit'[v].at \in {"replace", "remove"} /\ (visit'[v].at = "replace" => visit'[v].text = live)
      /\ visit'[v].op = "unregister" /\ visit'[v].id = a
  <2>1. CASE visit[v].keep
    <3>1. Dumps(v, live)
      BY <2>1 DEF RecordCompleted
    <3> QED
      BY <1>1, <1>2, <3>1, DumpsTyped
  <2>2. CASE ~visit[v].keep
    <3>1. Moves(v, "remove")
      BY <2>2 DEF RecordCompleted
    <3>2. "remove" \in Stages
      BY DEF Stages
    <3> QED
      BY <1>1, <3>1, <3>2, MovesTyped
  <2> QED
    BY <2>1, <2>2
<1>4. RegistryTypeOK'
  BY <1>1, <1>2, <1>3 DEF RegistryTypeOK
<1>5. NoneBefore' /\ StagesFit'
  BY <1>1, <1>2, <1>3 DEF RegistryIInv, NoneBefore, StagesFit
<1>6. ProcessesFit'
  BY <1>1, <1>2, <1>3, ManagerVisits DEF RegistryIInv, ProcessesFit
<1>7. IdsKnown'
  BY <1>1, <1>2, <1>3 DEF RegistryIInv, IdsKnown
<1>8. FreshAlone' /\ OwnersAlone'
  BY <1>1, <1>2, <1>3, ManagerVisits DEF RegistryIInv, FreshAlone, OwnersAlone
<1>9. HistoryOnFile' /\ AgentsKept'
  BY <1>2 DEF RegistryIInv, HistoryOnFile, AgentsKept, OnRecord
<1>10. MemoryKeeps'
  <2>1. \A b : KeptInMemory(b) => KeptInMemory(b)'
    BY <1>1, <1>2, <1>3 DEF KeptInMemory, OnRecord
  <2> QED
    BY <1>1, <1>2, <1>3, <2>1 DEF RegistryIInv, MemoryKeeps, OnItsWay
<1>11. EnteredKept' /\ RunningKept' /\ RunningOnFile'
  BY <1>1, <1>2, <1>3, ManagerVisits DEF RegistryIInv, EnteredKept, RunningKept, RunningOnFile
<1> QED
  BY <1>4, <1>5, <1>6, <1>7, <1>8, <1>9, <1>10, <1>11 DEF RegistryIInv

LEMMA RemoveWorktreeSound ==
    ASSUME RegistryIInv, NEW v \in Visitors, RemoveWorktree(v)
    PROVE  RegistryIInv'
<1> DEFINE a == visit[v].id
<1>1. /\ RegistryTypeOK /\ serving /\ visit[v].at = "remove" /\ visit[v].op = "unregister"
  BY NoVisitTyped DEF RemoveWorktree, Visiting, RegistryIInv, StagesFit, RegistryTypeOK, Visits
<1>2. /\ UNCHANGED <<live, liveFile, past, pastFile, wrapper, usedIds, serving, crashes, granted, overtaken, dismissed>>
      /\ checkout' = checkout \ {a} /\ live \in Registries
  BY <1>1 DEF RemoveWorktree, FilesSame, HostSame, GhostsSame, RegistryTypeOK
<1>3. /\ visit' \in [Visitors -> Visits] /\ visits' = visits
      /\ \A u \in Visitors \ {v} : visit'[u] = visit[u]
      /\ visit'[v].at = "replace" /\ visit'[v].text = live
      /\ visit'[v].op = "unregister" /\ visit'[v].id = a
  BY <1>1, <1>2, DumpsTyped DEF RemoveWorktree
<1>4. RegistryTypeOK'
  BY <1>1, <1>2, <1>3 DEF RegistryTypeOK
<1>5. NoneBefore' /\ StagesFit'
  BY <1>1, <1>2, <1>3 DEF RegistryIInv, NoneBefore, StagesFit
<1>6. ProcessesFit'
  BY <1>1, <1>2, <1>3, ManagerVisits DEF RegistryIInv, ProcessesFit
<1>7. IdsKnown'
  BY <1>1, <1>2, <1>3 DEF RegistryIInv, IdsKnown
<1>8. FreshAlone' /\ OwnersAlone'
  BY <1>1, <1>2, <1>3, ManagerVisits DEF RegistryIInv, FreshAlone, OwnersAlone
<1>9. HistoryOnFile' /\ AgentsKept'
  BY <1>2 DEF RegistryIInv, HistoryOnFile, AgentsKept, OnRecord
<1>10. MemoryKeeps'
  <2>1. \A b : KeptInMemory(b) => KeptInMemory(b)'
    BY <1>1, <1>2, <1>3 DEF KeptInMemory, OnRecord
  <2> QED
    BY <1>1, <1>2, <1>3, <2>1 DEF RegistryIInv, MemoryKeeps, OnItsWay
<1>11. EnteredKept' /\ RunningKept' /\ RunningOnFile'
  BY <1>1, <1>2, <1>3, NoneUnregisters, ManagerVisits
     DEF RegistryIInv, EnteredKept, RunningKept, RunningOnFile
<1> QED
  BY <1>4, <1>5, <1>6, <1>7, <1>8, <1>9, <1>10, <1>11 DEF RegistryIInv

-----------------------------------------------------------------------------
(* Writing the registry.                                                      *)

\* A text that was made before another call changed the memory marks what it
\* overtakes; all the rest stays on file.
LEMMA ReplaceSound ==
    ASSUME RegistryIInv, NEW v \in Visitors, Replace(v)
    PROVE  RegistryIInv'
<1> DEFINE a    == visit[v].id
           text == visit[v].text
<1>1. /\ RegistryTypeOK /\ serving /\ visit[v].at = "replace"
      /\ visit[v].op \in {"register", "resume", "unregister"}
      /\ a \in AgentIds /\ text \in Registries
  <2>1. serving /\ visit[v].at = "replace"
    BY DEF Replace, Visiting
  <2> QED
    BY <2>1, NoVisitTyped, RunningIds DEF RegistryIInv, StagesFit, RegistryTypeOK, Visits
<1>2. /\ UNCHANGED <<live, past, pastFile, checkout, usedIds, dismissed, serving, crashes>>
      /\ liveFile' = text /\ Leaves(v)
      /\ overtaken' = overtaken \union {b \in OnRecord(live) : text[b] # live[b]}
                          \union {visit[u].id : u \in {u \in Visitors : visit[u].at = "history"}}
  BY DEF Replace, HostSame
<1>3. /\ visit' \in [Visitors -> Visits] /\ visits' = visits
      /\ visit'[v] = NoVisit
      /\ \A u \in Visitors \ {v} : visit'[u] = visit[u]
  BY <1>1, <1>2, LeavesTyped
<1>4. /\ overtaken \subseteq overtaken' /\ overtaken' \subseteq AgentIds
      /\ \A b \in AgentIds \ overtaken' : b \in OnRecord(live) => text[b] = live[b]
      /\ \A b \in AgentIds \ overtaken' : KeptInMemory(b) => b \in OnRecord(live) \union pastFile
  <2>1. \A u \in Visitors : visit[u].at = "history" => visit[u].id \in AgentIds
    BY RunningIds, NoVisitTyped DEF RegistryIInv, StagesFit, RegistryTypeOK, Visits
  <2>2. overtaken \subseteq overtaken' /\ overtaken' \subseteq AgentIds
    BY <1>1, <1>2, <2>1 DEF RegistryTypeOK, OnRecord
  <2>3. \A b \in AgentIds \ overtaken' : b \in OnRecord(live) => text[b] = live[b]
    BY <1>2
  <2>4. \A b \in AgentIds \ overtaken' : KeptInMemory(b) => b \in OnRecord(live) \union pastFile
    BY <1>2 DEF KeptInMemory
  <2> QED
    BY <2>2, <2>3, <2>4
<1>5. HistoryOnFile' /\ NoneBefore' /\ StagesFit'
  BY <1>1, <1>2, <1>3, NoVisitTyped DEF RegistryIInv, HistoryOnFile, NoneBefore, StagesFit
<1>6. \A b \in AgentIds : KeptInMemory(b) => KeptInMemory(b)'
  BY <1>1, <1>2, <1>3 DEF KeptInMemory, OnRecord
<1>7. \A b \in (granted \union {a}) \ overtaken' :
         KeptInMemory(b) => b \in OnRecord(liveFile') \union pastFile'
  BY <1>1, <1>2, <1>4, RunningIds DEF OnRecord
<1>8. 0 <= usedIds /\ a <= usedIds /\ a >= 1 /\ a \in 1..usedIds
  BY <1>1, Bounds DEF RegistryIInv, IdsKnown, RegistryTypeOK, AgentIds
<1>9. CASE visit[v].op = "unregister"
  <2>1. UNCHANGED <<wrapper, granted>>
    BY <1>9 DEF Replace
  <2> HIDE DEF a, text
  <2>2. RegistryTypeOK'
    BY <1>1, <1>2, <1>3, <1>4, <2>1 DEF RegistryTypeOK
  <2>3. ProcessesFit' /\ IdsKnown'
    BY <1>2, <1>3, <1>8, <2>1, NoVisitTyped, ManagerVisits DEF RegistryIInv, ProcessesFit, IdsKnown
  <2>4. FreshAlone' /\ OwnersAlone'
    BY <1>2, <1>3, <2>1, NoVisitTyped, ManagerVisits DEF RegistryIInv, FreshAlone, OwnersAlone
  <2>5. AgentsKept' /\ MemoryKeeps'
    BY <1>2, <1>3, <1>4, <1>6, <1>7, <2>1, NoVisitTyped, RunningIds
       DEF RegistryIInv, AgentsKept, MemoryKeeps, OnItsWay
  <2>6. EnteredKept'
    BY <1>2, <1>3, NoVisitTyped, ManagerVisits DEF RegistryIInv, EnteredKept
  <2>7. RunningKept' /\ RunningOnFile'
    <3>1. ASSUME NEW w \in Wrappers, wrapper[w].stage = "running",
                 wrapper[w].id \notin overtaken' \union dismissed
          PROVE  /\ wrapper[w].id \in checkout /\ live[wrapper[w].id] = w
                 /\ text[wrapper[w].id] = w
      <4>1. wrapper[w].id \in AgentIds /\ wrapper[w].id \notin overtaken \union dismissed
        BY <1>4, <3>1, RunningIds
      <4>2. wrapper[w].id \in checkout /\ live[wrapper[w].id] = w
        BY <3>1, <4>1 DEF RegistryIInv, RunningKept
      <4>3. wrapper[w].id \in OnRecord(live)
        BY <4>1, <4>2, Bounds DEF OnRecord
      <4> QED
        BY <1>4, <3>1, <4>1, <4>2, <4>3
    <3> QED
      BY <1>2, <2>1, <3>1 DEF RunningKept, RunningOnFile
  <2> QED
    BY <1>5, <2>2, <2>3, <2>4, <2>5, <2>6, <2>7 DEF RegistryIInv
<1>10. CASE visit[v].op \in {"register", "resume"}
  <2>1. /\ v \in Wrappers /\ wrapper[v].stage = "asking"
        /\ visit[v].op = "resume" => wrapper[v].id = a
        /\ visit[v].op = "register" => wrapper[v].id = 0
    BY <1>10, ManagerVisits DEF RegistryIInv, ProcessesFit, Visitors
  <2>2. /\ wrapper' = [wrapper EXCEPT ![v] = IF @.stage = "asking"
                                             THEN [stage |-> "running", id |-> a] ELSE @]
        /\ granted' = granted \union {a}
    BY <1>10 DEF Replace
  <2>3. /\ wrapper' \in [Wrappers -> [stage: {"off", "asking", "running", "over"}, id: 0..MaxIds]]
        /\ wrapper'[v].stage = "running" /\ wrapper'[v].id = a
        /\ \A u \in Wrappers \ {v} : wrapper'[u] = wrapper[u]
    <3>1. a \in 0..MaxIds
      BY <1>1 DEF RegistryTypeOK, Visits
    <3>2. wrapper' = [wrapper EXCEPT ![v] = [stage |-> "running", id |-> a]]
      BY <2>1, <2>2
    <3> QED
      BY <1>1, <2>1, <3>1, <3>2 DEF RegistryTypeOK
  <2>4. KeptInMemory(a) /\ text[a] = v
    BY <1>1, <1>10 DEF RegistryIInv, MemoryKeeps, OnItsWay
  <2>5. a \notin dismissed => a \in checkout /\ live[a] = v
    BY <1>1, <1>10, <2>1 DEF RegistryIInv, EnteredKept
  <2>6. \A u \in Wrappers \ {v} : wrapper[u].id = a => a \in dismissed
    <3>1. CASE visit[v].op = "register"
      BY <1>1, <1>8, <3>1 DEF RegistryIInv, FreshAlone, IdsKnown
    <3>2. CASE visit[v].op = "resume"
      BY <1>1, <1>8, <2>1, <3>2 DEF RegistryIInv, OwnersAlone
    <3> QED
      BY <1>10, <3>1, <3>2
  <2>7. \A u \in Visitors \ {v} : visit[u].id = a => a \in dismissed /\ visit[u].op # "register"
    <3>1. CASE visit[v].op = "register"
      BY <1>1, <1>8, <3>1 DEF RegistryIInv, FreshAlone
    <3>2. CASE visit[v].op = "resume"
      BY <1>1, <1>8, <2>1, <3>2 DEF RegistryIInv, OwnersAlone, FreshAlone
    <3> QED
      BY <1>10, <3>1, <3>2
  <2> HIDE DEF a, text
  <2>8. RegistryTypeOK'
    BY <1>1, <1>2, <1>3, <1>4, <2>2, <2>3 DEF RegistryTypeOK
  <2>9. ProcessesFit'
    BY <1>2, <1>3, <1>8, <2>1, <2>3, NoVisitTyped, ManagerVisits DEF RegistryIInv, ProcessesFit
  <2>10. IdsKnown'
    <3>1. granted' \subseteq 1..usedIds'
      BY <1>2, <1>8, <2>2 DEF RegistryIInv, IdsKnown
    <3>2. \A u \in Wrappers : wrapper'[u].id # 0 => wrapper'[u].id \in granted'
      BY <2>1, <2>2, <2>3 DEF RegistryIInv, IdsKnown
    <3>3. \A u \in Visitors \ {v} :
             /\ visit'[u] = visit[u] /\ visit'[u].id <= usedIds'
             /\ visit'[u].op \in {"resume", "unregister"} => visit'[u].id \in granted'
      BY <1>2, <1>3, <2>2 DEF RegistryIInv, IdsKnown
    <3>4. visit'[v].id <= usedIds' /\ visit'[v].op = "none"
      BY <1>2, <1>3, <1>8, NoVisitTyped
    <3> QED
      BY <3>1, <3>2, <3>3, <3>4 DEF RegistryIInv, IdsKnown
  <2>11. FreshAlone'
    BY <1>2, <1>3, <2>2, <2>7, NoVisitTyped DEF RegistryIInv, FreshAlone
  <2>12. OwnersAlone'
    BY <1>2, <1>3, <1>8, <2>1, <2>3, <2>6, <2>7, NoVisitTyped, ManagerVisits DEF RegistryIInv, OwnersAlone
  <2>13. AgentsKept' /\ MemoryKeeps'
    BY <1>1, <1>2, <1>3, <1>4, <1>6, <1>7, <2>2, <2>4, NoVisitTyped, RunningIds
       DEF RegistryIInv, AgentsKept, MemoryKeeps, OnItsWay
  <2>14. EnteredKept'
    BY <1>2, <1>3, NoVisitTyped, ManagerVisits DEF RegistryIInv, EnteredKept
  <2>15. RunningKept' /\ RunningOnFile'
    <3>1. ASSUME NEW w \in Wrappers \ {v}, wrapper[w].stage = "running",
                 wrapper[w].id \notin overtaken' \union dismissed
          PROVE  /\ wrapper[w].id \in checkout /\ live[wrapper[w].id] = w
                 /\ text[wrapper[w].id] = w
      <4>1. wrapper[w].id \in AgentIds /\ wrapper[w].id \notin overtaken \union dismissed
        BY <1>4, <3>1, RunningIds
      <4>2. wrapper[w].id \in checkout /\ live[wrapper[w].id] = w
        BY <3>1, <4>1 DEF RegistryIInv, RunningKept
      <4>3. wrapper[w].id \in OnRecord(live)
        BY <4>1, <4>2, Bounds DEF OnRecord
      <4> QED
        BY <1>4, <3>1, <4>1, <4>2, <4>3
    <3> QED
      BY <1>2, <2>1, <2>3, <2>4, <2>5, <3>1 DEF RunningKept, RunningOnFile
  <2> QED
    BY <1>5, <2>8, <2>9, <2>10, <2>11, <2>12, <2>13, <2>14, <2>15 DEF RegistryIInv
<1> QED
  BY <1>1, <1>9, <1>10

-----------------------------------------------------------------------------
(* Crashes and starts.                                                        *)

\* What a restart reads has every agent of a granted id that nothing overtook, and
\* the entry of every running one.
LEMMA CrashSound ==
    ASSUME RegistryIInv, Crash
    PROVE  RegistryIInv'
<1>1. /\ live' = liveFile /\ past' = pastFile /\ serving' = FALSE
      /\ visit' = [v \in Visitors |-> NoVisit]
      /\ UNCHANGED <<liveFile, pastFile, checkout, wrapper, visits, usedIds, granted, overtaken, dismissed>>
      /\ crashes' = crashes + 1 /\ crashes < MaxCrashes
  BY DEF Crash, GhostsSame
<1>2. \A v \in Visitors : visit'[v] = NoVisit
  BY <1>1
<1>3. RegistryTypeOK'
  <2>1. crashes' \in 0..MaxCrashes
    BY <1>1, Bounds DEF RegistryIInv, RegistryTypeOK
  <2>2. visit' \in [Visitors -> Visits] /\ serving' \in BOOLEAN
    BY <1>1, NoVisitTyped
  <2> QED
    BY <1>1, <2>1, <2>2 DEF RegistryIInv, RegistryTypeOK
<1>4. NoneBefore' /\ StagesFit' /\ HistoryOnFile'
  BY <1>1, <1>2, NoVisitTyped DEF NoneBefore, StagesFit, HistoryOnFile
<1>5. ProcessesFit'
  BY <1>1, <1>2, NoVisitTyped, ManagerVisits DEF RegistryIInv, ProcessesFit
<1>6. IdsKnown'
  <2>1. 0 <= usedIds
    BY Bounds DEF RegistryIInv, RegistryTypeOK
  <2> QED
    BY <1>1, <1>2, <2>1, NoVisitTyped DEF RegistryIInv, IdsKnown
<1>7. FreshAlone' /\ OwnersAlone'
  BY <1>1, <1>2, NoVisitTyped, ManagerVisits DEF RegistryIInv, FreshAlone, OwnersAlone
<1>8. AgentsKept' /\ MemoryKeeps'
  BY <1>1, <1>2, NoVisitTyped
     DEF RegistryIInv, AgentsKept, MemoryKeeps, KeptInMemory, OnItsWay, OnRecord
<1>9. EnteredKept' /\ RunningKept' /\ RunningOnFile'
  BY <1>1, <1>2, NoVisitTyped, ManagerVisits DEF RegistryIInv, EnteredKept, RunningKept, RunningOnFile
<1> QED
  BY <1>3, <1>4, <1>5, <1>6, <1>7, <1>8, <1>9 DEF RegistryIInv

\* An agent is pruned into the history; no running process has it.
LEMMA RetireSound ==
    ASSUME RegistryIInv, Retire
    PROVE  RegistryIInv'
<1>1. PICK a \in Dead :
         past' = past \union {a} /\ pastFile' = past' /\ live' = [live EXCEPT ![a] = NoPid]
  BY DEF Retire
<1>2. /\ a \in AgentIds /\ live[a] \in Wrappers /\ wrapper[live[a]].stage = "off" /\ ~serving
  BY <1>1 DEF Retire, Dead, OnRecord, RegistryIInv, RegistryTypeOK, Registries
<1>3. UNCHANGED <<liveFile, checkout, wrapper, visit, visits, usedIds, serving, crashes, granted, overtaken, dismissed>>
  BY DEF Retire, HostSame, GhostsSame
<1>4. /\ live \in Registries /\ live' \in Registries /\ \A b \in AgentIds \ {a} : live'[b] = live[b]
      /\ pastFile' = pastFile \union {a}
  BY <1>1, <1>2 DEF RegistryIInv, HistoryOnFile, RegistryTypeOK, Registries
<1>5. RegistryTypeOK'
  BY <1>1, <1>2, <1>3, <1>4 DEF RegistryIInv, RegistryTypeOK
<1>6. NoneBefore' /\ StagesFit' /\ HistoryOnFile'
  BY <1>1, <1>3 DEF RegistryIInv, NoneBefore, StagesFit, HistoryOnFile
<1>7. ProcessesFit' /\ IdsKnown' /\ FreshAlone' /\ OwnersAlone'
  BY <1>3 DEF RegistryIInv, ProcessesFit, IdsKnown, FreshAlone, OwnersAlone
<1>8. AgentsKept' /\ MemoryKeeps'
  <2>1. \A b : KeptInMemory(b) => KeptInMemory(b)'
    BY <1>2, <1>3, <1>4 DEF KeptInMemory, OnRecord
  <2> QED
    BY <1>3, <1>4, <2>1 DEF RegistryIInv, AgentsKept, MemoryKeeps, OnItsWay
<1>9. EnteredKept' /\ RunningKept' /\ RunningOnFile'
  <2>1. \A w \in Wrappers : visit[w].op = "none"
    BY <1>2, NoVisitTyped, ManagerVisits DEF RegistryIInv, NoneBefore
  <2>2. EnteredKept'
    BY <1>3, <2>1 DEF EnteredKept
  <2>3. ASSUME NEW w \in Wrappers, wrapper[w].stage = "running",
               wrapper[w].id \notin overtaken \union dismissed
        PROVE  live'[wrapper[w].id] = w
    <3>1. live[wrapper[w].id] = w /\ wrapper[w].id \in AgentIds
      BY <2>3, RunningIds DEF RegistryIInv, RunningKept
    <3>2. wrapper[w].id # a
      BY <1>2, <2>3, <3>1
    <3> QED
      BY <1>4, <3>1, <3>2
  <2> QED
    BY <1>3, <2>2, <2>3 DEF RegistryIInv, RunningKept, RunningOnFile
<1> QED
  BY <1>5, <1>6, <1>7, <1>8, <1>9 DEF RegistryIInv

LEMMA ServeSound ==
    ASSUME RegistryIInv, Serve
    PROVE  RegistryIInv'
<1>1. /\ serving' = TRUE /\ liveFile' = live /\ ~serving
      /\ UNCHANGED <<live, past, pastFile, checkout, wrapper, visit, visits, usedIds, crashes, granted, overtaken, dismissed>>
  BY DEF Serve, GhostsSame
<1>2. RegistryTypeOK' /\ NoneBefore' /\ StagesFit' /\ HistoryOnFile'
  BY <1>1 DEF RegistryIInv, RegistryTypeOK, NoneBefore, StagesFit, HistoryOnFile
<1>3. ProcessesFit' /\ IdsKnown' /\ FreshAlone' /\ OwnersAlone'
  BY <1>1 DEF RegistryIInv, ProcessesFit, IdsKnown, FreshAlone, OwnersAlone
<1>4. AgentsKept' /\ MemoryKeeps'
  <2>1. \A u \in Visitors : visit[u].at = "none"
    BY <1>1, NoVisitTyped DEF RegistryIInv, NoneBefore
  <2> QED
    BY <1>1, <2>1 DEF RegistryIInv, AgentsKept, MemoryKeeps, KeptInMemory, OnItsWay, OnRecord
<1>5. EnteredKept' /\ RunningKept' /\ RunningOnFile'
  BY <1>1 DEF RegistryIInv, EnteredKept, RunningKept, RunningOnFile
<1> QED
  BY <1>2, <1>3, <1>4, <1>5 DEF RegistryIInv

LEMMA RegistryStutters ==
    ASSUME RegistryIInv, UNCHANGED registryVars
    PROVE  RegistryIInv'
<1>1. RegistryTypeOK' /\ NoneBefore' /\ StagesFit' /\ HistoryOnFile'
  BY DEF RegistryIInv, RegistryTypeOK, NoneBefore, StagesFit, HistoryOnFile, registryVars
<1>2. ProcessesFit' /\ IdsKnown' /\ FreshAlone' /\ OwnersAlone'
  BY DEF RegistryIInv, ProcessesFit, IdsKnown, FreshAlone, OwnersAlone, registryVars
<1>3. AgentsKept' /\ MemoryKeeps'
  BY DEF RegistryIInv, AgentsKept, MemoryKeeps, KeptInMemory, OnItsWay, OnRecord, registryVars
<1>4. EnteredKept' /\ RunningKept' /\ RunningOnFile'
  BY DEF RegistryIInv, EnteredKept, RunningKept, RunningOnFile, registryVars
<1> QED
  BY <1>1, <1>2, <1>3, <1>4 DEF RegistryIInv

LEMMA RegistryStarts == RegistryInit => RegistryIInv
<1> SUFFICES ASSUME RegistryInit PROVE RegistryIInv
  OBVIOUS
<1>1. /\ \A w \in Wrappers : wrapper[w].stage = "off" /\ wrapper[w].id = 0
      /\ \A v \in Visitors : visit[v] = NoVisit
      /\ granted = {} /\ usedIds = 0 /\ serving = TRUE /\ past = pastFile
  BY DEF RegistryInit, Away
<1>2. RegistryTypeOK
  BY Bounds, NoVisitTyped DEF RegistryInit, RegistryTypeOK, Registries, Away
<1>3. NoneBefore /\ StagesFit /\ HistoryOnFile
  BY <1>1, NoVisitTyped DEF NoneBefore, StagesFit, HistoryOnFile
<1>4. ProcessesFit /\ FreshAlone /\ OwnersAlone
  BY <1>1, NoVisitTyped, ManagerVisits DEF ProcessesFit, FreshAlone, OwnersAlone
<1>5. IdsKnown
  BY <1>1, NoVisitTyped DEF IdsKnown
<1>6. AgentsKept /\ MemoryKeeps /\ EnteredKept /\ RunningKept /\ RunningOnFile
  BY <1>1, NoVisitTyped, ManagerVisits
     DEF AgentsKept, MemoryKeeps, OnItsWay, EnteredKept, RunningKept, RunningOnFile
<1> QED
  BY <1>2, <1>3, <1>4, <1>5, <1>6 DEF RegistryIInv

-----------------------------------------------------------------------------
(* The theorems.                                                              *)

LEMMA RegistryStepSound ==
    ASSUME RegistryIInv, [RegistryNext]_registryVars
    PROVE  RegistryIInv'
BY DismissSound, CrashSound, RetireSound, ServeSound, EnrolSound, ResumeSound, AsksAgainSound,
   CountLiveSound, CreateWorktreeSound, LookUpSound, RecreateWorktreeSound, EnterSound,
   ExitSound, SaysGoodbyeSound, ReplaceSound, PopEntrySound, RecordCompletedSound,
   RemoveWorktreeSound, RegistryStutters
   DEF RegistryNext

\* The registry's inductive invariant: requests and processes fit together, an id in
\* use is one process's unless it may be dismissed, and no agent is between the
\* registry and the history but in a request that is moving it
\* (agents.py, routes/agents.py, agent_cli.py).
THEOREM RegistryCorrect == RegistrySpec => []RegistryIInv
<1>1. RegistryIInv /\ [RegistryNext]_registryVars => RegistryIInv'
  BY RegistryStepSound
<1> QED
  BY <1>1, RegistryStarts, PTL DEF RegistrySpec

\* An agent somebody was told about is in one of the two files a restart reads, at
\* every moment the server may die, but for one that another call's write of the
\* registry overlapped (_write_registry, record_completed_agent, prune_dead_agents).
THEOREM AgentsAlwaysKept == RegistrySpec => []AgentsKept
<1>1. RegistryIInv => AgentsKept
  BY DEF RegistryIInv
<1> QED
  BY <1>1, RegistryCorrect, PTL

\* A running agent keeps its worktree and its entry under its own process, over
\* restarts and prunes, unless somebody unregistered it or two calls overlapped.
THEOREM RunningAlwaysKept == RegistrySpec => []RunningKept
<1>1. RegistryIInv => RunningKept
  BY DEF RegistryIInv
<1> QED
  BY <1>1, RegistryCorrect, PTL

-----------------------------------------------------------------------------
(* The whole.                                                                 *)

\* Each part keeps its inductive invariant while it moves, for every instance: no step
\* of one part is in the way of another's.
THEOREM ServicesKeepSound == ServicesSpec => []ServicesSound
<1>1. ServicesInit => ServicesSound
  BY ClaimsInitSound, EventsInitSound, WorkInitSound, InitSound, RegistryStarts, NoticesInitSound
  DEF ServicesInit, ServicesSound, Scenes
<1>2. ServicesSound /\ [ServicesNext]_serviceVars => ServicesSound'
  <2> SUFFICES ASSUME ServicesSound, [ServicesNext]_serviceVars PROVE ServicesSound'
    OBVIOUS
  <2>0. scene' = scene
    BY DEF ServicesNext, serviceVars
  <2>1. CASE scene = "claims"
    <3>1. [ClaimsNext]_claimVars /\ ClaimsIInv
      BY <2>1 DEF ServicesNext, serviceVars, ServicesSound
    <3> QED BY <2>0, <2>1, <3>1, ClaimsStepSound DEF ServicesSound
  <2>2. CASE scene = "events"
    <3>1. [EventsNext]_eventVars /\ EventsIInv
      BY <2>2 DEF ServicesNext, serviceVars, ServicesSound
    <3> QED BY <2>0, <2>2, <3>1, EventsStepSound DEF ServicesSound
  <2>3. CASE scene = "work"
    <3>1. [WorkNext]_workVars /\ WorkIInv
      BY <2>3 DEF ServicesNext, serviceVars, ServicesSound
    <3> QED BY <2>0, <2>3, <3>1, WorkNextSound DEF ServicesSound
  <2>4. CASE scene = "records"
    <3>1. [RecordsNext]_recordVars /\ RecordsIInv
      BY <2>4 DEF ServicesNext, serviceVars, ServicesSound
    <3> QED BY <2>0, <2>4, <3>1, NextSound DEF ServicesSound
  <2>5. CASE scene = "registry"
    <3>1. [RegistryNext]_registryVars /\ RegistryIInv
      BY <2>5 DEF ServicesNext, serviceVars, ServicesSound
    <3> QED BY <2>0, <2>5, <3>1, RegistryStepSound DEF ServicesSound
  <2>6. CASE scene = "notices"
    <3>1. [NoticesNext]_noticeVars /\ NoticesIInv
      BY <2>6 DEF ServicesNext, serviceVars, ServicesSound
    <3> QED BY <2>0, <2>6, <3>1, NoticesStepSound DEF ServicesSound
  <2> QED BY <2>1, <2>2, <2>3, <2>4, <2>5, <2>6 DEF ServicesSound
<1> QED BY <1>1, <1>2, PTL DEF ServicesSpec
=============================================================================
