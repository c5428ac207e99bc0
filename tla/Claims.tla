------------------------------- MODULE Claims -------------------------------
(* Who may answer a message (the_lab/message_claims.py, change_claim, and the  *)
(* route POST /messages/{id}/claim): leases that expire, kept in one file that *)
(* is read, changed and replaced under a lock shared by threads and server     *)
(* processes.  A call reads the clock first and waits for the lock then.       *)
(* The composing module says which questions can be asked about.               *)
EXTENDS Integers

CONSTANTS
    Claimants,  \* agents that make claims
    Operator,   \* a caller with operator rights and no agent id
    Questions,  \* message ids
    Leases,     \* ?ttl_seconds= of the calls
    LastMoment  \* bound: the clock

ASSUME ClaimsAssumption ==
    /\ Operator \notin Claimants
    /\ Leases \subseteq Nat \ {0} /\ LastMoment \in Nat

VARIABLES
    record,    \* message_claims.json
    asking,    \* per caller, its call that waits for the lock
    told,      \* per claimant and question, the end of the lease it counts on
    time       \* the clock

claimVars == <<record, asking, told, time>>

ClaimCallers == Claimants \union {Operator}

Unclaimed == [status |-> "none", owner |-> Operator, expires |-> 0]

Idle == [action |-> "none", question |-> 0, lease |-> 0, now |-> 0]

ClaimRecords == [status: {"none", "active", "completed", "released"},
                 owner: ClaimCallers, expires: Nat]

ClaimCalls == [action: {"acquire", "renew", "release", "complete"}, question: Questions,
               lease: Leases, now: 0..LastMoment]

ClaimsTypeOK ==
    /\ record \in [Questions -> ClaimRecords]
    /\ asking \in [ClaimCallers -> ClaimCalls \union {Idle}]
    /\ told \in [Claimants -> [Questions -> Nat]]
    /\ time \in 0..LastMoment

ClaimsInit ==
    /\ record = [q \in Questions |-> Unclaimed]
    /\ asking = [p \in ClaimCallers |-> Idle]
    /\ told = [a \in Claimants |-> [q \in Questions |-> 0]]
    /\ time = 0

-----------------------------------------------------------------------------
\* Faulty: every claim runs out, a completed one at once.
VisibleUnexpired(r, now) == r.status # "released" /\ r.expires > now

\* _visible: what counts at a given time.
Visible(r, now) ==
    \/ r.status = "completed"
    \/ r.status = "active" /\ r.expires > now

\* A claimant that gives its claim up, or answers, no longer counts on it; one
\* that asks for another lease counts on the shorter of the two meanwhile.
CountsOn(p, q, action, lease) ==
    IF p = Operator THEN told
    ELSE [told EXCEPT ![p][q] =
            CASE action = "acquire" -> @
              [] action = "renew" -> IF @ <= time + lease THEN @ ELSE time + lease
              [] OTHER -> 0]

\* The call reads the clock.  Without an agent id an operator may only release.
Ask(p, q, action, lease) ==
    /\ asking[p] = Idle
    /\ p = Operator => action = "release"
    /\ asking' = [asking EXCEPT ![p] =
                    [action |-> action, question |-> q, lease |-> lease, now |-> time]]
    /\ told' = CountsOn(p, q, action, lease)
    /\ UNCHANGED <<record, time>>

Taken(p) ==
    LET c == asking[p] IN Visible(record[c.question], c.now)

Foreign(p) == Taken(p) /\ record[asking[p].question].owner # p

Answered(p) == asking' = [asking EXCEPT ![p] = Idle]

\* The claimant is told the end of the lease, 0 for none.
Told(p, until) ==
    told' = IF p = Operator THEN told
            ELSE [told EXCEPT ![p][asking[p].question] = until]

Settles(p, status, until) ==
    record' = [record EXCEPT ![asking[p].question] =
                 [status |-> status, owner |-> IF Taken(p) THEN @.owner ELSE p, expires |-> until]]

\* First owner wins.  A call about somebody else's claim changes nothing, nor one
\* about no claim, but for the first.
Refused(p) ==
    LET c == asking[p] IN
    /\ c # Idle
    /\ \/ Foreign(p) /\ (c.action # "release" \/ p # Operator)
       \/ ~Taken(p) /\ c.action # "acquire"
       \/ Taken(p) /\ c.action = "renew" /\ record[c.question].status = "completed"
    /\ Told(p, 0) /\ Answered(p)
    /\ UNCHANGED <<record, time>>

\* Faulty: the owner is told a new lease nobody has recorded.
KeptExtended(p) ==
    LET c == asking[p] IN
    /\ c.action = "acquire" /\ Taken(p) /\ ~Foreign(p)
    /\ Told(p, IF record[c.question].status = "active" THEN c.now + c.lease ELSE 0)
    /\ Answered(p)
    /\ UNCHANGED <<record, time>>

\* One's own claim again: the lease is not extended.
Kept(p) ==
    LET c == asking[p] IN
    /\ c.action = "acquire" /\ Taken(p) /\ ~Foreign(p)
    /\ Told(p, IF record[c.question].status = "active" THEN record[c.question].expires ELSE 0)
    /\ Answered(p)
    /\ UNCHANGED <<record, time>>

Leased(p) ==
    LET c == asking[p] IN
    /\ \/ c.action = "acquire" /\ ~Taken(p)
       \/ c.action = "renew" /\ Taken(p) /\ ~Foreign(p) /\ record[c.question].status = "active"
    /\ Settles(p, "active", c.now + c.lease)
    /\ Told(p, c.now + c.lease) /\ Answered(p)
    /\ UNCHANGED time

Completed(p) ==
    /\ asking[p].action = "complete" /\ Taken(p) /\ ~Foreign(p)
    /\ Settles(p, "completed", 0)
    /\ Told(p, 0) /\ Answered(p)
    /\ UNCHANGED time

\* The owner yields, or an operator overrules it; the owner then learns it from
\* the event that is broadcast.
Released(p) ==
    LET c == asking[p] IN
    /\ c.action = "release" /\ Taken(p) /\ (~Foreign(p) \/ p = Operator)
    /\ Settles(p, "released", 0)
    /\ told' = [a \in Claimants |->
                  IF a = record[c.question].owner THEN [told[a] EXCEPT ![c.question] = 0]
                  ELSE told[a]]
    /\ Answered(p)
    /\ UNCHANGED time

\* The call dies with its process or its file system before it changes the file,
\* or its answer is lost after it did.
Dies(p) ==
    /\ asking[p] # Idle
    /\ Answered(p)
    /\ UNCHANGED <<record, told, time>>

LeasedUnheard(p) ==
    LET c == asking[p] IN
    /\ \/ c.action = "acquire" /\ ~Taken(p)
       \/ c.action = "renew" /\ Taken(p) /\ ~Foreign(p) /\ record[c.question].status = "active"
    /\ Settles(p, "active", c.now + c.lease)
    /\ Answered(p)
    /\ UNCHANGED <<told, time>>

TimePasses ==
    /\ time < LastMoment /\ time' = time + 1
    /\ UNCHANGED <<record, asking, told>>

Decide(p) ==
    \/ Refused(p) \/ Kept(p) \/ Leased(p) \/ LeasedUnheard(p) \/ Completed(p) \/ Released(p)
    \/ Dies(p)

ClaimsNext ==
    \/ \E p \in ClaimCallers :
          \/ \E q \in Questions, lease \in Leases,
                action \in {"acquire", "renew", "release", "complete"} :
                Ask(p, q, action, lease)
          \/ Decide(p)
    \/ TimePasses

ClaimsSpec == ClaimsInit /\ [][ClaimsNext]_claimVars

-----------------------------------------------------------------------------
(* Properties.                                                                *)

\* Two agents never both count on answering the same message, and nobody counts
\* on it beside a completed answer of somebody else: whatever the order in which
\* calls read the clock and get the lock, expire, retry, die or are not heard.
OneAnswerer ==
    \A q \in Questions, a \in Claimants :
        told[a][q] > time =>
            /\ \A b \in Claimants \ {a} : told[b][q] <= time
            /\ record[q].status = "completed" => record[q].owner = a

\* A completed answer stays its owner's until it is released explicitly: it never
\* expires and is never claimed again.
AnswerKept ==
    [][\A q \in Questions :
          record[q].status = "completed" =>
             \/ record'[q].status = "released"
             \/ record'[q] = record[q]]_claimVars

\* A lease somebody counts on is in the file.
LeaseOnFile(a, q) ==
    record[q].status = "active" /\ record[q].owner = a /\ record[q].expires >= told[a][q]

LeasesOnFile == \A a \in Claimants, q \in Questions : told[a][q] > time => LeaseOnFile(a, q)

\* No call has read a time yet to come.
ClocksBehind == \A p \in ClaimCallers : asking[p] # Idle => asking[p].now <= time

\* One that renews counts on no more than it will be given at least.
RenewalsCautious ==
    \A a \in Claimants :
        asking[a].action = "renew" =>
            told[a][asking[a].question] <= asking[a].now + asking[a].lease

\* A completed answer has no end.
AnswersEndless == \A q \in Questions : record[q].status = "completed" => record[q].expires = 0

ClaimsIInv ==
    /\ ClaimsTypeOK
    /\ ClocksBehind
    /\ RenewalsCautious
    /\ LeasesOnFile
    /\ AnswersEndless
=============================================================================
