---------------------------- MODULE EventsProofs ----------------------------
(* Proofs about the event stream: what a dashboard misses is on its way to it. *)
EXTENDS Events, SequenceTheorems, WellFoundedInduction, NaturalsInduction, TLAPS

-----------------------------------------------------------------------------
(* Sequences of events whose numbers rise.                                    *)

Evs == [n: 1..MaxEvents, seq: 1..MaxEvents]

LEMMA EventNumbers ==
    /\ MaxEvents \in Nat /\ EventSeqs = Seq(Evs)
    /\ \A e \in Evs : e.n \in Int /\ e.seq \in Int /\ e.n >= 1 /\ e.seq >= 1
BY EventsAssumption DEF Evs, EventSeqs

LEMMA EarlierOrder ==
    ASSUME NEW e \in Evs, NEW f \in Evs, NEW g \in Evs
    PROVE  /\ Earlier(e, f) /\ Earlier(f, g) => Earlier(e, g)
           /\ ~Earlier(e, e)
           /\ ~(Earlier(e, f) /\ Earlier(f, e))
BY EventNumbers DEF Earlier

LEMMA RangeForm ==
    ASSUME NEW s \in Seq(Evs)
    PROVE  /\ Range(s) \subseteq Evs
           /\ \A k \in 1..Len(s) : s[k] \in Range(s)
           /\ \A e \in Range(s) : \E k \in 1..Len(s) : e = s[k]
           /\ s = << >> <=> Range(s) = {}
           /\ Ns(s) = {e.n : e \in Range(s)}
<1>1. DOMAIN s = 1..Len(s) /\ Len(s) \in Nat /\ \A k \in 1..Len(s) : s[k] \in Evs
  OBVIOUS
<1>2. Range(s) = {s[k] : k \in 1..Len(s)}
  BY <1>1 DEF Range
<1>3. s = << >> <=> Len(s) = 0
  OBVIOUS
<1>4. s = << >> <=> Range(s) = {}
  <2>1. CASE Len(s) = 0
    BY <1>2, <1>3, <2>1
  <2>2. CASE Len(s) # 0
    <3>1. 1 \in 1..Len(s)
      BY <1>1, <2>2
    <3> QED BY <1>2, <1>3, <2>2, <3>1
  <2> QED BY <2>1, <2>2
<1>5. Ns(s) = {e.n : e \in Range(s)}
  BY <1>1, <1>2 DEF Ns
<1> QED BY <1>1, <1>2, <1>4, <1>5

LEMMA RangeTail ==
    ASSUME NEW s \in Seq(Evs), s # << >>
    PROVE  /\ Head(s) \in Evs /\ Tail(s) \in Seq(Evs) /\ Len(Tail(s)) = Len(s) - 1
           /\ Head(s) = s[1]
           /\ \A k \in 1..Len(Tail(s)) : Tail(s)[k] = s[k + 1]
           /\ Range(s) = {Head(s)} \union Range(Tail(s))
           /\ Rises(s) => /\ Rises(Tail(s))
                          /\ \A e \in Range(Tail(s)) : Earlier(Head(s), e)
<1> DEFINE t == Tail(s)
<1>1. /\ Head(s) \in Evs /\ t \in Seq(Evs) /\ Len(t) = Len(s) - 1 /\ Head(s) = s[1]
      /\ \A k \in 1..Len(t) : t[k] = s[k + 1]
      /\ Len(s) \in Nat /\ Len(s) >= 1
  OBVIOUS
<1> HIDE DEF t
<1>2. Range(s) = {Head(s)} \union Range(t)
  <2>1. ASSUME NEW k \in 1..Len(s) PROVE s[k] \in {Head(s)} \union Range(t)
    <3>1. CASE k = 1
      BY <1>1, <3>1
    <3>2. CASE k # 1
      <4>1. k - 1 \in 1..Len(t) /\ t[k - 1] = s[k]
        BY <1>1, <3>2
      <4> QED BY <1>1, <4>1, RangeForm
    <3> QED BY <3>1, <3>2
  <2>2. ASSUME NEW k \in 1..Len(t) PROVE t[k] \in Range(s)
    <3>1. k + 1 \in 1..Len(s)
      BY <1>1
    <3> QED BY <1>1, <3>1, RangeForm
  <2>3. Head(s) \in Range(s)
    <3>1. 1 \in 1..Len(s)
      BY <1>1
    <3> QED BY <1>1, <3>1, RangeForm
  <2>4. Range(s) \subseteq {Head(s)} \union Range(t)
    BY <2>1, RangeForm
  <2>5. Range(t) \subseteq Range(s)
    BY <1>1, <2>2, RangeForm
  <2> QED BY <2>3, <2>4, <2>5
<1>3. ASSUME Rises(s) PROVE Rises(t) /\ \A e \in Range(t) : Earlier(Head(s), e)
  <2>1. \A j, k \in 1..Len(s) : j < k => Earlier(s[j], s[k])
    BY <1>3 DEF Rises
  <2>2. \A j, k \in 1..Len(t) : j < k => Earlier(t[j], t[k])
    BY <1>1, <2>1
  <2>3. \A k \in 1..Len(t) : Earlier(Head(s), t[k])
    BY <1>1, <2>1
  <2>4. Rises(t)
    BY <1>1, <2>2 DEF Rises
  <2> QED BY <1>1, <2>3, <2>4, RangeForm
<1> QED BY <1>1, <1>2, <1>3 DEF t

LEMMA RangeAppend ==
    ASSUME NEW s \in Seq(Evs), NEW e \in Evs
    PROVE  /\ Append(s, e) \in Seq(Evs) /\ Append(s, e) # << >>
           /\ Range(Append(s, e)) = Range(s) \union {e}
           /\ Rises(s) /\ (\A f \in Range(s) : Earlier(f, e)) => Rises(Append(s, e))
<1> DEFINE t == Append(s, e)
<1>1. /\ t \in Seq(Evs) /\ Len(t) = Len(s) + 1 /\ t[Len(s) + 1] = e
      /\ \A k \in 1..Len(s) : t[k] = s[k]
      /\ Len(s) \in Nat /\ t # << >>
  OBVIOUS
<1> HIDE DEF t
<1>2. \A k \in 1..Len(t) : k \in 1..Len(s) \/ k = Len(s) + 1
  BY <1>1
<1>3. \A k \in 1..Len(s) : k \in 1..Len(t)
  BY <1>1
<1>4. Len(s) + 1 \in 1..Len(t)
  BY <1>1
<1>5. Range(t) = Range(s) \union {e}
  <2>1. Range(t) \subseteq Range(s) \union {e}
    BY <1>1, <1>2, RangeForm
  <2>2. Range(s) \subseteq Range(t)
    BY <1>1, <1>3, RangeForm
  <2> QED BY <1>1, <1>4, <2>1, <2>2, RangeForm
<1>6. ASSUME Rises(s), \A f \in Range(s) : Earlier(f, e) PROVE Rises(t)
  <2>1. \A j, k \in 1..Len(s) : j < k => Earlier(s[j], s[k])
    BY <1>6 DEF Rises
  <2>2. \A j \in 1..Len(s) : Earlier(s[j], e)
    BY <1>6, RangeForm
  <2>3. ASSUME NEW j \in 1..Len(t), NEW k \in 1..Len(t), j < k PROVE Earlier(t[j], t[k])
    <3>1. j \in 1..Len(s)
      BY <1>1, <2>3
    <3> QED BY <1>1, <1>2, <2>1, <2>2, <2>3, <3>1
  <2> QED BY <1>1, <2>3 DEF Rises
<1> QED BY <1>1, <1>5, <1>6 DEF t

LEMMA RangeConcat ==
    ASSUME NEW s \in Seq(Evs), NEW t \in Seq(Evs)
    PROVE  /\ s \o t \in Seq(Evs)
           /\ Range(s \o t) = Range(s) \union Range(t)
           /\ Rises(s) /\ Rises(t) /\ Before(s, t) => Rises(s \o t)
<1> DEFINE u == s \o t
<1>1. /\ u \in Seq(Evs) /\ Len(u) = Len(s) + Len(t)
      /\ \A k \in 1..Len(s) : u[k] = s[k]
      /\ \A k \in 1..Len(t) : u[k + Len(s)] = t[k]
      /\ Len(s) \in Nat /\ Len(t) \in Nat
  OBVIOUS
<1> HIDE DEF u
<1>2. \A k \in 1..Len(u) :
         (k \in 1..Len(s) /\ u[k] = s[k]) \/ (k > Len(s) /\ k - Len(s) \in 1..Len(t) /\ u[k] = t[k - Len(s)])
  <2> TAKE k \in 1..Len(u)
  <2>1. CASE k <= Len(s)
    BY <1>1, <2>1
  <2>2. CASE k > Len(s)
    <3>1. k - Len(s) \in 1..Len(t) /\ (k - Len(s)) + Len(s) = k
      BY <1>1, <2>2
    <3> QED BY <1>1, <2>2, <3>1
  <2> QED BY <1>1, <2>1, <2>2
<1>3. Range(u) = Range(s) \union Range(t)
  <2>1. \A k \in 1..Len(u) : u[k] \in Range(s) \union Range(t)
    BY <1>2, RangeForm
  <2>2. \A k \in 1..Len(s) : s[k] \in Range(u)
    <3>1. \A k \in 1..Len(s) : k \in 1..Len(u)
      BY <1>1
    <3> QED BY <1>1, <3>1, RangeForm
  <2>3. \A k \in 1..Len(t) : t[k] \in Range(u)
    <3>1. \A k \in 1..Len(t) : k + Len(s) \in 1..Len(u)
      BY <1>1
    <3> QED BY <1>1, <3>1, RangeForm
  <2>4. Range(u) \subseteq Range(s) \union Range(t)
    BY <1>1, <2>1, RangeForm
  <2>5. Range(s) \subseteq Range(u)
    BY <2>2, RangeForm
  <2>6. Range(t) \subseteq Range(u)
    BY <2>3, RangeForm
  <2> QED BY <2>4, <2>5, <2>6
<1>4. ASSUME Rises(s), Rises(t), Before(s, t) PROVE Rises(u)
  <2>1. \A j, k \in 1..Len(s) : j < k => Earlier(s[j], s[k])
    BY <1>4 DEF Rises
  <2>2. \A j, k \in 1..Len(t) : j < k => Earlier(t[j], t[k])
    BY <1>4 DEF Rises
  <2>3. \A j \in 1..Len(s), k \in 1..Len(t) : Earlier(s[j], t[k])
    BY <1>4, RangeForm DEF Before
  <2>4. ASSUME NEW j \in 1..Len(u), NEW k \in 1..Len(u), j < k PROVE Earlier(u[j], u[k])
    <3>1. CASE j \in 1..Len(s) /\ k \in 1..Len(s)
      BY <1>1, <2>1, <2>4, <3>1
    <3>2. CASE j \in 1..Len(s) /\ ~(k \in 1..Len(s))
      BY <1>1, <1>2, <2>3, <3>2
    <3>3. CASE ~(j \in 1..Len(s)) /\ ~(k \in 1..Len(s))
      <4>1. j - Len(s) < k - Len(s)
        BY <1>1, <2>4
      <4> QED BY <1>2, <2>2, <3>3, <4>1
    <3>4. CASE ~(j \in 1..Len(s)) /\ k \in 1..Len(s)
      BY <1>1, <2>4, <3>4
    <3> QED BY <3>1, <3>2, <3>3, <3>4
  <2> QED BY <1>1, <2>4 DEF Rises
<1> QED BY <1>1, <1>3, <1>4 DEF u

LEMMA SubSeqForm ==
    ASSUME NEW s \in Seq(Evs), NEW m \in 1..Len(s)
    PROVE  LET t == SubSeq(s, m, Len(s)) IN
           /\ t \in Seq(Evs) /\ Len(t) = Len(s) - m + 1 /\ t # << >>
           /\ \A k \in 1..Len(t) : k + m - 1 \in 1..Len(s) /\ t[k] = s[k + m - 1]
           /\ EndsWith(s, t)
           /\ Range(t) = {s[k] : k \in m..Len(s)}
           /\ Rises(s) => Rises(t)
<1> DEFINE t == SubSeq(s, m, Len(s))
<1>1. /\ t \in Seq(Evs) /\ Len(t) = Len(s) - m + 1
      /\ \A k \in 1..Len(t) : k + m - 1 \in 1..Len(s) /\ t[k] = s[k + m - 1]
      /\ Len(s) \in Nat /\ m \in Nat
  OBVIOUS
<1> HIDE DEF t
<1>2. t # << >>
  BY <1>1
<1>3. EndsWith(s, t)
  <2>1. DOMAIN t = 1..Len(t)
    BY <1>1
  <2>2. Len(t) <= Len(s)
    BY <1>1
  <2>3. \A k \in 1..Len(t) : k + Len(s) - Len(t) = k + m - 1
    BY <1>1
  <2> QED BY <1>1, <2>1, <2>2, <2>3 DEF EndsWith
<1>4. Range(t) = {s[k] : k \in m..Len(s)}
  <2>1. \A k \in 1..Len(t) : k + m - 1 \in m..Len(s)
    BY <1>1
  <2>2. \A k \in m..Len(s) : k - m + 1 \in 1..Len(t) /\ (k - m + 1) + m - 1 = k
    BY <1>1
  <2>3. \A k \in m..Len(s) : s[k] = t[k - m + 1]
    BY <1>1, <2>2
  <2>4. Range(t) \subseteq {s[k] : k \in m..Len(s)}
    BY <1>1, <2>1, RangeForm
  <2>5. \A k \in m..Len(s) : s[k] \in Range(t)
    BY <1>1, <2>2, <2>3, RangeForm
  <2> QED BY <2>4, <2>5
<1>5. ASSUME Rises(s) PROVE Rises(t)
  <2>1. \A j, k \in 1..Len(s) : j < k => Earlier(s[j], s[k])
    BY <1>5 DEF Rises
  <2>2. ASSUME NEW j \in 1..Len(t), NEW k \in 1..Len(t), j < k PROVE Earlier(t[j], t[k])
    <3>1. j + m - 1 < k + m - 1
      BY <1>1, <2>2
    <3> QED BY <1>1, <2>1, <3>1
  <2> QED BY <1>1, <2>2 DEF Rises
<1> QED BY <1>1, <1>2, <1>3, <1>4, <1>5 DEF t

LEMMA LeastPlace ==
    ASSUME NEW S \in SUBSET Nat, S # {}
    PROVE  Min(S) \in S /\ \A y \in S : Min(S) <= y
<1> DEFINE R == OpToRel(<, Nat)
<1>1. \A p : p \in R <=> p \in Nat \X Nat /\ p[1] < p[2]
  BY DEF OpToRel
<1>2. IsWellFoundedOn(R, Nat)
  BY NatLessThanWellFounded
<1> HIDE DEF R
<1>3. PICK x \in S : \A y \in S : ~ (<<y, x>> \in R)
  BY <1>2, WFMin
<1>4. \A y \in S : ~(y < x)
  <2> TAKE y \in S
  <2>1. ~ (<<y, x>> \in R)
    BY <1>3
  <2>2. <<y, x>> \in Nat \X Nat /\ <<y, x>>[1] = y /\ <<y, x>>[2] = x
    OBVIOUS
  <2> QED BY <1>1, <2>1, <2>2
<1>5. \A y \in S : x <= y
  BY <1>4
<1> QED BY <1>5 DEF Min

\* The events above a number, which are the end of a sequence that rises.
LEMMA AfterForm ==
    ASSUME NEW s \in Seq(Evs), Rises(s), NEW c \in Int
    PROVE  /\ After(s, c) \in Seq(Evs) /\ Rises(After(s, c))
           /\ Range(After(s, c)) = {e \in Range(s) : e.seq > c}
<1> DEFINE above == {k \in DOMAIN s : s[k].seq > c}
           a == After(s, c)
<1>0. DOMAIN s = 1..Len(s) /\ Len(s) \in Nat
  OBVIOUS
<1>1. CASE above = {}
  <2>1. a = << >>
    BY <1>1 DEF After
  <2>2. {e \in Range(s) : e.seq > c} = {}
    BY <1>0, <1>1, RangeForm
  <2>3. << >> \in Seq(Evs) /\ Range(<< >>) = {} /\ Rises(<< >>)
    BY DEF Range, Rises
  <2> QED BY <2>1, <2>2, <2>3
<1>2. CASE above # {}
  <2> DEFINE m == Min(above)
  <2>1. above \in SUBSET Nat
    BY <1>0
  <2>2. m \in above /\ \A y \in above : m <= y
    <3> HIDE DEF above
    <3> QED BY <1>2, <2>1, LeastPlace
  <2>3. m \in 1..Len(s) /\ s[m].seq > c
    BY <1>0, <2>2
  <2>4. a = SubSeq(s, m, Len(s))
    BY <1>2 DEF After
  <2>5. \A k \in 1..Len(s) : s[k].seq > c => k \in m..Len(s)
    BY <1>0, <2>2, <2>3
  <2> HIDE DEF m, a
  <2>6. \A k \in m..Len(s) : k \in 1..Len(s) /\ s[k].seq > c
    <3> TAKE k \in m..Len(s)
    <3>1. k \in 1..Len(s) /\ (k = m \/ m < k)
      BY <1>0, <2>3
    <3>2. s[k].seq \in Int /\ s[m].seq \in Int
      BY <2>3, <3>1, EventNumbers
    <3>3. m < k => s[m].seq < s[k].seq
      BY <1>0, <2>3, <3>1 DEF Rises, Earlier
    <3> QED BY <2>3, <3>1, <3>2, <3>3
  <2>7. a \in Seq(Evs) /\ Rises(a) /\ Range(a) = {s[k] : k \in m..Len(s)}
    BY <2>3, <2>4, SubSeqForm
  <2>8. {s[k] : k \in m..Len(s)} = {e \in Range(s) : e.seq > c}
    BY <2>5, <2>6, RangeForm
  <2> QED BY <2>7, <2>8 DEF a
<1> QED BY <1>1, <1>2

LEMMA LastForm ==
    ASSUME NEW s \in Seq(Evs), s # << >>, Rises(s), NEW size \in Nat \ {0}
    PROVE  LET t == LastOf(s, size) IN
           /\ t \in Seq(Evs) /\ Len(t) <= size /\ t # << >> /\ Rises(t) /\ EndsWith(s, t)
           /\ Len(t) = IF Len(s) <= size THEN Len(s) ELSE size
           /\ Range(t) \subseteq Range(s)
           /\ \A e \in Range(s) : e.seq >= t[1].seq => e \in Range(t)
<1> DEFINE m == Max({1, Len(s) - size + 1})
           t == SubSeq(s, m, Len(s))
<1>1. m = IF Len(s) <= size THEN 1 ELSE Len(s) - size + 1
  <2> DEFINE l == Len(s) - size + 1
  <2>1. l \in Int /\ Len(s) \in Nat
    OBVIOUS
  <2>2. Max({1, l}) = IF l <= 1 THEN 1 ELSE l
    <3> HIDE DEF l
    <3> QED BY <2>1 DEF Max
  <2> QED BY <2>1, <2>2
<1> HIDE DEF m
<1>2. m \in 1..Len(s) /\ Len(s) \in Nat
  BY <1>1
<1>3. /\ t \in Seq(Evs) /\ Len(t) = Len(s) - m + 1 /\ t # << >>
      /\ \A k \in 1..Len(t) : k + m - 1 \in 1..Len(s) /\ t[k] = s[k + m - 1]
      /\ EndsWith(s, t) /\ Range(t) = {s[k] : k \in m..Len(s)} /\ Rises(t)
  BY <1>2, SubSeqForm
<1> HIDE DEF t
<1>4. t[1] = s[m]
  <2>1. 1 \in 1..Len(t) /\ 1 + m - 1 = m
    BY <1>2, <1>3
  <2> QED BY <1>3, <2>1
<1>5. Range(t) \subseteq Range(s)
  <2>1. \A k \in m..Len(s) : k \in 1..Len(s)
    BY <1>2
  <2> QED BY <1>3, <2>1, RangeForm
<1>6. ASSUME NEW k \in 1..Len(s), s[k].seq >= s[m].seq PROVE s[k] \in Range(t)
  <2>1. s[k].seq \in Int /\ s[m].seq \in Int
    BY <1>2, EventNumbers
  <2>2. k < m => s[k].seq < s[m].seq
    BY <1>2 DEF Rises, Earlier
  <2>3. k \in m..Len(s)
    BY <1>2, <1>6, <2>1, <2>2
  <2> QED BY <1>3, <2>3
<1>7. \A e \in Range(s) : e.seq >= t[1].seq => e \in Range(t)
  BY <1>4, <1>6, RangeForm
<1>8. Len(t) = IF Len(s) <= size THEN Len(s) ELSE size
  BY <1>1, <1>2, <1>3
<1>9. LastOf(s, size) = t
  BY DEF LastOf, t, m
<1> QED BY <1>3, <1>5, <1>7, <1>8, <1>9

LEMMA HighestForm ==
    ASSUME NEW s \in Seq(Evs), Rises(s), NEW c \in Int
    PROVE  /\ Highest(s, c) \in {c} \union {e.seq : e \in Range(s)}
           /\ Highest(s, c) \in Int /\ Highest(s, c) >= c
           /\ \A e \in Range(s) : Highest(s, c) >= e.seq
<1> DEFINE S == {c} \union {s[k].seq : k \in DOMAIN s}
<1>0. DOMAIN s = 1..Len(s) /\ Len(s) \in Nat
  OBVIOUS
<1>1. S \subseteq Int
  BY <1>0, EventNumbers
<1>2. \E x \in S : \A y \in S : x >= y
  <2>1. CASE s = << >>
    <3>1. S = {c}
      BY <2>1
    <3> HIDE DEF S
    <3> QED BY <3>1
  <2>2. CASE s # << >>
    <3> DEFINE l == s[Len(s)]
    <3>1. Len(s) \in 1..Len(s)
      BY <1>0, <2>2
    <3>2. l.seq \in Int
      BY <3>1, EventNumbers
    <3>3. \A k \in 1..Len(s) : s[k].seq <= l.seq
      <4> TAKE k \in 1..Len(s)
      <4>1. k = Len(s) \/ k < Len(s)
        <5> HIDE DEF l, S
        <5> DEFINE n == Len(s)
        <5>1. n \in Nat /\ k \in 1..n
          BY <1>0
        <5> HIDE DEF n
        <5>2. k = n \/ k < n
          BY <5>1
        <5> QED BY <5>2 DEF n
      <4>2. k < Len(s) => s[k].seq < l.seq
        BY <1>0, <3>1 DEF Rises, Earlier
      <4>3. s[k].seq \in Int
        BY EventNumbers
      <4> QED BY <3>2, <4>1, <4>2, <4>3
    <3>4. CASE c >= l.seq
      <4>1. \A k \in 1..Len(s) : c >= s[k].seq
        <5> TAKE k \in 1..Len(s)
        <5>1. s[k].seq \in Int
          BY EventNumbers
        <5> HIDE DEF l
        <5> QED BY <3>2, <3>3, <3>4, <5>1
      <4>2. \A y \in S : c >= y
        BY <1>0, <4>1
      <4> QED BY <4>2
    <3>5. CASE ~(c >= l.seq)
      <4>1. l.seq \in S
        BY <1>0, <3>1
      <4>2. l.seq >= c /\ \A k \in 1..Len(s) : l.seq >= s[k].seq
        <5>1. \A k \in 1..Len(s) : s[k].seq \in Int
          BY EventNumbers
        <5> HIDE DEF l
        <5> QED BY <3>2, <3>3, <3>5, <5>1
      <4>3. \A y \in S : l.seq >= y
        <5> HIDE DEF l
        <5> QED BY <1>0, <4>2
      <4> QED BY <4>1, <4>3
    <3> QED BY <3>4, <3>5
  <2> QED BY <2>1, <2>2
<1>3. Highest(s, c) \in S /\ \A y \in S : Highest(s, c) >= y
  <2>1. Highest(s, c) = Max(S)
    BY DEF Highest
  <2> HIDE DEF S
  <2> QED BY <1>2, <2>1 DEF Max
<1>4. \A x \in {s[k].seq : k \in DOMAIN s} : x \in {e.seq : e \in Range(s)}
  BY <1>0, RangeForm
<1>5. \A e \in Range(s) : e.seq \in S
  BY <1>0, RangeForm
<1> QED BY <1>1, <1>3, <1>4, <1>5

-----------------------------------------------------------------------------
(* What the invariant says, part by part.                                     *)

LEMMA EventsTyped ==
    ASSUME EventsTypeOK
    PROVE  /\ ring \in Seq(Evs) /\ unwritten \in Seq(Evs) /\ queue \in Seq(Evs)
           /\ journal.old \in Seq(Evs) /\ journal.current \in Seq(Evs)
           /\ link.snap \in Seq(Evs) /\ link.out \in Seq(Evs)
           /\ seqNo \in Int /\ happened \in Int /\ link.cursor \in Int /\ page.last \in Int
           /\ MaxEvents \in Int /\ Around \subseteq Evs /\ Logged \subseteq Evs
           /\ link.cursor >= 0 /\ page.last >= 0 /\ seqNo >= 0 /\ happened >= 0
<1>1. /\ ring \in Seq(Evs) /\ unwritten \in Seq(Evs) /\ queue \in Seq(Evs)
      /\ journal.old \in Seq(Evs) /\ journal.current \in Seq(Evs)
      /\ link.snap \in Seq(Evs) /\ link.out \in Seq(Evs)
  BY EventNumbers DEF EventsTypeOK
<1>2. /\ seqNo \in 0..MaxEvents /\ happened \in 0..MaxEvents /\ link.cursor \in 0..MaxEvents
      /\ page.last \in 0..MaxEvents
  BY DEF EventsTypeOK
<1>3. Logged \subseteq Evs
  BY <1>1, RangeForm DEF Logged
<1>4. Around \subseteq Evs
  BY <1>1, <1>3, RangeForm DEF Around
<1> QED BY <1>1, <1>2, <1>3, <1>4, EventNumbers

\* Of two events one is the earlier, by happening and by number.
LEMMA EventsApart ==
    ASSUME EventsTypeOK, StreamKept, NEW e \in Around, NEW f \in Around
    PROVE  /\ e.n < f.n => Earlier(e, f)
           /\ e.seq < f.seq => Earlier(e, f)
           /\ e.n = f.n => e = f
           /\ e.seq = f.seq => e = f
           /\ e = f \/ Earlier(e, f) \/ Earlier(f, e)
           /\ e.n \in Int /\ e.seq \in Int /\ f.n \in Int /\ f.seq \in Int
<1>1. e.n \in Int /\ e.seq \in Int /\ f.n \in Int /\ f.seq \in Int
  BY EventsTyped, EventNumbers
<1>2. e = f \/ Earlier(e, f) \/ Earlier(f, e)
  BY DEF StreamKept
<1> QED BY <1>1, <1>2 DEF Earlier

LEMMA LoggedAround == Logged \subseteq Around /\ Missing \subseteq Logged
BY DEF Around, Missing

LEMMA AroundParts ==
    /\ Range(ring) \subseteq Around /\ Range(queue) \subseteq Around
    /\ Range(link.snap) \subseteq Around /\ Range(link.out) \subseteq Around
    /\ Range(journal.old) \subseteq Logged /\ Range(journal.current) \subseteq Logged
    /\ Range(unwritten) \subseteq Logged
BY DEF Around, Logged

LEMMA AllRise ==
    ASSUME StreamKept
    PROVE  /\ Rises(journal.old) /\ Rises(journal.current) /\ Rises(unwritten) /\ Rises(ring)
           /\ Rises(queue) /\ Rises(link.snap) /\ Rises(link.out)
BY DEF StreamKept

\* What has happened and is not excused is in the log.
LEMMA NotLoggedExcused ==
    ASSUME Accounted, NEW n \in 1..happened, n \notin excused, n \notin page.got
    PROVE  \E e \in Missing : e.n = n
<1>1. PICK e \in Logged : e.n = n
  BY DEF Accounted
<1> QED BY <1>1 DEF Missing

\* A step of a reader leaves the stream as it is.
LEMMA StreamStands ==
    ASSUME EventsIInv, UNCHANGED <<ring, seqNo, unwritten, journal, happened>>,
           excused \subseteq excused',
           Range(queue') \subseteq Around, Range(link'.snap) \subseteq Around,
           Range(link'.out) \subseteq Around,
           Rises(queue'), Rises(link'.snap), Rises(link'.out)
    PROVE  /\ StreamKept' /\ RingKept' /\ Accounted'
           /\ Logged' = Logged /\ Around' \subseteq Around
<1>1. Logged' = Logged
  BY DEF Logged
<1>2. Around' \subseteq Around
  <2>1. Range(ring') = Range(ring) /\ Range(ring) \subseteq Around /\ Logged \subseteq Around
    BY AroundParts, LoggedAround
  <2> QED BY <1>1, <2>1 DEF Around
<1>3. StreamKept'
  <2>1. seqNo' <= happened' /\ \A e \in Around' : e.n <= happened' /\ e.seq <= seqNo'
    BY <1>2 DEF EventsIInv, StreamKept
  <2>2. \A e, f \in Around' : e = f \/ Earlier(e, f) \/ Earlier(f, e)
    BY <1>2 DEF EventsIInv, StreamKept
  <2>3. /\ Rises(journal'.old) /\ Rises(journal'.current) /\ Rises(unwritten') /\ Rises(ring')
        /\ Before(journal'.old, journal'.current)
        /\ Before(journal'.old, unwritten') /\ Before(journal'.current, unwritten')
    BY AllRise DEF EventsIInv, StreamKept
  <2> QED BY <2>1, <2>2, <2>3 DEF StreamKept
<1>4. RingKept'
  BY <1>1 DEF EventsIInv, RingKept
<1>5. Accounted'
  BY <1>1 DEF EventsIInv, Accounted
<1> QED BY <1>1, <1>2, <1>3, <1>4, <1>5

\* The dashboard gets nothing.
LEMMA PageStands ==
    ASSUME EventsIInv, UNCHANGED <<seqNo, happened, page>>, Logged' \subseteq Logged,
           excused \subseteq excused', troubles'.restarts = 0 => troubles.restarts = 0,
           link'.cursor <= page.last
    PROVE  PageKept' /\ Missing' \subseteq Missing
<1>1. Missing' \subseteq Missing
  BY DEF Missing
<1> QED BY <1>1 DEF EventsIInv, PageKept

\* The dashboard gets events, of those it misses none before one of them.
LEMMA PageGets ==
    ASSUME EventsIInv, UNCHANGED <<seqNo, happened, troubles, excused>>, Logged' = Logged,
           NEW S \in SUBSET Around,
           page'.got = page.got \union {e.n : e \in S},
           page'.last \in {page.last} \union {e.seq : e \in S},
           link'.cursor <= page'.last,
           \A e \in Missing, f \in S : e \in S \/ Earlier(f, e)
    PROVE  PageKept' /\ Missing' = Missing \ S
<1> USE DEF EventsIInv
<1>1. Missing \ S \subseteq Missing'
  <2> SUFFICES ASSUME NEW e \in Missing, e \notin S PROVE e \in Missing'
    OBVIOUS
  <2>1. e \in Logged /\ e.n \notin page.got /\ e.n \notin excused
    BY DEF Missing
  <2>2. \A f \in S : f.n # e.n
    <3> TAKE f \in S
    <3>1. e \in Around /\ f \in Around
      BY <2>1, LoggedAround
    <3> QED BY <3>1, EventsApart
  <2> QED BY <2>1, <2>2 DEF Missing
<1>2. Missing' \subseteq Missing \ S
  BY DEF Missing
<1>3. page'.got \subseteq 1..happened
  <2>1. page.got \subseteq 1..happened
    BY DEF PageKept
  <2>2. \A e \in S : e.n \in 1..happened
    <3> TAKE e \in S
    <3>1. e \in Evs
      BY EventsTyped
    <3>2. e.n <= happened
      BY DEF StreamKept
    <3> QED BY <3>1, <3>2, EventNumbers, EventsTyped
  <2> QED BY <2>1, <2>2
<1>4. troubles.restarts = 0 => page'.last <= seqNo
  BY DEF PageKept, StreamKept
<1>5. ASSUME NEW e \in Missing' PROVE e.seq > page'.last
  <2>1. e \in Missing /\ e \notin S
    BY <1>2, <1>5
  <2>2. e.seq > page.last
    BY <2>1 DEF PageKept
  <2>3. \A f \in S : e.seq > f.seq
    <3> TAKE f \in S
    <3>1. Earlier(f, e)
      BY <2>1
    <3>2. e.seq \in Int /\ f.seq \in Int
      BY <2>1, LoggedAround, EventsApart
    <3> QED BY <3>1, <3>2 DEF Earlier
  <2> QED BY <2>2, <2>3
<1>6. ASSUME NEW n \in 1..happened, NEW later \in page'.got, later > n
      PROVE  n \in page'.got \union excused
  <2>1. CASE later \in page.got
    BY <1>6, <2>1 DEF PageKept
  <2>2. CASE later \notin page.got
    <3>1. PICK f \in S : later = f.n
      BY <2>2
    <3>2. ASSUME n \notin page'.got, n \notin excused PROVE FALSE
      <4>1. PICK e \in Missing : e.n = n
        BY <3>2, NotLoggedExcused
      <4>2. e \notin S
        BY <3>2, <4>1
      <4>3. Earlier(f, e)
        BY <4>2
      <4>4. f.n \in Int /\ e.n \in Int
        BY LoggedAround, EventsApart
      <4> QED BY <1>6, <3>1, <4>1, <4>3, <4>4 DEF Earlier
    <3> QED BY <3>2
  <2> QED BY <2>1, <2>2
<1>7. PageKept'
  BY <1>3, <1>4, <1>5, <1>6 DEF PageKept
<1> QED BY <1>1, <1>2, <1>7

-----------------------------------------------------------------------------
(* The readers' steps.                                                        *)

Links == [by: {"none", "socket", "poll"},
          stage: {"off", "ring", "read", "send", "live", "answer"},
          cursor: 0..MaxEvents, snap: EventSeqs, files: FileLists, out: EventSeqs]
Pages == [last: 0..MaxEvents, got: SUBSET (1..MaxEvents)]
Troubles == [restarts: 0..MaxRestarts, drops: 0..MaxFailures, writes: 0..MaxFailures]

LEMMA EmptyForm == << >> \in Seq(Evs) /\ << >> \in EventSeqs /\ Range(<< >>) = {} /\ Rises(<< >>)
BY EventNumbers DEF Range, Rises

LEMMA OneForm ==
    ASSUME NEW e \in Evs
    PROVE  <<e>> \in Seq(Evs) /\ Range(<<e>>) = {e} /\ Rises(<<e>>) /\ Ns(<<e>>) = {e.n}
<1>1. <<e>> \in Seq(Evs) /\ DOMAIN <<e>> = {1} /\ <<e>>[1] = e
  OBVIOUS
<1>2. \A j, k \in {1} : ~(j < k)
  OBVIOUS
<1> QED BY <1>1, <1>2 DEF Range, Rises, Ns

LEMMA BeforeOne ==
    ASSUME NEW s \in Seq(Evs), NEW e \in Evs
    PROVE  Before(s, <<e>>) <=> \A f \in Range(s) : Earlier(f, e)
BY OneForm DEF Before

LEMMA TypedParts ==
    EventsTypeOK <=>
      /\ ring \in Seq(Evs) /\ unwritten \in Seq(Evs) /\ queue \in Seq(Evs)
      /\ journal \in [old: EventSeqs, current: EventSeqs]
      /\ Len(ring) <= RingSize /\ Len(queue) <= QueueMax /\ Len(journal.current) <= FileMax
      /\ seqNo \in 0..MaxEvents /\ happened \in 0..MaxEvents /\ excused \subseteq 1..MaxEvents
      /\ link \in Links /\ page \in Pages /\ troubles \in Troubles
BY EventNumbers DEF EventsTypeOK, Links, Pages, Troubles

LEMMA OffForm ==
    /\ Off \in Links /\ Off.snap = << >> /\ Off.out = << >> /\ Off.stage = "off" /\ Off.cursor = 0
<1>1. 0 \in 0..MaxEvents
  BY EventNumbers
<1> QED BY <1>1, EmptyForm DEF Off, Links, FileLists

LEMMA LinkParts ==
    ASSUME NEW l \in Links
    PROVE  /\ l.snap \in Seq(Evs) /\ l.out \in Seq(Evs) /\ l.cursor \in Int /\ l.files \in FileLists
           /\ l.cursor \in 0..MaxEvents /\ l.cursor >= 0
           /\ l.stage \in {"off", "ring", "read", "send", "live", "answer"}
BY EventNumbers DEF Links

LEMMA ReaderTyped ==
    ASSUME EventsTypeOK, UNCHANGED <<ring, seqNo, unwritten, journal, happened>>,
           queue' \in Seq(Evs), Len(queue') <= QueueMax, excused' \subseteq 1..MaxEvents,
           link' \in Links, page' \in Pages, troubles' \in Troubles
    PROVE  EventsTypeOK'
<1>1. /\ ring' \in Seq(Evs) /\ unwritten' \in Seq(Evs)
      /\ journal' \in [old: EventSeqs, current: EventSeqs]
      /\ Len(ring') <= RingSize /\ Len(journal'.current) <= FileMax
      /\ seqNo' \in 0..MaxEvents /\ happened' \in 0..MaxEvents
  BY TypedParts
<1> QED BY <1>1, EventNumbers DEF EventsTypeOK, Links, Pages, Troubles

LEMMA EmptyQueue == Len(<< >>) <= QueueMax /\ Len(<< >>) = 0
BY EventsAssumption

\* A step after which there is no connection, and nothing new got.
LEMMA ClosedSound ==
    ASSUME EventsIInv, UNCHANGED <<ring, seqNo, unwritten, journal, happened, excused>>,
           link' = Off, queue' = << >>, PageKept', EventsTypeOK'
    PROVE  EventsIInv'
<1>1. StreamKept' /\ RingKept' /\ Accounted'
  BY StreamStands, OffForm, EmptyForm
<1>2. ToCome'
  BY OffForm DEF ToCome
<1> QED BY <1>1, <1>2 DEF EventsIInv

LEMMA DropSound == EventsIInv /\ Drop => EventsIInv'
<1> SUFFICES ASSUME EventsIInv, Drop PROVE EventsIInv'
  OBVIOUS
<1>1. EventsTypeOK /\ troubles \in Troubles /\ page \in Pages /\ excused \subseteq 1..MaxEvents
  BY TypedParts DEF EventsIInv
<1>2. /\ UNCHANGED <<ring, seqNo, unwritten, journal, page, happened, excused>>
      /\ link' = Off /\ queue' = << >> /\ troubles.drops < MaxFailures
      /\ troubles' = [troubles EXCEPT !.drops = @ + 1]
  BY DEF Drop
<1>3. troubles' \in Troubles /\ troubles'.restarts = troubles.restarts
  BY <1>1, <1>2, EventsAssumption DEF Troubles
<1>4. EventsTypeOK'
  BY <1>1, <1>2, <1>3, ReaderTyped, OffForm, EmptyQueue, EmptyForm
<1>5. Logged' = Logged
  BY <1>2 DEF Logged
<1>6. page.last >= 0
  BY <1>1, EventsTyped
<1>7. PageKept'
  BY <1>2, <1>3, <1>5, <1>6, PageStands, OffForm
<1> QED BY <1>2, <1>4, <1>7, ClosedSound

LEMMA OpenPollSound == EventsIInv /\ (Open \/ Poll) => EventsIInv'
<1> SUFFICES ASSUME EventsIInv, Open \/ Poll PROVE EventsIInv'
  OBVIOUS
<1>1. EventsTypeOK /\ troubles \in Troubles /\ page \in Pages /\ excused \subseteq 1..MaxEvents
  BY TypedParts DEF EventsIInv
<1>2. /\ UNCHANGED <<ring, seqNo, unwritten, journal, page, happened, troubles>> /\ queue' = << >>
  BY DEF Open, Poll, Quiet
<1>3. page.last >= 0 /\ page.last \in 0..MaxEvents /\ ring \in EventSeqs /\ 0 \in 0..MaxEvents
         /\ happened \in 0..MaxEvents
  BY <1>1, EventsTyped, EventNumbers DEF Pages, EventsTypeOK
<1>4. Logged' = Logged
  BY <1>2 DEF Logged
<1>5. CASE link'.out = << >> /\ link'.stage = "ring" /\ link'.cursor = page.last /\ link'.snap = << >>
             /\ link' \in Links /\ UNCHANGED excused
  <2>1. EventsTypeOK'
    BY <1>1, <1>2, <1>5, ReaderTyped, EmptyQueue, EmptyForm
  <2>2. StreamKept' /\ RingKept' /\ Accounted'
    BY <1>2, <1>5, StreamStands, EmptyForm
  <2>3. PageKept'
    BY <1>2, <1>3, <1>4, <1>5, <1>1, EventsTyped, PageStands
  <2>4. ToCome'
    BY <1>5 DEF ToCome
  <2> QED BY <2>1, <2>2, <2>3, <2>4 DEF EventsIInv
<1>6. CASE /\ page.last = 0 /\ link' = [Off EXCEPT !.by = "socket", !.stage = "send", !.out = ring]
           /\ excused' = excused \union (1..happened \ Ns(ring))
  <2>1. /\ link' \in Links /\ link'.out = ring /\ link'.snap = << >> /\ link'.stage = "send"
        /\ link'.cursor = 0
    BY <1>3, <1>6, OffForm DEF Off, Links, FileLists
  <2>2. excused' \subseteq 1..MaxEvents /\ excused \subseteq excused'
    <3>1. 1..happened \subseteq 1..MaxEvents
      BY <1>3, EventNumbers
    <3> QED BY <1>1, <1>6, <3>1
  <2>3. EventsTypeOK'
    BY <1>1, <1>2, <2>1, <2>2, ReaderTyped, EmptyQueue, EmptyForm
  <2>4. StreamKept' /\ RingKept' /\ Accounted'
    <3>1. Rises(ring) /\ Range(ring) \subseteq Around
      BY AllRise, AroundParts DEF EventsIInv
    <3> QED BY <1>2, <2>1, <2>2, <3>1, StreamStands, EmptyForm
  <2>5. PageKept' /\ Missing' \subseteq Missing
    BY <1>2, <1>3, <1>4, <2>1, <2>2, PageStands
  <2>6. \A e \in Missing' : e \in Range(ring)
    <3> TAKE e \in Missing'
    <3>1. e \in Logged /\ e.n \notin excused' /\ e \in Around
      BY <2>5, LoggedAround DEF Missing
    <3>2. e.n \in 1..happened
      <4>1. e \in Evs /\ e.n <= happened
        BY <1>1, <3>1, EventsTyped DEF EventsIInv, StreamKept
      <4> QED BY <1>1, <4>1, EventNumbers, EventsTyped
    <3>3. e.n \in Ns(ring)
      BY <1>6, <3>1, <3>2
    <3>4. PICK f \in Range(ring) : f.n = e.n
      <4>1. Ns(ring) = {f.n : f \in Range(ring)}
        BY <1>1, RangeForm, EventsTyped
      <4> QED BY <3>3, <4>1
    <3>5. f \in Around
      BY AroundParts
    <3> QED BY <1>1, <3>1, <3>4, <3>5, EventsApart DEF EventsIInv
  <2>7. ToCome'
    BY <2>1, <2>6 DEF ToCome
  <2> QED BY <2>3, <2>4, <2>5, <2>7 DEF EventsIInv
<1>7. CASE Poll
  <2>1. link' = [Off EXCEPT !.by = "poll", !.stage = "ring", !.cursor = page.last] /\ UNCHANGED excused
    BY <1>7 DEF Poll
  <2>2. link'.out = << >> /\ link'.stage = "ring" /\ link'.cursor = page.last /\ link'.snap = << >>
             /\ link' \in Links
    BY <1>3, <2>1, OffForm DEF Off, Links
  <2> QED BY <1>5, <2>1, <2>2
<1>8. CASE Open /\ page.last # 0
  <2>1. link' = [Off EXCEPT !.by = "socket", !.stage = "ring", !.cursor = page.last] /\ UNCHANGED excused
    BY <1>8 DEF Open
  <2>2. link'.out = << >> /\ link'.stage = "ring" /\ link'.cursor = page.last /\ link'.snap = << >>
             /\ link' \in Links
    BY <1>3, <2>1, OffForm DEF Off, Links
  <2> QED BY <1>5, <2>1, <2>2
<1>9. CASE Open /\ page.last = 0
  BY <1>6, <1>9 DEF Open
<1> QED BY <1>7, <1>8, <1>9

LEMMA SendFromSound ==
    ASSUME EventsIInv, Quiet, UNCHANGED excused,
           NEW s \in Seq(Evs), s # << >>, Range(s) \subseteq Around, Rises(s),
           \A e \in Missing : e \in Range(s) \/ \A f \in Range(s) : Earlier(f, e),
           NEW rest \in Links, rest.cursor = link.cursor, SendFrom(s, rest)
    PROVE  /\ PageKept' /\ Missing' \subseteq Missing \ {Head(s)}
           /\ link' \in Links /\ link'.stage = rest.stage /\ link'.out = rest.out
           /\ link'.snap = rest.snap /\ page' \in Pages
<1> DEFINE e == Head(s)
<1>1. /\ e \in Evs /\ e \in Around
      /\ \A f \in Range(s) : f = e \/ Earlier(e, f)
      /\ e \in Range(s)
  BY RangeTail
<1>2. EventsTypeOK /\ page \in Pages /\ link \in Links
  BY TypedParts DEF EventsIInv
<1>3. UNCHANGED <<ring, seqNo, unwritten, journal, happened, troubles>> /\ Logged' = Logged
  BY DEF Quiet, Logged
<1>4. e.seq \in 1..MaxEvents /\ e.n \in 1..MaxEvents /\ e.seq \in Int
  BY <1>1, EventNumbers DEF Evs
<1> HIDE DEF e
<1>5. CASE e.seq > link.cursor
  <2>1. link' = [rest EXCEPT !.cursor = e.seq] /\ page' = Gets(<<e>>)
    BY <1>5 DEF SendFrom, e
  <2>2. link' \in Links /\ link'.stage = rest.stage /\ link'.out = rest.out /\ link'.snap = rest.snap
          /\ link'.cursor = e.seq
    BY <1>4, <2>1 DEF Links
  <2>3. /\ Highest(<<e>>, page.last) \in {page.last} \union {f.seq : f \in {e}}
        /\ Highest(<<e>>, page.last) >= e.seq
    BY <1>1, <1>2, EventsTyped, OneForm, HighestForm
  <2>4. page'.last = Highest(<<e>>, page.last) /\ page'.got = page.got \union {f.n : f \in {e}}
    BY <1>1, <2>1, OneForm DEF Gets
  <2>5. page' \in Pages
    BY <1>2, <1>4, <2>1, <2>3, <2>4 DEF Pages, Gets
  <2>6. \A f \in Missing, g \in {e} : f \in {e} \/ Earlier(g, f)
    BY <1>1
  <2>7. PageKept' /\ Missing' = Missing \ {e}
    BY <1>1, <1>3, <2>2, <2>3, <2>4, <2>6, PageGets
  <2> QED BY <2>2, <2>5, <2>7 DEF e
<1>6. CASE ~(e.seq > link.cursor)
  <2>1. link' = rest /\ page' = page
    BY <1>6 DEF SendFrom, e
  <2>2. link.cursor <= page.last /\ \A f \in Missing : f.seq > page.last
    BY DEF EventsIInv, PageKept
  <2>3. e \notin Missing
    BY <1>2, <1>4, <1>6, <2>2, EventsTyped
  <2>4. PageKept' /\ Missing' \subseteq Missing
    BY <1>3, <2>1, <2>2, PageStands
  <2> QED BY <1>2, <2>1, <2>3, <2>4 DEF e
<1> QED BY <1>5, <1>6

LEMMA SendReplaySound == EventsIInv /\ SendReplay => EventsIInv'
<1> SUFFICES ASSUME EventsIInv, SendReplay PROVE EventsIInv'
  OBVIOUS
<1>1. /\ EventsTypeOK /\ troubles \in Troubles /\ page \in Pages /\ excused \subseteq 1..MaxEvents
      /\ link \in Links /\ queue \in Seq(Evs) /\ Len(queue) <= QueueMax
  BY TypedParts DEF EventsIInv
<1>2. /\ UNCHANGED <<ring, seqNo, unwritten, journal, happened, troubles, queue, excused>> /\ Quiet
      /\ link.stage = "send"
  BY DEF SendReplay, Quiet
<1>3. Logged' = Logged
  BY <1>2 DEF Logged
<1>4. /\ link.out \in Seq(Evs) /\ link.snap \in Seq(Evs) /\ Rises(link.out) /\ Rises(link.snap) /\ Rises(queue)
      /\ Range(link.out) \subseteq Around /\ Range(link.snap) \subseteq Around /\ Range(queue) \subseteq Around
  BY <1>1, EventsTyped, AllRise, AroundParts DEF EventsIInv
<1>5. \A e \in Missing :
         e \in Range(link.out) \/ (e \in Range(queue) /\ \A f \in Range(link.out) : Earlier(f, e))
  <2>1. Missing \subseteq Evs
    BY <1>1, EventsTyped, LoggedAround
  <2> QED BY <1>2, <1>4, <2>1, BeforeOne DEF EventsIInv, ToCome
<1>6. CASE link.out = << >>
  <2>1. link' = [link EXCEPT !.stage = "live"] /\ page' = page
    BY <1>6 DEF SendReplay
  <2>2. /\ link' \in Links /\ link'.snap = link.snap /\ link'.out = link.out /\ link'.stage = "live"
        /\ link'.cursor = link.cursor
    BY <1>1, <2>1 DEF Links
  <2>3. EventsTypeOK'
    BY <1>1, <1>2, <2>1, <2>2, ReaderTyped
  <2>4. StreamKept' /\ RingKept' /\ Accounted'
    BY <1>2, <1>4, <2>2, StreamStands
  <2>5. PageKept' /\ Missing' \subseteq Missing
    BY <1>2, <1>3, <2>1, <2>2, PageStands DEF EventsIInv, PageKept
  <2>6. Missing' \subseteq Range(queue)
    BY <1>5, <1>6, <2>5, EmptyForm
  <2>7. ToCome'
    BY <1>2, <2>2, <2>6 DEF ToCome
  <2> QED BY <2>3, <2>4, <2>5, <2>7 DEF EventsIInv
<1>7. CASE link.out # << >>
  <2> DEFINE rest == [link EXCEPT !.out = Tail(@)]
  <2>1. /\ Head(link.out) \in Evs /\ Tail(link.out) \in Seq(Evs)
        /\ Range(link.out) = {Head(link.out)} \union Range(Tail(link.out)) /\ Rises(Tail(link.out))
    BY <1>4, <1>7, RangeTail
  <2>2. /\ rest \in Links /\ rest.cursor = link.cursor /\ rest.stage = "send"
        /\ rest.out = Tail(link.out) /\ rest.snap = link.snap
    BY <1>1, <1>2, <2>1, EventNumbers DEF Links
  <2>3. SendFrom(link.out, rest)
    BY <1>7 DEF SendReplay
  <2> HIDE DEF rest
  <2>4. /\ PageKept' /\ Missing' \subseteq Missing \ {Head(link.out)}
        /\ link' \in Links /\ link'.stage = "send" /\ link'.out = Tail(link.out)
        /\ link'.snap = link.snap /\ page' \in Pages
    BY <1>2, <1>4, <1>5, <1>7, <2>2, <2>3, SendFromSound
  <2>5. EventsTypeOK'
    BY <1>1, <1>2, <2>4, ReaderTyped
  <2>6. StreamKept' /\ RingKept' /\ Accounted'
    BY <1>2, <1>4, <2>1, <2>4, StreamStands
  <2>7. \A e \in Missing' :
           e \in Range(link'.out) \/ (e \in Range(queue) /\ Before(link'.out, <<e>>))
    <3> TAKE e \in Missing'
    <3>1. e \in Missing /\ e # Head(link.out) /\ e \in Evs
      BY <1>1, <2>4, EventsTyped, LoggedAround
    <3>2. CASE e \in Range(link.out)
      BY <2>1, <2>4, <3>1, <3>2
    <3>3. CASE e \in Range(queue) /\ \A f \in Range(link.out) : Earlier(f, e)
      BY <2>1, <2>4, <3>1, <3>3, BeforeOne
    <3> QED BY <1>5, <3>1, <3>2, <3>3
  <2>8. ToCome'
    BY <1>2, <2>4, <2>7 DEF ToCome
  <2> QED BY <2>4, <2>5, <2>6, <2>8 DEF EventsIInv
<1> QED BY <1>6, <1>7

LEMMA SendLiveSound == EventsIInv /\ SendLive => EventsIInv'
<1> SUFFICES ASSUME EventsIInv, SendLive PROVE EventsIInv'
  OBVIOUS
<1>1. /\ EventsTypeOK /\ troubles \in Troubles /\ page \in Pages /\ excused \subseteq 1..MaxEvents
      /\ link \in Links /\ queue \in Seq(Evs) /\ Len(queue) <= QueueMax
  BY TypedParts DEF EventsIInv
<1>2. /\ UNCHANGED <<ring, seqNo, unwritten, journal, happened, troubles, excused>> /\ Quiet
      /\ link.stage = "live" /\ queue # << >> /\ SendFrom(queue, link) /\ queue' = Tail(queue)
  BY DEF SendLive, Quiet
<1>3. /\ Rises(link.out) /\ Rises(link.snap) /\ Rises(queue) /\ Missing \subseteq Range(queue)
      /\ Range(link.out) \subseteq Around /\ Range(link.snap) \subseteq Around /\ Range(queue) \subseteq Around
  BY <1>2, AllRise, AroundParts DEF EventsIInv, ToCome
<1>4. /\ Tail(queue) \in Seq(Evs) /\ Len(Tail(queue)) = Len(queue) - 1
      /\ Range(queue) = {Head(queue)} \union Range(Tail(queue)) /\ Rises(Tail(queue))
  BY <1>1, <1>2, <1>3, RangeTail
<1>5. /\ PageKept' /\ Missing' \subseteq Missing \ {Head(queue)}
      /\ link' \in Links /\ link'.stage = link.stage /\ link'.out = link.out
      /\ link'.snap = link.snap /\ page' \in Pages
  <2>1. \A e \in Missing : e \in Range(queue) \/ \A f \in Range(queue) : Earlier(f, e)
    BY <1>3
  <2> QED BY <1>1, <1>2, <1>3, <2>1, SendFromSound
<1>6. Len(queue') <= QueueMax
  BY <1>1, <1>2, <1>4, EventsAssumption
<1>7. EventsTypeOK'
  BY <1>1, <1>2, <1>4, <1>5, <1>6, ReaderTyped
<1>8. StreamKept' /\ RingKept' /\ Accounted'
  BY <1>2, <1>3, <1>4, <1>5, StreamStands
<1>9. ToCome'
  BY <1>2, <1>3, <1>4, <1>5 DEF ToCome
<1> QED BY <1>5, <1>7, <1>8, <1>9 DEF EventsIInv

-----------------------------------------------------------------------------
(* The replay is put together.                                                *)

\* The first event of a sequence that rises is the least.
LEMMA FirstLeast ==
    ASSUME NEW s \in Seq(Evs), s # << >>, Rises(s)
    PROVE  s[1] \in Range(s) /\ \A e \in Range(s) : e = s[1] \/ Earlier(s[1], e)
BY RangeTail

\* What a sequence ends with is in it.
LEMMA EndIn ==
    ASSUME NEW s \in Seq(Evs), NEW t \in Seq(Evs), EndsWith(s, t)
    PROVE  Range(t) \subseteq Range(s)
<1> DEFINE m == Len(s)
           n == Len(t)
<1>1. m \in Nat /\ n \in Nat /\ DOMAIN t = 1..n
  OBVIOUS
<1>2. n <= m /\ \A k \in 1..n : t[k] = s[k + m - n]
  BY <1>1 DEF EndsWith
<1>3. \A k \in 1..n : k + m - n \in 1..m
  <2> HIDE DEF m, n
  <2> QED BY <1>1, <1>2
<1>4. \A k \in 1..n : t[k] \in Range(s)
  BY <1>2, <1>3, RangeForm
<1> QED BY <1>4, RangeForm

\* The last event of a sequence that rises is the latest.
LEMMA LastLatest ==
    ASSUME NEW s \in Seq(Evs), s # << >>, Rises(s)
    PROVE  /\ Last(s) \in Range(s)
           /\ \A e \in Range(s) : e = Last(s) \/ Earlier(e, Last(s))
<1> DEFINE n == Len(s)
<1>1. n \in Nat /\ n >= 1 /\ n \in 1..n /\ Last(s) = s[n] /\ DOMAIN s = 1..n
  BY DEF Last
<1>2. \A k \in 1..n : k = n \/ k < n
  <2> HIDE DEF n
  <2> QED BY <1>1
<1>3. \A k \in 1..n : s[k] = s[n] \/ Earlier(s[k], s[n])
  BY <1>1, <1>2 DEF Rises
<1> QED BY <1>1, <1>3, RangeForm

\* A step of the replay: the stream, the queue and the dashboard stay.
LEMMA ReplayStands ==
    ASSUME EventsIInv, Quiet, UNCHANGED <<queue, page, excused>>,
           link' \in Links, link'.cursor = link.cursor,
           Range(link'.snap) \subseteq Around, Range(link'.out) \subseteq Around,
           Rises(link'.snap), Rises(link'.out), ToCome'
    PROVE  EventsIInv'
<1>1. /\ EventsTypeOK /\ troubles \in Troubles /\ page \in Pages /\ excused \subseteq 1..MaxEvents
      /\ queue \in Seq(Evs) /\ Len(queue) <= QueueMax /\ Rises(queue)
  BY TypedParts, AllRise DEF EventsIInv
<1>2. UNCHANGED <<ring, seqNo, unwritten, journal, happened, troubles>> /\ Logged' = Logged
  BY DEF Quiet, Logged
<1>3. EventsTypeOK'
  BY <1>1, <1>2, ReaderTyped
<1>4. StreamKept' /\ RingKept' /\ Accounted'
  BY <1>1, <1>2, AroundParts, StreamStands
<1>5. PageKept'
  BY <1>2, PageStands DEF EventsIInv, PageKept
<1> QED BY <1>3, <1>4, <1>5 DEF EventsIInv

LEMMA ReplayedForm ==
    ASSUME link \in Links, NEW out \in Seq(Evs)
    PROVE  /\ Replayed(out) \in Links /\ Replayed(out).out = out /\ Replayed(out).snap = << >>
           /\ Replayed(out).stage \in {"send", "answer"} /\ Replayed(out).cursor = link.cursor
BY EmptyForm, EventNumbers DEF Replayed, Links, FileLists

LEMMA ReplayRingSound == EventsIInv /\ ReplayRing => EventsIInv'
<1> SUFFICES ASSUME EventsIInv, ReplayRing PROVE EventsIInv'
  OBVIOUS
<1>1. /\ EventsTypeOK /\ link \in Links /\ ring \in Seq(Evs) /\ queue \in Seq(Evs)
      /\ journal.old \in Seq(Evs) /\ journal.current \in Seq(Evs) /\ unwritten \in Seq(Evs)
      /\ link.cursor \in Int /\ Rises(ring) /\ Range(ring) \subseteq Around
      /\ Rises(link.out) /\ Range(link.out) \subseteq Around
  BY TypedParts, EventsTyped, AllRise, AroundParts DEF EventsIInv
<1>2. Quiet /\ UNCHANGED <<ring, unwritten, journal, queue, page, excused>>
  BY DEF ReplayRing, Quiet
<1>3. Missing' = Missing /\ Missing \subseteq Evs
  BY <1>1, <1>2, EventsTyped, LoggedAround DEF Missing, Logged
<1>4. CASE ring # << >> /\ link.cursor >= ring[1].seq - 1
  <2> DEFINE out == After(ring, link.cursor)
  <2>1. out \in Seq(Evs) /\ Rises(out) /\ Range(out) = {e \in Range(ring) : e.seq > link.cursor}
    BY <1>1, AfterForm
  <2>2. link' = Replayed(out)
    BY <1>4 DEF ReplayRing
  <2>3. \A e \in Missing : e \in Range(out)
    <3> TAKE e \in Missing
    <3>1. e \in Logged /\ e \in Evs /\ e.seq > page.last /\ link.cursor <= page.last
      BY <1>3, LoggedAround DEF EventsIInv, PageKept
    <3>2. e.seq > link.cursor /\ e.seq \in Int
      BY <1>1, <3>1, EventNumbers, EventsTyped
    <3>3. ring[1].seq \in Int
      BY <1>1, <1>4, FirstLeast, RangeForm, EventNumbers
    <3>4. e.seq >= ring[1].seq
      BY <1>1, <1>4, <3>2, <3>3
    <3>5. e \in Range(ring)
      BY <1>4, <3>1, <3>4 DEF EventsIInv, RingKept
    <3> QED BY <2>1, <3>2, <3>5
  <2> HIDE DEF out
  <2>4. /\ link' \in Links /\ link'.out = out /\ link'.snap = << >>
        /\ link'.stage \in {"send", "answer"} /\ link'.cursor = link.cursor
    BY <1>1, <2>1, <2>2, ReplayedForm
  <2>5. ToCome'
    BY <1>3, <2>3, <2>4 DEF ToCome
  <2>6. Range(out) \subseteq Around
    BY <1>1, <2>1
  <2> QED BY <1>2, <2>1, <2>4, <2>5, <2>6, EmptyForm, ReplayStands
<1>5. CASE ~(ring # << >> /\ link.cursor >= ring[1].seq - 1)
  <2> DEFINE files == Named("old") \o Named("current")
  <2>1. link' = [link EXCEPT !.stage = "read", !.snap = ring, !.files = files]
    BY <1>5 DEF ReplayRing
  <2>2. /\ files \in FileLists
        /\ "old" \in Range(files) <=> journal.old # << >>
        /\ "current" \in Range(files) <=> journal.current # << >>
    <3>1. /\ << >> \o << >> = << >> /\ << >> \o <<"current">> = <<"current">>
          /\ <<"old">> \o << >> = <<"old">> /\ <<"old">> \o <<"current">> = <<"old", "current">>
      <4> DEFINE S == {"old", "current"}
      <4>1. <<"current">> \in Seq(S) /\ <<"old">> \in Seq(S) /\ "current" \in S
        OBVIOUS
      <4>2. << >> \o << >> = << >> /\ << >> \o <<"current">> = <<"current">> /\ <<"old">> \o << >> = <<"old">>
        OBVIOUS
      <4>3. /\ <<"old">> \o <<"current">> \in Seq(S) /\ Len(<<"old">> \o <<"current">>) = 2
            /\ (<<"old">> \o <<"current">>)[1] = "old" /\ (<<"old">> \o <<"current">>)[2] = "current"
        OBVIOUS
      <4>4. /\ <<"old", "current">> \in Seq(S) /\ Len(<<"old", "current">>) = 2
            /\ <<"old", "current">>[1] = "old" /\ <<"old", "current">>[2] = "current"
        OBVIOUS
      <4> DEFINE u == <<"old">> \o <<"current">>
                 v == <<"old", "current">>
      <4>5. \A i \in 1..2 : i = 1 \/ i = 2
        OBVIOUS
      <4>6. u \in Seq(S) /\ Len(u) = 2 /\ u[1] = "old" /\ u[2] = "current"
        BY <4>3
      <4>7. v \in Seq(S) /\ Len(v) = 2 /\ v[1] = "old" /\ v[2] = "current"
        BY <4>4
      <4> HIDE DEF u, v, S
      <4>8. u = v
        <5>1. \A i \in 1..Len(u) : u[i] = v[i]
          BY <4>5, <4>6, <4>7
        <5> QED BY <4>6, <4>7, <5>1, SeqEqual
      <4> QED BY <4>2, <4>8 DEF u, v
    <3>2. /\ Range(<< >>) = {} /\ Range(<<"current">>) = {"current"} /\ Range(<<"old">>) = {"old"}
          /\ Range(<<"old", "current">>) = {"old", "current"}
      BY DEF Range
    <3> QED BY <3>1, <3>2 DEF Named, FileLists
  <2> HIDE DEF files
  <2>3. /\ link' \in Links /\ link'.out = link.out /\ link'.snap = ring /\ link'.files = files
        /\ link'.stage = "read" /\ link'.cursor = link.cursor
    BY <1>1, <2>1, <2>2, EventNumbers DEF Links
  <2>4. link.out = << >>
    BY DEF EventsIInv, ToCome, ReplayRing
  <2>5. \A s \in Seq(Evs) : Before(link.out, s)
    BY <2>4, EmptyForm DEF Before
  <2>6. ASSUME NEW e \in Missing
        PROVE  \/ e \in Range(journal.old) /\ "old" \in Range(files)
               \/ e \in Range(journal.current) /\ "current" \in Range(files)
               \/ e \notin Range(journal.old) /\ Before(link.out, <<e>>) /\ e \in Range(ring)
    <3>1. e \in Range(journal.old) \/ e \in Range(journal.current) \/ e \in Range(unwritten)
      BY <2>6 DEF Missing, Logged
    <3>2. e \in Range(journal.old) => "old" \in Range(files)
      BY <1>1, <2>2, RangeForm
    <3>3. e \in Range(journal.current) => "current" \in Range(files)
      BY <1>1, <2>2, RangeForm
    <3>4. e \in Range(unwritten) => e \in Range(ring)
      BY <1>1, EndIn DEF EventsIInv, RingKept
    <3>5. Before(link.out, <<e>>)
      BY <1>3, <2>5, <2>6, OneForm
    <3> QED BY <3>1, <3>2, <3>3, <3>4, <3>5
  <2>7. ToCome'
    BY <1>1, <1>2, <1>3, <2>2, <2>3, <2>4, <2>5, <2>6 DEF ToCome
  <2> QED BY <1>1, <1>2, <2>3, <2>7, ReplayStands
<1> QED BY <1>4, <1>5

LEMMA MissingFacts ==
    ASSUME EventsIInv, NEW e \in Missing
    PROVE  /\ e \in Evs /\ e \in Logged /\ e \in Around /\ e.seq \in Int /\ e.n \in Int
           /\ e.seq > page.last /\ e.seq > link.cursor
           /\ e \in Range(journal.old) \/ e \in Range(journal.current) \/ e \in Range(unwritten)
<1>1. e \in Logged /\ e \in Around
  BY LoggedAround
<1>2. EventsTypeOK /\ page.last \in Int /\ link.cursor \in Int /\ e \in Evs
  BY <1>1, EventsTyped DEF EventsIInv
<1>3. e.seq \in Int /\ e.n \in Int
  BY <1>2, EventNumbers
<1>4. e.seq > page.last /\ link.cursor <= page.last
  BY DEF EventsIInv, PageKept
<1>5. e \in Range(journal.old) \/ e \in Range(journal.current) \/ e \in Range(unwritten)
  BY <1>1 DEF Logged
<1> QED BY <1>1, <1>2, <1>3, <1>4, <1>5

LEMMA FileNames ==
    ASSUME NEW fs \in FileLists
    PROVE  /\ Range(<< >>) = {} /\ << >> \in FileLists
           /\ fs # << >> => \/ /\ Head(fs) = "old" /\ "old" \in Range(fs)
                               /\ Tail(fs) \in FileLists /\ Range(Tail(fs)) = Range(fs) \ {"old"}
                            \/ /\ Head(fs) = "current" /\ "current" \in Range(fs)
                               /\ Tail(fs) = << >> /\ "old" \notin Range(fs)
<1>1. /\ Range(<< >>) = {} /\ Range(<<"current">>) = {"current"} /\ Range(<<"old">>) = {"old"}
      /\ Range(<<"old", "current">>) = {"old", "current"}
  BY DEF Range
<1>2. /\ Tail(<<"current">>) = << >> /\ Tail(<<"old">>) = << >>
      /\ Tail(<<"old", "current">>) = <<"current">>
  OBVIOUS
<1>3. /\ Head(<<"current">>) = "current" /\ Head(<<"old">>) = "old"
      /\ Head(<<"old", "current">>) = "old"
  OBVIOUS
<1> QED BY <1>1, <1>2, <1>3 DEF FileLists

LEMMA ReplayFileSound == EventsIInv /\ ReplayFile => EventsIInv'
<1> SUFFICES ASSUME EventsIInv, ReplayFile PROVE EventsIInv'
  OBVIOUS
<1> DEFINE lines == journal[Head(link.files)]
           more == After(lines, link.cursor)
           files == IF lines = << >> THEN << >> ELSE Tail(link.files)
           out == link.out \o more
<1>1. /\ EventsTypeOK /\ link \in Links /\ unwritten \in Seq(Evs) /\ link.files \in FileLists
      /\ journal.old \in Seq(Evs) /\ journal.current \in Seq(Evs) /\ link.cursor \in Int
      /\ link.out \in Seq(Evs) /\ Rises(link.out) /\ Range(link.out) \subseteq Around
      /\ Rises(link.snap) /\ Range(link.snap) \subseteq Around
      /\ Rises(journal.old) /\ Rises(journal.current)
      /\ Range(journal.old) \subseteq Around /\ Range(journal.current) \subseteq Around
  BY TypedParts, EventsTyped, AllRise, AroundParts, LoggedAround DEF EventsIInv, Links
<1>2. Quiet /\ UNCHANGED <<ring, unwritten, journal, queue, page, excused>> /\ link.stage = "read"
         /\ link.files # << >> /\ Missing' = Missing
  BY DEF ReplayFile, Quiet, Missing, Logged
<1>3. link' = [link EXCEPT !.out = out, !.files = files]
  BY DEF ReplayFile
<1>4. /\ Before(journal.old, journal.current) /\ Before(journal.old, unwritten)
      /\ Before(journal.current, unwritten) /\ Before(link.out, unwritten)
  BY <1>2 DEF EventsIInv, StreamKept, ToCome
<1>5. \A e \in Missing :
                \/ e \in Range(link.out)
                \/ e \in Range(journal.old) /\ "old" \in Range(link.files)
                \/ e \in Range(journal.current) /\ "current" \in Range(link.files)
                \/ /\ e \notin Range(journal.old) /\ \A f \in Range(link.out) : Earlier(f, e)
                   /\ \/ e \in Range(link.snap)
                      \/ e \in Range(queue) /\ Before(link.snap, <<e>>)
  <2> SUFFICES ASSUME NEW e \in Missing
               PROVE  Before(link.out, <<e>>) => \A f \in Range(link.out) : Earlier(f, e)
    BY <1>2 DEF EventsIInv, ToCome
  <2> QED BY <1>1, MissingFacts, BeforeOne
<1>6. /\ lines \in Seq(Evs) /\ Rises(lines)
      /\ \/ /\ lines = journal.old /\ lines # << >> /\ link.out = << >> /\ "old" \in Range(link.files)
            /\ files \in FileLists /\ Range(files) = Range(link.files) \ {"old"}
         \/ /\ lines = journal.current /\ files = << >> /\ "old" \notin Range(link.files)
            /\ Before(link.out, journal.current)
  <2>1. CASE /\ Head(link.files) = "old" /\ "old" \in Range(link.files)
             /\ Tail(link.files) \in FileLists /\ Range(Tail(link.files)) = Range(link.files) \ {"old"}
    <3>1. journal.old # << >> /\ link.out = << >>
      BY <1>2, <2>1 DEF EventsIInv, ToCome
    <3> QED BY <1>1, <2>1, <3>1
  <2>2. CASE /\ Head(link.files) = "current" /\ "current" \in Range(link.files)
             /\ Tail(link.files) = << >> /\ "old" \notin Range(link.files)
    <3>1. Before(link.out, journal.current)
      BY <1>2, <2>2 DEF EventsIInv, ToCome
    <3> QED BY <1>1, <2>2, <3>1
  <2> QED BY <1>1, <1>2, <2>1, <2>2, FileNames
<1>7. more \in Seq(Evs) /\ Rises(more) /\ Range(more) = {e \in Range(lines) : e.seq > link.cursor}
  <2> HIDE DEF lines
  <2> QED BY <1>1, <1>6, AfterForm
<1> HIDE DEF more, lines, files
<1>8. /\ out \in Seq(Evs) /\ Range(out) = Range(link.out) \union Range(more)
      /\ Rises(out)
  <2>1. Before(link.out, more)
    BY <1>6, <1>7, EmptyForm DEF Before
  <2> QED BY <1>1, <1>7, <2>1, RangeConcat
<1> HIDE DEF out
<1>9. files \in FileLists /\ Range(lines) \subseteq Around
  BY <1>1, <1>6, FileNames
<1>10. /\ link' \in Links /\ link'.cursor = link.cursor /\ link'.snap = link.snap /\ link'.out = out
       /\ link'.files = files /\ link'.stage = "read"
  BY <1>1, <1>2, <1>3, <1>8, <1>9, EventNumbers DEF Links
<1>11. Before(out, unwritten)
  BY <1>4, <1>6, <1>7, <1>8 DEF Before
<1>12. "old" \notin Range(files) /\ ("current" \in Range(files) => Before(out, journal.current))
  BY <1>4, <1>6, <1>7, <1>8, FileNames, EmptyForm DEF Before
<1>13. ASSUME NEW e \in Missing
       PROVE  \/ e \in Range(out)
              \/ e \in Range(journal.current) /\ "current" \in Range(files)
              \/ /\ e \notin Range(journal.old) /\ Before(out, <<e>>)
                 /\ \/ e \in Range(link.snap)
                    \/ e \in Range(queue) /\ Before(link.snap, <<e>>)
  <2>1. /\ e \in Evs /\ e.seq > link.cursor
        /\ e \in Range(journal.old) \/ e \in Range(journal.current) \/ e \in Range(unwritten)
    BY <1>13, MissingFacts
  <2>2. e \in Range(lines) => e \in Range(out)
    BY <1>7, <1>8, <2>1
  <2>3. e \in Range(link.out) => e \in Range(out)
    BY <1>8
  <2>4. CASE e \notin Range(journal.old) /\ e \notin Range(lines) /\ \A f \in Range(link.out) : Earlier(f, e)
    <3>1. \A f \in Range(lines) : Earlier(f, e)
      BY <1>4, <1>6, <2>1, <2>4 DEF Before
    <3>2. \A f \in Range(out) : Earlier(f, e)
      BY <1>7, <1>8, <2>4, <3>1
    <3>3. Before(out, <<e>>)
      BY <1>8, <2>1, <3>2, BeforeOne
    <3>4. e \notin Range(link.out)
      BY <2>1, <2>4, EarlierOrder
    <3>5. e \in Range(journal.current) => "current" \in Range(files) \/ "current" \notin Range(link.files)
      BY <1>6, <2>4
    <3> QED BY <1>5, <1>13, <2>4, <3>3, <3>4, <3>5
  <2>5. CASE ~(e \notin Range(journal.old) /\ e \notin Range(lines) /\ \A f \in Range(link.out) : Earlier(f, e))
    BY <1>5, <1>6, <1>13, <2>2, <2>3, <2>5
  <2> QED BY <2>4, <2>5
<1>14. ToCome'
  BY <1>2, <1>10, <1>11, <1>12, <1>13 DEF ToCome
<1>15. Range(out) \subseteq Around
  BY <1>1, <1>7, <1>8, <1>9
<1> QED BY <1>1, <1>2, <1>8, <1>10, <1>14, <1>15, ReplayStands

LEMMA ReplayMergeSound == EventsIInv /\ ReplayMerge => EventsIInv'
<1> SUFFICES ASSUME EventsIInv, ReplayMerge PROVE EventsIInv'
  OBVIOUS
<1> DEFINE last == IF link.out = << >> THEN link.cursor ELSE Last(link.out).seq
           more == After(link.snap, last)
           out == link.out \o more
<1>1. /\ EventsTypeOK /\ StreamKept /\ link \in Links /\ link.cursor \in Int
      /\ link.out \in Seq(Evs) /\ Rises(link.out) /\ Range(link.out) \subseteq Around
      /\ link.snap \in Seq(Evs) /\ Rises(link.snap) /\ Range(link.snap) \subseteq Around
  BY TypedParts, EventsTyped, AllRise, AroundParts DEF EventsIInv
<1>2. /\ Quiet /\ UNCHANGED <<queue, page, excused>> /\ link.stage = "read" /\ link.files = << >>
      /\ Missing' = Missing /\ link' = Replayed(out)
  BY DEF ReplayMerge, Quiet, Missing, Logged
<1>3. /\ last \in Int
      /\ link.out # << >> => /\ Last(link.out) \in Range(link.out) /\ last = Last(link.out).seq
                             /\ \A f \in Range(link.out) : f = Last(link.out) \/ Earlier(f, Last(link.out))
      /\ link.out = << >> => last = link.cursor
  <2>1. CASE link.out = << >>
    BY <1>1, <2>1
  <2>2. CASE link.out # << >>
    <3>1. /\ Last(link.out) \in Range(link.out)
          /\ \A f \in Range(link.out) : f = Last(link.out) \/ Earlier(f, Last(link.out))
      BY <1>1, <2>2, LastLatest
    <3>2. Last(link.out) \in Around
      BY <1>1, <3>1
    <3>3. Last(link.out).seq \in Int
      BY <1>1, <3>2, EventsApart
    <3> QED BY <2>2, <3>1, <3>3
  <2> QED BY <2>1, <2>2
<1> HIDE DEF last
<1>4. more \in Seq(Evs) /\ Rises(more) /\ Range(more) = {e \in Range(link.snap) : e.seq > last}
  BY <1>1, <1>3, AfterForm
<1> HIDE DEF more
<1>5. ASSUME NEW f \in Range(link.out), NEW e \in Around, e.seq > last
      PROVE  Earlier(f, e)
  <2>1. link.out # << >>
    BY EmptyForm
  <2>2. f \in Around /\ Last(link.out) \in Around /\ last = Last(link.out).seq
    BY <1>1, <1>3, <2>1
  <2>3. f.seq \in Int /\ e.seq \in Int /\ last \in Int
    BY <1>1, <1>3, <1>5, <2>2, EventsApart
  <2>4. f.seq <= last
    BY <1>3, <2>1, <2>2, <2>3 DEF Earlier
  <2>5. f.seq < e.seq
    BY <1>5, <2>3, <2>4
  <2> QED BY <1>1, <1>5, <2>2, <2>5, EventsApart
<1>6. /\ out \in Seq(Evs) /\ Range(out) = Range(link.out) \union Range(more) /\ Rises(out)
  <2>1. Before(link.out, more)
    BY <1>1, <1>4, <1>5 DEF Before
  <2> QED BY <1>1, <1>4, <2>1, RangeConcat
<1> HIDE DEF out
<1>7. /\ link' \in Links /\ link'.out = out /\ link'.snap = << >>
      /\ link'.stage \in {"send", "answer"} /\ link'.cursor = link.cursor
  BY <1>1, <1>2, <1>6, ReplayedForm
<1>8. ASSUME NEW e \in Missing
      PROVE  e \in Range(out) \/ (e \in Range(queue) /\ Before(out, <<e>>))
  <2>1. e \in Evs /\ e \in Around /\ e.seq \in Int /\ e.seq > link.cursor
    BY <1>8, MissingFacts
  <2>2. \/ e \in Range(link.out)
        \/ /\ Before(link.out, <<e>>)
           /\ e \in Range(link.snap) \/ (e \in Range(queue) /\ Before(link.snap, <<e>>))
    <3>1. Range(link.files) = {}
      BY <1>2 DEF Range
    <3> QED BY <1>2, <1>8, <3>1 DEF EventsIInv, ToCome
  <2>3. CASE e \in Range(link.out)
    BY <1>6, <2>3
  <2>4. CASE Before(link.out, <<e>>) /\ e \in Range(link.snap)
    <3>1. e.seq > last
      <4>1. CASE link.out = << >>
        BY <1>3, <2>1, <4>1
      <4>2. CASE link.out # << >>
        <5>1. Earlier(Last(link.out), e)
          BY <1>1, <1>3, <2>1, <2>4, <4>2, BeforeOne
        <5>2. last = Last(link.out).seq
          BY <1>3, <4>2
        <5> QED BY <1>3, <2>1, <5>1, <5>2 DEF Earlier
      <4> QED BY <4>1, <4>2
    <3> QED BY <1>4, <1>6, <2>4, <3>1
  <2>5. CASE Before(link.out, <<e>>) /\ e \in Range(queue) /\ Before(link.snap, <<e>>)
    <3>1. \A f \in Range(out) : Earlier(f, e)
      BY <1>1, <1>4, <1>6, <2>1, <2>5, BeforeOne
    <3> QED BY <1>6, <2>1, <2>5, <3>1, BeforeOne
  <2> QED BY <2>2, <2>3, <2>4, <2>5
<1>9. ToCome'
  BY <1>2, <1>7, <1>8 DEF ToCome
<1>10. Range(out) \subseteq Around
  BY <1>1, <1>4, <1>6
<1> QED BY <1>2, <1>6, <1>7, <1>9, <1>10, EmptyForm, ReplayStands

-----------------------------------------------------------------------------
(* A poll is answered.                                                        *)

\* What it is answered with has all that the dashboard misses up to its last event.
LEMMA AnswerSound ==
    ASSUME EventsIInv, Quiet, UNCHANGED excused, link' = Off, queue' = << >>,
           NEW s \in Seq(Evs), Rises(s), Range(s) \subseteq Around, page' = Gets(s),
           \A e \in Missing, f \in Range(s) : e \in Range(s) \/ Earlier(f, e)
    PROVE  EventsIInv'
<1>1. /\ EventsTypeOK /\ troubles \in Troubles /\ page \in Pages /\ excused \subseteq 1..MaxEvents
      /\ page.last \in Int /\ page.last >= 0
  BY TypedParts, EventsTyped DEF EventsIInv
<1>2. UNCHANGED <<ring, seqNo, unwritten, journal, happened, troubles>> /\ Logged' = Logged
  BY DEF Quiet, Logged
<1>3. /\ Highest(s, page.last) \in {page.last} \union {e.seq : e \in Range(s)}
      /\ Highest(s, page.last) \in Int /\ Highest(s, page.last) >= page.last
  BY <1>1, HighestForm
<1>4. page'.last = Highest(s, page.last) /\ page'.got = page.got \union {e.n : e \in Range(s)}
  BY RangeForm DEF Gets
<1>5. page' \in Pages
  <2>1. \A e \in Range(s) : e.n \in 1..MaxEvents /\ e.seq \in 0..MaxEvents
    <3>1. \A e \in Evs : e.n \in 1..MaxEvents /\ e.seq \in 0..MaxEvents
      BY EventNumbers DEF Evs
    <3> QED BY <3>1, RangeForm
  <2> QED BY <1>1, <1>3, <1>4, <2>1 DEF Pages, Gets
<1>6. EventsTypeOK'
  BY <1>1, <1>2, <1>5, OffForm, EmptyQueue, EmptyForm, ReaderTyped
<1>7. link'.cursor <= page'.last
  BY <1>1, <1>3, <1>4, OffForm
<1>8. PageKept'
  BY <1>2, <1>3, <1>4, <1>7, PageGets
<1> QED BY <1>2, <1>6, <1>8, ClosedSound

LEMMA AnswerReplaySound == EventsIInv /\ AnswerReplay => EventsIInv'
<1> SUFFICES ASSUME EventsIInv, AnswerReplay PROVE EventsIInv'
  OBVIOUS
<1>1. /\ EventsTypeOK /\ link \in Links /\ troubles \in Troubles /\ page \in Pages
      /\ link.out \in Seq(Evs) /\ Rises(link.out) /\ Range(link.out) \subseteq Around
      /\ link.snap \in Seq(Evs) /\ Rises(link.snap) /\ Range(link.snap) \subseteq Around
  BY TypedParts, EventsTyped, AllRise, AroundParts DEF EventsIInv
<1>2. Quiet /\ UNCHANGED excused /\ link.stage = "answer"
  BY DEF AnswerReplay
<1>3. \A e \in Missing :
         e \in Range(link.out) \/ (e \in Range(queue) /\ \A f \in Range(link.out) : Earlier(f, e))
  BY <1>1, <1>2, MissingFacts, BeforeOne DEF EventsIInv, ToCome
<1>4. CASE link.out # << >>
  <2>1. link' = Off /\ queue' = << >> /\ page' = Gets(link.out)
    BY <1>4 DEF AnswerReplay
  <2> QED BY <1>1, <1>2, <1>3, <2>1, AnswerSound
<1>5. CASE link.out = << >>
  <2>1. link' = [link EXCEPT !.stage = "live"] /\ UNCHANGED <<queue, page>>
    BY <1>5 DEF AnswerReplay
  <2>2. /\ link' \in Links /\ link'.snap = link.snap /\ link'.out = link.out /\ link'.stage = "live"
        /\ link'.cursor = link.cursor
    BY <1>1, <2>1 DEF Links
  <2>3. Missing' = Missing
    BY <1>2, <2>1 DEF Missing, Logged, Quiet
  <2>4. \A e \in Missing : e \in Range(queue)
    BY <1>3, <1>5, EmptyForm
  <2>5. ToCome'
    BY <2>1, <2>2, <2>3, <2>4 DEF ToCome
  <2> QED BY <1>1, <1>2, <2>1, <2>2, <2>5, ReplayStands
<1> QED BY <1>4, <1>5

LEMMA AnswerLiveSound == EventsIInv /\ AnswerLive => EventsIInv'
<1> SUFFICES ASSUME EventsIInv, AnswerLive PROVE EventsIInv'
  OBVIOUS
<1> DEFINE fresh == After(queue, link.cursor)
<1>1. /\ EventsTypeOK /\ link \in Links /\ troubles \in Troubles /\ page \in Pages
      /\ excused \subseteq 1..MaxEvents /\ link.cursor \in Int
      /\ queue \in Seq(Evs) /\ Rises(queue) /\ Range(queue) \subseteq Around
      /\ link.out \in Seq(Evs) /\ Rises(link.out) /\ Range(link.out) \subseteq Around
      /\ link.snap \in Seq(Evs) /\ Rises(link.snap) /\ Range(link.snap) \subseteq Around
  BY TypedParts, EventsTyped, AllRise, AroundParts DEF EventsIInv
<1>2. /\ Quiet /\ UNCHANGED <<ring, seqNo, unwritten, journal, happened, troubles, excused>>
      /\ link.stage = "live" /\ queue' = << >>
  BY DEF AnswerLive, Quiet
<1>3. fresh \in Seq(Evs) /\ Rises(fresh) /\ Range(fresh) = {e \in Range(queue) : e.seq > link.cursor}
  BY <1>1, AfterForm
<1>4. \A e \in Missing : e \in Range(fresh)
  <2> TAKE e \in Missing
  <2>1. e \in Range(queue)
    BY <1>2 DEF EventsIInv, ToCome
  <2>2. e.seq > link.cursor
    BY MissingFacts
  <2> HIDE DEF fresh
  <2> QED BY <1>3, <2>1, <2>2
<1>5. CASE fresh # << >>
  <2>1. link' = Off /\ page' = Gets(fresh)
    BY <1>5 DEF AnswerLive
  <2>2. Range(fresh) \subseteq Around
    BY <1>1, <1>3
  <2> HIDE DEF fresh
  <2> QED BY <1>2, <1>3, <1>4, <2>1, <2>2, AnswerSound
<1>6. CASE fresh = << >>
  <2>1. link' = link /\ page' = page
    BY <1>6 DEF AnswerLive
  <2>2. Missing = {}
    <3>1. Range(fresh) = {}
      BY <1>6, EmptyForm
    <3> HIDE DEF fresh
    <3> QED BY <1>4, <3>1
  <2>3. Missing' = {}
    BY <1>2, <2>1, <2>2 DEF Missing, Logged
  <2>4. ToCome'
    BY <1>2, <2>1, <2>3 DEF ToCome
  <2>5. EventsTypeOK'
    BY <1>1, <1>2, <2>1, EmptyQueue, EmptyForm, ReaderTyped
  <2>6. StreamKept' /\ RingKept' /\ Accounted'
    BY <1>1, <1>2, <2>1, EmptyForm, StreamStands
  <2>7. Logged' = Logged
    BY <1>2 DEF Logged
  <2>8. PageKept'
    BY <1>2, <2>1, <2>7, PageStands DEF EventsIInv, PageKept
  <2> QED BY <2>4, <2>5, <2>6, <2>8 DEF EventsIInv
<1> QED BY <1>5, <1>6

-----------------------------------------------------------------------------
(* The journal is written behind.                                             *)

LEMMA EndsWithTail ==
    ASSUME NEW s \in Seq(Evs), NEW t \in Seq(Evs), t # << >>, EndsWith(s, t)
    PROVE  EndsWith(s, Tail(t))
<1> DEFINE m == Len(s)
           n == Len(t)
           u == Tail(t)
<1>1. m \in Nat /\ n \in Nat /\ n >= 1 /\ DOMAIN t = 1..n /\ n <= m
         /\ \A k \in 1..n : t[k] = s[k + m - n]
  BY DEF EndsWith
<1>2. u \in Seq(Evs) /\ Len(u) = n - 1 /\ DOMAIN u = 1..(n - 1) /\ \A k \in 1..(n - 1) : u[k] = t[k + 1]
  BY RangeTail
<1> HIDE DEF m, n, u
<1>3. \A k \in 1..(n - 1) : k + 1 \in 1..n /\ (k + 1) + m - n = k + m - (n - 1)
  BY <1>1
<1>4. \A k \in 1..(n - 1) : u[k] = s[k + m - (n - 1)]
  BY <1>1, <1>2, <1>3
<1>5. n - 1 <= m
  BY <1>1
<1> QED BY <1>2, <1>4, <1>5 DEF EndsWith, u, m

LEMMA EndsWithAppend ==
    ASSUME NEW s \in Seq(Evs), NEW t \in Seq(Evs), NEW e \in Evs, EndsWith(s, t)
    PROVE  EndsWith(Append(s, e), Append(t, e))
<1> DEFINE m == Len(s)
           n == Len(t)
           u == Append(s, e)
           v == Append(t, e)
<1>1. m \in Nat /\ n \in Nat /\ DOMAIN t = 1..n /\ n <= m
         /\ \A k \in 1..n : t[k] = s[k + m - n]
  BY DEF EndsWith
<1>2. /\ Len(u) = m + 1 /\ Len(v) = n + 1 /\ DOMAIN v = 1..(n + 1)
      /\ u[m + 1] = e /\ v[n + 1] = e
      /\ \A k \in 1..m : u[k] = s[k]
      /\ \A k \in 1..n : v[k] = t[k]
  OBVIOUS
<1> HIDE DEF m, n, u, v
<1>3. ASSUME NEW k \in 1..(n + 1) PROVE v[k] = u[k + (m + 1) - (n + 1)]
  <2>1. CASE k = n + 1
    <3>1. k + (m + 1) - (n + 1) = m + 1
      BY <1>1, <2>1
    <3> QED BY <1>2, <2>1, <3>1
  <2>2. CASE k # n + 1
    <3>1. k \in 1..n /\ k + (m + 1) - (n + 1) = k + m - n /\ k + m - n \in 1..m
      BY <1>1, <2>2
    <3> QED BY <1>1, <1>2, <3>1
  <2> QED BY <2>1, <2>2
<1>4. n + 1 <= m + 1
  BY <1>1
<1> QED BY <1>2, <1>3, <1>4 DEF EndsWith, u, v

LEMMA EndsWithBoth ==
    ASSUME NEW s \in Seq(Evs), NEW t \in Seq(Evs), NEW u \in Seq(Evs),
           EndsWith(s, t), EndsWith(s, u), Len(u) <= Len(t)
    PROVE  EndsWith(t, u)
<1> DEFINE l == Len(s)
           m == Len(t)
           n == Len(u)
<1>1. /\ l \in Nat /\ m \in Nat /\ n \in Nat /\ n <= m /\ DOMAIN u = 1..n
      /\ \A k \in 1..m : t[k] = s[k + l - m]
      /\ \A k \in 1..n : u[k] = s[k + l - n]
  BY DEF EndsWith
<1> HIDE DEF l, m, n
<1>2. \A k \in 1..n : k + m - n \in 1..m /\ (k + m - n) + l - m = k + l - n
  BY <1>1
<1>3. \A k \in 1..n : u[k] = t[k + m - n]
  BY <1>1, <1>2
<1> QED BY <1>1, <1>3 DEF EndsWith, m, n

LEMMA NsTyped ==
    ASSUME NEW s \in Seq(Evs)
    PROVE  Ns(s) \subseteq 1..MaxEvents /\ \A e \in Range(s) : e.n \in Ns(s)
<1>1. Ns(s) = {e.n : e \in Range(s)} /\ Range(s) \subseteq Evs
  BY RangeForm
<1>2. \A e \in Evs : e.n \in 1..MaxEvents
  BY DEF Evs
<1> QED BY <1>1, <1>2

\* What is changed of the journal, the queue and the link when its writer steps.
LEMMA WriterTyped ==
    ASSUME EventsTypeOK, UNCHANGED <<ring, seqNo, link, queue, page, happened>>,
           unwritten' \in Seq(Evs), excused' \subseteq 1..MaxEvents,
           journal' \in [old: EventSeqs, current: EventSeqs], Len(journal'.current) <= FileMax,
           troubles' \in Troubles
    PROVE  EventsTypeOK'
<1>1. /\ ring' \in Seq(Evs) /\ queue' \in Seq(Evs) /\ link' \in Links /\ page' \in Pages
      /\ Len(ring') <= RingSize /\ Len(queue') <= QueueMax
      /\ seqNo' \in 0..MaxEvents /\ happened' \in 0..MaxEvents
  BY TypedParts
<1> QED BY <1>1, EventNumbers DEF EventsTypeOK, Links, Pages, Troubles

\* The writer's steps: the log keeps what is not excused, in its order.
LEMMA WriterStands ==
    ASSUME EventsIInv, UNCHANGED <<ring, seqNo, link, queue, page, happened>>, EventsTypeOK',
           Logged' \subseteq Logged, excused \subseteq excused',
           troubles'.restarts = troubles.restarts,
           \A e \in Logged : e \in Logged' \/ e.n \in excused',
           Rises(journal'.old), Rises(journal'.current), Rises(unwritten'),
           Before(journal'.old, journal'.current), Before(journal'.old, unwritten'),
           Before(journal'.current, unwritten'), EndsWith(ring, unwritten'), ToCome'
    PROVE  EventsIInv'
<1> USE DEF EventsIInv
<1>1. Around' \subseteq Around
  <2>1. Range(ring') = Range(ring) /\ Range(queue') = Range(queue)
           /\ Range(link'.snap) = Range(link.snap) /\ Range(link'.out) = Range(link.out)
    OBVIOUS
  <2> QED BY <2>1 DEF Around
<1>2. StreamKept'
  <2>1. seqNo' <= happened' /\ \A e \in Around' : e.n <= happened' /\ e.seq <= seqNo'
    BY <1>1 DEF StreamKept
  <2>2. \A e, f \in Around' : e = f \/ Earlier(e, f) \/ Earlier(f, e)
    BY <1>1 DEF StreamKept
  <2>3. Rises(ring') /\ Rises(queue') /\ Rises(link'.snap) /\ Rises(link'.out)
    BY AllRise
  <2> QED BY <2>1, <2>2, <2>3 DEF StreamKept
<1>3. RingKept'
  <2>1. ring' = ring /\ EndsWith(ring', unwritten')
    OBVIOUS
  <2>2. ring' = << >> => Logged' = {}
    BY DEF RingKept
  <2>3. ring' # << >> => \A e \in Logged' : e.seq >= ring'[1].seq => e \in Range(ring')
    BY <2>1 DEF RingKept
  <2> QED BY <2>1, <2>2, <2>3 DEF RingKept
<1>4. Accounted'
  BY DEF Accounted
<1>5. PageKept'
  BY PageStands DEF PageKept
<1> QED BY <1>2, <1>3, <1>4, <1>5

LEMMA JournalAppendSound == EventsIInv /\ JournalAppend => EventsIInv'
<1> SUFFICES ASSUME EventsIInv, JournalAppend PROVE EventsIInv'
  OBVIOUS
<1> DEFINE h == Head(unwritten)
           rest == Tail(unwritten)
           cur == Append(journal.current, h)
<1>1. /\ EventsTypeOK /\ troubles \in Troubles /\ excused \subseteq 1..MaxEvents
      /\ journal \in [old: EventSeqs, current: EventSeqs]
      /\ journal.old \in Seq(Evs) /\ journal.current \in Seq(Evs) /\ unwritten \in Seq(Evs)
      /\ ring \in Seq(Evs) /\ Rises(journal.old) /\ Rises(journal.current) /\ Rises(unwritten)
      /\ Before(journal.old, journal.current) /\ Before(journal.old, unwritten)
      /\ Before(journal.current, unwritten) /\ EndsWith(ring, unwritten)
  BY TypedParts, EventsTyped, AllRise DEF EventsIInv, StreamKept, RingKept
<1>2. /\ UNCHANGED <<ring, seqNo, link, queue, page, happened, excused, troubles>>
      /\ unwritten # << >> /\ Len(journal.current) < FileMax
      /\ journal' = [journal EXCEPT !.current = cur] /\ unwritten' = rest
  BY DEF JournalAppend
<1>3. /\ h \in Evs /\ rest \in Seq(Evs) /\ Range(unwritten) = {h} \union Range(rest)
      /\ Rises(rest) /\ \A e \in Range(rest) : Earlier(h, e)
  BY <1>1, <1>2, RangeTail
<1>4. EndsWith(ring, rest)
  BY <1>1, <1>2, EndsWithTail
<1>5. Len(cur) = Len(journal.current) + 1
  BY <1>1, <1>3
<1> HIDE DEF h, rest
<1>6. /\ cur \in Seq(Evs) /\ Range(cur) = Range(journal.current) \union {h} /\ Rises(cur)
  BY <1>1, <1>3, RangeAppend DEF Before
<1>7. Len(cur) <= FileMax
  <2>1. Len(journal.current) \in Nat
    BY <1>1
  <2> HIDE DEF cur
  <2> QED BY <1>2, <1>5, <2>1, EventsAssumption
<1> HIDE DEF cur
<1>8. /\ journal'.old = journal.old /\ journal'.current = cur
      /\ journal' \in [old: EventSeqs, current: EventSeqs]
  BY <1>1, <1>2, <1>6, EventNumbers
<1>9. EventsTypeOK'
  BY <1>1, <1>2, <1>3, <1>7, <1>8, WriterTyped
<1>10. Logged' = Logged
  BY <1>2, <1>3, <1>6, <1>8 DEF Logged
<1>11. Before(journal.old, cur) /\ Before(journal.old, rest) /\ Before(cur, rest)
  BY <1>1, <1>3, <1>6 DEF Before
<1>12. Missing' = Missing
  BY <1>2, <1>10 DEF Missing
<1>13. ToCome'
  <2>1. CASE link.stage = "read"
    <3>1. Before(link.out, rest)
      BY <1>3, <2>1 DEF EventsIInv, ToCome, Before
    <3>2. "old" \in Range(link.files) => journal.old # << >> /\ link.out = << >>
      BY <2>1 DEF EventsIInv, ToCome
    <3>3. "current" \in Range(link.files) => Before(link.out, cur)
      BY <1>3, <1>6, <2>1 DEF EventsIInv, ToCome, Before
    <3>4. \A e \in Missing :
                \/ e \in Range(link.out)
                \/ e \in Range(journal.old) /\ "old" \in Range(link.files)
                \/ e \in Range(cur) /\ "current" \in Range(link.files)
                \/ /\ e \notin Range(journal.old) /\ Before(link.out, <<e>>)
                   /\ \/ e \in Range(link.snap)
                      \/ e \in Range(queue) /\ Before(link.snap, <<e>>)
      BY <1>6, <2>1 DEF EventsIInv, ToCome
    <3> QED BY <1>2, <1>8, <1>12, <2>1, <3>1, <3>2, <3>3, <3>4 DEF ToCome
  <2>2. CASE link.stage # "read"
    BY <1>2, <1>12, <2>2 DEF EventsIInv, ToCome
  <2> QED BY <2>1, <2>2
<1> QED BY <1>1, <1>2, <1>3, <1>4, <1>6, <1>8, <1>9, <1>10, <1>11, <1>13, WriterStands

LEMMA JournalFailsSound == EventsIInv /\ JournalFails => EventsIInv'
<1> SUFFICES ASSUME EventsIInv, JournalFails PROVE EventsIInv'
  OBVIOUS
<1> DEFINE h == Head(unwritten)
           rest == Tail(unwritten)
<1>1. /\ EventsTypeOK /\ troubles \in Troubles /\ excused \subseteq 1..MaxEvents
      /\ journal \in [old: EventSeqs, current: EventSeqs] /\ Len(journal.current) <= FileMax
      /\ unwritten \in Seq(Evs)
      /\ ring \in Seq(Evs) /\ Rises(journal.old) /\ Rises(journal.current) /\ Rises(unwritten)
      /\ Before(journal.old, journal.current) /\ Before(journal.old, unwritten)
      /\ Before(journal.current, unwritten) /\ EndsWith(ring, unwritten)
  BY TypedParts, EventsTyped, AllRise DEF EventsIInv, StreamKept, RingKept
<1>2. /\ UNCHANGED <<ring, seqNo, journal, link, queue, page, happened>>
      /\ unwritten # << >> /\ unwritten' = rest /\ excused' = excused \union {h.n}
      /\ troubles.writes < MaxFailures
      /\ troubles' = [troubles EXCEPT !.writes = @ + 1]
  BY DEF JournalFails
<1>3. /\ h \in Evs /\ rest \in Seq(Evs) /\ Range(unwritten) = {h} \union Range(rest)
      /\ Rises(rest)
  BY <1>1, <1>2, RangeTail
<1>4. EndsWith(ring, rest)
  BY <1>1, <1>2, EndsWithTail
<1> HIDE DEF h, rest
<1>5. troubles' \in Troubles /\ troubles'.restarts = troubles.restarts
  <2>1. troubles.writes \in 0..MaxFailures /\ MaxFailures \in Nat
    BY <1>1, EventsAssumption DEF Troubles
  <2>2. troubles.writes + 1 \in 0..MaxFailures
    BY <1>2, <2>1
  <2> QED BY <1>1, <1>2, <2>2 DEF Troubles
<1>6. excused' \subseteq 1..MaxEvents /\ excused \subseteq excused' /\ h.n \in excused'
  BY <1>1, <1>2, <1>3 DEF Evs
<1>7. EventsTypeOK'
  BY <1>1, <1>2, <1>3, <1>5, <1>6, WriterTyped
<1>8. Logged' \subseteq Logged /\ \A e \in Logged : e \in Logged' \/ e.n \in excused'
  <2>1. /\ Logged = UNION {Range(journal.old), Range(journal.current), {h}, Range(rest)}
        /\ Logged' = UNION {Range(journal.old), Range(journal.current), Range(rest)}
    BY <1>2, <1>3 DEF Logged
  <2> QED BY <1>6, <2>1
<1>9. Before(journal.old, rest) /\ Before(journal.current, rest)
  BY <1>1, <1>3 DEF Before
<1>10. Missing' \subseteq Missing
  BY <1>2, <1>6, <1>8 DEF Missing
<1>11. ToCome'
  <2>1. CASE link.stage = "read"
    <3>1. Before(link.out, rest)
      BY <1>3, <2>1 DEF EventsIInv, ToCome, Before
    <3> QED BY <1>2, <1>10, <2>1, <3>1 DEF EventsIInv, ToCome
  <2>2. CASE link.stage # "read"
    BY <1>2, <1>10, <2>2 DEF EventsIInv, ToCome
  <2> QED BY <2>1, <2>2
<1> QED BY <1>1, <1>2, <1>3, <1>4, <1>5, <1>6, <1>7, <1>8, <1>9, <1>11, WriterStands

LEMMA JournalRotateSound == EventsIInv /\ JournalRotate => EventsIInv'
<1> SUFFICES ASSUME EventsIInv, JournalRotate PROVE EventsIInv'
  OBVIOUS
<1>1. /\ EventsTypeOK /\ troubles \in Troubles /\ excused \subseteq 1..MaxEvents
      /\ journal \in [old: EventSeqs, current: EventSeqs]
      /\ journal.old \in Seq(Evs) /\ journal.current \in Seq(Evs) /\ unwritten \in Seq(Evs)
      /\ Rises(journal.current) /\ Rises(unwritten)
      /\ Before(journal.current, unwritten) /\ EndsWith(ring, unwritten)
  BY TypedParts, EventsTyped, AllRise DEF EventsIInv, StreamKept, RingKept
<1>2. /\ UNCHANGED <<ring, seqNo, unwritten, link, queue, page, happened, troubles>>
      /\ Len(journal.current) >= FileMax
      /\ journal' = [old |-> journal.current, current |-> << >>]
      /\ excused' = excused \union Ns(journal.old)
                     \union (IF link.stage = "read" THEN Ns(journal.current) ELSE {})
  BY DEF JournalRotate
<1>3. /\ journal'.old = journal.current /\ journal'.current = << >> /\ Len(journal'.current) <= FileMax
      /\ journal' \in [old: EventSeqs, current: EventSeqs]
  BY <1>1, <1>2, EmptyForm, EventNumbers, EventsAssumption
<1>4. excused' \subseteq 1..MaxEvents /\ excused \subseteq excused' /\ Ns(journal.old) \subseteq excused'
  BY <1>1, <1>2, NsTyped
<1>5. EventsTypeOK'
  BY <1>1, <1>2, <1>3, <1>4, WriterTyped
<1>6. /\ Logged' = Range(journal.current) \union Range(unwritten)
      /\ Logged = UNION {Range(journal.old), Range(journal.current), Range(unwritten)}
  BY <1>2, <1>3, EmptyForm DEF Logged
<1>7. \A e \in Logged : e \in Logged' \/ e.n \in excused'
  BY <1>1, <1>4, <1>6, NsTyped
<1>8. Logged' \subseteq Logged
  BY <1>6
<1>9. Missing' \subseteq Missing
  BY <1>2, <1>4, <1>8 DEF Missing
<1>10. Before(journal'.old, journal'.current) /\ Before(journal'.current, unwritten)
  BY <1>3, EmptyForm DEF Before
<1>11. ToCome'
  <2>1. CASE link.stage = "read"
    <3>1. \A e \in Missing' : e \notin Range(journal.old) /\ e \notin Range(journal.current)
      <4>1. Ns(journal.current) \subseteq excused'
        BY <1>2, <2>1
      <4> QED BY <1>1, <1>4, <4>1, NsTyped DEF Missing
    <3>2. journal'.old # << >>
      BY <1>1, <1>2, <1>3, EmptyQueue, EventsAssumption
    <3>3. Before(link.out, journal'.current)
      BY <1>3, EmptyForm DEF Before
    <3> QED BY <1>2, <1>3, <1>9, <2>1, <3>1, <3>2, <3>3 DEF EventsIInv, ToCome
  <2>2. CASE link.stage # "read"
    BY <1>2, <1>9, <2>2 DEF EventsIInv, ToCome
  <2> QED BY <2>1, <2>2
<1> QED BY <1>1, <1>2, <1>3, <1>4, <1>5, <1>7, <1>8, <1>10, <1>11, EmptyForm, WriterStands

-----------------------------------------------------------------------------
(* An event happens; the server starts again.                                 *)

\* A new event is after all that there are.
LEMMA NewestLast ==
    ASSUME EventsIInv, happened < MaxEvents, NEW e, e = Event(happened + 1, seqNo + 1)
    PROVE  /\ e \in Evs /\ e.n = happened + 1 /\ e.seq = seqNo + 1
           /\ happened + 1 \in 0..MaxEvents /\ seqNo + 1 \in 0..MaxEvents
           /\ \A f \in Around : Earlier(f, e)
<1>1. /\ happened \in Int /\ seqNo \in Int /\ happened >= 0 /\ seqNo >= 0 /\ MaxEvents \in Int
      /\ Around \subseteq Evs
  BY EventsTyped DEF EventsIInv
<1>2. seqNo <= happened /\ \A f \in Around : f.n <= happened /\ f.seq <= seqNo
  BY DEF EventsIInv, StreamKept
<1>3. e.n = happened + 1 /\ e.seq = seqNo + 1
  BY DEF Event
<1>4. happened + 1 \in 1..MaxEvents /\ seqNo + 1 \in 1..MaxEvents
  BY <1>1, <1>2
<1>5. e \in Evs
  BY <1>4 DEF Event, Evs
<1>6. \A f \in Around : Earlier(f, e)
  <2> TAKE f \in Around
  <2>1. f.n \in Int /\ f.seq \in Int
    BY <1>1, EventNumbers
  <2> QED BY <1>1, <1>2, <1>3, <2>1 DEF Earlier
<1> QED BY <1>1, <1>3, <1>4, <1>5, <1>6

\* The ring with a new event.
LEMMA RingGrows ==
    ASSUME EventsIInv, NEW e \in Evs, \A f \in Around : Earlier(f, e),
           Len(unwritten) < RingSize, NEW r, r = LastOf(Append(ring, e), RingSize)
    PROVE  /\ r \in Seq(Evs) /\ Len(r) <= RingSize /\ r # << >> /\ Rises(r)
           /\ Range(r) \subseteq Range(ring) \union {e}
           /\ EndsWith(r, Append(unwritten, e))
           /\ \A f \in Logged \union {e} : f.seq >= r[1].seq => f \in Range(r)
<1> DEFINE s == Append(ring, e)
           u == Append(unwritten, e)
<1>1. /\ EventsTypeOK /\ ring \in Seq(Evs) /\ unwritten \in Seq(Evs) /\ Rises(ring)
      /\ EndsWith(ring, unwritten) /\ Range(ring) \subseteq Around
  BY EventsTyped, AllRise, AroundParts DEF EventsIInv, RingKept
<1>2. /\ s \in Seq(Evs) /\ s # << >> /\ Range(s) = Range(ring) \union {e} /\ Rises(s)
      /\ u \in Seq(Evs)
  BY <1>1, RangeAppend
<1>3. /\ Len(s) = Len(ring) + 1 /\ Len(u) = Len(unwritten) + 1
      /\ Len(ring) \in Nat /\ Len(unwritten) \in Nat
  BY <1>1
<1>4. ring # << >> => s[1] = ring[1]
  BY <1>1
<1>5. EndsWith(s, u)
  BY <1>1, EndsWithAppend
<1> HIDE DEF s, u
<1>6. /\ r \in Seq(Evs) /\ Len(r) <= RingSize /\ r # << >> /\ Rises(r) /\ EndsWith(s, r)
      /\ Len(r) = IF Len(s) <= RingSize THEN Len(s) ELSE RingSize
      /\ Range(r) \subseteq Range(s)
      /\ \A f \in Range(s) : f.seq >= r[1].seq => f \in Range(r)
  BY <1>2, LastForm, EventsAssumption DEF s
<1>7. EndsWith(r, u)
  <2>1. Len(u) <= Len(s)
    BY <1>5 DEF EndsWith
  <2>2. Len(u) <= Len(r)
    BY <1>3, <1>6, <2>1, EventsAssumption
  <2> QED BY <1>2, <1>5, <1>6, <2>2, EndsWithBoth
<1>8. ASSUME NEW f \in Logged, f.seq >= r[1].seq PROVE f \in Range(s)
  <2>1. ring # << >>
    BY DEF EventsIInv, RingKept
  <2>2. r[1] \in Range(s) /\ (r[1] = s[1] \/ Earlier(s[1], r[1]))
    BY <1>2, <1>6, FirstLeast
  <2>3. s[1] \in Range(s) /\ s[1] \in Evs /\ r[1] \in Evs /\ f \in Evs
    BY <1>1, <1>2, <2>2, FirstLeast, RangeForm, EventsTyped
  <2>4. r[1].seq >= s[1].seq
    BY <2>2, <2>3, EventNumbers DEF Earlier
  <2>5. f.seq >= ring[1].seq
    BY <1>4, <1>8, <2>1, <2>3, <2>4, EventNumbers
  <2>6. f \in Range(ring)
    BY <2>1, <2>5 DEF EventsIInv, RingKept
  <2> QED BY <1>2, <2>6
<1>9. \A f \in Logged \union {e} : f.seq >= r[1].seq => f \in Range(r)
  BY <1>2, <1>6, <1>8
<1> QED BY <1>2, <1>6, <1>7, <1>9 DEF u

\* The queue of a connection with a new event.
LEMMA QueueGrows ==
    ASSUME EventsIInv, NEW e \in Evs, \A f \in Around : Earlier(f, e),
           NEW q, q = Append(IF Len(queue) >= QueueMax THEN Tail(queue) ELSE queue, e)
    PROVE  /\ q \in Seq(Evs) /\ Len(q) <= QueueMax /\ Rises(q)
           /\ Range(q) \subseteq Range(queue) \union {e} /\ e \in Range(q)
           /\ \A f \in Range(queue) : f \in Range(q) \/ (Len(queue) >= QueueMax /\ f = Head(queue))
           /\ Len(queue) >= QueueMax => Head(queue) \in Evs
<1> DEFINE s == IF Len(queue) >= QueueMax THEN Tail(queue) ELSE queue
<1>1. /\ EventsTypeOK /\ queue \in Seq(Evs) /\ Len(queue) <= QueueMax /\ Rises(queue)
      /\ Range(queue) \subseteq Around /\ Len(queue) \in Nat
  BY TypedParts, EventsTyped, AllRise, AroundParts DEF EventsIInv
<1>2. /\ s \in Seq(Evs) /\ Rises(s) /\ Range(s) \subseteq Range(queue) /\ Len(s) + 1 <= QueueMax
      /\ \A f \in Range(queue) : f \in Range(s) \/ (Len(queue) >= QueueMax /\ f = Head(queue))
      /\ Len(queue) >= QueueMax => Head(queue) \in Evs
  <2>1. CASE Len(queue) >= QueueMax
    <3>1. queue # << >>
      BY <1>1, <2>1, EventsAssumption
    <3>2. /\ Tail(queue) \in Seq(Evs) /\ Len(Tail(queue)) = Len(queue) - 1 /\ Head(queue) \in Evs
          /\ Range(queue) = {Head(queue)} \union Range(Tail(queue)) /\ Rises(Tail(queue))
      BY <1>1, <3>1, RangeTail
    <3> QED BY <1>1, <2>1, <3>2, EventsAssumption
  <2>2. CASE ~(Len(queue) >= QueueMax)
    BY <1>1, <2>2, EventsAssumption
  <2> QED BY <2>1, <2>2
<1> HIDE DEF s
<1>3. /\ q \in Seq(Evs) /\ Range(q) = Range(s) \union {e} /\ Rises(q)
  BY <1>1, <1>2, RangeAppend DEF s
<1>4. Len(q) = Len(s) + 1
  BY <1>2 DEF s
<1> QED BY <1>1, <1>2, <1>3, <1>4

LEMMA BroadcastSound == EventsIInv /\ Broadcast => EventsIInv'
<1> SUFFICES ASSUME EventsIInv, Broadcast PROVE EventsIInv'
  OBVIOUS
<1> DEFINE e == Event(happened + 1, seqNo + 1)
           full == Len(queue) >= QueueMax
           q == Append(IF full THEN Tail(queue) ELSE queue, e)
           late == troubles.restarts > 0 /\ e.seq <= page.last
<1>1. /\ EventsTypeOK /\ troubles \in Troubles /\ page \in Pages /\ link \in Links
      /\ excused \subseteq 1..MaxEvents /\ journal \in [old: EventSeqs, current: EventSeqs]
      /\ Len(journal.current) <= FileMax /\ queue \in Seq(Evs) /\ Len(queue) <= QueueMax
      /\ unwritten \in Seq(Evs) /\ page.last \in Int /\ seqNo \in Int /\ happened \in Int
      /\ link.snap \in Seq(Evs) /\ link.out \in Seq(Evs) /\ happened >= 0
      /\ Around \subseteq Evs /\ Logged \subseteq Around /\ Missing \subseteq Logged
  BY TypedParts, EventsTyped, LoggedAround DEF EventsIInv
<1>2. /\ happened < MaxEvents /\ Len(unwritten) < RingSize
      /\ happened' = e.n /\ seqNo' = e.seq
      /\ ring' = LastOf(Append(ring, e), RingSize)
      /\ unwritten' = Append(unwritten, e)
      /\ queue' = IF link.stage = "off" THEN queue ELSE q
      /\ excused' = excused \union (IF full THEN {Head(queue).n} ELSE {})
                            \union (IF late THEN {e.n} ELSE {})
      /\ UNCHANGED <<journal, link, page, troubles>>
  BY DEF Broadcast
<1>3. /\ e \in Evs /\ e.n = happened + 1 /\ e.seq = seqNo + 1
      /\ happened + 1 \in 0..MaxEvents /\ seqNo + 1 \in 0..MaxEvents
      /\ \A f \in Around : Earlier(f, e)
  BY <1>2, NewestLast
<1> HIDE DEF e
<1>4. /\ ring' \in Seq(Evs) /\ Len(ring') <= RingSize /\ ring' # << >> /\ Rises(ring')
      /\ Range(ring') \subseteq Range(ring) \union {e}
      /\ EndsWith(ring', unwritten')
      /\ \A f \in Logged \union {e} : f.seq >= ring'[1].seq => f \in Range(ring')
  BY <1>2, <1>3, RingGrows
<1>5. /\ q \in Seq(Evs) /\ Len(q) <= QueueMax /\ Rises(q)
      /\ Range(q) \subseteq Range(queue) \union {e} /\ e \in Range(q)
      /\ \A f \in Range(queue) : f \in Range(q) \/ (full /\ f = Head(queue))
      /\ full => Head(queue) \in Evs
  BY <1>3, QueueGrows
<1> HIDE DEF q, full
<1>6. /\ queue' \in Seq(Evs) /\ Len(queue') <= QueueMax /\ Rises(queue')
      /\ Range(queue') \subseteq Range(queue) \union {e}
  <2>1. Rises(queue)
    BY AllRise DEF EventsIInv
  <2> QED BY <1>1, <1>2, <1>5, <2>1
<1>7. /\ unwritten' \in Seq(Evs) /\ Range(unwritten') = Range(unwritten) \union {e}
      /\ Rises(unwritten')
  <2>1. Rises(unwritten) /\ \A f \in Range(unwritten) : Earlier(f, e)
    BY <1>1, <1>3, AllRise, AroundParts DEF EventsIInv
  <2> QED BY <1>1, <1>2, <1>3, <2>1, RangeAppend
<1>8. excused' \subseteq 1..MaxEvents /\ excused \subseteq excused' /\ (late => e.n \in excused')
         /\ (full => Head(queue).n \in excused')
  <2>1. full => Head(queue).n \in 1..MaxEvents
    BY <1>5 DEF Evs
  <2>2. e.n \in 1..MaxEvents
    BY <1>3 DEF Evs
  <2> QED BY <1>1, <1>2, <2>1, <2>2
<1>9. EventsTypeOK'
  <2>1. /\ journal' \in [old: EventSeqs, current: EventSeqs] /\ Len(journal'.current) <= FileMax
        /\ seqNo' \in 0..MaxEvents /\ happened' \in 0..MaxEvents
        /\ link' \in Links /\ page' \in Pages /\ troubles' \in Troubles
    BY <1>1, <1>2, <1>3
  <2> QED BY <1>4, <1>6, <1>7, <1>8, <2>1, EventNumbers DEF EventsTypeOK, Links, Pages, Troubles
<1>10. Logged' = Logged \union {e}
  BY <1>2, <1>7 DEF Logged
<1>11. Around' \subseteq Around \union {e}
  <2>1. Range(link'.snap) = Range(link.snap) /\ Range(link'.out) = Range(link.out)
    BY <1>2
  <2> QED BY <1>4, <1>6, <1>10, <2>1 DEF Around
<1>12. StreamKept'
  <2>1. seqNo' <= happened'
    BY <1>1, <1>2, <1>3 DEF EventsIInv, StreamKept
  <2>2. ASSUME NEW f \in Around' PROVE f.n <= happened' /\ f.seq <= seqNo'
    <3>1. CASE f \in Around
      <4>1. f.n <= happened /\ f.seq <= seqNo /\ f.n \in Int /\ f.seq \in Int
        BY <1>1, <3>1, EventNumbers DEF EventsIInv, StreamKept
      <4> QED BY <1>1, <1>2, <1>3, <4>1
    <3>2. CASE f = e
      BY <1>1, <1>2, <1>3, <3>2
    <3> QED BY <1>11, <2>2, <3>1, <3>2
  <2>3. \A f, g \in Around' : f = g \/ Earlier(f, g) \/ Earlier(g, f)
    <3> TAKE f, g \in Around'
    <3>1. (f \in Around \/ f = e) /\ (g \in Around \/ g = e)
      BY <1>11
    <3>2. CASE f \in Around /\ g \in Around
      BY <3>2 DEF EventsIInv, StreamKept
    <3> QED BY <1>3, <3>1, <3>2
  <2>4. /\ Rises(journal'.old) /\ Rises(journal'.current) /\ Rises(link'.snap) /\ Rises(link'.out)
    BY <1>2, AllRise DEF EventsIInv
  <2>5. /\ Before(journal'.old, journal'.current) /\ Before(journal'.old, unwritten')
        /\ Before(journal'.current, unwritten')
    <3>1. \A f \in Range(journal.old) \union Range(journal.current) : Earlier(f, e)
      BY <1>1, <1>3, AroundParts
    <3>2. /\ Before(journal.old, journal.current) /\ Before(journal.old, unwritten)
          /\ Before(journal.current, unwritten)
      BY DEF EventsIInv, StreamKept
    <3> QED BY <1>2, <1>7, <3>1, <3>2 DEF Before
  <2> QED BY <1>4, <1>6, <1>7, <2>1, <2>2, <2>3, <2>4, <2>5 DEF StreamKept
<1>13. RingKept'
  BY <1>4, <1>10 DEF RingKept
<1>14. Accounted'
  <2> SUFFICES ASSUME NEW n \in 1..happened' PROVE n \in excused' \/ \E f \in Logged' : f.n = n
    BY DEF Accounted
  <2>1. n \in 1..happened \/ n = happened + 1
    BY <1>1, <1>2, <1>3
  <2>2. CASE n \in 1..happened
    BY <1>8, <1>10, <2>2 DEF EventsIInv, Accounted
  <2>3. CASE n = happened + 1
    BY <1>3, <1>10, <2>3
  <2> QED BY <2>1, <2>2, <2>3
<1>15. \A f \in Missing' : (f \in Missing /\ f \in Evs) \/ (f = e /\ ~late)
  BY <1>1, <1>2, <1>8, <1>10 DEF Missing
<1>16. PageKept'
  <2>0. /\ page.got \subseteq 1..happened /\ link.cursor <= page.last
        /\ troubles.restarts = 0 => page.last <= seqNo
        /\ \A f \in Missing : f.seq > page.last
    BY DEF EventsIInv, PageKept
  <2>1. page'.got \subseteq 1..happened'
    <3>1. 1..happened \subseteq 1..happened'
      BY <1>1, <1>2, <1>3
    <3> QED BY <1>2, <2>0, <3>1
  <2>2. troubles'.restarts = 0 => page'.last <= seqNo'
    BY <1>1, <1>2, <1>3, <2>0
  <2>3. link'.cursor <= page'.last
    BY <1>2, <2>0
  <2>4. ASSUME NEW f \in Missing' PROVE f.seq > page'.last
    <3>1. CASE f \in Missing
      BY <1>2, <2>0, <3>1
    <3>2. CASE f = e /\ ~late
      <4>1. troubles.restarts \in Nat
        BY <1>1, EventsAssumption DEF Troubles
      <4>2. CASE troubles.restarts = 0
        BY <1>1, <1>2, <1>3, <2>0, <3>2, <4>2
      <4>3. CASE troubles.restarts > 0
        BY <1>1, <1>2, <1>3, <3>2, <4>3
      <4> QED BY <4>1, <4>2, <4>3
    <3> QED BY <1>15, <2>4, <3>1, <3>2
  <2>5. ASSUME NEW n \in 1..happened', NEW later \in page'.got, later > n
        PROVE  n \in page'.got \union excused'
    <3>1. later \in page.got /\ later \in 1..happened
      BY <1>2, <2>0, <2>5
    <3>2. n \in 1..happened
      BY <1>1, <1>2, <1>3, <2>5, <3>1
    <3> QED BY <1>2, <1>8, <2>5, <3>1, <3>2 DEF EventsIInv, PageKept
  <2> QED BY <2>1, <2>2, <2>3, <2>4, <2>5 DEF PageKept
<1>17. link.stage # "off" =>
          /\ e \in Range(queue')
          /\ \A f \in Missing' : f \in Range(queue) => f \in Range(queue')
  BY <1>2, <1>5, <1>8 DEF Missing
<1>18. Before(link.out, <<e>>) /\ Before(link.snap, <<e>>) /\ e \notin Range(journal.old)
  <2>1. \A f \in Range(link.out) \union Range(link.snap) : Earlier(f, e)
    BY <1>3, AroundParts
  <2>2. e \notin Around
    BY <1>3, EarlierOrder
  <2> QED BY <1>1, <1>3, <2>1, <2>2, BeforeOne, AroundParts
<1>19. ToCome'
  <2>1. CASE link.stage \in {"send", "answer"}
    <3>1. \A f \in Missing' :
             f \in Range(link.out) \/ (f \in Range(queue') /\ Before(link.out, <<f>>))
      <4> TAKE f \in Missing'
      <4>1. CASE f \in Missing
        BY <1>17, <2>1, <4>1 DEF EventsIInv, ToCome
      <4>2. CASE f = e
        BY <1>17, <1>18, <2>1, <4>2
      <4> QED BY <1>15, <4>1, <4>2
    <3> QED BY <1>2, <2>1, <3>1 DEF ToCome
  <2>2. CASE link.stage = "live"
    <3>1. Missing' \subseteq Range(queue')
      BY <1>15, <1>17, <2>2 DEF EventsIInv, ToCome
    <3> QED BY <1>2, <2>2, <3>1 DEF ToCome
  <2>3. CASE link.stage = "read"
    <3>1. Before(link.out, unwritten')
      <4>1. Before(link.out, unwritten)
        BY <2>3 DEF EventsIInv, ToCome
      <4>2. \A f \in Range(link.out) : Earlier(f, e)
        BY <1>1, <1>3, <1>18, BeforeOne
      <4> QED BY <1>7, <4>1, <4>2 DEF Before
    <3>2. /\ "old" \in Range(link.files) => journal.old # << >> /\ link.out = << >>
          /\ "current" \in Range(link.files) => Before(link.out, journal.current)
      BY <2>3 DEF EventsIInv, ToCome
    <3>3. ASSUME NEW f \in Missing'
          PROVE  \/ f \in Range(link.out)
                 \/ f \in Range(journal.old) /\ "old" \in Range(link.files)
                 \/ f \in Range(journal.current) /\ "current" \in Range(link.files)
                 \/ /\ f \notin Range(journal.old) /\ Before(link.out, <<f>>)
                    /\ \/ f \in Range(link.snap)
                       \/ f \in Range(queue') /\ Before(link.snap, <<f>>)
      <4>1. CASE f \in Missing
        BY <1>17, <2>3, <3>3, <4>1 DEF EventsIInv, ToCome
      <4>2. CASE f = e
        BY <1>17, <1>18, <2>3, <4>2
      <4> QED BY <1>15, <3>3, <4>1, <4>2
    <3> QED BY <1>2, <2>3, <3>1, <3>2, <3>3 DEF ToCome
  <2>4. CASE link.stage = "ring"
    BY <1>2, <2>4 DEF EventsIInv, ToCome
  <2>5. CASE link.stage = "off"
    BY <1>2, <2>5 DEF ToCome
  <2> QED BY <1>1, <2>1, <2>2, <2>3, <2>4, <2>5, LinkParts
<1> QED BY <1>9, <1>12, <1>13, <1>14, <1>16, <1>19 DEF EventsIInv

LEMMA LastOfNothing ==
    ASSUME NEW size \in Nat \ {0}
    PROVE  LastOf(<< >>, size) = << >>
<1> DEFINE m == Max({1, Len(<< >>) - size + 1})
<1>1. m = 1
  BY DEF Max
<1> HIDE DEF m
<1>2. SubSeq(<< >>, m, Len(<< >>)) = << >>
  BY <1>1
<1> QED BY <1>2 DEF LastOf, m

LEMMA RestartSound == EventsIInv /\ Restart => EventsIInv'
<1> SUFFICES ASSUME EventsIInv, Restart PROVE EventsIInv'
  OBVIOUS
<1> DEFINE lines == journal.old \o journal.current
           l == LastOf(lines, 1)
<1>1. /\ EventsTypeOK /\ troubles \in Troubles /\ page \in Pages
      /\ excused \subseteq 1..MaxEvents /\ journal \in [old: EventSeqs, current: EventSeqs]
      /\ Len(journal.current) <= FileMax
      /\ journal.old \in Seq(Evs) /\ journal.current \in Seq(Evs) /\ unwritten \in Seq(Evs)
      /\ Rises(journal.old) /\ Rises(journal.current) /\ Before(journal.old, journal.current)
      /\ happened \in 0..MaxEvents /\ seqNo \in 0..MaxEvents /\ seqNo <= happened
      /\ page.last \in Int /\ page.last >= 0 /\ Around \subseteq Evs
  BY TypedParts, EventsTyped, AllRise DEF EventsIInv, StreamKept
<1>2. /\ troubles.restarts < MaxRestarts
      /\ ring' = LastOf(lines, RingSize) /\ seqNo' = Highest(l, 0)
      /\ excused' = excused \union Ns(unwritten)
      /\ unwritten' = << >> /\ link' = Off /\ queue' = << >>
      /\ troubles' = [troubles EXCEPT !.restarts = @ + 1]
      /\ UNCHANGED <<journal, page, happened>>
  BY DEF Restart
<1>3. /\ lines \in Seq(Evs) /\ Range(lines) = Range(journal.old) \union Range(journal.current)
      /\ Rises(lines)
  BY <1>1, RangeConcat
<1> HIDE DEF lines
<1>4. Logged' = Range(lines) /\ Logged = Range(lines) \union Range(unwritten)
  BY <1>2, <1>3, EmptyForm DEF Logged
<1>5. /\ ring' \in Seq(Evs) /\ Len(ring') <= RingSize /\ Rises(ring')
      /\ Range(ring') \subseteq Range(lines)
      /\ ring' = << >> => lines = << >>
      /\ ring' # << >> => \A e \in Range(lines) : e.seq >= ring'[1].seq => e \in Range(ring')
  <2>1. CASE lines = << >>
    <3>1. ring' = << >>
      BY <1>2, <2>1, LastOfNothing, EventsAssumption
    <3> QED BY <2>1, <3>1, EmptyForm, EventsAssumption
  <2>2. CASE lines # << >>
    BY <1>2, <1>3, <2>2, LastForm, EventsAssumption
  <2> QED BY <2>1, <2>2
<1>6. /\ l \in Seq(Evs) /\ Rises(l) /\ Range(l) \subseteq Range(lines)
      /\ \A e \in Range(lines) : \E f \in Range(l) : e.seq <= f.seq
  <2>1. CASE lines = << >>
    <3>1. l = << >>
      BY <2>1, LastOfNothing
    <3> QED BY <2>1, <3>1, EmptyForm
  <2>2. CASE lines # << >>
    <3>1. /\ l \in Seq(Evs) /\ l # << >> /\ Rises(l) /\ Range(l) \subseteq Range(lines)
          /\ \A e \in Range(lines) : e.seq >= l[1].seq => e \in Range(l)
      BY <1>3, <2>2, LastForm
    <3> HIDE DEF l
    <3>2. l[1] \in Range(l) /\ l[1] \in Evs
      BY <3>1, FirstLeast, RangeForm
    <3>3. ASSUME NEW e \in Range(lines) PROVE \E f \in Range(l) : e.seq <= f.seq
      <4>1. e.seq \in Int /\ l[1].seq \in Int
        BY <1>3, <3>2, RangeForm, EventNumbers
      <4>2. CASE e.seq >= l[1].seq
        BY <3>1, <4>1, <4>2
      <4>3. CASE ~(e.seq >= l[1].seq)
        BY <3>2, <4>1, <4>3
      <4> QED BY <4>2, <4>3
    <3> QED BY <3>1, <3>3
  <2> QED BY <2>1, <2>2
<1> HIDE DEF l
<1>7. /\ seqNo' \in {0} \union {e.seq : e \in Range(l)} /\ seqNo' \in Int /\ seqNo' >= 0
      /\ \A e \in Range(l) : seqNo' >= e.seq
  BY <1>2, <1>6, HighestForm
<1>8. \A e \in Range(lines) : e.seq <= seqNo' /\ e.seq <= seqNo /\ e.n <= happened /\ e.seq \in Int
                                 /\ e \in Around
  <2> TAKE e \in Range(lines)
  <2>1. e \in Around
    BY <1>4, LoggedAround
  <2>2. PICK f \in Range(l) : e.seq <= f.seq
    BY <1>6
  <2>3. e.seq \in Int /\ f.seq \in Int /\ f.seq <= seqNo'
    BY <1>3, <1>6, <1>7, RangeForm, EventNumbers
  <2> QED BY <1>7, <2>1, <2>2, <2>3 DEF EventsIInv, StreamKept
<1>9. seqNo' <= seqNo /\ seqNo' \in 0..MaxEvents
  <2>1. \A e \in Range(l) : e.seq <= seqNo
    BY <1>6, <1>8
  <2>2. seqNo' <= seqNo
    BY <1>1, <1>7, <2>1
  <2> QED BY <1>1, <1>7, <2>2, EventNumbers
<1>10. troubles' \in Troubles /\ troubles'.restarts # 0
  <2>1. troubles.restarts \in 0..MaxRestarts /\ MaxRestarts \in Nat
    BY <1>1, EventsAssumption DEF Troubles
  <2>2. troubles.restarts + 1 \in 0..MaxRestarts /\ troubles.restarts + 1 # 0
    BY <1>2, <2>1
  <2> QED BY <1>1, <1>2, <2>2 DEF Troubles
<1>11. excused' \subseteq 1..MaxEvents /\ excused \subseteq excused'
          /\ \A e \in Range(unwritten) : e.n \in excused'
  BY <1>1, <1>2, NsTyped
<1>12. EventsTypeOK'
  <2>1. /\ unwritten' \in Seq(Evs) /\ queue' \in Seq(Evs) /\ Len(queue') <= QueueMax
        /\ journal' \in [old: EventSeqs, current: EventSeqs] /\ Len(journal'.current) <= FileMax
        /\ happened' \in 0..MaxEvents /\ link' \in Links /\ page' \in Pages
    BY <1>1, <1>2, EmptyForm, EmptyQueue, OffForm
  <2> QED BY <1>5, <1>9, <1>10, <1>11, <2>1, EventNumbers DEF EventsTypeOK, Links, Pages, Troubles
<1>13. Around' \subseteq Range(lines)
  <2>1. Range(queue') = {} /\ Range(link'.snap) = {} /\ Range(link'.out) = {}
    BY <1>2, OffForm, EmptyForm
  <2> QED BY <1>4, <1>5, <2>1 DEF Around
<1>14. StreamKept'
  <2>1. seqNo' <= happened' /\ \A e \in Around' : e.n <= happened' /\ e.seq <= seqNo'
    <3>1. seqNo' <= happened
      BY <1>1, <1>7, <1>9
    <3> QED BY <1>2, <1>8, <1>13, <3>1
  <2>2. \A e, f \in Around' : e = f \/ Earlier(e, f) \/ Earlier(f, e)
    BY <1>8, <1>13 DEF EventsIInv, StreamKept
  <2>3. /\ Rises(journal'.old) /\ Rises(journal'.current) /\ Rises(unwritten')
        /\ Rises(queue') /\ Rises(link'.snap) /\ Rises(link'.out)
    BY <1>1, <1>2, OffForm, EmptyForm
  <2>4. /\ Before(journal'.old, journal'.current) /\ Before(journal'.old, unwritten')
        /\ Before(journal'.current, unwritten')
    BY <1>1, <1>2, EmptyForm DEF Before
  <2> QED BY <1>5, <2>1, <2>2, <2>3, <2>4 DEF StreamKept
<1>15. RingKept'
  <2>1. EndsWith(ring', unwritten')
    <3>1. Len(unwritten') = 0 /\ DOMAIN unwritten' = {} /\ Len(ring') \in Nat
      BY <1>2, <1>5
    <3> QED BY <3>1 DEF EndsWith
  <2>2. ring' = << >> => Logged' = {}
    BY <1>4, <1>5, EmptyForm
  <2> QED BY <1>4, <1>5, <2>1, <2>2 DEF RingKept
<1>16. Accounted'
  BY <1>2, <1>4, <1>11 DEF EventsIInv, Accounted
<1>17. Missing' \subseteq Missing
  BY <1>2, <1>4, <1>11 DEF Missing
<1>18. PageKept'
  <2>1. link'.cursor <= page'.last
    BY <1>1, <1>2, OffForm
  <2> QED BY <1>2, <1>10, <1>11, <1>17, <2>1 DEF EventsIInv, PageKept
<1>19. ToCome'
  BY <1>2, OffForm DEF ToCome
<1> QED BY <1>12, <1>14, <1>15, <1>16, <1>18, <1>19 DEF EventsIInv

-----------------------------------------------------------------------------
(* The theorems.                                                              *)

LEMMA EventsInitSound == EventsInit => EventsIInv
<1> SUFFICES ASSUME EventsInit PROVE EventsIInv
  OBVIOUS
<1>1. /\ ring = << >> /\ seqNo = 0 /\ unwritten = << >> /\ journal = [old |-> << >>, current |-> << >>]
      /\ link = Off /\ queue = << >> /\ page = [last |-> 0, got |-> {}]
      /\ happened = 0 /\ excused = {} /\ troubles = [restarts |-> 0, drops |-> 0, writes |-> 0]
  BY DEF EventsInit
<1>2. MaxRestarts \in Nat /\ MaxFailures \in Nat /\ MaxEvents \in Nat /\ RingSize \in Nat /\ FileMax \in Nat
  BY EventsAssumption
<1>3. page \in Pages /\ troubles \in Troubles /\ link \in Links
  BY <1>1, <1>2, OffForm DEF Pages, Troubles
<1>4. EventsTypeOK
  <2>1. Len(<< >>) = 0
    OBVIOUS
  <2> QED BY <1>1, <1>2, <1>3, <2>1, EmptyForm, EmptyQueue, TypedParts
<1>5. Logged = {} /\ Around = {} /\ Missing = {}
  <2>1. Logged = {}
    BY <1>1, EmptyForm DEF Logged
  <2>2. Around = {}
    BY <1>1, <2>1, OffForm, EmptyForm DEF Around
  <2> QED BY <2>1, <2>2 DEF Missing
<1>6. StreamKept
  <2>1. \A s \in {journal.old, journal.current, unwritten, ring, queue, link.snap, link.out} : s = << >>
    BY <1>1, OffForm
  <2>2. /\ Before(journal.old, journal.current) /\ Before(journal.old, unwritten)
        /\ Before(journal.current, unwritten)
    BY <2>1, EmptyForm DEF Before
  <2> QED BY <1>1, <1>5, <2>1, <2>2, EmptyForm DEF StreamKept
<1>7. RingKept
  <2>1. Len(<< >>) = 0 /\ DOMAIN << >> = {}
    OBVIOUS
  <2> QED BY <1>1, <1>5, <2>1 DEF RingKept, EndsWith
<1>8. 1..happened = {}
  BY <1>1
<1>9. PageKept
  BY <1>1, <1>5, <1>8, OffForm DEF PageKept
<1>10. Accounted /\ ToCome
  BY <1>1, <1>8, OffForm DEF Accounted, ToCome
<1> QED BY <1>4, <1>6, <1>7, <1>9, <1>10 DEF EventsIInv

LEMMA EventsStutters == EventsIInv /\ UNCHANGED eventVars => EventsIInv'
<1> SUFFICES ASSUME EventsIInv, UNCHANGED eventVars PROVE EventsIInv'
  OBVIOUS
<1>1. UNCHANGED <<ring, seqNo, unwritten, journal, link, queue, page, happened, excused, troubles>>
  BY DEF eventVars
<1>2. Logged' = Logged /\ Around' = Around /\ Missing' = Missing
  BY <1>1 DEF Logged, Around, Missing
<1>3. EventsTypeOK'
  BY <1>1 DEF EventsIInv, EventsTypeOK
<1>4. StreamKept' /\ RingKept' /\ Accounted'
  BY <1>1, <1>2 DEF EventsIInv, StreamKept, RingKept, Accounted
<1>5. PageKept' /\ ToCome'
  BY <1>1, <1>2 DEF EventsIInv, PageKept, ToCome
<1> QED BY <1>3, <1>4, <1>5 DEF EventsIInv

LEMMA EventsStepSound == EventsIInv /\ [EventsNext]_eventVars => EventsIInv'
<1>1. EventsIInv /\ EventsNext => EventsIInv'
  BY BroadcastSound, JournalAppendSound, JournalFailsSound, JournalRotateSound, RestartSound,
     OpenPollSound, ReplayRingSound, ReplayFileSound, ReplayMergeSound, SendReplaySound,
     SendLiveSound, AnswerReplaySound, AnswerLiveSound, DropSound DEF EventsNext
<1> QED BY <1>1, EventsStutters

\* For any number of events, ring, queue and file sizes, failures and restarts: an event
\* is in the journal, about to be written or excused, and one the dashboard misses is
\* above its last number and on its way to it (Broadcaster, ws.py, and its readers).
THEOREM EventsSound == EventsSpec => []EventsIInv
<1> QED BY EventsInitSound, EventsStepSound, PTL DEF EventsSpec

\* The dashboard misses no event but an excused one, over a socket or by long polls,
\* over lost connections and restarts (ws_endpoint, get_events, replay_with_journal).
THEOREM NothingMissedHolds == EventsSpec => []NothingMissed
<1>1. EventsIInv => NothingMissed
  <2> SUFFICES ASSUME EventsIInv, NEW n \in 1..happened,
                      UpToDate \/ \E later \in page.got : later > n
               PROVE  n \in page.got \union excused
    BY DEF NothingMissed
  <2>1. CASE \E later \in page.got : later > n
    BY <2>1 DEF EventsIInv, PageKept
  <2>2. CASE UpToDate
    <3>1. Missing = {}
      BY <2>2, EmptyForm DEF UpToDate, EventsIInv, ToCome
    <3> QED BY <3>1, NotLoggedExcused DEF EventsIInv
  <2> QED BY <2>1, <2>2
<1> QED BY <1>1, EventsSound, PTL
=============================================================================
