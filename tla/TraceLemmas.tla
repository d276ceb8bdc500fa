---------------------------- MODULE TraceLemmas ----------------------------
(***************************************************************************)
(* Facts about the operators the traces are searched with.  The greatest   *)
(* and the least element of a non-empty set of indices exist because the   *)
(* sets of elements above (below) an element are well-founded by strict    *)
(* inclusion.  Induction over the natural numbers is stated for sets: the  *)
(* provers do not instantiate facts about any predicate.                   *)
(***************************************************************************)
EXTENDS Traces, FiniteSetTheorems, TLAPS

\* A set of indices with an element has a greatest one: the search of
\* RegFileTrace::getValue that found a write found a last write.
LEMMA MaxExists ==
  ASSUME NEW n \in Nat, NEW S \in SUBSET (1..n), S # {}
  PROVE  Max(S) \in S /\ \A x \in S : Max(S) >= x
<1> DEFINE Above(x) == {y \in S : y > x}
           T == {Above(x) : x \in S}
<1>1. IsWellFoundedOn(StrictSubsetOrdering(S), SUBSET S)
  <2>1. IsFiniteSet(S)
    <3>1. IsFiniteSet(1..n)
      BY FS_Interval
    <3>2. QED BY <3>1, FS_Subset
  <2>2. QED BY <2>1, FS_FiniteSubsetsOfFinite, FS_StrictSubsetOrderingWellFounded
<1>2. T \subseteq SUBSET S /\ T # {}
  OBVIOUS
<1>3. PICK t \in T : \A u \in T : ~(<<u, t>> \in StrictSubsetOrdering(S))
  <2> HIDE DEF T
  <2>1. QED BY <1>1, <1>2, WFMin
<1>4. PICK x \in S : t = Above(x)
  OBVIOUS
<1>5. ASSUME NEW y \in S, y > x
      PROVE  FALSE
  <2>1. Above(y) \in T /\ Above(y) \subseteq Above(x) /\ Above(y) # Above(x)
    <3>1. y \in Above(x) /\ y \notin Above(y)
      BY <1>5
    <3>2. ASSUME NEW z \in Above(y)
          PROVE  z \in Above(x)
      <4>1. z \in S /\ z > y
        OBVIOUS
      <4>2. z > x
        BY <1>5, <4>1
      <4>3. QED BY <4>1, <4>2
    <3>3. QED BY <3>1, <3>2
  <2>2. <<Above(y), t>> \in StrictSubsetOrdering(S)
    BY <1>4, <2>1 DEF StrictSubsetOrdering
  <2>3. QED BY <1>3, <2>1, <2>2
<1>6. \A y \in S : x >= y
  BY <1>5
<1>7. QED BY <1>6 DEF Max

\* A set of indices with an element has a least one: a continue that has a
\* breakpoint ahead of it has a first one.
LEMMA MinExists ==
  ASSUME NEW n \in Nat, NEW S \in SUBSET (1..n), S # {}
  PROVE  Min(S) \in S /\ \A x \in S : Min(S) <= x
<1> DEFINE Below(x) == {y \in S : y < x}
           T == {Below(x) : x \in S}
<1>1. IsWellFoundedOn(StrictSubsetOrdering(S), SUBSET S)
  <2>1. IsFiniteSet(S)
    <3>1. IsFiniteSet(1..n)
      BY FS_Interval
    <3>2. QED BY <3>1, FS_Subset
  <2>2. QED BY <2>1, FS_FiniteSubsetsOfFinite, FS_StrictSubsetOrderingWellFounded
<1>2. T \subseteq SUBSET S /\ T # {}
  OBVIOUS
<1>3. PICK t \in T : \A u \in T : ~(<<u, t>> \in StrictSubsetOrdering(S))
  <2> HIDE DEF T
  <2>1. QED BY <1>1, <1>2, WFMin
<1>4. PICK x \in S : t = Below(x)
  OBVIOUS
<1>5. ASSUME NEW y \in S, y < x
      PROVE  FALSE
  <2>1. Below(y) \in T /\ Below(y) \subseteq Below(x) /\ Below(y) # Below(x)
    <3>1. y \in Below(x) /\ y \notin Below(y)
      BY <1>5
    <3>2. ASSUME NEW z \in Below(y)
          PROVE  z \in Below(x)
      <4>1. z \in S /\ z < y
        OBVIOUS
      <4>2. z < x
        BY <1>5, <4>1
      <4>3. QED BY <4>1, <4>2
    <3>3. QED BY <3>1, <3>2
  <2>2. <<Below(y), t>> \in StrictSubsetOrdering(S)
    BY <1>4, <2>1 DEF StrictSubsetOrdering
  <2>3. QED BY <1>3, <2>1, <2>2
<1>6. \A y \in S : x <= y
  BY <1>5
<1>7. QED BY <1>6 DEF Min

\* A value cut down to a word (the cast to uint32_t) is a word.
LEMMA ModRange ==
  ASSUME NEW v \in Nat, NEW n \in Nat \ {0}
  PROVE  v % n \in 0..(n - 1)
OBVIOUS

\* The value found is that of a write to the address, no later than the time,
\* and no visited write to the address comes after it.
LEMMA ValueAtIsLastWrite ==
  ASSUME NEW trace \in Seq(Accesses), NEW time \in Nat, NEW addr,
         HasValue(trace, time, addr)
  PROVE  \E i \in DOMAIN trace :
            /\ trace[i].wr /\ trace[i].addr = addr /\ trace[i].time <= time
            /\ trace[i].value \in Nat
            /\ ValueAt(trace, time, addr) = trace[i].value
            /\ \A j \in WritesSeen(trace, time, addr) : j <= i
<1> DEFINE W == WritesSeen(trace, time, addr)
<1>1. W \in SUBSET (1..Len(trace)) /\ W # {}
  BY DEF WritesSeen, SeenAt, HasValue
<1>2. Max(W) \in W /\ \A j \in W : Max(W) >= j
  <2> HIDE DEF W
  <2>1. Len(trace) \in Nat
    OBVIOUS
  <2>2. QED BY <1>1, <2>1, MaxExists
<1>3. Max(W) \in DOMAIN trace /\ Max(W) \in 1..Len(trace)
  BY <1>1, <1>2
<1>4. /\ trace[Max(W)].wr /\ trace[Max(W)].addr = addr
      /\ trace[Max(W)].time <= time
  BY <1>2, <1>3 DEF WritesSeen, SeenAt
<1>5. trace[Max(W)].value \in Nat
  <2>1. trace[Max(W)] \in Accesses
    <3> HIDE DEF W
    <3>1. QED BY <1>3
  <2>2. QED BY <2>1 DEF Accesses
<1>6. \A j \in W : j <= Max(W)
  BY <1>1, <1>2, <1>3
<1>7. QED BY <1>3, <1>4, <1>5, <1>6 DEF ValueAt

-----------------------------------------------------------------------------
\* The value looked up, or a default where nothing was written.
Found(trace, time, addr, default) ==
    IF HasValue(trace, time, addr) THEN ValueAt(trace, time, addr) ELSE default

\* A trace with no entry later than a time.
UpTo(trace, time) == \A i \in DOMAIN trace : trace[i].time <= time

\* A search past the last entry visits them all.
LEMMA AllSeen ==
  ASSUME NEW trace \in Seq(Accesses), NEW time \in Nat, UpTo(trace, time)
  PROVE  SeenAt(trace, time) = DOMAIN trace
<1>1. DOMAIN trace = 1..Len(trace)
  OBVIOUS
<1>2. ASSUME NEW i \in 1..Len(trace), NEW j \in 1..i
      PROVE  j \in 1..Len(trace)
  OBVIOUS
<1>3. QED BY <1>1, <1>2 DEF SeenAt, UpTo

\* Once all entries are visited, a later search finds the same.
LEMMA FoundLater ==
  ASSUME NEW trace \in Seq(Accesses), NEW time \in Nat, NEW later \in Nat,
         UpTo(trace, time), time <= later, NEW addr, NEW default
  PROVE  Found(trace, later, addr, default) = Found(trace, time, addr, default)
<1>1. \A i \in DOMAIN trace : trace[i].time \in Nat
  <2>1. \A i \in DOMAIN trace : trace[i] \in Accesses
    OBVIOUS
  <2>2. QED BY <2>1 DEF Accesses
<1>2. UpTo(trace, later)
  BY <1>1 DEF UpTo
<1>3. SeenAt(trace, later) = SeenAt(trace, time)
  BY <1>2, AllSeen
<1>4. QED BY <1>3 DEF Found, HasValue, ValueAt, WritesSeen

\* What a write adds to the writes a search visits: itself, from its time on.
LEMMA WritesSeenAppend ==
  ASSUME NEW trace \in Seq(Accesses), NEW e \in Accesses, e.wr, UpTo(trace, e.time),
         NEW q \in Seq(Accesses), NEW n \in Nat, n = Len(trace),
         DOMAIN q = 1..(n + 1), \A i \in 1..n : q[i] = trace[i], q[n + 1] = e,
         NEW time \in Nat, NEW addr
  PROVE  WritesSeen(q, time, addr) =
            WritesSeen(trace, time, addr)
            \cup (IF e.time <= time /\ e.addr = addr THEN {n + 1} ELSE {})
<1>1. DOMAIN trace = 1..n
  OBVIOUS
<1>2. e.time \in Nat /\ \A i \in 1..n : trace[i].time \in Nat /\ trace[i].time <= e.time
  <2>1. \A i \in 1..n : trace[i] \in Accesses
    BY <1>1
  <2>2. QED BY <1>1, <2>1 DEF Accesses, UpTo
<1>3. \A i \in 1..n : i \in SeenAt(q, time) <=> i \in SeenAt(trace, time)
  BY <1>1 DEF SeenAt
<1>4. n + 1 \in SeenAt(q, time) <=> e.time <= time
  <2>1. ASSUME e.time <= time, NEW j \in 1..(n + 1)
        PROVE  q[j].time <= time
    <3>1. CASE j = n + 1
      BY <2>1, <3>1
    <3>2. CASE j \in 1..n
      BY <1>2, <2>1, <3>2
    <3>3. QED BY <3>1, <3>2
  <2>2. n + 1 \in DOMAIN q /\ n + 1 \in 1..(n + 1)
    OBVIOUS
  <2>3. QED BY <2>1, <2>2 DEF SeenAt
<1>5. SeenAt(q, time) \subseteq 1..(n + 1) /\ SeenAt(trace, time) \subseteq 1..n
  BY <1>1 DEF SeenAt
<1>6. \A i \in 1..(n + 1) : i = n + 1 \/ i \in 1..n
  OBVIOUS
<1>7. n + 1 \notin 1..n
  OBVIOUS
<1>8. ASSUME NEW i \in 1..(n + 1)
      PROVE  i \in WritesSeen(q, time, addr) <=>
               i \in WritesSeen(trace, time, addr)
                     \cup (IF e.time <= time /\ e.addr = addr THEN {n + 1} ELSE {})
  <2>1. CASE i = n + 1
    BY <1>4, <1>5, <1>7, <2>1 DEF WritesSeen
  <2>2. CASE i \in 1..n
    BY <1>3, <1>7, <2>2 DEF WritesSeen
  <2>3. QED BY <1>6, <2>1, <2>2
<1>9. QED BY <1>5, <1>8 DEF WritesSeen

\* A write in order of time is found from its time on, until another one
\* follows; at other addresses, and before it, nothing changes.
LEMMA FoundAppend ==
  ASSUME NEW trace \in Seq(Accesses), NEW e \in Accesses, e.wr, UpTo(trace, e.time),
         NEW time \in Nat, NEW addr, NEW default
  PROVE  /\ trace \o <<e>> \in Seq(Accesses) /\ UpTo(trace \o <<e>>, e.time)
         /\ Found(trace \o <<e>>, time, addr, default) =
               IF e.time <= time /\ e.addr = addr THEN e.value
               ELSE Found(trace, time, addr, default)
<1> DEFINE q == trace \o <<e>>
           n == Len(trace)
<1>1. /\ q \in Seq(Accesses) /\ n \in Nat /\ DOMAIN trace = 1..n /\ DOMAIN q = 1..(n + 1)
      /\ \A i \in 1..n : q[i] = trace[i]
      /\ q[n + 1] = e
  OBVIOUS
<1> HIDE DEF q
<1>2. WritesSeen(q, time, addr) =
            WritesSeen(trace, time, addr)
            \cup (IF e.time <= time /\ e.addr = addr THEN {n + 1} ELSE {})
  BY <1>1, WritesSeenAppend
<1>3. WritesSeen(trace, time, addr) \subseteq 1..n
  BY <1>1 DEF WritesSeen, SeenAt
<1> DEFINE W == WritesSeen(trace, time, addr)
           V == WritesSeen(q, time, addr)
<1>4. ASSUME e.time <= time, e.addr = addr
      PROVE  Found(q, time, addr, default) = e.value
  <2>1. V = W \cup {n + 1}
    BY <1>2, <1>4
  <2>2. V \in SUBSET (1..(n + 1)) /\ V # {} /\ n + 1 \in Nat
    BY <1>1, <1>3, <2>1
  <2>3. Max(V) \in V /\ \A x \in V : Max(V) >= x
    <3> HIDE DEF V
    <3>1. QED BY <2>2, MaxExists
  <2>4. Max(V) = n + 1
    <3>1. n + 1 \in V
      BY <2>1
    <3>2. QED BY <1>1, <2>2, <2>3, <3>1
  <2>5. HasValue(q, time, addr) /\ ValueAt(q, time, addr) = e.value
    BY <1>1, <2>2, <2>4 DEF HasValue, ValueAt
  <2>6. QED BY <1>4, <2>5 DEF Found
<1>5. ASSUME ~(e.time <= time /\ e.addr = addr)
      PROVE  Found(q, time, addr, default) = Found(trace, time, addr, default)
  <2>1. V = W
    BY <1>2, <1>5
  <2>2. HasValue(q, time, addr) <=> HasValue(trace, time, addr)
    BY <2>1 DEF HasValue
  <2>3. ASSUME HasValue(trace, time, addr)
        PROVE  ValueAt(q, time, addr) = ValueAt(trace, time, addr)
    <3>1. W \in SUBSET (1..n) /\ W # {}
      BY <1>3, <2>3 DEF HasValue
    <3>2. Max(W) \in 1..n
      <4>1. Max(W) \in W
        <5> HIDE DEF W
        <5>1. QED BY <1>1, <3>1, MaxExists
      <4>2. QED BY <3>1, <4>1
    <3>3. QED BY <1>1, <2>1, <3>2 DEF ValueAt
  <2>4. QED BY <1>5, <2>2, <2>3 DEF Found
<1>6. UpTo(q, e.time)
  <2>1. e.time \in Nat
    BY DEF Accesses
  <2>2. ASSUME NEW i \in 1..(n + 1)
        PROVE  q[i].time <= e.time
    <3>1. CASE i = n + 1
      BY <1>1, <2>1, <3>1
    <3>2. CASE i \in 1..n
      BY <1>1, <3>2 DEF UpTo
    <3>3. QED BY <1>1, <3>1, <3>2
  <2>3. QED BY <1>1, <2>2 DEF UpTo
<1>7. QED BY <1>1, <1>4, <1>5, <1>6 DEF q

------------------------------------------------------------------------------
(* Induction over sets of numbers, from which what is computed step by step *)
(* over a trace or another sequence follows.                                *)

\* A set with 0 and with the successor of each of its numbers has them all.
LEMMA SetInduction ==
  ASSUME NEW S, 0 \in S, \A n \in Nat : n \in S => n + 1 \in S
  PROVE  Nat \subseteq S
<1> DEFINE T == {n \in Nat : n \notin S}
<1>1. SUFFICES ASSUME T # {} PROVE FALSE
  OBVIOUS
<1>2. PICK x \in T : \A y \in T : ~(<<y, x>> \in OpToRel(<, Nat))
  BY Zenon, <1>1, NatLessThanWellFounded, WFMin, T \subseteq Nat
<1>3. x \in Nat /\ x - 1 \in Nat /\ x - 1 < x
  OBVIOUS
<1>4. x - 1 \notin T
  <2>1. <<x - 1, x>> \in OpToRel(<, Nat)
    BY Zenon, <1>3 DEF OpToRel
  <2> QED
    BY Zenon, <1>2, <2>1
<1> QED
  BY <1>3, <1>4

\* The same up to a bound.
LEMMA SetInductionUpTo ==
  ASSUME NEW m \in Nat, NEW S, 0 \in S, \A n \in 0..(m - 1) : n \in S => n + 1 \in S
  PROVE  0..m \subseteq S
<1> DEFINE T == S \cup {n \in Nat : n > m}
<1>1. 0 \in T /\ \A n \in Nat : n \in T => n + 1 \in T
  OBVIOUS
<1> HIDE DEF T
<1>2. Nat \subseteq T
  BY <1>1, SetInduction
<1> QED
  BY <1>2 DEF T
=============================================================================
