-------------------------- MODULE AckTrackingProofs --------------------------
(***************************************************************************)
(* Proofs about AckTracking for any number of tracked ranges, of packets   *)
(* and of ACK frames: the ranges are a canonical account of the packets    *)
(* that arrived and were not trimmed.  And for any rates and any number of *)
(* ACK_FREQUENCY frames: the rate of the peer is known.                    *)
(***************************************************************************)
EXTENDS AckTracking, SequenceTheorems, WellFoundedInduction, TLAPS

\* What the proofs assume of the constants.
ConstantsOK == MAX_TRACKED_RANGES \in Nat \ {0} /\ MaxNumber \in Nat

\* PacketRange
Tracked == [smallest : Nat, largest : Nat, ack_needed : BOOLEAN]

\* Newest first, with a gap between any two.
Canonical(rs) ==
    /\ rs \in Seq(Tracked)
    /\ \A i \in DOMAIN rs : rs[i].smallest <= rs[i].largest
    /\ \A i, j \in DOMAIN rs : i < j => rs[i].smallest >= rs[j].largest + 2

\* Packet pn is in one of the ranges.
In(rs, pn) == \E i \in DOMAIN rs : rs[i].smallest <= pn /\ pn <= rs[i].largest

\* The inductive invariant: the ranges are canonical and within the limit, they hold
\* exactly what arrived and is not below min_tracked, and what they no longer report
\* the peer knows.
IInv ==
    /\ Canonical(ranges) /\ Len(ranges) <= MAX_TRACKED_RANGES
    /\ min_tracked \in Nat /\ received \subseteq Nat /\ frames \in Seq(SUBSET Tracked)
    /\ \A pn \in Nat : In(ranges, pn) => pn >= min_tracked /\ pn \in received
    /\ \A pn \in received : pn >= min_tracked => In(ranges, pn)
    /\ \A i \in DOMAIN ranges : ~ranges[i].ack_needed => Pns(ranges[i]) \subseteq confirmed

\* A non-empty set of numbers has a least one.
LEMMA Least ==
    ASSUME NEW T, T \subseteq Nat, T # {}
    PROVE  \E x \in T : \A y \in T : x <= y
<1> DEFINE R == OpToRel(<, Nat)
<1>1. IsWellFoundedOn(R, Nat)
  BY NatLessThanWellFounded
<1>2. \A p \in Nat \X Nat : p \in R <=> p[1] < p[2]
  BY DEF OpToRel
<1> HIDE DEF R
<1>3. PICK x \in T : \A y \in T : ~ (<<y, x>> \in R)
  BY <1>1, WFMin
<1>4. \A y, z \in Nat : <<y, z>> \in R <=> y < z
  BY <1>2
<1>5. x \in Nat /\ \A y \in T : y \in Nat /\ ~ (y < x)
  BY <1>3, <1>4
<1> QED
  BY <1>3, <1>5

\* A bounded, non-empty set of numbers has a largest one, and Max is it.
LEMMA MaxOf ==
    ASSUME NEW T, T \subseteq Nat, T # {}, NEW b \in Nat, \A x \in T : x <= b
    PROVE  Max(T) \in T /\ \A x \in T : x <= Max(T)
<1> DEFINE U == {u \in Nat : \A x \in T : x <= u}
<1>1. U \subseteq Nat /\ U # {}
  OBVIOUS
<1>2. PICK u \in U : \A v \in U : u <= v
  <2> HIDE DEF U
  <2> QED
    BY <1>1, Least
<1>3. u \in Nat /\ \A x \in T : x \in Nat /\ x <= u
  BY <1>2
<1>4. u \in T
  <2> SUFFICES ASSUME u \notin T PROVE FALSE
    OBVIOUS
  <2>1. \A x \in T : x \in Nat /\ x < u
    BY <1>3
  <2>2. PICK z \in T : TRUE
    OBVIOUS
  <2>3. z \in Nat /\ z < u
    BY <2>1
  <2>4. u - 1 \in Nat /\ \A x \in T : x <= u - 1
    BY <1>3, <2>1, <2>3
  <2>5. u <= u - 1
    BY <1>2, <2>4
  <2> QED
    BY <1>3, <2>5
<1> QED
  BY <1>3, <1>4 DEF Max

\* What Vec::insert leaves at every place (add).
LEMMA InsertAtIs ==
    ASSUME NEW S, NEW s \in Seq(S), NEW e \in S, NEW i \in 1 .. (Len(s) + 1)
    PROVE  /\ InsertAt(s, i, e) \in Seq(S)
           /\ Len(InsertAt(s, i, e)) = Len(s) + 1
           /\ \A j \in 1 .. (Len(s) + 1) :
                 InsertAt(s, i, e)[j] = IF j < i THEN s[j] ELSE IF j = i THEN e ELSE s[j - 1]
<1> DEFINE a == SubSeq(s, 1, i - 1)
           b == SubSeq(s, i, Len(s))
           m == <<e>>
<1>1. a \in Seq(S) /\ Len(a) = i - 1 /\ \A j \in 1 .. (i - 1) : a[j] = s[j]
  OBVIOUS
<1>2. b \in Seq(S) /\ Len(b) = Len(s) - i + 1 /\ \A j \in 1 .. (Len(s) - i + 1) : b[j] = s[(j + i) - 1]
  OBVIOUS
<1>3. m \in Seq(S) /\ Len(m) = 1 /\ m[1] = e
  OBVIOUS
<1>4. InsertAt(s, i, e) = (a \o m) \o b
  BY DEF InsertAt
<1> HIDE DEF a, b, m
<1>5. /\ a \o m \in Seq(S) /\ Len(a \o m) = i
      /\ \A j \in 1 .. i : (a \o m)[j] = IF j < i THEN s[j] ELSE e
  <2>1. /\ a \o m \in Seq(S) /\ Len(a \o m) = Len(a) + Len(m)
        /\ \A j \in 1 .. Len(a) + Len(m) : (a \o m)[j] = IF j <= Len(a) THEN a[j] ELSE m[j - Len(a)]
    BY <1>1, <1>3, ConcatProperties
  <2>2. ASSUME NEW j \in 1 .. i PROVE (a \o m)[j] = IF j < i THEN s[j] ELSE e
    BY <1>1, <1>3, <2>1
  <2> QED
    BY <1>1, <1>3, <2>1, <2>2
<1> DEFINE c == a \o m
<1> HIDE DEF c
<1>6. /\ c \o b \in Seq(S) /\ Len(c \o b) = Len(s) + 1
      /\ \A j \in 1 .. (Len(s) + 1) : (c \o b)[j] = IF j <= i THEN c[j] ELSE b[j - i]
  <2>1. c \in Seq(S) /\ Len(c) = i
    BY <1>5 DEF c
  <2>2. /\ c \o b \in Seq(S) /\ Len(c \o b) = Len(c) + Len(b)
        /\ \A j \in 1 .. Len(c) + Len(b) : (c \o b)[j] = IF j <= Len(c) THEN c[j] ELSE b[j - Len(c)]
    BY <1>2, <2>1, ConcatProperties
  <2> QED
    BY <1>2, <2>1, <2>2
<1> QED
  BY <1>2, <1>4, <1>5, <1>6, SMTT(30) DEF c

\* What Vec::remove leaves at every place (add).
LEMMA RemoveAtIs ==
    ASSUME NEW S, NEW s \in Seq(S), NEW i \in 1 .. Len(s)
    PROVE  /\ RemoveAt(s, i) \in Seq(S)
           /\ Len(RemoveAt(s, i)) = Len(s) - 1
           /\ \A j \in 1 .. (Len(s) - 1) :
                 RemoveAt(s, i)[j] = IF j < i THEN s[j] ELSE s[j + 1]
<1> DEFINE a == SubSeq(s, 1, i - 1)
           b == SubSeq(s, i + 1, Len(s))
<1>1. a \in Seq(S) /\ Len(a) = i - 1 /\ \A j \in 1 .. (i - 1) : a[j] = s[j]
  OBVIOUS
<1>2. b \in Seq(S) /\ Len(b) = Len(s) - i /\ \A j \in 1 .. (Len(s) - i) : b[j] = s[j + i]
  OBVIOUS
<1>4. RemoveAt(s, i) = a \o b
  BY DEF RemoveAt
<1> HIDE DEF a, b
<1>6. /\ a \o b \in Seq(S) /\ Len(a \o b) = Len(s) - 1
      /\ \A j \in 1 .. (Len(s) - 1) : (a \o b)[j] = IF j < i THEN a[j] ELSE b[(j - i) + 1]
  <2>2. /\ a \o b \in Seq(S) /\ Len(a \o b) = Len(a) + Len(b)
        /\ \A j \in 1 .. Len(a) + Len(b) : (a \o b)[j] = IF j <= Len(a) THEN a[j] ELSE b[j - Len(a)]
    BY <1>1, <1>2, ConcatProperties
  <2>3. ASSUME NEW j \in 1 .. (Len(s) - 1) PROVE (a \o b)[j] = IF j < i THEN a[j] ELSE b[(j - i) + 1]
    BY <1>1, <1>2, <2>2
  <2> QED
    BY <1>1, <1>2, <2>2, <2>3
<1>7. ASSUME NEW j \in 1 .. (Len(s) - 1)
      PROVE  (a \o b)[j] = IF j < i THEN s[j] ELSE s[j + 1]
  <2>1. CASE j < i
    BY <1>1, <1>6, <2>1
  <2>2. CASE j >= i
    BY <1>2, <1>6, <2>2
  <2>3. j < i \/ j >= i
    BY LenProperties
  <2> QED
    BY ONLY <2>1, <2>2, <2>3
<1> QED
  BY <1>4, <1>6, <1>7

\* Sequence s is rs with the packet pn.
Adds(s, rs, pn) ==
    /\ Canonical(s) /\ Len(s) >= 1 /\ Len(s) <= Len(rs) + 1
    /\ \A x \in Nat : In(s, x) <=> In(rs, x) \/ x = pn
    /\ \A i \in DOMAIN s : ~s[i].ack_needed => \E j \in DOMAIN rs : s[i] = rs[j]

\* Sequence s is rs with q in the place of the d ranges after the first a.
Spliced(s, rs, a, d, q) ==
    /\ s \in Seq(Tracked) /\ q \in Tracked /\ q.ack_needed
    /\ a \in Nat /\ d \in Nat /\ a + d <= Len(rs) /\ Len(s) = (Len(rs) - d) + 1
    /\ \A j \in 1 .. a : s[j] = rs[j]
    /\ s[a + 1] = q
    /\ \A j \in (a + 2) .. Len(s) : s[j] = rs[(j + d) - 1]

\* Range q is the packet pn and those ranges, and touches no other.
Joined(rs, a, d, q, pn) ==
    /\ q.smallest <= q.largest
    /\ \A i \in 1 .. a : rs[i].smallest >= q.largest + 2
    /\ \A i \in (a + d + 1) .. Len(rs) : q.smallest >= rs[i].largest + 2
    /\ \A x \in Nat : (q.smallest <= x /\ x <= q.largest) <=>
          (x = pn \/ \E i \in (a + 1) .. (a + d) : rs[i].smallest <= x /\ x <= rs[i].largest)

\* A canonical sequence, place by place.
LEMMA CanonicalIs ==
    ASSUME NEW rs, Canonical(rs)
    PROVE  /\ rs \in Seq(Tracked) /\ Len(rs) \in Nat /\ DOMAIN rs = 1 .. Len(rs)
           /\ \A i \in 1 .. Len(rs) :
                 /\ rs[i] \in Tracked /\ rs[i].smallest \in Nat /\ rs[i].largest \in Nat
                 /\ rs[i].smallest <= rs[i].largest
           /\ \A i, j \in 1 .. Len(rs) : i < j => rs[i].smallest >= rs[j].largest + 2
<1>1. rs \in Seq(Tracked) /\ Len(rs) \in Nat /\ DOMAIN rs = 1 .. Len(rs)
  BY LenProperties DEF Canonical
<1>2. ASSUME NEW i \in 1 .. Len(rs)
      PROVE  rs[i] \in Tracked /\ rs[i].smallest \in Nat /\ rs[i].largest \in Nat
  <2>1. rs[i] \in Tracked
    BY <1>1
  <2> QED
    BY <2>1 DEF Tracked
<1> QED
  BY <1>1, <1>2 DEF Canonical

\* Replacing the ranges that pn joins by one that covers them and pn is what add
\* promises, whether they are none, one or two.
LEMMA SplicedAdds ==
    ASSUME NEW rs, Canonical(rs), NEW s, NEW a, NEW d, NEW q, NEW pn \in Nat,
           Spliced(s, rs, a, d, q), Joined(rs, a, d, q, pn)
    PROVE  Adds(s, rs, pn)
<1> DEFINE L == Len(rs)
           M == Len(s)
<1>1. /\ rs \in Seq(Tracked) /\ L \in Nat /\ DOMAIN rs = 1 .. L
      /\ \A i \in 1 .. L : /\ rs[i] \in Tracked /\ rs[i].smallest \in Nat /\ rs[i].largest \in Nat
                           /\ rs[i].smallest <= rs[i].largest
      /\ \A i, j \in 1 .. L : i < j => rs[i].smallest >= rs[j].largest + 2
  BY CanonicalIs
<1>2. /\ s \in Seq(Tracked) /\ q.ack_needed /\ a \in Nat /\ d \in Nat /\ a + d <= L /\ M = (L - d) + 1
      /\ \A j \in 1 .. a : s[j] = rs[j]
      /\ s[a + 1] = q
      /\ \A j \in (a + 2) .. M : s[j] = rs[(j + d) - 1]
      /\ q.smallest \in Nat /\ q.largest \in Nat
  BY DEF Spliced, Tracked
<1>3. /\ q.smallest <= q.largest
      /\ \A i \in 1 .. a : rs[i].smallest >= q.largest + 2
      /\ \A i \in (a + d + 1) .. L : q.smallest >= rs[i].largest + 2
  BY DEF Joined
<1>4. DOMAIN s = 1 .. M /\ M \in Nat /\ M >= a + 1
  BY <1>1, <1>2
<1> HIDE DEF L, M
<1>5. ASSUME NEW j \in 1 .. M
      PROVE  \/ j <= a /\ j \in 1 .. a /\ j \in 1 .. L /\ s[j] = rs[j]
             \/ j = a + 1 /\ s[j] = q
             \/ j > a + 1 /\ (j + d) - 1 \in (a + d + 1) .. L /\ (j + d) - 1 \in 1 .. L /\ s[j] = rs[(j + d) - 1]
  BY <1>1, <1>2, <1>4
<1>6. ASSUME NEW j \in 1 .. M PROVE s[j].smallest <= s[j].largest
  BY <1>1, <1>3, <1>5
<1>7. ASSUME NEW i \in 1 .. M, NEW j \in 1 .. M, i < j PROVE s[i].smallest >= s[j].largest + 2
  <2>1. CASE i <= a /\ s[i] = rs[i] /\ i \in 1 .. L /\ i \in 1 .. a
    <3>1. CASE j <= a /\ j \in 1 .. L /\ s[j] = rs[j]
      BY <1>1, <1>7, <2>1, <3>1
    <3>2. CASE j = a + 1 /\ s[j] = q
      BY <1>3, <2>1, <3>2
    <3>3. CASE j > a + 1 /\ (j + d) - 1 \in 1 .. L /\ s[j] = rs[(j + d) - 1]
      <4>1. i < (j + d) - 1
        BY <1>2, <2>1, <3>3
      <4> QED
        BY <1>1, <2>1, <3>3, <4>1
    <3> QED
      BY <1>5, <3>1, <3>2, <3>3
  <2>2. CASE i = a + 1 /\ s[i] = q
    <3>1. (j + d) - 1 \in (a + d + 1) .. L /\ s[j] = rs[(j + d) - 1]
      BY <1>2, <1>4, <1>5, <1>7, <2>2
    <3> QED
      BY <1>3, <2>2, <3>1
  <2>3. CASE i > a + 1 /\ (i + d) - 1 \in 1 .. L /\ s[i] = rs[(i + d) - 1]
    <3>1. (j + d) - 1 \in 1 .. L /\ s[j] = rs[(j + d) - 1]
      BY <1>2, <1>4, <1>5, <1>7, <2>3
    <3>2. (i + d) - 1 < (j + d) - 1
      BY <1>2, <1>4, <1>7
    <3> QED
      BY <1>1, <2>3, <3>1, <3>2
  <2> QED
    BY <1>5, <2>1, <2>2, <2>3
<1>8. Canonical(s)
  BY <1>2, <1>4, <1>6, <1>7 DEF Canonical
<1>9. ASSUME NEW x \in Nat PROVE In(s, x) <=> In(rs, x) \/ x = pn
  <2>1. In(s, x) <=> \E i \in 1 .. M : s[i].smallest <= x /\ x <= s[i].largest
    BY <1>4 DEF In
  <2>2. In(rs, x) <=> \E i \in 1 .. L : rs[i].smallest <= x /\ x <= rs[i].largest
    BY <1>1 DEF In
  <2>3. (q.smallest <= x /\ x <= q.largest) <=>
          (x = pn \/ \E i \in (a + 1) .. (a + d) : rs[i].smallest <= x /\ x <= rs[i].largest)
    BY DEF Joined
  <2>4. ASSUME In(s, x) PROVE In(rs, x) \/ x = pn
    <3>1. PICK i \in 1 .. M : s[i].smallest <= x /\ x <= s[i].largest
      BY <2>1, <2>4
    <3>2. \A k \in (a + 1) .. (a + d) : k \in 1 .. L
      BY <1>1, <1>2
    <3> QED
      BY <1>5, <2>2, <2>3, <3>1, <3>2
  <2>5. ASSUME In(rs, x) PROVE In(s, x)
    <3>1. PICK i \in 1 .. L : rs[i].smallest <= x /\ x <= rs[i].largest
      BY <2>2, <2>5
    <3>2. CASE i <= a
      BY <1>1, <1>2, <1>4, <2>1, <3>1, <3>2, SMTT(30)
    <3>3. CASE i > a /\ i <= a + d
      <4>1. q.smallest <= x /\ x <= q.largest
        BY <1>1, <1>2, <2>3, <3>1, <3>3
      <4> QED
        BY <1>2, <1>4, <2>1, <4>1
    <3>4. CASE i > a + d
      <4> DEFINE j == (i - d) + 1
      <4>0. i \in Nat /\ L \in Nat /\ M \in Nat /\ a \in Nat /\ d \in Nat /\ M = (L - d) + 1 /\ i <= L /\ i > a + d
        BY <1>1, <1>2, <1>4, <3>4
      <4>1. j \in 1 .. M /\ j \in (a + 2) .. M /\ (j + d) - 1 = i
        BY ONLY <4>0
      <4>2. s[j] = rs[i]
        BY <1>2, <4>1
      <4> HIDE DEF j
      <4> QED
        BY <2>1, <3>1, <4>1, <4>2
    <3> QED
      BY <1>1, <1>2, <3>2, <3>3, <3>4
  <2>6. ASSUME x = pn PROVE In(s, x)
    <3>1. a + 1 \in 1 .. M /\ s[a + 1] = q
      BY <1>2, <1>4
    <3> QED
      BY <2>1, <2>3, <2>6, <3>1
  <2> QED
    BY <2>4, <2>5, <2>6
<1>10. ASSUME NEW i \in 1 .. M, ~s[i].ack_needed PROVE \E j \in 1 .. L : s[i] = rs[j]
  BY <1>2, <1>5, <1>10
<1> QED
  <2>1. M >= 1 /\ M <= L + 1
    BY <1>1, <1>2, <1>4
  <2>2. \A i \in DOMAIN s : ~s[i].ack_needed => \E j \in DOMAIN rs : s[i] = rs[j]
    BY <1>1, <1>4, <1>10
  <2> QED
    BY <1>8, <1>9, <2>1, <2>2 DEF Adds, L, M

(* A packet that is not there yet is added to one range, closes the gap    *)
(* between two, or starts one, and the order is kept.                      *)
LEMMA AddStep ==
    ASSUME NEW rs, Canonical(rs), NEW pn \in Nat, ~In(rs, pn)
    PROVE  Adds(add(rs, pn), rs, pn)
<1> DEFINE L == Len(rs)
           above == {i \in DOMAIN rs : rs[i].smallest > pn}
           n == Max({0} \cup above)
           joins_above == n > 0 /\ rs[n].smallest = pn + 1
           joins_below == n < Len(rs) /\ rs[n + 1].largest + 1 = pn
<1>1. /\ rs \in Seq(Tracked) /\ L \in Nat /\ DOMAIN rs = 1 .. L
      /\ \A i \in 1 .. L : /\ rs[i] \in Tracked /\ rs[i].smallest \in Nat /\ rs[i].largest \in Nat
                           /\ rs[i].smallest <= rs[i].largest
      /\ \A i, j \in 1 .. L : i < j => rs[i].smallest >= rs[j].largest + 2
  BY CanonicalIs
<1>2. n \in 0 .. L /\ (n > 0 => rs[n].smallest > pn) /\ \A i \in (n + 1) .. L : rs[i].smallest <= pn
  <2> DEFINE T == {0} \cup above
  <2>1. T \subseteq Nat /\ T # {} /\ L \in Nat /\ \A x \in T : x <= L
    BY <1>1
  <2>2. \A i \in 1 .. L : i \in T <=> rs[i].smallest > pn
    BY <1>1
  <2>3. n = Max(T)
    OBVIOUS
  <2> HIDE DEF T, n
  <2>4. n \in T /\ \A x \in T : x <= n
    BY ONLY <2>1, <2>3, MaxOf
  <2>5. n \in 0 .. L
    BY ONLY <2>1, <2>4
  <2>6. ASSUME n > 0 PROVE rs[n].smallest > pn
    <3>1. n \in 1 .. L
      BY ONLY <2>1, <2>5, <2>6
    <3> QED
      BY ONLY <2>2, <2>4, <3>1
  <2>7. ASSUME NEW i \in (n + 1) .. L PROVE rs[i].smallest <= pn
    <3>1. i \in 1 .. L /\ ~ (i <= n)
      BY ONLY <2>1, <2>5, <2>7
    <3>2. rs[i].smallest \in Nat /\ ~ (rs[i].smallest > pn)
      BY <1>1, <2>2, <2>4, <3>1
    <3> QED
      BY ONLY <3>2, pn \in Nat
  <2> QED
    BY ONLY <2>5, <2>6, <2>7
<1>3. add(rs, pn) =
        IF joins_above /\ joins_below
        THEN RemoveAt([rs EXCEPT ![n + 1] = PacketRange(@.smallest, rs[n].largest)], n)
        ELSE IF joins_above THEN [rs EXCEPT ![n] = PacketRange(pn, @.largest)]
        ELSE IF joins_below THEN [rs EXCEPT ![n + 1] = PacketRange(@.smallest, pn)]
        ELSE InsertAt(rs, n + 1, PacketRange(pn, pn))
  BY DEF add
<1> HIDE DEF n, L
<1>4. /\ \A i \in 1 .. n : i \in 1 .. L /\ rs[i].smallest > pn
      /\ \A i \in (n + 1) .. L : i \in 1 .. L /\ rs[i].largest < pn
  <2>1. ASSUME NEW i \in 1 .. n PROVE i \in 1 .. L /\ rs[i].smallest > pn
    <3>1. i \in 1 .. L /\ n \in 1 .. L /\ n > 0
      BY <1>1, <1>2
    <3>2. CASE i = n
      BY <1>2, <3>1, <3>2
    <3>3. CASE i < n
      BY <1>1, <1>2, <3>1, <3>3
    <3> QED
      BY <1>2, <3>1, <3>2, <3>3
  <2>2. ASSUME NEW i \in (n + 1) .. L PROVE i \in 1 .. L /\ rs[i].largest < pn
    <3>1. i \in 1 .. L /\ rs[i].smallest <= pn
      BY ONLY <1>1, <1>2, <2>2
    <3>2. rs[i].largest \in Nat /\ ~ (pn <= rs[i].largest)
      BY <1>1, <3>1 DEF In
    <3> QED
      BY ONLY <3>1, <3>2, pn \in Nat
  <2> QED
    BY <2>1, <2>2
<1>5. ASSUME NEW x \in Nat, NEW y \in Nat
      PROVE  /\ PacketRange(x, y) \in Tracked /\ PacketRange(x, y).smallest = x
             /\ PacketRange(x, y).largest = y /\ PacketRange(x, y).ack_needed = TRUE
  BY DEF PacketRange, Tracked
<1> DEFINE s == add(rs, pn)
<1>6. CASE joins_above /\ joins_below
  <2> DEFINE u == [rs EXCEPT ![n + 1] = PacketRange(@.smallest, rs[n].largest)]
             p == PacketRange(rs[n + 1].smallest, rs[n].largest)
  <2>1. n \in 1 .. L /\ n + 1 \in 1 .. L /\ n + 1 \in (n + 1) .. L /\ n \in 1 .. n
    BY <1>1, <1>2, <1>6 DEF L
  <2>2. p \in Tracked /\ p.smallest = rs[n + 1].smallest /\ p.largest = rs[n].largest /\ p.ack_needed
    BY <1>1, <1>5, <2>1, ZenonT(30)
  <2>3. u = [rs EXCEPT ![n + 1] = p]
    OBVIOUS
  <2> HIDE DEF u, p
  <2>4. u \in Seq(Tracked) /\ Len(u) = L /\ u[n + 1] = p /\ \A j \in 1 .. L : j # n + 1 => u[j] = rs[j]
    BY <1>1, <2>1, <2>2, <2>3 DEF L
  <2>5. s = RemoveAt(u, n)
    BY <1>3, <1>6 DEF u
  <2>6. /\ RemoveAt(u, n) \in Seq(Tracked) /\ Len(RemoveAt(u, n)) = Len(u) - 1
        /\ \A j \in 1 .. (Len(u) - 1) : RemoveAt(u, n)[j] = IF j < n THEN u[j] ELSE u[j + 1]
    BY <2>1, <2>4, RemoveAtIs
  <2> HIDE DEF s
  <2>7. s \in Seq(Tracked) /\ Len(s) = L - 1 /\ \A j \in 1 .. (L - 1) : s[j] = IF j < n THEN u[j] ELSE u[j + 1]
    BY <2>4, <2>5, <2>6
  <2>8. Spliced(s, rs, n - 1, 2, p)
    <3>1. n - 1 \in Nat /\ (n - 1) + 2 <= L /\ Len(s) = (L - 2) + 1
      BY <1>1, <2>1, <2>7
    <3>2. ASSUME NEW j \in 1 .. (n - 1) PROVE s[j] = rs[j]
      BY <1>1, <2>1, <2>4, <2>7
    <3>3. s[(n - 1) + 1] = p
      BY <1>1, <2>1, <2>4, <2>7
    <3>4. ASSUME NEW j \in ((n - 1) + 2) .. Len(s) PROVE s[j] = rs[(j + 2) - 1]
      <4>1. j \in 1 .. (L - 1) /\ ~ (j < n) /\ j + 1 \in 1 .. L /\ j + 1 # n + 1 /\ (j + 2) - 1 = j + 1
        BY <1>1, <2>1, <2>7
      <4> QED
        BY <2>4, <2>7, <4>1
    <3> QED
      BY <2>2, <2>7, <3>1, <3>2, <3>3, <3>4, SMTT(20) DEF Spliced, L
  <2>9. Joined(rs, n - 1, 2, p, pn)
    <3>1. rs[n].smallest = pn + 1 /\ rs[n + 1].largest + 1 = pn
      BY <1>6
    <3>2. p.smallest <= p.largest
      BY <1>1, <2>1, <2>2, <3>1, SMTT(20)
    <3>3. ASSUME NEW i \in 1 .. (n - 1) PROVE rs[i].smallest >= p.largest + 2
      <4>1. i \in 1 .. L /\ i < n
        BY <1>1, <2>1
      <4> QED
        BY <1>1, <2>1, <2>2, <4>1
    <3>4. ASSUME NEW i \in ((n - 1) + 2 + 1) .. L PROVE p.smallest >= rs[i].largest + 2
      <4>1. i \in 1 .. L /\ n + 1 < i
        BY <1>1, <2>1
      <4> QED
        BY <1>1, <2>1, <2>2, <4>1
    <3>5. ASSUME NEW x \in Nat
          PROVE  (p.smallest <= x /\ x <= p.largest) <=>
                   (x = pn \/ \E i \in ((n - 1) + 1) .. ((n - 1) + 2) : rs[i].smallest <= x /\ x <= rs[i].largest)
      <4>1. \A i : i \in ((n - 1) + 1) .. ((n - 1) + 2) <=> i = n \/ i = n + 1
        BY <1>1, <2>1
      <4>2. rs[n].smallest <= rs[n].largest /\ rs[n + 1].smallest <= rs[n + 1].largest
        BY <1>1, <2>1
      <4>3. (p.smallest <= x /\ x <= p.largest) <=>
              \/ x = pn
              \/ rs[n].smallest <= x /\ x <= rs[n].largest
              \/ rs[n + 1].smallest <= x /\ x <= rs[n + 1].largest
        BY <1>1, <2>1, <2>2, <3>1, <4>2
      <4> QED
        BY <4>1, <4>3
    <3> QED
      BY <3>2, <3>3, <3>4, <3>5 DEF Joined, L
  <2> QED
    BY <2>8, <2>9, SplicedAdds DEF s
<1>7. CASE joins_above /\ ~joins_below
  <2> DEFINE p == PacketRange(pn, rs[n].largest)
  <2>1. n \in 1 .. L /\ n \in 1 .. n
    BY <1>1, <1>2, <1>7
  <2>2. p \in Tracked /\ p.smallest = pn /\ p.largest = rs[n].largest /\ p.ack_needed
    BY <1>1, <1>5, <2>1
  <2>3. s = [rs EXCEPT ![n] = p]
    BY <1>3, <1>7
  <2> HIDE DEF p, s
  <2>4. s \in Seq(Tracked) /\ Len(s) = L /\ s[n] = p /\ \A j \in 1 .. L : j # n => s[j] = rs[j]
    BY <1>1, <2>1, <2>2, <2>3 DEF L
  <2>5. Spliced(s, rs, n - 1, 1, p)
    <3>1. n - 1 \in Nat /\ (n - 1) + 1 <= L /\ Len(s) = (L - 1) + 1 /\ (n - 1) + 1 = n
      BY <1>1, <2>1, <2>4
    <3>2. ASSUME NEW j \in 1 .. (n - 1) PROVE s[j] = rs[j]
      BY <1>1, <2>1, <2>4
    <3>4. ASSUME NEW j \in ((n - 1) + 2) .. Len(s) PROVE s[j] = rs[(j + 1) - 1]
      <4>1. j \in 1 .. L /\ j # n /\ (j + 1) - 1 = j
        BY <1>1, <2>1, <2>4
      <4> QED
        BY <2>4, <4>1
    <3> QED
      BY <2>2, <2>4, <3>1, <3>2, <3>4 DEF Spliced, L
  <2>6. Joined(rs, n - 1, 1, p, pn)
    <3>1. rs[n].smallest = pn + 1 /\ ~joins_below
      BY <1>7
    <3>2. p.smallest <= p.largest
      BY <1>1, <2>1, <2>2, <3>1
    <3>3. ASSUME NEW i \in 1 .. (n - 1) PROVE rs[i].smallest >= p.largest + 2
      <4>1. i \in 1 .. L /\ i < n
        BY <1>1, <2>1
      <4> QED
        BY <1>1, <2>1, <2>2, <4>1
    <3>4. ASSUME NEW i \in ((n - 1) + 1 + 1) .. L PROVE p.smallest >= rs[i].largest + 2
      <4>1. i \in 1 .. L /\ n + 1 \in 1 .. L /\ n + 1 <= i /\ n < L /\ n + 1 \in (n + 1) .. L
        BY <1>1, <2>1
      <4>2. rs[n + 1].largest + 2 <= pn
        BY <1>1, <1>4, <3>1, <4>1 DEF L
      <4>3. rs[i].largest <= rs[n + 1].largest
        <5>1. CASE i = n + 1
          BY <1>1, <4>1, <5>1
        <5>2. CASE n + 1 < i
          <6>1. rs[n + 1].smallest >= rs[i].largest + 2
            BY ONLY <1>1, <4>1, <5>2
          <6>2. /\ rs[i].largest \in Nat /\ rs[n + 1].smallest \in Nat /\ rs[n + 1].largest \in Nat
                /\ rs[n + 1].smallest <= rs[n + 1].largest
            BY ONLY <1>1, <4>1
          <6> QED
            BY ONLY <6>1, <6>2
        <5> QED
          BY <2>1, <4>1, <5>1, <5>2
      <4> QED
        BY <1>1, <2>2, <4>1, <4>2, <4>3
    <3>5. ASSUME NEW x \in Nat
          PROVE  (p.smallest <= x /\ x <= p.largest) <=>
                   (x = pn \/ \E i \in ((n - 1) + 1) .. ((n - 1) + 1) : rs[i].smallest <= x /\ x <= rs[i].largest)
      <4>1. \A i : i \in ((n - 1) + 1) .. ((n - 1) + 1) <=> i = n
        BY <1>1, <2>1
      <4>3. (p.smallest <= x /\ x <= p.largest) <=> (x = pn \/ (rs[n].smallest <= x /\ x <= rs[n].largest))
        BY <1>1, <2>1, <2>2, <3>1
      <4> QED
        BY <4>1, <4>3
    <3> QED
      BY <3>2, <3>3, <3>4, <3>5 DEF Joined, L
  <2> QED
    BY <2>5, <2>6, SplicedAdds DEF s
<1>8. CASE ~joins_above /\ joins_below
  <2> DEFINE p == PacketRange(rs[n + 1].smallest, pn)
  <2>1. n \in Nat /\ n + 1 \in 1 .. L /\ n + 1 \in (n + 1) .. L
    BY <1>1, <1>2, <1>8 DEF L
  <2>2. p \in Tracked /\ p.smallest = rs[n + 1].smallest /\ p.largest = pn /\ p.ack_needed
    BY <1>1, <1>5, <2>1
  <2>3. s = [rs EXCEPT ![n + 1] = p]
    BY <1>3, <1>8
  <2> HIDE DEF p, s
  <2>4. s \in Seq(Tracked) /\ Len(s) = L /\ s[n + 1] = p /\ \A j \in 1 .. L : j # n + 1 => s[j] = rs[j]
    BY <1>1, <2>1, <2>2, <2>3 DEF L
  <2>5. Spliced(s, rs, n, 1, p)
    <3>1. n + 1 <= L /\ Len(s) = (L - 1) + 1
      BY <1>1, <2>1, <2>4
    <3>2. ASSUME NEW j \in 1 .. n PROVE s[j] = rs[j]
      BY <1>1, <2>1, <2>4
    <3>4. ASSUME NEW j \in (n + 2) .. Len(s) PROVE s[j] = rs[(j + 1) - 1]
      <4>1. j \in 1 .. L /\ j # n + 1 /\ (j + 1) - 1 = j
        BY <1>1, <2>1, <2>4
      <4> QED
        BY <2>4, <4>1
    <3> QED
      BY <2>1, <2>2, <2>4, <3>1, <3>2, <3>4 DEF Spliced, L
  <2>6. Joined(rs, n, 1, p, pn)
    <3>1. rs[n + 1].largest + 1 = pn /\ ~joins_above
      BY <1>8
    <3>2. p.smallest <= p.largest
      BY <1>1, <2>1, <2>2, <3>1
    <3>3. ASSUME NEW i \in 1 .. n PROVE rs[i].smallest >= p.largest + 2
      <4>1. i \in 1 .. L /\ n \in 1 .. L /\ i <= n /\ n > 0 /\ n \in 1 .. n
        BY <1>1, <2>1
      <4>2. rs[n].smallest >= pn + 2
        <5>1. rs[n].smallest \in Nat /\ rs[n].smallest > pn /\ rs[n].smallest # pn + 1
          BY <1>1, <1>4, <3>1, <4>1
        <5> QED
          BY ONLY <5>1, pn \in Nat
      <4>3. rs[i].smallest >= rs[n].smallest
        <5>1. CASE i = n
          BY <1>1, <4>1, <5>1
        <5>2. CASE i < n
          <6>1. rs[i].smallest >= rs[n].largest + 2
            BY ONLY <1>1, <4>1, <5>2
          <6>2. /\ rs[i].smallest \in Nat /\ rs[n].smallest \in Nat /\ rs[n].largest \in Nat
                /\ rs[n].smallest <= rs[n].largest
            BY ONLY <1>1, <4>1
          <6> QED
            BY ONLY <6>1, <6>2
        <5> QED
          BY <4>1, <5>1, <5>2
      <4> QED
        BY <1>1, <2>2, <4>1, <4>2, <4>3
    <3>4. ASSUME NEW i \in (n + 1 + 1) .. L PROVE p.smallest >= rs[i].largest + 2
      <4>1. i \in 1 .. L /\ n + 1 < i
        BY <1>1, <2>1
      <4> QED
        BY <1>1, <2>1, <2>2, <4>1
    <3>5. ASSUME NEW x \in Nat
          PROVE  (p.smallest <= x /\ x <= p.largest) <=>
                   (x = pn \/ \E i \in (n + 1) .. (n + 1) : rs[i].smallest <= x /\ x <= rs[i].largest)
      <4>1. \A i : i \in (n + 1) .. (n + 1) <=> i = n + 1
        BY <1>1, <2>1
      <4>3. (p.smallest <= x /\ x <= p.largest) <=> (x = pn \/ (rs[n + 1].smallest <= x /\ x <= rs[n + 1].largest))
        BY <1>1, <2>1, <2>2, <3>1
      <4> QED
        BY <4>1, <4>3
    <3> QED
      BY <3>2, <3>3, <3>4, <3>5 DEF Joined, L
  <2> QED
    BY <2>5, <2>6, SplicedAdds DEF s
<1>9. CASE ~joins_above /\ ~joins_below
  <2> DEFINE p == PacketRange(pn, pn)
  <2>1. n \in Nat /\ n + 1 \in 1 .. (L + 1)
    BY <1>1, <1>2
  <2>2. p \in Tracked /\ p.smallest = pn /\ p.largest = pn /\ p.ack_needed
    BY <1>5
  <2>3. s = InsertAt(rs, n + 1, p)
    BY <1>3, <1>9
  <2> HIDE DEF p, s
  <2>4. /\ s \in Seq(Tracked) /\ Len(s) = L + 1
        /\ \A j \in 1 .. (L + 1) : s[j] = IF j < n + 1 THEN rs[j] ELSE IF j = n + 1 THEN p ELSE rs[j - 1]
    BY <1>1, <2>1, <2>2, <2>3, InsertAtIs DEF L
  <2>5. Spliced(s, rs, n, 0, p)
    <3>1. n + 0 <= L /\ Len(s) = (L - 0) + 1
      BY <1>1, <1>2, <2>4
    <3>2. ASSUME NEW j \in 1 .. n PROVE s[j] = rs[j]
      <4>1. j \in 1 .. (L + 1) /\ j < n + 1
        BY <1>1, <2>1
      <4> QED
        BY <2>4, <4>1
    <3>3. s[n + 1] = p
      BY <2>1, <2>4
    <3>4. ASSUME NEW j \in (n + 2) .. Len(s) PROVE s[j] = rs[(j + 0) - 1]
      <4>1. j \in 1 .. (L + 1) /\ ~ (j < n + 1) /\ j # n + 1 /\ (j + 0) - 1 = j - 1
        BY <1>1, <2>1, <2>4
      <4> QED
        BY <2>4, <4>1
    <3> QED
      BY <2>1, <2>2, <2>4, <3>1, <3>2, <3>3, <3>4, SMTT(20) DEF Spliced, L
  <2>6. Joined(rs, n, 0, p, pn)
    <3>1. ~joins_above /\ ~joins_below
      BY <1>9
    <3>2. p.smallest <= p.largest
      BY <2>2
    <3>3. ASSUME NEW i \in 1 .. n PROVE rs[i].smallest >= p.largest + 2
      <4>1. i \in 1 .. L /\ n \in 1 .. L /\ i <= n /\ n > 0 /\ n \in 1 .. n
        BY <1>1, <1>2, <2>1, SMTT(20)
      <4>2. rs[n].smallest >= pn + 2
        <5>1. rs[n].smallest \in Nat /\ rs[n].smallest > pn /\ rs[n].smallest # pn + 1
          BY <1>1, <1>4, <3>1, <4>1, SMTT(20)
        <5> QED
          BY ONLY <5>1, pn \in Nat
      <4>3. rs[i].smallest >= rs[n].smallest
        <5>1. CASE i = n
          BY <1>1, <4>1, <5>1
        <5>2. CASE i < n
          <6>1. rs[i].smallest >= rs[n].largest + 2
            BY ONLY <1>1, <4>1, <5>2
          <6>2. /\ rs[i].smallest \in Nat /\ rs[n].smallest \in Nat /\ rs[n].largest \in Nat
                /\ rs[n].smallest <= rs[n].largest
            BY ONLY <1>1, <4>1
          <6> QED
            BY ONLY <6>1, <6>2
        <5> QED
          BY <4>1, <5>1, <5>2
      <4> QED
        BY <1>1, <2>2, <4>1, <4>2, <4>3
    <3>4. ASSUME NEW i \in (n + 0 + 1) .. L PROVE p.smallest >= rs[i].largest + 2
      <4>1. i \in 1 .. L /\ n + 1 \in 1 .. L /\ n + 1 <= i /\ n < L /\ n + 1 \in (n + 1) .. L
        BY <1>1, <2>1
      <4>2. rs[n + 1].largest + 2 <= pn
        BY <1>1, <1>4, <3>1, <4>1 DEF L
      <4>3. rs[i].largest <= rs[n + 1].largest
        <5>1. CASE i = n + 1
          BY <1>1, <4>1, <5>1
        <5>2. CASE n + 1 < i
          <6>1. rs[n + 1].smallest >= rs[i].largest + 2
            BY ONLY <1>1, <4>1, <5>2
          <6>2. /\ rs[i].largest \in Nat /\ rs[n + 1].smallest \in Nat /\ rs[n + 1].largest \in Nat
                /\ rs[n + 1].smallest <= rs[n + 1].largest
            BY ONLY <1>1, <4>1
          <6> QED
            BY ONLY <6>1, <6>2
        <5> QED
          BY <2>1, <4>1, <5>1, <5>2
      <4> QED
        BY <1>1, <2>2, <4>1, <4>2, <4>3
    <3>5. ASSUME NEW x \in Nat
          PROVE  (p.smallest <= x /\ x <= p.largest) <=>
                   (x = pn \/ \E i \in (n + 1) .. (n + 0) : rs[i].smallest <= x /\ x <= rs[i].largest)
      BY <2>1, <2>2
    <3> QED
      BY <3>2, <3>3, <3>4, <3>5 DEF Joined, L
  <2> QED
    BY <2>5, <2>6, SplicedAdds DEF s
<1> QED
  BY <1>6, <1>7, <1>8, <1>9

\* RecvdPackets::new() has no ranges.
LEMMA InitOK ==
    ASSUME ConstantsOK, AInit
    PROVE  IInv
<1>1. ranges = <<>> /\ min_tracked = 0 /\ frames = <<>> /\ received = {}
  BY DEF AInit
<1>2. ranges \in Seq(Tracked) /\ Len(ranges) = 0 /\ DOMAIN ranges = {} /\ frames \in Seq(SUBSET Tracked)
  BY <1>1
<1>3. Canonical(ranges)
  BY <1>2 DEF Canonical
<1>4. \A pn \in Nat : ~In(ranges, pn)
  BY <1>2 DEF In
<1> QED
  BY <1>1, <1>2, <1>3, <1>4 DEF IInv, ConstantsOK

(* The ranges without their oldest one.                                    *)
LEMMA FrontIs ==
    ASSUME NEW s, Canonical(s), Len(s) >= 1
    PROVE  /\ Canonical(Front(s)) /\ Len(Front(s)) = Len(s) - 1
           /\ Last(s) = s[Len(s)] /\ Last(s).largest \in Nat
           /\ \A i \in DOMAIN Front(s) : i \in DOMAIN s /\ Front(s)[i] = s[i]
           /\ \A x \in Nat : In(Front(s), x) <=> In(s, x) /\ x > Last(s).largest
           /\ In(s, Last(s).largest)
<1> DEFINE f == Front(s)
           L == Len(s)
<1>1. /\ s \in Seq(Tracked) /\ L \in Nat /\ DOMAIN s = 1 .. L
      /\ \A i \in 1 .. L : /\ s[i] \in Tracked /\ s[i].smallest \in Nat /\ s[i].largest \in Nat
                           /\ s[i].smallest <= s[i].largest
      /\ \A i, j \in 1 .. L : i < j => s[i].smallest >= s[j].largest + 2
  BY CanonicalIs
<1>2. L \in 1 .. L /\ L - 1 \in Nat /\ \A i \in 1 .. (L - 1) : i \in 1 .. L /\ i < L
  BY <1>1
<1>3. f \in Seq(Tracked) /\ Len(f) = L - 1 /\ DOMAIN f = 1 .. (L - 1) /\ \A i \in 1 .. (L - 1) : f[i] = s[i]
  BY <1>1, <1>2 DEF Front
<1>4. Last(s) = s[L]
  BY DEF Last
<1> HIDE DEF L, f
<1>5. Canonical(f)
  BY <1>1, <1>2, <1>3 DEF Canonical
<1>6. ASSUME NEW x \in Nat PROVE In(f, x) <=> In(s, x) /\ x > s[L].largest
  <2>1. In(f, x) <=> \E i \in 1 .. (L - 1) : s[i].smallest <= x /\ x <= s[i].largest
    BY <1>3 DEF In
  <2>2. In(s, x) <=> \E i \in 1 .. L : s[i].smallest <= x /\ x <= s[i].largest
    BY <1>1 DEF In
  <2>3. ASSUME In(f, x) PROVE In(s, x) /\ x > s[L].largest
    BY <1>1, <1>2, <2>1, <2>2, <2>3
  <2>4. ASSUME In(s, x), x > s[L].largest PROVE In(f, x)
    BY <1>1, <1>2, <2>1, <2>2, <2>4
  <2> QED
    BY <2>3, <2>4
<1>7. In(s, s[L].largest)
  BY <1>1, <1>2 DEF In
<1> QED
  BY <1>1, <1>2, <1>3, <1>4, <1>5, <1>6, <1>7, SMTT(20) DEF L, f

\* set_received(), with the range that trim_ranges() gives up.
LEMMA ReceiveOK ==
    ASSUME ConstantsOK, IInv, NEW pn \in 0 .. MaxNumber, NEW ae \in BOOLEAN, NEW ping \in BOOLEAN,
           set_received(pn, ae, ping)
    PROVE  IInv'
<1> DEFINE s == add(ranges, pn)
<1>1. /\ ranges' = trim_ranges(s) /\ min_tracked' = TrimmedTo(s) /\ received' = received \cup {pn}
      /\ frames' = frames /\ confirmed' = confirmed /\ ~is_duplicate(pn)
  BY DEF set_received
<1>2. pn \in Nat /\ pn >= min_tracked /\ ~In(ranges, pn) /\ min_tracked \in Nat /\ Canonical(ranges)
  BY <1>1, CanonicalIs DEF is_duplicate, IInv, ConstantsOK, In, Pns
<1>3. Adds(s, ranges, pn)
  BY <1>2, AddStep
<1> HIDE DEF s
<1>4. /\ Canonical(s) /\ Len(s) >= 1 /\ Len(s) <= Len(ranges) + 1 /\ Len(s) \in Nat /\ Len(ranges) \in Nat
      /\ \A x \in Nat : In(s, x) <=> In(ranges, x) \/ x = pn
      /\ \A i \in DOMAIN s : ~s[i].ack_needed => \E j \in DOMAIN ranges : s[i] = ranges[j]
  BY <1>2, <1>3, CanonicalIs DEF Adds
<1>5. received' \subseteq Nat /\ frames' \in Seq(SUBSET Tracked)
  BY <1>1, <1>2 DEF IInv
<1>6. /\ \A x \in Nat : In(ranges, x) => x >= min_tracked /\ x \in received
      /\ \A x \in received : x \in Nat /\ (x >= min_tracked => In(ranges, x))
      /\ \A i \in DOMAIN ranges : ~ranges[i].ack_needed => Pns(ranges[i]) \subseteq confirmed
      /\ Len(ranges) <= MAX_TRACKED_RANGES /\ MAX_TRACKED_RANGES \in Nat \ {0}
  BY DEF IInv, ConstantsOK
<1>7. CASE Len(s) > MAX_TRACKED_RANGES
  <2> DEFINE f == Front(s)
             m == Last(s).largest
  <2>1. ranges' = f /\ min_tracked' = m + 1
    BY <1>1, <1>7 DEF trim_ranges, TrimmedTo
  <2>2. /\ Canonical(f) /\ Len(f) = Len(s) - 1 /\ m \in Nat /\ In(s, m)
        /\ \A i \in DOMAIN f : i \in DOMAIN s /\ f[i] = s[i]
        /\ \A x \in Nat : In(f, x) <=> In(s, x) /\ x > m
    BY <1>4, FrontIs
  <2> HIDE DEF f, m
  <2>3. m >= min_tracked
    BY <1>2, <1>4, <1>6, <2>2
  <2>4. Len(f) <= MAX_TRACKED_RANGES
    BY <1>4, <1>6, <2>2
  <2>5. \A x \in Nat : In(f, x) => x >= m + 1 /\ x \in received'
    BY <1>1, <1>4, <1>6, <2>2
  <2>6. ASSUME NEW x \in received', x >= m + 1 PROVE In(f, x)
    <3>1. x \in Nat /\ x > m /\ x >= min_tracked
      BY <1>2, <1>5, <2>2, <2>3, <2>6, SMTT(20)
    <3>2. In(s, x)
      BY <1>1, <1>4, <1>6, <3>1
    <3> QED
      BY <2>2, <3>1, <3>2
  <2>7. ASSUME NEW i \in DOMAIN f, ~f[i].ack_needed PROVE Pns(f[i]) \subseteq confirmed
    BY <1>4, <1>6, <2>2, <2>7
  <2>8. m + 1 \in Nat
    BY <2>2
  <2> QED
    BY <1>1, <1>5, <2>1, <2>2, <2>4, <2>5, <2>6, <2>7, <2>8 DEF IInv, Canonical, In, Pns
<1>8. CASE ~(Len(s) > MAX_TRACKED_RANGES)
  <2>1. ranges' = s /\ min_tracked' = min_tracked
    BY <1>1, <1>8 DEF trim_ranges, TrimmedTo
  <2>2. Len(s) <= MAX_TRACKED_RANGES
    BY <1>4, <1>6, <1>8
  <2>3. \A x \in Nat : In(s, x) => x >= min_tracked /\ x \in received'
    BY <1>1, <1>2, <1>4, <1>6, SMTT(20)
  <2>4. \A x \in received' : x >= min_tracked => In(s, x)
    BY <1>1, <1>2, <1>4, <1>6, SMTT(20)
  <2>5. ASSUME NEW i \in DOMAIN s, ~s[i].ack_needed PROVE Pns(s[i]) \subseteq confirmed
    BY <1>4, <1>6, <2>5, SMTT(20)
  <2> QED
    BY <1>1, <1>2, <1>4, <1>5, <2>1, <2>2, <2>3, <2>4, <2>5, SMTT(20) DEF IInv, Canonical, In, Pns
<1> QED
  BY <1>7, <1>8

\* acknowledged(): only a range that the frame covers is no longer reported.
LEMMA AckedOK ==
    ASSUME IInv, NEW k \in DOMAIN frames, FrameAcked(k)
    PROVE  IInv'
<1> DEFINE frame == frames[k]
<1>1. /\ ranges' = acknowledged(frame) /\ frames' = RemoveAt(frames, k) /\ min_tracked' = min_tracked
      /\ received' = received /\ confirmed' = confirmed \cup UNION {Pns(r) : r \in frame}
  BY DEF FrameAcked
<1>2. frames \in Seq(SUBSET Tracked) /\ k \in 1 .. Len(frames) /\ frame \in SUBSET Tracked
  BY DEF IInv
<1>3. frames' \in Seq(SUBSET Tracked)
  BY <1>1, <1>2, RemoveAtIs, SMTT(20)
<1> HIDE DEF frame
<1>4. /\ ranges \in Seq(Tracked) /\ Len(ranges) \in Nat /\ DOMAIN ranges = 1 .. Len(ranges)
      /\ \A i \in 1 .. Len(ranges) :
            /\ ranges[i] \in Tracked /\ ranges[i].smallest \in Nat /\ ranges[i].largest \in Nat
            /\ ranges[i].smallest <= ranges[i].largest
      /\ \A i, j \in 1 .. Len(ranges) : i < j => ranges[i].smallest >= ranges[j].largest + 2
  BY CanonicalIs DEF IInv
<1> DEFINE t == acknowledged(frame)
<1>5. ASSUME NEW i \in 1 .. Len(ranges)
      PROVE  /\ t[i] \in Tracked /\ t[i].smallest = ranges[i].smallest /\ t[i].largest = ranges[i].largest
             /\ ~t[i].ack_needed => ~ranges[i].ack_needed \/ \E r \in frame : Cleared(ranges[i], r)
  <2> DEFINE hit == {r \in frame : r.largest >= ranges[i].smallest /\
                                   \A j \in 1 .. (i - 1) : ranges[j].smallest > r.largest}
             b == ranges[i].ack_needed /\ \A r \in hit : ~Cleared(ranges[i], r)
  <2>1. t[i] = [ranges[i] EXCEPT !.ack_needed = b]
    BY <1>4 DEF acknowledged
  <2>2. ~b => ~ranges[i].ack_needed \/ \E r \in frame : Cleared(ranges[i], r)
    OBVIOUS
  <2>3. b \in BOOLEAN
    OBVIOUS
  <2> HIDE DEF b, t
  <2>4. ranges[i] \in Tracked
    BY <1>4
  <2> QED
    BY <2>1, <2>2, <2>3, <2>4 DEF Tracked
<1>6. DOMAIN t = 1 .. Len(ranges) /\ t = [i \in 1 .. Len(ranges) |-> t[i]]
  BY <1>4 DEF acknowledged
<1> HIDE DEF t
<1>7. t \in Seq(Tracked) /\ Len(t) = Len(ranges)
  BY <1>4, <1>5, <1>6
<1>8. Canonical(t)
  BY <1>4, <1>5, <1>6, <1>7, SMTT(20) DEF Canonical
<1>9. ASSUME NEW x \in Nat PROVE In(t, x) <=> In(ranges, x)
  BY <1>4, <1>5, <1>6 DEF In
<1>10. ASSUME NEW i \in DOMAIN t, ~t[i].ack_needed PROVE Pns(t[i]) \subseteq confirmed'
  <2>1. i \in 1 .. Len(ranges) /\ Pns(t[i]) = Pns(ranges[i])
    BY <1>5, <1>6 DEF Pns
  <2>2. CASE ~ranges[i].ack_needed
    BY <1>1, <1>4, <2>1, <2>2 DEF IInv
  <2>3. CASE \E r \in frame : Cleared(ranges[i], r)
    <3>1. PICK r \in frame : Cleared(ranges[i], r)
      BY <2>3
    <3>2. r.smallest \in Nat /\ r.largest \in Nat
      BY <1>2 DEF Tracked, frame
    <3>3. Pns(ranges[i]) \subseteq Pns(r)
      BY <1>4, <2>1, <3>1, <3>2 DEF Pns, Cleared
    <3>4. Pns(r) \subseteq confirmed'
      BY <1>1
    <3> QED
      BY <2>1, <3>3, <3>4
  <2> QED
    BY <1>5, <1>10, <2>1, <2>2, <2>3
<1>11. ranges' = t
  BY <1>1 DEF t
<1>12. /\ Len(t) <= MAX_TRACKED_RANGES /\ min_tracked' \in Nat /\ received' \subseteq Nat
       /\ \A pn \in Nat : In(t, pn) => pn >= min_tracked' /\ pn \in received'
       /\ \A pn \in received' : pn >= min_tracked' => In(t, pn)
  BY <1>1, <1>7, <1>9 DEF IInv
<1> QED
  BY <1>3, <1>8, <1>10, <1>11, <1>12, SMTT(20) DEF IInv, Canonical, In, Pns

\* Every step keeps the invariant.
LEMMA StepOK ==
    ASSUME ConstantsOK, IInv, [ANext]_avars
    PROVE  IInv'
<1>1. ASSUME UNCHANGED <<ranges, min_tracked, received, confirmed>>, frames' \in Seq(SUBSET Tracked)
      PROVE  IInv'
  BY <1>1 DEF IInv, Canonical, In, Pns
<1>2. ASSUME NEW pn \in 0 .. MaxNumber, NEW ae \in BOOLEAN, NEW ping \in BOOLEAN, set_received(pn, ae, ping)
      PROVE  IInv'
  BY <1>2, ReceiveOK, SMTT(20)
<1>3. ASSUME NEW f \in Frequencies, ack_freq(f) PROVE IInv'
  BY <1>1, <1>3 DEF ack_freq, IInv
<1>4. CASE DelayElapses
  BY <1>1, <1>4 DEF DelayElapses, IInv
<1>5. ASSUME NEW last \in DOMAIN ranges, write_frame(last) PROVE IInv'
  <2> DEFINE frame == {ranges[i] : i \in {k \in 1 .. last : ranges[k].ack_needed}}
  <2>1. ranges \in Seq(Tracked) /\ Len(ranges) \in Nat /\ DOMAIN ranges = 1 .. Len(ranges)
    BY CanonicalIs DEF IInv
  <2>2. frame \in SUBSET Tracked
    <3>1. ASSUME NEW k \in 1 .. last PROVE ranges[k] \in Tracked
      BY <2>1
    <3> QED
      BY <3>1
  <2>3. frames' = Append(frames, frame) /\ UNCHANGED <<ranges, min_tracked, received, confirmed>>
    BY <1>5 DEF write_frame
  <2> HIDE DEF frame
  <2>4. frames' \in Seq(SUBSET Tracked)
    BY <2>2, <2>3 DEF IInv
  <2> QED
    BY <1>1, <2>3, <2>4
<1>6. ASSUME NEW k \in DOMAIN frames, FrameAcked(k) PROVE IInv'
  BY <1>6, AckedOK
<1>7. ASSUME NEW k \in DOMAIN frames, FrameLost(k) PROVE IInv'
  <2>1. frames \in Seq(SUBSET Tracked) /\ k \in 1 .. Len(frames)
    BY DEF IInv
  <2>2. frames' = RemoveAt(frames, k) /\ UNCHANGED <<ranges, min_tracked, received, confirmed>>
    BY <1>7 DEF FrameLost
  <2>3. frames' \in Seq(SUBSET Tracked)
    BY <2>1, <2>2, RemoveAtIs
  <2> QED
    BY <1>1, <2>2, <2>3
<1>8. CASE UNCHANGED avars
  BY <1>1, <1>8 DEF avars, IInv
<1> QED
  BY <1>2, <1>3, <1>4, <1>5, <1>6, <1>7, <1>8, SMTT(20) DEF ANext

(* However packets arrive and whatever is trimmed, the ranges stay newest  *)
(* first with gaps between them and within MAX_TRACKED_RANGES              *)
(* (RecvdPackets::add, trim_ranges); a packet that arrived is recognised   *)
(* when it comes again and, above min_tracked, no other is (is_duplicate); *)
(* and a range that is no longer reported is known to the peer             *)
(* (acknowledged, write_frame).                                            *)
THEOREM RangesAreExact ==
    ASSUME ConstantsOK
    PROVE  ASpec => [](RangesCanonical /\ DuplicatesExact /\ AcksReachThePeer)
<1>1. AInit => IInv
  BY InitOK
<1>2. IInv /\ [ANext]_avars => IInv'
  BY StepOK
<1>3. IInv => RangesCanonical /\ DuplicatesExact /\ AcksReachThePeer
  <2> SUFFICES ASSUME IInv PROVE RangesCanonical /\ DuplicatesExact /\ AcksReachThePeer
    OBVIOUS
  <2>1. /\ ranges \in Seq(Tracked) /\ Len(ranges) \in Nat /\ DOMAIN ranges = 1 .. Len(ranges)
        /\ \A i \in 1 .. Len(ranges) :
              /\ ranges[i] \in Tracked /\ ranges[i].smallest \in Nat /\ ranges[i].largest \in Nat
              /\ ranges[i].smallest <= ranges[i].largest
        /\ \A i, j \in 1 .. Len(ranges) : i < j => ranges[i].smallest >= ranges[j].largest + 2
    BY CanonicalIs DEF IInv
  <2>2. RangesCanonical
    <3>1. ASSUME NEW i \in 2 .. Len(ranges) PROVE ranges[i - 1].smallest >= ranges[i].largest + 2
      <4>1. i - 1 \in 1 .. Len(ranges) /\ i \in 1 .. Len(ranges) /\ i - 1 < i
        BY <2>1
      <4> QED
        BY <2>1, <4>1
    <3> QED
      BY <2>1, <3>1 DEF RangesCanonical, IInv
  <2>3. \A pn \in Nat : is_duplicate(pn) <=> pn < min_tracked \/ In(ranges, pn)
    BY <2>1 DEF is_duplicate, In, Pns
  <2>4. /\ min_tracked \in Nat /\ received \subseteq Nat
        /\ \A pn \in Nat : In(ranges, pn) => pn >= min_tracked /\ pn \in received
        /\ \A pn \in received : pn >= min_tracked => In(ranges, pn)
    BY DEF IInv
  <2>5. ASSUME NEW pn \in received PROVE is_duplicate(pn)
    BY <2>3, <2>4
  <2>6. ASSUME NEW pn \in 0 .. MaxNumber, pn >= min_tracked PROVE is_duplicate(pn) <=> pn \in received
    <3>1. pn \in Nat
      BY DEF ConstantsOK
    <3> QED
      BY <2>3, <2>4, <2>6, <3>1
  <2>7. DuplicatesExact
    BY <2>5, <2>6 DEF DuplicatesExact
  <2>8. AcksReachThePeer
    BY DEF AcksReachThePeer, IInv
  <2> QED
    BY <2>2, <2>7, <2>8
<1> QED
  BY <1>1, <1>2, <1>3, PTL DEF ASpec

-----------------------------------------------------------------------------
(* What an endpoint sent and has not heard of: at most one frame, the last *)
(* one.  Until it arrives the peer follows the current rate, and from then *)
(* on the rate of the frame.                                               *)
OneOutstanding ==
    /\ rate.next_frame_seqno \in Nat /\ peer.seqno \in Nat
    /\ IF rate.frame_outstanding
       THEN \E frame \in requests \cup answers :
               /\ frame.seqno = rate.next_frame_seqno - 1 /\ frame.seqno >= peer.seqno
               /\ \/ requests = {frame} /\ answers = {} /\ peer.rate = rate.current
                  \/ requests = {} /\ answers = {frame} /\ peer.rate = frame.rate
       ELSE requests = {} /\ answers = {} /\ peer.rate = rate.current /\ peer.seqno <= rate.next_frame_seqno

RateType ==
    /\ rate = [current |-> rate.current, target |-> rate.target,
               next_frame_seqno |-> rate.next_frame_seqno, frame_outstanding |-> rate.frame_outstanding]
    /\ rate.frame_outstanding \in BOOLEAN

RateInv == RateType /\ OneOutstanding

(* The rate of the peer is known at all times, for any rates and any       *)
(* number of frames (FlexibleAckRate, RecvdPackets::ack_freq).             *)
THEOREM RateAlwaysKnown == FSpec => []RateIsKnown
<1>1. FInit => RateInv
  BY DEF FInit, RateInv, OneOutstanding, RateType
<1>2. RateInv /\ [FNext]_fvars => RateInv'
  <2> SUFFICES ASSUME RateInv, [FNext]_fvars PROVE RateInv'
    OBVIOUS
  <2> USE DEF RateInv, OneOutstanding, RateType
  <2>1. CASE WriteFrequency
    <3> DEFINE frame == [seqno |-> rate.next_frame_seqno, rate |-> rate.target]
    <3>1. requests' = {frame} /\ answers' = {} /\ peer' = peer /\ peer.rate = rate.current
      BY <2>1 DEF WriteFrequency
    <3>2. /\ rate'.frame_outstanding = TRUE /\ rate'.next_frame_seqno = rate.next_frame_seqno + 1
          /\ rate'.current = rate.current /\ RateType'
      BY <2>1 DEF WriteFrequency
    <3>3. frame.seqno = rate'.next_frame_seqno - 1 /\ frame.seqno >= peer'.seqno
      BY <2>1, <3>1, <3>2 DEF WriteFrequency
    <3> QED
      BY <3>1, <3>2, <3>3
  <2>2. ASSUME NEW target \in Rates, update(target) PROVE RateInv'
    BY <2>2 DEF update
  <2>3. ASSUME NEW frame \in requests, Follow(frame) PROVE RateInv'
    BY <2>3 DEF Follow
  <2>4. ASSUME NEW frame \in requests, FrequencyLost(frame) PROVE RateInv'
    <3>1. /\ rate'.frame_outstanding = FALSE /\ rate'.next_frame_seqno = rate.next_frame_seqno
          /\ rate'.current = rate.current /\ RateType'
      BY <2>4 DEF FrequencyLost
    <3>2. rate.frame_outstanding /\ requests = {frame} /\ answers = {} /\ peer.rate = rate.current
      BY <2>4
    <3>3. peer.seqno <= rate.next_frame_seqno
      BY <3>2
    <3> QED
      BY <2>4, <3>1, <3>2, <3>3 DEF FrequencyLost
  <2>5. ASSUME NEW frame \in answers, FrequencyAcked(frame) PROVE RateInv'
    <3>1. /\ rate'.frame_outstanding = FALSE /\ rate'.next_frame_seqno = rate.next_frame_seqno
          /\ rate'.current = frame.rate /\ RateType'
      BY <2>5 DEF FrequencyAcked
    <3>2. rate.frame_outstanding /\ answers = {frame} /\ requests = {} /\ peer.rate = frame.rate
      BY <2>5
    <3>3. peer.seqno <= rate.next_frame_seqno
      BY <3>2
    <3> QED
      BY <2>5, <3>1, <3>2, <3>3 DEF FrequencyAcked
  <2>6. CASE UNCHANGED fvars
    BY <2>6 DEF fvars
  <2> QED
    BY <2>1, <2>2, <2>3, <2>4, <2>5, <2>6 DEF FNext
<1>3. RateInv => RateIsKnown
  BY DEF RateInv, OneOutstanding, RateIsKnown
<1> QED
  BY <1>1, <1>2, <1>3, PTL DEF FSpec
=============================================================================
