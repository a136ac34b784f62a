------------------------ MODULE RxStreamOrdererProofs ------------------------
(***************************************************************************)
(* RxStreamOrderer implements RxBytes, for streams of any length and for   *)
(* any limits on the ranges: whatever frames arrive, in whatever order and *)
(* overlap, the buffer holds exactly the bytes that arrived and hands them *)
(* out in order, each once.                                                *)
(***************************************************************************)
EXTENDS RxStreamOrderer, WellFoundedInduction, TLAPS

ConstantsOK == MaxOffset \in Nat

\* Ranges are not empty and do not overlap.
Ranges(r) ==
    /\ DOMAIN r \subseteq Nat
    /\ \A k \in DOMAIN r : r[k] \in Nat /\ r[k] >= 1
    /\ \A j, k \in DOMAIN r : j < k => j + r[j] <= k

Covers(r, b) == \E k \in DOMAIN r : k <= b /\ b < k + r[k]

\* The last range ends at e, which is z if there is no range.
EndsAt(r, e, z) ==
    /\ DOMAIN r = {} => e = z
    /\ DOMAIN r # {} => \E k \in DOMAIN r : k + r[k] = e
    /\ \A k \in DOMAIN r : k + r[k] <= e

IInv ==
    /\ retired \in Nat /\ end \in Nat /\ reliable_size \in Nat
    /\ retired <= end /\ end <= MaxOffset /\ reliable_size <= MaxOffset
    /\ received \in Nat /\ error \in BOOLEAN
    /\ Ranges(data_ranges)
    /\ \A k \in DOMAIN data_ranges : k + data_ranges[k] > retired
    /\ EndsAt(data_ranges, end, retired)

-----------------------------------------------------------------------------
(* Sets of offsets have a least element, and a largest if they are bounded. *)
LEMMA Least ==
    ASSUME NEW T, T \subseteq Nat, T # {}
    PROVE  \E x \in T : \A y \in T : x <= y
<1> DEFINE R == OpToRel(<, Nat)
<1>1. IsWellFoundedOn(R, Nat)
  BY NatLessThanWellFounded
<1>2. \A p \in Nat \X Nat : p \in R <=> p[1] < p[2]
  BY DEF OpToRel
<1> HIDE DEF R
<1>3. PICK x \in T : \A y \in T : ~ (<<y, x>> \in R)
  BY <1>1, WFMin
<1>4. \A y, z \in Nat : <<y, z>> \in R <=> y < z
  BY <1>2
<1>5. x \in Nat /\ \A y \in T : y \in Nat /\ ~ (y < x)
  BY <1>3, <1>4
<1> QED
  BY <1>3, <1>5

LEMMA MinOf ==
    ASSUME NEW T, T \subseteq Nat, T # {}
    PROVE  Min(T) \in T /\ \A x \in T : Min(T) <= x
<1>1. PICK x \in T : \A y \in T : x <= y
  BY Least
<1> QED
  BY <1>1 DEF Min

LEMMA MaxOf ==
    ASSUME NEW T, T \subseteq Nat, T # {}, NEW b \in Nat, \A x \in T : x <= b
    PROVE  Max(T) \in T /\ \A x \in T : x <= Max(T)
<1> DEFINE U == {u \in Nat : \A x \in T : x <= u}
<1>1. U \subseteq Nat /\ U # {}
  OBVIOUS
<1>2. PICK u \in U : \A v \in U : u <= v
  <2> HIDE DEF U
  <2> QED
    BY <1>1, Least
<1>3. u \in Nat /\ \A x \in T : x \in Nat /\ x <= u
  BY <1>2
<1>4. u \in T
  <2> SUFFICES ASSUME u \notin T PROVE FALSE
    OBVIOUS
  <2>1. \A x \in T : x \in Nat /\ x < u
    BY <1>3
  <2>2. PICK z \in T : TRUE
    OBVIOUS
  <2>3. z \in Nat /\ z < u
    BY <2>1
  <2>4. u - 1 \in Nat /\ \A x \in T : x <= u - 1
    BY <1>3, <2>1, <2>3
  <2>5. u <= u - 1
    BY <1>2, <2>4
  <2> QED
    BY <1>3, <2>5
<1> QED
  BY <1>3, <1>4 DEF Max

LEMMA MaxOfTwo ==
    ASSUME NEW a \in Nat, NEW b \in Nat
    PROVE  /\ Max({a, b}) = (IF a >= b THEN a ELSE b)
           /\ Max({a}) = a
<1>1. Max({a, b}) \in {a, b} /\ \A x \in {a, b} : x <= Max({a, b})
  <2>1. {a, b} \subseteq Nat /\ {a, b} # {} /\ a + b \in Nat /\ \A x \in {a, b} : x <= a + b
    OBVIOUS
  <2> QED
    BY ONLY <2>1, MaxOf
<1>2. Max({a}) \in {a}
  <2>1. {a} \subseteq Nat /\ {a} # {} /\ \A x \in {a} : x <= a
    OBVIOUS
  <2> QED
    BY ONLY <2>1, a \in Nat, MaxOf
<1> QED
  BY <1>1, <1>2

LEMMA MinOfTwo ==
    ASSUME NEW a \in Nat, NEW b \in Nat
    PROVE  Min({a, b}) = (IF a <= b THEN a ELSE b)
<1>1. Min({a, b}) \in {a, b} /\ \A x \in {a, b} : Min({a, b}) <= x
  <2>1. {a, b} \subseteq Nat /\ {a, b} # {}
    OBVIOUS
  <2> QED
    BY ONLY <2>1, MinOf
<1> QED
  BY <1>1

-----------------------------------------------------------------------------
(* What the operations on ranges do to the bytes they cover. *)

\* No range of r overlaps the len bytes from start on.
Apart(r, start, len) == \A k \in DOMAIN r : k + r[k] <= start \/ start + len <= k

\* Range set s is r with a range of len bytes at start.
IsWith(s, r, start, len) ==
    /\ Ranges(s)
    /\ \A b \in Nat : Covers(s, b) <=> Covers(r, b) \/ (start <= b /\ b < start + len)
    /\ start \notin DOMAIN r
    /\ DOMAIN s = DOMAIN r \cup {start} /\ s[start] = len
    /\ \A k \in DOMAIN r : s[k] = r[k]

LEMMA Inserted ==
    ASSUME NEW r, Ranges(r), NEW start \in Nat, NEW len \in Nat, len >= 1, Apart(r, start, len)
    PROVE  IsWith(With(r, start, len), r, start, len)
<1> USE DEF Apart
<1>1. start \notin DOMAIN r
  BY DEF Ranges
<1>2. /\ DOMAIN With(r, start, len) = DOMAIN r \cup {start}
      /\ With(r, start, len)[start] = len
      /\ \A k \in DOMAIN r : With(r, start, len)[k] = r[k]
  BY <1>1 DEF With
<1> DEFINE s == With(r, start, len)
<1> HIDE DEF s
<1>3. Ranges(s)
  BY <1>2 DEF Ranges, s
<1>4. ASSUME NEW b \in Nat
      PROVE  Covers(s, b) <=> Covers(r, b) \/ (start <= b /\ b < start + len)
  BY <1>1, <1>2 DEF Covers, Ranges, s
<1> QED
  BY <1>1, <1>2, <1>3, <1>4 DEF s, IsWith

\* Range set s is r with len bytes appended to the range at p.
IsGrown(s, r, p, len) ==
    /\ Ranges(s)
    /\ \A b \in Nat : Covers(s, b) <=> Covers(r, b) \/ (p + r[p] <= b /\ b < p + r[p] + len)
    /\ DOMAIN s = DOMAIN r /\ s[p] = r[p] + len
    /\ \A k \in DOMAIN r \ {p} : s[k] = r[k]

RoomFor(r, p, len) == \A k \in DOMAIN r : p < k => p + r[p] + len <= k

LEMMA Extended ==
    ASSUME NEW r, Ranges(r), NEW p \in DOMAIN r, NEW len \in Nat, RoomFor(r, p, len)
    PROVE  IsGrown([r EXCEPT ![p] = @ + len], r, p, len)
<1> USE DEF RoomFor
<1> DEFINE s == [r EXCEPT ![p] = @ + len]
<1>1. /\ DOMAIN s = DOMAIN r /\ s[p] = r[p] + len
      /\ \A k \in DOMAIN r \ {p} : s[k] = r[k]
  OBVIOUS
<1> HIDE DEF s
<1>2. Ranges(s)
  BY <1>1 DEF Ranges
<1>3. ASSUME NEW b \in Nat
      PROVE  Covers(s, b) <=> Covers(r, b) \/ (p + r[p] <= b /\ b < p + r[p] + len)
  BY <1>1 DEF Covers, Ranges
<1> QED
  BY <1>1, <1>2, <1>3 DEF s, IsGrown

LEMMA Fewer ==
    ASSUME NEW r, Ranges(r), NEW keys
    PROVE  /\ Ranges(Without(r, keys))
           /\ DOMAIN Without(r, keys) = DOMAIN r \ keys
           /\ \A k \in DOMAIN r \ keys : Without(r, keys)[k] = r[k]
<1>1. /\ DOMAIN Without(r, keys) = DOMAIN r \ keys
      /\ \A k \in DOMAIN r \ keys : Without(r, keys)[k] = r[k]
  BY DEF Without
<1> QED
  BY <1>1 DEF Ranges

(* The part of a frame that lies before the ranges it meets: what is left  *)
(* of them does not overlap it, and covers the rest of the frame.          *)
Hit(r0, start, new_end) == {k \in DOMAIN r0 : start <= k /\ k < new_end}
Kept(r0, start, new_end) == {k \in Hit(r0, start, new_end) : k + r0[k] >= new_end}
AddEnd(r0, start, new_end) ==
    IF Kept(r0, start, new_end) = {} THEN new_end ELSE Min(Kept(r0, start, new_end))
Left(r0, start, new_end) == Without(r0, Hit(r0, start, new_end) \ Kept(r0, start, new_end))

Below(r0, start) == \A k \in DOMAIN r0 : k < start => k + r0[k] <= start

IsGap(r0, start, new_end, add_end, r) ==
    /\ add_end \in Nat /\ start <= add_end /\ add_end <= new_end
    /\ Ranges(r)
    /\ DOMAIN r \subseteq DOMAIN r0 /\ \A k \in DOMAIN r : r[k] = r0[k]
    /\ \A k \in DOMAIN r0 \ DOMAIN r : start <= k /\ k + r0[k] < new_end
    /\ \A k \in DOMAIN r : k + r[k] <= start \/ add_end <= k
    /\ \A k \in DOMAIN r : k > add_end => k >= new_end
    /\ add_end < new_end => add_end \in DOMAIN r /\ add_end + r[add_end] >= new_end
    /\ \A b \in Nat : Covers(r, b) \/ (start <= b /\ b < add_end) <=>
                         Covers(r0, b) \/ (start <= b /\ b < new_end)

LEMMA Gap ==
    ASSUME NEW r0, Ranges(r0), NEW start \in Nat, NEW new_end \in Nat, start < new_end, Below(r0, start)
    PROVE  IsGap(r0, start, new_end, AddEnd(r0, start, new_end), Left(r0, start, new_end))
<1> DEFINE hit == Hit(r0, start, new_end)
           kept == Kept(r0, start, new_end)
           add_end == AddEnd(r0, start, new_end)
           r == Left(r0, start, new_end)
<1>a. /\ hit = {k \in DOMAIN r0 : start <= k /\ k < new_end}
      /\ kept = {k \in hit : k + r0[k] >= new_end}
      /\ r = Without(r0, hit \ kept)
  BY DEF Hit, Kept, Left
<1>b. add_end = (IF kept = {} THEN new_end ELSE Min(kept))
  BY DEF AddEnd
<1>c. \A k \in DOMAIN r0 : k < start => k + r0[k] <= start
  BY DEF Below
<1> HIDE DEF hit, kept, add_end, r
<1>1. /\ DOMAIN r = DOMAIN r0 \ (hit \ kept) /\ \A k \in DOMAIN r : r[k] = r0[k]
      /\ Ranges(r)
  <2> DEFINE keys == hit \ kept
  <2>1. r = Without(r0, keys)
    BY <1>a
  <2> HIDE DEF keys
  <2>2. /\ Ranges(r) /\ DOMAIN r = DOMAIN r0 \ keys
        /\ \A k \in DOMAIN r0 \ keys : r[k] = r0[k]
    BY ONLY <2>1, Ranges(r0), Fewer
  <2> QED
    BY <2>2 DEF keys
<1>d. \A k \in DOMAIN r0 \ DOMAIN r : start <= k /\ k + r0[k] < new_end
  BY <1>1, <1>a DEF Ranges
<1> SUFFICES IsGap(r0, start, new_end, add_end, r)
  BY DEF add_end, r
<1>2. CASE kept = {}
  <2>1. add_end = new_end
    BY <1>2, <1>b
  <2>2. \A k \in DOMAIN r : k + r[k] <= start \/ add_end <= k
    BY <1>1, <1>2, <1>a, <1>c, <2>1 DEF Ranges
  <2>3. ASSUME NEW b \in Nat
        PROVE  Covers(r, b) \/ (start <= b /\ b < add_end) <=>
                  Covers(r0, b) \/ (start <= b /\ b < new_end)
    BY <1>1, <1>2, <1>a, <2>1 DEF Covers, Ranges
  <2>4. \A k \in DOMAIN r : k > add_end => k >= new_end
    BY <1>1, <2>1 DEF Ranges
  <2> QED
    BY ONLY <1>1, <1>d, <2>1, <2>2, <2>3, <2>4, start \in Nat, new_end \in Nat, start < new_end
        DEF IsGap
<1>3. CASE kept # {}
  <2>1. kept \subseteq Nat
    BY <1>a DEF Ranges
  <2>2. add_end \in kept
    BY <1>3, <1>b, <2>1, MinOf
  <2>3. kept = {add_end}
    <3>1. ASSUME NEW k \in kept PROVE k = add_end
      <4>1. /\ k \in DOMAIN r0 /\ k < new_end /\ k + r0[k] >= new_end
            /\ add_end \in DOMAIN r0 /\ add_end < new_end /\ add_end + r0[add_end] >= new_end
        BY <1>a, <2>2, <3>1
      <4> QED
        BY <4>1 DEF Ranges
    <3> QED
      BY <2>2, <3>1
  <2>4. /\ add_end \in DOMAIN r0 /\ start <= add_end /\ add_end < new_end
        /\ add_end + r0[add_end] >= new_end /\ add_end \in Nat
        /\ add_end \in DOMAIN r
    BY <1>1, <1>a, <2>2 DEF Ranges
  <2>5. \A k \in DOMAIN r : k + r[k] <= start \/ k = add_end \/ new_end <= k
    BY <1>1, <1>a, <1>c, <2>3 DEF Ranges
  <2>6. \A k \in hit \ kept : start <= k /\ k + r0[k] <= add_end
    BY <1>a, <2>3, <2>4 DEF Ranges
  <2>7. ASSUME NEW b \in Nat
        PROVE  Covers(r, b) \/ (start <= b /\ b < add_end) <=>
                  Covers(r0, b) \/ (start <= b /\ b < new_end)
    <3>1. ASSUME Covers(r, b) PROVE Covers(r0, b)
      BY <1>1, <3>1 DEF Covers
    <3>2. ASSUME Covers(r0, b) PROVE Covers(r, b) \/ (start <= b /\ b < add_end)
      <4>1. PICK k \in DOMAIN r0 : k <= b /\ b < k + r0[k]
        BY <3>2 DEF Covers
      <4>2. CASE k \in DOMAIN r
        BY <1>1, <4>1, <4>2 DEF Covers
      <4>3. CASE k \in hit \ kept
        BY <2>4, <2>6, <4>1, <4>3 DEF Ranges
      <4> QED
        BY <1>1, <4>2, <4>3
    <3>3. ASSUME start <= b, b < new_end PROVE Covers(r, b) \/ (start <= b /\ b < add_end)
      <4>1. add_end \in DOMAIN r /\ r[add_end] \in Nat /\ add_end + r[add_end] >= new_end
        BY <1>1, <2>4 DEF Ranges
      <4>2. CASE b < add_end
        BY <3>3, <4>2
      <4>3. CASE add_end <= b
        <5>1. add_end <= b /\ b < add_end + r[add_end]
          BY <2>4, <3>3, <4>1, <4>3
        <5> QED
          BY <4>1, <5>1 DEF Covers
      <4> QED
        BY <2>4, <4>2, <4>3
    <3> QED
      BY <2>4, <3>1, <3>2, <3>3
  <2>8. \A k \in DOMAIN r : k \in Nat /\ r[k] \in Nat /\ r[k] >= 1
    BY <1>1 DEF Ranges
  <2> QED
    BY ONLY <1>1, <1>d, <2>4, <2>5, <2>7, <2>8, start \in Nat, new_end \in Nat, start < new_end
        DEF IsGap
<1> QED
  BY <1>2, <1>3

-----------------------------------------------------------------------------
\* The bytes lo .. hi - 1 have been added to the buffer, and nothing else.
Added(lo, hi) ==
    /\ received' \in Nat /\ error' \in BOOLEAN
    /\ end' \in Nat /\ end <= end' /\ end' <= MaxOffset
    /\ Ranges(data_ranges')
    /\ \A k \in DOMAIN data_ranges' : k + data_ranges'[k] > retired
    /\ EndsAt(data_ranges', end', retired)
    /\ \A b \in Nat : Covers(data_ranges', b) <=> Covers(data_ranges, b) \/ (lo <= b /\ b < hi)

(* Data at or after the end is appended to the last range or starts one. *)
LEMMA BeyondStep ==
    ASSUME ConstantsOK, IInv, NEW start \in Nat, NEW new_end \in Nat,
           end <= start, start < new_end, new_end <= MaxOffset, Beyond(start, new_end)
    PROVE  Added(start, new_end)
<1> DEFINE len == new_end - start
           p == Max(DOMAIN data_ranges)
<1>1. len \in Nat /\ len >= 1 /\ start + len = new_end
  OBVIOUS
<1>2. received' \in Nat
  BY <1>1 DEF Beyond, IInv
<1>3. CASE start = end /\ DOMAIN data_ranges # {} /\ data_ranges[p] < RANGE_TARGET
  <2>1. data_ranges' = [data_ranges EXCEPT ![p] = @ + len] /\ end' = new_end /\ error' = error
    BY <1>3 DEF Beyond, Extend
  <2>2. p \in DOMAIN data_ranges /\ \A k \in DOMAIN data_ranges : k <= p
    <3>1. DOMAIN data_ranges \subseteq Nat /\ \A k \in DOMAIN data_ranges : k <= end
      BY DEF IInv, Ranges, EndsAt
    <3> QED
      BY <1>3, <3>1, MaxOf DEF IInv
  <2> HIDE DEF p, len
  <2>3. p + data_ranges[p] = end
    <3>1. PICK k \in DOMAIN data_ranges : k + data_ranges[k] = end
      BY <1>3 DEF IInv, EndsAt
    <3> QED
      BY <2>2, <3>1, SMTT(30) DEF IInv, Ranges, EndsAt
  <2>4. RoomFor(data_ranges, p, len)
    BY <2>2 DEF IInv, Ranges, RoomFor
  <2>5. IsGrown(data_ranges', data_ranges, p, len)
    BY <1>1, <2>1, <2>2, <2>4, Extended DEF IInv
  <2> USE DEF IsGrown
  <2>6. \A k \in DOMAIN data_ranges' :
           k + data_ranges'[k] > retired /\ k + data_ranges'[k] <= new_end
    <3>1. /\ \A k \in DOMAIN data_ranges : /\ k \in Nat /\ data_ranges[k] \in Nat
                                            /\ k + data_ranges[k] > retired /\ k + data_ranges[k] <= end
          /\ retired \in Nat /\ end \in Nat
      BY DEF IInv, Ranges, EndsAt
    <3>2. p + data_ranges'[p] = new_end
      BY <1>1, <1>3, <2>2, <2>3, <2>5, <3>1
    <3> QED
      BY <2>2, <2>5, <3>1, <3>2
  <2>7. p + data_ranges'[p] = new_end
    BY <1>1, <1>3, <2>2, <2>3, <2>5 DEF IInv, Ranges
  <2>8. EndsAt(data_ranges', end', retired)
    BY <2>1, <2>2, <2>5, <2>6, <2>7 DEF EndsAt
  <2> QED
    <3>1. error' \in BOOLEAN
      BY <2>1, Zenon DEF IInv
    <3>2. end' \in Nat /\ end <= end' /\ end' <= MaxOffset
      BY <2>1 DEF IInv
    <3>3. \A b \in Nat : Covers(data_ranges', b) <=>
             Covers(data_ranges, b) \/ (start <= b /\ b < new_end)
      BY <1>1, <1>3, <2>3, <2>5
    <3> QED
      BY <1>2, <2>5, <2>6, <2>8, <3>1, <3>2, <3>3 DEF Added
<1>4. CASE ~ (start = end /\ DOMAIN data_ranges # {} /\ data_ranges[p] < RANGE_TARGET)
  <2>1. data_ranges' = With(data_ranges, start, len) /\ end' = new_end
    BY <1>4 DEF Beyond, Insert
  <2>2a. error' \in BOOLEAN
    <3>1. error' = (Cardinality(DOMAIN data_ranges') > MAX_GAPS + (new_end - retired) \div RANGE_TARGET)
      BY <1>4 DEF Beyond, Insert
    <3> QED
      BY <3>1, SMT
  <2> HIDE DEF p, len
  <2>2. \A k \in DOMAIN data_ranges : k + data_ranges[k] <= start
    BY DEF IInv, EndsAt, Ranges
  <2>9. Apart(data_ranges, start, len)
    BY <2>2 DEF Apart
  <2>3. IsWith(data_ranges', data_ranges, start, len)
    BY <1>1, <2>1, <2>9, Inserted DEF IInv
  <2> USE DEF IsWith
  <2>4. \A k \in DOMAIN data_ranges' :
           k + data_ranges'[k] > retired /\ k + data_ranges'[k] <= new_end
    BY <1>1, <2>2, <2>3 DEF IInv, Ranges
  <2>5. EndsAt(data_ranges', end', retired)
    BY <1>1, <2>1, <2>3, <2>4 DEF EndsAt
  <2>6. end' \in Nat /\ end <= end' /\ end' <= MaxOffset
    BY <2>1 DEF IInv
  <2> QED
    BY <1>1, <1>2, <2>2a, <2>3, <2>4, <2>5, <2>6 DEF Added
<1> QED
  BY <1>3, <1>4

(* Data before the end fills the gap up to the ranges it meets; the range  *)
(* before it, if it is extended, may take in the one behind the gap.       *)
LEMMA BetweenStep ==
    ASSUME ConstantsOK, IInv, NEW start \in Nat, NEW new_end \in Nat,
           retired <= start, start < new_end, new_end <= MaxOffset,
           \A k \in DOMAIN data_ranges : k < start => k + data_ranges[k] <= start,
           NEW prev, prev = {} \/ \E p \in DOMAIN data_ranges : prev = {p} /\ p + data_ranges[p] = start,
           Between(start, new_end, prev)
    PROVE  Added(start, new_end)
<1> DEFINE hit == {k \in DOMAIN data_ranges : start <= k /\ k < new_end}
           kept == {k \in hit : End(data_ranges, k) >= new_end}
           add_end == IF kept = {} THEN new_end ELSE Min(kept)
           r == Without(data_ranges, hit \ kept)
           add == add_end - start
           m == Max({end, new_end})
           absorb == /\ add_end \in DOMAIN r
                     /\ \A p \in prev : r[p] + add + r[add_end] <= RANGE_TARGET
<1>1. IF add = 0 THEN UNCHANGED <<data_ranges, received, end, error>>
      ELSE /\ received' = received + add
           /\ IF prev = {} THEN Insert(r, start, add, m)
              ELSE IF absorb
              THEN Extend(Without(r, {add_end}), Max(prev), add + r[add_end], m)
              ELSE Extend(r, Max(prev), add, m)
  BY DEF Between
<1>2. /\ Ranges(data_ranges)
      /\ \A k \in DOMAIN data_ranges : /\ k \in Nat /\ data_ranges[k] \in Nat /\ data_ranges[k] >= 1
                                       /\ k + data_ranges[k] > retired /\ k + data_ranges[k] <= end
      /\ retired \in Nat /\ end \in Nat /\ retired <= end /\ end <= MaxOffset /\ MaxOffset \in Nat
      /\ received \in Nat
  BY DEF IInv, Ranges, EndsAt, ConstantsOK
<1>3. IsGap(data_ranges, start, new_end, add_end, r)
  <2>1. kept = Kept(data_ranges, start, new_end)
    BY DEF Kept, Hit, End
  <2>2. add_end = AddEnd(data_ranges, start, new_end) /\ r = Left(data_ranges, start, new_end)
    BY <2>1 DEF AddEnd, Left, Hit
  <2>3. Below(data_ranges, start)
    BY DEF Below
  <2> HIDE DEF add_end, r
  <2> QED
    BY <1>2, <2>2, <2>3, Gap
<1>4. m = (IF end >= new_end THEN end ELSE new_end)
  BY <1>2, MaxOfTwo
<1>6. /\ m \in Nat /\ end <= m /\ new_end <= m /\ m <= MaxOffset
      /\ \A k \in DOMAIN r : /\ k \in Nat /\ r[k] \in Nat /\ r[k] >= 1
                             /\ k + r[k] > retired /\ k + r[k] <= m
  <2>1. m \in Nat /\ end <= m /\ new_end <= m /\ m <= MaxOffset
    BY <1>2, <1>4
  <2> QED
    BY <1>2, <1>3, <2>1, SMTT(30) DEF IsGap
\* The last range: one that is here and not replaced, or the one that is added.
<1>7. \/ add_end = new_end /\ m = new_end
      \/ \E k \in DOMAIN r : k + r[k] = m /\ k + r[k] >= new_end
  <2>1. CASE end < new_end
    <3>1. m = new_end
      BY <1>2, <1>4, <2>1
    <3>2. ~ (add_end < new_end)
      BY <1>2, <1>3, <2>1 DEF IsGap
    <3>3. add_end = new_end
      BY <1>3, <3>2 DEF IsGap
    <3> QED
      BY <3>1, <3>3
  <2>2. CASE end >= new_end
    <3>1. DOMAIN data_ranges # {}
      <4>1. DOMAIN data_ranges = {} => end = retired
        BY DEF IInv, EndsAt
      <4>2. retired \in Nat /\ end \in Nat
        BY <1>2
      <4>3. end # retired
        BY ONLY <2>2, <4>2, retired <= start, start < new_end, start \in Nat, new_end \in Nat
      <4> QED
        BY ONLY <4>1, <4>3
    <3>2. PICK k \in DOMAIN data_ranges : k + data_ranges[k] = end
      BY <3>1 DEF IInv, EndsAt
    <3>3. k \in DOMAIN r
      BY <1>2, <1>3, <2>2, <3>2 DEF IsGap
    <3> QED
      BY <1>3, <1>4, <2>2, <3>2, <3>3 DEF IsGap
  <2> QED
    BY <1>2, <2>1, <2>2
<1> HIDE DEF hit, kept, add_end, r, m
<1> USE DEF IsGap
<1>8. CASE add = 0
  <2>1. add_end = start
    BY <1>3, <1>8
  <2>2. data_ranges' = data_ranges /\ received' = received /\ end' = end /\ error' = error
    BY <1>1, <1>8
  <2>3. \A b \in Nat : Covers(r, b) => Covers(data_ranges, b)
    BY <1>3 DEF Covers
  <2>4. \A b \in Nat : Covers(data_ranges', b) <=> Covers(data_ranges, b) \/ (start <= b /\ b < new_end)
    BY <1>3, <2>1, <2>2, <2>3
  <2>5. error' \in BOOLEAN
    BY <2>2, Zenon DEF IInv
  <2> QED
    BY <1>2, <2>2, <2>4, <2>5 DEF Added, IInv
<1>9. CASE add # 0
  <2>1. add \in Nat /\ add >= 1 /\ start + add = add_end
    BY <1>3, <1>9
  <2>2. received' \in Nat
    BY <1>1, <1>2, <1>9, <2>1
  <2> HIDE DEF add
  <2>3. CASE prev = {}
    <3>1. Insert(r, start, add, m)
      BY <1>1, <1>9, <2>3
    <3>2. data_ranges' = With(r, start, add) /\ end' = m
      BY <3>1 DEF Insert
    <3>3. error' \in BOOLEAN
      <4>1. error' = (Cardinality(DOMAIN data_ranges') > MAX_GAPS + (m - retired) \div RANGE_TARGET)
        BY <3>1 DEF Insert
      <4> QED
        BY <4>1, SMT
    <3>4. Apart(r, start, add)
      BY <1>3, <2>1 DEF Apart
    <3>5. IsWith(data_ranges', r, start, add)
      BY <1>3, <2>1, <3>2, <3>4, Inserted
    <3> USE DEF IsWith
    <3>6. \A k \in DOMAIN data_ranges' :
             k + data_ranges'[k] > retired /\ k + data_ranges'[k] <= m
      BY <1>2, <1>3, <1>6, <2>1, <3>5
    <3>7. DOMAIN data_ranges' # {} /\ \E k \in DOMAIN data_ranges' : k + data_ranges'[k] = m
      BY <1>7, <2>1, <3>5
    <3>8. EndsAt(data_ranges', end', retired)
      BY <3>2, <3>6, <3>7 DEF EndsAt
    <3>9. \A b \in Nat : Covers(data_ranges', b) <=> Covers(data_ranges, b) \/ (start <= b /\ b < new_end)
      BY <1>3, <2>1, <3>5
    <3> QED
      BY <1>6, <2>2, <3>2, <3>3, <3>5, <3>6, <3>8, <3>9 DEF Added
  <2>4. ASSUME NEW p \in DOMAIN data_ranges, prev = {p}, p + data_ranges[p] = start
        PROVE  Added(start, new_end)
    <3>1. Max(prev) = p
      BY <1>2, <2>4, MaxOfTwo
    <3>2. error' = error /\ end' = m
      BY <1>1, <1>9, <2>4 DEF Extend
    <3>3. error' \in BOOLEAN
      BY <3>2, Zenon DEF IInv
    <3>4. p \in DOMAIN r /\ r[p] = data_ranges[p] /\ p < start /\ p + r[p] = start
      <4>1. p < start
        BY <1>2, <2>4
      <4> QED
        BY <1>2, <1>3, <2>4, <4>1
    <3>5. CASE ~absorb
      <4>1. data_ranges' = [r EXCEPT ![p] = @ + add]
        BY <1>1, <1>9, <2>4, <3>1, <3>5 DEF Extend
      <4>2. RoomFor(r, p, add)
        BY <1>3, <1>6, <2>1, <3>4 DEF RoomFor, Ranges
      <4>3. IsGrown(data_ranges', r, p, add)
        BY <1>3, <2>1, <3>4, <4>1, <4>2, Extended
      <4> USE DEF IsGrown
      <4>4. p + data_ranges'[p] = add_end
        BY <1>6, <2>1, <3>4, <4>3
      <4>5. \A k \in DOMAIN data_ranges' :
               k + data_ranges'[k] > retired /\ k + data_ranges'[k] <= m
        BY <1>2, <1>3, <1>6, <2>1, <3>4, <4>3, <4>4
      <4>6. \E k \in DOMAIN data_ranges' : k + data_ranges'[k] = m
        BY <1>6, <1>7, <3>4, <4>3, <4>4
      <4>7. EndsAt(data_ranges', end', retired)
        BY <3>2, <4>5, <4>6 DEF EndsAt
      <4>8. \A b \in Nat : Covers(data_ranges', b) <=>
                              Covers(data_ranges, b) \/ (start <= b /\ b < new_end)
        BY <1>3, <2>1, <3>4, <4>3
      <4> QED
        BY <1>6, <2>2, <3>2, <3>3, <4>3, <4>5, <4>7, <4>8 DEF Added
    <3>6. CASE absorb
      <4> DEFINE s == Without(r, {add_end})
                 tail == r[add_end]
      <4>1. /\ add_end \in DOMAIN r /\ tail \in Nat /\ tail >= 1 /\ add + tail \in Nat
            /\ start + (add + tail) = add_end + tail
        BY <1>6, <2>1, <3>6
      <4>2. data_ranges' = [s EXCEPT ![p] = @ + (add + tail)]
        BY <1>1, <1>9, <2>4, <3>1, <3>6 DEF Extend
      <4>3. /\ Ranges(s) /\ DOMAIN s = DOMAIN r \ {add_end}
            /\ \A k \in DOMAIN s : s[k] = r[k]
        <5> DEFINE keys == {add_end}
        <5>1. Ranges(r) /\ s = Without(r, keys)
          BY <1>3
        <5> HIDE DEF s, keys
        <5>2. Ranges(s) /\ DOMAIN s = DOMAIN r \ keys /\ \A k \in DOMAIN r \ keys : s[k] = r[k]
          BY ONLY <5>1, Fewer
        <5> QED
          BY <5>2 DEF keys
      <4> HIDE DEF s, tail
      <4>4. p \in DOMAIN s /\ p + s[p] = start
        BY <1>3, <3>4, <4>3
      <4>5. \A k \in DOMAIN s : k \in Nat /\ (p < k => add_end + tail <= k)
        BY <1>3, <1>6, <3>4, <4>1, <4>3 DEF Ranges, tail
      <4>6. RoomFor(s, p, add + tail)
        BY <1>3, <1>6, <4>1, <4>3, <4>4, <4>5 DEF RoomFor
      <4>7. IsGrown(data_ranges', s, p, add + tail)
        BY <4>1, <4>2, <4>3, <4>4, <4>6, Extended
      <4> USE DEF IsGrown
      <4>8. p + data_ranges'[p] = add_end + tail
        BY <1>6, <4>1, <4>3, <4>4, <4>7
      <4>9. \A k \in DOMAIN data_ranges' :
               k + data_ranges'[k] > retired /\ k + data_ranges'[k] <= m
        BY <1>2, <1>3, <1>6, <2>1, <4>1, <4>3, <4>4, <4>7, <4>8 DEF tail
      <4>10. \E k \in DOMAIN data_ranges' : k + data_ranges'[k] = m
        BY <1>2, <1>6, <1>7, <3>4, <4>1, <4>3, <4>4, <4>7, <4>8 DEF tail
      <4>11. EndsAt(data_ranges', end', retired)
        BY <3>2, <4>9, <4>10 DEF EndsAt
      <4>12. ASSUME NEW b \in Nat
             PROVE  Covers(r, b) \/ (start <= b /\ b < add_end) <=>
                       Covers(s, b) \/ (start <= b /\ b < add_end + tail)
        BY <1>3, <1>6, <4>1, <4>3 DEF Covers, tail
      <4>13. \A b \in Nat : Covers(data_ranges', b) <=>
                               Covers(data_ranges, b) \/ (start <= b /\ b < new_end)
        BY <1>3, <4>1, <4>4, <4>7, <4>12
      <4> QED
        BY <1>6, <2>2, <3>2, <3>3, <4>7, <4>9, <4>11, <4>13 DEF Added
    <3> QED
      BY <3>5, <3>6
  <2> QED
    BY <2>3, <2>4
<1> QED
  BY <1>8, <1>9

(* What the range before the data holds is cut off; the rest fills a gap. *)
LEMMA OverlappingStep ==
    ASSUME ConstantsOK, IInv, NEW start \in Nat, NEW new_end \in Nat,
           retired <= start, start < new_end, new_end <= MaxOffset, Overlapping(start, new_end)
    PROVE  Added(start, new_end)
<1> DEFINE below == {k \in DOMAIN data_ranges : k <= start}
           p == Max(below)
           cut == Max({start, End(data_ranges, p)})
           prev == {k \in {p} : data_ranges[p] < RANGE_TARGET /\ End(data_ranges, p) = cut}
<1>1. /\ \A k \in DOMAIN data_ranges : /\ k \in Nat /\ data_ranges[k] \in Nat /\ data_ranges[k] >= 1
                                       /\ k + data_ranges[k] <= end
      /\ \A j, k \in DOMAIN data_ranges : j < k => j + data_ranges[j] <= k
      /\ retired \in Nat /\ end \in Nat
  BY DEF IInv, Ranges, EndsAt
<1>2. CASE below = {}
  <2>1. Between(start, new_end, {})
    BY <1>2 DEF Overlapping
  <2>2. \A k \in DOMAIN data_ranges : k < start => k + data_ranges[k] <= start
    BY <1>1, <1>2
  <2> QED
    BY <2>1, <2>2, BetweenStep
<1>3. CASE below # {}
  <2>1. p \in below /\ \A k \in below : k <= p
    <3>1. below \subseteq Nat /\ \A k \in below : k <= start
      BY <1>1
    <3> HIDE DEF below
    <3> QED
      BY <1>3, <3>1, MaxOf
  <2>2. p \in DOMAIN data_ranges /\ p <= start /\ \A k \in DOMAIN data_ranges : k <= start => k <= p
    BY <2>1
  <2>3. CASE new_end <= End(data_ranges, p)
    <3>1. data_ranges' = data_ranges /\ received' = received /\ end' = end /\ error' = error
      BY <1>3, <2>3 DEF Overlapping
    <3> HIDE DEF p
    <3>2. \A b \in Nat : start <= b /\ b < new_end => Covers(data_ranges, b)
      BY <1>1, <2>2, <2>3 DEF Covers, End
    <3>3. error' \in BOOLEAN
      BY <3>1, Zenon DEF IInv
    <3> QED
      BY <3>1, <3>2, <3>3 DEF Added, IInv
  <2>4. CASE ~ (new_end <= End(data_ranges, p))
    <3>1. Between(cut, new_end, prev)
      BY <1>3, <2>4 DEF Overlapping
    <3>2. End(data_ranges, p) = p + data_ranges[p] /\ p + data_ranges[p] \in Nat
      BY <1>1, <2>2 DEF End
    <3>3. cut = (IF start >= End(data_ranges, p) THEN start ELSE End(data_ranges, p))
      BY <3>2, MaxOfTwo, ZenonT(30)
    <3>4. prev = {} \/ (prev = {p} /\ p + data_ranges[p] = cut)
      BY <3>2
    <3> HIDE DEF p, cut, prev
    <3>5. cut \in Nat /\ retired <= cut /\ cut < new_end /\ start <= cut /\ p + data_ranges[p] <= cut
      BY <1>1, <2>4, <3>2, <3>3
    <3>6. \A k \in DOMAIN data_ranges : k < cut => k + data_ranges[k] <= cut
      <4> SUFFICES ASSUME NEW k \in DOMAIN data_ranges, k < cut
                   PROVE  k + data_ranges[k] <= cut
        OBVIOUS
      <4>1. CASE k = p
        BY <3>5, <4>1
      <4>2. CASE k < p
        BY <1>1, <2>2, <3>5, <4>2
      <4>3. CASE k > p
        BY <1>1, <2>2, <3>2, <3>3, <4>3
      <4> QED
        BY <1>1, <2>2, <4>1, <4>2, <4>3
    <3>7. prev = {} \/ \E q \in DOMAIN data_ranges : prev = {q} /\ q + data_ranges[q] = cut
      BY <2>2, <3>4
    <3>8. Added(cut, new_end)
      <4> HIDE <1>1
      <4> QED
        BY <3>1, <3>5, <3>6, <3>7, BetweenStep
    <3>9. \A b \in Nat : start <= b /\ b < cut => Covers(data_ranges, b)
      BY <1>1, <2>2, <3>2, <3>3 DEF Covers
    <3>10. ASSUME NEW b \in Nat
           PROVE  Covers(data_ranges, b) \/ (cut <= b /\ b < new_end) <=>
                     Covers(data_ranges, b) \/ (start <= b /\ b < new_end)
      BY <3>5, <3>9
    <3> QED
      BY <3>8, <3>10 DEF Added
  <2> QED
    BY <2>3, <2>4
<1> QED
  BY <1>2, <1>3

-----------------------------------------------------------------------------
\* The bytes of the abstract specification.
Got == (0 .. (retired - 1)) \cup Held

LEMMA GotIs ==
    ASSUME IInv
    PROVE  \A b : b \in Got <=> b \in Nat /\ (b < retired \/ Covers(data_ranges, b))
<1>1. /\ retired \in Nat
      /\ \A k \in DOMAIN data_ranges : k \in Nat /\ data_ranges[k] \in Nat
  BY DEF IInv, Ranges
<1>2. \A b : b \in Held <=> \E k \in DOMAIN data_ranges : b \in k .. ((k + data_ranges[k]) - 1)
  <2>1. \A b : b \in Held <=> \E k \in DOMAIN data_ranges : b \in Bytes(data_ranges, k)
    BY DEF Held
  <2>2. \A k \in DOMAIN data_ranges : Bytes(data_ranges, k) = k .. ((k + data_ranges[k]) - 1)
    BY DEF Bytes, End
  <2> QED
    BY ONLY <2>1, <2>2
<1> QED
  BY <1>1, <1>2 DEF Got, Covers

LEMMA GotIsNext ==
    ASSUME IInv'
    PROVE  \A b : b \in Got' <=> b \in Nat /\ (b < retired' \/ Covers(data_ranges', b))
<1>1. /\ retired' \in Nat
      /\ \A k \in DOMAIN data_ranges' : k \in Nat /\ data_ranges'[k] \in Nat
  BY DEF IInv, Ranges
<1>2. \A b : b \in Held' <=> \E k \in DOMAIN data_ranges' : b \in k .. ((k + data_ranges'[k]) - 1)
  <2>1. \A b : b \in Held' <=> \E k \in DOMAIN data_ranges' : b \in Bytes(data_ranges, k)'
    BY DEF Held
  <2>2. \A k \in DOMAIN data_ranges' : Bytes(data_ranges, k)' = k .. ((k + data_ranges'[k]) - 1)
    BY DEF Bytes, End
  <2> QED
    BY ONLY <2>1, <2>2
<1> QED
  BY <1>1, <1>2 DEF Got, Covers

(* A frame adds its bytes, those that were read already excepted. *)
LEMMA InboundStep ==
    ASSUME ConstantsOK, IInv, NEW off \in Nat, NEW len \in Nat, len >= 1, inbound_frame(off, len)
    PROVE  /\ IInv' /\ retired' = retired
           /\ off + len <= MaxOffset
           /\ \A b \in Nat : b < retired' \/ Covers(data_ranges', b) <=>
                 b < retired \/ Covers(data_ranges, b) \/ (off <= b /\ b < off + len)
<1> DEFINE start == Max({off, retired})
           new_end == off + len
<1>1. /\ new_end <= reliable_size /\ retired' = retired /\ reliable_size' = reliable_size
      /\ IF new_end <= retired THEN UNCHANGED <<data_ranges, received, end, error>>
         ELSE IF start >= end THEN Beyond(start, new_end)
         ELSE Overlapping(start, new_end)
  BY DEF inbound_frame
<1>2. /\ retired \in Nat /\ end \in Nat /\ new_end \in Nat /\ new_end <= MaxOffset
      /\ reliable_size \in Nat /\ reliable_size <= MaxOffset /\ retired <= end
  BY <1>1 DEF IInv, ConstantsOK
<1>3. start = (IF off >= retired THEN off ELSE retired)
  BY <1>2, MaxOfTwo
<1>4. CASE new_end <= retired
  <2>1. UNCHANGED <<data_ranges, received, end, error>>
    BY <1>1, <1>4
  <2>2. IInv'
    BY <1>1, <2>1 DEF IInv
  <2>3. ASSUME NEW b \in Nat PROVE off <= b /\ b < off + len => b < retired
    BY <1>2, <1>4
  <2> QED
    BY <1>1, <1>2, <2>1, <2>2, <2>3
<1>5. CASE new_end > retired
  <2>1. start \in Nat /\ start < new_end /\ retired <= start
    BY <1>2, <1>3, <1>5
  <2>2. \/ end <= start /\ Beyond(start, new_end)
        \/ Overlapping(start, new_end)
    BY <1>1, <1>2, <1>5, <2>1
  <2>3. Added(start, new_end)
    <3> HIDE DEF start, new_end
    <3>1. CASE end <= start /\ Beyond(start, new_end)
      BY ONLY ConstantsOK, IInv, <1>2, <2>1, <3>1, BeyondStep
    <3>2. CASE Overlapping(start, new_end)
      BY ONLY ConstantsOK, IInv, <1>2, <2>1, <3>2, OverlappingStep
    <3> QED
      BY <2>2, <3>1, <3>2
  <2>4. IInv'
    BY <1>1, <1>2, <2>3 DEF IInv, Added
  <2>5. ASSUME NEW b \in Nat
        PROVE  b < retired \/ (start <= b /\ b < new_end) <=>
                  b < retired \/ (off <= b /\ b < off + len)
    BY <1>2, <1>3
  <2>6. \A b \in Nat : Covers(data_ranges', b) <=> Covers(data_ranges, b) \/ (start <= b /\ b < new_end)
    BY <2>3 DEF Added
  <2> HIDE DEF start
  <2> QED
    BY <1>1, <1>2, <2>4, <2>5, <2>6
<1> QED
  BY <1>2, <1>4, <1>5

(* The ranges that touch hold every byte up to prev_end. *)
LEMMA TouchingHeld ==
    ASSUME IInv
    PROVE  /\ prev_end \in Nat /\ retired <= prev_end /\ prev_end <= end
           /\ \A b \in Nat : b < prev_end => b < retired \/ Covers(data_ranges, b)
<1>1. /\ \A k \in DOMAIN data_ranges : /\ k \in Nat /\ data_ranges[k] \in Nat
                                       /\ k + data_ranges[k] > retired /\ k + data_ranges[k] <= end
      /\ retired \in Nat /\ end \in Nat /\ retired <= end
  BY DEF IInv, Ranges, EndsAt
<1>2. CASE Touching = {}
  BY <1>1, <1>2 DEF prev_end
<1>3. CASE Touching # {}
  <2> DEFINE q == Max(Touching)
  <2>1. q \in Touching
    <3>1. Touching \subseteq Nat /\ \A k \in Touching : k <= end
      BY <1>1 DEF Touching
    <3> QED
      BY <1>1, <1>3, <3>1, MaxOf
  <2>2. prev_end = q + data_ranges[q]
    BY <1>3 DEF prev_end, End
  <2> HIDE DEF q
  <2>3. q \in DOMAIN data_ranges
    BY <2>1 DEF Touching
  <2>4. \A b \in retired .. (q - 1) : \E j \in DOMAIN data_ranges : b \in j .. ((j + data_ranges[j]) - 1)
    BY <2>1 DEF Touching, Bytes, End
  <2>5. ASSUME NEW b \in Nat, b < prev_end PROVE b < retired \/ Covers(data_ranges, b)
    <3>1. CASE q <= b
      BY <2>2, <2>3, <2>5, <3>1 DEF Covers
    <3>2. CASE retired <= b /\ b < q
      <4>1. b \in retired .. (q - 1)
        BY <1>1, <2>3, <3>2
      <4>2. PICK j \in DOMAIN data_ranges : b \in j .. ((j + data_ranges[j]) - 1)
        BY <2>4, <4>1
      <4>3. j <= b /\ b < j + data_ranges[j]
        BY <1>1, <4>2
      <4> QED
        BY <4>3 DEF Covers
    <3> QED
      BY <1>1, <2>3, <3>1, <3>2
  <2> QED
    BY <1>1, <2>2, <2>3, <2>5
<1> QED
  BY <1>2, <1>3

(* Reading moves bytes that are held to those that were read. *)
LEMMA ReadStep ==
    ASSUME ConstantsOK, IInv, NEW n \in Nat, n >= 1, read(n)
    PROVE  /\ IInv' /\ \E m \in Nat : retired' = retired + m
           /\ retired <= retired' /\ \A b \in Nat : b < retired' => b < retired \/ Covers(data_ranges, b)
           /\ \A b \in Nat : b < retired' \/ Covers(data_ranges', b) <=>
                 b < retired \/ Covers(data_ranges, b)
<1> DEFINE copied == Min({n, bytes_ready})
<1>1. /\ retired' = retired + copied
      /\ data_ranges' = Without(data_ranges, ReadOut(retired'))
      /\ end' = IF DOMAIN data_ranges' = {} THEN retired' ELSE end
      /\ received' = received /\ error' = error /\ reliable_size' = reliable_size
  BY DEF read
<1>2. /\ \A k \in DOMAIN data_ranges : /\ k \in Nat /\ data_ranges[k] \in Nat
                                       /\ k + data_ranges[k] > retired /\ k + data_ranges[k] <= end
      /\ retired \in Nat /\ end \in Nat /\ retired <= end /\ end <= MaxOffset
      /\ Ranges(data_ranges)
  BY DEF IInv, Ranges, EndsAt
<1>3. bytes_ready \in Nat /\ retired + bytes_ready = prev_end
  BY <1>2, TouchingHeld DEF bytes_ready
<1>4. copied \in Nat /\ copied <= bytes_ready
  BY <1>3, MinOfTwo
<1> HIDE DEF copied
<1>5. retired' \in Nat /\ retired <= retired' /\ retired' <= prev_end /\ retired' <= end
  BY <1>1, <1>2, <1>3, <1>4, TouchingHeld
<1>6. \A b \in Nat : b < retired' => b < retired \/ Covers(data_ranges, b)
  BY <1>5, TouchingHeld
<1>7. /\ Ranges(data_ranges')
      /\ DOMAIN data_ranges' = {k \in DOMAIN data_ranges : k + data_ranges[k] > retired'}
      /\ \A k \in DOMAIN data_ranges' : data_ranges'[k] = data_ranges[k]
  <2> DEFINE keys == ReadOut(retired')
  <2>1. data_ranges' = Without(data_ranges, keys)
    BY <1>1
  <2>2. \A k \in DOMAIN data_ranges : k \in keys <=> ~ (k + data_ranges[k] > retired')
    BY <1>2, <1>5 DEF ReadOut, End
  <2> HIDE DEF keys
  <2>3. /\ Ranges(data_ranges') /\ DOMAIN data_ranges' = DOMAIN data_ranges \ keys
        /\ \A k \in DOMAIN data_ranges \ keys : data_ranges'[k] = data_ranges[k]
    BY ONLY <1>2, <2>1, Fewer
  <2> QED
    BY <2>2, <2>3
<1>8. EndsAt(data_ranges', end', retired')
  <2>1. CASE DOMAIN data_ranges' = {}
    BY <1>1, <2>1 DEF EndsAt
  <2>2. CASE DOMAIN data_ranges' # {}
    <3>1. PICK j \in DOMAIN data_ranges : j + data_ranges[j] = end
      BY <1>7, <2>2 DEF IInv, EndsAt
    <3>2. PICK i \in DOMAIN data_ranges : i + data_ranges[i] > retired'
      BY <1>7, <2>2
    <3>3. j \in DOMAIN data_ranges'
      BY <1>2, <1>5, <1>7, <3>1, <3>2
    <3> QED
      BY <1>1, <1>2, <1>7, <2>2, <3>1, <3>3 DEF EndsAt
  <2> QED
    BY <2>1, <2>2
<1>9. IInv'
  <2>1. \A k \in DOMAIN data_ranges' : k + data_ranges'[k] > retired'
    BY <1>7
  <2>2. error' \in BOOLEAN
    BY <1>1, Zenon DEF IInv
  <2>3. end' \in Nat /\ retired' <= end' /\ end' <= MaxOffset
    BY <1>1, <1>2, <1>5 DEF ConstantsOK
  <2>4. reliable_size' \in Nat /\ reliable_size' <= MaxOffset /\ received' \in Nat
    BY <1>1 DEF IInv
  <2> QED
    BY <1>5, <1>7, <1>8, <2>1, <2>2, <2>3, <2>4 DEF IInv
<1>10. ASSUME NEW b \in Nat
       PROVE  b < retired' \/ Covers(data_ranges', b) <=> b < retired \/ Covers(data_ranges, b)
  <2>1. ASSUME Covers(data_ranges', b) PROVE Covers(data_ranges, b)
    BY <1>7, <2>1 DEF Covers
  <2>2. ASSUME Covers(data_ranges, b) PROVE b < retired' \/ Covers(data_ranges', b)
    <3>1. PICK k \in DOMAIN data_ranges : k <= b /\ b < k + data_ranges[k]
      BY <2>2 DEF Covers
    <3>2. CASE k \in DOMAIN data_ranges'
      BY <1>7, <3>1, <3>2 DEF Covers
    <3>3. CASE k \notin DOMAIN data_ranges'
      BY <1>2, <1>5, <1>7, <3>1, <3>3
    <3> QED
      BY <3>2, <3>3
  <2> QED
    BY <1>2, <1>5, <1>6, <2>1, <2>2
<1>11. \E m \in Nat : retired' = retired + m
  BY <1>1, <1>4
<1> QED
  BY <1>5, <1>6, <1>9, <1>10, <1>11

(* Discarding leaves the bytes below the offset. *)
LEMMA DiscardStep ==
    ASSUME ConstantsOK, IInv, NEW off \in Nat, discard_after(off)
    PROVE  /\ IInv' /\ retired' = retired /\ retired < off
           /\ \A b \in Nat : b < retired' \/ Covers(data_ranges', b) <=>
                 (b < retired \/ Covers(data_ranges, b)) /\ b < off
<1> DEFINE kept == {k \in DOMAIN data_ranges : k < off}
           last == Max(kept)
<1>1. /\ retired < off /\ off < reliable_size
      /\ reliable_size' = off
      /\ data_ranges' = [k \in kept |-> IF k = last THEN Min({data_ranges[k], off - k}) ELSE data_ranges[k]]
      /\ end' = IF kept = {} THEN retired ELSE End(data_ranges', last)
      /\ retired' = retired /\ received' = received /\ error' = error
  BY DEF discard_after
<1>2. /\ \A k \in DOMAIN data_ranges : /\ k \in Nat /\ data_ranges[k] \in Nat /\ data_ranges[k] >= 1
                                       /\ k + data_ranges[k] > retired /\ k + data_ranges[k] <= end
      /\ \A j, k \in DOMAIN data_ranges : j < k => j + data_ranges[j] <= k
      /\ retired \in Nat /\ end \in Nat /\ retired <= end /\ end <= MaxOffset
      /\ reliable_size \in Nat /\ reliable_size <= MaxOffset /\ received \in Nat /\ MaxOffset \in Nat
  BY DEF IInv, Ranges, EndsAt, ConstantsOK
<1>3. error' \in BOOLEAN
  BY <1>1, Zenon DEF IInv
<1>4. CASE kept = {}
  <2>1. DOMAIN data_ranges' = {} /\ end' = retired
    BY <1>1, <1>4
  <2>2. IInv'
    BY <1>1, <1>2, <1>3, <2>1 DEF IInv, Ranges, EndsAt
  <2>3. ASSUME NEW b \in Nat PROVE ~ Covers(data_ranges', b) /\ (Covers(data_ranges, b) => off <= b)
    BY <1>2, <1>4, <2>1 DEF Covers
  <2>4. ASSUME NEW b \in Nat
        PROVE  b < retired' \/ Covers(data_ranges', b) <=>
                  (b < retired \/ Covers(data_ranges, b)) /\ b < off
    <3>1. b < retired => b < off
      BY <1>1, <1>2
    <3>2. off <= b => ~ (b < off)
      OBVIOUS
    <3> QED
      BY ONLY <1>1, <2>3, <3>1, <3>2
  <2> QED
    BY <1>1, <2>2, <2>4
<1>5. CASE kept # {}
  <2>1. last \in kept /\ \A k \in kept : k <= last
    <3>1. kept \subseteq Nat /\ \A k \in kept : k <= off
      BY <1>2
    <3> HIDE DEF kept
    <3> QED
      BY <1>5, <3>1, MaxOf
  <2>2. /\ last \in DOMAIN data_ranges /\ last < off /\ last \in Nat
        /\ DOMAIN data_ranges' = {k \in DOMAIN data_ranges : k < off}
        /\ \A k \in DOMAIN data_ranges : k < off => k <= last
    BY <1>1, <1>2, <2>1
  <2>3. data_ranges'[last] = (IF data_ranges[last] <= off - last THEN data_ranges[last] ELSE off - last)
    <3>1. data_ranges'[last] = Min({data_ranges[last], off - last})
      BY <1>1, <2>1
    <3>2. off - last \in Nat /\ data_ranges[last] \in Nat
      BY <1>2, <2>2
    <3> QED
      BY <3>1, <3>2, MinOfTwo
  <2>4. \A k \in DOMAIN data_ranges : k < off /\ k # last => data_ranges'[k] = data_ranges[k]
    BY <1>1
  <2>5. end' = last + data_ranges'[last]
    BY <1>1, <1>5 DEF End
  <2> HIDE DEF kept, last
  <2>6. /\ data_ranges'[last] \in Nat /\ data_ranges'[last] >= 1
        /\ end' \in Nat /\ end' > retired /\ end' <= off /\ end' <= last + data_ranges[last]
    BY <1>1, <1>2, <2>2, <2>3, <2>5
  <2>7. \A k \in DOMAIN data_ranges' \ {last} :
           /\ k \in DOMAIN data_ranges /\ k < last /\ data_ranges'[k] = data_ranges[k]
           /\ k + data_ranges[k] <= last
    BY <1>2, <2>2, <2>4
  <2>8. Ranges(data_ranges')
    BY <1>2, <2>2, <2>6, <2>7 DEF Ranges
  <2>9. \A k \in DOMAIN data_ranges' : k + data_ranges'[k] > retired /\ k + data_ranges'[k] <= end'
    BY <1>2, <2>2, <2>5, <2>6, <2>7
  <2>10. EndsAt(data_ranges', end', retired')
    BY <1>1, <2>2, <2>5, <2>9 DEF EndsAt
  <2>11. IInv'
    <3>1. /\ reliable_size' \in Nat /\ reliable_size' <= MaxOffset /\ received' \in Nat
          /\ retired' \in Nat /\ retired' <= end' /\ end' <= MaxOffset
      BY <1>1, <1>2, <2>6
    <3> QED
      BY <1>1, <1>3, <2>6, <2>8, <2>9, <2>10, <3>1 DEF IInv
  <2>12. ASSUME NEW b \in Nat
         PROVE  Covers(data_ranges', b) <=> Covers(data_ranges, b) /\ b < off
    <3>1. ASSUME Covers(data_ranges', b) PROVE Covers(data_ranges, b) /\ b < off
      <4>1. PICK k \in DOMAIN data_ranges' : k <= b /\ b < k + data_ranges'[k]
        BY <3>1 DEF Covers
      <4>2. k \in DOMAIN data_ranges /\ k + data_ranges'[k] <= k + data_ranges[k] /\ k + data_ranges'[k] <= off
        BY <1>2, <2>2, <2>5, <2>6, <2>7
      <4> QED
        BY <1>2, <2>8, <4>1, <4>2 DEF Covers, Ranges
    <3>2. ASSUME Covers(data_ranges, b), b < off PROVE Covers(data_ranges', b)
      <4>1. PICK k \in DOMAIN data_ranges : k <= b /\ b < k + data_ranges[k]
        BY <3>2 DEF Covers
      <4>2. k \in DOMAIN data_ranges'
        BY <1>2, <2>2, <3>2, <4>1
      <4>3. b < k + data_ranges'[k]
        BY <1>2, <2>2, <2>3, <2>7, <3>2, <4>1, <4>2
      <4> QED
        BY <4>1, <4>2, <4>3 DEF Covers
    <3> QED
      BY <3>1, <3>2
  <2>13. ASSUME NEW b \in Nat
         PROVE  b < retired' \/ Covers(data_ranges', b) <=>
                   (b < retired \/ Covers(data_ranges, b)) /\ b < off
    BY <1>1, <1>2, <2>12
  <2> QED
    BY <1>1, <2>11, <2>13
<1> QED
  BY <1>4, <1>5

-----------------------------------------------------------------------------
LEMMA InitInv == ASSUME ConstantsOK PROVE Init => IInv
<1> SUFFICES ASSUME Init PROVE IInv
  OBVIOUS
<1>1. DOMAIN data_ranges = {}
  BY DEF Init
<1>2. error \in BOOLEAN
  BY Zenon DEF Init
<1>3. /\ retired = 0 /\ received = 0 /\ end = 0 /\ reliable_size = MaxOffset
  BY DEF Init
<1> QED
  BY <1>1, <1>2, <1>3 DEF ConstantsOK, IInv, Ranges, EndsAt

LEMMA StepInv == ASSUME ConstantsOK, IInv, [Next]_vars PROVE IInv'
<1>1. ASSUME NEW off \in 0 .. (MaxOffset - 1), NEW len \in 1 .. (MaxOffset - off), inbound_frame(off, len)
      PROVE  IInv'
  <2>1. off \in Nat /\ len \in Nat /\ len >= 1
    BY DEF ConstantsOK
  <2> QED
    BY <1>1, <2>1, InboundStep
<1>2. ASSUME NEW n \in 1 .. MaxOffset, read(n) PROVE IInv'
  <2>1. n \in Nat /\ n >= 1
    BY DEF ConstantsOK
  <2> QED
    BY <1>2, <2>1, ReadStep
<1>3. ASSUME NEW off \in 0 .. MaxOffset, discard_after(off) PROVE IInv'
  <2>1. off \in Nat
    BY DEF ConstantsOK
  <2> QED
    BY <1>3, <2>1, DiscardStep
<1>4. CASE UNCHANGED vars
  BY <1>4 DEF vars, IInv
<1> QED
  BY <1>1, <1>2, <1>3, <1>4 DEF Next

(* Ranges are never empty and never overlap, none lies below what was      *)
(* read, and end is the end of the last one: what the common path of       *)
(* inbound_frame, already_received and bytes_ready take for granted, for   *)
(* all frames, reads and resets.                                           *)
THEOREM RangesAlwaysConsistent ==
    ASSUME ConstantsOK
    PROVE  Spec => [](TypeOK /\ RangesConsistent)
<1>1. IInv => TypeOK
  BY DEF ConstantsOK, IInv, TypeOK, Ranges, EndsAt
<1>2. IInv => RangesConsistent
  <2> SUFFICES ASSUME IInv PROVE RangesConsistent
    OBVIOUS
  <2>1. /\ \A j, k \in DOMAIN data_ranges : j < k => End(data_ranges, j) <= k
        /\ \A k \in DOMAIN data_ranges : End(data_ranges, k) > retired
    BY DEF IInv, Ranges, End
  <2>2. CASE DOMAIN data_ranges = {}
    BY <2>1, <2>2 DEF RangesConsistent, IInv, EndsAt
  <2>3. CASE DOMAIN data_ranges # {}
    <3> DEFINE p == Max(DOMAIN data_ranges)
    <3>1. DOMAIN data_ranges \subseteq Nat /\ end \in Nat /\ \A k \in DOMAIN data_ranges : k <= end
      BY DEF IInv, Ranges, EndsAt
    <3>2. p \in DOMAIN data_ranges /\ \A k \in DOMAIN data_ranges : k <= p
      BY <2>3, <3>1, MaxOf
    <3> HIDE DEF p
    <3>3. PICK k \in DOMAIN data_ranges : k + data_ranges[k] = end
      BY <2>3 DEF IInv, EndsAt
    <3>4. p + data_ranges[p] = end
      BY <3>2, <3>3 DEF IInv, Ranges, EndsAt
    <3> QED
      BY <2>1, <2>3, <3>4 DEF RangesConsistent, End, p
  <2> QED
    BY <2>2, <2>3
<1> QED
  BY <1>1, <1>2, InitInv, StepInv, PTL DEF Spec

(* How far the bytes of the abstract specification are contiguous. *)
LEMMA SequentialFrom ==
    ASSUME ConstantsOK, NEW g, g \subseteq 0 .. (MaxOffset - 1),
           NEW n \in Nat, \A b \in Nat : b < n => b \in g
    PROVE  n <= Ordered!Sequential(g)
<1> DEFINE missing == Nat \ g
<1>1. MaxOffset \in missing /\ missing \subseteq Nat
  BY DEF ConstantsOK
<1>2. PICK m \in missing : \A b \in missing : m <= b
  <2> HIDE DEF missing
  <2> QED
    BY <1>1, Least
<1>3. m \in Nat /\ m <= MaxOffset /\ m \notin g
  BY <1>1, <1>2
<1>4. \A b \in 0 .. (m - 1) : b \in g
  BY <1>2, <1>3
<1>5. /\ Ordered!Sequential(g) \in 0 .. MaxOffset /\ Ordered!Sequential(g) \notin g
  <2>1. m \in 0 .. MaxOffset
    BY <1>3 DEF ConstantsOK
  <2> QED
    BY <1>3, <1>4, <2>1 DEF Ordered!Sequential
<1> QED
  BY <1>5 DEF ConstantsOK

(* The buffer implements RxBytes: it holds exactly the bytes that arrived  *)
(* and are still wanted, and hands them out in order, each once, however   *)
(* frames overlap, are merged, cut, repeated and discarded                 *)
(* (inbound_frame, read and discard_after of RxStreamOrderer).             *)
THEOREM BufferImplementsBytes ==
    ASSUME ConstantsOK
    PROVE  Spec => ImplementsRxBytes
<1>1. Init => Ordered!Init
  BY DEF Init, Ordered!Init, Held
<1>2. IInv /\ [Next]_vars => [Ordered!Next]_<<Got, retired>>
  <2> SUFFICES ASSUME IInv, [Next]_vars PROVE [Ordered!Next]_<<Got, retired>>
    OBVIOUS
  <2>0. IInv' /\ retired \in Nat /\ retired' \in Nat
    BY StepInv DEF IInv
  <2>1. ASSUME NEW off \in 0 .. (MaxOffset - 1), NEW len \in 1 .. (MaxOffset - off), inbound_frame(off, len)
        PROVE  [Ordered!Next]_<<Got, retired>>
    <3>1. off \in Nat /\ len \in Nat /\ len >= 1
      BY DEF ConstantsOK
    <3>2. /\ retired' = retired /\ off + len <= MaxOffset
          /\ \A b \in Nat : b < retired' \/ Covers(data_ranges', b) <=>
                b < retired \/ Covers(data_ranges, b) \/ (off <= b /\ b < off + len)
      BY <2>1, <3>1, InboundStep
    <3>3. Got' = Got \cup (off .. (off + len - 1))
      BY <2>0, <3>1, <3>2, GotIs, GotIsNext
    <3>4. Ordered!Receive(off, len)
      BY <3>2, <3>3 DEF Ordered!Receive, Ordered!Arrived, Got
    <3> QED
      BY <3>1, <3>2, <3>4 DEF Ordered!Next, Got, ConstantsOK
  <2>2. ASSUME NEW n \in 1 .. MaxOffset, read(n) PROVE [Ordered!Next]_<<Got, retired>>
    <3>1. n \in Nat /\ n >= 1
      BY DEF ConstantsOK
    <3>2. /\ retired <= retired' /\ \A b \in Nat : b < retired' => b < retired \/ Covers(data_ranges, b)
          /\ \A b \in Nat : b < retired' \/ Covers(data_ranges', b) <=> b < retired \/ Covers(data_ranges, b)
      BY <2>2, <3>1, ReadStep
    <3>3. Got' = Got
      BY <2>0, <3>2, GotIs, GotIsNext
    <3>4. \A b \in Nat : b < retired' => b \in Got
      BY <3>2, GotIs
    <3>5. Got \subseteq 0 .. (MaxOffset - 1)
      <4>1. \A b \in Nat : b < retired \/ Covers(data_ranges, b) => b < MaxOffset
        BY DEF IInv, EndsAt, Ranges, Covers, ConstantsOK
      <4> QED
        BY <4>1, GotIs DEF ConstantsOK
    <3>6. retired' <= Ordered!Sequential(Got)
      BY <2>0, <3>4, <3>5, SequentialFrom
    <3>7. CASE retired' = retired
      BY <3>3, <3>7
    <3>8. CASE retired' # retired
      <4>1. PICK m \in Nat : retired' = retired + m
        BY <2>2, <3>1, ReadStep
      <4>3. retired' <= MaxOffset
        BY <2>0 DEF IInv, ConstantsOK
      <4>4. m \in 1 .. MaxOffset
        BY <2>0, <3>8, <4>1, <4>3 DEF ConstantsOK
      <4>2. Ordered!Read(m)
        BY <3>3, <3>6, <4>1 DEF Ordered!Read, Got
      <4> QED
        BY <3>8, <4>2, <4>4 DEF Ordered!Next, Got
    <3> QED
      BY <3>7, <3>8
  <2>3. ASSUME NEW off \in 0 .. MaxOffset, discard_after(off) PROVE [Ordered!Next]_<<Got, retired>>
    <3>1. off \in Nat
      BY DEF ConstantsOK
    <3>2. /\ retired' = retired /\ retired < off
          /\ \A b \in Nat : b < retired' \/ Covers(data_ranges', b) <=>
                (b < retired \/ Covers(data_ranges, b)) /\ b < off
      BY <2>3, <3>1, DiscardStep
    <3>3. Got' = {b \in Got : b < off}
      BY <2>0, <3>2, GotIs, GotIsNext
    <3>4. Ordered!Discard(off)
      BY <2>0, <3>1, <3>2, <3>3 DEF Ordered!Discard, Ordered!Discarded, Got
    <3> QED
      BY <3>4 DEF Ordered!Next, Got
  <2>4. CASE UNCHANGED vars
    BY <2>4 DEF vars, Got, Held, Bytes, End
  <2> QED
    BY <2>1, <2>2, <2>3, <2>4 DEF Next
<1> QED
  BY <1>1, <1>2, InitInv, StepInv, PTL DEF Spec, ImplementsRxBytes, Ordered!Spec, Got

-----------------------------------------------------------------------------
(* The walk of already_received goes from range to range as long as they   *)
(* touch, so that it reaches the end exactly if no byte is missing.        *)
LEMMA WalkIsExact ==
    ASSUME ConstantsOK, IInv, NEW off \in Nat, NEW len \in Nat, len >= 1
    PROVE  already_received(off, len) <=>
              \A b \in Nat : off <= b /\ b < off + len => b < retired \/ Covers(data_ranges, b)
<1> DEFINE last == off + len
           covered == Max({off, retired})
           below == {k \in DOMAIN data_ranges : k <= covered}
           first == IF below = {} THEN covered ELSE Max(below)
           walk == {k \in DOMAIN data_ranges : first <= k /\ k < last}
           before(k) == {j \in walk : j < k}
           reach(k) == IF before(k) = {} THEN covered ELSE End(data_ranges, Max(before(k)))
<1>1. /\ \A k \in DOMAIN data_ranges : /\ k \in Nat /\ data_ranges[k] \in Nat /\ data_ranges[k] >= 1
                                       /\ k + data_ranges[k] <= end
      /\ \A j, k \in DOMAIN data_ranges : j < k => j + data_ranges[j] <= k
      /\ retired \in Nat /\ end \in Nat /\ retired <= end
  BY DEF IInv, Ranges, EndsAt
<1>2. already_received(off, len) <=>
         /\ last <= end
         /\ covered >= last \/ ((\A k \in walk : k <= reach(k)) /\ reach(last) >= last)
  BY DEF already_received
<1>3. covered = (IF off >= retired THEN off ELSE retired) /\ covered \in Nat /\ last \in Nat
  <2>1. covered = (IF off >= retired THEN off ELSE retired)
    BY <1>1, MaxOfTwo
  <2> QED
    BY <1>1, <2>1
<1>3a. covered \in Nat /\ last \in Nat
  BY <1>3
<1> HIDE DEF covered
\* The walk begins with the range that holds the first byte, if there is one.
<1>4. /\ first \in Nat /\ first <= covered
      /\ \A k \in DOMAIN data_ranges : k < first => k + data_ranges[k] <= covered
      /\ \A k \in DOMAIN data_ranges : k <= covered => k <= first
  <2>1. CASE below = {}
    BY <1>1, <1>3, <2>1
  <2>2. CASE below # {}
    <3>1. below \subseteq Nat /\ \A k \in below : k <= covered
      BY <1>1
    <3>2. Max(below) \in below /\ \A k \in below : k <= Max(below)
      <4> HIDE DEF below
      <4> QED
        BY <1>3, <2>2, <3>1, MaxOf
    <3>3. first \in below /\ \A k \in below : k <= first
      BY <2>2, <3>2
    <3> HIDE DEF first
    <3> QED
      BY <1>1, <1>3, <3>3
  <2> QED
    BY <2>1, <2>2
<1> HIDE DEF first
\* Where the ranges of the walk before k end.
<1>5. ASSUME NEW k \in Nat
      PROVE  /\ before(k) = {} => reach(k) = covered
             /\ before(k) # {} => \E j \in before(k) : reach(k) = j + data_ranges[j]
             /\ \A j \in before(k) : j + data_ranges[j] <= reach(k)
  <2>1. CASE before(k) = {}
    BY <2>1
  <2>2. CASE before(k) # {}
    <3> DEFINE B == before(k)
    <3>1. B \subseteq Nat /\ \A j \in B : j <= k
      BY <1>1
    <3>2. B # {}
      BY <2>2
    <3> HIDE DEF B
    <3>3. Max(B) \in B /\ \A j \in B : j <= Max(B)
      BY <3>1, <3>2, MaxOf
    <3>4. reach(k) = Max(B) + data_ranges[Max(B)]
      BY <2>2 DEF B, End
    <3> HIDE DEF reach
    <3>5. \A j \in B : j \in DOMAIN data_ranges
      BY DEF B
    <3>6. \A j \in B : j + data_ranges[j] <= Max(B) + data_ranges[Max(B)]
      BY <1>1, <3>3, <3>5
    <3> QED
      BY <3>2, <3>3, <3>4, <3>6, SMTT(30) DEF B
  <2> QED
    BY <2>1, <2>2
<1> HIDE DEF reach
<1>6. CASE covered >= last
  <2>1. last <= retired
    BY <1>1, <1>3, <1>6
  <2>2. last <= end
    BY <1>1, <1>3, <2>1
  <2>3. \A b \in Nat : b < last => b < retired
    BY <1>1, <1>3, <2>1
  <2> QED
    BY <1>2, <1>6, <2>2, <2>3
<1>7. ASSUME covered < last, \A b \in Nat : off <= b /\ b < last => b < retired \/ Covers(data_ranges, b)
      PROVE  already_received(off, len)
  <2>1. \A b \in Nat : covered <= b /\ b < last =>
           \E k \in DOMAIN data_ranges : k <= b /\ b < k + data_ranges[k]
    BY <1>1, <1>3, <1>7 DEF Covers
  <2>2. PICK z \in DOMAIN data_ranges : z <= last - 1 /\ last - 1 < z + data_ranges[z]
    <3>1. last - 1 \in Nat /\ covered <= last - 1 /\ last - 1 < last
      BY ONLY <1>3a, <1>7
    <3> QED
      BY <2>1, <3>1
  <2>3. last <= end
    BY <1>1, <1>3, <2>2
  <2>4. z \in before(last)
    BY <1>1, <1>3, <1>4, <1>7, <2>2
  <2>5. reach(last) >= last
    BY <1>1, <1>3, <1>5, <2>2, <2>4
  <2>6. ASSUME NEW k \in walk, ~ (k <= reach(k)) PROVE FALSE
    <3>1. k \in Nat /\ k \in DOMAIN data_ranges /\ k < last /\ first <= k
      BY <1>1
    <3>2. PICK c \in DOMAIN data_ranges : c <= covered /\ covered < c + data_ranges[c]
      <4>1. covered \in Nat /\ covered <= covered /\ covered < last
        BY ONLY <1>3a, <1>7
      <4> QED
        BY <2>1, <4>1
    <3>3. c = first
      BY <1>1, <1>3, <1>4, <3>2
    <3>4. reach(k) \in Nat /\ covered <= reach(k) /\ reach(k) < k
      <4>1. CASE before(k) = {}
        BY <1>3, <1>5, <2>6, <3>1, <4>1
      <4>2. CASE before(k) # {}
        <5>1. PICK j \in before(k) : reach(k) = j + data_ranges[j]
          BY <1>5, <3>1, <4>2
        <5>2. c \in before(k)
          BY <1>1, <1>3, <3>1, <3>2, <3>3, <5>1
        <5>3. c + data_ranges[c] <= reach(k)
          BY <1>5, <3>1, <5>2
        <5> QED
          BY <1>1, <1>3, <2>6, <3>1, <3>2, <5>1, <5>3
      <4> QED
        BY <4>1, <4>2
    <3>5. PICK j \in DOMAIN data_ranges : j <= reach(k) /\ reach(k) < j + data_ranges[j]
      BY <1>3, <2>1, <3>1, <3>4
    <3>6. j \in before(k)
      BY <1>1, <1>3, <1>4, <3>1, <3>4, <3>5
    <3> QED
      BY <1>1, <1>5, <3>1, <3>4, <3>5, <3>6
  <2> QED
    BY <1>2, <2>3, <2>5, <2>6
<1>8. ASSUME covered < last, already_received(off, len), NEW b \in Nat, off <= b, b < last,
             ~ (b < retired), ~ Covers(data_ranges, b)
      PROVE  FALSE
  <2>1. covered <= b
    BY <1>1, <1>3, <1>8
  <2>2. \A k \in DOMAIN data_ranges : k <= b => k + data_ranges[k] <= b
    BY <1>1, <1>8 DEF Covers
  <2>3. (\A k \in walk : k <= reach(k)) /\ reach(last) >= last
    <3>1. ~ (covered >= last)
      BY ONLY <1>3a, <1>8
    <3> QED
      BY <1>2, <1>8, <3>1
  <2> DEFINE N == {k \in walk : k > b}
  <2>4. CASE N = {}
    <3>1. \A j \in before(last) : j + data_ranges[j] <= b
      BY <1>1, <2>2, <2>4
    <3>2. reach(last) <= b
      BY <1>3, <1>5, <2>1, <3>1
    <3> QED
      BY <1>1, <1>3, <1>5, <1>8, <2>1, <2>3, <3>1, <3>2
  <2>5. CASE N # {}
    <3>1. PICK k \in N : \A j \in N : k <= j
      <4>1. N \subseteq Nat
        BY <1>1
      <4> HIDE DEF N
      <4> QED
        BY <2>5, <4>1, Least
    <3>2. k \in walk /\ k > b /\ k \in Nat
      BY <1>1, <3>1
    <3>3. \A j \in before(k) : j + data_ranges[j] <= b
      BY <1>1, <2>2, <3>1
    <3>4. reach(k) <= b
      BY <1>3, <1>5, <2>1, <3>2, <3>3
    <3>5. k <= reach(k)
      BY <2>3, <3>2
    <3>6. reach(k) \in Nat
      BY <1>1, <1>3, <1>5, <3>2
    <3> QED
      BY <3>2, <3>4, <3>5, <3>6
  <2> QED
    BY <2>4, <2>5
<1>9. CASE covered < last
  <2>1. ASSUME already_received(off, len), NEW b \in Nat, off <= b, b < last
        PROVE  b < retired \/ Covers(data_ranges, b)
    BY <1>8, <1>9, <2>1
  <2> QED
    BY <1>7, <1>9, <2>1
<1> QED
  BY ONLY <1>3a, <1>6, <1>9

(* already_received answers exactly whether all bytes of a frame have      *)
(* arrived, however arrivals were cut, merged and read.                    *)
THEOREM DuplicatesAlwaysRecognised ==
    ASSUME ConstantsOK
    PROVE  Spec => []DuplicatesRecognised
<1>1. IInv => DuplicatesRecognised
  <2> SUFFICES ASSUME IInv, NEW off \in 0 .. (MaxOffset - 1), NEW len \in 1 .. (MaxOffset - off)
               PROVE  already_received(off, len) <=>
                         (off .. (off + len - 1)) \subseteq (0 .. (retired - 1)) \cup Held
    BY DEF DuplicatesRecognised
  <2>1. off \in Nat /\ len \in Nat /\ len >= 1
    BY DEF ConstantsOK
  <2>2. already_received(off, len) <=>
           \A b \in Nat : off <= b /\ b < off + len => b \in Got
    BY <2>1, WalkIsExact, GotIs
  <2>3. (off .. (off + len - 1)) \subseteq Got <=>
           \A b \in Nat : off <= b /\ b < off + len => b \in Got
    BY <2>1
  <2> QED
    BY <2>2, <2>3 DEF Got
<1> QED
  BY <1>1, InitInv, StepInv, PTL DEF Spec
=============================================================================
