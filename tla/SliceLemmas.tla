----------------------------- MODULE SliceLemmas -----------------------------
(***************************************************************************)
(* Facts about the slice idioms that connection.go and cache.go share.     *)
(***************************************************************************)
EXTENDS Integers, Sequences, SequencesExt, SequenceTheorems, TLAPS

(* Both provers, the quicker one first.                                      *)
USE ZenonT(1), SMTT(60)

(* What is left of a slice after append(s[:i], s[i+1:]...), the removal of   *)
(* get, put and cleanup (connection.go) and of trackAccess (cache.go).       *)
LEMMA RemoveAtProperties ==
  ASSUME NEW S, NEW s \in Seq(S), NEW i \in 1 .. Len(s)
  PROVE  /\ RemoveAt(s, i) \in Seq(S)
         /\ Len(RemoveAt(s, i)) = Len(s) - 1
         /\ \A k \in 1 .. Len(s) - 1 :
              RemoveAt(s, i)[k] = IF k < i THEN s[k] ELSE s[k + 1]
<1> DEFINE front == SubSeq(s, 1, i - 1)
           back == SubSeq(s, i + 1, Len(s))
<1>1. front \in Seq(S) /\ Len(front) = i - 1 /\ \A k \in 1 .. i - 1 : front[k] = s[k]
  BY SubSeqProperties
<1>2. back \in Seq(S) /\ Len(back) = Len(s) - i
  BY SubSeqProperties
<1>3. \A k \in 1 .. Len(s) - i : back[k] = s[i + k]
  BY SubSeqProperties
<1> HIDE DEF front, back
<1> DEFINE t == front \o back
<1>4. /\ t \in Seq(S)
      /\ Len(t) = Len(front) + Len(back)
      /\ \A k \in 1 .. Len(front) + Len(back) :
           t[k] = IF k <= Len(front) THEN front[k] ELSE back[k - Len(front)]
  BY <1>1, <1>2, ConcatProperties, Zenon
<1>5. t = RemoveAt(s, i)
  BY DEF RemoveAt, front, back
<1> HIDE DEF t
<1>6. Len(t) = Len(s) - 1
  BY <1>1, <1>2, <1>4, LenProperties
<1>7. \A k \in 1 .. Len(s) - 1 : t[k] = IF k < i THEN s[k] ELSE s[k + 1]
  <2> TAKE k \in 1 .. Len(s) - 1
  <2>0. k \in 1 .. Len(front) + Len(back) /\ Len(front) = i - 1 /\ k \in Nat /\ i \in Nat
    BY <1>1, <1>2, LenProperties
  <2>1. CASE k < i
    BY <1>1, <1>4, <2>0, <2>1
  <2>2. CASE ~(k < i)
    <3>0. ~(k <= Len(front))
      BY <2>0, <2>2
    <3>1. t[k] = back[k - (i - 1)]
      <4>1. t[k] = back[k - Len(front)]
        BY <1>4, <2>0, <3>0, Zenon
      <4> QED
        BY <2>0, <4>1
    <3>2. k - (i - 1) \in 1 .. Len(s) - i /\ i + (k - (i - 1)) = k + 1
      BY <2>2
    <3> QED
      BY <1>3, <2>2, <3>1, <3>2
  <2> QED
    BY <2>1, <2>2
<1>8. RemoveAt(s, i) \in Seq(S)
  BY <1>4, <1>5
<1>9. Len(RemoveAt(s, i)) = Len(s) - 1
  BY <1>5, <1>6
<1>10. \A k \in 1 .. Len(s) - 1 : RemoveAt(s, i)[k] = IF k < i THEN s[k] ELSE s[k + 1]
  BY <1>5, <1>7
<1> QED
  BY <1>8, <1>9, <1>10

(* A removal adds no element, and drops at most the one at i.                *)
LEMMA RemoveAtElements ==
  ASSUME NEW S, NEW s \in Seq(S), NEW i \in 1 .. Len(s)
  PROVE  /\ ToSet(RemoveAt(s, i)) \subseteq ToSet(s)
         /\ ToSet(s) \subseteq ToSet(RemoveAt(s, i)) \cup {s[i]}
<1> DEFINE t == RemoveAt(s, i)
<1>1. /\ t \in Seq(S) /\ Len(t) = Len(s) - 1
      /\ \A k \in 1 .. Len(s) - 1 : t[k] = IF k < i THEN s[k] ELSE s[k + 1]
  BY RemoveAtProperties
<1> HIDE DEF t
<1>2. ToSet(t) \subseteq ToSet(s)
  BY <1>1 DEF ToSet
<1>3. ASSUME NEW k \in 1 .. Len(s), k # i PROVE s[k] \in ToSet(t)
  <2>1. CASE k < i
    BY <1>1, <2>1 DEF ToSet
  <2>2. CASE k > i
    <3>1. k - 1 \in 1 .. Len(t) /\ t[k - 1] = s[k]
      BY <1>1, <2>2
    <3> QED
      BY <1>1, <3>1 DEF ToSet
  <2> QED
    BY <1>3, <2>1, <2>2
<1> QED
  BY <1>2, <1>3 DEF ToSet, t

(* A removal from a slice without duplicates leaves none, and the element    *)
(* removed is gone.                                                          *)
LEMMA RemoveAtUnique ==
  ASSUME NEW S, NEW s \in Seq(S), NEW i \in 1 .. Len(s),
         \A j, k \in DOMAIN s : s[j] = s[k] => j = k
  PROVE  /\ \A j, k \in DOMAIN RemoveAt(s, i) :
              RemoveAt(s, i)[j] = RemoveAt(s, i)[k] => j = k
         /\ s[i] \notin ToSet(RemoveAt(s, i))
<1> DEFINE t == RemoveAt(s, i)
<1>1. /\ t \in Seq(S) /\ Len(t) = Len(s) - 1
      /\ \A k \in 1 .. Len(s) - 1 : t[k] = IF k < i THEN s[k] ELSE s[k + 1]
  BY RemoveAtProperties
<1>2. DOMAIN t = 1 .. Len(s) - 1 /\ DOMAIN s = 1 .. Len(s) /\ Len(s) \in Nat
  BY <1>1
<1> HIDE DEF t
<1>3. ASSUME NEW j \in 1 .. Len(s) - 1, NEW k \in 1 .. Len(s) - 1, t[j] = t[k] PROVE j = k
  <2> DEFINE f(n) == IF n < i THEN n ELSE n + 1
  <2>1. t[j] = s[f(j)] /\ t[k] = s[f(k)]
    BY <1>1
  <2>2. f(j) \in 1 .. Len(s) /\ f(k) \in 1 .. Len(s)
    BY <1>2
  <2>3. f(j) = f(k)
    BY <1>2, <1>3, <2>1, <2>2, Zenon
  <2> QED
    BY <2>3
<1>4. ASSUME NEW k \in 1 .. Len(s) - 1 PROVE t[k] # s[i]
  <2> DEFINE n == IF k < i THEN k ELSE k + 1
  <2>1. t[k] = s[n] /\ n \in 1 .. Len(s) /\ n # i
    BY <1>1, <1>2
  <2> QED
    BY <1>2, <2>1
<1> QED
  BY <1>2, <1>3, <1>4 DEF ToSet, t

(* trackAccess of cache.go: the path moves to the end of accessOrder, which  *)
(* holds it once and otherwise the paths it held before.                     *)
LEMMA MoveToEnd ==
  ASSUME NEW S, NEW s \in Seq(S), NEW e \in S, NEW t \in Seq(S),
         \A j, k \in DOMAIN t : t[j] = t[k] => j = k,
         e \notin ToSet(t), ToSet(s) \subseteq ToSet(t) \cup {e}
  PROVE  /\ Append(t, e) \in Seq(S)
         /\ ToSet(s) \cup {e} \subseteq ToSet(Append(t, e))
         /\ \A j, k \in DOMAIN Append(t, e) : Append(t, e)[j] = Append(t, e)[k] => j = k
<1>1. /\ Append(t, e) \in Seq(S) /\ DOMAIN Append(t, e) = 1 .. Len(t) + 1
      /\ Len(t) \in Nat /\ DOMAIN t = 1 .. Len(t)
      /\ Append(t, e)[Len(t) + 1] = e
      /\ \A k \in 1 .. Len(t) : Append(t, e)[k] = t[k]
  OBVIOUS
<1>2. \A k \in 1 .. Len(t) : t[k] # e
  BY <1>1 DEF ToSet
<1>3. ToSet(t) \cup {e} \subseteq ToSet(Append(t, e))
  BY <1>1 DEF ToSet
<1>4. \A j, k \in 1 .. Len(t) + 1 : Append(t, e)[j] = Append(t, e)[k] => j = k
  <2> TAKE j, k \in 1 .. Len(t) + 1
  <2>1. CASE j = Len(t) + 1
    BY <1>1, <1>2, <2>1
  <2>2. CASE k = Len(t) + 1
    BY <1>1, <1>2, <2>2
  <2>3. CASE j \in 1 .. Len(t) /\ k \in 1 .. Len(t)
    BY <1>1, <2>3
  <2> QED
    BY <1>1, <2>1, <2>2, <2>3
<1> QED
  BY <1>1, <1>3, <1>4

(* evictIfNeeded of cache.go: taking n paths off the front of accessOrder    *)
(* keeps the others, once each.                                              *)
LEMMA DropFront ==
  ASSUME NEW S, NEW s \in Seq(S), NEW n \in 0 .. Len(s),
         \A j, k \in DOMAIN s : s[j] = s[k] => j = k
  PROVE  /\ SubSeq(s, n + 1, Len(s)) \in Seq(S)
         /\ ToSet(s) \subseteq ToSet(SubSeq(s, 1, n)) \cup ToSet(SubSeq(s, n + 1, Len(s)))
         /\ \A j, k \in DOMAIN SubSeq(s, n + 1, Len(s)) :
              SubSeq(s, n + 1, Len(s))[j] = SubSeq(s, n + 1, Len(s))[k] => j = k
<1> DEFINE front == SubSeq(s, 1, n)
           back == SubSeq(s, n + 1, Len(s))
<1>0. Len(s) \in Nat /\ DOMAIN s = 1 .. Len(s) /\ n \in Nat /\ n <= Len(s)
  OBVIOUS
<1>1. DOMAIN front = 1 .. n /\ \A k \in 1 .. n : front[k] = s[k]
  BY <1>0, SubSeqProperties
<1>2. back \in Seq(S) /\ Len(back) = Len(s) - n
  <2> DEFINE m == n + 1
             l == Len(s)
  <2>1. m \in Int /\ l \in Int /\ \A i \in m .. l : s[i] \in S
    BY <1>0
  <2>2. m = n + 1 /\ l = Len(s)
    OBVIOUS
  <2>6. back = SubSeq(s, m, l)
    OBVIOUS
  <2> HIDE DEF m, l, back
  <2>3. SubSeq(s, m, l) \in Seq(S) /\ Len(SubSeq(s, m, l)) = IF m <= l THEN l - m + 1 ELSE 0
    BY <2>1, SubSeqProperties
  <2>4. back \in Seq(S) /\ Len(back) = IF m <= l THEN l - m + 1 ELSE 0
    BY <2>3, <2>6, Zenon
  <2>5. CASE m <= l
    BY <1>0, <2>1, <2>2, <2>4, <2>5
  <2>7. CASE ~(m <= l)
    <3>0. \A a, b \in Nat : a <= b /\ ~(a + 1 <= b) => a = b
      OBVIOUS
    <3>1. n = l
      BY <1>0, <2>2, <2>7, <3>0, Zenon
    <3> QED
      BY <1>0, <2>2, <2>4, <2>7, <3>1
  <2> QED
    BY <2>5, <2>7
<1>3. \A k \in 1 .. Len(s) - n : back[k] = s[n + k]
  BY <1>0, SubSeqProperties
<1>4. DOMAIN back = 1 .. Len(s) - n
  BY <1>2
<1> HIDE DEF front, back
<1>5. ASSUME NEW k \in 1 .. Len(s) PROVE s[k] \in ToSet(front) \cup ToSet(back)
  <2>1. CASE k <= n
    BY <1>0, <1>1, <2>1 DEF ToSet
  <2>2. CASE ~(k <= n)
    <3>1. k - n \in 1 .. Len(s) - n /\ n + (k - n) = k
      BY <1>0, <2>2
    <3>2. back[k - n] = s[k]
      BY <1>3, <3>1
    <3> QED
      BY <1>4, <3>1, <3>2 DEF ToSet
  <2> QED
    BY <2>1, <2>2
<1>6. ToSet(s) \subseteq ToSet(front) \cup ToSet(back)
  BY <1>0, <1>5 DEF ToSet
<1>7. ASSUME NEW j \in DOMAIN back, NEW k \in DOMAIN back, back[j] = back[k] PROVE j = k
  <2>1. n + j \in DOMAIN s /\ n + k \in DOMAIN s
    BY <1>0, <1>4
  <2>2. s[n + j] = s[n + k]
    BY <1>3, <1>4, <1>7
  <2>3. n + j = n + k
    BY <2>1, <2>2
  <2> QED
    BY <1>0, <1>4, <2>3
<1>8. \A j, k \in DOMAIN back : back[j] = back[k] => j = k
  BY <1>7
<1> QED
  <2>1. SubSeq(s, 1, n) = front /\ SubSeq(s, n + 1, Len(s)) = back
    BY DEF front, back
  <2> QED
    BY <1>2, <1>6, <1>8, <2>1, Zenon
=============================================================================
