----------------------------- MODULE ListFacts -----------------------------
(***************************************************************************)
(* What the operations on the kernel's linked lists do to their elements:  *)
(* append (xtask_enqueue), push in front (block list), take the head       *)
(* (xtask_pick_task), insert in the middle (delay list) and unlink.  Each  *)
(* lemma says which elements the new list has and that a list without      *)
(* repetition stays one.  The last two are about the buffers of a virtual  *)
(* channel behind each other, as a stream of objects.                      *)
(***************************************************************************)
EXTENDS Integers, SequencesExt, SequenceTheorems, WellFoundedInduction, TLAPS

\* The elements of a sequence, by index.
LEMMA ToSetElements ==
  ASSUME NEW S, NEW s \in Seq(S)
  PROVE  /\ \A x : x \in ToSet(s) <=> \E i \in 1..Len(s) : s[i] = x
         /\ ToSet(s) \subseteq S
         /\ IsInjective(s) <=> \A i, j \in 1..Len(s) : s[i] = s[j] => i = j
<1>1. DOMAIN s = 1..Len(s) /\ \A i \in 1..Len(s) : s[i] \in S
  BY LenProperties, ElementOfSeq
<1> QED
  BY <1>1 DEF ToSet, IsInjective

\* xtask_enqueue: a new element at the end.
LEMMA AppendElements ==
  ASSUME NEW S, NEW s \in Seq(S), NEW e \in S
  PROVE  /\ Append(s, e) \in Seq(S)
         /\ ToSet(Append(s, e)) = ToSet(s) \cup {e}
         /\ IsInjective(s) /\ e \notin ToSet(s) => IsInjective(Append(s, e))
<1> DEFINE t == Append(s, e)
<1>1. /\ t \in Seq(S)
      /\ Len(t) = Len(s) + 1 /\ Len(s) \in Nat
      /\ \A i \in 1..Len(s) : t[i] = s[i]
      /\ t[Len(s) + 1] = e
  BY AppendProperties, LenProperties
<1> HIDE DEF t
<1>2. ToSet(t) = ToSet(s) \cup {e}
  <2>1. ASSUME NEW x \in ToSet(t) PROVE x \in ToSet(s) \cup {e}
    <3>1. PICK i \in 1..Len(t) : t[i] = x
      BY <1>1, <2>1, ToSetElements
    <3>2. CASE i \in 1..Len(s)
      BY <1>1, <3>1, <3>2, ToSetElements
    <3>3. CASE i = Len(s) + 1
      BY <1>1, <3>1, <3>3
    <3> QED
      BY <1>1, <3>2, <3>3
  <2>2. ASSUME NEW x \in ToSet(s) PROVE x \in ToSet(t)
    <3>1. PICK i \in 1..Len(s) : s[i] = x
      BY <2>2, ToSetElements
    <3> QED
      BY <1>1, <3>1, ToSetElements
  <2>3. e \in ToSet(t)
    BY <1>1, ToSetElements
  <2> QED
    BY <2>1, <2>2, <2>3
<1>3. ASSUME IsInjective(s), e \notin ToSet(s) PROVE IsInjective(t)
  <2>1. \A i, j \in 1..Len(s) : s[i] = s[j] => i = j
    BY <1>3, ToSetElements
  <2>2. \A i \in 1..Len(s) : s[i] # e
    BY <1>3, ToSetElements
  <2>3. \A i, j \in 1..Len(t) : t[i] = t[j] => i = j
    BY <1>1, <2>1, <2>2
  <2> QED
    BY <1>1, <2>3, ToSetElements
<1> QED
  BY <1>1, <1>2, <1>3 DEF t

\* xtask_pick_task: the head leaves a non-empty list.
LEMMA TailElements ==
  ASSUME NEW S, NEW s \in Seq(S), s # <<>>
  PROVE  /\ Head(s) \in S
         /\ Tail(s) \in Seq(S)
         /\ ToSet(s) = ToSet(Tail(s)) \cup {Head(s)}
         /\ IsInjective(s) => IsInjective(Tail(s)) /\ Head(s) \notin ToSet(Tail(s))
<1> DEFINE t == Tail(s)
<1>1. /\ t \in Seq(S)
      /\ Len(s) \in Nat \ {0}
      /\ Len(t) = Len(s) - 1
      /\ \A i \in 1..Len(t) : t[i] = s[i + 1]
      /\ Head(s) = s[1]
      /\ Head(s) \in S
  BY HeadTailProperties, EmptySeq, LenProperties
<1> HIDE DEF t
<1>2. ToSet(s) = ToSet(t) \cup {s[1]}
  <2>1. ASSUME NEW x \in ToSet(s) PROVE x \in ToSet(t) \cup {s[1]}
    <3>1. PICK i \in 1..Len(s) : s[i] = x
      BY <2>1, ToSetElements
    <3>2. CASE i # 1
      <4>1. i - 1 \in 1..Len(t) /\ t[i - 1] = x
        BY <1>1, <3>1, <3>2
      <4> QED
        BY <1>1, <4>1, ToSetElements
    <3> QED
      BY <3>1, <3>2
  <2>2. ASSUME NEW x \in ToSet(t) PROVE x \in ToSet(s)
    <3>1. PICK i \in 1..Len(t) : t[i] = x
      BY <1>1, <2>2, ToSetElements
    <3>2. i + 1 \in 1..Len(s) /\ s[i + 1] = x
      BY <1>1, <3>1
    <3> QED
      BY <3>2, ToSetElements
  <2>3. s[1] \in ToSet(s)
    BY <1>1, ToSetElements
  <2> QED
    BY <2>1, <2>2, <2>3
<1>3. ASSUME IsInjective(s) PROVE IsInjective(t) /\ s[1] \notin ToSet(t)
  <2>1. \A i, j \in 1..Len(s) : s[i] = s[j] => i = j
    BY <1>3, ToSetElements
  <2>2. \A i, j \in 1..Len(t) : t[i] = t[j] => i = j
    BY <1>1, <2>1
  <2>3. \A i \in 1..Len(t) : t[i] # s[1]
    BY <1>1, <2>1
  <2> QED
    BY <1>1, <2>2, <2>3, ToSetElements
<1> QED
  BY <1>1, <1>2, <1>3 DEF t

\* xtask_kcall_delay_ticks: a new element in the middle, by index.
LEMMA InsertAtIndex ==
  ASSUME NEW S, NEW s \in Seq(S), NEW e \in S, NEW k \in 1..(Len(s) + 1)
  PROVE  /\ InsertAt(s, k, e) \in Seq(S)
         /\ Len(InsertAt(s, k, e)) = Len(s) + 1
         /\ \A i \in 1..(Len(s) + 1) :
              InsertAt(s, k, e)[i] = IF i < k THEN s[i]
                                     ELSE IF i = k THEN e ELSE s[i - 1]
<1> DEFINE l == SubSeq(s, 1, k - 1)
           r == SubSeq(s, k, Len(s))
<1>1. Len(s) \in Nat /\ \A i \in 1..Len(s) : s[i] \in S
  BY LenProperties, ElementOfSeq
<1>2. /\ l \in Seq(S)
      /\ Len(l) = k - 1
      /\ \A i \in 1..(k - 1) : l[i] = s[i]
  BY <1>1, SubSeqProperties
<1>3. /\ r \in Seq(S)
      /\ Len(r) = Len(s) - k + 1
      /\ \A i \in 1..(Len(s) - k + 1) : r[i] = s[k + i - 1]
  BY <1>1, SubSeqProperties
<1>4. <<e>> \in Seq(S) /\ Len(<<e>>) = 1 /\ <<e>>[1] = e
  OBVIOUS
<1>5. InsertAt(s, k, e) = (l \o <<e>>) \o r
  BY DEF InsertAt
<1> HIDE DEF l, r
<1>6. /\ l \o <<e>> \in Seq(S)
      /\ Len(l \o <<e>>) = k
      /\ \A i \in 1..k : (l \o <<e>>)[i] = IF i < k THEN s[i] ELSE e
  BY <1>1, <1>2, <1>4, ConcatProperties
<1> DEFINE q == l \o <<e>>
<1>7. /\ q \o r \in Seq(S)
      /\ Len(q \o r) = Len(s) + 1
      /\ \A i \in 1..(Len(s) + 1) :
           (q \o r)[i] = IF i <= k THEN q[i] ELSE r[i - k]
  <2>1. q \in Seq(S) /\ Len(q) = k
    BY <1>6
  <2> HIDE DEF q
  <2>2. Len(q) + Len(r) = Len(s) + 1
    BY <1>1, <1>3, <2>1
  <2> QED
    BY <1>3, <2>1, <2>2, ConcatProperties
<1>8. ASSUME NEW i \in 1..(Len(s) + 1)
      PROVE  (q \o r)[i] = IF i < k THEN s[i] ELSE IF i = k THEN e ELSE s[i - 1]
  <2>1. CASE i <= k
    BY <1>1, <1>6, <1>7, <2>1
  <2>2. CASE i > k
    <3>1. i - k \in 1..(Len(s) - k + 1) /\ k + (i - k) - 1 = i - 1
      BY <1>1, <2>2
    <3>2. r[i - k] = s[i - 1]
      BY <1>3, <3>1
    <3> QED
      BY <1>7, <2>2, <3>2
  <2>3. i <= k \/ i > k
    BY <1>1
  <2> QED
    BY <2>1, <2>2, <2>3
<1> QED
  BY <1>5, <1>7, <1>8

\* ... and what the list holds afterwards.
LEMMA InsertAtElements ==
  ASSUME NEW S, NEW s \in Seq(S), NEW e \in S, NEW k \in 1..(Len(s) + 1)
  PROVE  /\ InsertAt(s, k, e) \in Seq(S)
         /\ ToSet(InsertAt(s, k, e)) = ToSet(s) \cup {e}
         /\ IsInjective(s) /\ e \notin ToSet(s) => IsInjective(InsertAt(s, k, e))
<1> DEFINE t == InsertAt(s, k, e)
<1>1. /\ t \in Seq(S) /\ Len(t) = Len(s) + 1 /\ Len(s) \in Nat
      /\ \A i \in 1..Len(t) : t[i] = IF i < k THEN s[i]
                                     ELSE IF i = k THEN e ELSE s[i - 1]
  BY InsertAtIndex, LenProperties
<1> HIDE DEF t
<1>2. ToSet(t) = ToSet(s) \cup {e}
  <2>1. ASSUME NEW x \in ToSet(t) PROVE x \in ToSet(s) \cup {e}
    <3>1. PICK i \in 1..Len(t) : t[i] = x
      BY <1>1, <2>1, ToSetElements
    <3>2. x = e \/ \E j \in 1..Len(s) : s[j] = x
      <4>1. CASE i < k
        BY <1>1, <3>1, <4>1
      <4>2. CASE i = k
        BY <1>1, <3>1, <4>2
      <4>3. CASE i > k
        <5>1. i - 1 \in 1..Len(s) /\ s[i - 1] = x
          BY <1>1, <3>1, <4>3
        <5> QED
          BY <5>1
      <4> QED
        BY <4>1, <4>2, <4>3
    <3> QED
      BY <3>2, ToSetElements
  <2>2. ASSUME NEW x \in ToSet(s) PROVE x \in ToSet(t)
    <3>1. PICK i \in 1..Len(s) : s[i] = x
      BY <2>2, ToSetElements
    <3>2. i \in 1..Len(t) /\ i + 1 \in 1..Len(t)
          /\ (t[i] = x \/ t[i + 1] = x)
      BY <1>1, <3>1
    <3> QED
      BY <1>1, <3>2, ToSetElements
  <2>3. k \in 1..Len(t) /\ t[k] = e
    BY <1>1
  <2>4. e \in ToSet(t)
    BY <1>1, <2>3, ToSetElements
  <2> QED
    BY <2>1, <2>2, <2>4
<1>3. ASSUME IsInjective(s), e \notin ToSet(s) PROVE IsInjective(t)
  <2>1. \A i, j \in 1..Len(s) : s[i] = s[j] => i = j
    BY <1>3, ToSetElements
  <2>2. \A i \in 1..Len(s) : s[i] # e
    BY <1>3, ToSetElements
  <2>3. ASSUME NEW i \in 1..Len(t), NEW j \in 1..Len(t), t[i] = t[j]
        PROVE  i = j
    <3> DEFINE old(n) == IF n < k THEN n ELSE n - 1
    <3>1. \A n \in 1..Len(t) : n # k => old(n) \in 1..Len(s) /\ t[n] = s[old(n)]
      BY <1>1
    <3>2. t[k] = e
      BY <1>1
    <3>3. CASE i # k /\ j # k
      <4>1. old(i) = old(j)
        BY <2>1, <2>3, <3>1, <3>3
      <4> QED
        BY <3>3, <4>1
    <3>4. CASE i = k \/ j = k
      BY <2>2, <2>3, <3>1, <3>2, <3>4
    <3> QED
      BY <3>3, <3>4
  <2> QED
    BY <1>1, <2>3, ToSetElements
<1> QED
  BY <1>1, <1>2, <1>3 DEF t

\* xtask_not_handler: one element is unlinked, by index.
LEMMA RemoveAtIndex ==
  ASSUME NEW S, NEW s \in Seq(S), NEW k \in 1..Len(s)
  PROVE  /\ RemoveAt(s, k) \in Seq(S)
         /\ Len(RemoveAt(s, k)) = Len(s) - 1
         /\ \A i \in 1..(Len(s) - 1) :
              RemoveAt(s, k)[i] = IF i < k THEN s[i] ELSE s[i + 1]
<1> DEFINE l == SubSeq(s, 1, k - 1)
           r == SubSeq(s, k + 1, Len(s))
<1>1. Len(s) \in Nat /\ \A i \in 1..Len(s) : s[i] \in S
  BY LenProperties, ElementOfSeq
<1>2. /\ l \in Seq(S)
      /\ Len(l) = k - 1
      /\ \A i \in 1..(k - 1) : l[i] = s[i]
  BY <1>1, SubSeqProperties
<1>3. /\ r \in Seq(S)
      /\ Len(r) = Len(s) - k
      /\ \A i \in 1..(Len(s) - k) : r[i] = s[k + i]
  BY <1>1, SubSeqProperties
<1>4. RemoveAt(s, k) = l \o r
  BY DEF RemoveAt
<1> HIDE DEF l, r
<1>5. /\ l \o r \in Seq(S)
      /\ Len(l \o r) = Len(s) - 1
      /\ \A i \in 1..(Len(s) - 1) :
           (l \o r)[i] = IF i <= k - 1 THEN l[i] ELSE r[i - (k - 1)]
  BY <1>1, <1>2, <1>3, ConcatProperties
<1>6. Len(l) + Len(r) = Len(s) - 1
  BY <1>1, <1>2, <1>3
<1>7. ASSUME NEW i \in 1..(Len(s) - 1)
      PROVE  (l \o r)[i] = IF i < k THEN s[i] ELSE s[i + 1]
  <2>1. CASE i < k
    BY <1>1, <1>2, <1>5, <2>1
  <2>2. CASE i >= k
    <3>1. i - (k - 1) \in 1..(Len(s) - k) /\ k + (i - (k - 1)) = i + 1
      BY <1>1, <2>2
    <3>2. r[i - (k - 1)] = s[i + 1]
      BY <1>3, <3>1
    <3> QED
      BY <1>5, <2>2, <3>2
  <2>3. i < k \/ i >= k
    BY <1>1
  <2> QED
    BY <2>1, <2>2, <2>3
<1> QED
  BY <1>4, <1>5, <1>7

\* ... and what is left.
LEMMA RemoveAtElements ==
  ASSUME NEW S, NEW s \in Seq(S), NEW k \in 1..Len(s)
  PROVE  /\ s[k] \in S
         /\ RemoveAt(s, k) \in Seq(S)
         /\ ToSet(s) = ToSet(RemoveAt(s, k)) \cup {s[k]}
         /\ IsInjective(s) =>
              IsInjective(RemoveAt(s, k)) /\ s[k] \notin ToSet(RemoveAt(s, k))
<1> DEFINE t == RemoveAt(s, k)
<1>1. /\ t \in Seq(S) /\ Len(t) = Len(s) - 1 /\ Len(s) \in Nat
      /\ \A i \in 1..Len(t) : t[i] = IF i < k THEN s[i] ELSE s[i + 1]
  BY RemoveAtIndex, LenProperties
<1> HIDE DEF t
<1>2. ToSet(s) = ToSet(t) \cup {s[k]}
  <2>1. ASSUME NEW x \in ToSet(s), x # s[k] PROVE x \in ToSet(t)
    <3>1. PICK i \in 1..Len(s) : s[i] = x
      BY <2>1, ToSetElements
    <3>2. CASE i < k
      <4>1. i \in 1..Len(t) /\ t[i] = x
        BY <1>1, <3>1, <3>2
      <4> QED
        BY <1>1, <4>1, ToSetElements
    <3>3. CASE i > k
      <4>1. i - 1 \in 1..Len(t) /\ t[i - 1] = x
        BY <1>1, <3>1, <3>3
      <4> QED
        BY <1>1, <4>1, ToSetElements
    <3> QED
      BY <2>1, <3>1, <3>2, <3>3
  <2>2. ASSUME NEW x \in ToSet(t) PROVE x \in ToSet(s)
    <3>1. PICK i \in 1..Len(t) : t[i] = x
      BY <1>1, <2>2, ToSetElements
    <3>2. i \in 1..Len(s) /\ i + 1 \in 1..Len(s)
          /\ (s[i] = x \/ s[i + 1] = x)
      BY <1>1, <3>1
    <3> QED
      BY <3>2, ToSetElements
  <2>3. s[k] \in ToSet(s)
    BY ToSetElements
  <2> QED
    BY <2>1, <2>2, <2>3
<1>3. ASSUME IsInjective(s) PROVE IsInjective(t) /\ s[k] \notin ToSet(t)
  <2>1. \A i, j \in 1..Len(s) : s[i] = s[j] => i = j
    BY <1>3, ToSetElements
  <2>2. ASSUME NEW i \in 1..Len(t), NEW j \in 1..Len(t), t[i] = t[j]
        PROVE  i = j
    <3> DEFINE old(n) == IF n < k THEN n ELSE n + 1
    <3>1. \A n \in 1..Len(t) : old(n) \in 1..Len(s) /\ t[n] = s[old(n)]
      BY <1>1
    <3>2. old(i) = old(j)
      BY <2>1, <2>2, <3>1
    <3> QED
      BY <3>2
  <2>3. \A i \in 1..Len(t) : t[i] # s[k]
    BY <1>1, <2>1
  <2> QED
    BY <1>1, <2>2, <2>3, ToSetElements
<1>4. s[k] \in S
  BY ElementOfSeq
<1> QED
  BY <1>1, <1>2, <1>3, <1>4 DEF t

\* Adding to the front of the block list.
LEMMA ConsElements ==
  ASSUME NEW S, NEW s \in Seq(S), NEW e \in S
  PROVE  /\ <<e>> \o s \in Seq(S)
         /\ ToSet(<<e>> \o s) = ToSet(s) \cup {e}
         /\ IsInjective(s) /\ e \notin ToSet(s) => IsInjective(<<e>> \o s)
<1> DEFINE t == <<e>> \o s
<1>1. /\ t \in Seq(S) /\ Len(t) = Len(s) + 1 /\ Len(s) \in Nat
      /\ \A i \in 1..Len(t) : t[i] = IF i = 1 THEN e ELSE s[i - 1]
  <2>1. <<e>> \in Seq(S) /\ Len(<<e>>) = 1 /\ <<e>>[1] = e
    OBVIOUS
  <2> QED
    BY <2>1, ConcatProperties, LenProperties
<1> HIDE DEF t
<1>2. ToSet(t) = ToSet(s) \cup {e}
  <2>1. ASSUME NEW x \in ToSet(t) PROVE x \in ToSet(s) \cup {e}
    <3>1. PICK i \in 1..Len(t) : t[i] = x
      BY <1>1, <2>1, ToSetElements
    <3>2. CASE i # 1
      <4>1. i - 1 \in 1..Len(s) /\ s[i - 1] = x
        BY <1>1, <3>1, <3>2
      <4> QED
        BY <4>1, ToSetElements
    <3> QED
      BY <1>1, <3>1, <3>2
  <2>2. ASSUME NEW x \in ToSet(s) PROVE x \in ToSet(t)
    <3>1. PICK i \in 1..Len(s) : s[i] = x
      BY <2>2, ToSetElements
    <3>2. i + 1 \in 1..Len(t) /\ t[i + 1] = x
      BY <1>1, <3>1
    <3> QED
      BY <1>1, <3>2, ToSetElements
  <2>3. 1 \in 1..Len(t) /\ t[1] = e
    BY <1>1
  <2>4. e \in ToSet(t)
    BY <1>1, <2>3, ToSetElements
  <2> QED
    BY <2>1, <2>2, <2>4
<1>3. ASSUME IsInjective(s), e \notin ToSet(s) PROVE IsInjective(t)
  <2>1. \A i, j \in 1..Len(s) : s[i] = s[j] => i = j
    BY <1>3, ToSetElements
  <2>2. \A i \in 1..Len(s) : s[i] # e
    BY <1>3, ToSetElements
  <2>3. ASSUME NEW i \in 1..Len(t), NEW j \in 1..Len(t), t[i] = t[j]
        PROVE  i = j
    <3> DEFINE old(n) == n - 1
    <3>1. \A n \in 1..Len(t) : n # 1 => old(n) \in 1..Len(s) /\ t[n] = s[old(n)]
      BY <1>1
    <3>2. t[1] = e
      BY <1>1
    <3>3. CASE i # 1 /\ j # 1
      <4>1. old(i) = old(j)
        BY <2>1, <2>3, <3>1, <3>3
      <4> QED
        BY <3>3, <4>1
    <3>4. CASE i = 1 \/ j = 1
      BY <2>2, <2>3, <3>1, <3>2, <3>4
    <3> QED
      BY <3>3, <3>4
  <2> QED
    BY <1>1, <2>3, ToSetElements
<1> QED
  BY <1>1, <1>2, <1>3 DEF t

\* Every non-empty set of natural numbers has a least element: what the loops
\* of xtask_pick_task and xtask_kcall_delay_ticks stop at.
LEMMA MinOfNat ==
  ASSUME NEW S \in SUBSET Nat, S # {}
  PROVE  Min(S) \in S /\ \A x \in S : Min(S) <= x
<1> DEFINE less == {ss \in Nat \X Nat : ss[1] < ss[2]}
<1>1. IsWellFoundedOn(less, Nat)
  BY NatLessThanWellFounded DEF OpToRel
<1>2. PICK m \in S : \A y \in S : ~ (<<y, m>> \in less)
  <2> HIDE DEF less
  <2> QED
    BY <1>1, WFMin
<1>3. \A y \in S : y < m => <<y, m>> \in less
  OBVIOUS
<1>4. \A y \in S : ~ (y < m)
  <2> HIDE DEF less
  <2> QED
    BY <1>2, <1>3
<1>5. \A y \in S : m <= y
  BY <1>4
<1> QED
  BY <1>5 DEF Min

\* A sequence is a strict prefix of itself with something behind it.
LEMMA ConcatPrefix ==
  ASSUME NEW S, NEW s \in Seq(S), NEW t \in Seq(S), t # <<>>
  PROVE  /\ Len(s) <= Len(s \o t)
         /\ SubSeq(s, 1, Len(s)) = SubSeq(s \o t, 1, Len(s))
         /\ s # s \o t
<1>1. /\ s \o t \in Seq(S) /\ Len(s \o t) = Len(s) + Len(t)
      /\ Len(s) \in Nat /\ Len(t) \in Nat
  BY ConcatProperties, LenProperties
<1>2. SubSeq(s, 1, Len(s)) = SubSeq(s \o t, 1, Len(s))
  <2>1. CASE s = <<>>
    <3>1. Len(s) < 1 /\ Len(s) \in Int
      BY <2>1
    <3> QED
      BY <3>1, SubSeqEmpty
  <2>2. CASE s # <<>>
    <3>1. Len(s) \in 1..Len(s) /\ 1 \in 1..Len(s)
      BY <2>2, EmptySeq
    <3> QED
      BY <3>1, SubSeqOfConcat1
  <2> QED
    BY <2>1, <2>2
<1>3. s # s \o t
  BY ConcatEqualIffEmpty
<1> QED
  BY <1>1, <1>2, <1>3

\* The two parts of a concatenation.
LEMMA ConcatSplit ==
  ASSUME NEW S, NEW s \in Seq(S), NEW t \in Seq(S)
  PROVE  /\ SubSeq(s \o t, 1, Len(s)) = s
         /\ SubSeq(s \o t, Len(s) + 1, Len(s \o t)) = t
<1>1. /\ s \o t \in Seq(S) /\ Len(s \o t) = Len(s) + Len(t)
      /\ Len(s) \in Nat /\ Len(t) \in Nat
  BY ConcatProperties, LenProperties
<1>2. SubSeq(s \o t, 1, Len(s)) = s
  <2>1. CASE s = <<>>
    BY <2>1, SubSeqEmpty
  <2>2. CASE s # <<>>
    <3>1. Len(s) \in 1..Len(s) /\ 1 \in 1..Len(s)
      BY <2>2, EmptySeq
    <3> QED
      BY <3>1, SubSeqOfConcat1, SubSeqFull
  <2> QED
    BY <2>1, <2>2
<1>3. SubSeq(s \o t, Len(s) + 1, Len(s \o t)) = t
  <2>1. CASE t = <<>>
    <3>1. Len(s \o t) < Len(s) + 1 /\ Len(s \o t) \in Int /\ Len(s) + 1 \in Int
      BY <1>1, <2>1
    <3> QED
      BY <2>1, <3>1, SubSeqEmpty
  <2>2. CASE t # <<>>
    <3>1. Len(t) # 0
      BY <2>2, EmptySeq
    <3>2. /\ Len(s) + 1 \in (Len(s) + 1)..(Len(s) + Len(t))
          /\ Len(s) + Len(t) \in (Len(s) + 1)..(Len(s) + Len(t))
          /\ Len(s) + 1 - Len(s) = 1 /\ Len(s) + Len(t) - Len(s) = Len(t)
      BY <1>1, <3>1
    <3>3. SubSeq(s \o t, Len(s) + 1, Len(s) + Len(t))
            = SubSeq(t, Len(s) + 1 - Len(s), Len(s) + Len(t) - Len(s))
      BY <3>2, SubSeqOfConcat2
    <3> QED
      BY <1>1, <3>2, <3>3, SubSeqFull
  <2> QED
    BY <2>1, <2>2
<1> QED
  BY <1>2, <1>3
=============================================================================
