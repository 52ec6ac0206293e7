---------------------------- MODULE ListLemmas ----------------------------
(***************************************************************************)
(* Facts about the operators of the community modules by which the other   *)
(* modules model QLists and layouts: what RemoveAt, RemoveFirst, Append    *)
(* and SetToSeq make of a sequence without repetition.                     *)
(***************************************************************************)
EXTENDS SequencesExt, SequenceTheorems, FiniteSetTheorems, TLAPS

-----------------------------------------------------------------------------
(* A non-empty set of naturals has its minimum among its members. *)
LEMMA MinIsMember ==
  ASSUME NEW S \in SUBSET Nat, S # {}
  PROVE  Min(S) \in S /\ \A y \in S : Min(S) <= y
<1>1. \E x \in S : \A y \in S : ~(<<y, x>> \in OpToRel(<, Nat))
  BY NatLessThanWellFounded, WFMin
<1>2. \A x, y \in Nat : y < x => <<y, x>> \in OpToRel(<, Nat)
  <2>1. SUFFICES ASSUME NEW x \in Nat, NEW y \in Nat, y < x
                 PROVE  <<y, x>> \in {ss \in Nat \X Nat : ss[1] < ss[2]}
    BY Zenon DEF OpToRel
  <2> QED
    BY <2>1, SMT
<1>3. PICK x \in S : \A y \in S : ~(y < x)
  BY <1>1, <1>2, Zenon
<1>4. \A y \in S : x =< y
  BY <1>3, SMT
<1> QED
  BY <1>4 DEF Min

(* Removing an entry of a list leaves a list with one entry less, and the *)
(* entries behind it move up by one.                                      *)
LEMMA RemoveAtProperties ==
  ASSUME NEW T, NEW s \in Seq(T), NEW i \in 1..Len(s)
  PROVE  /\ RemoveAt(s, i) \in Seq(T)
         /\ Len(RemoveAt(s, i)) = Len(s) - 1
         /\ \A j \in 1..(Len(s) - 1) :
              RemoveAt(s, i)[j] = IF j < i THEN s[j] ELSE s[j + 1]
<1> DEFINE front == SubSeq(s, 1, i - 1)
           back == SubSeq(s, i + 1, Len(s))
<1>1. Len(s) \in Nat
  BY LenProperties
<1>2. /\ front \in Seq(T) /\ Len(front) = i - 1
      /\ \A j \in 1..(i - 1) : front[j] = s[j]
  BY <1>1, SubSeqProperties
<1>3. /\ back \in Seq(T) /\ Len(back) = Len(s) - i
      /\ \A j \in 1..(Len(s) - i) : back[j] = s[j + i]
  BY <1>1, SubSeqProperties
<1>4. RemoveAt(s, i) = front \o back
  BY Zenon DEF RemoveAt
<1> HIDE DEF front, back
<1>5. /\ front \o back \in Seq(T)
      /\ Len(front \o back) = Len(front) + Len(back)
      /\ \A j \in 1..(Len(front) + Len(back)) :
           (front \o back)[j] = IF j <= Len(front) THEN front[j] ELSE back[j - Len(front)]
  BY <1>2, <1>3, ConcatProperties, Zenon
<1>6. Len(front) + Len(back) = Len(s) - 1
  BY <1>1, <1>2, <1>3
<1>7. ASSUME NEW j \in 1..(Len(s) - 1)
      PROVE  (front \o back)[j] = IF j < i THEN s[j] ELSE s[j + 1]
  <2>1. CASE j < i
    BY <1>1, <1>2, <1>5, <1>6, <2>1
  <2>2. CASE ~(j < i)
    <3>1. j - Len(front) \in 1..(Len(s) - i) /\ ~(j <= Len(front))
      BY <1>1, <1>2, <2>2
    <3>2. back[j - Len(front)] = s[(j - Len(front)) + i]
      BY <1>3, <3>1
    <3>3. (j - Len(front)) + i = j + 1
      BY <1>1, <1>2
    <3> QED
      BY <1>5, <1>6, <2>2, <3>1, <3>2, <3>3
  <2> QED
    BY <2>1, <2>2
<1> QED
  BY <1>4, <1>5, <1>6, <1>7, Zenon

(* What is left is in the order it was in. *)
LEMMA RemoveAtKeepsOrder ==
  ASSUME NEW T, NEW s \in Seq(T), NEW i \in 1..Len(s),
         NEW j \in DOMAIN RemoveAt(s, i), NEW k \in DOMAIN RemoveAt(s, i), j < k
  PROVE  \E m, n \in DOMAIN s :
           m < n /\ RemoveAt(s, i)[j] = s[m] /\ RemoveAt(s, i)[k] = s[n]
<1>1. Len(s) \in Nat /\ DOMAIN s = 1..Len(s)
  BY LenProperties
<1>2. RemoveAt(s, i) \in Seq(T) /\ Len(RemoveAt(s, i)) = Len(s) - 1
  BY RemoveAtProperties
<1>3. j \in 1..(Len(s) - 1) /\ k \in 1..(Len(s) - 1)
  BY <1>2, LenProperties
<1> DEFINE from(l) == IF l < i THEN l ELSE l + 1
<1>4. RemoveAt(s, i)[j] = s[from(j)] /\ RemoveAt(s, i)[k] = s[from(k)]
  BY <1>3, RemoveAtProperties
<1>5. from(j) \in DOMAIN s /\ from(k) \in DOMAIN s /\ from(j) < from(k)
  BY <1>1, <1>3
<1> QED
  BY <1>4, <1>5

(* And nothing but the entry is lost. *)
LEMMA RemoveAtKeeps ==
  ASSUME NEW T, NEW s \in Seq(T), NEW i \in 1..Len(s), NEW m \in DOMAIN s, m # i
  PROVE  \E j \in DOMAIN RemoveAt(s, i) : RemoveAt(s, i)[j] = s[m]
<1>1. Len(s) \in Nat /\ DOMAIN s = 1..Len(s)
  BY LenProperties
<1>2. /\ RemoveAt(s, i) \in Seq(T) /\ Len(RemoveAt(s, i)) = Len(s) - 1
      /\ \A j \in 1..(Len(s) - 1) :
           RemoveAt(s, i)[j] = IF j < i THEN s[j] ELSE s[j + 1]
  BY RemoveAtProperties
<1>3. DOMAIN RemoveAt(s, i) = 1..(Len(s) - 1)
  BY <1>2, LenProperties
<1>4. CASE m < i
  BY <1>1, <1>2, <1>3, <1>4
<1>5. CASE m > i
  <2>1. m - 1 \in 1..(Len(s) - 1) /\ ~(m - 1 < i) /\ (m - 1) + 1 = m
    BY <1>1, <1>5
  <2> QED
    BY <1>2, <1>3, <2>1
<1> QED
  BY <1>1, <1>4, <1>5

(* Of a list without repetition exactly the entry goes. *)
LEMMA RemoveAtInjective ==
  ASSUME NEW T, NEW s \in Seq(T), NEW i \in 1..Len(s), IsInjective(s)
  PROVE  /\ IsInjective(RemoveAt(s, i))
         /\ ToSet(RemoveAt(s, i)) = ToSet(s) \ {s[i]}
<1> DEFINE r == RemoveAt(s, i)
           from(j) == IF j < i THEN j ELSE j + 1
<1>1. Len(s) \in Nat /\ DOMAIN s = 1..Len(s)
  BY LenProperties
<1>2. /\ r \in Seq(T) /\ Len(r) = Len(s) - 1
      /\ \A j \in 1..(Len(s) - 1) : r[j] = s[from(j)]
  BY RemoveAtProperties
<1>3. DOMAIN r = 1..(Len(s) - 1)
  BY <1>2, LenProperties
<1>4. \A j \in 1..(Len(s) - 1) : from(j) \in 1..Len(s) /\ from(j) # i
  BY <1>1
<1>5. \A j, k \in 1..(Len(s) - 1) : from(j) = from(k) => j = k
  BY <1>1
<1>6. \A k \in 1..Len(s) : k # i => \E j \in 1..(Len(s) - 1) : from(j) = k
  <2> TAKE k \in 1..Len(s)
  <2>1. CASE k < i
    <3>1. k \in 1..(Len(s) - 1) /\ from(k) = k
      BY <1>1, <2>1
    <3> QED
      BY <3>1
  <2>2. CASE k > i
    <3>1. k - 1 \in 1..(Len(s) - 1) /\ from(k - 1) = k
      BY <1>1, <2>2
    <3> QED
      BY <3>1
  <2> QED
    BY <1>1, <2>1, <2>2
<1> HIDE DEF r, from
<1>7. IsInjective(r)
  <2> SUFFICES ASSUME NEW j \in 1..(Len(s) - 1), NEW k \in 1..(Len(s) - 1), r[j] = r[k]
               PROVE  j = k
    BY <1>3, Zenon DEF IsInjective
  <2>1. s[from(j)] = s[from(k)]
    BY <1>2, Zenon
  <2>2. from(j) = from(k)
    BY <1>1, <1>4, <2>1, Zenon DEF IsInjective
  <2> QED
    BY <1>5, <2>2, Zenon
<1>8. ToSet(r) \subseteq ToSet(s) \ {s[i]}
  <2> SUFFICES ASSUME NEW j \in 1..(Len(s) - 1)
               PROVE  r[j] \in ToSet(s) /\ r[j] # s[i]
    BY <1>3, Zenon DEF ToSet
  <2> QED
    BY <1>1, <1>2, <1>4, Zenon DEF ToSet, IsInjective
<1>9. ToSet(s) \ {s[i]} \subseteq ToSet(r)
  <2> SUFFICES ASSUME NEW k \in 1..Len(s), s[k] # s[i]
               PROVE  s[k] \in ToSet(r)
    BY <1>1, Zenon DEF ToSet
  <2>1. PICK j \in 1..(Len(s) - 1) : from(j) = k
    BY <1>6, Zenon
  <2> QED
    BY <1>2, <1>3, <2>1, Zenon DEF ToSet
<1> QED
  BY <1>7, <1>8, <1>9 DEF r

-----------------------------------------------------------------------------
(* QList::removeOne removes the first of the entries, if there is one. *)
LEMMA RemoveFirstIsRemoveAt ==
  ASSUME NEW T, NEW s \in Seq(T), NEW e
  PROVE  \/ e \notin ToSet(s) /\ RemoveFirst(s, e) = s
         \/ \E i \in 1..Len(s) : s[i] = e /\ RemoveFirst(s, e) = RemoveAt(s, i)
<1>1. Len(s) \in Nat /\ DOMAIN s = 1..Len(s)
  BY LenProperties
<1>2. CASE ~ \E i \in 1..Len(s) : s[i] = e
  BY <1>1, <1>2 DEF RemoveFirst, ToSet
<1>3. CASE \E i \in 1..Len(s) : s[i] = e
  <2> DEFINE I == {i \in 1..Len(s) : s[i] = e}
  <2>1. I \in SUBSET Nat /\ I # {}
    BY <1>1, <1>3
  <2>2. Min(I) \in I
    BY <2>1, MinIsMember
  <2>3. RemoveFirst(s, e) = RemoveAt(s, Min(I))
    BY <1>3, <2>1 DEF RemoveFirst, SelectInSeq
  <2> QED
    BY <2>2, <2>3
<1> QED
  BY <1>2, <1>3

(* It returns a list of the same kind. *)
LEMMA RemoveFirstType ==
  ASSUME NEW T, NEW s \in Seq(T), NEW e
  PROVE  RemoveFirst(s, e) \in Seq(T)
BY RemoveFirstIsRemoveAt, RemoveAtProperties

(* Of the empty list there is nothing to remove. *)
LEMMA RemoveFirstOfEmpty ==
  ASSUME NEW e
  PROVE  RemoveFirst(<<>>, e) = <<>>
<1>1. <<>> \in Seq({}) /\ Len(<<>>) = 0
  BY EmptySeq
<1>2. ~\E i \in 1..Len(<<>>) : TRUE
  BY <1>1
<1> QED
  BY <1>1, <1>2, RemoveFirstIsRemoveAt

(* In the same order. *)
LEMMA RemoveFirstKeepsOrder ==
  ASSUME NEW T, NEW s \in Seq(T), NEW e,
         NEW j \in DOMAIN RemoveFirst(s, e), NEW k \in DOMAIN RemoveFirst(s, e), j < k
  PROVE  \E m, n \in DOMAIN s :
           m < n /\ RemoveFirst(s, e)[j] = s[m] /\ RemoveFirst(s, e)[k] = s[n]
BY RemoveFirstIsRemoveAt, RemoveAtKeepsOrder

(* Of a list without repetition, all there is of the entry. *)
LEMMA RemoveFirstInjective ==
  ASSUME NEW T, NEW s \in Seq(T), NEW e, IsInjective(s)
  PROVE  /\ IsInjective(RemoveFirst(s, e))
         /\ ToSet(RemoveFirst(s, e)) = ToSet(s) \ {e}
         /\ \A i \in 1..Len(s) : s[i] = e => RemoveFirst(s, e) = RemoveAt(s, i)
<1>1. DOMAIN s = 1..Len(s)
  BY LenProperties
<1>2. CASE e \notin ToSet(s) /\ RemoveFirst(s, e) = s
  BY <1>1, <1>2 DEF ToSet
<1>3. CASE \E i \in 1..Len(s) : s[i] = e /\ RemoveFirst(s, e) = RemoveAt(s, i)
  <2>1. PICK i \in 1..Len(s) : s[i] = e /\ RemoveFirst(s, e) = RemoveAt(s, i)
    BY <1>3
  <2>2. \A k \in 1..Len(s) : s[k] = e => k = i
    BY <1>1, <2>1 DEF IsInjective
  <2> QED
    BY <2>1, <2>2, RemoveAtInjective
<1> QED
  BY <1>2, <1>3, RemoveFirstIsRemoveAt

-----------------------------------------------------------------------------
(* A new entry at the end of a list without repetition. *)
LEMMA AppendToInjective ==
  ASSUME NEW T, NEW s \in Seq(T), NEW e \in T
  PROVE  /\ ToSet(Append(s, e)) = ToSet(s) \cup {e}
         /\ IsInjective(s) /\ e \notin ToSet(s) => IsInjective(Append(s, e))
<1>1. Len(s) \in Nat /\ DOMAIN s = 1..Len(s)
  BY LenProperties
<1>2. /\ Append(s, e) \in Seq(T) /\ Len(Append(s, e)) = Len(s) + 1
      /\ \A i \in 1..Len(s) : Append(s, e)[i] = s[i]
      /\ Append(s, e)[Len(s) + 1] = e
  BY AppendProperties
<1>3. DOMAIN Append(s, e) = 1..(Len(s) + 1)
  BY <1>2, LenProperties
<1>4. 1..(Len(s) + 1) = (1..Len(s)) \cup {Len(s) + 1}
  BY <1>1
<1>5. ToSet(Append(s, e)) = ToSet(s) \cup {e}
  <2>1. ToSet(Append(s, e)) \subseteq ToSet(s) \cup {e}
    BY <1>1, <1>2, <1>3, <1>4 DEF ToSet
  <2>2. ToSet(s) \subseteq ToSet(Append(s, e))
    BY <1>1, <1>2, <1>3, <1>4 DEF ToSet
  <2>3. e \in ToSet(Append(s, e))
    BY <1>1, <1>2, <1>3, <1>4 DEF ToSet
  <2> QED
    BY <2>1, <2>2, <2>3
<1>6. ASSUME IsInjective(s), e \notin ToSet(s)
      PROVE  IsInjective(Append(s, e))
  BY <1>1, <1>2, <1>3, <1>4, <1>6 DEF IsInjective, ToSet
<1> QED
  BY <1>5, <1>6

(* A new entry at its front. *)
LEMMA PrependToInjective ==
  ASSUME NEW T, NEW s \in Seq(T), NEW e \in T
  PROVE  /\ <<e>> \o s \in Seq(T)
         /\ <<e>> \o s # <<>>
         /\ ToSet(<<e>> \o s) = ToSet(s) \cup {e}
         /\ IsInjective(s) /\ e \notin ToSet(s) => IsInjective(<<e>> \o s)
<1> DEFINE r == <<e>> \o s
<1>1. Len(s) \in Nat /\ DOMAIN s = 1..Len(s)
  BY LenProperties
<1>2. <<e>> \in Seq(T) /\ Len(<<e>>) = 1 /\ <<e>>[1] = e
  OBVIOUS
<1>3. /\ r \in Seq(T) /\ Len(r) = 1 + Len(s)
      /\ \A i \in 1..(1 + Len(s)) : r[i] = IF i <= 1 THEN <<e>>[i] ELSE s[i - 1]
  BY <1>2, ConcatProperties
<1>4. DOMAIN r = 1..(1 + Len(s))
  BY <1>3, LenProperties
<1>5. r # <<>>
  BY <1>1, <1>3, EmptySeq
<1> HIDE DEF r
<1>6. r[1] = e /\ \A i \in 1..Len(s) : r[i + 1] = s[i]
  BY <1>1, <1>2, <1>3
<1>7. \A i \in 1..(1 + Len(s)) : i = 1 \/ \E j \in 1..Len(s) : i = j + 1
  <2> TAKE i \in 1..(1 + Len(s))
  <2>1. i = 1 \/ (i - 1 \in 1..Len(s) /\ i = (i - 1) + 1)
    BY <1>1
  <2> QED
    BY <2>1
<1>8. 1 \in 1..(1 + Len(s)) /\ \A i \in 1..Len(s) : i + 1 \in 1..(1 + Len(s))
  BY <1>1
<1>9. ToSet(r) = ToSet(s) \cup {e}
  <2>1. ToSet(r) \subseteq ToSet(s) \cup {e}
    BY <1>1, <1>4, <1>6, <1>7 DEF ToSet
  <2>2. ToSet(s) \cup {e} \subseteq ToSet(r)
    BY <1>1, <1>4, <1>6, <1>8 DEF ToSet
  <2> QED
    BY <2>1, <2>2
<1>10. ASSUME IsInjective(s), e \notin ToSet(s)
       PROVE  IsInjective(r)
  <2> SUFFICES ASSUME NEW i \in 1..(1 + Len(s)), NEW k \in 1..(1 + Len(s)), r[i] = r[k]
               PROVE  i = k
    BY <1>4 DEF IsInjective
  <2>1. \A j \in 1..Len(s) : s[j] # e
    BY <1>1, <1>10 DEF ToSet
  <2>2. CASE i = 1 \/ k = 1
    BY <1>6, <1>7, <2>1, <2>2
  <2>3. CASE i # 1 /\ k # 1
    <3>1. PICK j \in 1..Len(s) : i = j + 1
      BY <1>7, <2>3
    <3>2. PICK l \in 1..Len(s) : k = l + 1
      BY <1>7, <2>3
    <3> QED
      BY <1>1, <1>6, <1>10, <3>1, <3>2 DEF IsInjective
  <2> QED
    BY <2>2, <2>3
<1> QED
  BY <1>3, <1>5, <1>9, <1>10 DEF r

(* A list of the members of a finite set names each of them once. *)
LEMMA SetToSeqProperties ==
  ASSUME NEW S, IsFiniteSet(S)
  PROVE  /\ SetToSeq(S) \in Seq(S)
         /\ IsInjective(SetToSeq(S))
         /\ ToSet(SetToSeq(S)) = S
<1> DEFINE n == Cardinality(S)
           q == SetToSeq(S)
<1>1. n \in Nat /\ ExistsBijection(1..n, S)
  BY FS_CardinalityType
<1>2. \E f \in [1..n -> S] : IsInjective(f)
  BY <1>1 DEF ExistsBijection, Bijection, Injection
<1>3. q \in [1..n -> S] /\ IsInjective(q)
  BY <1>2 DEF SetToSeq
<1>4. IsFiniteSet(1..n) /\ Cardinality(1..n) = n
  BY <1>1, FS_Interval
<1> HIDE DEF q, n
<1>5. q \in Injection(1..n, S)
  BY <1>3 DEF Injection
<1>6. q \in Surjection(1..n, S)
  BY <1>4, <1>5, FS_Injection DEF n
<1>7. q \in Seq(S)
  BY <1>1, <1>3, SeqDef
<1>8. ToSet(q) = S
  BY <1>3, <1>6 DEF Surjection, ToSet
<1> QED
  BY <1>3, <1>7, <1>8 DEF q

-----------------------------------------------------------------------------
(* Queues.  What joins a queue comes after all that is in it. *)
LEMMA JoinsQueue ==
  ASSUME NEW T, NEW s \in Seq(T), NEW e \in T
  PROVE  /\ Append(s, e) \in Seq(T)
         /\ Len(Append(s, e)) = Len(s) + 1 /\ Len(s) \in Nat
         /\ DOMAIN s = 1..Len(s) /\ DOMAIN Append(s, e) = 1..(Len(s) + 1)
         /\ \A i \in DOMAIN s : i < Len(s) + 1 /\ Append(s, e)[i] = s[i]
         /\ Append(s, e)[Len(s) + 1] = e
         /\ DOMAIN Append(s, e) = DOMAIN s \cup {Len(s) + 1}
<1>1. Len(s) \in Nat /\ DOMAIN s = 1..Len(s)
  BY LenProperties
<1>2. /\ Append(s, e) \in Seq(T) /\ Len(Append(s, e)) = Len(s) + 1
      /\ \A i \in 1..Len(s) : Append(s, e)[i] = s[i]
      /\ Append(s, e)[Len(s) + 1] = e
  BY AppendProperties
<1>3. DOMAIN Append(s, e) = 1..(Len(s) + 1)
  BY <1>2, LenProperties
<1>4. 1..(Len(s) + 1) = (1..Len(s)) \cup {Len(s) + 1}
  BY <1>1
<1> QED
  BY <1>1, <1>2, <1>3, <1>4

(* When the first has left it, everybody moves up by one. *)
LEMMA LeavesQueue ==
  ASSUME NEW T, NEW s \in Seq(T), s # <<>>
  PROVE  /\ Head(s) \in T /\ Head(s) = s[1] /\ 1 \in DOMAIN s
         /\ Tail(s) \in Seq(T) /\ Len(Tail(s)) = Len(s) - 1 /\ Len(s) \in Nat \ {0}
         /\ DOMAIN s = 1..Len(s) /\ DOMAIN Tail(s) = 1..(Len(s) - 1)
         /\ \A i \in DOMAIN Tail(s) : i + 1 \in DOMAIN s /\ Tail(s)[i] = s[i + 1]
         /\ \A i \in DOMAIN s : i = 1 \/ (i - 1 \in DOMAIN Tail(s) /\ Tail(s)[i - 1] = s[i])
<1>1. Len(s) \in Nat \ {0} /\ DOMAIN s = 1..Len(s)
  BY LenProperties, EmptySeq
<1>2. /\ Head(s) \in T /\ Tail(s) \in Seq(T) /\ Len(Tail(s)) = Len(s) - 1
      /\ \A i \in 1..Len(Tail(s)) : Tail(s)[i] = s[i + 1]
  BY HeadTailProperties
<1>3. DOMAIN Tail(s) = 1..(Len(s) - 1)
  BY <1>2, LenProperties
<1>4. Head(s) = s[1]
  OBVIOUS
<1>5. \A i \in 1..(Len(s) - 1) : i + 1 \in 1..Len(s) /\ Tail(s)[i] = s[i + 1]
  BY <1>1, <1>2
<1>6. ASSUME NEW i \in 1..Len(s), i # 1
      PROVE  i - 1 \in 1..(Len(s) - 1) /\ Tail(s)[i - 1] = s[i]
  <2>1. i - 1 \in 1..(Len(s) - 1) /\ (i - 1) + 1 = i
    BY <1>1, <1>6
  <2> QED
    BY <1>5, <2>1
<1> QED
  BY <1>1, <1>2, <1>3, <1>4, <1>5, <1>6

(* One sequence joins another: each entry is an entry of one of them, in the same order. *)
LEMMA JoinsAll ==
  ASSUME NEW T, NEW s \in Seq(T), NEW t \in Seq(T)
  PROVE  /\ s \o t \in Seq(T) /\ Len(s) \in Nat /\ Len(s \o t) = Len(s) + Len(t)
         /\ DOMAIN s = 1..Len(s) /\ DOMAIN t = 1..Len(t)
         /\ \A i \in DOMAIN s : i \in DOMAIN (s \o t) /\ (s \o t)[i] = s[i]
         /\ \A j \in DOMAIN t :
              /\ Len(s) + j \in DOMAIN (s \o t) /\ (s \o t)[Len(s) + j] = t[j]
              /\ \A i \in DOMAIN s : i < Len(s) + j
         /\ \A k \in DOMAIN (s \o t) :
              \/ k \in DOMAIN s
              \/ \E j \in DOMAIN t : k = Len(s) + j
         /\ ToSet(s \o t) = ToSet(s) \cup ToSet(t)
<1>1. /\ s \o t \in Seq(T) /\ Len(s) \in Nat /\ Len(t) \in Nat /\ Len(s \o t) = Len(s) + Len(t)
      /\ \A i \in 1..(Len(s) + Len(t)) :
           (s \o t)[i] = IF i <= Len(s) THEN s[i] ELSE t[i - Len(s)]
  BY ConcatProperties, LenProperties
<1>2. DOMAIN s = 1..Len(s) /\ DOMAIN t = 1..Len(t) /\ DOMAIN (s \o t) = 1..(Len(s) + Len(t))
  BY <1>1, LenProperties
<1>3. \A i \in DOMAIN s : i \in DOMAIN (s \o t) /\ (s \o t)[i] = s[i]
  BY <1>1, <1>2
<1>4. ASSUME NEW j \in DOMAIN t
      PROVE  /\ Len(s) + j \in DOMAIN (s \o t) /\ (s \o t)[Len(s) + j] = t[j]
             /\ \A i \in DOMAIN s : i < Len(s) + j
  <2>1. /\ j \in Nat /\ Len(s) + j \in 1..(Len(s) + Len(t))
        /\ ~(Len(s) + j <= Len(s)) /\ (Len(s) + j) - Len(s) = j
    BY <1>1, <1>2
  <2> QED
    BY <1>1, <1>2, <2>1
<1>5. ASSUME NEW k \in DOMAIN (s \o t), k \notin DOMAIN s PROVE \E j \in DOMAIN t : k = Len(s) + j
  <2>1. k - Len(s) \in 1..Len(t) /\ k = Len(s) + (k - Len(s))
    BY <1>1, <1>2, <1>5
  <2> QED
    BY <1>2, <2>1
<1>6. ToSet(s \o t) = ToSet(s) \cup ToSet(t)
  <2>1. ASSUME NEW k \in DOMAIN (s \o t) PROVE (s \o t)[k] \in ToSet(s) \cup ToSet(t)
    BY <1>3, <1>4, <1>5, <2>1 DEF ToSet
  <2>2. ASSUME NEW i \in DOMAIN s PROVE s[i] \in ToSet(s \o t)
    BY <1>3, <2>2 DEF ToSet
  <2>3. ASSUME NEW j \in DOMAIN t PROVE t[j] \in ToSet(s \o t)
    BY <1>4, <2>3 DEF ToSet
  <2> QED
    BY <2>1, <2>2, <2>3 DEF ToSet
<1> QED
  BY <1>1, <1>2, <1>3, <1>4, <1>5, <1>6

(* The short of it. *)
LEMMA JoinsSet ==
  ASSUME NEW T, NEW s \in Seq(T), NEW t \in Seq(T)
  PROVE  s \o t \in Seq(T) /\ ToSet(s \o t) = ToSet(s) \cup ToSet(t)
BY JoinsAll

(* The entries of the shortest lists. *)
LEMMA ShortLists ==
  /\ ToSet(<<>>) = {}
  /\ \A e : ToSet(<<e>>) = {e} /\ Len(<<e>>) = 1 /\ \A T : e \in T => <<e>> \in Seq(T)
BY EmptySeq DEF ToSet

===============================================================================
