---------------------------- MODULE DataLemmas -----------------------------
(***************************************************************************)
(* Facts about the data the models are built from: the lists the kernel's  *)
(* doubly linked lists stand for (what insertion at the head or at a place *)
(* and removal of the head or of an element do to the elements), least     *)
(* numbers, division, sums over the orders, and the rings of pointers      *)
(* themselves.                                                             *)
(***************************************************************************)
EXTENDS Links, Integers, Sequences, SequencesExt, SequenceTheorems, FiniteSetTheorems,
        WellFoundedInduction, TLAPS

(* list_insert_after(new, head): the list gains the new element only.      *)
LEMMA ConsElements ==
    ASSUME NEW S, NEW s \in Seq(S), IsInjective(s),
           NEW e \in S, e \notin Range(s)
    PROVE  /\ Cons(e, s) \in Seq(S)
           /\ IsInjective(Cons(e, s))
           /\ Range(Cons(e, s)) = Range(s) \cup {e}
           /\ Len(Cons(e, s)) = Len(s) + 1
<1> DEFINE t == Cons(e, s)
<1>1. <<e>> \in Seq(S) /\ Len(<<e>>) = 1 /\ <<e>>[1] = e
  OBVIOUS
<1>2. /\ t \in Seq(S)
      /\ Len(t) = Len(s) + 1
      /\ \A i \in 1 .. Len(s) + 1 : t[i] = IF i <= 1 THEN e ELSE s[i - 1]
  <2>1. t = <<e>> \o s
    BY DEF Cons
  <2>2. /\ <<e>> \o s \in Seq(S)
        /\ Len(<<e>> \o s) = Len(<<e>>) + Len(s)
        /\ \A i \in 1 .. Len(<<e>>) + Len(s) :
              (<<e>> \o s)[i] = IF i <= Len(<<e>>) THEN <<e>>[i] ELSE s[i - Len(<<e>>)]
    BY <1>1, ConcatProperties
  <2>3. Len(s) \in Nat
    BY LenProperties
  <2> HIDE DEF t
  <2> QED
    BY <1>1, <2>1, <2>2, <2>3
<1> HIDE DEF t
<1>3. Range(s) = {s[i] : i \in 1 .. Len(s)} /\ Range(t) = {t[i] : i \in 1 .. Len(t)}
  BY <1>2, RangeEquality
<1>4. Len(s) \in Nat /\ DOMAIN s = 1 .. Len(s) /\ DOMAIN t = 1 .. Len(t)
  BY <1>2, LenProperties
<1>5. IsInjective(t)
  <2>1. \A i, j \in 1 .. Len(s) : s[i] = s[j] => i = j
    BY <1>4 DEF IsInjective
  <2>2. \A i \in 1 .. Len(s) : s[i] # e
    BY <1>3
  <2>3. ASSUME NEW i \in 1 .. Len(t), NEW j \in 1 .. Len(t), t[i] = t[j]
        PROVE  i = j
    <3>1. CASE i = 1 \/ j = 1
      BY <1>2, <1>4, <2>2, <2>3, <3>1
    <3>2. CASE i > 1 /\ j > 1
      <4>1. i - 1 \in 1 .. Len(s) /\ j - 1 \in 1 .. Len(s) /\ s[i - 1] = s[j - 1]
        BY <1>2, <1>4, <2>3, <3>2
      <4> QED
        BY <2>1, <4>1
    <3> QED
      BY <1>4, <3>1, <3>2
  <2> QED
    BY <1>4, <2>3 DEF IsInjective
<1>6. Range(t) = Range(s) \cup {e}
  <2>1. ASSUME NEW x \in Range(t) PROVE x \in Range(s) \cup {e}
    BY <1>2, <1>3, <1>4
  <2>2. e \in Range(t)
    BY <1>2, <1>3, <1>4
  <2>3. ASSUME NEW x \in Range(s) PROVE x \in Range(t)
    <3>1. PICK i \in 1 .. Len(s) : x = s[i]
      BY <1>3
    <3>2. i + 1 \in 1 .. Len(t) /\ t[i + 1] = s[i]
      BY <1>2, <1>4
    <3> QED
      BY <1>3, <3>1, <3>2
  <2> QED
    BY <2>1, <2>2, <2>3
<1> QED
  BY <1>2, <1>5, <1>6 DEF t

(* Taking the head of a list: the list loses that element only.            *)
LEMMA TailElements ==
    ASSUME NEW S, NEW s \in Seq(S), IsInjective(s), s # <<>>
    PROVE  /\ Head(s) \in S
           /\ Head(s) \in Range(s)
           /\ Tail(s) \in Seq(S)
           /\ IsInjective(Tail(s))
           /\ Range(Tail(s)) = Range(s) \ {Head(s)}
           /\ Len(Tail(s)) = Len(s) - 1
<1> DEFINE t == Tail(s)
<1>1. /\ Head(s) \in S
      /\ t \in Seq(S)
      /\ Len(t) = Len(s) - 1
      /\ \A i \in 1 .. Len(t) : t[i] = s[i + 1]
  BY HeadTailProperties
<1>2. Head(s) = s[1]
  OBVIOUS
<1> HIDE DEF t
<1>3. Range(s) = {s[i] : i \in 1 .. Len(s)} /\ Range(t) = {t[i] : i \in 1 .. Len(t)}
  BY <1>1, RangeEquality
<1>4. /\ Len(s) \in Nat \ {0}
      /\ DOMAIN s = 1 .. Len(s)
      /\ DOMAIN t = 1 .. Len(t)
  BY <1>1, LenProperties, EmptySeq
<1>5. \A i, j \in 1 .. Len(s) : s[i] = s[j] => i = j
  BY <1>4 DEF IsInjective
<1>6. \A i, j \in 1 .. Len(t) : t[i] = t[j] => i = j
  BY <1>1, <1>4, <1>5
<1>7. IsInjective(t)
  BY <1>4, <1>6 DEF IsInjective
<1>8. Head(s) \in Range(s)
  BY <1>2, <1>3, <1>4
<1>9. Range(t) = Range(s) \ {Head(s)}
  <2>1. ASSUME NEW x \in Range(t) PROVE x \in Range(s) /\ x # Head(s)
    <3>1. PICK i \in 1 .. Len(t) : x = t[i]
      BY <1>3
    <3>2. i + 1 \in 1 .. Len(s) /\ x = s[i + 1] /\ i + 1 # 1
      BY <3>1, <1>1, <1>4
    <3> QED
      BY <3>2, <1>2, <1>3, <1>4, <1>5
  <2>2. ASSUME NEW x \in Range(s), x # Head(s) PROVE x \in Range(t)
    <3>1. PICK i \in 1 .. Len(s) : x = s[i]
      BY <1>3
    <3>2. i - 1 \in 1 .. Len(t) /\ t[i - 1] = s[i]
      BY <2>2, <3>1, <1>1, <1>2, <1>4
    <3> QED
      BY <3>1, <3>2, <1>3
  <2> QED
    BY <2>1, <2>2
<1> QED
  BY <1>1, <1>7, <1>8, <1>9 DEF t

(* An element taken out at its place.                                      *)
LEMMA RemoveAtPlace ==
    ASSUME NEW S, NEW s \in Seq(S), NEW m \in 1 .. Len(s)
    PROVE  /\ RemoveAt(s, m) \in Seq(S)
           /\ Len(RemoveAt(s, m)) = Len(s) - 1
           /\ \A i \in 1 .. Len(s) - 1 :
                 RemoveAt(s, m)[i] = IF i < m THEN s[i] ELSE s[i + 1]
<1> DEFINE a == SubSeq(s, 1, m - 1)
           b == SubSeq(s, m + 1, Len(s))
           t == a \o b
<1>1. Len(s) \in Nat /\ \A i \in 1 .. Len(s) : s[i] \in S
  BY LenProperties, ElementOfSeq
<1>3. m \in 1 .. Len(s)
  OBVIOUS
<1>2. RemoveAt(s, m) = t
  BY DEF RemoveAt
<1>4. /\ a \in Seq(S) /\ Len(a) = m - 1
      /\ \A i \in 1 .. m - 1 : a[i] = s[i]
  <2>1. \A i \in 1 .. m - 1 : s[i] \in S
    BY <1>1
  <2>2. /\ SubSeq(s, 1, m - 1) \in Seq(S)
        /\ Len(SubSeq(s, 1, m - 1)) = IF 1 <= m - 1 THEN (m - 1) - 1 + 1 ELSE 0
        /\ \A i \in 1 .. (m - 1) - 1 + 1 : SubSeq(s, 1, m - 1)[i] = s[1 + i - 1]
    BY <1>1, <1>3, <2>1, SubSeqProperties
  <2> QED
    BY <1>1, <1>3, <2>2
<1>5. /\ b \in Seq(S) /\ Len(b) = Len(s) - m
      /\ \A i \in 1 .. Len(s) - m : b[i] = s[m + i]
  <2>1. \A i \in m + 1 .. Len(s) : s[i] \in S
    BY <1>1
  <2>2. /\ SubSeq(s, m + 1, Len(s)) \in Seq(S)
        /\ Len(SubSeq(s, m + 1, Len(s)))
             = IF m + 1 <= Len(s) THEN Len(s) - (m + 1) + 1 ELSE 0
        /\ \A i \in 1 .. Len(s) - (m + 1) + 1 :
              SubSeq(s, m + 1, Len(s))[i] = s[(m + 1) + i - 1]
    BY <1>1, <1>3, <2>1, SubSeqProperties
  <2>3. Len(s) - (m + 1) + 1 = Len(s) - m /\ Len(s) - m \in Nat
    BY <1>1, <1>3
  <2>4. Len(b) = Len(s) - m
    <3>1. CASE m + 1 <= Len(s)
      BY <2>2, <2>3, <3>1
    <3>2. CASE ~(m + 1 <= Len(s))
      <4>1. m = Len(s)
        BY <1>1, <1>3, <3>2
      <4>2. Len(s) - m = 0
        BY <1>1, <4>1
      <4> QED
        BY <2>2, <3>2, <4>2
    <3> QED
      BY <3>1, <3>2
  <2>5. ASSUME NEW i \in 1 .. Len(s) - m PROVE b[i] = s[m + i]
    <3>1. b[i] = s[(m + 1) + i - 1]
      BY <2>2, <2>3
    <3>2. (m + 1) + i - 1 = m + i
      BY <1>3, <2>3
    <3> QED
      BY <3>1, <3>2
  <2> QED
    BY <2>2, <2>4, <2>5
<1> HIDE DEF a, b
<1>6. /\ t \in Seq(S)
       /\ Len(t) = Len(s) - 1
       /\ \A i \in 1 .. Len(s) - 1 : t[i] = IF i < m THEN s[i] ELSE s[i + 1]
  <2>1. /\ a \o b \in Seq(S)
        /\ Len(a \o b) = Len(a) + Len(b)
        /\ \A i \in 1 .. Len(a) + Len(b) :
              (a \o b)[i] = IF i <= Len(a) THEN a[i] ELSE b[i - Len(a)]
    BY <1>4, <1>5, ConcatProperties
  <2>2. Len(a) + Len(b) = Len(s) - 1
    BY <1>1, <1>3, <1>4, <1>5
  <2>3. ASSUME NEW i \in 1 .. Len(s) - 1, i < m PROVE t[i] = s[i]
    <3>1. i \in 1 .. m - 1
      BY <1>3, <2>3
    <3>2. t[i] = a[i]
      BY <1>4, <2>1, <2>2, <3>1
    <3> QED
      BY <1>4, <3>1, <3>2
  <2>4. ASSUME NEW i \in 1 .. Len(s) - 1, ~(i < m) PROVE t[i] = s[i + 1]
    <3>1. i - (m - 1) \in 1 .. Len(s) - m /\ ~(i <= m - 1)
      BY <1>1, <1>3, <2>4
    <3>2. t[i] = b[i - (m - 1)]
      BY <1>4, <2>1, <2>2, <3>1
    <3>3. b[i - (m - 1)] = s[m + (i - (m - 1))]
      BY <1>5, <3>1
    <3>4. m + (i - (m - 1)) = i + 1
      BY <1>3
    <3> QED
      BY <3>2, <3>3, <3>4
  <2> QED
    BY <2>1, <2>2, <2>3, <2>4
<1> QED
  BY <1>2, <1>6

(* list_remove of an element on the list: the list loses that element only. *)
LEMMA RemoveElements ==
    ASSUME NEW S, NEW s \in Seq(S), IsInjective(s), NEW e \in Range(s)
    PROVE  /\ RemoveFirst(s, e) \in Seq(S)
           /\ IsInjective(RemoveFirst(s, e))
           /\ Range(RemoveFirst(s, e)) = Range(s) \ {e}
           /\ Len(RemoveFirst(s, e)) = Len(s) - 1
           /\ \E m \in 1 .. Len(s) :
                 /\ s[m] = e
                 /\ \A i \in 1 .. Len(s) - 1 :
                       RemoveFirst(s, e)[i] = IF i < m THEN s[i] ELSE s[i + 1]
<1>1. /\ Len(s) \in Nat
      /\ DOMAIN s = 1 .. Len(s)
      /\ Range(s) = {s[i] : i \in 1 .. Len(s)}
      /\ \A i \in 1 .. Len(s) : s[i] \in S
  BY LenProperties, RangeEquality, ElementOfSeq
<1>2. \A i, j \in 1 .. Len(s) : s[i] = s[j] => i = j
  BY <1>1 DEF IsInjective
<1>3. PICK m \in 1 .. Len(s) : s[m] = e
  BY <1>1
<1>4. {i \in 1 .. Len(s) : s[i] = e} = {m}
  BY <1>2, <1>3
<1>5. Min({m}) = m
  <2>1. \E y \in {m} : \A z \in {m} : y <= z
    BY <1>1, <1>3
  <2> QED
    BY <1>1, <1>3 DEF Min
<1>6. SelectInSeq(s, LAMBDA v : v = e) = m
  BY <1>4, <1>5 DEF SelectInSeq
<1> DEFINE t == RemoveFirst(s, e)
<1>7. t = RemoveAt(s, m)
  BY <1>3, <1>6 DEF RemoveFirst
<1>8. /\ t \in Seq(S)
      /\ Len(t) = Len(s) - 1
      /\ \A i \in 1 .. Len(s) - 1 : t[i] = IF i < m THEN s[i] ELSE s[i + 1]
  BY <1>3, <1>7, RemoveAtPlace
<1> HIDE DEF t
<1>9. DOMAIN t = 1 .. Len(t) /\ Range(t) = {t[i] : i \in 1 .. Len(t)}
  BY <1>8, LenProperties, RangeEquality
<1>10. \A i, j \in 1 .. Len(t) : t[i] = t[j] => i = j
  BY <1>1, <1>2, <1>3, <1>8
<1>11. IsInjective(t)
  BY <1>9, <1>10 DEF IsInjective
<1>12. Range(t) = Range(s) \ {e}
  <2>1. ASSUME NEW x \in Range(t) PROVE x \in Range(s) /\ x # e
    <3>1. PICK i \in 1 .. Len(t) : x = t[i]
      BY <1>9
    <3>2. PICK j \in 1 .. Len(s) : x = s[j] /\ j # m
      BY <3>1, <1>1, <1>3, <1>8
    <3> QED
      BY <3>2, <1>1, <1>2, <1>3
  <2>2. ASSUME NEW x \in Range(s), x # e PROVE x \in Range(t)
    <3>1. PICK i \in 1 .. Len(s) : x = s[i]
      BY <1>1
    <3>2. CASE i < m
      BY <3>1, <3>2, <1>1, <1>3, <1>8, <1>9
    <3>3. CASE i > m
      <4>1. i - 1 \in 1 .. Len(t) /\ t[i - 1] = s[i]
        BY <3>3, <1>1, <1>3, <1>8
      <4> QED
        BY <4>1, <3>1, <1>9
    <3>4. i # m
      BY <2>2, <3>1, <1>3
    <3> QED
      BY <3>2, <3>3, <3>4, <1>1, <1>3
  <2> QED
    BY <2>1, <2>2
<1> QED
  BY <1>3, <1>8, <1>11, <1>12 DEF t

(* The elements from place p + 1 to place q - 1 replaced by one.           *)
Spliced(s, p, e, q) == SubSeq(s, 1, p) \o <<e>> \o SubSeq(s, q, Len(s))

LEMMA Splice ==
    ASSUME NEW S, NEW s \in Seq(S), NEW p \in Nat, NEW q \in Nat, p < q, q <= Len(s) + 1,
           NEW e \in S
    PROVE  /\ Spliced(s, p, e, q) \in Seq(S)
           /\ Len(Spliced(s, p, e, q)) = p + 1 + (Len(s) - q + 1)
           /\ \A i \in 1 .. p : Spliced(s, p, e, q)[i] = s[i]
           /\ Spliced(s, p, e, q)[p + 1] = e
           /\ \A i \in p + 2 .. p + 1 + (Len(s) - q + 1) :
                 Spliced(s, p, e, q)[i] = s[i - p - 2 + q]
<1> DEFINE t == Spliced(s, p, e, q)
<1> DEFINE a == SubSeq(s, 1, p)
           b == SubSeq(s, q, Len(s))
           c == a \o <<e>>
           n == Len(s) - q + 1
<1>1. Len(s) \in Nat /\ p \in Nat /\ q \in Nat /\ n \in Nat
  BY LenProperties
<1>2. \A i \in 1 .. Len(s) : s[i] \in S
  BY ElementOfSeq
<1>3. /\ a \in Seq(S) /\ Len(a) = p
      /\ \A i \in 1 .. p : a[i] = s[i]
  <2>1. \A i \in 1 .. p : s[i] \in S
    BY <1>1, <1>2
  <2>2. /\ SubSeq(s, 1, p) \in Seq(S)
        /\ Len(SubSeq(s, 1, p)) = IF 1 <= p THEN p - 1 + 1 ELSE 0
        /\ \A i \in 1 .. p - 1 + 1 : SubSeq(s, 1, p)[i] = s[1 + i - 1]
    BY <1>1, <2>1, SubSeqProperties
  <2> QED
    BY <1>1, <2>2
<1>4. /\ b \in Seq(S) /\ Len(b) = n
      /\ \A i \in 1 .. n : b[i] = s[q + i - 1]
  <2>1. \A i \in q .. Len(s) : s[i] \in S
    BY <1>1, <1>2
  <2>2. /\ SubSeq(s, q, Len(s)) \in Seq(S)
        /\ Len(SubSeq(s, q, Len(s))) = IF q <= Len(s) THEN Len(s) - q + 1 ELSE 0
        /\ \A i \in 1 .. Len(s) - q + 1 : SubSeq(s, q, Len(s))[i] = s[q + i - 1]
    BY <1>1, <2>1, SubSeqProperties
  <2> QED
    BY <1>1, <2>2
<1>5. <<e>> \in Seq(S) /\ Len(<<e>>) = 1 /\ <<e>>[1] = e
  OBVIOUS
<1> HIDE DEF a, b
<1>6. /\ c \in Seq(S) /\ Len(c) = p + 1
      /\ \A i \in 1 .. p : c[i] = s[i]
      /\ c[p + 1] = e
  <2>1. /\ a \o <<e>> \in Seq(S)
        /\ Len(a \o <<e>>) = Len(a) + Len(<<e>>)
        /\ \A i \in 1 .. Len(a) + Len(<<e>>) :
              (a \o <<e>>)[i] = IF i <= Len(a) THEN a[i] ELSE <<e>>[i - Len(a)]
    BY <1>3, <1>5, ConcatProperties
  <2> QED
    BY <1>1, <1>3, <1>5, <2>1
<1> HIDE DEF c
<1>7. t = c \o b
  BY DEF a, b, c, Spliced
<1> HIDE DEF t
<1> HIDE DEF n
<1>8. /\ t \in Seq(S)
      /\ Len(t) = p + 1 + n
      /\ \A i \in 1 .. p + 1 + n : t[i] = IF i <= p + 1 THEN c[i] ELSE b[i - (p + 1)]
  <2>1. /\ c \o b \in Seq(S)
        /\ Len(c \o b) = Len(c) + Len(b)
        /\ \A i \in 1 .. Len(c) + Len(b) :
              (c \o b)[i] = IF i <= Len(c) THEN c[i] ELSE b[i - Len(c)]
    BY <1>4, <1>6, ConcatProperties
  <2> QED
    BY <1>4, <1>6, <1>7, <2>1
<1>9. Len(t) = p + 1 + n
  BY <1>8
<1>10. (\A i \in 1 .. p : t[i] = s[i]) /\ t[p + 1] = e
  <2>1. \A i \in 1 .. p + 1 : t[i] = c[i]
    BY <1>1, <1>8
  <2> QED
    BY <1>1, <1>6, <2>1
<1>11. ASSUME NEW i \in p + 2 .. p + 1 + n PROVE t[i] = s[i - p - 2 + q]
  <2>1. i - (p + 1) \in 1 .. n /\ ~(i <= p + 1) /\ i \in 1 .. p + 1 + n
    BY <1>1, <1>9
  <2>2. t[i] = b[i - (p + 1)]
    BY <1>8, <2>1
  <2>3. q + (i - (p + 1)) - 1 = i - p - 2 + q
    BY <1>1
  <2> QED
    BY <1>4, <2>1, <2>2, <2>3
<1> QED
  BY <1>8, <1>9, <1>10, <1>11 DEF n, t

(* list_insert_before: the list gains the new element, at its place.       *)
LEMMA InsertElements ==
    ASSUME NEW S, NEW s \in Seq(S), NEW m \in 1 .. Len(s) + 1, NEW e \in S
    PROVE  /\ InsertAt(s, m, e) \in Seq(S)
           /\ Len(InsertAt(s, m, e)) = Len(s) + 1
           /\ Range(InsertAt(s, m, e)) = Range(s) \cup {e}
           /\ \A i \in 1 .. Len(s) + 1 :
                 InsertAt(s, m, e)[i]
                   = IF i < m THEN s[i] ELSE IF i = m THEN e ELSE s[i - 1]
<1>1. /\ Len(s) \in Nat
      /\ DOMAIN s = 1 .. Len(s)
      /\ Range(s) = {s[i] : i \in 1 .. Len(s)}
      /\ \A i \in 1 .. Len(s) : s[i] \in S
  BY LenProperties, RangeEquality, ElementOfSeq
<1> DEFINE t == InsertAt(s, m, e)
<1>2. t = Spliced(s, m - 1, e, m)
  BY DEF InsertAt, Spliced
<1> HIDE DEF t
<1>4. PICK p \in 0 .. Len(s) : p = m - 1 /\ m \in p + 1 .. Len(s) + 1
  BY <1>1
<1>5. t = Spliced(s, p, e, m)
  BY <1>2, <1>4
<1>6. /\ t \in Seq(S)
      /\ Len(t) = p + 1 + (Len(s) - m + 1)
      /\ \A i \in 1 .. p : t[i] = s[i]
      /\ t[p + 1] = e
      /\ \A i \in p + 2 .. p + 1 + (Len(s) - m + 1) : t[i] = s[i - p - 2 + m]
  <2>1. m \in Nat /\ p \in Nat /\ p < m /\ m <= Len(s) + 1
    BY <1>1, <1>4
  <2>2. /\ Spliced(s, p, e, m) \in Seq(S)
        /\ Len(Spliced(s, p, e, m)) = p + 1 + (Len(s) - m + 1)
        /\ \A i \in 1 .. p : Spliced(s, p, e, m)[i] = s[i]
        /\ Spliced(s, p, e, m)[p + 1] = e
        /\ \A i \in p + 2 .. p + 1 + (Len(s) - m + 1) :
              Spliced(s, p, e, m)[i] = s[i - p - 2 + m]
    BY <2>1, Splice
  <2> QED
    BY <1>5, <2>2
<1>7. /\ t \in Seq(S)
      /\ Len(t) = Len(s) + 1
      /\ \A i \in 1 .. Len(s) + 1 :
            t[i] = IF i < m THEN s[i] ELSE IF i = m THEN e ELSE s[i - 1]
  <2>1. Len(t) = Len(s) + 1 /\ p + 1 = m
    BY <1>1, <1>4, <1>6
  <2>2. ASSUME NEW i \in 1 .. Len(s) + 1, i < m PROVE t[i] = s[i]
    <3>1. i \in 1 .. p
      BY <1>1, <1>4, <2>2
    <3> QED
      BY <1>6, <3>1
  <2>3. t[m] = e
    BY <1>6, <2>1
  <2>4. ASSUME NEW i \in 1 .. Len(s) + 1, i > m PROVE t[i] = s[i - 1]
    <3>1. i \in p + 2 .. p + 1 + (Len(s) - m + 1) /\ i - p - 2 + m = i - 1
      BY <1>1, <1>4, <2>1, <2>4
    <3> QED
      BY <1>6, <3>1
  <2>5. \A i \in 1 .. Len(s) + 1 : i < m \/ i = m \/ i > m
    OBVIOUS
  <2> QED
    BY <1>6, <2>1, <2>2, <2>3, <2>4, <2>5
<1>8. Range(t) = {t[i] : i \in 1 .. Len(t)}
  BY <1>7, RangeEquality
<1>9. Range(t) = Range(s) \cup {e}
  <2>1. ASSUME NEW x \in Range(t) PROVE x \in Range(s) \cup {e}
    <3>1. PICK i \in 1 .. Len(s) + 1 : x = t[i]
      BY <1>7, <1>8
    <3>2. CASE i < m
      <4>1. i \in 1 .. Len(s) /\ x = s[i]
        BY <1>1, <1>7, <3>1, <3>2
      <4> QED
        BY <1>1, <4>1
    <3>3. CASE i = m
      BY <1>1, <1>7, <3>1, <3>3
    <3>4. CASE i > m
      <4>1. i - 1 \in 1 .. Len(s) /\ x = s[i - 1]
        BY <1>1, <1>7, <3>1, <3>4
      <4> QED
        BY <1>1, <4>1
    <3> QED
      BY <1>1, <3>1, <3>2, <3>3, <3>4
  <2>2. e \in Range(t)
    BY <1>1, <1>7, <1>8
  <2>3. ASSUME NEW x \in Range(s) PROVE x \in Range(t)
    <3>1. PICK i \in 1 .. Len(s) : x = s[i]
      BY <1>1
    <3>2. CASE i < m
      BY <1>1, <1>7, <1>8, <3>1, <3>2
    <3>3. CASE ~(i < m)
      <4>1. i + 1 \in 1 .. Len(s) + 1 /\ t[i + 1] = s[i]
        BY <1>1, <1>7, <3>3
      <4> QED
        BY <1>7, <1>8, <3>1, <4>1
    <3> QED
      BY <3>2, <3>3
  <2> QED
    BY <2>1, <2>2, <2>3
<1> QED
  BY <1>7, <1>9 DEF t

(* It stays a list of distinct elements.                                   *)
LEMMA InsertInjective ==
    ASSUME NEW S, NEW s \in Seq(S), IsInjective(s), NEW m \in 1 .. Len(s) + 1,
           NEW e \in S, e \notin Range(s)
    PROVE  IsInjective(InsertAt(s, m, e))
<1> DEFINE t == InsertAt(s, m, e)
<1>1. /\ t \in Seq(S) /\ Len(t) = Len(s) + 1
      /\ \A i \in 1 .. Len(s) + 1 :
            t[i] = IF i < m THEN s[i] ELSE IF i = m THEN e ELSE s[i - 1]
  BY InsertElements
<1>2. /\ Len(s) \in Nat /\ Range(s) = {s[i] : i \in 1 .. Len(s)}
      /\ \A i, j \in 1 .. Len(s) : s[i] = s[j] => i = j
  BY LenProperties, RangeEquality DEF IsInjective
<1> HIDE DEF t
<1>3. DOMAIN t = 1 .. Len(s) + 1
  BY <1>1, LenProperties
<1>4. \A i \in 1 .. Len(s) + 1 : /\ i < m => i \in 1 .. Len(s)
                                 /\ i > m => i - 1 \in 1 .. Len(s)
  BY <1>2
<1>5. ASSUME NEW i \in 1 .. Len(s) + 1, NEW j \in 1 .. Len(s) + 1, i < j
      PROVE  t[i] # t[j]
  <2>1. CASE j < m
    <3>1. i < m /\ t[i] = s[i] /\ t[j] = s[j]
      BY <1>1, <1>5, <2>1
    <3> QED
      BY <1>2, <1>4, <1>5, <2>1, <3>1
  <2>2. CASE j = m
    <3>1. i < m /\ t[i] = s[i] /\ t[j] = e
      BY <1>1, <1>5, <2>2
    <3> QED
      BY <1>2, <1>4, <3>1
  <2>3. CASE j > m
    <3>1. ~(j < m) /\ j # m /\ t[j] = s[j - 1] /\ j - 1 \in 1 .. Len(s)
      BY <1>1, <1>4, <2>3
    <3>2. CASE i < m
      <4>1. t[i] = s[i] /\ i \in 1 .. Len(s) /\ i # j - 1
        BY <1>1, <1>4, <3>2, <2>3
      <4> QED
        BY <1>2, <3>1, <4>1
    <3>3. CASE i = m
      BY <1>1, <1>2, <3>1, <3>3
    <3>4. CASE i > m
      <4>1. ~(i < m) /\ i # m /\ t[i] = s[i - 1] /\ i - 1 \in 1 .. Len(s) /\ i - 1 # j - 1
        BY <1>1, <1>4, <1>5, <3>4
      <4> QED
        BY <1>2, <3>1, <4>1
    <3> QED
      BY <3>2, <3>3, <3>4
  <2> QED
    BY <2>1, <2>2, <2>3
<1>6. \A i, j \in 1 .. Len(s) + 1 : i < j \/ j < i \/ i = j
  BY <1>2
<1> QED
  BY <1>3, <1>5, <1>6 DEF IsInjective, t

(* A list of distinct members of a finite set is no longer than the set.   *)
LEMMA ListIsShort ==
    ASSUME NEW S, IsFiniteSet(S), NEW s \in Seq(S), IsInjective(s)
    PROVE  Len(s) <= Cardinality(S) /\ Cardinality(S) \in Nat /\ Len(s) \in Nat
<1>1. Len(s) \in Nat /\ s \in [1 .. Len(s) -> S] /\ DOMAIN s = 1 .. Len(s)
  BY LenProperties, ElementOfSeq
<1>2. s \in Injection(1 .. Len(s), S)
  BY <1>1 DEF Injection, IsInjective
<1>3. Cardinality(1 .. Len(s)) = Len(s)
  BY <1>1, FS_Interval
<1> QED
  BY <1>1, <1>2, <1>3, FS_Injection, FS_CardinalityType

(* A set of numbers has a least one: induction over data that needs no      *)
(* operator as a parameter.                                                 *)
LEMMA NatMin ==
    ASSUME NEW T \in SUBSET Nat, T # {}
    PROVE  \E m \in T : \A k \in T : m <= k
<1> DEFINE R == OpToRel(<, Nat)
<1>1. IsWellFoundedOn(R, Nat)
  BY NatLessThanWellFounded
<1>2. \A x, y \in Nat : <<y, x>> \in R <=> y < x
  BY DEF OpToRel
<1> HIDE DEF R
<1>3. PICK m \in T : \A y \in T : ~ (<<y, m>> \in R)
  BY <1>1, WFMin
<1>4. ASSUME NEW k \in T PROVE m <= k
  <2>1. m \in Nat /\ k \in Nat /\ ~(<<k, m>> \in R)
    BY <1>3
  <2>2. ~(k < m)
    BY <1>2, <2>1
  <2> QED
    BY <2>1, <2>2
<1> QED
  BY <1>4

(* Min of such a set.                                                       *)
LEMMA FromZeroOn ==
    ASSUME NEW T \in SUBSET Nat, 0 \in T, \A n \in Nat : n \in T => n + 1 \in T
    PROVE  T = Nat
<1> DEFINE missing == Nat \ T
<1>1. SUFFICES ASSUME missing # {} PROVE FALSE
  OBVIOUS
<1>2. PICK m \in missing : \A k \in missing : m <= k
  BY <1>1, NatMin
<1>3. m \in Nat /\ m \notin T /\ m # 0
  OBVIOUS
<1>4. m - 1 \in Nat /\ (m - 1) + 1 = m /\ m - 1 \notin missing
  BY <1>2, <1>3
<1> QED
  BY <1>3, <1>4

LEMMA MinElement ==
    ASSUME NEW T \in SUBSET Nat, T # {}
    PROVE  Min(T) \in T /\ \A k \in T : Min(T) <= k
<1>1. \E m \in T : \A k \in T : m <= k
  BY NatMin
<1> QED
  BY <1>1 DEF Min

(* Max of a set of numbers with a bound.                                    *)
LEMMA MaxElement ==
    ASSUME NEW n \in Nat, NEW T \in SUBSET (0 .. n), T # {}
    PROVE  Max(T) \in T /\ \A k \in T : Max(T) >= k
<1> DEFINE D == {n - k : k \in T}
<1>0. \A k \in T : k \in Int /\ n - k \in Nat
  OBVIOUS
<1>1. D \in SUBSET Nat /\ D # {}
  BY <1>0
<1>2. PICK d \in D : \A e \in D : d <= e
  BY <1>1, NatMin
<1>3. PICK m \in T : d = n - m
  BY <1>2
<1>4. ASSUME NEW k \in T PROVE m >= k
  <2>1. n - m <= n - k
    BY <1>2, <1>3
  <2> QED
    BY <1>0, <2>1
<1> QED
  BY <1>4 DEF Max

(***************************************************************************)
(* Division by a number that need not be known.                            *)
(***************************************************************************)
(* What the quotient and the remainder are.                              *)
LEMMA DivBounds ==
    ASSUME NEW a \in Int, NEW d \in Nat \ {0}
    PROVE  /\ a \div d \in Int
           /\ (a \div d) * d <= a
           /\ a < (a \div d) * d + d
           /\ a % d = a - (a \div d) * d
           /\ a % d \in 0 .. d - 1
  OBVIOUS

(* The quotient is the only number between those bounds.                 *)
LEMMA DivUnique ==
    ASSUME NEW a \in Int, NEW d \in Nat \ {0}, NEW q \in Int, q * d <= a, a < q * d + d
    PROVE  a \div d = q
  OBVIOUS

(* The quotient of the next number.                                      *)
LEMMA DivStep ==
    ASSUME NEW a \in Int, NEW d \in Nat \ {0}
    PROVE  (a + 1) \div d = IF (a + 1) % d = 0 THEN a \div d + 1 ELSE a \div d
  OBVIOUS

(* Division keeps the order.                                             *)
LEMMA DivMono ==
    ASSUME NEW a \in Int, NEW b \in Int, NEW d \in Nat \ {0}, a <= b
    PROVE  a \div d <= b \div d
  OBVIOUS

(* A number below k times d has a quotient below k.                      *)
LEMMA DivLess ==
    ASSUME NEW a \in Int, NEW k \in Int, NEW d \in Nat \ {0}, a < k * d
    PROVE  a \div d < k
  OBVIOUS

(* A multiple of the divisor moves the quotient and leaves the remainder.*)
LEMMA DivShift ==
    ASSUME NEW a \in Int, NEW k \in Int, NEW d \in Nat \ {0}
    PROVE  (k * d + a) \div d = k + a \div d /\ (k * d + a) % d = a % d
<1> DEFINE q == a \div d
<1>1. q \in Int /\ q * d <= a /\ a < q * d + d /\ a % d = a - q * d
  BY DivBounds
<1> HIDE DEF q
<1>2. \A i, j, n \in Int : (i + j) * n = i * n + j * n
  OBVIOUS
<1>3. (k + q) * d = k * d + q * d /\ k * d \in Int /\ q * d \in Int
  BY <1>1, <1>2
<1> DEFINE kd == k * d
           qd == q * d
           b == kd + a
<1>4. kd \in Int /\ qd \in Int /\ (k + q) * d = kd + qd /\ b \in Int
  BY <1>3
<1>5. k + q \in Int /\ (k + q) * d <= b /\ b < (k + q) * d + d
  <2>1. qd <= a /\ a < qd + d
    BY <1>1
  <2> HIDE DEF qd, kd
  <2> QED
    BY <1>1, <1>4, <2>1
<1>6. b \div d = k + q
  BY <1>4, <1>5, DivUnique
<1>7. b % d = b - (b \div d) * d
  BY <1>4, DivBounds
<1>8. b % d = a % d
  <2>1. a % d = a - qd
    BY <1>1
  <2> HIDE DEF qd, kd
  <2> QED
    BY <1>4, <1>6, <1>7, <2>1
<1> QED
  BY <1>6, <1>8 DEF q

(* A multiple of the divisor leaves the remainder of a sum.              *)
LEMMA ModSum ==
    ASSUME NEW a \in Int, NEW b \in Int, NEW d \in Nat \ {0}, a % d = 0
    PROVE  (a + b) % d = b % d
<1>1. a = (a \div d) * d /\ a \div d \in Int
  BY DivBounds
<1>2. ((a \div d) * d + b) % d = b % d
  BY <1>1, DivShift
<1> QED
  BY <1>1, <1>2

(* The first and the last page of the bytes s to e, s < e: rounding e up and *)
(* stepping back ends neither before the page of s nor behind that of e.     *)
LEMMA DivSpan ==
    ASSUME NEW s \in Int, NEW e \in Int, NEW d \in Nat \ {0}, s < e
    PROVE  /\ (s \div d) + 1 <= (e + d - 1) \div d
           /\ (e + d - 1) \div d <= (e \div d) + 1
  OBVIOUS

(* The quotient and the part of a number below it are natural numbers.      *)
LEMMA DivNat ==
    ASSUME NEW n \in Nat, NEW d \in Nat \ {0}
    PROVE  n \div d \in Nat /\ (n \div d) * d \in Nat
  OBVIOUS

(* A number counted from q times d on.                                      *)
LEMMA DivFrom ==
    ASSUME NEW n \in Int, NEW d \in Nat \ {0}, NEW q \in Int
    PROVE  (n % d) + ((n \div d) - q) * d = n - q * d
  OBVIOUS

(* Up to the last number before a multiple of d, no quotient is shared with *)
(* a number behind it, and rounding up ends at its own quotient.            *)
LEMMA DivWhole ==
    ASSUME NEW e \in Int, NEW d \in Nat \ {0, 1}, (e + 1) % d = 0
    PROVE  /\ (e + d - 1) \div d = (e \div d) + 1
           /\ \A s \in Int : e < s => e \div d < s \div d
  OBVIOUS

(* Quotient and remainder say which number it is.                          *)
LEMMA DivSame ==
    ASSUME NEW a \in Int, NEW b \in Int, NEW d \in Nat \ {0},
           a \div d = b \div d, a % d = b % d
    PROVE  a = b
  OBVIOUS

(***************************************************************************)
(* Sums over a set of at most eleven indices, the orders of the allocator. *)
(* SumFunction is a fold, so its value is known by a recursion over the    *)
(* subsets of the index set; ElevenTerms is the sum written out.           *)
(***************************************************************************)
ElevenTerms(w, S) ==
    LET t(i) == IF i \in S THEN w[i] ELSE 0
    IN  t(0) + t(1) + t(2) + t(3) + t(4) + t(5) + t(6) + t(7) + t(8) + t(9) + t(10)

(* Taking one index out of the sum takes its term out.                      *)
LEMMA TermOut ==
    ASSUME NEW S \in SUBSET (0 .. 10), NEW w \in [S -> Int],
           NEW s \in SUBSET S, NEW x \in s
    PROVE  ElevenTerms(w, s) = w[x] + ElevenTerms(w, s \ {x})
<1> DEFINE c(i) == IF i \in s THEN w[i] ELSE 0
           d(i) == IF i \in s \ {x} THEN w[i] ELSE 0
<1>1. x \in 0 .. 10 /\ c(x) = w[x]
  OBVIOUS
<1>2. \A i \in 0 .. 10 : c(i) \in Int /\ d(i) = (IF i = x THEN 0 ELSE c(i))
  OBVIOUS
<1>3. /\ ElevenTerms(w, s) = c(0) + c(1) + c(2) + c(3) + c(4) + c(5) + c(6) + c(7)
                               + c(8) + c(9) + c(10)
      /\ ElevenTerms(w, s \ {x}) = d(0) + d(1) + d(2) + d(3) + d(4) + d(5) + d(6)
                                       + d(7) + d(8) + d(9) + d(10)
  BY DEF ElevenTerms
<1> HIDE DEF c, d
<1>4. \/ x = 0 \/ x = 1 \/ x = 2 \/ x = 3 \/ x = 4 \/ x = 5 \/ x = 6
      \/ x = 7 \/ x = 8 \/ x = 9 \/ x = 10
  BY <1>1
<1> QED
  BY <1>1, <1>2, <1>3, <1>4

(* The fold is the sum written out: an index set on which they differ would *)
(* leave a smaller one on which they differ.                                *)
LEMMA SumWrittenOut ==
    ASSUME NEW S \in SUBSET (0 .. 10), NEW w \in [S -> Int]
    PROVE  SumFunction(w) = ElevenTerms(w, S)
<1> DEFINE F(f) == [s \in SUBSET S |->
              IF s = {} THEN 0
              ELSE w[CHOOSE x \in s : TRUE] + f[s \ {CHOOSE x \in s : TRUE}]]
           g == [s \in SUBSET S |-> ElevenTerms(w, s)]
           f == CHOOSE h : h = F(h)
<1>1. SumFunction(w) = f[S]
  <2>1. DOMAIN w = S
    OBVIOUS
  <2> QED
    BY <2>1 DEF SumFunction, SumFunctionOnSet, FoldFunctionOnSet, MapThenFoldSet
<1>2. ASSUME NEW s \in SUBSET S, s # {}
      PROVE  ElevenTerms(w, s)
               = w[CHOOSE x \in s : TRUE] + ElevenTerms(w, s \ {CHOOSE x \in s : TRUE})
  <2> DEFINE x == CHOOSE y \in s : TRUE
  <2>1. x \in s
    BY <1>2
  <2> HIDE DEF x
  <2>2. ElevenTerms(w, s) = w[x] + ElevenTerms(w, s \ {x})
    BY <2>1, TermOut
  <2> QED
    BY <2>2 DEF x
<1>3. ElevenTerms(w, {}) = 0
  BY DEF ElevenTerms
<1>4. f = F(f)
  <2>1. \A s \in SUBSET S : g[s] = F(g)[s]
    BY <1>2, <1>3
  <2>2. g = F(g)
    BY <2>1
  <2> QED
    BY <2>2
<1> HIDE DEF f, F
<1>5. \A t \in SUBSET S :
        f[t] = IF t = {} THEN 0
               ELSE w[CHOOSE x \in t : TRUE] + f[t \ {CHOOSE x \in t : TRUE}]
  BY <1>4 DEF F
<1>6. \A t \in SUBSET S : IsFiniteSet(t) /\ Cardinality(t) \in Nat
  <2>1. IsFiniteSet(0 .. 10)
    <3>1. 0 \in Int /\ 10 \in Int
      OBVIOUS
    <3> QED
      BY <3>1, FS_Interval
  <2> QED
    BY <2>1, FS_Subset, FS_CardinalityType
<1>7. SUFFICES ASSUME f[S] # ElevenTerms(w, S) PROVE FALSE
  BY <1>1
<1> DEFINE bad == {n \in Nat : \E t \in SUBSET S :
                                  Cardinality(t) = n /\ f[t] # ElevenTerms(w, t)}
<1>8. Cardinality(S) \in bad
  BY <1>6, <1>7
<1>9. PICK n \in bad : \A k \in bad : n <= k
  <2> HIDE DEF bad
  <2>1. bad \in SUBSET Nat
    BY DEF bad
  <2> QED
    BY <1>8, <2>1, NatMin
<1>10. PICK t \in SUBSET S : Cardinality(t) = n /\ f[t] # ElevenTerms(w, t)
  OBVIOUS
<1> DEFINE x == CHOOSE y \in t : TRUE
<1>11. t # {} /\ x \in t
  BY <1>3, <1>5, <1>10
<1>12. /\ f[t] = w[x] + f[t \ {x}]
       /\ ElevenTerms(w, t) = w[x] + ElevenTerms(w, t \ {x})
  BY <1>2, <1>5, <1>11
<1> HIDE DEF x
<1>13. Cardinality(t \ {x}) = n - 1 /\ t \ {x} \in SUBSET S
  BY <1>6, <1>10, <1>11, FS_RemoveElement
<1>14. n - 1 \in bad
  BY <1>6, <1>10, <1>12, <1>13
<1> QED
  BY <1>9, <1>14

(* The sum of terms that are all 0, and the sum after one term has changed. *)
LEMMA SumFacts ==
    ASSUME NEW S \in SUBSET (0 .. 10), NEW v \in [S -> Int]
    PROVE  /\ SumFunction(v) \in Int
           /\ (\A y \in S : v[y] = 0) => SumFunction(v) = 0
           /\ \A w \in [S -> Int] : \A x \in S :
                 (\A y \in S : y # x => w[y] = v[y])
                    => SumFunction(w) = SumFunction(v) - v[x] + w[x]
<1>1. SumFunction(v) = ElevenTerms(v, S)
  BY SumWrittenOut
<1>2. ASSUME NEW u \in [S -> Int], NEW s \in SUBSET S
      PROVE  ElevenTerms(u, s) \in Int
  <2> DEFINE c(i) == IF i \in s THEN u[i] ELSE 0
  <2>1. \A i \in 0 .. 10 : c(i) \in Int
    OBVIOUS
  <2>2. ElevenTerms(u, s) = c(0) + c(1) + c(2) + c(3) + c(4) + c(5) + c(6) + c(7)
                               + c(8) + c(9) + c(10)
    BY DEF ElevenTerms
  <2> HIDE DEF c
  <2> QED
    BY <2>1, <2>2
<1>3. ASSUME \A y \in S : v[y] = 0 PROVE ElevenTerms(v, S) = 0
  BY <1>3 DEF ElevenTerms
<1>4. ASSUME NEW w \in [S -> Int], NEW x \in S, \A y \in S : y # x => w[y] = v[y]
      PROVE  SumFunction(w) = SumFunction(v) - v[x] + w[x]
  <2>1. SumFunction(w) = ElevenTerms(w, S)
    BY SumWrittenOut
  <2>2. /\ ElevenTerms(v, S) = v[x] + ElevenTerms(v, S \ {x})
        /\ ElevenTerms(w, S) = w[x] + ElevenTerms(w, S \ {x})
    BY TermOut
  <2>3. ElevenTerms(w, S \ {x}) = ElevenTerms(v, S \ {x})
    <3>1. \A i \in S \ {x} : w[i] = v[i]
      BY <1>4
    <3> QED
      BY <3>1 DEF ElevenTerms
  <2>4. ElevenTerms(v, S \ {x}) \in Int /\ v[x] \in Int /\ w[x] \in Int
    BY <1>2
  <2> QED
    BY <1>1, <2>1, <2>2, <2>3, <2>4
<1> QED
  BY <1>1, <1>2, <1>3, <1>4

(***************************************************************************)
(* The rings of include/list.h, pointer by pointer.  In the heap h the     *)
(* list with head hd has the elements s when next leads from hd through s  *)
(* back to hd and prev leads the other way round.                          *)
(***************************************************************************)
Heaps(C, D) == [next : [C -> D], prev : [C -> D]]

(* One write of one word.                                                  *)
LEMMA WriteWord ==
    ASSUME NEW C, NEW D, NEW h \in Heaps(C, D),
           NEW c \in C, NEW v \in D
    PROVE  /\ SetNext(h, c, v) \in Heaps(C, D)
           /\ \A x \in C : /\ SetNext(h, c, v).next[x] = IF x = c THEN v ELSE h.next[x]
                          /\ SetNext(h, c, v).prev[x] = h.prev[x]
           /\ SetPrev(h, c, v) \in Heaps(C, D)
           /\ \A x \in C : /\ SetPrev(h, c, v).next[x] = h.next[x]
                          /\ SetPrev(h, c, v).prev[x] = IF x = c THEN v ELSE h.prev[x]
  BY DEF SetNext, SetPrev, Heaps

(* All words after list_insert_after, whether c is alone in its ring or not.*)
LEMMA AfterInsert ==
    ASSUME NEW C, NEW D, C \subseteq D, NEW h \in Heaps(C, D),
           NEW n \in C, NEW c \in C, h.next[c] \in C
    PROVE  /\ list_insert_after(h, n, c) \in Heaps(C, D)
           /\ n # c =>
                 /\ \A x \in C : list_insert_after(h, n, c).next[x] =
                       IF x = c THEN n ELSE IF x = n THEN h.next[c] ELSE h.next[x]
                 /\ \A x \in C : list_insert_after(h, n, c).prev[x] =
                       IF x = n THEN c ELSE IF x = h.next[c] THEN n ELSE h.prev[x]
<1> DEFINE H  == Heaps(C, D)
           m  == h.next[c]
           h1 == SetNext(h, n, m)
           h2 == SetPrev(h1, m, n)
           h3 == SetNext(h2, c, n)
           h4 == SetPrev(h3, n, c)
<1>0. list_insert_after(h, n, c) = h4
  BY DEF list_insert_after
<1>1. m \in C /\ m \in D /\ n \in D /\ c \in D
  BY DEF Heaps
<1>2. /\ h.next \in [C -> D] /\ h.prev \in [C -> D]
  BY DEF Heaps
<1> HIDE DEF m
<1>3. h1 \in H /\ \A x \in C : /\ h1.next[x] = IF x = n THEN m ELSE h.next[x]
                           /\ h1.prev[x] = h.prev[x]
  BY <1>1, WriteWord
<1> HIDE DEF h1
<1>4. h2 \in H /\ \A x \in C : /\ h2.next[x] = h1.next[x]
                           /\ h2.prev[x] = IF x = m THEN n ELSE h1.prev[x]
  BY <1>1, <1>3, WriteWord
<1> HIDE DEF h2
<1>5. h3 \in H /\ \A x \in C : /\ h3.next[x] = IF x = c THEN n ELSE h2.next[x]
                           /\ h3.prev[x] = h2.prev[x]
  BY <1>1, <1>4, WriteWord
<1> HIDE DEF h3
<1>6. h4 \in H /\ \A x \in C : /\ h4.next[x] = h3.next[x]
                           /\ h4.prev[x] = IF x = n THEN c ELSE h3.prev[x]
  BY <1>1, <1>5, WriteWord
<1> HIDE DEF h4
<1> QED
  BY <1>0, <1>1, <1>3, <1>4, <1>5, <1>6 DEF m

(* All words after list_remove, also of a link that is alone in its ring.  *)
LEMMA AfterRemove ==
    ASSUME NEW C, NEW D, C \subseteq D, NEW h \in Heaps(C, D),
           NEW l \in C, h.next[l] \in C, h.prev[l] \in C
    PROVE  /\ list_remove(h, l) \in Heaps(C, D)
           /\ \A x \in C : list_remove(h, l).next[x] =
                 IF x = l THEN l ELSE IF x = h.prev[l] THEN h.next[l] ELSE h.next[x]
           /\ \A x \in C : list_remove(h, l).prev[x] =
                 IF x = l THEN l ELSE IF x = h.next[l] THEN h.prev[l] ELSE h.prev[x]
<1> DEFINE H  == Heaps(C, D)
           m  == h.next[l]
           p  == h.prev[l]
           h1 == SetNext(h, p, m)
           h2 == SetPrev(h1, m, p)
           h3 == SetNext(h2, l, l)
           h4 == SetPrev(h3, l, l)
<1>0. list_remove(h, l) = h4
  BY DEF list_remove, link_init
<1>1. m \in C /\ m \in D /\ p \in C /\ p \in D /\ l \in D
  OBVIOUS
<1>2. /\ h.next \in [C -> D] /\ h.prev \in [C -> D]
  BY DEF Heaps
<1> HIDE DEF m, p
<1>3. h1 \in H /\ \A x \in C : /\ h1.next[x] = IF x = p THEN m ELSE h.next[x]
                           /\ h1.prev[x] = h.prev[x]
  BY <1>1, WriteWord
<1> HIDE DEF h1
<1>4. h2 \in H /\ \A x \in C : /\ h2.next[x] = h1.next[x]
                           /\ h2.prev[x] = IF x = m THEN p ELSE h1.prev[x]
  BY <1>1, <1>3, WriteWord
<1> HIDE DEF h2
<1>5. h3 \in H /\ \A x \in C : /\ h3.next[x] = IF x = l THEN l ELSE h2.next[x]
                           /\ h3.prev[x] = h2.prev[x]
  BY <1>1, <1>4, WriteWord
<1> HIDE DEF h3
<1>6. h4 \in H /\ \A x \in C : /\ h4.next[x] = h3.next[x]
                           /\ h4.prev[x] = IF x = l THEN l ELSE h3.prev[x]
  BY <1>1, <1>5, WriteWord
<1> HIDE DEF h4
<1> QED
  BY <1>0, <1>1, <1>3, <1>4, <1>5, <1>6 DEF m, p

(* All words after list_insert_before, even where c is no link of a ring.  *)
LEMMA AfterInsertBefore ==
    ASSUME NEW C, NEW D, C \subseteq D, NEW h \in Heaps(C, D),
           NEW n \in C, NEW c \in C, h.prev[c] \in C
    PROVE  /\ list_insert_before(h, n, c) \in Heaps(C, D)
           /\ \A x \in C : list_insert_before(h, n, c).next[x] =
                 IF x = h.prev[c] THEN n ELSE IF x = n THEN c ELSE h.next[x]
           /\ \A x \in C : list_insert_before(h, n, c).prev[x] =
                 IF x = n THEN h.prev[c] ELSE IF x = c THEN n ELSE h.prev[x]
<1> DEFINE H  == Heaps(C, D)
           p  == h.prev[c]
           h1 == SetNext(h, n, c)
           h2 == SetPrev(h1, c, n)
           h3 == SetPrev(h2, n, p)
           h4 == SetNext(h3, p, n)
<1>0. list_insert_before(h, n, c) = h4
  BY DEF list_insert_before
<1>1. p \in C /\ p \in D /\ n \in D /\ c \in D
  OBVIOUS
<1> HIDE DEF p
<1>3. h1 \in H /\ \A x \in C : /\ h1.next[x] = IF x = n THEN c ELSE h.next[x]
                           /\ h1.prev[x] = h.prev[x]
  BY <1>1, WriteWord
<1> HIDE DEF h1
<1>4. h2 \in H /\ \A x \in C : /\ h2.next[x] = h1.next[x]
                           /\ h2.prev[x] = IF x = c THEN n ELSE h1.prev[x]
  BY <1>1, <1>3, WriteWord
<1> HIDE DEF h2
<1>5. h3 \in H /\ \A x \in C : /\ h3.next[x] = h2.next[x]
                           /\ h3.prev[x] = IF x = n THEN p ELSE h2.prev[x]
  BY <1>1, <1>4, WriteWord
<1> HIDE DEF h3
<1>6. h4 \in H /\ \A x \in C : /\ h4.next[x] = IF x = p THEN n ELSE h3.next[x]
                           /\ h4.prev[x] = h3.prev[x]
  BY <1>1, <1>5, WriteWord
<1> HIDE DEF h4
<1> QED
  BY <1>0, <1>1, <1>3, <1>4, <1>5, <1>6 DEF p

(* list_insert_before writes what list_insert_after of the cell in front does.*)
LEMMA BeforeIsAfter ==
    ASSUME NEW C, NEW D, C \subseteq D, NEW h \in Heaps(C, D),
           NEW n \in C, NEW c \in C, h.prev[c] \in C, h.next[h.prev[c]] = c, n # c
    PROVE  list_insert_before(h, n, c) = list_insert_after(h, n, h.prev[c])
<1> DEFINE p == h.prev[c]
<1>1. p \in C /\ h.next[p] = c /\ n \in D /\ c \in D /\ p \in D
  OBVIOUS
<1> DEFINE H  == Heaps(C, D)
           h1 == SetNext(h, n, c)
           h2 == SetPrev(h1, c, n)
           h3 == SetPrev(h2, n, p)
           h4 == SetNext(h3, p, n)
           k3 == SetNext(h2, p, n)
           k4 == SetPrev(k3, n, p)
<1>2. list_insert_before(h, n, c) = h4 /\ list_insert_after(h, n, p) = k4
  BY <1>1 DEF list_insert_before, list_insert_after
<1> HIDE DEF p
<1>3. h1 \in H
  BY <1>1, WriteWord
<1> HIDE DEF h1
<1>4. h2 \in H
  BY <1>1, <1>3, WriteWord
<1> HIDE DEF h2
<1>5. h3 \in H /\ \A x \in C : /\ h3.next[x] = h2.next[x]
                           /\ h3.prev[x] = IF x = n THEN p ELSE h2.prev[x]
  BY <1>1, <1>4, WriteWord
<1>6. k3 \in H /\ \A x \in C : /\ k3.next[x] = IF x = p THEN n ELSE h2.next[x]
                           /\ k3.prev[x] = h2.prev[x]
  BY <1>1, <1>4, WriteWord
<1> HIDE DEF h3, k3
<1>7. h4 \in H /\ \A x \in C : /\ h4.next[x] = IF x = p THEN n ELSE h3.next[x]
                           /\ h4.prev[x] = h3.prev[x]
  BY <1>1, <1>5, WriteWord
<1>8. k4 \in H /\ \A x \in C : /\ k4.next[x] = k3.next[x]
                           /\ k4.prev[x] = IF x = n THEN p ELSE k3.prev[x]
  BY <1>1, <1>6, WriteWord
<1> HIDE DEF h4, k4
<1>9. \A x \in C : h4.next[x] = k4.next[x] /\ h4.prev[x] = k4.prev[x]
  BY <1>1, <1>5, <1>6, <1>7, <1>8
<1>10. h4 = k4
  BY <1>7, <1>8, <1>9 DEF Heaps
<1> QED
  BY <1>2, <1>10 DEF p

(* The cells of a list in their order, with its head in front and behind.  *)
RingCell(hd, s, j) == IF j \in 1 .. Len(s) THEN s[j] ELSE hd

IsRing(h, hd, s) ==
    \A j \in 0 .. Len(s) : /\ h.next[RingCell(hd, s, j)] = RingCell(hd, s, j + 1)
                           /\ h.prev[RingCell(hd, s, j + 1)] = RingCell(hd, s, j)

(* The walk around a ring finds the elements of the list, if its bound is large*)
(* enough.                                                                 *)
LEMMA WalkOfRing ==
    ASSUME NEW S, NEW h, NEW hd, hd \notin S, NEW s \in Seq(S), IsRing(h, hd, s),
           NEW size \in Nat, Len(s) + 1 <= size
    PROVE  Walk(h, hd, size) = s
<1> DEFINE cell[n \in 0 .. size] == IF n = 0 THEN hd ELSE h.next[cell[n - 1]]
           back == {n \in 1 .. size : cell[n] = hd}
           k == CHOOSE m \in back : \A o \in back : m <= o
<1>1. Walk(h, hd, size) = IF back = {} THEN <<>> ELSE [n \in 1 .. k - 1 |-> cell[n]]
  BY DEF Walk
<1>2. cell = [n \in 0 .. size |-> IF n = 0 THEN hd ELSE h.next[cell[n - 1]]]
  <2>1. \E g : g = [n \in 0 .. size |-> IF n = 0 THEN hd ELSE h.next[g[n - 1]]]
    <3>1. Len(s) \in Nat /\ Len(s) + 1 \in Nat \ {0}
      BY LenProperties
    <3> DEFINE T == Len(s) + 1
               g == [n \in 0 .. size |-> RingCell(hd, s, n % T)]
    <3>2. RingCell(hd, s, 0) = hd /\ RingCell(hd, s, T) = hd
      BY <3>1 DEF RingCell
    <3>3. 0 % T = 0
      BY <3>1
    <3>4. ASSUME NEW n \in 1 .. size
          PROVE  g[n] = h.next[g[n - 1]]
      <4>1. n - 1 \in 0 .. size /\ n \in 0 .. size /\ n - 1 \in Nat
        OBVIOUS
      <4>2. (n - 1) % T \in 0 .. Len(s)
        BY <3>1, <4>1
      <4>3. h.next[g[n - 1]] = RingCell(hd, s, ((n - 1) % T) + 1)
        BY <4>1, <4>2 DEF IsRing
      <4>4. n % T = ((n - 1) % T) + 1 \/ (n % T = 0 /\ ((n - 1) % T) + 1 = T)
        BY <3>1, <4>1, Z3
      <4> QED
        BY <3>2, <4>1, <4>3, <4>4
    <3>5. g = [n \in 0 .. size |-> IF n = 0 THEN hd ELSE h.next[g[n - 1]]]
      <4>1. g[0] = hd
        BY <3>2, <3>3
      <4>2. \A n \in 0 .. size : n # 0 => n \in 1 .. size
        OBVIOUS
      <4> DEFINE e(n) == IF n = 0 THEN hd ELSE h.next[g[n - 1]]
      <4>3. \A n \in 0 .. size : g[n] = e(n)
        BY <3>4, <4>1, <4>2
      <4>4. g = [n \in 0 .. size |-> g[n]]
        OBVIOUS
      <4> HIDE DEF g
      <4> QED
        BY <4>3, <4>4
    <3> QED
      BY <3>5
  <2> QED
    BY <2>1
<1> HIDE DEF cell
<1>3. /\ cell[0] = hd
      /\ \A n \in 1 .. size : cell[n] = h.next[cell[n - 1]]
  BY <1>2
<1>4. /\ Len(s) \in Nat /\ s = [i \in 1 .. Len(s) |-> s[i]]
      /\ \A i \in 1 .. Len(s) : s[i] \in S
  BY LenProperties, ElementOfSeq
<1>5. \A n \in 0 .. Len(s) + 1 : cell[n] = RingCell(hd, s, n)
  <2> DEFINE bad == {n \in 0 .. Len(s) + 1 : cell[n] # RingCell(hd, s, n)}
  <2>1. SUFFICES ASSUME bad # {} PROVE FALSE
    OBVIOUS
  <2>2. bad \in SUBSET Nat
    BY <1>4
  <2>3. PICK m \in bad : \A o \in bad : m <= o
    BY <2>1, <2>2, NatMin
  <2>4. m # 0
    BY <1>3, <1>4, <2>3 DEF RingCell
  <2>5. m \in 1 .. size /\ m - 1 \in 0 .. Len(s) /\ m - 1 \notin bad
    BY <1>4, <2>3, <2>4
  <2>6. cell[m - 1] = RingCell(hd, s, m - 1)
    BY <1>4, <2>5
  <2>7. cell[m] = RingCell(hd, s, (m - 1) + 1)
    BY <1>3, <2>5, <2>6 DEF IsRing
  <2>8. (m - 1) + 1 = m
    BY <2>5
  <2> QED
    BY <2>3, <2>7, <2>8
<1>6. \A n \in 1 .. Len(s) : cell[n] = s[n] /\ cell[n] # hd
  BY <1>4, <1>5 DEF RingCell
<1>7. Len(s) + 1 \in back
  BY <1>4, <1>5 DEF RingCell
<1>8. \A o \in back : Len(s) + 1 <= o
  BY <1>4, <1>6
<1>9. k = Len(s) + 1
  <2>1. \E m \in back : \A o \in back : m <= o
    BY <1>7, <1>8
  <2>2. k \in back /\ \A o \in back : k <= o
    BY <2>1
  <2> HIDE DEF k
  <2> QED
    BY <1>4, <1>7, <1>8, <2>2
<1> HIDE DEF k
<1>10. Walk(h, hd, size) = [n \in 1 .. Len(s) |-> cell[n]]
  BY <1>1, <1>4, <1>7, <1>9
<1> QED
  BY <1>4, <1>6, <1>10

(* A list none of whose cells is written stays.                            *)
LEMMA RingKept ==
    ASSUME NEW h, NEW g, NEW hd, NEW s, IsRing(h, hd, s), Len(s) \in Nat,
           \A j \in 0 .. Len(s) :
              /\ g.next[RingCell(hd, s, j)] = h.next[RingCell(hd, s, j)]
              /\ g.prev[RingCell(hd, s, j)] = h.prev[RingCell(hd, s, j)]
    PROVE  IsRing(g, hd, s)
<1>1. RingCell(hd, s, Len(s) + 1) = RingCell(hd, s, 0)
  BY DEF RingCell
<1>2. \A j \in 0 .. Len(s) : j + 1 \in 0 .. Len(s) \/ j + 1 = Len(s) + 1
  OBVIOUS
<1>3. \A j \in 0 .. Len(s) :
         g.prev[RingCell(hd, s, j + 1)] = h.prev[RingCell(hd, s, j + 1)]
  BY <1>1, <1>2
<1> QED
  BY <1>3 DEF IsRing

(* Different places of a list are different cells.                         *)
LEMMA CellsDiffer ==
    ASSUME NEW S, NEW s \in Seq(S), IsInjective(s), NEW hd, hd \notin S,
           NEW i \in 0 .. Len(s), NEW j \in 0 .. Len(s),
           RingCell(hd, s, i) = RingCell(hd, s, j)
    PROVE  i = j
<1>1. /\ Len(s) \in Nat /\ DOMAIN s = 1 .. Len(s)
      /\ \A k \in 1 .. Len(s) : s[k] \in S
  BY LenProperties, ElementOfSeq
<1> QED
  BY <1>1 DEF RingCell, IsInjective

(* A new cell behind the k-th of a list.                                   *)
LEMMA RingInsert ==
    ASSUME NEW S, NEW s \in Seq(S), IsInjective(s), NEW hd, hd \notin S,
           NEW h, NEW g, IsRing(h, hd, s),
           NEW n \in S, n \notin Range(s), NEW k \in 0 .. Len(s),
           NEW c, c = RingCell(hd, s, k),
           g.next[n] = h.next[c], g.prev[n] = c, g.next[c] = n, g.prev[h.next[c]] = n,
           \A j \in 0 .. Len(s) :
              /\ RingCell(hd, s, j) # c =>
                    g.next[RingCell(hd, s, j)] = h.next[RingCell(hd, s, j)]
              /\ RingCell(hd, s, j) # h.next[c] =>
                    g.prev[RingCell(hd, s, j)] = h.prev[RingCell(hd, s, j)]
    PROVE  IsRing(g, hd, InsertAt(s, k + 1, n))
<1> DEFINE t == InsertAt(s, k + 1, n)
           m == Len(s)
           C(j) == RingCell(hd, s, j)
           E(j) == RingCell(hd, t, j)
<1>1. /\ m \in Nat /\ Range(s) = {s[i] : i \in 1 .. m}
      /\ \A i \in 1 .. m : s[i] \in S
  BY LenProperties, RangeEquality, ElementOfSeq
<1>2. /\ Len(t) = m + 1
      /\ \A i \in 1 .. m + 1 :
            t[i] = IF i < k + 1 THEN s[i] ELSE IF i = k + 1 THEN n ELSE s[i - 1]
  <2>1. PICK p \in 1 .. Len(s) + 1 : p = k + 1
    BY <1>1
  <2>2. /\ Len(InsertAt(s, p, n)) = Len(s) + 1
        /\ \A i \in 1 .. Len(s) + 1 :
              InsertAt(s, p, n)[i]
                 = IF i < p THEN s[i] ELSE IF i = p THEN n ELSE s[i - 1]
    BY <2>1, InsertElements
  <2> QED
    BY <2>1, <2>2
<1> HIDE DEF t
<1>3. \A j \in 0 .. m + 2 :
         E(j) = IF j <= k THEN C(j) ELSE IF j = k + 1 THEN n ELSE C(j - 1)
  BY <1>1, <1>2 DEF RingCell
<1>4. \A j \in 0 .. m : h.next[C(j)] = C(j + 1) /\ h.prev[C(j + 1)] = C(j)
  BY DEF IsRing
<1>5. C(m + 1) = C(0)
  BY <1>1 DEF RingCell
<1>6. \A i, j \in 0 .. m : C(i) = C(j) => i = j
  BY CellsDiffer
<1>7. c = C(k) /\ h.next[c] = C(k + 1)
  BY <1>4
<1>8. \A j \in 0 .. m : j # k => g.next[C(j)] = C(j + 1)
  BY <1>4, <1>6, <1>7
<1>9. \A j \in 0 .. m : j # k => g.prev[C(j + 1)] = C(j)
  <2> SUFFICES ASSUME NEW j \in 0 .. m, j # k
               PROVE  g.prev[C(j + 1)] = C(j)
    OBVIOUS
  <2>1. C(j + 1) # C(k + 1)
    <3>1. CASE j < m /\ k < m
      <4>1. j + 1 \in 0 .. m /\ k + 1 \in 0 .. m /\ j + 1 # k + 1
        BY <3>1
      <4> QED
        BY <4>1, <1>6
    <3>2. CASE j = m
      <4>1. 0 \in 0 .. m /\ k + 1 \in 0 .. m /\ 0 # k + 1
        BY <1>1, <3>2
      <4> QED
        BY <4>1, <1>5, <1>6, <3>2
    <3>3. CASE k = m
      <4>1. 0 \in 0 .. m /\ j + 1 \in 0 .. m /\ 0 # j + 1
        BY <1>1, <3>3
      <4> QED
        BY <4>1, <1>5, <1>6, <3>3
    <3> QED
      BY <1>1, <3>1, <3>2, <3>3
  <2>2. PICK i \in 0 .. m : C(i) = C(j + 1)
    <3>1. j + 1 \in 0 .. m \/ j = m
      BY <1>1
    <3>2. 0 \in 0 .. m
      BY <1>1
    <3> QED
      BY <1>5, <3>1, <3>2
  <2>3. g.prev[C(i)] = h.prev[C(i)]
    BY <1>7, <2>1, <2>2
  <2> QED
    BY <1>4, <2>2, <2>3
<1> HIDE DEF C, E
<1>10. \A j \in 0 .. m + 1 : g.next[E(j)] = E(j + 1) /\ g.prev[E(j + 1)] = E(j)
  <2> SUFFICES ASSUME NEW j \in 0 .. m + 1
               PROVE  g.next[E(j)] = E(j + 1) /\ g.prev[E(j + 1)] = E(j)
    OBVIOUS
  <2>1. CASE j < k
    BY <1>1, <1>3, <1>8, <1>9, <2>1
  <2>2. CASE j = k
    <3>1. E(j) = C(k) /\ E(j + 1) = n
      BY <1>1, <1>3, <2>2
    <3> QED
      BY <1>7, <3>1
  <2>3. CASE j = k + 1
    <3>1. E(j) = n /\ E(j + 1) = C(k + 1)
      <4>1. j + 1 \in 0 .. m + 2 /\ ~(j + 1 <= k) /\ j + 1 # k + 1 /\ j + 1 - 1 = k + 1
        BY <1>1, <2>3
      <4>2. j \in 0 .. m + 2 /\ ~(j <= k)
        BY <1>1, <2>3
      <4> QED
        BY <1>3, <4>1, <4>2, <2>3
    <3> QED
      BY <1>7, <3>1
  <2>4. CASE j > k + 1
    <3>1. j \in 0 .. m + 2 /\ ~(j <= k) /\ j # k + 1
      BY <1>1, <2>4
    <3>2. j + 1 \in 0 .. m + 2 /\ ~(j + 1 <= k) /\ j + 1 # k + 1 /\ j + 1 - 1 = j
      BY <1>1, <2>4
    <3>3. j - 1 \in 0 .. m /\ j - 1 # k /\ j - 1 + 1 = j
      BY <1>1, <2>4
    <3>4. E(j) = C(j - 1) /\ E(j + 1) = C(j)
      BY <1>3, <3>1, <3>2
    <3> QED
      BY <1>8, <1>9, <3>3, <3>4
  <2> QED
    BY <2>1, <2>2, <2>3, <2>4
<1> QED
  BY <1>2, <1>10 DEF IsRing, E, t

(* The cell at place k of a list taken out.                                *)
LEMMA RingRemove ==
    ASSUME NEW S, NEW s \in Seq(S), IsInjective(s), NEW hd, hd \notin S,
           NEW h, NEW g, IsRing(h, hd, s), NEW l \in Range(s),
           g.next[h.prev[l]] = h.next[l], g.prev[h.next[l]] = h.prev[l],
           \A j \in 0 .. Len(s) :
              /\ RingCell(hd, s, j) \notin {l, h.prev[l]} =>
                    g.next[RingCell(hd, s, j)] = h.next[RingCell(hd, s, j)]
              /\ RingCell(hd, s, j) \notin {l, h.next[l]} =>
                    g.prev[RingCell(hd, s, j)] = h.prev[RingCell(hd, s, j)]
    PROVE  IsRing(g, hd, RemoveFirst(s, l))
<1> DEFINE t == RemoveFirst(s, l)
           m == Len(s)
           C(j) == RingCell(hd, s, j)
           E(j) == RingCell(hd, t, j)
<1>1. /\ m \in Nat /\ Range(s) = {s[i] : i \in 1 .. m}
      /\ \A i \in 1 .. m : s[i] \in S
  BY LenProperties, RangeEquality, ElementOfSeq
<1>2. Len(t) = m - 1
  BY RemoveElements
<1>3. PICK k \in 1 .. m : /\ s[k] = l
                          /\ \A i \in 1 .. m - 1 : t[i] = IF i < k THEN s[i] ELSE s[i + 1]
  BY RemoveElements
<1> HIDE DEF t
<1>4. \A j \in 0 .. m : E(j) = IF j < k THEN C(j) ELSE C(j + 1)
  <2>0. m - 1 \in Nat
    BY <1>1
  <2>1. \A j \in 1 .. m - 1 : E(j) = IF j < k THEN C(j) ELSE C(j + 1)
    BY <1>1, <1>2, <1>3, <2>0 DEF RingCell
  <2>2. E(0) = C(0) /\ 0 < k
    BY DEF RingCell
  <2>3. E(m) = C(m + 1) /\ ~(m < k)
    BY <1>1, <1>2, <2>0 DEF RingCell
  <2>4. \A j \in 0 .. m : j = 0 \/ j = m \/ j \in 1 .. m - 1
    BY <1>1
  <2> HIDE DEF C, E
  <2> QED
    BY <1>1, <2>1, <2>2, <2>3, <2>4
<1>5. \A j \in 0 .. m : h.next[C(j)] = C(j + 1) /\ h.prev[C(j + 1)] = C(j)
  BY DEF IsRing
<1>6. C(m + 1) = C(0)
  BY <1>1 DEF RingCell
<1>7. \A i, j \in 0 .. m : C(i) = C(j) => i = j
  BY CellsDiffer
<1>8. l = C(k) /\ h.next[l] = C(k + 1) /\ h.prev[l] = C(k - 1)
  <2>1. l = C(k)
    BY <1>3 DEF RingCell
  <2>2. k - 1 \in 0 .. m /\ (k - 1) + 1 = k
    BY <1>1
  <2> QED
    BY <1>5, <2>1, <2>2
<1>9. \A j \in 0 .. m : j \notin {k, k - 1} => g.next[C(j)] = C(j + 1)
  <2>1. k - 1 \in 0 .. m
    BY <1>1
  <2> QED
    BY <1>5, <1>7, <1>8, <2>1
<1>10. \A j \in 0 .. m : j \notin {k, k - 1} => g.prev[C(j + 1)] = C(j)
  <2> SUFFICES ASSUME NEW j \in 0 .. m, j # k, j # k - 1
               PROVE  g.prev[C(j + 1)] = C(j)
    OBVIOUS
  <2>1. PICK i \in 0 .. m : C(i) = C(j + 1) /\ (i = j + 1 \/ (i = 0 /\ j = m))
    <3>1. j + 1 \in 0 .. m \/ j = m
      BY <1>1
    <3>2. 0 \in 0 .. m
      BY <1>1
    <3> QED
      BY <1>6, <3>1, <3>2
  <2>2. C(i) # C(k)
    BY <1>7, <2>1
  <2>3. C(i) # C(k + 1)
    <3>1. CASE k < m
      <4>1. k + 1 \in 0 .. m /\ i # k + 1
        BY <3>1, <2>1
      <4> QED
        BY <4>1, <1>7
    <3>2. CASE k = m
      <4>1. 0 \in 0 .. m /\ i # 0
        BY <3>2, <2>1, <1>1
      <4> QED
        BY <4>1, <1>6, <1>7, <3>2
    <3> QED
      BY <1>1, <3>1, <3>2
  <2>4. g.prev[C(i)] = h.prev[C(i)]
    BY <1>8, <2>2, <2>3
  <2> QED
    BY <1>5, <2>1, <2>4
<1>11. g.next[C(k - 1)] = C(k + 1) /\ g.prev[C(k + 1)] = C(k - 1)
  BY <1>8
<1> HIDE DEF C, E
<1>12. \A j \in 0 .. m - 1 : g.next[E(j)] = E(j + 1) /\ g.prev[E(j + 1)] = E(j)
  <2> SUFFICES ASSUME NEW j \in 0 .. m - 1
               PROVE  g.next[E(j)] = E(j + 1) /\ g.prev[E(j + 1)] = E(j)
    OBVIOUS
  <2>0. j \in 0 .. m /\ j + 1 \in 0 .. m /\ m - 1 \in Nat
    BY <1>1
  <2>1. CASE j < k - 1
    <3>1. j < k /\ j + 1 < k /\ j \notin {k, k - 1}
      BY <2>1
    <3> QED
      BY <1>4, <1>9, <1>10, <2>0, <3>1
  <2>2. CASE j = k - 1
    <3>1. j < k /\ ~(j + 1 < k) /\ (j + 1) + 1 = k + 1
      BY <2>2
    <3> QED
      BY <1>4, <1>11, <2>0, <2>2, <3>1
  <2>3. CASE j >= k
    <3>1. ~(j < k) /\ ~(j + 1 < k) /\ j + 1 \notin {k, k - 1}
      BY <2>3
    <3> QED
      BY <1>4, <1>9, <1>10, <2>0, <3>1
  <2> QED
    BY <2>1, <2>2, <2>3, <1>1
<1> QED
  BY <1>2, <1>12 DEF IsRing, E, t

(* The cells of a list are its head and its elements.                      *)
LEMMA RingCells ==
    ASSUME NEW S, NEW s \in Seq(S), NEW hd, NEW j \in 0 .. Len(s) + 1
    PROVE  RingCell(hd, s, j) \in {hd} \cup Range(s)
  BY LenProperties, RangeEquality DEF RingCell

(* Each of them is at one of the places of the list.                       *)
LEMMA RingPlaces ==
    ASSUME NEW S, NEW s \in Seq(S), NEW hd, NEW c \in {hd} \cup Range(s)
    PROVE  \E k \in 0 .. Len(s) : c = RingCell(hd, s, k)
<1>1. /\ Len(s) \in Nat /\ Range(s) = {s[i] : i \in 1 .. Len(s)}
  BY LenProperties, RangeEquality
<1> QED
  BY <1>1 DEF RingCell
=============================================================================
