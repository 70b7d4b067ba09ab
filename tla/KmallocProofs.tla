--------------------------- MODULE KmallocProofs ----------------------------
(***************************************************************************)
(* Theorems about kmalloc and kfree, for every page size, request and      *)
(* number of allocations: the areas of a node stay inside it, in order and *)
(* apart whatever is split, merged and forgotten; the nodes are exactly    *)
(* the blocks taken from the page allocator; and what a caller holds stays *)
(* its own.                                                                *)
(***************************************************************************)
EXTENDS Kmalloc, DataLemmas

(***************************************************************************)
(* The areas of one node, its free and used lists f and u in B bytes       *)
(***************************************************************************)
Apart(a, b) == End(a) <= b.at \/ End(b) <= a.at

Inside(a, B) ==
    /\ a \in Area
    /\ a.at >= SIZEOF_MALLOC_NODE
    /\ a.size >= SIZEOF_MAREA
    /\ End(a) <= B

Ordered(f) == \A i, j \in 1 .. Len(f) : i < j => End(f[i]) < f[j].at

AllInside(s, B) == s \in Seq(Area) /\ \A i \in 1 .. Len(s) : Inside(s[i], B)

AllApart(u) == \A i, j \in 1 .. Len(u) : i # j => Apart(u[i], u[j])

ApartFrom(f, u) == \A i \in 1 .. Len(f), j \in 1 .. Len(u) : Apart(f[i], u[j])

Layout(f, u, B) ==
    /\ AllInside(f, B) /\ AllInside(u, B)
    /\ Ordered(f) /\ AllApart(u) /\ ApartFrom(f, u)

(* Where an area ends; areas of positive size that are apart are one in    *)
(* front of the other.                                                     *)
LEMMA AreaFacts ==
    ASSUME NEW B \in Nat, NEW a, Inside(a, B)
    PROVE  /\ a.at \in Nat /\ a.size \in Nat /\ End(a) \in Nat
           /\ End(a) = a.at + a.size
           /\ a.at >= 16 /\ a.size >= 8 /\ End(a) <= B
  BY DEF Inside, Area, End, SIZEOF_MALLOC_NODE, SIZEOF_MAREA

(* The two parts a free area a is split in when r bytes of it are taken.   *)
Taken(a, r) == [at |-> a.at, size |-> r]
Rest(a, r) == [at |-> a.at + r, size |-> a.size - r]

LEMMA SplitFacts ==
    ASSUME NEW B \in Nat, NEW a, Inside(a, B), NEW r \in Nat, r >= 8, r <= a.size
    PROVE  /\ Inside(Taken(a, r), B)
           /\ Taken(a, r).at = a.at /\ Taken(a, r).size = r
           /\ End(Taken(a, r)) = a.at + r
           /\ a.size > r + 8 =>
                 /\ Inside(Rest(a, r), B)
                 /\ Rest(a, r).at = a.at + r
                 /\ End(Rest(a, r)) = End(a)
<1>1. /\ a.at \in Nat /\ a.size \in Nat /\ End(a) = a.at + a.size
      /\ a.at >= 16 /\ End(a) <= B
  BY AreaFacts
<1>2. PICK at \in Nat, sz \in Nat : at = a.at /\ sz = a.size /\ End(a) = at + sz
  BY <1>1
<1>3. Taken(a, r) = [at |-> at, size |-> r] /\ Rest(a, r) = [at |-> at + r, size |-> sz - r]
  BY <1>2 DEF Taken, Rest
<1>4. /\ at + r \in Nat /\ sz - r \in Nat /\ at >= 16 /\ at + sz <= B
      /\ at + r <= B /\ (at + r) + (sz - r) = at + sz
  BY <1>1, <1>2
<1>5. /\ Taken(a, r) \in Area /\ Taken(a, r).at = at /\ Taken(a, r).size = r
      /\ End(Taken(a, r)) = at + r
  BY <1>3 DEF Area, End
<1>6. /\ Rest(a, r) \in Area /\ Rest(a, r).at = at + r /\ Rest(a, r).size = sz - r
      /\ End(Rest(a, r)) = at + sz
  BY <1>3, <1>4 DEF Area, End
<1>7. Inside(Taken(a, r), B)
  BY <1>4, <1>5 DEF Inside, SIZEOF_MALLOC_NODE, SIZEOF_MAREA
<1>8. a.size > r + 8 => Inside(Rest(a, r), B)
  BY <1>2, <1>4, <1>6 DEF Inside, SIZEOF_MALLOC_NODE, SIZEOF_MAREA
<1> QED
  BY <1>2, <1>5, <1>6, <1>7, <1>8

(* The front part of a free area becomes used and the rest takes its place *)
(* on the free list.                                                       *)
LEMMA TakeFree ==
    ASSUME NEW B \in Nat, NEW f, NEW u, Layout(f, u, B),
           NEW j \in 1 .. Len(f), NEW r \in Nat, r >= 8, f[j].size > r + 8
    PROVE  /\ AllInside([f EXCEPT ![j] = Rest(f[j], r)], B)
           /\ Ordered([f EXCEPT ![j] = Rest(f[j], r)])
           /\ ApartFrom([f EXCEPT ![j] = Rest(f[j], r)], u)
           /\ \A i \in 1 .. Len([f EXCEPT ![j] = Rest(f[j], r)]) :
                 Apart([f EXCEPT ![j] = Rest(f[j], r)][i], Taken(f[j], r))
<1> DEFINE g == [f EXCEPT ![j] = Rest(f[j], r)]
           m == Taken(f[j], r)
           nma == Rest(f[j], r)
<1>1. /\ f \in Seq(Area) /\ Len(f) \in Nat
      /\ \A i \in 1 .. Len(f) : Inside(f[i], B)
  BY LenProperties DEF Layout, AllInside
<1>2. \A i \in 1 .. Len(f) :
         /\ f[i].at \in Nat /\ f[i].size \in Nat /\ End(f[i]) \in Nat
         /\ End(f[i]) = f[i].at + f[i].size
         /\ f[i].at >= 16 /\ f[i].size >= 8 /\ End(f[i]) <= B
  BY <1>1, AreaFacts
<1>3. /\ Inside(nma, B) /\ nma \in Area
      /\ nma.at = f[j].at + r /\ End(nma) = End(f[j])
      /\ m.at = f[j].at /\ End(m) = f[j].at + r
  <2>1. PICK a : a = f[j]
    OBVIOUS
  <2>2. Inside(a, B) /\ a.size > r + 8
    BY <1>1, <2>1
  <2>3. r <= a.size
    BY <2>2, AreaFacts
  <2>4. /\ Inside(Rest(a, r), B) /\ Rest(a, r).at = a.at + r /\ End(Rest(a, r)) = End(a)
        /\ Taken(a, r).at = a.at /\ End(Taken(a, r)) = a.at + r
    BY <2>2, <2>3, SplitFacts
  <2>5. Inside(nma, B) => nma \in Area
    BY DEF Inside
  <2> QED
    BY <2>1, <2>4, <2>5
<1>4. f[j].at + r <= End(f[j])
  <2>1. PICK a : a = f[j]
    OBVIOUS
  <2>2. a.at \in Nat /\ a.size \in Nat /\ End(a) = a.at + a.size /\ a.size > r + 8
    BY <1>2, <2>1
  <2> QED
    BY <2>1, <2>2
<1> HIDE DEF nma, m
<1>5. /\ g \in Seq(Area) /\ Len(g) = Len(f)
      /\ \A i \in 1 .. Len(f) : g[i] = IF i = j THEN nma ELSE f[i]
  <2>1. g = [f EXCEPT ![j] = nma]
    BY DEF nma
  <2> QED
    BY <1>1, <1>3, <2>1, ExceptSeq
<1> HIDE DEF g
<1>6. AllInside(g, B)
  BY <1>1, <1>3, <1>5 DEF AllInside
<1>7. \A i \in 1 .. Len(f) : End(g[i]) = End(f[i]) /\ f[i].at <= g[i].at
  BY <1>2, <1>3, <1>5
<1>8. \A i \in 1 .. Len(f) : g[i].at \in Nat
  BY <1>2, <1>3, <1>5
<1>9. Ordered(g)
  <2>1. \A i, k \in 1 .. Len(f) : i < k => End(f[i]) < f[k].at
    BY DEF Ordered, Layout
  <2>2. ASSUME NEW i \in 1 .. Len(f), NEW k \in 1 .. Len(f), i < k
        PROVE  End(g[i]) < g[k].at
    <3>1. /\ End(f[i]) < f[k].at /\ End(g[i]) = End(f[i]) /\ f[k].at <= g[k].at
          /\ End(f[i]) \in Nat /\ f[k].at \in Nat /\ g[k].at \in Nat
      BY <1>2, <1>7, <1>8, <2>1, <2>2
    <3> QED
      BY <3>1
  <2> QED
    BY <1>5, <2>2 DEF Ordered
<1>10. ApartFrom(g, u)
  <2> SUFFICES ASSUME NEW i \in 1 .. Len(f), NEW k \in 1 .. Len(u)
               PROVE  End(g[i]) <= u[k].at \/ End(u[k]) <= g[i].at
    BY <1>5 DEF ApartFrom, Apart
  <2>1. End(f[i]) <= u[k].at \/ End(u[k]) <= f[i].at
    BY DEF Layout, ApartFrom, Apart
  <2>2. End(u[k]) \in Nat
    BY AreaFacts DEF Layout, AllInside
  <2> QED
    BY <1>2, <1>7, <1>8, <2>1, <2>2, SMTT(30)
<1>11. ASSUME NEW i \in 1 .. Len(f) PROVE Apart(g[i], m)
  <2>1. CASE i = j
    <3>1. End(m) = g[i].at
      BY <1>3, <1>5, <2>1
    <3> QED
      BY <1>2, <1>3, <3>1 DEF Apart
  <2>2. CASE i < j
    <3>1. End(f[i]) < f[j].at
      BY <2>2 DEF Layout, Ordered
    <3>2. End(g[i]) <= m.at
      BY <1>2, <1>3, <1>7, <3>1
    <3> QED
      BY <3>2 DEF Apart
  <2>3. CASE i > j
    <3>1. End(f[j]) < f[i].at
      BY <2>3 DEF Layout, Ordered
    <3>2. End(m) <= g[i].at
      <4>1. /\ f[j].at + r \in Nat /\ End(f[j]) \in Nat /\ f[i].at \in Nat /\ g[i].at \in Nat
            /\ f[i].at <= g[i].at /\ End(m) = f[j].at + r
        BY <1>2, <1>3, <1>7, <1>8
      <4> QED
        BY <1>4, <3>1, <4>1
    <3> QED
      BY <3>2 DEF Apart
  <2> QED
    BY <1>1, <2>1, <2>2, <2>3
<1> QED
  BY <1>5, <1>6, <1>9, <1>10, <1>11 DEF g, m

(* The list that ends in front of a free area taken whole.                 *)
LEMMA TakeLast ==
    ASSUME NEW B \in Nat, NEW f, NEW u, Layout(f, u, B),
           NEW j \in 1 .. Len(f), NEW m, m.at = f[j].at
    PROVE  /\ AllInside(SubSeq(f, 1, j - 1), B)
           /\ Ordered(SubSeq(f, 1, j - 1))
           /\ ApartFrom(SubSeq(f, 1, j - 1), u)
           /\ \A i \in 1 .. Len(SubSeq(f, 1, j - 1)) : Apart(SubSeq(f, 1, j - 1)[i], m)
<1> DEFINE g == SubSeq(f, 1, j - 1)
<1>1. /\ f \in Seq(Area) /\ Len(f) \in Nat
      /\ \A i \in 1 .. Len(f) : f[i] \in Area /\ Inside(f[i], B)
  BY LenProperties, ElementOfSeq DEF Layout, AllInside
<1>2. /\ g \in Seq(Area) /\ Len(g) = j - 1
      /\ \A i \in 1 .. j - 1 : g[i] = f[i]
  <2>1. \A i \in 1 .. j - 1 : f[i] \in Area
    BY <1>1
  <2>2. /\ SubSeq(f, 1, j - 1) \in Seq(Area)
        /\ Len(SubSeq(f, 1, j - 1)) = IF 1 <= j - 1 THEN (j - 1) - 1 + 1 ELSE 0
        /\ \A i \in 1 .. (j - 1) - 1 + 1 : SubSeq(f, 1, j - 1)[i] = f[1 + i - 1]
    BY <1>1, <2>1, SubSeqProperties
  <2> QED
    BY <1>1, <2>2
<1> HIDE DEF g
<1>3. \A i \in 1 .. j - 1 : i \in 1 .. Len(f)
  BY <1>1
<1>4. AllInside(g, B) /\ Ordered(g) /\ ApartFrom(g, u)
  BY <1>1, <1>2, <1>3 DEF AllInside, Ordered, ApartFrom, Layout
<1>5. ASSUME NEW i \in 1 .. j - 1 PROVE Apart(g[i], m)
  <2>1. End(f[i]) < f[j].at /\ g[i] = f[i] /\ m.at = f[j].at
    BY <1>2, <1>3 DEF Layout, Ordered
  <2>2. End(f[i]) \in Nat /\ f[j].at \in Nat
    BY <1>1, <1>3, AreaFacts
  <2> QED
    BY <2>1, <2>2 DEF Apart
<1> QED
  BY <1>2, <1>4, <1>5 DEF g

(* An area apart from all others put in front of the used list.            *)
LEMMA UseArea ==
    ASSUME NEW B \in Nat, NEW f, NEW u, AllInside(f, B), AllInside(u, B),
           Ordered(f), AllApart(u), ApartFrom(f, u),
           NEW m, Inside(m, B), \A i \in 1 .. Len(f) : Apart(f[i], m),
           \A i \in 1 .. Len(u) : Apart(u[i], m)
    PROVE  /\ Layout(f, Cons(m, u), B)
           /\ Len(Cons(m, u)) = Len(u) + 1
           /\ \A i \in 1 .. Len(u) + 1 : Cons(m, u)[i] = IF i = 1 THEN m ELSE u[i - 1]
<1> DEFINE v == Cons(m, u)
<1>1. u \in Seq(Area) /\ Len(u) \in Nat /\ m \in Area
  BY LenProperties DEF AllInside, Inside
<1>2. /\ v \in Seq(Area) /\ Len(v) = Len(u) + 1
      /\ \A i \in 1 .. Len(u) + 1 : v[i] = IF i = 1 THEN m ELSE u[i - 1]
  <2>1. <<m>> \in Seq(Area) /\ Len(<<m>>) = 1 /\ <<m>>[1] = m
    BY <1>1
  <2>2. /\ <<m>> \o u \in Seq(Area)
        /\ Len(<<m>> \o u) = Len(<<m>>) + Len(u)
        /\ \A i \in 1 .. Len(<<m>>) + Len(u) :
              (<<m>> \o u)[i] = IF i <= Len(<<m>>) THEN <<m>>[i] ELSE u[i - Len(<<m>>)]
    BY <1>1, <2>1, ConcatProperties
  <2>3. v = <<m>> \o u
    BY DEF Cons
  <2> HIDE DEF v
  <2> QED
    BY <1>1, <2>1, <2>2, <2>3
<1> HIDE DEF v
<1>3. \A i \in 1 .. Len(v) : i = 1 \/ i - 1 \in 1 .. Len(u)
  BY <1>1, <1>2
<1>4. AllInside(v, B)
  BY <1>2, <1>3 DEF AllInside
<1>5. AllApart(v)
  <2> SUFFICES ASSUME NEW i \in 1 .. Len(v), NEW k \in 1 .. Len(v), i # k
               PROVE  Apart(v[i], v[k])
    BY DEF AllApart
  <2>1. CASE i = 1
    <3>1. k - 1 \in 1 .. Len(u) /\ v[i] = m /\ v[k] = u[k - 1]
      BY <1>2, <1>3, <2>1
    <3> QED
      BY <3>1 DEF Apart
  <2>2. CASE k = 1
    <3>1. i - 1 \in 1 .. Len(u) /\ v[k] = m /\ v[i] = u[i - 1]
      BY <1>2, <1>3, <2>2
    <3> QED
      BY <3>1 DEF Apart
  <2>3. CASE i # 1 /\ k # 1
    <3>1. /\ i - 1 \in 1 .. Len(u) /\ k - 1 \in 1 .. Len(u) /\ i - 1 # k - 1
          /\ v[i] = u[i - 1] /\ v[k] = u[k - 1]
      BY <1>2, <1>3, <2>3
    <3> QED
      BY <3>1 DEF AllApart
  <2> QED
    BY <2>1, <2>2, <2>3
<1>6. ApartFrom(f, v)
  BY <1>2, <1>3 DEF ApartFrom
<1> QED
  BY <1>2, <1>4, <1>5, <1>6 DEF Layout, v

(***************************************************************************)
(* kfree: the lists after area j of the used list is freed                 *)
(***************************************************************************)
(* An area taken off the used list leaves the others.                      *)
LEMMA UnuseArea ==
    ASSUME NEW B, NEW f, NEW u, Layout(f, u, B), NEW j \in 1 .. Len(u)
    PROVE  /\ AllInside(RemoveAt(u, j), B) /\ AllApart(RemoveAt(u, j))
           /\ \A i \in 1 .. Len(RemoveAt(u, j)) : \E k \in 1 .. Len(u) :
                 k # j /\ RemoveAt(u, j)[i] = u[k]
           /\ \A k \in 1 .. Len(u) : k # j =>
                 \E i \in 1 .. Len(RemoveAt(u, j)) : RemoveAt(u, j)[i] = u[k]
           /\ Len(RemoveAt(u, j)) = Len(u) - 1
<1> DEFINE v == RemoveAt(u, j)
           K(i) == IF i < j THEN i ELSE i + 1
<1>1. u \in Seq(Area) /\ Len(u) \in Nat
  BY LenProperties DEF Layout, AllInside
<1>2. /\ v \in Seq(Area) /\ Len(v) = Len(u) - 1
      /\ \A i \in 1 .. Len(u) - 1 : v[i] = IF i < j THEN u[i] ELSE u[i + 1]
  BY <1>1, RemoveAtPlace
<1> HIDE DEF v
<1>3. \A i \in 1 .. Len(v) : K(i) \in 1 .. Len(u) /\ K(i) # j /\ v[i] = u[K(i)]
  BY <1>1, <1>2
<1>4. \A i, k \in 1 .. Len(v) : i # k => K(i) # K(k)
  BY <1>1
<1>5. \A k \in 1 .. Len(u) : k # j => \E i \in 1 .. Len(v) : K(i) = k
  <2> SUFFICES ASSUME NEW k \in 1 .. Len(u), k # j
               PROVE  \E i \in 1 .. Len(v) : K(i) = k
    OBVIOUS
  <2>1. CASE k < j
    <3>1. k \in 1 .. Len(v) /\ K(k) = k
      BY <1>1, <1>2, <2>1
    <3> QED
      BY <3>1
  <2>2. CASE k > j
    <3>1. k - 1 \in 1 .. Len(v) /\ K(k - 1) = k
      BY <1>1, <1>2, <2>2
    <3> QED
      BY <3>1
  <2> QED
    BY <2>1, <2>2
<1> HIDE DEF K
<1>6. AllInside(v, B)
  BY <1>2, <1>3 DEF AllInside, Layout
<1>7. AllApart(v)
  BY <1>3, <1>4 DEF AllApart, Layout
<1> QED
  BY <1>2, <1>3, <1>5, <1>6, <1>7 DEF v

(* Where the search stops: the free areas before that place are in front   *)
(* of the freed area, the one there and those after it are behind it.      *)
LEMMA StopFacts ==
    ASSUME NEW B \in Nat, NEW nd, Layout(nd.free, nd.used, B), NEW j \in 1 .. Len(nd.used)
    PROVE  /\ Stop(nd, nd.used[j]) \in 1 .. Len(nd.free) + 1
           /\ \A i \in 1 .. Len(nd.free) :
                 IF i < Stop(nd, nd.used[j])
                 THEN End(nd.free[i]) <= nd.used[j].at
                 ELSE End(nd.used[j]) <= nd.free[i].at
<1> DEFINE f == nd.free
           ma == nd.used[j]
           T == {k \in 1 .. Len(f) + 1 : k <= Len(f) => f[k].at > ma.at}
           J == Stop(nd, ma)
<1>1. Len(f) \in Nat /\ \A i \in 1 .. Len(f) : Inside(f[i], B)
  BY LenProperties DEF Layout, AllInside
<1>2. Inside(ma, B)
  BY DEF Layout, AllInside
<1>3. \A i \in 1 .. Len(f) : Apart(f[i], ma) /\ \A k \in 1 .. Len(f) : i < k => End(f[i]) < f[k].at
  BY DEF Layout, ApartFrom, Ordered
<1>4. J = Min(T)
  BY DEF Stop
<1> HIDE DEF f, ma, J
<1>5. T \in SUBSET Nat /\ Len(f) + 1 \in T
  BY <1>1
<1>6. J \in T /\ \A k \in T : J <= k
  BY <1>4, <1>5, MinElement
<1>7. /\ ma.at \in Nat /\ ma.size \in Nat /\ ma.size >= 8 /\ End(ma) = ma.at + ma.size
      /\ \A i \in 1 .. Len(f) : /\ f[i].at \in Nat /\ f[i].size \in Nat /\ f[i].size >= 8
                                 /\ End(f[i]) = f[i].at + f[i].size
  BY <1>1, <1>2, AreaFacts
<1>8. J \in 1 .. Len(f) + 1 /\ (J <= Len(f) => f[J].at > ma.at)
  BY <1>6
<1>9. ASSUME NEW i \in 1 .. Len(f), i < J PROVE End(f[i]) <= ma.at
  <2>1. ~(f[i].at > ma.at)
    BY <1>1, <1>5, <1>6, <1>9
  <2>2. End(f[i]) <= ma.at \/ End(ma) <= f[i].at
    BY <1>3 DEF Apart
  <2> QED
    BY <1>7, <2>1, <2>2
<1>10. ASSUME NEW i \in 1 .. Len(f), ~(i < J) PROVE End(ma) <= f[i].at
  <2>1. J \in 1 .. Len(f) /\ f[J].at > ma.at /\ (J = i \/ J < i)
    BY <1>1, <1>8, <1>10
  <2>2. J < i => End(f[J]) < f[i].at
    BY <1>3, <2>1
  <2>3. f[i].at > ma.at
    BY <1>7, <2>1, <2>2, SMTT(30)
  <2>4. End(f[i]) <= ma.at \/ End(ma) <= f[i].at
    BY <1>3 DEF Apart
  <2> QED
    BY <1>7, <2>3, <2>4
<1> QED
  BY <1>8, <1>9, <1>10 DEF f, ma, J

(* The merged area reaches from the area it touches in front, or its own   *)
(* start, to the end of the one it touches behind, or its own end.         *)
LEMMA MergedFacts ==
    ASSUME NEW B \in Nat, NEW nd, Layout(nd.free, nd.used, B), NEW j \in 1 .. Len(nd.used),
           NEW ma, ma = nd.used[j], NEW k, k = Stop(nd, ma), NEW m, m = Merged(nd, ma)
    PROVE  /\ Inside(m, B)
           /\ TouchesLast(nd, ma) =>
                 k - 1 \in 1 .. Len(nd.free) /\ m.at = nd.free[k - 1].at /\ End(nd.free[k - 1]) = ma.at
           /\ ~TouchesLast(nd, ma) =>
                 m.at = ma.at /\ (k > 1 => End(nd.free[k - 1]) # ma.at)
           /\ TouchesNext(nd, ma) =>
                 k \in 1 .. Len(nd.free) /\ End(m) = End(nd.free[k]) /\ End(ma) = nd.free[k].at
           /\ ~TouchesNext(nd, ma) =>
                 End(m) = End(ma) /\ (k <= Len(nd.free) => End(ma) # nd.free[k].at)
<1> DEFINE f == nd.free
           TL == TouchesLast(nd, ma)
           TN == TouchesNext(nd, ma)
<1>1. Len(f) \in Nat /\ \A i \in 1 .. Len(f) : Inside(f[i], B)
  BY LenProperties DEF Layout, AllInside
<1>2. Inside(ma, B)
  BY DEF Layout, AllInside
<1>3. k \in 1 .. Len(f) + 1
  BY StopFacts
<1>4. TL <=> k > 1 /\ End(f[k - 1]) = ma.at
  BY DEF TouchesLast
<1>5. TN <=> k <= Len(f) /\ End(ma) = f[k].at
  BY DEF TouchesNext
<1>6. m = [at   |-> IF TL THEN f[k - 1].at ELSE ma.at,
           size |-> (IF TL THEN f[k - 1].size ELSE 0) + ma.size + (IF TN THEN f[k].size ELSE 0)]
  BY DEF Merged
<1> HIDE DEF f, TL, TN
<1>7. (TL => k - 1 \in 1 .. Len(f)) /\ (TN => k \in 1 .. Len(f))
  BY <1>1, <1>3, <1>4, <1>5
<1>8. /\ ma.at \in Nat /\ ma.size \in Nat /\ End(ma) = ma.at + ma.size
      /\ ma.at >= 16 /\ ma.size >= 8 /\ End(ma) <= B
  BY <1>2, AreaFacts
<1>9. \A i \in 1 .. Len(f) : /\ f[i].at \in Nat /\ f[i].size \in Nat
                             /\ End(f[i]) = f[i].at + f[i].size
                             /\ f[i].at >= 16 /\ f[i].size >= 8 /\ End(f[i]) <= B
  BY <1>1, AreaFacts
<1>10. PICK x \in Nat, y \in Nat :
          /\ x = (IF TL THEN f[k - 1].size ELSE 0)
          /\ y = (IF TN THEN f[k].size ELSE 0)
  BY <1>7, <1>9
<1>11. PICK at \in Nat : at = IF TL THEN f[k - 1].at ELSE ma.at
  BY <1>7, <1>8, <1>9
<1>12. m = [at |-> at, size |-> x + ma.size + y]
  BY <1>6, <1>10, <1>11
<1>13. x + ma.size + y \in Nat /\ x + ma.size + y >= 8
  BY <1>8, SMTT(30)
<1>14. /\ m \in Area /\ m.at = at /\ m.size = x + ma.size + y
       /\ End(m) = at + (x + ma.size + y)
  BY <1>12, <1>13 DEF Area, End
<1>15. at + x = ma.at /\ at >= 16
  <2>1. CASE TL
    BY <1>4, <1>7, <1>8, <1>9, <1>10, <1>11, <2>1
  <2>2. CASE ~TL
    BY <1>8, <1>10, <1>11, <2>2
  <2> QED
    BY <2>1, <2>2
<1>16. End(m) = End(ma) + y
  BY <1>8, <1>14, <1>15
<1>17. TN => End(m) = End(f[k])
  BY <1>5, <1>7, <1>9, <1>10, <1>16
<1>18. ~TN => End(m) = End(ma)
  BY <1>8, <1>10, <1>16
<1>19. End(m) <= B
  BY <1>7, <1>8, <1>9, <1>17, <1>18
<1>20. Inside(m, B)
  BY <1>13, <1>14, <1>15, <1>19 DEF Inside, SIZEOF_MALLOC_NODE, SIZEOF_MAREA
<1> QED
  BY <1>4, <1>5, <1>7, <1>11, <1>14, <1>17, <1>18, <1>20 DEF f, TL, TN

(* The free list after the merged area is put in its place.                *)
LEMMA FreeMerged ==
    ASSUME NEW B \in Nat, NEW nd, Layout(nd.free, nd.used, B), NEW j \in 1 .. Len(nd.used),
           NEW ma, ma = nd.used[j],
           Stop(nd, ma) = 1 \/ TouchesLast(nd, ma) \/ TouchesNext(nd, ma)
    PROVE  /\ AllInside(FreeList(nd, ma), B) /\ Ordered(FreeList(nd, ma))
           /\ Len(FreeList(nd, ma)) > 0
           /\ \A i \in 1 .. Len(FreeList(nd, ma)), k \in 1 .. Len(nd.used) :
                 k # j => Apart(FreeList(nd, ma)[i], nd.used[k])
<1> DEFINE f == nd.free
           u == nd.used
           TL == TouchesLast(nd, ma)
           TN == TouchesNext(nd, ma)
           k == Stop(nd, ma)
           m == Merged(nd, ma)
           p == IF TL THEN k - 2 ELSE k - 1
           q == IF TN THEN k + 1 ELSE k
           g == FreeList(nd, ma)
<1>1. /\ f \in Seq(Area) /\ u \in Seq(Area) /\ Len(f) \in Nat /\ Len(u) \in Nat
      /\ \A i \in 1 .. Len(f) : Inside(f[i], B)
      /\ \A i \in 1 .. Len(u) : Inside(u[i], B)
  BY LenProperties DEF Layout, AllInside
<1>2. /\ k \in 1 .. Len(f) + 1
      /\ \A i \in 1 .. Len(f) : IF i < k THEN End(f[i]) <= ma.at ELSE End(ma) <= f[i].at
  BY StopFacts
<1>3. /\ Inside(m, B)
      /\ TL => k - 1 \in 1 .. Len(f) /\ m.at = f[k - 1].at /\ End(f[k - 1]) = ma.at
      /\ ~TL => m.at = ma.at /\ (k > 1 => End(f[k - 1]) # ma.at)
      /\ TN => k \in 1 .. Len(f) /\ End(m) = End(f[k]) /\ End(ma) = f[k].at
      /\ ~TN => End(m) = End(ma) /\ (k <= Len(f) => End(ma) # f[k].at)
  BY MergedFacts
<1>4. g = Spliced(f, p, m, q)
  BY DEF FreeList, Spliced
<1>5. \A i, n \in 1 .. Len(f) : i < n => End(f[i]) < f[n].at
  BY DEF Layout, Ordered
<1>6. \A i \in 1 .. Len(f), n \in 1 .. Len(u) : Apart(f[i], u[n])
  BY DEF Layout, ApartFrom
<1>7. \A n \in 1 .. Len(u) : n # j => Apart(ma, u[n])
  BY DEF Layout, AllApart
<1>8. Inside(ma, B)
  BY <1>1
<1> HIDE DEF f, u, TL, TN, k, m, g
<1>9. p \in Nat /\ q \in Nat /\ p < q /\ q <= Len(f) + 1 /\ p < k /\ k <= q
  BY <1>1, <1>2, <1>3
<1> HIDE DEF p, q
<1>10. m \in Area
  BY <1>3 DEF Inside
<1> DEFINE n0 == p + 1 + (Len(f) - q + 1)
<1>11. /\ g \in Seq(Area) /\ Len(g) = n0
       /\ \A i \in 1 .. p : g[i] = f[i]
       /\ g[p + 1] = m
       /\ \A i \in p + 2 .. n0 : g[i] = f[i - p - 2 + q]
  <2>1. /\ Spliced(f, p, m, q) \in Seq(Area)
        /\ Len(Spliced(f, p, m, q)) = p + 1 + (Len(f) - q + 1)
        /\ \A i \in 1 .. p : Spliced(f, p, m, q)[i] = f[i]
        /\ Spliced(f, p, m, q)[p + 1] = m
        /\ \A i \in p + 2 .. p + 1 + (Len(f) - q + 1) :
              Spliced(f, p, m, q)[i] = f[i - p - 2 + q]
    <3>1. f \in Seq(Area) /\ p \in Nat /\ q \in Nat /\ p < q /\ q <= Len(f) + 1 /\ m \in Area
      BY <1>1, <1>9, <1>10
    <3> QED
      BY <3>1, Splice
  <2> QED
    BY <1>4, <2>1
<1>12. /\ m.at \in Nat /\ End(m) \in Nat /\ m.at < End(m)
       /\ ma.at \in Nat /\ End(ma) \in Nat /\ ma.at < End(ma)
       /\ \A i \in 1 .. Len(f) : f[i].at \in Nat /\ End(f[i]) \in Nat /\ f[i].at < End(f[i])
       /\ \A i \in 1 .. Len(u) : u[i].at \in Nat /\ End(u[i]) \in Nat /\ u[i].at < End(u[i])
  <2>1. \A a : Inside(a, B) => a.at \in Nat /\ End(a) \in Nat /\ a.at < End(a)
    <3> SUFFICES ASSUME NEW a, Inside(a, B)
                 PROVE  a.at \in Nat /\ End(a) \in Nat /\ a.at < End(a)
      OBVIOUS
    <3> QED
      BY AreaFacts
  <2>2. \A i \in 1 .. Len(f) : f[i].at \in Nat /\ End(f[i]) \in Nat /\ f[i].at < End(f[i])
    BY <1>1, <2>1
  <2>3. \A i \in 1 .. Len(u) : u[i].at \in Nat /\ End(u[i]) \in Nat /\ u[i].at < End(u[i])
    BY <1>1, <2>1
  <2>4. m.at \in Nat /\ End(m) \in Nat /\ m.at < End(m)
    BY <1>3, <2>1
  <2>5. ma.at \in Nat /\ End(ma) \in Nat /\ ma.at < End(ma)
    BY <1>8, <2>1
  <2> QED
    BY <2>2, <2>3, <2>4, <2>5
<1>13. ASSUME NEW i \in 1 .. p PROVE i \in 1 .. Len(f) /\ End(f[i]) < m.at
  <2>1. CASE TL
    <3>1. k - 1 \in 1 .. Len(f) /\ i \in 1 .. Len(f) /\ i < k - 1
      BY <1>1, <1>2, <1>3, <2>1 DEF p
    <3> QED
      BY <1>3, <1>5, <2>1, <3>1
  <2>2. CASE ~TL
    <3>1. i \in 1 .. Len(f) /\ i <= k - 1 /\ k > 1 /\ k - 1 \in 1 .. Len(f)
      BY <1>1, <1>2, <2>2 DEF p
    <3>2. End(f[k - 1]) <= ma.at /\ End(f[k - 1]) # ma.at /\ m.at = ma.at
      BY <1>2, <1>3, <2>2, <3>1
    <3>3. i < k - 1 => End(f[i]) < f[k - 1].at
      BY <1>5, <3>1
    <3>4. i = k - 1 \/ i < k - 1
      BY <1>2, <3>1
    <3>5. i < k - 1 => End(f[i]) < m.at
      BY <1>12, <3>1, <3>2, <3>3
    <3>6. End(f[k - 1]) < m.at
      BY <1>12, <3>1, <3>2
    <3> QED
      BY <3>1, <3>4, <3>5, <3>6
  <2> QED
    BY <2>1, <2>2
<1>14. ASSUME NEW i \in q .. Len(f) PROVE i \in 1 .. Len(f) /\ End(m) < f[i].at
  <2>1. CASE TN
    <3>1. k \in 1 .. Len(f) /\ i \in 1 .. Len(f) /\ k < i
      BY <1>1, <1>2, <1>3, <2>1 DEF q
    <3> QED
      BY <1>3, <1>5, <2>1, <3>1
  <2>2. CASE ~TN
    <3>1. i \in 1 .. Len(f) /\ k <= i /\ k \in 1 .. Len(f)
      BY <1>1, <1>2, <2>2 DEF q
    <3>2. End(ma) <= f[k].at /\ End(ma) # f[k].at /\ End(m) = End(ma)
      BY <1>2, <1>3, <2>2, <3>1
    <3>3. k < i => End(f[k]) < f[i].at
      BY <1>5, <3>1
    <3>4. k = i \/ k < i
      BY <1>2, <3>1
    <3>5. k < i => End(m) < f[i].at
      BY <1>12, <3>1, <3>2, <3>3
    <3>6. End(m) < f[k].at
      BY <1>12, <3>1, <3>2
    <3> QED
      BY <3>1, <3>4, <3>5, <3>6
  <2> QED
    BY <2>1, <2>2
<1>15. \A i \in 1 .. n0 :
          \/ i \in 1 .. p
          \/ i = p + 1
          \/ i \in p + 2 .. n0 /\ i - p - 2 + q \in q .. Len(f)
  BY <1>1, <1>9
<1>16. AllInside(g, B)
  BY <1>1, <1>3, <1>11, <1>13, <1>14, <1>15 DEF AllInside
<1>17. Ordered(g)
  <2> SUFFICES ASSUME NEW i \in 1 .. n0, NEW n \in 1 .. n0, i < n
               PROVE  End(g[i]) < g[n].at
    BY <1>11 DEF Ordered
  <2>1. CASE n \in 1 .. p
    <3>1. i \in 1 .. p /\ i \in 1 .. Len(f) /\ n \in 1 .. Len(f)
      BY <1>9, <1>13, <2>1
    <3> QED
      BY <1>5, <1>11, <2>1, <3>1
  <2>2. CASE n = p + 1
    <3>1. i \in 1 .. p
      BY <1>9, <2>2
    <3> QED
      BY <1>11, <1>13, <2>2, <3>1
  <2>3. CASE n \in p + 2 .. n0 /\ n - p - 2 + q \in q .. Len(f)
    <3>1. n - p - 2 + q \in 1 .. Len(f) /\ End(m) < f[n - p - 2 + q].at
      BY <1>14, <2>3
    <3>2. g[n] = f[n - p - 2 + q]
      BY <1>11, <2>3
    <3>3. CASE i \in 1 .. p
      <4>1. i \in 1 .. Len(f) /\ End(f[i]) < m.at /\ g[i] = f[i]
        BY <1>11, <1>13, <3>3
      <4> QED
        BY <1>12, <3>1, <3>2, <4>1
    <3>4. CASE i = p + 1
      BY <1>11, <3>1, <3>2, <3>4
    <3>5. CASE i \in p + 2 .. n0 /\ i - p - 2 + q \in q .. Len(f)
      <4>1. i - p - 2 + q \in 1 .. Len(f) /\ g[i] = f[i - p - 2 + q]
        BY <1>11, <1>14, <3>5
      <4>2. i - p - 2 + q < n - p - 2 + q
        BY <1>9
      <4> QED
        BY <1>5, <3>1, <3>2, <4>1, <4>2
    <3> QED
      BY <1>15, <3>3, <3>4, <3>5
  <2> QED
    BY <1>15, <2>1, <2>2, <2>3
<1>18. ASSUME NEW n \in 1 .. Len(u), n # j PROVE Apart(m, u[n])
  <2>1. End(ma) <= u[n].at \/ End(u[n]) <= ma.at
    BY <1>7, <1>18 DEF Apart
  <2>2. TL => End(f[k - 1]) <= u[n].at \/ End(u[n]) <= f[k - 1].at
    BY <1>3, <1>6 DEF Apart
  <2>3. TN => End(f[k]) <= u[n].at \/ End(u[n]) <= f[k].at
    BY <1>3, <1>6 DEF Apart
  <2>4. CASE End(ma) <= u[n].at
    <3>1. CASE TN
      <4>1. k \in 1 .. Len(f) /\ End(m) = End(f[k]) /\ End(ma) = f[k].at
        BY <1>3, <3>1
      <4>2. ~(End(u[n]) <= f[k].at)
        BY <1>12, <2>4, <4>1
      <4> QED
        BY <2>3, <3>1, <4>1, <4>2 DEF Apart
    <3>2. CASE ~TN
      BY <1>3, <2>4, <3>2 DEF Apart
    <3> QED
      BY <3>1, <3>2
  <2>5. CASE End(u[n]) <= ma.at
    <3>1. CASE TL
      <4>1. k - 1 \in 1 .. Len(f) /\ m.at = f[k - 1].at /\ End(f[k - 1]) = ma.at
        BY <1>3, <3>1
      <4>2. ~(End(f[k - 1]) <= u[n].at)
        BY <1>12, <2>5, <4>1, SMTT(30)
      <4> QED
        BY <2>2, <3>1, <4>1, <4>2 DEF Apart
    <3>2. CASE ~TL
      BY <1>3, <2>5, <3>2 DEF Apart
    <3> QED
      BY <3>1, <3>2
  <2> QED
    BY <2>1, <2>4, <2>5
<1>19. ASSUME NEW i \in 1 .. n0, NEW n \in 1 .. Len(u), n # j PROVE Apart(g[i], u[n])
  <2>1. CASE i \in 1 .. p
    BY <1>6, <1>11, <1>13, <2>1
  <2>2. CASE i = p + 1
    BY <1>11, <1>18, <1>19, <2>2
  <2>3. CASE i \in p + 2 .. n0 /\ i - p - 2 + q \in q .. Len(f)
    BY <1>6, <1>11, <1>14, <2>3
  <2> QED
    BY <1>15, <2>1, <2>2, <2>3
<1>20. Len(g) > 0
  BY <1>1, <1>9, <1>11
<1> QED
  BY <1>11, <1>16, <1>17, <1>19, <1>20 DEF g, u

(* Every case of kfree leaves a sound node, with a free area.              *)
LEMMA FreeLayout ==
    ASSUME NEW B \in Nat, NEW nd, Layout(nd.free, nd.used, B), NEW j \in 1 .. Len(nd.used)
    PROVE  /\ Layout(FreeList(nd, nd.used[j]), RemoveAt(nd.used, j), B)
           /\ Len(FreeList(nd, nd.used[j])) > 0
<1> DEFINE ma == nd.used[j]
           g == FreeList(nd, ma)
           v == RemoveAt(nd.used, j)
<1>1. /\ AllInside(v, B) /\ AllApart(v)
      /\ \A i \in 1 .. Len(v) : \E k \in 1 .. Len(nd.used) : k # j /\ v[i] = nd.used[k]
  BY UnuseArea, SMTT(30)
<1>2. /\ AllInside(g, B) /\ Ordered(g) /\ Len(g) > 0
      /\ \A i \in 1 .. Len(g), k \in 1 .. Len(nd.used) : k # j => Apart(g[i], nd.used[k])
  <2>1. CASE Stop(nd, ma) = 1 \/ TouchesLast(nd, ma) \/ TouchesNext(nd, ma)
    BY <2>1, FreeMerged
  <2>2. CASE ~(Stop(nd, ma) = 1 \/ TouchesLast(nd, ma) \/ TouchesNext(nd, ma))
    <3>1. g = nd.free
      BY <2>2 DEF FreeList
    <3>2. Len(nd.free) \in Nat /\ Stop(nd, ma) \in 1 .. Len(nd.free) + 1
      BY LenProperties, StopFacts DEF Layout, AllInside
    <3>3. Len(nd.free) > 0
      BY <2>2, <3>2
    <3> QED
      BY <3>1, <3>3 DEF Layout, ApartFrom
  <2> QED
    BY <2>1, <2>2
<1> HIDE DEF g, v, ma
<1>3. ApartFrom(g, v)
  <2> SUFFICES ASSUME NEW i \in 1 .. Len(g), NEW n \in 1 .. Len(v)
               PROVE  Apart(g[i], v[n])
    BY DEF ApartFrom
  <2>1. PICK k \in 1 .. Len(nd.used) : k # j /\ v[n] = nd.used[k]
    BY <1>1
  <2> QED
    BY <1>2, <2>1
<1> QED
  BY <1>1, <1>2, <1>3 DEF Layout, g, v, ma

(* A node whose first free area is all of it has no used area left.        *)
LEMMA AllFree ==
    ASSUME NEW B \in Nat, NEW f, NEW u, Layout(f, u, B), Len(f) > 0,
           f[1].size + SIZEOF_MALLOC_NODE = B
    PROVE  Len(u) = 0
<1>1. Len(f) \in Nat /\ Len(u) \in Nat
  BY LenProperties DEF Layout, AllInside
<1>2. SUFFICES ASSUME Len(u) # 0 PROVE FALSE
  OBVIOUS
<1>3. Inside(f[1], B) /\ Inside(u[1], B) /\ Apart(f[1], u[1])
  BY <1>1, <1>2 DEF Layout, AllInside, ApartFrom
<1>4. /\ f[1].at \in Nat /\ f[1].size \in Nat /\ End(f[1]) = f[1].at + f[1].size
      /\ f[1].at >= 16 /\ End(f[1]) <= B
      /\ u[1].at \in Nat /\ u[1].size \in Nat /\ End(u[1]) = u[1].at + u[1].size
      /\ u[1].at >= 16 /\ u[1].size >= 8 /\ End(u[1]) <= B
  BY <1>3, AreaFacts
<1>5. f[1].size + 16 = B
  BY DEF SIZEOF_MALLOC_NODE
<1>6. End(f[1]) <= u[1].at \/ End(u[1]) <= f[1].at
  BY <1>3 DEF Apart
<1> QED
  BY <1>4, <1>5, <1>6

(***************************************************************************)
(* The inductive invariant, over a list of nodes l, the blocks h taken     *)
(* from the page allocator, its free pages fp and what the callers hold    *)
(***************************************************************************)
Orders == 0 .. MAX_ORDER - 1
Node == [order : Orders, blk : Nat, free : Seq(Area), used : Seq(Area)]
Block(nd) == <<nd.order, nd.blk>>
PagesIn(nd) == PagesOf(nd.order, nd.blk)

NodeSound(nd) == nd \in Node /\ Layout(nd.free, nd.used, NodeBytes(nd))

NodesSound(l) == l \in Seq(Node) /\ \A i \in 1 .. Len(l) : NodeSound(l[i])

(* No page is in two nodes, or in a node and free.                         *)
PagesGiven(l, h, fp) ==
    /\ h = {Block(l[i]) : i \in 1 .. Len(l)}
    /\ \A i, j \in 1 .. Len(l) : i # j => PagesIn(l[i]) \cap PagesIn(l[j]) = {}
    /\ \A i \in 1 .. Len(l) : PagesIn(l[i]) \cap fp = {}

(* Used area j of node i is what the caller of a holds.                    *)
Holds(l, i, j, a) ==
    /\ Pointer(l[i], l[i].used[j]) = a.p
    /\ l[i].used[j].size >= a.size + SIZEOF_MAREA

LiveHeld(l, lv) ==
    /\ lv \subseteq [p : Nat, size : SIZES]
    /\ \A a \in lv : \E i \in 1 .. Len(l) : \E j \in 1 .. Len(l[i].used) : Holds(l, i, j, a)
    /\ \A a, b \in lv : a.p = b.p => a = b

PhaseOK ==
    /\ pc \in {"init", "ready", "kmalloc", "bug", "panic"}
    /\ size \in SIZES \cup {0}
    /\ pc = "kmalloc" => size \in SIZES
    /\ pc = "init" => malloc_list = <<>> /\ held = {} /\ live = {}

HeapInv ==
    /\ NodesSound(malloc_list)
    /\ PagesGiven(malloc_list, held, free_pages)
    /\ LiveHeld(malloc_list, live)
    /\ PhaseOK

(***************************************************************************)
(* Sizes, blocks and addresses                                             *)
(***************************************************************************)
LEMMA Shift ==
    ASSUME NEW k \in Orders
    PROVE  Pow2(k) \in Nat /\ Pow2(k) >= 1
<1>1. k \in 0 .. 10
  BY KmallocAssumption DEF Orders
<1> QED
  BY <1>1 DEF Pow2

(* A block has pages, so blocks that share none differ.                    *)
LEMMA BlockPages ==
    ASSUME NEW k \in Orders, NEW n \in Nat
    PROVE  n * Pow2(k) \in PagesOf(k, n)
<1>1. PICK w \in Nat : w = Pow2(k) /\ w >= 1
  BY Shift
<1>2. n * w \in Nat /\ (n + 1) * w = n * w + w
  BY <1>1
<1>3. n * w \in n * w .. (n + 1) * w - 1
  BY <1>1, <1>2
<1> QED
  BY <1>1, <1>3 DEF PagesOf

LEMMA NodeRange ==
    ASSUME NEW nd \in Node
    PROVE  /\ NodeBytes(nd) \in Nat /\ NodeBytes(nd) >= 24 /\ NodeAddr(nd) \in Nat
           /\ NodeBytes(nd) = PAGE_SIZE * Pow2(nd.order)
<1>1. PICK w \in Nat : w = Pow2(nd.order) /\ w >= 1
  BY Shift DEF Node
<1>2. PAGE_SIZE \in Nat /\ PAGE_SIZE >= 24
  BY KmallocAssumption DEF SIZEOF_MALLOC_NODE, SIZEOF_MAREA
<1>3. \A p, x \in Nat : x >= 1 => p * x \in Nat /\ p * x >= p
  OBVIOUS
<1>4. PAGE_SIZE * w \in Nat /\ PAGE_SIZE * w >= 24
  BY <1>1, <1>2, <1>3
<1>5. NodeBytes(nd) = PAGE_SIZE * w
  BY <1>1 DEF NodeBytes
<1>6. nd.blk \in Nat
  BY DEF Node
<1>7. \A p, x \in Nat : p * x \in Nat
  OBVIOUS
<1> HIDE DEF Node
<1>8. NodeAddr(nd) \in Nat
  BY <1>4, <1>5, <1>6, <1>7 DEF NodeAddr
<1> QED
  BY <1>1, <1>4, <1>5, <1>8

(* Nodes that share no page lie one behind the other.                      *)
LEMMA NodesApart ==
    ASSUME NEW c \in Node, NEW d \in Node, PagesIn(c) \cap PagesIn(d) = {}
    PROVE  \/ NodeAddr(c) + NodeBytes(c) <= NodeAddr(d)
           \/ NodeAddr(d) + NodeBytes(d) <= NodeAddr(c)
<1>1. PICK v \in Nat, w \in Nat : /\ v = Pow2(c.order) /\ v >= 1
                                  /\ w = Pow2(d.order) /\ w >= 1
  BY Shift DEF Node
<1>2. PICK m \in Nat, n \in Nat : m = c.blk /\ n = d.blk
  BY DEF Node
<1>3. PagesIn(c) = m * v .. (m + 1) * v - 1 /\ PagesIn(d) = n * w .. (n + 1) * w - 1
  BY <1>1, <1>2 DEF PagesIn, PagesOf
<1>4. PICK x \in Nat, y \in Nat : x = m * v /\ y = n * w
  OBVIOUS
<1>5. (m + 1) * v = x + v /\ (n + 1) * w = y + w
  BY <1>4
<1>6. x + v <= y \/ y + w <= x
  <2>1. SUFFICES ASSUME x + v > y, y + w > x PROVE FALSE
    OBVIOUS
  <2>2. PagesIn(c) = x .. x + v - 1 /\ PagesIn(d) = y .. y + w - 1
    BY <1>3, <1>4, <1>5
  <2>3. IF x <= y THEN y \in PagesIn(c) /\ y \in PagesIn(d)
                  ELSE x \in PagesIn(c) /\ x \in PagesIn(d)
    BY <1>1, <2>1, <2>2
  <2> QED
    BY <2>3
<1>7. PICK p \in Nat : p = PAGE_SIZE
  BY KmallocAssumption
<1>8. NodeAddr(c) = m * (p * v) /\ NodeBytes(c) = p * v
  BY <1>1, <1>2, <1>7 DEF NodeAddr, NodeBytes
<1>9. NodeAddr(d) = n * (p * w) /\ NodeBytes(d) = p * w
  BY <1>1, <1>2, <1>7 DEF NodeAddr, NodeBytes
<1>10. m * (p * v) = p * x /\ n * (p * w) = p * y
  BY <1>4
<1>11. \A i, j \in Nat : i <= j => p * i <= p * j
  OBVIOUS
<1>12. p * (x + v) = p * x + p * v /\ p * (y + w) = p * y + p * w
  OBVIOUS
<1>13. p * (x + v) <= p * y \/ p * (y + w) <= p * x
  BY <1>6, <1>11
<1> QED
  BY <1>8, <1>9, <1>10, <1>12, <1>13

(* Areas that are apart in a node, or in nodes that share no page, have no *)
(* address in common: what their pointers point to is apart.               *)
LEMMA PointersApart ==
    ASSUME NEW c \in Node, NEW d \in Node,
           NEW a, Inside(a, NodeBytes(c)), NEW b, Inside(b, NodeBytes(d)),
           \/ Block(c) = Block(d) /\ Apart(a, b)
           \/ PagesIn(c) \cap PagesIn(d) = {}
    PROVE  /\ Pointer(c, a) \in Nat /\ Pointer(d, b) \in Nat
           /\ a.size \in Nat /\ a.size >= 8 /\ b.size \in Nat /\ b.size >= 8
           /\ \/ Pointer(c, a) + a.size <= Pointer(d, b)
              \/ Pointer(d, b) + b.size <= Pointer(c, a)
<1>1. /\ NodeBytes(c) \in Nat /\ NodeAddr(c) \in Nat
      /\ NodeBytes(d) \in Nat /\ NodeAddr(d) \in Nat
  BY NodeRange
<1>2. /\ a.at \in Nat /\ a.size \in Nat /\ a.size >= 8
      /\ End(a) = a.at + a.size /\ End(a) <= NodeBytes(c)
  BY <1>1, AreaFacts
<1>3. /\ b.at \in Nat /\ b.size \in Nat /\ b.size >= 8
      /\ End(b) = b.at + b.size /\ End(b) <= NodeBytes(d)
  BY <1>1, AreaFacts
<1>4. /\ Pointer(c, a) = NodeAddr(c) + a.at + 8
      /\ Pointer(d, b) = NodeAddr(d) + b.at + 8
  BY DEF Pointer, SIZEOF_MAREA
<1>5. \/ NodeAddr(c) + End(a) <= NodeAddr(d) + b.at
      \/ NodeAddr(d) + End(b) <= NodeAddr(c) + a.at
  <2>1. CASE Block(c) = Block(d) /\ Apart(a, b)
    <3>1. NodeAddr(c) = NodeAddr(d)
      BY <2>1 DEF Block, NodeAddr, NodeBytes
    <3>2. End(a) <= b.at \/ End(b) <= a.at
      BY <2>1 DEF Apart
    <3> QED
      BY <1>1, <1>2, <1>3, <3>1, <3>2
  <2>2. CASE PagesIn(c) \cap PagesIn(d) = {}
    <3>1. \/ NodeAddr(c) + NodeBytes(c) <= NodeAddr(d)
          \/ NodeAddr(d) + NodeBytes(d) <= NodeAddr(c)
      BY <2>2, NodesApart
    <3> QED
      BY <1>1, <1>2, <1>3, <3>1
  <2> QED
    BY <2>1, <2>2
<1> QED
  BY <1>1, <1>2, <1>3, <1>4, <1>5

(* LONG_ALIGN rounds up.                                                   *)
LEMMA RealSize ==
    ASSUME NEW s \in Nat
    PROVE  real_size(s) \in Nat /\ real_size(s) >= s + 8
<1> DEFINE q == (s + 8 + 3) \div 4
<1>1. q \in Int /\ s + 8 + 3 < q * 4 + 4
  BY DivBounds
<1>2. real_size(s) = 4 * q
  BY DEF real_size, LONG_ALIGN, SIZEOF_MAREA
<1> HIDE DEF q
<1> QED
  BY <1>1, <1>2

(***************************************************************************)
(* What kmalloc and kfree make of a node                                   *)
(***************************************************************************)
LEMMA NewNodeSound ==
    ASSUME NEW k \in Orders, NEW n \in Nat
    PROVE  /\ NodeSound(NewNode(k, n)) /\ NewNode(k, n).used = <<>>
           /\ Block(NewNode(k, n)) = <<k, n>> /\ PagesIn(NewNode(k, n)) = PagesOf(k, n)
<1> DEFINE nd == NewNode(k, n)
           B == PAGE_SIZE * Pow2(k)
           a == [at |-> SIZEOF_MALLOC_NODE, size |-> B - SIZEOF_MALLOC_NODE]
<1>1. nd = [order |-> k, blk |-> n, free |-> <<a>>, used |-> <<>>]
  BY DEF NewNode
<1>2. PICK w \in Nat : w = Pow2(k) /\ w >= 1
  BY Shift
<1>3. PAGE_SIZE \in Nat /\ PAGE_SIZE >= 24
  BY KmallocAssumption DEF SIZEOF_MALLOC_NODE, SIZEOF_MAREA
<1>4. \A p, x \in Nat : x >= 1 => p * x \in Nat /\ p * x >= p
  OBVIOUS
<1>5. B \in Nat /\ B >= 24
  BY <1>2, <1>3, <1>4
<1> HIDE DEF nd, B
<1>6. a \in Area /\ Inside(a, B)
  BY <1>5 DEF Area, Inside, End, SIZEOF_MALLOC_NODE, SIZEOF_MAREA
<1> HIDE DEF a
<1>7. /\ nd.order = k /\ nd.blk = n /\ nd.free = <<a>> /\ nd.used = <<>>
      /\ NodeBytes(nd) = B
  BY <1>1 DEF NodeBytes, B
<1>8. <<a>> \in Seq(Area) /\ Len(<<a>>) = 1 /\ <<a>>[1] = a
  BY <1>6
<1>9. <<>> \in Seq(Area) /\ Len(<<>>) = 0
  OBVIOUS
<1>10. nd \in Node
  BY <1>1, <1>8, <1>9 DEF Node
<1>11. Layout(<<a>>, <<>>, B)
  BY <1>6, <1>8, <1>9 DEF Layout, AllInside, Ordered, AllApart, ApartFrom
<1> QED
  BY <1>7, <1>10, <1>11 DEF NodeSound, Block, PagesIn, nd

LEMMA TakeNode ==
    ASSUME NEW nd, NodeSound(nd), NEW s \in Nat, NEW j \in 1 .. Len(nd.free),
           nd.free[j].size >= real_size(s)
    PROVE  /\ NodeSound(Take(nd, j, s))
           /\ Take(nd, j, s).order = nd.order /\ Take(nd, j, s).blk = nd.blk
           /\ Len(Take(nd, j, s).used) = Len(nd.used) + 1
           /\ Take(nd, j, s).used[1] = Taken(nd.free[j], real_size(s))
           /\ \A k \in 1 .. Len(nd.used) : Take(nd, j, s).used[k + 1] = nd.used[k]
<1> DEFINE B == NodeBytes(nd)
           r == real_size(s)
           f == nd.free
           u == nd.used
           m == Taken(f[j], r)
           v == Cons(m, u)
           g == IF f[j].size - r > SIZEOF_MAREA
                THEN [f EXCEPT ![j] = Rest(f[j], r)]
                ELSE SubSeq(f, 1, j - 1)
           nd2 == [nd EXCEPT !.used = v, !.free = g]
<1>1. Take(nd, j, s) = nd2
  BY DEF Take, Taken, Rest
<1>2. nd \in Node /\ Layout(f, u, B) /\ B \in Nat
  BY NodeRange DEF NodeSound
<1>3. r \in Nat /\ r >= 8
  <2>1. real_size(s) \in Nat /\ real_size(s) >= s + 8
    BY RealSize
  <2>2. \A x \in Nat : x >= s + 8 => x >= 8
    OBVIOUS
  <2> QED
    BY <2>1, <2>2
<1> HIDE DEF B, r
<1>4. Inside(f[j], B)
  BY <1>2 DEF Layout, AllInside
<1>5. f[j].size \in Nat /\ f[j].at \in Nat /\ r <= f[j].size
  <2>1. f[j].size \in Nat /\ f[j].at \in Nat
    BY <1>2, <1>4, AreaFacts
  <2>2. f[j].size >= r
    BY DEF r
  <2> QED
    BY <1>3, <2>1, <2>2
<1>6. Inside(m, B) /\ m.at = f[j].at /\ End(m) = f[j].at + r
  <2>1. PICK a : a = f[j]
    OBVIOUS
  <2>2. Inside(a, B) /\ r <= a.size
    BY <1>4, <1>5, <2>1
  <2>3. /\ Inside(Taken(a, r), B) /\ Taken(a, r).at = a.at
        /\ End(Taken(a, r)) = a.at + r
    BY <1>2, <1>3, <2>2, SplitFacts
  <2> QED
    BY <2>1, <2>3
<1>7. /\ AllInside(g, B) /\ Ordered(g) /\ ApartFrom(g, u)
      /\ \A i \in 1 .. Len(g) : Apart(g[i], m)
  <2>1. CASE f[j].size - r > SIZEOF_MAREA
    <3>1. f[j].size > r + 8
      BY <1>3, <1>5, <2>1 DEF SIZEOF_MAREA
    <3>2. /\ AllInside([f EXCEPT ![j] = Rest(f[j], r)], B)
          /\ Ordered([f EXCEPT ![j] = Rest(f[j], r)])
          /\ ApartFrom([f EXCEPT ![j] = Rest(f[j], r)], u)
          /\ \A i \in 1 .. Len([f EXCEPT ![j] = Rest(f[j], r)]) :
                Apart([f EXCEPT ![j] = Rest(f[j], r)][i], m)
      BY <1>2, <1>3, <3>1, TakeFree
    <3> QED
      BY <2>1, <3>2
  <2>2. CASE ~(f[j].size - r > SIZEOF_MAREA)
    <3>1. /\ AllInside(SubSeq(f, 1, j - 1), B)
          /\ Ordered(SubSeq(f, 1, j - 1))
          /\ ApartFrom(SubSeq(f, 1, j - 1), u)
          /\ \A i \in 1 .. Len(SubSeq(f, 1, j - 1)) : Apart(SubSeq(f, 1, j - 1)[i], m)
      BY <1>2, <1>6, TakeLast
    <3> QED
      BY <2>2, <3>1
  <2> QED
    BY <2>1, <2>2
<1> HIDE DEF g, m
<1>8. \A i \in 1 .. Len(u) : Apart(u[i], m)
  <2> SUFFICES ASSUME NEW i \in 1 .. Len(u) PROVE Apart(u[i], m)
    OBVIOUS
  <2>1. Inside(u[i], B) /\ Apart(f[j], u[i])
    BY <1>2 DEF Layout, AllInside, ApartFrom
  <2>2. u[i].at \in Nat /\ End(u[i]) \in Nat
    BY <1>2, <2>1, AreaFacts
  <2>3. End(f[j]) = f[j].at + f[j].size
    BY <1>2, <1>4, AreaFacts
  <2>4. End(f[j]) <= u[i].at \/ End(u[i]) <= f[j].at
    BY <2>1 DEF Apart
  <2>5. End(m) <= u[i].at \/ End(u[i]) <= m.at
    <3>1. f[j].at + r <= f[j].at + f[j].size
      BY <1>3, <1>5
    <3>2. f[j].at + r \in Nat /\ f[j].at + f[j].size \in Nat
      BY <1>3, <1>5, SMTT(30)
    <3>3. End(m) \in Nat /\ End(f[j]) \in Nat /\ End(m) <= End(f[j]) /\ m.at = f[j].at
      BY <1>6, <2>3, <3>1, <3>2
    <3> QED
      BY <2>2, <2>4, <3>3
  <2> QED
    BY <2>5 DEF Apart
<1>9. /\ Layout(g, v, B) /\ Len(v) = Len(u) + 1
      /\ \A i \in 1 .. Len(u) + 1 : v[i] = IF i = 1 THEN m ELSE u[i - 1]
  <2>1. AllInside(u, B) /\ AllApart(u)
    BY <1>2 DEF Layout
  <2> QED
    BY <1>2, <1>6, <1>7, <1>8, <2>1, UseArea
<1> HIDE DEF v
<1>10. /\ nd2.order = nd.order /\ nd2.blk = nd.blk /\ nd2.free = g /\ nd2.used = v
       /\ nd2 \in Node
  BY <1>2, <1>9 DEF Node, Layout, AllInside
<1>11. NodeBytes(nd2) = B
  BY <1>10 DEF NodeBytes, B
<1> HIDE DEF nd2
<1>12. NodeSound(nd2)
  BY <1>9, <1>10, <1>11 DEF NodeSound
<1>13. Len(u) \in Nat
  BY <1>2, LenProperties DEF Layout, AllInside
<1>14. \A k \in 1 .. Len(u) : v[k + 1] = u[k]
  <2> SUFFICES ASSUME NEW k \in 1 .. Len(u) PROVE v[k + 1] = u[k]
    OBVIOUS
  <2>1. k + 1 \in 1 .. Len(u) + 1 /\ k + 1 # 1 /\ (k + 1) - 1 = k
    BY <1>13
  <2> QED
    BY <1>9, <2>1
<1>15. v[1] = m
  BY <1>9, <1>13
<1> QED
  BY <1>1, <1>9, <1>10, <1>12, <1>14, <1>15 DEF r, m

LEMMA FreeNode ==
    ASSUME NEW nd, NodeSound(nd), NEW j \in 1 .. Len(nd.used)
    PROVE  /\ NodeSound(FreeArea(nd, j))
           /\ FreeArea(nd, j).order = nd.order /\ FreeArea(nd, j).blk = nd.blk
           /\ Len(FreeArea(nd, j).free) > 0
           /\ \A k \in 1 .. Len(nd.used) : k # j =>
                 \E i \in 1 .. Len(FreeArea(nd, j).used) : FreeArea(nd, j).used[i] = nd.used[k]
<1> DEFINE B == NodeBytes(nd)
           g == FreeList(nd, nd.used[j])
           v == RemoveAt(nd.used, j)
           nd2 == [nd EXCEPT !.used = v, !.free = g]
<1>1. FreeArea(nd, j) = nd2
  BY DEF FreeArea
<1>2. nd \in Node /\ Layout(nd.free, nd.used, B) /\ B \in Nat
  BY NodeRange DEF NodeSound
<1>3. Layout(g, v, B) /\ Len(g) > 0
  BY <1>2, FreeLayout
<1>4. \A k \in 1 .. Len(nd.used) : k # j => \E i \in 1 .. Len(v) : v[i] = nd.used[k]
  <2> HIDE DEF B
  <2>1. /\ AllInside(v, B) /\ AllApart(v)
        /\ \A i \in 1 .. Len(v) : \E k \in 1 .. Len(nd.used) :
              k # j /\ v[i] = nd.used[k]
        /\ \A k \in 1 .. Len(nd.used) : k # j =>
              \E i \in 1 .. Len(v) : v[i] = nd.used[k]
        /\ Len(v) = Len(nd.used) - 1
    BY <1>2, UnuseArea
  <2> QED
    BY <2>1
<1> HIDE DEF g, v
<1>5. /\ nd2.order = nd.order /\ nd2.blk = nd.blk /\ nd2.free = g /\ nd2.used = v
      /\ nd2 \in Node
  BY <1>2, <1>3 DEF Node, Layout, AllInside
<1>6. NodeBytes(nd2) = B
  BY <1>5 DEF NodeBytes
<1> HIDE DEF nd2, B
<1>7. NodeSound(nd2)
  BY <1>3, <1>5, <1>6 DEF NodeSound
<1> QED
  BY <1>1, <1>3, <1>4, <1>5, <1>7

(***************************************************************************)
(* What they make of the list of nodes                                     *)
(***************************************************************************)
(* Nodes that share no page are different blocks.                          *)
LEMMA BlocksDiffer ==
    ASSUME NEW l, NodesSound(l), NEW h, NEW fp, PagesGiven(l, h, fp),
           NEW i \in 1 .. Len(l), NEW j \in 1 .. Len(l), Block(l[i]) = Block(l[j])
    PROVE  i = j
<1>1. l[i].order \in Orders /\ l[i].blk \in Nat
  BY DEF NodesSound, NodeSound, Node
<1>2. l[i].blk * Pow2(l[i].order) \in PagesIn(l[i])
  BY <1>1, BlockPages DEF PagesIn
<1>3. PagesIn(l[i]) = PagesIn(l[j])
  BY DEF Block, PagesIn
<1>4. i # j => PagesIn(l[i]) \cap PagesIn(l[j]) = {}
  BY DEF PagesGiven
<1> QED
  BY <1>2, <1>3, <1>4

(* The areas of one node change.                                           *)
LEMMA ChangeNode ==
    ASSUME NEW l, NodesSound(l), NEW h, NEW fp, PagesGiven(l, h, fp),
           NEW i \in 1 .. Len(l), NEW nd, NodeSound(nd),
           nd.order = l[i].order, nd.blk = l[i].blk
    PROVE  /\ NodesSound([l EXCEPT ![i] = nd])
           /\ PagesGiven([l EXCEPT ![i] = nd], h, fp)
           /\ Len([l EXCEPT ![i] = nd]) = Len(l)
           /\ \A k \in 1 .. Len(l) : [l EXCEPT ![i] = nd][k] = IF k = i THEN nd ELSE l[k]
<1> DEFINE t == [l EXCEPT ![i] = nd]
<1>1. l \in Seq(Node) /\ nd \in Node
  BY DEF NodesSound, NodeSound
<1>2. /\ t \in Seq(Node) /\ Len(t) = Len(l)
      /\ \A k \in 1 .. Len(l) : t[k] = IF k = i THEN nd ELSE l[k]
  BY <1>1, ExceptSeq
<1> HIDE DEF t
<1>3. NodesSound(t)
  BY <1>2 DEF NodesSound
<1>4. \A k \in 1 .. Len(l) : Block(t[k]) = Block(l[k]) /\ PagesIn(t[k]) = PagesIn(l[k])
  BY <1>2 DEF Block, PagesIn
<1>5. PagesGiven(t, h, fp)
  BY <1>2, <1>4 DEF PagesGiven
<1> QED
  BY <1>2, <1>3, <1>5 DEF t

(* A node is added in front, on pages that were free.                      *)
LEMMA AddNode ==
    ASSUME NEW l, NodesSound(l), NEW h, NEW fp, PagesGiven(l, h, fp),
           NEW nd, NodeSound(nd), PagesIn(nd) \subseteq fp,
           NEW h2, h2 = h \cup {Block(nd)}, NEW fp2, fp2 = fp \ PagesIn(nd)
    PROVE  /\ NodesSound(Cons(nd, l))
           /\ PagesGiven(Cons(nd, l), h2, fp2)
           /\ Len(Cons(nd, l)) = Len(l) + 1
           /\ \A k \in 1 .. Len(l) : Cons(nd, l)[k + 1] = l[k]
           /\ Cons(nd, l)[1] = nd
<1> DEFINE t == Cons(nd, l)
<1>1. l \in Seq(Node) /\ nd \in Node /\ Len(l) \in Nat
  BY LenProperties DEF NodesSound, NodeSound
<1>2. /\ t \in Seq(Node) /\ Len(t) = Len(l) + 1
      /\ \A k \in 1 .. Len(l) + 1 : t[k] = IF k = 1 THEN nd ELSE l[k - 1]
  <2>1. <<nd>> \in Seq(Node) /\ Len(<<nd>>) = 1 /\ <<nd>>[1] = nd
    BY <1>1
  <2>2. /\ <<nd>> \o l \in Seq(Node)
        /\ Len(<<nd>> \o l) = Len(<<nd>>) + Len(l)
        /\ \A k \in 1 .. Len(<<nd>>) + Len(l) :
              (<<nd>> \o l)[k] = IF k <= Len(<<nd>>) THEN <<nd>>[k] ELSE l[k - Len(<<nd>>)]
    BY <1>1, <2>1, ConcatProperties
  <2>3. t = <<nd>> \o l
    BY DEF Cons
  <2> HIDE DEF t
  <2> QED
    BY <1>1, <2>1, <2>2, <2>3
<1> HIDE DEF t
<1>3. \A k \in 1 .. Len(t) : k = 1 \/ k - 1 \in 1 .. Len(l)
  BY <1>1, <1>2
<1>4. NodesSound(t)
  BY <1>2, <1>3 DEF NodesSound
<1>5. \A k \in 1 .. Len(l) : t[k + 1] = l[k] /\ k + 1 \in 1 .. Len(t)
  <2> SUFFICES ASSUME NEW k \in 1 .. Len(l)
               PROVE  t[k + 1] = l[k] /\ k + 1 \in 1 .. Len(t)
    OBVIOUS
  <2>1. k + 1 \in 1 .. Len(l) + 1 /\ k + 1 # 1 /\ (k + 1) - 1 = k
    BY <1>1
  <2> QED
    BY <1>2, <2>1
<1>6. t[1] = nd /\ 1 \in 1 .. Len(t)
  BY <1>1, <1>2
<1>7. h \cup {Block(nd)} = {Block(t[k]) : k \in 1 .. Len(t)}
  <2>1. h = {Block(l[k]) : k \in 1 .. Len(l)}
    BY DEF PagesGiven
  <2>2. ASSUME NEW x \in h PROVE \E k \in 1 .. Len(t) : x = Block(t[k])
    <3>1. PICK k \in 1 .. Len(l) : x = Block(l[k])
      BY <2>1
    <3> QED
      BY <1>5, <3>1
  <2>3. ASSUME NEW k \in 1 .. Len(t) PROVE Block(t[k]) \in h \cup {Block(nd)}
    BY <1>2, <1>3, <2>1
  <2> QED
    BY <1>6, <2>2, <2>3
<1>8. \A k \in 1 .. Len(l) : PagesIn(l[k]) \cap PagesIn(nd) = {}
  BY DEF PagesGiven
<1>9. ASSUME NEW i \in 1 .. Len(t), NEW k \in 1 .. Len(t), i # k
      PROVE  PagesIn(t[i]) \cap PagesIn(t[k]) = {}
  <2>1. CASE i = 1
    <3>1. k - 1 \in 1 .. Len(l) /\ t[k] = l[k - 1] /\ t[i] = nd
      BY <1>2, <1>3, <1>9, <2>1
    <3> QED
      BY <1>8, <3>1
  <2>2. CASE k = 1
    <3>1. i - 1 \in 1 .. Len(l) /\ t[i] = l[i - 1] /\ t[k] = nd
      BY <1>2, <1>3, <1>9, <2>2
    <3> QED
      BY <1>8, <3>1
  <2>3. CASE i # 1 /\ k # 1
    <3>1. /\ i - 1 \in 1 .. Len(l) /\ t[i] = l[i - 1]
          /\ k - 1 \in 1 .. Len(l) /\ t[k] = l[k - 1] /\ i - 1 # k - 1
      BY <1>2, <1>3, <1>9, <2>3
    <3> QED
      BY <3>1 DEF PagesGiven
  <2> QED
    BY <2>1, <2>2, <2>3
<1>10. \A k \in 1 .. Len(t) : PagesIn(t[k]) \cap (fp \ PagesIn(nd)) = {}
  BY <1>2, <1>3 DEF PagesGiven
<1>11. PagesGiven(t, h2, fp2)
  BY <1>7, <1>9, <1>10 DEF PagesGiven
<1> QED
  BY <1>2, <1>4, <1>5, <1>6, <1>11 DEF t

(* A node goes and its pages are free again.                               *)
LEMMA DropNode ==
    ASSUME NEW l, NodesSound(l), NEW h, NEW fp, PagesGiven(l, h, fp), NEW i \in 1 .. Len(l),
           NEW h2, h2 = h \ {Block(l[i])}, NEW fp2, fp2 = fp \cup PagesIn(l[i])
    PROVE  /\ NodesSound(RemoveAt(l, i))
           /\ PagesGiven(RemoveAt(l, i), h2, fp2)
           /\ \A k \in 1 .. Len(l) : k # i =>
                 \E n \in 1 .. Len(RemoveAt(l, i)) : RemoveAt(l, i)[n] = l[k]
<1> DEFINE t == RemoveAt(l, i)
           K(n) == IF n < i THEN n ELSE n + 1
<1>1. l \in Seq(Node) /\ Len(l) \in Nat
  BY LenProperties DEF NodesSound
<1>2. /\ t \in Seq(Node) /\ Len(t) = Len(l) - 1
      /\ \A n \in 1 .. Len(l) - 1 : t[n] = IF n < i THEN l[n] ELSE l[n + 1]
  BY <1>1, RemoveAtPlace
<1> HIDE DEF t
<1>3. \A n \in 1 .. Len(t) : K(n) \in 1 .. Len(l) /\ K(n) # i /\ t[n] = l[K(n)]
  BY <1>1, <1>2
<1>4. \A n, k \in 1 .. Len(t) : n # k => K(n) # K(k)
  BY <1>1
<1>5. \A k \in 1 .. Len(l) : k # i => \E n \in 1 .. Len(t) : K(n) = k
  <2> SUFFICES ASSUME NEW k \in 1 .. Len(l), k # i
               PROVE  \E n \in 1 .. Len(t) : K(n) = k
    OBVIOUS
  <2>1. CASE k < i
    <3>1. k \in 1 .. Len(t) /\ K(k) = k
      BY <1>1, <1>2, <2>1
    <3> QED
      BY <3>1
  <2>2. CASE k > i
    <3>1. k - 1 \in 1 .. Len(t) /\ K(k - 1) = k
      BY <1>1, <1>2, <2>2
    <3> QED
      BY <3>1
  <2> QED
    BY <2>1, <2>2
<1> HIDE DEF K
<1>6. NodesSound(t)
  BY <1>2, <1>3 DEF NodesSound
<1>7. h \ {Block(l[i])} = {Block(t[n]) : n \in 1 .. Len(t)}
  <2>1. h = {Block(l[k]) : k \in 1 .. Len(l)}
    BY DEF PagesGiven
  <2>2. ASSUME NEW x \in h, x # Block(l[i]) PROVE \E n \in 1 .. Len(t) : x = Block(t[n])
    <3>1. PICK k \in 1 .. Len(l) : x = Block(l[k])
      BY <2>1
    <3>2. k # i
      BY <2>2, <3>1
    <3>3. PICK n \in 1 .. Len(t) : K(n) = k
      BY <1>5, <3>2
    <3> QED
      BY <1>3, <3>1, <3>3
  <2>3. ASSUME NEW n \in 1 .. Len(t) PROVE Block(t[n]) \in h /\ Block(t[n]) # Block(l[i])
    <3>1. K(n) \in 1 .. Len(l) /\ K(n) # i /\ t[n] = l[K(n)]
      BY <1>3
    <3>2. Block(l[K(n)]) = Block(l[i]) => K(n) = i
      BY <3>1, BlocksDiffer
    <3> QED
      BY <2>1, <3>1, <3>2
  <2> QED
    BY <2>2, <2>3
<1>8. ASSUME NEW n \in 1 .. Len(t), NEW k \in 1 .. Len(t), n # k
      PROVE  PagesIn(t[n]) \cap PagesIn(t[k]) = {}
  BY <1>3, <1>4, <1>8 DEF PagesGiven
<1>9. ASSUME NEW n \in 1 .. Len(t)
      PROVE  PagesIn(t[n]) \cap (fp \cup PagesIn(l[i])) = {}
  BY <1>3 DEF PagesGiven
<1>10. PagesGiven(t, h2, fp2)
  BY <1>7, <1>8, <1>9 DEF PagesGiven
<1>11. \A k \in 1 .. Len(l) : k # i => \E n \in 1 .. Len(t) : t[n] = l[k]
  BY <1>3, <1>5
<1> QED
  BY <1>6, <1>10, <1>11 DEF t

(* Different used areas of the nodes point to different memory.            *)
LEMMA UsedApart ==
    ASSUME NEW l, NodesSound(l), NEW h, NEW fp, PagesGiven(l, h, fp),
           NEW i \in 1 .. Len(l), NEW x \in 1 .. Len(l[i].used),
           NEW j \in 1 .. Len(l), NEW y \in 1 .. Len(l[j].used),
           i # j \/ x # y
    PROVE  /\ Pointer(l[i], l[i].used[x]) \in Nat /\ Pointer(l[j], l[j].used[y]) \in Nat
           /\ l[i].used[x].size \in Nat /\ l[i].used[x].size >= 8
           /\ l[j].used[y].size \in Nat /\ l[j].used[y].size >= 8
           /\ \/ Pointer(l[i], l[i].used[x]) + l[i].used[x].size <= Pointer(l[j], l[j].used[y])
              \/ Pointer(l[j], l[j].used[y]) + l[j].used[y].size <= Pointer(l[i], l[i].used[x])
<1>1. PICK c, d, a, b : c = l[i] /\ d = l[j] /\ a = l[i].used[x] /\ b = l[j].used[y]
  OBVIOUS
<1>2. NodeSound(c) /\ NodeSound(d)
  BY <1>1 DEF NodesSound
<1>3. /\ c \in Node /\ d \in Node
      /\ Inside(a, NodeBytes(c)) /\ Inside(b, NodeBytes(d))
  BY <1>1, <1>2 DEF NodeSound, Layout, AllInside
<1>4. \/ Block(c) = Block(d) /\ Apart(a, b)
      \/ PagesIn(c) \cap PagesIn(d) = {}
  <2>1. CASE i # j
    BY <1>1, <2>1 DEF PagesGiven
  <2>2. CASE i = j
    <3>1. x # y /\ c = d /\ b = l[i].used[y] /\ y \in 1 .. Len(l[i].used)
      BY <1>1, <2>2
    <3>2. AllApart(c.used)
      BY <1>2 DEF NodeSound, Layout
    <3> QED
      BY <1>1, <3>1, <3>2 DEF AllApart
  <2> QED
    BY <2>1, <2>2
<1>5. /\ Pointer(c, a) \in Nat /\ Pointer(d, b) \in Nat
      /\ a.size \in Nat /\ a.size >= 8 /\ b.size \in Nat /\ b.size >= 8
      /\ \/ Pointer(c, a) + a.size <= Pointer(d, b)
         \/ Pointer(d, b) + b.size <= Pointer(c, a)
  BY <1>3, <1>4, PointersApart
<1> QED
  BY <1>1, <1>5

(***************************************************************************)
(* The steps keep the invariant                                            *)
(***************************************************************************)
LEMMA SamePages == \A k, n : Pages!PagesOf(k, n) = PagesOf(k, n)
  BY DEF Pages!PagesOf, PagesOf, Pages!Pow2, Pow2

LEMMA InitHeap == Init => HeapInv
<1> SUFFICES ASSUME Init PROVE HeapInv
  OBVIOUS
<1>1. malloc_list = <<>> /\ held = {} /\ live = {} /\ pc = "init" /\ size = 0
  BY DEF Init
<1>2. <<>> \in Seq(Node) /\ Len(<<>>) = 0
  OBVIOUS
<1>3. 1 .. 0 = {}
  OBVIOUS
<1>4. NodesSound(malloc_list)
  BY <1>1, <1>2, <1>3 DEF NodesSound
<1>5. PagesGiven(malloc_list, held, free_pages)
  BY <1>1, <1>2, <1>3 DEF PagesGiven
<1>6. LiveHeld(malloc_list, live)
  BY <1>1 DEF LiveHeld
<1> QED
  BY <1>1, <1>4, <1>5, <1>6 DEF HeapInv, PhaseOK

(* Pages taken for a node of order k: what the callers hold stays.         *)
LEMMA GrowStep ==
    ASSUME NEW l, NEW h, NEW fp, NEW lv, NodesSound(l), PagesGiven(l, h, fp), LiveHeld(l, lv),
           NEW k, NEW n \in Nat, k \in Orders, PagesOf(k, n) \subseteq fp,
           NEW h2, h2 = h \cup {<<k, n>>}, NEW fp2, fp2 = fp \ PagesOf(k, n)
    PROVE  /\ NodesSound(Cons(NewNode(k, n), l))
           /\ PagesGiven(Cons(NewNode(k, n), l), h2, fp2)
           /\ LiveHeld(Cons(NewNode(k, n), l), lv)
<1> DEFINE nd == NewNode(k, n)
           t == Cons(nd, l)
<1>1. NodeSound(nd) /\ Block(nd) = <<k, n>> /\ PagesIn(nd) = PagesOf(k, n)
  BY NewNodeSound
<1>2. /\ NodesSound(t)
      /\ PagesGiven(t, h2, fp2)
      /\ Len(t) = Len(l) + 1
      /\ \A m \in 1 .. Len(l) : t[m + 1] = l[m]
  <2> HIDE DEF nd
  <2>1. /\ NodeSound(nd) /\ PagesIn(nd) \subseteq fp
        /\ h2 = h \cup {Block(nd)} /\ fp2 = fp \ PagesIn(nd)
    BY <1>1
  <2>2. \A x, y, z : /\ NodeSound(x) /\ PagesIn(x) \subseteq fp
                     /\ y = h \cup {Block(x)} /\ z = fp \ PagesIn(x)
                     => /\ NodesSound(Cons(x, l)) /\ PagesGiven(Cons(x, l), y, z)
                        /\ Len(Cons(x, l)) = Len(l) + 1
                        /\ \A m \in 1 .. Len(l) : Cons(x, l)[m + 1] = l[m]
    BY AddNode, SMTT(30)
  <2> QED
    BY <2>1, <2>2, Zenon
<1>3. Len(l) \in Nat
  BY LenProperties DEF NodesSound
<1> HIDE DEF nd, t
<1>4. ASSUME NEW a \in lv
      PROVE  \E i \in 1 .. Len(t) : \E j \in 1 .. Len(t[i].used) : Holds(t, i, j, a)
  <2>1. PICK i \in 1 .. Len(l) : \E j \in 1 .. Len(l[i].used) : Holds(l, i, j, a)
    BY DEF LiveHeld
  <2>2. PICK j \in 1 .. Len(l[i].used) : Holds(l, i, j, a)
    BY <2>1
  <2>3. i + 1 \in 1 .. Len(t) /\ t[i + 1] = l[i]
    BY <1>2, <1>3
  <2>4. j \in 1 .. Len(t[i + 1].used) /\ Holds(t, i + 1, j, a)
    BY <2>2, <2>3 DEF Holds
  <2> QED
    BY <2>3, <2>4
<1>5. LiveHeld(t, lv)
  BY <1>4 DEF LiveHeld
<1> QED
  BY <1>1, <1>2, <1>5 DEF nd, t

(* Area j of node i goes to a caller.                                      *)
LEMMA TakeStep ==
    ASSUME NEW l, NEW h, NEW fp, NEW lv, NodesSound(l), PagesGiven(l, h, fp), LiveHeld(l, lv),
           NEW s \in SIZES, NEW i \in 1 .. Len(l), NEW j \in 1 .. Len(l[i].free),
           l[i].free[j].size >= real_size(s)
    PROVE  /\ NodesSound([l EXCEPT ![i] = Take(l[i], j, s)])
           /\ PagesGiven([l EXCEPT ![i] = Take(l[i], j, s)], h, fp)
           /\ LiveHeld([l EXCEPT ![i] = Take(l[i], j, s)],
                       lv \cup {[p |-> Pointer(l[i], l[i].free[j]), size |-> s]})
<1> DEFINE c == l[i]
           nd == Take(c, j, s)
           t == [l EXCEPT ![i] = nd]
           b == [p |-> Pointer(c, c.free[j]), size |-> s]
<1>0. s \in Nat
  BY KmallocAssumption
<1>1. NodeSound(c)
  BY DEF NodesSound
<1>2. /\ NodeSound(nd) /\ nd.order = c.order /\ nd.blk = c.blk
      /\ Len(nd.used) = Len(c.used) + 1
      /\ nd.used[1] = Taken(c.free[j], real_size(s))
      /\ \A k \in 1 .. Len(c.used) : nd.used[k + 1] = c.used[k]
  BY <1>0, <1>1, TakeNode
<1>3. Len(c.used) \in Nat
  BY <1>1, LenProperties DEF NodeSound, Layout, AllInside
<1>4. b.p = Pointer(c, c.free[j]) /\ b.size = s
  OBVIOUS
<1>5. b = [p |-> b.p, size |-> s]
  OBVIOUS
<1> HIDE DEF nd, b
<1>6. /\ NodesSound(t) /\ PagesGiven(t, h, fp) /\ Len(t) = Len(l)
      /\ \A k \in 1 .. Len(l) : t[k] = IF k = i THEN nd ELSE l[k]
  BY <1>2, ChangeNode
<1> HIDE DEF t
<1>7. t[i] = nd
  BY <1>6
<1>8. 1 \in 1 .. Len(t[i].used) /\ Holds(t, i, 1, b)
  <2>1. Pointer(nd, nd.used[1]) = b.p
    <3>1. nd.used[1].at = c.free[j].at
      BY <1>2 DEF Taken
    <3> QED
      BY <1>2, <1>4, <3>1 DEF Pointer, NodeAddr, NodeBytes
  <2>2. nd.used[1].size = real_size(s)
    BY <1>2 DEF Taken
  <2>3. real_size(s) >= s + SIZEOF_MAREA
    BY <1>0, RealSize DEF SIZEOF_MAREA
  <2>4. 1 \in 1 .. Len(nd.used)
    BY <1>2, <1>3
  <2> QED
    BY <1>4, <1>7, <2>1, <2>2, <2>3, <2>4 DEF Holds
<1>9. ASSUME NEW a \in lv
      PROVE  \E x \in 1 .. Len(t) : \E y \in 1 .. Len(t[x].used) :
                Holds(t, x, y, a) /\ (x # i \/ y # 1)
  <2>1. PICK x \in 1 .. Len(l) : \E y \in 1 .. Len(l[x].used) : Holds(l, x, y, a)
    BY DEF LiveHeld
  <2>2. PICK y \in 1 .. Len(l[x].used) : Holds(l, x, y, a)
    BY <2>1
  <2>3. CASE x # i
    <3>1. t[x] = l[x] /\ x \in 1 .. Len(t)
      BY <1>6, <2>3
    <3>2. y \in 1 .. Len(t[x].used) /\ Holds(t, x, y, a)
      BY <2>2, <3>1 DEF Holds
    <3> QED
      BY <2>3, <3>1, <3>2
  <2>4. CASE x = i
    <3>1. y \in 1 .. Len(c.used) /\ y + 1 \in 1 .. Len(nd.used) /\ y + 1 # 1
      BY <1>2, <1>3, <2>4
    <3>2. nd.used[y + 1] = c.used[y]
      BY <1>2, <3>1
    <3>3. Pointer(nd, c.used[y]) = Pointer(c, c.used[y])
      BY <1>2 DEF Pointer, NodeAddr, NodeBytes
    <3>4. Holds(t, i, y + 1, a)
      BY <1>7, <2>2, <2>4, <3>2, <3>3 DEF Holds
    <3> QED
      BY <1>6, <1>7, <2>4, <3>1, <3>4
  <2> QED
    BY <2>3, <2>4
<1>10. ASSUME NEW a \in lv PROVE a.p # b.p
  <2>1. PICK x \in 1 .. Len(t) : \E y \in 1 .. Len(t[x].used) :
           Holds(t, x, y, a) /\ (x # i \/ y # 1)
    BY <1>9
  <2>2. PICK y \in 1 .. Len(t[x].used) : Holds(t, x, y, a) /\ (x # i \/ y # 1)
    BY <2>1
  <2>3. PICK o \in 1 .. Len(t[i].used) : o = 1
    BY <1>8
  <2>4. i \in 1 .. Len(t)
    BY <1>6
  <2>5. /\ Pointer(t[x], t[x].used[y]) \in Nat /\ Pointer(t[i], t[i].used[o]) \in Nat
        /\ t[x].used[y].size \in Nat /\ t[x].used[y].size >= 8
        /\ t[i].used[o].size \in Nat /\ t[i].used[o].size >= 8
        /\ \/ Pointer(t[x], t[x].used[y]) + t[x].used[y].size <= Pointer(t[i], t[i].used[o])
           \/ Pointer(t[i], t[i].used[o]) + t[i].used[o].size <= Pointer(t[x], t[x].used[y])
    BY <1>6, <2>2, <2>3, <2>4, UsedApart
  <2>6. \A p, q, u, v \in Nat :
           u >= 8 /\ v >= 8 /\ (p + u <= q \/ q + v <= p) => p # q
    OBVIOUS
  <2>7. Pointer(t[x], t[x].used[y]) # Pointer(t[i], t[i].used[o])
    BY <2>5, <2>6
  <2> QED
    BY <1>8, <2>2, <2>3, <2>7 DEF Holds
<1>11. b.p \in Nat
  <2>1. nd \in Node /\ Inside(nd.used[1], NodeBytes(nd))
    BY <1>2, <1>3 DEF NodeSound, Layout, AllInside
  <2>2. NodeAddr(nd) \in Nat /\ NodeBytes(nd) \in Nat
    BY <2>1, NodeRange
  <2>3. nd.used[1].at \in Nat
    BY <2>1, <2>2, AreaFacts
  <2>4. Pointer(nd, nd.used[1]) \in Nat
    BY <2>2, <2>3, SMTT(30) DEF Pointer, SIZEOF_MAREA
  <2> QED
    BY <1>7, <1>8, <2>4 DEF Holds
<1>12. LiveHeld(t, lv \cup {b})
  <2>1. lv \cup {b} \subseteq [p : Nat, size : SIZES]
    BY <1>5, <1>11 DEF LiveHeld
  <2>2. \A a \in lv \cup {b} :
           \E x \in 1 .. Len(t) : \E y \in 1 .. Len(t[x].used) : Holds(t, x, y, a)
    BY <1>6, <1>8, <1>9
  <2>3. \A a, d \in lv \cup {b} : a.p = d.p => a = d
    BY <1>10 DEF LiveHeld
  <2> QED
    BY <2>1, <2>2, <2>3 DEF LiveHeld
<1> QED
  BY <1>6, <1>12 DEF t, b, nd

(* Area j of node i is given back by its caller.  The node stays.          *)
LEMMA FreeStep ==
    ASSUME NEW l, NEW h, NEW fp, NEW lv, NodesSound(l), PagesGiven(l, h, fp), LiveHeld(l, lv),
           NEW i \in 1 .. Len(l), NEW j \in 1 .. Len(l[i].used),
           NEW p, p = Pointer(l[i], l[i].used[j]), NEW lv2, lv2 = {a \in lv : a.p # p}
    PROVE  /\ NodesSound([l EXCEPT ![i] = FreeArea(l[i], j)])
           /\ PagesGiven([l EXCEPT ![i] = FreeArea(l[i], j)], h, fp)
           /\ LiveHeld([l EXCEPT ![i] = FreeArea(l[i], j)], lv2)
<1> DEFINE c == l[i]
           nd == FreeArea(c, j)
           t == [l EXCEPT ![i] = nd]
<1>1. NodeSound(c)
  BY DEF NodesSound
<1>2. /\ NodeSound(nd) /\ nd.order = c.order /\ nd.blk = c.blk
      /\ \A k \in 1 .. Len(c.used) : k # j =>
            \E n \in 1 .. Len(nd.used) : nd.used[n] = c.used[k]
  BY <1>1, FreeNode
<1> HIDE DEF nd
<1>3. /\ NodesSound(t) /\ PagesGiven(t, h, fp) /\ Len(t) = Len(l)
      /\ \A k \in 1 .. Len(l) : t[k] = IF k = i THEN nd ELSE l[k]
  BY <1>2, ChangeNode
<1> HIDE DEF t
<1>4. ASSUME NEW a \in lv2
      PROVE  \E x \in 1 .. Len(t) : \E y \in 1 .. Len(t[x].used) : Holds(t, x, y, a)
  <2>1. PICK x \in 1 .. Len(l) : \E y \in 1 .. Len(l[x].used) : Holds(l, x, y, a)
    BY DEF LiveHeld
  <2>2. PICK y \in 1 .. Len(l[x].used) : Holds(l, x, y, a)
    BY <2>1
  <2>3. CASE x # i
    <3>1. t[x] = l[x] /\ x \in 1 .. Len(t)
      BY <1>3, <2>3
    <3>2. y \in 1 .. Len(t[x].used) /\ Holds(t, x, y, a)
      BY <2>2, <3>1 DEF Holds
    <3> QED
      BY <3>1, <3>2
  <2>4. CASE x = i
    <3>1. y # j
      BY <2>2, <2>4 DEF Holds
    <3>2. PICK n \in 1 .. Len(nd.used) : nd.used[n] = c.used[y]
      BY <1>2, <2>4, <3>1
    <3>3. Pointer(nd, c.used[y]) = Pointer(c, c.used[y])
      BY <1>2 DEF Pointer, NodeAddr, NodeBytes
    <3>4. t[i] = nd /\ i \in 1 .. Len(t)
      BY <1>3
    <3>5. Holds(t, i, n, a)
      BY <2>2, <2>4, <3>2, <3>3, <3>4 DEF Holds
    <3> QED
      BY <3>2, <3>4, <3>5
  <2> QED
    BY <2>3, <2>4
<1>5. LiveHeld(t, lv2)
  BY <1>4 DEF LiveHeld
<1> QED
  BY <1>3, <1>5 DEF t, nd

(* The node goes because it has no used area left.                         *)
LEMMA RecycleStep ==
    ASSUME NEW l, NEW h, NEW fp, NEW lv, NodesSound(l), PagesGiven(l, h, fp), LiveHeld(l, lv),
           NEW i \in 1 .. Len(l), NEW j \in 1 .. Len(l[i].used),
           Recyclable(i, FreeArea(l[i], j)),
           NEW lv2, lv2 \subseteq lv, \A a \in lv2 : a.p # Pointer(l[i], l[i].used[j])
    PROVE  /\ NodesSound(RemoveAt(l, i))
           /\ PagesGiven(RemoveAt(l, i), h \ {Block(l[i])}, fp \cup PagesIn(l[i]))
           /\ LiveHeld(RemoveAt(l, i), lv2)
<1> DEFINE c == l[i]
           t == RemoveAt(l, i)
<1>1. NodeSound(c)
  BY DEF NodesSound
<1>2. /\ NodeSound(FreeArea(c, j))
      /\ FreeArea(c, j).order = c.order /\ FreeArea(c, j).blk = c.blk
      /\ Len(FreeArea(c, j).free) > 0
      /\ \A k \in 1 .. Len(c.used) : k # j =>
            \E n \in 1 .. Len(FreeArea(c, j).used) : FreeArea(c, j).used[n] = c.used[k]
  BY <1>1, FreeNode
<1>3. PICK nd : nd = FreeArea(c, j)
  OBVIOUS
<1>4. Len(nd.used) = 0
  <2>1. nd.free[1].size + SIZEOF_MALLOC_NODE = NodeBytes(nd)
    BY <1>3 DEF Recyclable
  <2>2. NodeBytes(nd) \in Nat /\ Layout(nd.free, nd.used, NodeBytes(nd))
    BY <1>2, <1>3, NodeRange DEF NodeSound
  <2> QED
    BY <1>2, <1>3, <2>1, <2>2, AllFree
<1>5. \A k \in 1 .. Len(c.used) : k = j
  BY <1>2, <1>3, <1>4
<1>7. /\ NodesSound(t) /\ PagesGiven(t, h \ {Block(c)}, fp \cup PagesIn(c))
      /\ \A k \in 1 .. Len(l) : k # i => \E n \in 1 .. Len(t) : t[n] = l[k]
  BY DropNode
<1> HIDE DEF t
<1>8. ASSUME NEW a \in lv2
      PROVE  \E x \in 1 .. Len(t) : \E y \in 1 .. Len(t[x].used) : Holds(t, x, y, a)
  <2>1. PICK x \in 1 .. Len(l) : \E y \in 1 .. Len(l[x].used) : Holds(l, x, y, a)
    BY DEF LiveHeld
  <2>2. PICK y \in 1 .. Len(l[x].used) : Holds(l, x, y, a)
    BY <2>1
  <2>3. x # i
    <3>1. CASE x = i
      <4>1. y = j
        BY <1>5, <3>1
      <4> QED
        BY <2>2, <3>1, <4>1 DEF Holds
    <3> QED
      BY <3>1
  <2>4. PICK n \in 1 .. Len(t) : t[n] = l[x]
    BY <1>7, <2>3
  <2>5. y \in 1 .. Len(t[n].used) /\ Holds(t, n, y, a)
    BY <2>2, <2>4 DEF Holds
  <2> QED
    BY <2>5
<1>9. LiveHeld(t, lv2)
  BY <1>8 DEF LiveHeld
<1> QED
  BY <1>7, <1>9 DEF t

(* Every step keeps the invariant.                                         *)
LEMMA NextHeap == HeapInv /\ [Next]_vars => HeapInv'
<1> SUFFICES ASSUME HeapInv, [Next]_vars PROVE HeapInv'
  OBVIOUS
<1>1. /\ NodesSound(malloc_list) /\ PagesGiven(malloc_list, held, free_pages)
      /\ LiveHeld(malloc_list, live) /\ PhaseOK
  BY DEF HeapInv
<1>2. PAGE_CNT \in Nat
  BY KmallocAssumption
<1>3. ASSUME NEW k, NEW n \in 0 .. PAGE_CNT - 1, Pages!Alloc(k, n),
             malloc_list' = Cons(NewNode(k, n), malloc_list), UNCHANGED live
      PROVE  /\ NodesSound(malloc_list') /\ PagesGiven(malloc_list', held', free_pages')
             /\ LiveHeld(malloc_list', live')
  <2>1. /\ k \in Orders /\ n \in Nat /\ PagesOf(k, n) \subseteq free_pages
        /\ held' = held \cup {<<k, n>>} /\ free_pages' = free_pages \ PagesOf(k, n)
    BY <1>2, <1>3, SamePages DEF Pages!Alloc, Pages!Available, Pages!Orders, Orders
  <2>2. /\ NodesSound(Cons(NewNode(k, n), malloc_list))
        /\ PagesGiven(Cons(NewNode(k, n), malloc_list), held', free_pages')
        /\ LiveHeld(Cons(NewNode(k, n), malloc_list), live)
    BY <1>1, <2>1, GrowStep
  <2> QED
    BY <1>3, <2>2
<1>4. CASE kmalloc_init
  <2>1. PICK n \in 0 .. PAGE_CNT - 1 :
           Pages!Alloc(0, n) /\ malloc_list' = <<NewNode(0, n)>>
    BY <1>4 DEF kmalloc_init
  <2>2. malloc_list = <<>> /\ UNCHANGED live
    BY <1>1, <1>4 DEF kmalloc_init, PhaseOK
  <2>3. malloc_list' = Cons(NewNode(0, n), malloc_list)
    BY <2>1, <2>2 DEF Cons
  <2>4. /\ NodesSound(malloc_list') /\ PagesGiven(malloc_list', held', free_pages')
        /\ LiveHeld(malloc_list', live')
    BY <1>3, <2>1, <2>2, <2>3
  <2>5. PhaseOK'
    BY <1>1, <1>4 DEF kmalloc_init, PhaseOK
  <2> QED
    BY <2>4, <2>5 DEF HeapInv
<1>5. CASE KmallocCall
  <2>1. UNCHANGED <<malloc_list, held, free_pages, live>>
    BY <1>5 DEF KmallocCall, page_vars
  <2>2. PhaseOK'
    BY <1>1, <1>5 DEF KmallocCall, PhaseOK
  <2> QED
    BY <1>1, <2>1, <2>2 DEF HeapInv
<1>6. CASE KmallocTake
  <2>1. PICK i, j : /\ i = Min(Serving(size)) /\ j = Min(Fitting(malloc_list[i], size))
                    /\ malloc_list' = [malloc_list EXCEPT ![i] = Take(@, j, size)]
                    /\ live' = live \cup
                          {[p |-> Pointer(malloc_list[i], malloc_list[i].free[j]), size |-> size]}
    BY <1>6 DEF KmallocTake
  <2>2. DOMAIN malloc_list = 1 .. Len(malloc_list) /\ Len(malloc_list) \in Nat
    BY <1>1, LenProperties DEF NodesSound
  <2>3. i \in 1 .. Len(malloc_list) /\ Fitting(malloc_list[i], size) # {}
    <3>0. Serving(size) # {}
      BY <1>6 DEF KmallocTake
    <3>1. Serving(size) \in SUBSET Nat
      BY <2>2 DEF Serving
    <3>2. i \in Serving(size)
      BY <2>1, <3>0, <3>1, MinElement
    <3> QED
      BY <2>2, <3>2 DEF Serving
  <2>4. /\ DOMAIN malloc_list[i].free = 1 .. Len(malloc_list[i].free)
        /\ Len(malloc_list[i].free) \in Nat
    BY <1>1, <2>3, LenProperties DEF NodesSound, NodeSound, Layout, AllInside
  <2>5. j \in 1 .. Len(malloc_list[i].free) /\ malloc_list[i].free[j].size >= real_size(size)
    <3>1. Fitting(malloc_list[i], size) \in SUBSET Nat
      BY <2>4 DEF Fitting
    <3>2. j \in Fitting(malloc_list[i], size)
      BY <2>1, <2>3, <3>1, MinElement
    <3> QED
      BY <2>4, <3>2 DEF Fitting
  <2>6. size \in SIZES /\ UNCHANGED <<held, free_pages>>
    BY <1>1, <1>6 DEF KmallocTake, PhaseOK, page_vars
  <2>7. malloc_list' = [malloc_list EXCEPT ![i] = Take(malloc_list[i], j, size)]
    BY <2>1
  <2>8. /\ NodesSound([malloc_list EXCEPT ![i] = Take(malloc_list[i], j, size)])
        /\ PagesGiven([malloc_list EXCEPT ![i] = Take(malloc_list[i], j, size)],
                      held, free_pages)
        /\ LiveHeld([malloc_list EXCEPT ![i] = Take(malloc_list[i], j, size)],
                    live \cup {[p |-> Pointer(malloc_list[i], malloc_list[i].free[j]),
                                size |-> size]})
    BY <1>1, <2>3, <2>5, <2>6, TakeStep
  <2>9. PhaseOK'
    BY <1>6 DEF KmallocTake, PhaseOK
  <2> QED
    BY <2>1, <2>6, <2>7, <2>8, <2>9 DEF HeapInv
<1>7. CASE KmallocGrow
  <2>1. UNCHANGED <<live, size>> /\ pc = "kmalloc" /\ size \in SIZES
    BY <1>1, <1>7 DEF KmallocGrow, PhaseOK
  <2>2. CASE /\ \E n \in 0 .. PAGE_CNT - 1 :
                   /\ Pages!Alloc(order_of(size), n)
                   /\ malloc_list' = Cons(NewNode(order_of(size), n), malloc_list)
             /\ UNCHANGED pc
    <3>1. PICK n \in 0 .. PAGE_CNT - 1 :
             /\ Pages!Alloc(order_of(size), n)
             /\ malloc_list' = Cons(NewNode(order_of(size), n), malloc_list)
      BY <2>2
    <3>2. /\ NodesSound(malloc_list') /\ PagesGiven(malloc_list', held', free_pages')
          /\ LiveHeld(malloc_list', live')
      BY <1>3, <2>1, <3>1
    <3>3. PhaseOK'
      BY <1>1, <2>1, <2>2 DEF PhaseOK
    <3> QED
      BY <3>2, <3>3 DEF HeapInv
  <2>3. CASE Pages!Halt(order_of(size)) /\ pc' = "bug" /\ UNCHANGED malloc_list
    <3>1. UNCHANGED <<held, free_pages, malloc_list, live>>
      BY <2>1, <2>3 DEF Pages!Halt
    <3>2. PhaseOK'
      BY <1>1, <2>1, <2>3 DEF PhaseOK
    <3> QED
      BY <1>1, <3>1, <3>2 DEF HeapInv
  <2> QED
    BY <1>7, <2>2, <2>3 DEF KmallocGrow
<1>8. CASE Kfree
  <2>1. PICK a \in live : kfree(a.p)
    BY <1>8 DEF Kfree
  <2>2. PICK p : p = a.p
    OBVIOUS
  <2>3. kfree(p)
    BY <2>1, <2>2
  <2>4. /\ DOMAIN malloc_list = 1 .. Len(malloc_list)
        /\ \A i \in 1 .. Len(malloc_list) :
              DOMAIN malloc_list[i].used = 1 .. Len(malloc_list[i].used)
    BY <1>1, LenProperties DEF NodesSound, NodeSound, Layout, AllInside
  <2>5. PICK i \in 1 .. Len(malloc_list) : \E j \in 1 .. Len(malloc_list[i].used) :
           LET nd == FreeArea(malloc_list[i], j)
           IN  /\ Pointer(malloc_list[i], malloc_list[i].used[j]) = p
               /\ IF WritesNull(malloc_list[i], malloc_list[i].used[j]) /\ ~LOW_MAPPED
                  THEN /\ pc' = "panic"
                       /\ malloc_list' = [malloc_list EXCEPT ![i] = nd]
                       /\ UNCHANGED page_vars
                  ELSE /\ UNCHANGED pc
                       /\ IF Recyclable(i, nd)
                          THEN /\ malloc_list' = RemoveAt(malloc_list, i)
                               /\ Pages!Free(nd.order, nd.blk)
                          ELSE /\ malloc_list' = [malloc_list EXCEPT ![i] = nd]
                               /\ UNCHANGED page_vars
    BY <2>3, <2>4 DEF kfree
  <2>6. PICK j \in 1 .. Len(malloc_list[i].used) : \E nd :
           /\ nd = FreeArea(malloc_list[i], j)
           /\ Pointer(malloc_list[i], malloc_list[i].used[j]) = p
           /\ pc' \in {"panic", pc}
           /\ \/ /\ malloc_list' = [malloc_list EXCEPT ![i] = nd]
                 /\ UNCHANGED page_vars
              \/ /\ Recyclable(i, nd)
                 /\ malloc_list' = RemoveAt(malloc_list, i)
                 /\ Pages!Free(nd.order, nd.blk)
    BY <2>5
  <2>6a. PICK nd :
           /\ nd = FreeArea(malloc_list[i], j)
           /\ Pointer(malloc_list[i], malloc_list[i].used[j]) = p
           /\ pc' \in {"panic", pc}
           /\ \/ /\ malloc_list' = [malloc_list EXCEPT ![i] = nd]
                 /\ UNCHANGED page_vars
              \/ /\ Recyclable(i, nd)
                 /\ malloc_list' = RemoveAt(malloc_list, i)
                 /\ Pages!Free(nd.order, nd.blk)
    BY <2>6
  <2>7. live' = {b \in live : b.p # p} /\ UNCHANGED size /\ pc = "ready"
    BY <2>3 DEF kfree
  <2>8. PhaseOK'
    BY <1>1, <2>6a, <2>7 DEF PhaseOK
  <2>9. CASE malloc_list' = [malloc_list EXCEPT ![i] = nd] /\ UNCHANGED page_vars
    <3>1. UNCHANGED <<held, free_pages>>
      BY <2>9 DEF page_vars
    <3>2. /\ NodesSound([malloc_list EXCEPT ![i] = FreeArea(malloc_list[i], j)])
          /\ PagesGiven([malloc_list EXCEPT ![i] = FreeArea(malloc_list[i], j)],
                        held, free_pages)
          /\ LiveHeld([malloc_list EXCEPT ![i] = FreeArea(malloc_list[i], j)], live')
      BY <1>1, <2>6a, <2>7, FreeStep
    <3> QED
      BY <2>6a, <2>8, <2>9, <3>1, <3>2 DEF HeapInv
  <2>10. CASE /\ Recyclable(i, nd)
              /\ malloc_list' = RemoveAt(malloc_list, i)
              /\ Pages!Free(nd.order, nd.blk)
    <3>1. /\ held' = held \ {<<nd.order, nd.blk>>}
          /\ free_pages' = free_pages \cup PagesOf(nd.order, nd.blk)
      BY <2>10, SamePages DEF Pages!Free
    <3>2. /\ NodesSound(RemoveAt(malloc_list, i))
          /\ PagesGiven(RemoveAt(malloc_list, i), held', free_pages')
          /\ LiveHeld(RemoveAt(malloc_list, i), live')
      <4>1. nd.order = malloc_list[i].order /\ nd.blk = malloc_list[i].blk
        BY <1>1, <2>6a, FreeNode DEF NodesSound
      <4>2. PICK lv2 : lv2 = live'
        OBVIOUS
      <4>3. lv2 \subseteq live /\ \A b \in lv2 : b.p # Pointer(malloc_list[i], malloc_list[i].used[j])
        BY <2>6a, <2>7, <4>2
      <4>4. /\ held' = held \ {Block(malloc_list[i])}
            /\ free_pages' = free_pages \cup PagesIn(malloc_list[i])
        BY <3>1, <4>1 DEF Block, PagesIn
      <4>5. Recyclable(i, FreeArea(malloc_list[i], j))
        BY <2>6a, <2>10
      <4>6. /\ NodesSound(RemoveAt(malloc_list, i))
            /\ PagesGiven(RemoveAt(malloc_list, i), held \ {Block(malloc_list[i])},
                          free_pages \cup PagesIn(malloc_list[i]))
            /\ LiveHeld(RemoveAt(malloc_list, i), lv2)
        BY <1>1, <4>3, <4>5, RecycleStep
      <4> QED
        BY <4>2, <4>4, <4>6
    <3> QED
      BY <2>8, <2>10, <3>2 DEF HeapInv
  <2> QED
    BY <2>6a, <2>9, <2>10
<1>9. CASE KfreeIllegal
  <2>1. UNCHANGED <<malloc_list, held, free_pages, live>>
    BY <1>9 DEF KfreeIllegal, page_vars
  <2>2. PhaseOK'
    BY <1>1, <1>9 DEF KfreeIllegal, PhaseOK
  <2> QED
    BY <1>1, <2>1, <2>2 DEF HeapInv
<1>10. CASE UNCHANGED vars
  <2>1. UNCHANGED <<malloc_list, held, free_pages, live, pc, size>>
    BY <1>10 DEF vars, page_vars
  <2> QED
    BY <1>1, <2>1 DEF HeapInv, PhaseOK
<1>11. CASE Stopped
  BY <1>10, <1>11 DEF Stopped
<1> QED
  BY <1>4, <1>5, <1>6, <1>7, <1>8, <1>9, <1>10, <1>11 DEF Next

(* kmalloc_init, kmalloc and kfree keep the nodes, their areas, the pages   *)
(* and what the callers hold in agreement.                                 *)
THEOREM HeapInvariance == Spec => []HeapInv
  BY InitHeap, NextHeap, PTL DEF Spec

(***************************************************************************)
(* What the invariant says of the heap                                     *)
(***************************************************************************)
(* A function that names each element of T once counts them.               *)
LEMMA CountAll ==
    ASSUME NEW n \in Nat, NEW T, NEW f \in Surjection(1 .. n, T), f \in Injection(1 .. n, T)
    PROVE  Cardinality(T) = n
<1>1. IsFiniteSet(1 .. n) /\ Cardinality(1 .. n) = n
  BY FS_Interval
<1> QED
  BY <1>1, FS_Surjection

(* Area k of the free list f followed by the used list u                   *)
AreaOf(f, u, k) == IF k <= Len(f) THEN f[k] ELSE u[k - Len(f)]

LEMMA AreasApart ==
    ASSUME NEW B \in Nat, NEW f, NEW u, Layout(f, u, B),
           NEW i \in 1 .. Len(f) + Len(u), NEW k \in 1 .. Len(f) + Len(u), i # k
    PROVE  /\ Inside(AreaOf(f, u, i), B) /\ Inside(AreaOf(f, u, k), B)
           /\ Apart(AreaOf(f, u, i), AreaOf(f, u, k))
           /\ AreaOf(f, u, i) # AreaOf(f, u, k)
<1>1. Len(f) \in Nat /\ Len(u) \in Nat
  BY LenProperties DEF Layout, AllInside
<1>2. /\ \A x \in 1 .. Len(f) : Inside(f[x], B)
      /\ \A x \in 1 .. Len(u) : Inside(u[x], B)
  BY DEF Layout, AllInside
<1>3. \A x \in 1 .. Len(f) : f[x].at \in Nat /\ End(f[x]) \in Nat
  BY <1>2, AreaFacts
<1>4. \A x \in 1 .. Len(f) + Len(u) :
         \/ x \in 1 .. Len(f) /\ AreaOf(f, u, x) = f[x]
         \/ x > Len(f) /\ x - Len(f) \in 1 .. Len(u) /\ AreaOf(f, u, x) = u[x - Len(f)]
  BY <1>1 DEF AreaOf
<1>5. \A x \in 1 .. Len(f) + Len(u) : Inside(AreaOf(f, u, x), B)
  BY <1>2, <1>4
<1>6. Apart(AreaOf(f, u, i), AreaOf(f, u, k))
  <2>1. CASE i \in 1 .. Len(f) /\ k \in 1 .. Len(f)
    <3>1. AreaOf(f, u, i) = f[i] /\ AreaOf(f, u, k) = f[k]
      BY <2>1 DEF AreaOf
    <3>2. End(f[i]) < f[k].at \/ End(f[k]) < f[i].at
      BY <2>1 DEF Layout, Ordered
    <3> QED
      BY <1>3, <2>1, <3>1, <3>2 DEF Apart
  <2>2. CASE i \in 1 .. Len(f) /\ k > Len(f)
    <3>1. AreaOf(f, u, i) = f[i] /\ AreaOf(f, u, k) = u[k - Len(f)] /\ k - Len(f) \in 1 .. Len(u)
      BY <1>1, <1>4, <2>2
    <3> QED
      BY <2>2, <3>1 DEF Layout, ApartFrom
  <2>3. CASE i > Len(f) /\ k \in 1 .. Len(f)
    <3>1. AreaOf(f, u, k) = f[k] /\ AreaOf(f, u, i) = u[i - Len(f)] /\ i - Len(f) \in 1 .. Len(u)
      BY <1>1, <1>4, <2>3
    <3>2. Apart(f[k], u[i - Len(f)])
      BY <2>3, <3>1 DEF Layout, ApartFrom
    <3> QED
      BY <3>1, <3>2 DEF Apart
  <2>4. CASE i > Len(f) /\ k > Len(f)
    <3>1. /\ AreaOf(f, u, i) = u[i - Len(f)] /\ i - Len(f) \in 1 .. Len(u)
          /\ AreaOf(f, u, k) = u[k - Len(f)] /\ k - Len(f) \in 1 .. Len(u)
          /\ i - Len(f) # k - Len(f)
      BY <1>1, <1>4, <2>4
    <3> QED
      BY <3>1 DEF Layout, AllApart
  <2> QED
    BY <1>1, <2>1, <2>2, <2>3, <2>4
<1>7. AreaOf(f, u, i) # AreaOf(f, u, k)
  <2>1. PICK a : a = AreaOf(f, u, i)
    OBVIOUS
  <2>2. Inside(a, B)
    BY <1>5, <2>1
  <2>3. a.at \in Nat /\ a.size >= 8 /\ a.size \in Nat /\ End(a) = a.at + a.size
    BY <2>2, AreaFacts
  <2>4. ~Apart(a, a)
    BY <2>3 DEF Apart
  <2> QED
    BY <1>6, <2>1, <2>4
<1> QED
  BY <1>5, <1>6, <1>7

(* Every area of a node has one place.                                     *)
LEMMA AreasCounted ==
    ASSUME NEW B \in Nat, NEW f, NEW u, Layout(f, u, B)
    PROVE  /\ \A a \in Range(f) \cup Range(u) :
                 \E k \in 1 .. Len(f) + Len(u) : a = AreaOf(f, u, k)
           /\ Cardinality(Range(f) \cup Range(u)) = Len(f) + Len(u)
<1> DEFINE n == Len(f) + Len(u)
           T == Range(f) \cup Range(u)
           F == [k \in 1 .. n |-> AreaOf(f, u, k)]
<1>1. /\ Len(f) \in Nat /\ DOMAIN f = 1 .. Len(f)
      /\ Len(u) \in Nat /\ DOMAIN u = 1 .. Len(u)
  BY LenProperties DEF Layout, AllInside
<1>2. n \in Nat
  BY <1>1
<1>3. \A k \in 1 .. n : AreaOf(f, u, k) \in T
  <2> SUFFICES ASSUME NEW k \in 1 .. n PROVE AreaOf(f, u, k) \in T
    OBVIOUS
  <2>1. CASE k <= Len(f)
    BY <1>1, <2>1 DEF AreaOf, Range
  <2>2. CASE k > Len(f)
    <3>1. k - Len(f) \in 1 .. Len(u) /\ AreaOf(f, u, k) = u[k - Len(f)]
      BY <1>1, <2>2 DEF AreaOf
    <3> QED
      BY <1>1, <3>1 DEF Range
  <2> QED
    BY <1>1, <2>1, <2>2
<1>4. ASSUME NEW a \in T PROVE \E k \in 1 .. n : a = AreaOf(f, u, k)
  <2>1. CASE a \in Range(f)
    <3>1. PICK k \in 1 .. Len(f) : a = f[k]
      BY <1>1, <2>1 DEF Range
    <3>2. k \in 1 .. n /\ AreaOf(f, u, k) = f[k]
      BY <1>1 DEF AreaOf
    <3> QED
      BY <3>1, <3>2
  <2>2. CASE a \in Range(u)
    <3>1. PICK k \in 1 .. Len(u) : a = u[k]
      BY <1>1, <2>2 DEF Range
    <3>2. Len(f) + k \in 1 .. n /\ ~(Len(f) + k <= Len(f)) /\ Len(f) + k - Len(f) = k
      BY <1>1
    <3>3. AreaOf(f, u, Len(f) + k) = u[k]
      BY <3>2 DEF AreaOf
    <3> QED
      BY <3>1, <3>2, <3>3
  <2> QED
    BY <2>1, <2>2
<1>5. \A i, k \in 1 .. n : i # k => AreaOf(f, u, i) # AreaOf(f, u, k)
  BY AreasApart
<1> HIDE DEF T, n
<1>6. F \in Surjection(1 .. n, T) /\ F \in Injection(1 .. n, T)
  BY <1>3, <1>4, <1>5 DEF Surjection, Injection, IsInjective
<1> HIDE DEF F
<1>7. Cardinality(T) = n
  BY <1>2, <1>6, CountAll
<1> QED
  BY <1>4, <1>7 DEF T, n

(* A node of the list is sound and has a place in it.                      *)
LEMMA NodePlace ==
    ASSUME HeapInv, NEW nd \in Nodes
    PROVE  NodeSound(nd) /\ \E i \in 1 .. Len(malloc_list) : malloc_list[i] = nd
<1>1. /\ DOMAIN malloc_list = 1 .. Len(malloc_list)
      /\ \A i \in 1 .. Len(malloc_list) : NodeSound(malloc_list[i])
  BY LenProperties DEF HeapInv, NodesSound
<1> QED
  BY <1>1 DEF Nodes, Range

(***************************************************************************)
(* The properties of Kmalloc.tla                                           *)
(***************************************************************************)
(* Nodes, areas, allocations and the call in progress are well formed.     *)
THEOREM HeapTyped == Spec => []TypeOK
<1>1. HeapInv => TypeOK
  <2> SUFFICES ASSUME HeapInv PROVE TypeOK
    OBVIOUS
  <2>1. Node \subseteq [order : Nat, blk : Nat, free : Seq(Area), used : Seq(Area)]
    BY KmallocAssumption DEF Node, Orders
  <2>2. malloc_list \in Seq(Node)
    BY DEF HeapInv, NodesSound
  <2> HIDE DEF Node
  <2>3. malloc_list \in Seq([order : Nat, blk : Nat, free : Seq(Area), used : Seq(Area)])
    <3>1. \A S, T : S \subseteq T => Seq(S) \subseteq Seq(T)
      OBVIOUS
    <3> QED
      BY <2>1, <2>2, <3>1, Zenon
  <2> QED
    BY <2>3 DEF HeapInv, PhaseOK, LiveHeld, TypeOK
<1> QED
  BY <1>1, HeapInvariance, PTL

(* The areas of a node lie inside it and apart, whatever was split, merged *)
(* and forgotten before.                                                   *)
THEOREM AreasStayDisjoint == Spec => []AreasDisjoint
<1>1. ASSUME NEW nd, NodeSound(nd)
      PROVE  /\ \A ma \in Areas(nd) :
                   /\ ma.at >= SIZEOF_MALLOC_NODE
                   /\ ma.size >= SIZEOF_MAREA
                   /\ End(ma) <= NodeBytes(nd)
             /\ \A ma, mb \in Areas(nd) : ma # mb => End(ma) <= mb.at \/ End(mb) <= ma.at
             /\ Len(nd.free) + Len(nd.used) = Cardinality(Areas(nd))
  <2>0. PICK B \in Nat : B = NodeBytes(nd)
    BY <1>1, NodeRange DEF NodeSound
  <2>1. PICK f, u : f = nd.free /\ u = nd.used
    OBVIOUS
  <2>2. Layout(f, u, B)
    BY <1>1, <2>0, <2>1 DEF NodeSound
  <2>3. Areas(nd) = Range(f) \cup Range(u)
    BY <2>1 DEF Areas
  <2>4. /\ \A a \in Range(f) \cup Range(u) :
              \E k \in 1 .. Len(f) + Len(u) : a = AreaOf(f, u, k)
        /\ Cardinality(Range(f) \cup Range(u)) = Len(f) + Len(u)
    BY <2>2, AreasCounted
  <2>5. ASSUME NEW ma \in Range(f) \cup Range(u), NEW mb \in Range(f) \cup Range(u), ma # mb
        PROVE  Apart(ma, mb)
    <3>1. PICK i \in 1 .. Len(f) + Len(u), k \in 1 .. Len(f) + Len(u) :
             ma = AreaOf(f, u, i) /\ mb = AreaOf(f, u, k)
      BY <2>4
    <3>2. i # k
      BY <2>5, <3>1
    <3>3. Apart(AreaOf(f, u, i), AreaOf(f, u, k))
      BY <2>2, <3>2, AreasApart
    <3> QED
      BY <3>1, <3>3
  <2>6. ASSUME NEW ma \in Range(f) \cup Range(u)
        PROVE  Inside(ma, B)
    <3>1. (\A k \in DOMAIN f : Inside(f[k], B)) /\ \A k \in DOMAIN u : Inside(u[k], B)
      BY <2>2, LenProperties DEF Layout, AllInside
    <3> QED
      BY <3>1 DEF Range
  <2> QED
    BY <2>0, <2>1, <2>3, <2>4, <2>5, <2>6 DEF Inside, Apart
<1>2. HeapInv => AreasDisjoint
  BY <1>1, NodePlace DEF AreasDisjoint
<1> QED
  BY <1>2, HeapInvariance, PTL

(* The free list of a node is in the order of addresses and neighbours     *)
(* are merged, which the search in kfree relies on.                        *)
THEOREM FreeListStaysOrdered == Spec => []FreeListOrdered
<1>1. ASSUME NEW nd, NodeSound(nd), NEW i \in 1 .. Len(nd.free) - 1
      PROVE  End(nd.free[i]) < nd.free[i + 1].at
  <2>1. Ordered(nd.free) /\ Len(nd.free) \in Nat
    BY <1>1, LenProperties DEF NodeSound, Layout, AllInside
  <2>2. i \in 1 .. Len(nd.free) /\ i + 1 \in 1 .. Len(nd.free) /\ i < i + 1
    BY <2>1
  <2> QED
    BY <2>1, <2>2 DEF Ordered
<1>2. HeapInv => FreeListOrdered
  BY <1>1, NodePlace DEF FreeListOrdered
<1> QED
  BY <1>2, HeapInvariance, PTL

(* kmalloc has exactly the pages of its nodes, one block for each.         *)
THEOREM NodesKeepBlocks == Spec => []NodesOwnBlocks
<1>1. HeapInv => NodesOwnBlocks
  <2> SUFFICES ASSUME HeapInv PROVE NodesOwnBlocks
    OBVIOUS
  <2> DEFINE n == Len(malloc_list)
             F == [i \in 1 .. n |-> Block(malloc_list[i])]
  <2>1. /\ NodesSound(malloc_list) /\ PagesGiven(malloc_list, held, free_pages)
        /\ n \in Nat /\ DOMAIN malloc_list = 1 .. n
    BY LenProperties DEF HeapInv, NodesSound
  <2>2. held = {Block(malloc_list[i]) : i \in 1 .. n}
    BY <2>1 DEF PagesGiven
  <2>3. held = {<<nd.order, nd.blk>> : nd \in Nodes}
    BY <2>1, <2>2 DEF Nodes, Range, Block
  <2>4. \A i, k \in 1 .. n : Block(malloc_list[i]) = Block(malloc_list[k]) => i = k
    BY <2>1, BlocksDiffer
  <2> HIDE DEF n
  <2>5. F \in Surjection(1 .. n, held) /\ F \in Injection(1 .. n, held)
    BY <2>2, <2>4 DEF Surjection, Injection, IsInjective
  <2> HIDE DEF F
  <2>6. Cardinality(held) = n
    BY <2>1, <2>5, CountAll
  <2> QED
    BY <2>3, <2>6 DEF NodesOwnBlocks, n
<1> QED
  BY <1>1, HeapInvariance, PTL

(* What a caller holds stays a used area with room for the request, in     *)
(* pages that are kmalloc's, and no two callers hold a byte together.      *)
THEOREM LiveStaysKept == Spec => []LiveKept
<1>1. HeapInv => LiveKept
  <2> SUFFICES ASSUME HeapInv PROVE LiveKept
    OBVIOUS
  <2>1. /\ NodesSound(malloc_list) /\ PagesGiven(malloc_list, held, free_pages)
        /\ LiveHeld(malloc_list, live)
        /\ DOMAIN malloc_list = 1 .. Len(malloc_list)
    BY LenProperties DEF HeapInv, NodesSound
  <2>2. \A i \in 1 .. Len(malloc_list) :
           DOMAIN malloc_list[i].used = 1 .. Len(malloc_list[i].used)
    BY <2>1, LenProperties DEF NodesSound, NodeSound, Layout, AllInside
  <2>3. ASSUME NEW a \in live
        PROVE  \E nd \in Nodes :
                  /\ <<nd.order, nd.blk>> \in held
                  /\ \E ma \in Range(nd.used) :
                        Pointer(nd, ma) = a.p /\ ma.size >= a.size + SIZEOF_MAREA
    <3>1. PICK i \in 1 .. Len(malloc_list) : \E j \in 1 .. Len(malloc_list[i].used) :
             Holds(malloc_list, i, j, a)
      BY <2>1 DEF LiveHeld
    <3>2. PICK j \in 1 .. Len(malloc_list[i].used) : Holds(malloc_list, i, j, a)
      BY <3>1
    <3>3. malloc_list[i] \in Nodes /\ malloc_list[i].used[j] \in Range(malloc_list[i].used)
      BY <2>1, <2>2 DEF Nodes, Range
    <3>4. <<malloc_list[i].order, malloc_list[i].blk>> \in held
      BY <2>1 DEF PagesGiven, Block
    <3> QED
      BY <3>2, <3>3, <3>4 DEF Holds
  <2>4. ASSUME NEW a \in live, NEW b \in live, a # b
        PROVE  a.p + a.size <= b.p \/ b.p + b.size <= a.p
    <3>1. PICK i \in 1 .. Len(malloc_list) : \E x \in 1 .. Len(malloc_list[i].used) :
             Holds(malloc_list, i, x, a)
      BY <2>1 DEF LiveHeld
    <3>2. PICK x \in 1 .. Len(malloc_list[i].used) : Holds(malloc_list, i, x, a)
      BY <3>1
    <3>3. PICK j \in 1 .. Len(malloc_list) : \E y \in 1 .. Len(malloc_list[j].used) :
             Holds(malloc_list, j, y, b)
      BY <2>1 DEF LiveHeld
    <3>4. PICK y \in 1 .. Len(malloc_list[j].used) : Holds(malloc_list, j, y, b)
      BY <3>3
    <3>5. i # j \/ x # y
      <4>1. a.p # b.p
        BY <2>1, <2>4 DEF LiveHeld
      <4> QED
        BY <3>2, <3>4, <4>1 DEF Holds
    <3>6. PICK c, d, ma, mb : /\ c = malloc_list[i] /\ d = malloc_list[j]
                              /\ ma = malloc_list[i].used[x] /\ mb = malloc_list[j].used[y]
      OBVIOUS
    <3>7. /\ Pointer(c, ma) \in Nat /\ Pointer(d, mb) \in Nat
          /\ ma.size \in Nat /\ mb.size \in Nat
          /\ \/ Pointer(c, ma) + ma.size <= Pointer(d, mb)
             \/ Pointer(d, mb) + mb.size <= Pointer(c, ma)
      BY <2>1, <3>5, <3>6, UsedApart, ZenonT(30)
    <3>8. /\ Pointer(c, ma) = a.p /\ ma.size >= a.size + 8
          /\ Pointer(d, mb) = b.p /\ mb.size >= b.size + 8
      BY <3>2, <3>4, <3>6 DEF Holds, SIZEOF_MAREA
    <3>9. a.size \in Nat /\ b.size \in Nat
      BY <2>1, KmallocAssumption DEF LiveHeld
    <3>10. \A p, q, m, n, r, t \in Nat :
              (p + m <= q \/ q + n <= p) /\ m >= r + 8 /\ n >= t + 8
                 => p + r <= q \/ q + t <= p
      OBVIOUS
    <3>11. /\ a.p \in Nat /\ b.p \in Nat
           /\ a.p + ma.size <= b.p \/ b.p + mb.size <= a.p
      BY <3>7, <3>8
    <3> QED
      BY <3>7, <3>8, <3>9, <3>10, <3>11, SMTT(30)
  <2> QED
    BY <2>3, <2>4 DEF LiveKept
<1> QED
  BY <1>1, HeapInvariance, PTL
=============================================================================
