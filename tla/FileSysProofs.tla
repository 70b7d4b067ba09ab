--------------------------- MODULE FileSysProofs ---------------------------
(***************************************************************************)
(* Theorems about the files and what is below them.                        *)
(***************************************************************************)
EXTENDS FileSys, DataLemmas

(***************************************************************************)
(* The floppy                                                              *)
(***************************************************************************)
LEMMA Multiples ==
    ASSUME NEW j \in Int, NEW k \in Int, NEW d \in Nat \ {0}
    PROVE  /\ j * d \in Int
           /\ (j + 1) * d = j * d + d
           /\ j < k => j * d + d <= k * d
           /\ j * d < k * d => j < k
           /\ (j * d) % d = 0
<1>1. \A p, q \in Int : p <= q => p * d <= q * d
  OBVIOUS
<1>2. j * d \in Int /\ k * d \in Int /\ (j + 1) * d = j * d + d
  OBVIOUS
<1>3. j < k => (j + 1) * d <= k * d
  BY <1>1
<1>4. j * d < k * d => j < k
  BY <1>1, <1>2
<1>5. (j * d) % d = 0
  <2> DEFINE a == j * d
  <2>1. a \in Int /\ j * d <= a /\ a < j * d + d
    BY <1>2
  <2> HIDE DEF a
  <2>2. a \div d = j /\ a % d = a - (a \div d) * d
    BY <2>1, DivUnique, DivBounds
  <2> QED
    BY <2>1, <2>2, <1>2 DEF a
<1> QED
  BY <1>2, <1>3, <1>4, <1>5

LEMMA Geometry ==
    /\ SECTORS_PER_TRACK \in Nat \ {0} /\ HEADS \in Nat \ {0} /\ SECTORS_PER_FD \in Nat \ {0}
    /\ BLOCKS \in Nat \ {0} /\ SECTORS_PER_BLOCK \in Nat \ {0} /\ DISK_BUFFER_MOD \in Nat \ {0}
    /\ SECTORS_PER_TRACK < 256 /\ HEADS <= 256
    /\ BLOCKS * SECTORS_PER_BLOCK \in Nat /\ HEADS * 256 \in Nat
<1>1. \A p, q \in Nat : p * q \in Nat
  OBVIOUS
<1> QED
  BY <1>1, FloppyAssumption, DiskBufferAssumption

(* A transfer that begins at a multiple of its length moves this sector    *)
(* and those behind it, to and from their places in dma_buffer: fd_rw's    *)
(* bytes hold track, head and sector, and no side ends within a transfer.  *)
THEOREM TransferIsItsSectors ==
    ASSUME NEW l \in Nat, l < BLOCKS * SECTORS_PER_BLOCK, l % SECTORS_PER_FD = 0
    PROVE  fd_rw(l) = [n \in 0 .. SECTORS_PER_FD - 1 |-> l + n]
<1> DEFINE T == SECTORS_PER_TRACK
           S == SECTORS_PER_FD
           H == HEADS
           q == l \div T
           r == l % T
<1>1. q \in Nat /\ r \in 0 .. T - 1 /\ q * T \in Nat /\ l = q * T + r
  <2>1. q * T \in Nat /\ q \in Nat
    BY DivNat, Geometry
  <2> QED
    BY <2>1, DivBounds, Geometry
<1>2. r + S <= T
  <2> DEFINE k == T \div S
             j == r \div S
  <2>1. k \in Nat /\ T = k * S
    <3>1. k \in Nat /\ k * S \in Nat
      BY DivNat, Geometry
    <3>2. T % S = T - k * S
      BY DivBounds, Geometry
    <3> QED
      BY <3>1, <3>2, Geometry, FloppyAssumption
  <2>2. q * T = (q * k) * S
    <3>1. \A a, b, c \in Int : a * (b * c) = (a * b) * c
      OBVIOUS
    <3> QED
      BY <1>1, <2>1, <3>1, Geometry
  <2>3. q * k \in Int
    BY <1>1, <2>1
  <2>4. l % S = r % S
    <3> DEFINE m == q * k
    <3>1. l = m * S + r
      BY <1>1, <2>2
    <3>2. m \in Int
      BY <2>3
    <3>3. r \in Int
      BY <1>1, Geometry
    <3> HIDE DEF m, r
    <3>4. (m * S + r) % S = r % S
      BY <3>2, <3>3, DivShift, Geometry
    <3> QED
      BY <3>1, <3>4
  <2>5. r % S = 0
    BY <2>4
  <2>6. j \in Int /\ r = j * S
    <3> HIDE DEF r
    <3>1. r \in Nat
      BY <1>1, Geometry
    <3>2. r % S = r - j * S
      BY <3>1, DivBounds, Geometry
    <3>3. j \in Nat /\ j * S \in Nat
      BY <3>1, DivNat, Geometry
    <3> QED
      BY <2>5, <3>1, <3>2, <3>3
  <2> HIDE DEF j, k, r, q
  <2>7. j < k
    BY <1>1, <2>1, <2>6, Multiples, Geometry
  <2> QED
    BY <2>7, <2>6, <2>1, Multiples, Geometry
<1>3. (r + 1) % 256 = r + 1
  BY <1>1, Geometry
<1>4. /\ (q % H) % 256 = q % H
      /\ q % H \in Nat
      /\ (q \div H) % 256 = q \div H
      /\ (q \div H) * H + (q % H) = q
  <2> HIDE DEF q
  <2>1. q % H \in 0 .. H - 1 /\ q % H = q - (q \div H) * H
    BY <1>1, DivBounds, Geometry
  <2>2. q < 256 * H
    <3> DEFINE b == 256 * H
               c == b * T
    <3>1. c \in Int /\ b \in Int /\ BLOCKS * SECTORS_PER_BLOCK <= c
      BY DiskBufferAssumption, Geometry
    <3>2. l < c /\ l \in Int
      BY <3>1, Geometry
    <3> HIDE DEF b
    <3> QED
      BY <3>1, <3>2, DivLess, Geometry DEF q, b
  <2>3. q \div H < 256
    <3>1. q \in Int /\ H \in Nat \ {0}
      BY <1>1, Geometry
    <3> QED
      BY <2>2, <3>1, DivLess
  <2>4. q \div H \in Nat /\ (q \div H) * H \in Nat
    BY <1>1, DivNat, Geometry
  <2>5. \A n \in 0 .. 255 : n % 256 = n
    OBVIOUS
  <2>6. q % H \in 0 .. 255 /\ q \div H \in 0 .. 255
    BY <2>1, <2>3, <2>4, Geometry
  <2>7. (q % H) % 256 = q % H /\ (q \div H) % 256 = q \div H
    BY <2>5, <2>6, Zenon
  <2>8. (q \div H) * H + (q % H) = q
    <3> DEFINE t == (q \div H) * H
               h == q % H
    <3>1. t \in Int /\ h = q - t /\ q \in Int
      BY <2>1, <2>4, <1>1
    <3> HIDE DEF t, h
    <3>2. t + h = q
      BY <3>1
    <3> QED
      BY <3>2 DEF t, h
  <2> QED
    BY <2>6, <2>7, <2>8
<1>5. Command(l) = [sector |-> r + 1, head |-> q % H, track |-> q \div H]
  BY <1>3, <1>4 DEF Command
<1>6. ASSUME NEW n \in 0 .. S - 1 PROVE Transferred(Command(l), n) = l + n
  <2> HIDE DEF q, r
  <2>1. r + 1 + n <= T
    BY <1>1, <1>2, Geometry
  <2>2. Transferred(Command(l), n) = LinearOf(q \div H, q % H, r + 1 + n)
    BY <2>1, <1>5 DEF Transferred
  <2>3. LinearOf(q \div H, q % H, r + 1 + n) = q * T + (r + 1 + n) - 1
    <3>1. LinearOf(q \div H, q % H, r + 1 + n)
            = ((q \div H) * H + (q % H)) * T + (r + 1 + n) - 1
      BY DEF LinearOf
    <3> QED
      BY <3>1, <1>4, Zenon
  <2> DEFINE qT == q * T
  <2>4. qT \in Nat /\ l = qT + r /\ r \in Int /\ n \in Int
    BY <1>1, Geometry
  <2>5. qT + (r + 1 + n) - 1 = l + n
    BY <2>4
  <2> QED
    BY <2>2, <2>3, <2>5
<1> QED
  BY <1>6, Geometry DEF fd_rw

(***************************************************************************)
(* Sectors and blocks                                                      *)
(***************************************************************************)
(* The sectors of a block, counted from its first.                         *)
LEMMA BlockSectors ==
    ASSUME NEW b \in Int
    PROVE  /\ SectorsOf(b) = b * SECTORS_PER_BLOCK .. b * SECTORS_PER_BLOCK + SECTORS_PER_BLOCK - 1
           /\ b * SECTORS_PER_BLOCK \in Int
           /\ b \in Nat => b * SECTORS_PER_BLOCK \in Nat
<1>1. (b + 1) * SECTORS_PER_BLOCK = b * SECTORS_PER_BLOCK + SECTORS_PER_BLOCK
  BY Multiples, Geometry
<1>2. \A p, q \in Nat : p * q \in Nat
  OBVIOUS
<1>3. b * SECTORS_PER_BLOCK \in Int
  BY Multiples, Geometry
<1> QED
  BY <1>1, <1>2, <1>3, Geometry DEF SectorsOf

(* A sector of a block is on the floppy and in no other block.             *)
LEMMA SectorInBlock ==
    ASSUME NEW b \in Blocks, NEW s \in SectorsOf(b)
    PROVE  /\ s \in Nat /\ s < BLOCKS * SECTORS_PER_BLOCK /\ s \in Sectors
           /\ BlockOf(s) = b
           /\ s >= b * SECTORS_PER_BLOCK /\ s < b * SECTORS_PER_BLOCK + SECTORS_PER_BLOCK
<1>1. b \in Nat /\ b < BLOCKS
  BY Geometry DEF Blocks
<1>2. b * SECTORS_PER_BLOCK + SECTORS_PER_BLOCK <= BLOCKS * SECTORS_PER_BLOCK
  BY <1>1, Multiples, Geometry
<1>3. /\ s \in Nat /\ b * SECTORS_PER_BLOCK \in Nat
      /\ b * SECTORS_PER_BLOCK <= s /\ s < b * SECTORS_PER_BLOCK + SECTORS_PER_BLOCK
  <2> DEFINE m == b * SECTORS_PER_BLOCK
  <2>1. SectorsOf(b) = m .. m + SECTORS_PER_BLOCK - 1 /\ m \in Nat
    BY <1>1, BlockSectors
  <2> HIDE DEF m
  <2>2. s \in Nat /\ m <= s /\ s < m + SECTORS_PER_BLOCK
    BY <2>1, Geometry
  <2> QED
    BY <2>1, <2>2 DEF m
<1>4. s \div SECTORS_PER_BLOCK = b
  BY <1>1, <1>3, DivUnique, Geometry
<1> QED
  BY <1>2, <1>3, <1>4, Geometry DEF Sectors, BlockOf

(* Every sector of the floppy is in one.                                   *)
LEMMA SectorHasBlock ==
    ASSUME NEW s \in Nat, s < BLOCKS * SECTORS_PER_BLOCK
    PROVE  BlockOf(s) \in Blocks /\ s \in SectorsOf(BlockOf(s)) /\ s \in Sectors
<1> DEFINE b == s \div SECTORS_PER_BLOCK
<1>1. b \in Nat
  BY DivNat, Geometry
<1>2. b < BLOCKS
  BY DivLess, Geometry
<1>3. b * SECTORS_PER_BLOCK <= s /\ s < b * SECTORS_PER_BLOCK + SECTORS_PER_BLOCK
  BY DivBounds, Geometry
<1> HIDE DEF b
<1>4. b \in Blocks /\ s \in SectorsOf(b)
  BY <1>1, <1>2, <1>3, BlockSectors, Geometry DEF Blocks
<1> QED
  BY <1>4 DEF BlockOf, b, Sectors

(* What disk_buffer_get reads into a new buffer is the block as it is on   *)
(* the floppy, sector by sector.                                           *)
THEOREM BlockIsRead ==
    ASSUME NEW b \in Blocks
    PROVE  BlockRead(b) = [s \in SectorsOf(b) |-> disk[s]]
<1> DEFINE S == SECTORS_PER_FD
<1>1. ASSUME NEW s \in SectorsOf(b)
      PROVE  fd_rw(s - (s % S))[s % S] = s
  <2>1. s \in Nat /\ s < BLOCKS * SECTORS_PER_BLOCK
    BY SectorInBlock
  <2> DEFINE l == s - (s % S)
             j == s \div S
  <2>2. /\ s % S = s - j * S /\ s % S \in 0 .. S - 1
        /\ j \in Nat /\ j * S \in Nat
    <3>1. s % S = s - j * S /\ s % S \in 0 .. S - 1
      <4>1. s \in Int /\ S \in Nat \ {0}
        BY <2>1, Geometry
      <4> QED
        BY <4>1, DivBounds
    <3>2. j \in Nat /\ j * S \in Nat
      BY <2>1, DivNat, Geometry
    <3> QED
      BY <3>1, <3>2
  <2>3. l = j * S
    BY <2>1, <2>2
  <2>4. l \in Nat /\ l < BLOCKS * SECTORS_PER_BLOCK
    BY <2>1, <2>2, Geometry
  <2>5. l % S = 0
    <3>1. j \in Int
      BY <2>2
    <3> HIDE DEF l, j
    <3>2. (j * S) % S = 0
      BY <3>1, Multiples, Geometry
    <3> QED
      BY <2>3, <3>2
  <2>6. fd_rw(l) = [n \in 0 .. S - 1 |-> l + n]
    BY <2>4, <2>5, TransferIsItsSectors
  <2>7. l + (s % S) = s
    BY <2>1, <2>2, Geometry
  <2> QED
    BY <2>2, <2>6, <2>7
<1> QED
  BY <1>1 DEF BlockRead

(***************************************************************************)
(* The write-back in progress                                              *)
(***************************************************************************)
FirstOf(w) == w.block * SECTORS_PER_BLOCK + w.turn * SECTORS_PER_FD

SycType == [block : Blocks, turn : 0 .. (SECTORS_PER_BLOCK \div SECTORS_PER_FD) - 1]

(* The transfers of a write-back stay in its block and end where it does.  *)
LEMMA TurnPlace ==
    ASSUME NEW w \in SycType
    PROVE  /\ FirstOf(w) \in Nat /\ FirstOf(w) % SECTORS_PER_FD = 0
           /\ \A n \in 0 .. SECTORS_PER_FD - 1 : FirstOf(w) + n \in SectorsOf(w.block)
           /\ w.turn + 1 = SECTORS_PER_BLOCK \div SECTORS_PER_FD
                => FirstOf(w) + SECTORS_PER_FD = w.block * SECTORS_PER_BLOCK + SECTORS_PER_BLOCK
           /\ w.turn + 1 # SECTORS_PER_BLOCK \div SECTORS_PER_FD
                => /\ [w EXCEPT !.turn = @ + 1] \in SycType
                   /\ FirstOf([w EXCEPT !.turn = @ + 1]) = FirstOf(w) + SECTORS_PER_FD
           /\ w # NoSyc
<1> DEFINE S == SECTORS_PER_FD
           B == SECTORS_PER_BLOCK
           k == B \div S
           t == w.turn
           u == [w EXCEPT !.turn = @ + 1]
<1>1. w.block \in Blocks /\ w.block \in Nat /\ w.block < BLOCKS /\ t \in Nat /\ t < k /\ k \in Nat
  BY DivNat, Geometry DEF SycType, Blocks
<1>2. B = k * S /\ k * S \in Nat
  <2>1. k * S \in Nat
    BY DivNat, Geometry
  <2>2. B % S = B - k * S
    BY DivBounds, Geometry
  <2> QED
    BY <2>1, <2>2, DiskBufferAssumption, Geometry
<1>3. t * S \in Nat /\ t * S + S <= k * S /\ (t + 1) * S = t * S + S
  <2>1. \A p, q \in Nat : p * q \in Nat
    OBVIOUS
  <2> HIDE DEF t, k
  <2> QED
    BY <1>1, <2>1, Multiples, Geometry
<1>4. w.block * B \in Nat
      /\ SectorsOf(w.block) = w.block * B .. w.block * B + B - 1
  BY <1>1, BlockSectors
<1>5. FirstOf(w) = w.block * B + t * S
  BY DEF FirstOf
<1>6. FirstOf(w) % S = 0
  <2> DEFINE m == w.block * k
  <2>1. w.block * B = m * S /\ m \in Int
    <3>1. \A a, b, c \in Int : a * (b * c) = (a * b) * c /\ a * b \in Int
      OBVIOUS
    <3> QED
      BY <1>1, <1>2, <3>1, Geometry
  <2> HIDE DEF m, t
  <2>2. \A a, b, c \in Int : (a + b) * c = a * c + b * c
    OBVIOUS
  <2>3. FirstOf(w) = (m + t) * S /\ m + t \in Int
    BY <2>1, <2>2, <1>5, <1>1, Geometry
  <2> QED
    BY <2>3, Multiples, Geometry
<1>7. t + 1 # k => u \in SycType /\ u.turn = t + 1 /\ u.block = w.block
  BY <1>1 DEF SycType
<1>8. t + 1 # k => FirstOf(u) = FirstOf(w) + S
  <2>1. SUFFICES ASSUME t + 1 # k PROVE FirstOf(u) = FirstOf(w) + S
    OBVIOUS
  <2>2. FirstOf(u) = w.block * B + (t + 1) * S
    BY <1>7, <2>1 DEF FirstOf
  <2> HIDE DEF u, t
  <2> QED
    BY <2>2, <1>3, <1>4, <1>5, Geometry
<1>9. t + 1 = k => FirstOf(w) + S = w.block * B + B
  BY <1>2, <1>3, <1>4, <1>5, Geometry
<1>10. FirstOf(w) \in Nat /\ \A n \in 0 .. S - 1 : FirstOf(w) + n \in SectorsOf(w.block)
  BY <1>2, <1>3, <1>4, <1>5, Geometry
<1>11. w # NoSyc
  BY <1>1, Geometry DEF NoSyc
<1> HIDE DEF u, k, t
<1> QED
  BY <1>6, <1>7, <1>8, <1>9, <1>10, <1>11 DEF u, k, t

(* A turn of disk_buffer_syc brings the sectors of one transfer from the   *)
(* buffer to the floppy, each to its own place, and touches no other.      *)
THEOREM TurnWritesItsSectors ==
    ASSUME syc \in SycType, SycTurn
    PROVE  disk' = [s \in Sectors |->
                       IF s \in FirstOf(syc) .. FirstOf(syc) + SECTORS_PER_FD - 1
                       THEN cache.buffer[s] ELSE disk[s]]
<1> DEFINE first == FirstOf(syc)
           S == SECTORS_PER_FD
           moved == fd_rw(first)
           From(s) == CHOOSE n \in DOMAIN moved : moved[n] = s
<1>1. /\ first \in Nat /\ first % S = 0
      /\ \A n \in 0 .. S - 1 : first + n \in SectorsOf(syc.block)
  BY TurnPlace
<1>2. first < BLOCKS * SECTORS_PER_BLOCK
  <2>1. first + 0 \in SectorsOf(syc.block) /\ syc.block \in Blocks
    BY <1>1, Geometry DEF SycType
  <2>2. first + 0 = first
    BY <1>1
  <2> QED
    BY <2>1, <2>2, SectorInBlock
<1>3. moved = [n \in 0 .. S - 1 |-> first + n]
  BY <1>1, <1>2, TransferIsItsSectors
<1>4. disk' = [s \in Sectors |->
                  IF s \in Range(moved) THEN cache.buffer[first + From(s)] ELSE disk[s]]
  BY DEF SycTurn, FirstOf
<1> HIDE DEF first
<1>5. Range(moved) = first .. first + S - 1
  <2>1. Range(moved) = {first + n : n \in 0 .. S - 1}
    BY <1>3 DEF Range
  <2>2. ASSUME NEW s \in first .. first + S - 1
        PROVE  s - first \in 0 .. S - 1 /\ first + (s - first) = s
    BY <1>1, Geometry
  <2>3. \A n \in 0 .. S - 1 : first + n \in first .. first + S - 1
    BY <1>1, Geometry
  <2> QED
    BY <2>1, <2>2, <2>3
<1>6. ASSUME NEW s \in first .. first + S - 1 PROVE first + From(s) = s
  <2>1. DOMAIN moved = 0 .. S - 1
    BY <1>3
  <2>2. s - first \in 0 .. S - 1 /\ moved[s - first] = s
    BY <1>1, <1>3, Geometry
  <2>3. From(s) \in 0 .. S - 1 /\ moved[From(s)] = s
    BY <2>1, <2>2
  <2> QED
    BY <1>1, <1>3, <2>3
<1> QED
  BY <1>4, <1>5, <1>6 DEF first

(***************************************************************************)
(* The cache                                                               *)
(***************************************************************************)
Kept(c) == {b \in Blocks : find_dnode(c, b)}

CacheOK(c) ==
    /\ c = [chain |-> c.chain, buffer |-> c.buffer, busy |-> c.busy]
    /\ c.chain \in [0 .. DISK_BUFFER_MOD - 1 -> Seq(Blocks)]
    /\ \A h \in 0 .. DISK_BUFFER_MOD - 1 : IsInjective(c.chain[h])
    /\ c.buffer = [s \in DOMAIN c.buffer |-> c.buffer[s]]
    /\ DOMAIN c.buffer = UNION {SectorsOf(b) : b \in Kept(c)}
    /\ c.busy \subseteq Blocks

(* A list whose element b, if it is there, moves to the front.             *)
LEMMA ToFront ==
    ASSUME NEW S, NEW s \in Seq(S), IsInjective(s), NEW b \in S
    PROVE  /\ <<b>> \o RemoveFirst(s, b) \in Seq(S)
           /\ IsInjective(<<b>> \o RemoveFirst(s, b))
           /\ Range(<<b>> \o RemoveFirst(s, b)) = Range(s) \cup {b}
<1> DEFINE t == RemoveFirst(s, b)
<1>1. /\ t \in Seq(S) /\ IsInjective(t) /\ b \notin Range(t)
      /\ Range(t) \cup {b} = Range(s) \cup {b}
  <2>1. CASE b \in Range(s)
    BY <2>1, RemoveElements
  <2>2. CASE b \notin Range(s)
    <3>1. t = s
      BY <2>2, RangeEquality DEF RemoveFirst
    <3> QED
      BY <2>2, <3>1
  <2> QED
    BY <2>1, <2>2
<1> HIDE DEF t
<1>2. Cons(b, t) = <<b>> \o t
  BY DEF Cons
<1>3. /\ Cons(b, t) \in Seq(S) /\ IsInjective(Cons(b, t))
      /\ Range(Cons(b, t)) = Range(t) \cup {b}
  BY <1>1, ConsElements
<1> QED
  BY <1>1, <1>2, <1>3 DEF t

(* disk_buffer_get: the block is kept from now on, and busy; what is in    *)
(* the buffers stays, and a new one has what is on the floppy.             *)
LEMMA GetFacts ==
    ASSUME NEW c, CacheOK(c), NEW b \in Blocks
    PROVE  LET g == disk_buffer_get(c, b)
           IN  /\ CacheOK(g)
               /\ Kept(g) = Kept(c) \cup {b}
               /\ g.busy = c.busy \cup {b}
               /\ \A s \in DOMAIN g.buffer :
                     g.buffer[s] = IF s \in DOMAIN c.buffer THEN c.buffer[s] ELSE disk[s]
<1> DEFINE g == disk_buffer_get(c, b)
           M == DISK_BUFFER_MOD
           h == b % M
           front == <<b>> \o RemoveFirst(c.chain[h], b)
<1>1. h \in 0 .. M - 1
  BY DivBounds, Geometry DEF Blocks
<1>2. c.chain[h] \in Seq(Blocks) /\ IsInjective(c.chain[h])
  BY <1>1 DEF CacheOK
<1>3. /\ front \in Seq(Blocks) /\ IsInjective(front)
      /\ Range(front) = Range(c.chain[h]) \cup {b}
  BY <1>2, ToFront
<1>4. /\ g.chain = [c.chain EXCEPT ![h] = front]
      /\ g.busy = c.busy \cup {b}
      /\ g.buffer = IF find_dnode(c, b) THEN c.buffer ELSE Over(BlockRead(b), c.buffer)
      /\ g = [chain |-> g.chain, buffer |-> g.buffer, busy |-> g.busy]
  BY DEF disk_buffer_get
<1> HIDE DEF g, front
<1>5. /\ g.chain \in [0 .. M - 1 -> Seq(Blocks)]
      /\ \A i \in 0 .. M - 1 : g.chain[i] = IF i = h THEN front ELSE c.chain[i]
  BY <1>1, <1>3, <1>4 DEF CacheOK
<1>6. \A i \in 0 .. M - 1 : IsInjective(g.chain[i])
  BY <1>3, <1>5 DEF CacheOK
<1>7. ASSUME NEW x \in Blocks PROVE find_dnode(g, x) <=> find_dnode(c, x) \/ x = b
  <2>1. x % M \in 0 .. M - 1
    BY DivBounds, Geometry DEF Blocks
  <2> QED
    BY <2>1, <1>3, <1>5 DEF find_dnode
<1>8. Kept(g) = Kept(c) \cup {b}
  BY <1>7 DEF Kept
<1>9. DOMAIN c.buffer = UNION {SectorsOf(x) : x \in Kept(c)}
  BY DEF CacheOK
<1>10. CASE find_dnode(c, b)
  <2>1. g.buffer = c.buffer /\ Kept(g) = Kept(c)
    BY <1>4, <1>8, <1>10 DEF Kept
  <2>2. CacheOK(g)
    BY <2>1, <1>4, <1>5, <1>6 DEF CacheOK
  <2> QED
    BY <2>1, <2>2, <1>4, <1>8 DEF g
<1>11. CASE ~find_dnode(c, b)
  <2>1. BlockRead(b) = [s \in SectorsOf(b) |-> disk[s]]
    BY BlockIsRead
  <2>2. g.buffer = [s \in SectorsOf(b) \cup DOMAIN c.buffer |->
                       IF s \in SectorsOf(b) THEN disk[s] ELSE c.buffer[s]]
    BY <1>4, <1>11, <2>1 DEF Over
  <2>3. DOMAIN g.buffer = UNION {SectorsOf(x) : x \in Kept(g)}
    BY <2>2, <1>8, <1>9
  <2>4. ASSUME NEW s \in SectorsOf(b) PROVE s \notin DOMAIN c.buffer
    <3>1. SUFFICES ASSUME NEW x \in Kept(c), s \in SectorsOf(x) PROVE FALSE
      BY <1>9
    <3>2. x \in Blocks /\ x # b
      BY <3>1, <1>11 DEF Kept
    <3> QED
      BY <3>1, <3>2, SectorInBlock
  <2>5. \A s \in DOMAIN g.buffer :
           g.buffer[s] = IF s \in DOMAIN c.buffer THEN c.buffer[s] ELSE disk[s]
    BY <2>2, <2>4
  <2>6. g.buffer = [s \in DOMAIN g.buffer |-> g.buffer[s]]
    BY <2>2
  <2>7. CacheOK(g)
    BY <2>3, <2>6, <1>4, <1>5, <1>6 DEF CacheOK
  <2> QED
    BY <2>5, <2>7, <1>4, <1>8 DEF g
<1> QED
  BY <1>10, <1>11

(* disk_buffer_put on a cache whose buffers differ from the floppy only in *)
(* busy blocks: this one is on its way to the floppy instead.              *)
Unwritten(c, w) ==
    \A s \in DOMAIN c.buffer :
        c.buffer[s] # disk[s] =>
            \/ BlockOf(s) \in c.busy
            \/ w # NoSyc /\ BlockOf(s) = w.block /\ s >= FirstOf(w)

SycOK(c, w) == w = NoSyc \/ (w \in SycType /\ w.block \in Kept(c))

LEMMA PutFacts ==
    ASSUME NEW c, CacheOK(c), NEW b \in Blocks, disk_buffer_put(c, b),
           Unwritten(c, NoSyc), UNCHANGED disk
    PROVE  /\ CacheOK(cache') /\ cache'.buffer = c.buffer /\ Kept(cache') = Kept(c)
           /\ SycOK(cache', syc')
           /\ Unwritten(cache, syc)'
<1> DEFINE d == [c EXCEPT !.busy = @ \ {b}]
           w == [block |-> b, turn |-> 0]
<1>1. CASE find_dnode(c, b)
  <2>1. cache' = d /\ syc' = w
    BY <1>1 DEF disk_buffer_put
  <2>2. /\ d.chain = c.chain /\ d.buffer = c.buffer /\ d.busy = c.busy \ {b}
        /\ d = [chain |-> d.chain, buffer |-> d.buffer, busy |-> d.busy]
    <3>1. c = [chain |-> c.chain, buffer |-> c.buffer, busy |-> c.busy]
      BY DEF CacheOK
    <3>2. d = [chain |-> c.chain, buffer |-> c.buffer, busy |-> c.busy \ {b}]
      BY <3>1
    <3> HIDE DEF d
    <3> QED
      BY <3>2
  <2> HIDE DEF d
  <2>3. Kept(d) = Kept(c)
    BY <2>2 DEF Kept, find_dnode
  <2>4. CacheOK(d)
    BY <2>2, <2>3 DEF CacheOK
  <2>5. w \in SycType /\ w.block = b /\ b \in Kept(d)
    <3>1. SECTORS_PER_BLOCK \div SECTORS_PER_FD >= 1
      <4> DEFINE k == SECTORS_PER_BLOCK \div SECTORS_PER_FD
      <4>1. k \in Nat /\ k * SECTORS_PER_FD \in Nat
        BY DivNat, Geometry
      <4>2. SECTORS_PER_BLOCK % SECTORS_PER_FD = SECTORS_PER_BLOCK - k * SECTORS_PER_FD
        BY DivBounds, Geometry
      <4>3. k # 0
        BY <4>1, <4>2, DiskBufferAssumption, Geometry
      <4> QED
        BY <4>1, <4>3
    <3>2. SECTORS_PER_BLOCK \div SECTORS_PER_FD \in Nat
      BY DivNat, Geometry
    <3> QED
      BY <3>1, <3>2, <2>3, <1>1 DEF SycType, Kept
  <2>6. w # NoSyc
    BY <2>5, TurnPlace
  <2>7. ASSUME NEW s \in DOMAIN d.buffer, d.buffer[s] # disk[s]
        PROVE  BlockOf(s) \in d.busy \/ (BlockOf(s) = w.block /\ s >= FirstOf(w))
    <3>1. s \in DOMAIN c.buffer /\ c.buffer[s] # disk[s]
      BY <2>2, <2>7
    <3>2. BlockOf(s) \in c.busy
      BY <3>1 DEF Unwritten
    <3>3. PICK x \in Kept(c) : s \in SectorsOf(x)
      BY <3>1 DEF CacheOK
    <3>4. x \in Blocks /\ BlockOf(s) = x /\ s \in Nat /\ s >= x * SECTORS_PER_BLOCK
      BY <3>3, SectorInBlock DEF Kept
    <3>5. FirstOf(w) = b * SECTORS_PER_BLOCK
      <4>1. b \in Int /\ b * SECTORS_PER_BLOCK \in Int
        BY Multiples, Geometry DEF Blocks
      <4>2. w.block = b /\ w.turn = 0 /\ 0 * SECTORS_PER_FD = 0
        BY Geometry
      <4> QED
        BY <4>1, <4>2 DEF FirstOf
    <3>6. BlockOf(s) = b => s >= FirstOf(w)
      BY <3>4, <3>5
    <3> HIDE DEF w
    <3> QED
      BY <2>2, <2>5, <3>2, <3>6
  <2>8. Unwritten(d, w)
    BY <2>6, <2>7 DEF Unwritten
  <2> HIDE DEF w
  <2> QED
    BY <2>1, <2>2, <2>3, <2>4, <2>5, <2>8 DEF SycOK, Unwritten
<1>2. CASE ~find_dnode(c, b)
  <2>1. cache' = c /\ syc' = NoSyc
    BY <1>2 DEF disk_buffer_put
  <2>2. Unwritten(cache, syc)'
    BY <2>1 DEF Unwritten
  <2>3. SycOK(cache', syc')
    BY <2>1 DEF SycOK
  <2> QED
    BY <2>1, <2>2, <2>3
<1> QED
  BY <1>1, <1>2

(***************************************************************************)
(* The blocks of FAT and directory                                         *)
(***************************************************************************)
(* The cache after the first n blocks have been got.                       *)
Got(c, n) ==
    /\ CacheOK(c)
    /\ Kept(c) = Kept(cache) \cup (0 .. n - 1)
    /\ c.busy = cache.busy \cup (0 .. n - 1)
    /\ \A s \in DOMAIN c.buffer :
          c.buffer[s] = IF s \in DOMAIN cache.buffer THEN cache.buffer[s] ELSE disk[s]

(* FAT and directory lie in the blocks that fat12_set_info gets.           *)
LEMMA InfoIsLow ==
    /\ IsFiniteSet(InfoBlocks) /\ Cardinality(InfoBlocks) \in Nat
    /\ InfoBlocks = 0 .. Cardinality(InfoBlocks) - 1
    /\ InfoBlocks \subseteq Blocks
    /\ \A s \in FatSectors \cup RootSectors : s \in Nat /\ BlockOf(s) \in InfoBlocks
<1> DEFINE last == DATA_START_SECT - 1
           k == last \div SECTORS_PER_BLOCK
<1>1. last \in Nat /\ last < BLOCKS * SECTORS_PER_BLOCK
  <2> DEFINE all == BLOCKS * SECTORS_PER_BLOCK
  <2>1. DATA_START_SECT \in Nat \ {0} /\ CLUSTERS \in Nat /\ CLUSTERS >= 2
    BY LayoutAssumption
  <2>2. DATA_START_SECT + CLUSTERS - 2 <= all /\ all \in Nat
    BY LayoutAssumption, Geometry
  <2> HIDE DEF all
  <2>3. last \in Nat /\ last < all
    BY <2>1, <2>2
  <2> QED
    BY <2>3 DEF all
<1> HIDE DEF last
<1>2. k \in Nat /\ k < BLOCKS
  BY <1>1, DivNat, DivLess, Geometry
<1>3. InfoBlocks = 0 .. k
  BY DEF InfoBlocks, BlockOf, last
<1>4. IsFiniteSet(0 .. k) /\ Cardinality(0 .. k) = k + 1
  BY <1>2, FS_Interval
<1>5. InfoBlocks \subseteq Blocks
  BY <1>2, <1>3, Geometry DEF Blocks
<1>6. ASSUME NEW s \in FatSectors \cup RootSectors
      PROVE  s \in Nat /\ BlockOf(s) \in InfoBlocks
  <2>1. s \in Nat /\ s <= last
    BY LayoutAssumption DEF last
  <2>2. s \div SECTORS_PER_BLOCK <= k /\ s \div SECTORS_PER_BLOCK \in Nat
    BY <1>1, <2>1, DivMono, DivNat, Geometry
  <2> QED
    BY <2>1, <2>2, <1>2, <1>3 DEF BlockOf
<1> HIDE DEF k
<1> QED
  BY <1>2, <1>3, <1>4, <1>5, <1>6

(* What the loop of gets makes of the cache, by induction over its turns.  *)
LEMMA InfoIsGot ==
    ASSUME CacheOK(cache)
    PROVE  Got(WithInfo, Cardinality(InfoBlocks))
<1> DEFINE N == Cardinality(InfoBlocks)
           F(m, h) == [n \in 0 .. m |-> IF n = 0 THEN cache ELSE disk_buffer_get(h[n - 1], n - 1)]
           f == CHOOSE h : h = F(N, h)
<1>1. WithInfo = f[N]
  BY DEF WithInfo
<1>2. N \in Nat /\ 0 .. N - 1 \subseteq Blocks
  BY InfoIsLow
<1> HIDE DEF N
<1>3. \A m \in Nat : \E h : h = F(m, h)
  <2> DEFINE T == {m \in Nat : \E h : h = F(m, h)}
  <2>1. 0 \in T
    <3>1. [n \in 0 .. 0 |-> cache] = F(0, [n \in 0 .. 0 |-> cache])
      OBVIOUS
    <3> QED
      BY <3>1
  <2>2. ASSUME NEW m \in Nat, m \in T PROVE m + 1 \in T
    <3>1. PICK h : h = F(m, h)
      BY <2>2
    <3> DEFINE g == [n \in 0 .. m + 1 |-> IF n <= m THEN h[n] ELSE disk_buffer_get(h[m], m)]
    <3>2. ASSUME NEW n \in 0 .. m + 1
          PROVE  g[n] = IF n = 0 THEN cache ELSE disk_buffer_get(g[n - 1], n - 1)
      <4>1. CASE n = 0
        BY <3>1, <4>1
      <4>2. CASE n \in 1 .. m
        <5>1. n - 1 \in 0 .. m /\ n \in 0 .. m /\ n # 0 /\ n - 1 <= m /\ n <= m
          BY <4>2
        <5>2. g[n] = h[n] /\ g[n - 1] = h[n - 1]
          BY <5>1
        <5>3. h[n] = disk_buffer_get(h[n - 1], n - 1)
          BY <3>1, <5>1
        <5> QED
          BY <5>1, <5>2, <5>3
      <4>3. CASE n = m + 1
        <5>1. n # 0 /\ n - 1 = m /\ ~(n <= m) /\ m \in 0 .. m + 1 /\ m <= m
          BY <4>3
        <5>2. g[n] = disk_buffer_get(h[m], m) /\ g[m] = h[m]
          BY <5>1
        <5> QED
          BY <5>1, <5>2
      <4> QED
        BY <4>1, <4>2, <4>3
    <3>3. g = F(m + 1, g)
      <4>1. DOMAIN g = 0 .. m + 1 /\ g = [n \in 0 .. m + 1 |-> g[n]]
        OBVIOUS
      <4> HIDE DEF g
      <4> QED
        BY <3>2, <4>1
    <3> HIDE DEF g
    <3>4. \E i : i = F(m + 1, i)
      BY <3>3
    <3> QED
      BY <3>4
  <2> HIDE DEF T
  <2>3. T = Nat
    <3>1. T \in SUBSET Nat
      BY DEF T
    <3> QED
      BY <3>1, <2>1, <2>2, FromZeroOn
  <2> QED
    BY <2>3 DEF T
<1>4. f = F(N, f)
  BY <1>2, <1>3
<1> HIDE DEF f
<1>5. f[0] = cache /\ \A n \in 1 .. N : f[n] = disk_buffer_get(f[n - 1], n - 1)
  BY <1>2, <1>4
<1>6. \A n \in 0 .. N : Got(f[n], n)
  <2> DEFINE T == {n \in Nat : n <= N => Got(f[n], n)}
  <2>1. 0 \in T
    <3>1. 0 .. 0 - 1 = {}
      OBVIOUS
    <3> QED
      BY <1>5, <3>1 DEF Got
  <2>2. ASSUME NEW n \in Nat, n \in T PROVE n + 1 \in T
    <3>1. SUFFICES ASSUME n + 1 <= N PROVE Got(f[n + 1], n + 1)
      OBVIOUS
    <3> DEFINE c == f[n]
               g == disk_buffer_get(c, n)
    <3>2. n + 1 \in 1 .. N /\ (n + 1) - 1 = n /\ n \in Blocks /\ n <= N
      BY <1>2, <3>1
    <3>3. f[n + 1] = g
      BY <1>5, <3>2
    <3>4. Got(c, n)
      BY <2>2, <3>2
    <3> HIDE DEF c
    <3>5. /\ CacheOK(g) /\ Kept(g) = Kept(c) \cup {n} /\ g.busy = c.busy \cup {n}
          /\ \A s \in DOMAIN g.buffer :
                g.buffer[s] = IF s \in DOMAIN c.buffer THEN c.buffer[s] ELSE disk[s]
      BY <3>2, <3>4, GetFacts DEF Got
    <3> HIDE DEF g
    <3>6. (0 .. n - 1) \cup {n} = 0 .. (n + 1) - 1
      OBVIOUS
    <3>7. \A s \in DOMAIN cache.buffer : s \in DOMAIN c.buffer
      BY <3>4 DEF Got, CacheOK
    <3>8. \A s \in DOMAIN g.buffer :
            g.buffer[s] = IF s \in DOMAIN cache.buffer THEN cache.buffer[s] ELSE disk[s]
      BY <3>4, <3>5, <3>7 DEF Got
    <3> QED
      BY <3>3, <3>4, <3>5, <3>6, <3>8 DEF Got
  <2> HIDE DEF T
  <2>3. T = Nat
    <3>1. T \in SUBSET Nat
      BY DEF T
    <3> QED
      BY <3>1, <2>1, <2>2, FromZeroOn
  <2> QED
    BY <2>3 DEF T
<1> QED
  BY <1>1, <1>2, <1>6 DEF N

(***************************************************************************)
(* What stands in the sectors                                              *)
(***************************************************************************)
(* The three areas of the floppy lie on it and apart.                      *)
LEMMA Layout ==
    /\ DATA_START_SECT \in Nat \ {0} /\ SECTOR_SIZE \in Nat \ {0}
    /\ CLUSTERS \in 2 .. 4080 /\ SLOTS \in Nat \ {0}
    /\ \A s \in FatSectors \cup RootSectors :
          /\ s \in Nat /\ s < DATA_START_SECT /\ s \in Sectors
          /\ BlockOf(s) \in Blocks /\ s \in SectorsOf(BlockOf(s))
    /\ FatSectors \cap RootSectors = {}
    /\ \A c \in DataClusters :
          /\ DataSector(c) \in Nat /\ DataSector(c) >= DATA_START_SECT
          /\ DataSector(c) \in Sectors
          /\ BlockOf(DataSector(c)) \in Blocks
          /\ DataSector(c) \in SectorsOf(BlockOf(DataSector(c)))
<1> DEFINE all == BLOCKS * SECTORS_PER_BLOCK
<1>1. /\ DATA_START_SECT \in Nat \ {0} /\ SECTOR_SIZE \in Nat \ {0}
      /\ CLUSTERS \in 2 .. 4080 /\ SLOTS \in Nat \ {0}
  BY LayoutAssumption
<1>2. DATA_START_SECT + CLUSTERS - 2 <= all /\ all \in Nat
  BY LayoutAssumption, Geometry
<1>3. \A s \in FatSectors \cup RootSectors : s \in Nat /\ s < DATA_START_SECT
  BY LayoutAssumption
<1>4. ASSUME NEW c \in DataClusters
      PROVE  /\ DataSector(c) \in Nat /\ DataSector(c) >= DATA_START_SECT
             /\ DataSector(c) < all
  <2> HIDE DEF all
  <2>1. c \in Nat /\ c >= 2 /\ c < CLUSTERS /\ CLUSTERS \in Nat /\ DATA_START_SECT \in Nat
    <3>1. CLUSTERS \in Nat /\ DATA_START_SECT \in Nat
      BY <1>1
    <3>2. c \in 2 .. CLUSTERS - 1
      BY DEF DataClusters
    <3> QED
      BY <3>1, <3>2
  <2>2. c + DATA_START_SECT - 2 >= DATA_START_SECT /\ c + DATA_START_SECT - 2 < all
    BY <2>1, <1>2
  <2> QED
    BY <2>1, <2>2 DEF DataSector
<1>5. ASSUME NEW s \in FatSectors \cup RootSectors PROVE s < all
  <2> HIDE DEF all
  <2>1. DATA_START_SECT \in Nat /\ CLUSTERS \in Nat /\ CLUSTERS >= 2
    BY <1>1
  <2>2. DATA_START_SECT <= all
    BY <2>1, <1>2
  <2> QED
    BY <2>1, <2>2, <1>2, <1>3
<1>6. \A s \in Nat : s < all => BlockOf(s) \in Blocks /\ s \in SectorsOf(BlockOf(s)) /\ s \in Sectors
  BY SectorHasBlock
<1> HIDE DEF all
<1> QED
  BY <1>1, <1>3, <1>4, <1>5, <1>6, LayoutAssumption

SectorTyped(s, v) ==
    /\ \A c \in Entries : FatSector(c) = s => v[c] \in FatValues
    /\ \A e \in Slots : RootSector(e) = s => v[e] \in FileType
    /\ \A c \in DataClusters : DataSector(c) = s => v \in [1 .. SECTOR_SIZE -> STRING]

DiskTyped == disk = [s \in Sectors |-> disk[s]] /\ \A s \in Sectors : SectorTyped(s, disk[s])

BuffersTyped(c) == \A s \in DOMAIN c.buffer : SectorTyped(s, c.buffer[s])

BufferInv ==
    /\ DiskTyped
    /\ CacheOK(cache) /\ BuffersTyped(cache)
    /\ SycOK(cache, syc)
    /\ Unwritten(cache, syc)

(* What is in a buffer is a sector of a cached block.                      *)
LEMMA BufferedSector ==
    ASSUME NEW c, CacheOK(c), NEW s \in DOMAIN c.buffer
    PROVE  /\ s \in Nat /\ s \in Sectors /\ BlockOf(s) \in Kept(c)
           /\ BlockOf(s) \in Blocks /\ s \in SectorsOf(BlockOf(s))
           /\ s < BlockOf(s) * SECTORS_PER_BLOCK + SECTORS_PER_BLOCK
<1>1. PICK b \in Kept(c) : s \in SectorsOf(b)
  BY DEF CacheOK
<1>2. b \in Blocks
  BY DEF Kept
<1> QED
  BY <1>1, <1>2, SectorInBlock

(* A turn of the write-back: what is behind it is on the floppy.           *)
LEMMA SycStep ==
    ASSUME BufferInv, SycTurn
    PROVE  BufferInv'
<1> DEFINE first == FirstOf(syc)
           S == SECTORS_PER_FD
           next == [syc EXCEPT !.turn = @ + 1]
<1>1. /\ syc \in SycType /\ syc.block \in Kept(cache) /\ syc # NoSyc
      /\ syc.block \in Blocks /\ cache' = cache
      /\ syc' = IF syc.turn + 1 = SECTORS_PER_BLOCK \div S THEN NoSyc ELSE next
  BY DEF BufferInv, SycTurn, SycOK, Kept
<1>2. disk' = [s \in Sectors |->
                  IF s \in first .. first + S - 1 THEN cache.buffer[s] ELSE disk[s]]
  BY <1>1, TurnWritesItsSectors
<1>3. /\ first \in Nat
      /\ \A n \in 0 .. S - 1 : first + n \in SectorsOf(syc.block)
      /\ syc.turn + 1 = SECTORS_PER_BLOCK \div S
           => first + S = syc.block * SECTORS_PER_BLOCK + SECTORS_PER_BLOCK
      /\ syc.turn + 1 # SECTORS_PER_BLOCK \div S
           => next \in SycType /\ FirstOf(next) = first + S
  BY <1>1, TurnPlace
<1>4. next.block = syc.block
  BY <1>1 DEF SycType
<1> HIDE DEF first, next
<1>5. ASSUME NEW s \in first .. first + S - 1 PROVE s \in DOMAIN cache.buffer
  <2>1. s - first \in 0 .. S - 1 /\ first + (s - first) = s
    BY <1>3, Geometry
  <2>2. s \in SectorsOf(syc.block)
    BY <1>3, <2>1
  <2> QED
    BY <1>1, <2>2 DEF BufferInv, CacheOK
<1>6. DiskTyped'
  BY <1>2, <1>5 DEF BufferInv, DiskTyped, BuffersTyped
<1>7. SycOK(cache', syc')
  BY <1>1, <1>3, <1>4 DEF SycOK
<1>8. Unwritten(cache, syc)'
  <2>1. SUFFICES ASSUME NEW s \in DOMAIN cache.buffer, cache.buffer[s] # disk'[s]
                 PROVE  \/ BlockOf(s) \in cache.busy
                        \/ syc' # NoSyc /\ BlockOf(s) = syc'.block /\ s >= FirstOf(syc')
    BY <1>1 DEF Unwritten
  <2>2. s \in Nat /\ s \in Sectors /\ s < BlockOf(s) * SECTORS_PER_BLOCK + SECTORS_PER_BLOCK
    BY BufferedSector DEF BufferInv
  <2>3. s \notin first .. first + S - 1 /\ disk'[s] = disk[s]
    BY <1>2, <2>1, <2>2
  <2>4. \/ BlockOf(s) \in cache.busy
        \/ BlockOf(s) = syc.block /\ s >= first + S
    <3>1. \/ BlockOf(s) \in cache.busy
          \/ BlockOf(s) = syc.block /\ s >= first
      BY <2>1, <2>3 DEF BufferInv, Unwritten, first
    <3> QED
      BY <3>1, <2>2, <2>3, <1>3, Geometry
  <2>5. CASE BlockOf(s) = syc.block /\ s >= first + S
    <3>1. syc.turn + 1 # SECTORS_PER_BLOCK \div S
      <4> DEFINE m == syc.block * SECTORS_PER_BLOCK
      <4>1. s < m + SECTORS_PER_BLOCK /\ m \in Nat
        BY <2>2, <2>5, <1>1, BlockSectors DEF Blocks
      <4> HIDE DEF m
      <4>2. first + S # m + SECTORS_PER_BLOCK
        BY <4>1, <2>2, <2>5, <1>3, Geometry
      <4> QED
        BY <4>2, <1>3 DEF m
    <3>2. syc' = next /\ next \in SycType /\ FirstOf(next) = first + S
      BY <3>1, <1>1, <1>3
    <3> QED
      BY <3>2, <1>4, <2>5, TurnPlace
  <2> QED
    BY <2>4, <2>5
<1> QED
  BY <1>1, <1>6, <1>7, <1>8 DEF BufferInv, BuffersTyped

(***************************************************************************)
(* Caches that have got more blocks                                        *)
(***************************************************************************)
More(c) ==
    /\ CacheOK(c)
    /\ Kept(cache) \subseteq Kept(c) /\ cache.busy \subseteq c.busy
    /\ \A s \in DOMAIN c.buffer :
          c.buffer[s] = IF s \in DOMAIN cache.buffer THEN cache.buffer[s] ELSE disk[s]

(* Blocks that are got as well are in use, and as they are on the floppy.  *)
LEMMA MoreIsFine ==
    ASSUME BufferInv, NEW c, More(c)
    PROVE  CacheOK(c) /\ BuffersTyped(c) /\ SycOK(c, syc) /\ Unwritten(c, syc)
<1>1. ASSUME NEW s \in DOMAIN c.buffer PROVE SectorTyped(s, c.buffer[s])
  <2>1. s \in Sectors
    BY BufferedSector DEF More
  <2> QED
    BY <2>1 DEF BufferInv, BuffersTyped, DiskTyped, More
<1>2. Unwritten(c, syc)
  BY DEF Unwritten, BufferInv, More
<1>3. SycOK(c, syc)
  BY DEF SycOK, BufferInv, More
<1> QED
  BY <1>1, <1>2, <1>3 DEF BuffersTyped, More

(* So are those of FAT and directory.                                      *)
LEMMA InfoIsMore ==
    ASSUME BufferInv
    PROVE  /\ More(WithInfo)
           /\ InfoBlocks \subseteq WithInfo.busy
           /\ \A s \in FatSectors \cup RootSectors : s \in DOMAIN WithInfo.buffer
<1>1. Got(WithInfo, Cardinality(InfoBlocks))
  BY InfoIsGot DEF BufferInv
<1>2. InfoBlocks \subseteq WithInfo.busy /\ InfoBlocks \subseteq Kept(WithInfo)
  BY <1>1, InfoIsLow DEF Got
<1>3. More(WithInfo)
  BY <1>1 DEF Got, More
<1>4. ASSUME NEW s \in FatSectors \cup RootSectors PROVE s \in DOMAIN WithInfo.buffer
  <2>1. BlockOf(s) \in InfoBlocks /\ s \in SectorsOf(BlockOf(s))
    BY InfoIsLow, Layout
  <2> QED
    BY <2>1, <1>2, <1>3 DEF More, CacheOK
<1> QED
  BY <1>2, <1>3, <1>4

(* A table is copied into sectors of its own kind.                         *)
LEMMA InfoSectorTyped ==
    ASSUME NEW f \in [Entries -> FatValues], NEW r \in [Slots -> FileType],
           NEW s \in FatSectors \cup RootSectors
    PROVE  SectorTyped(s, InfoSectors(f, r)[s])
<1>1. \A c \in DataClusters : DataSector(c) # s
  BY Layout
<1>2. CASE s \in FatSectors
  <2>1. InfoSectors(f, r)[s] = [c \in {e \in Entries : FatSector(e) = s} |-> f[c]]
    BY <1>2 DEF InfoSectors
  <2>2. \A e \in Slots : RootSector(e) # s
    BY <1>2, Layout DEF RootSectors
  <2> QED
    BY <1>1, <2>1, <2>2 DEF SectorTyped
<1>3. CASE s \notin FatSectors
  <2>1. InfoSectors(f, r)[s] = [e \in {x \in Slots : RootSector(x) = s} |-> r[e]]
    BY <1>3 DEF InfoSectors
  <2>2. \A c \in Entries : FatSector(c) # s
    BY <1>3 DEF FatSectors
  <2> QED
    BY <1>1, <2>1, <2>2 DEF SectorTyped
<1> QED
  BY <1>2, <1>3

LEMMA FatValueRange ==
    \A v \in FatValues : v \in Nat /\ v \in 0 .. NO_CLUSTER
<1>1. CLUSTERS \in Nat /\ CLUSTERS <= 4080
  BY Layout
<1>2. ASSUME NEW v \in FatValues PROVE v \in 0 .. 4095
  <2>1. CASE v \in Entries
    BY <1>1, <2>1 DEF Entries
  <2>2. CASE v \notin Entries
    BY <2>2 DEF FatValues, EOC
  <2> QED
    BY <2>1, <2>2
<1>3. ASSUME NEW v \in FatValues PROVE v \in Nat /\ v \in 0 .. NO_CLUSTER
  <2>1. v \in 0 .. 4095
    BY <1>2
  <2> QED
    BY <2>1, SMTT(30) DEF NO_CLUSTER
<1> QED
  BY <1>3

(* An entry that was not found, 65535, is 4095 in 12 bits: an end mark.    *)
LEMMA FreeEntry ==
    ASSUME NEW f \in [Entries -> FatValues]
    PROVE  LET c == get_free_fat_entry(f)
           IN  /\ c \in 0 .. NO_CLUSTER
               /\ c % 4096 \in FatValues
               /\ Marked(f, c) \in [Entries -> FatValues]
<1> DEFINE c == get_free_fat_entry(f)
           free == {e \in Entries : f[e] = 0}
<1>1. CLUSTERS \in Nat /\ CLUSTERS <= 4080
  BY Layout
<1>2. c \in Entries \/ c = NO_CLUSTER
  <2>1. CASE free = {}
    BY <2>1 DEF get_free_fat_entry
  <2>2. CASE free # {}
    <3>1. free \in SUBSET Nat
      BY DEF Entries
    <3>2. Min(free) \in free
      BY <3>1, <2>2, MinElement
    <3> QED
      BY <3>2, <2>2 DEF get_free_fat_entry
  <2> QED
    BY <2>1, <2>2
<1> HIDE DEF c
<1>3. c \in 0 .. NO_CLUSTER
  <2>1. CASE c \in Entries
    <3>1. c \in 0 .. 4079
      BY <1>1, <2>1 DEF Entries
    <3> QED
      BY <3>1, SMTT(30) DEF NO_CLUSTER
  <2>2. CASE c = NO_CLUSTER
    BY <2>2 DEF NO_CLUSTER
  <2> QED
    BY <1>2, <2>1, <2>2
<1>4. c % 4096 \in FatValues
  <2>1. CASE c \in Entries
    <3>1. c \in 0 .. 4079
      BY <1>1, <2>1 DEF Entries
    <3>2. c % 4096 = c
      BY <3>1
    <3> QED
      BY <2>1, <3>2 DEF FatValues
  <2>2. CASE c = NO_CLUSTER
    <3>1. c % 4096 = 4095
      BY <2>2 DEF NO_CLUSTER
    <3> QED
      BY <3>1 DEF FatValues, EOC
  <2> QED
    BY <1>2, <2>1, <2>2
<1>5. Marked(f, c) \in [Entries -> FatValues]
  <2>1. EOC \in FatValues
    BY DEF FatValues, EOC
  <2> QED
    BY <2>1 DEF Marked
<1> QED
  BY <1>3, <1>4, <1>5 DEF c

(* One turn of the loop of resize, and what it begins with.                *)
AppendTurn(p) ==
    IF p.full THEN [p EXCEPT !.wild = TRUE]
    ELSE [fat  |-> [Marked(p.fat, get_free_fat_entry(p.fat))
                       EXCEPT ![p.last] = get_free_fat_entry(p.fat) % 4096],
          last |-> get_free_fat_entry(p.fat), wild |-> FALSE,
          full |-> get_free_fat_entry(p.fat) = NO_CLUSTER]

NoTurn(f, last) == [fat |-> f, last |-> last, wild |-> FALSE, full |-> FALSE]

(* n turns of it, one after the other                                      *)
LEMMA AppendedTurns ==
    ASSUME NEW f, NEW last, NEW n \in Nat
    PROVE  \E turn : /\ Appended(f, last, n) = turn[n]
                     /\ turn[0] = NoTurn(f, last)
                     /\ \A k \in 1 .. n : turn[k] = AppendTurn(turn[k - 1])
<1> DEFINE start == NoTurn(f, last)
           F(m, h) == [k \in 0 .. m |-> IF k = 0 THEN start ELSE AppendTurn(h[k - 1])]
           turn == CHOOSE h : h = F(n, h)
<1>1. Appended(f, last, n) = turn[n]
  BY DEF Appended, NoTurn, AppendTurn
<1> HIDE DEF start
<1>2. \A m \in Nat : \E h : h = F(m, h)
  <2> DEFINE T == {m \in Nat : \E h : h = F(m, h)}
  <2>1. 0 \in T
    <3>1. [k \in 0 .. 0 |-> start] = F(0, [k \in 0 .. 0 |-> start])
      OBVIOUS
    <3> QED
      BY <3>1
  <2>2. ASSUME NEW m \in Nat, m \in T PROVE m + 1 \in T
    <3>1. PICK h : h = F(m, h)
      BY <2>2
    <3> DEFINE g == [k \in 0 .. m + 1 |-> IF k <= m THEN h[k] ELSE AppendTurn(h[m])]
    <3>2. ASSUME NEW k \in 0 .. m + 1
          PROVE  g[k] = IF k = 0 THEN start ELSE AppendTurn(g[k - 1])
      <4>1. CASE k = 0
        BY <3>1, <4>1
      <4>2. CASE k \in 1 .. m
        <5>1. k - 1 \in 0 .. m /\ k \in 0 .. m /\ k # 0 /\ k - 1 <= m /\ k <= m
          BY <4>2
        <5>2. g[k] = h[k] /\ g[k - 1] = h[k - 1]
          BY <5>1
        <5>3. h[k] = AppendTurn(h[k - 1])
          BY <3>1, <5>1
        <5> QED
          BY <5>1, <5>2, <5>3
      <4>3. CASE k = m + 1
        <5>1. k # 0 /\ k - 1 = m /\ ~(k <= m) /\ m \in 0 .. m + 1 /\ m <= m
          BY <4>3
        <5>2. g[k] = AppendTurn(h[m]) /\ g[m] = h[m]
          BY <5>1
        <5> QED
          BY <5>1, <5>2
      <4> QED
        BY <4>1, <4>2, <4>3
    <3>3. g = F(m + 1, g)
      <4>1. DOMAIN g = 0 .. m + 1 /\ g = [k \in 0 .. m + 1 |-> g[k]]
        OBVIOUS
      <4> HIDE DEF g
      <4> QED
        BY <3>2, <4>1
    <3> HIDE DEF g
    <3>4. \E i : i = F(m + 1, i)
      BY <3>3
    <3> QED
      BY <3>4
  <2> HIDE DEF T
  <2>3. T = Nat
    <3>1. T \in SUBSET Nat
      BY DEF T
    <3> QED
      BY <3>1, <2>1, <2>2, FromZeroOn
  <2> QED
    BY <2>3 DEF T
<1>3. turn = F(n, turn)
  BY <1>2
<1> HIDE DEF turn
<1>4. turn[0] = start /\ \A k \in 1 .. n : turn[k] = AppendTurn(turn[k - 1])
  BY <1>3
<1> QED
  BY <1>1, <1>4 DEF start

(* However many clusters resize appends, the FAT stays one, full or not: by*)
(* induction over the turns of its loop.                                   *)
LEMMA AppendedTyped ==
    ASSUME NEW f \in [Entries -> FatValues], NEW last, NEW n \in Nat
    PROVE  Appended(f, last, n).fat \in [Entries -> FatValues]
<1>1. PICK turn : /\ Appended(f, last, n) = turn[n]
                  /\ turn[0] = NoTurn(f, last)
                  /\ \A k \in 1 .. n : turn[k] = AppendTurn(turn[k - 1])
  BY AppendedTurns
<1>4. turn[0].fat = f /\ \A k \in 1 .. n : turn[k] = AppendTurn(turn[k - 1])
  BY <1>1 DEF NoTurn
<1>5. ASSUME NEW p, p.fat \in [Entries -> FatValues]
      PROVE  AppendTurn(p).fat \in [Entries -> FatValues]
  <2>1. CASE p.full
    <3> DEFINE q == [p EXCEPT !.wild = TRUE]
    <3>1. AppendTurn(p) = q
      BY <2>1 DEF AppendTurn
    <3>2. q.fat = p.fat
      OBVIOUS
    <3> HIDE DEF q
    <3> QED
      BY <3>1, <3>2, <1>5
  <2>2. CASE ~p.full
    <3> DEFINE marked == Marked(p.fat, get_free_fat_entry(p.fat))
               v == get_free_fat_entry(p.fat) % 4096
               l == p.last
    <3>1. AppendTurn(p).fat = [marked EXCEPT ![l] = v]
      BY <2>2 DEF AppendTurn
    <3>2. marked \in [Entries -> FatValues] /\ v \in FatValues
      BY <1>5, FreeEntry
    <3> HIDE DEF marked, v, l
    <3>3. [marked EXCEPT ![l] = v] \in [Entries -> FatValues]
      BY <3>2
    <3> QED
      BY <3>1, <3>3
  <2> QED
    BY <2>1, <2>2
<1>6. \A k \in Nat : k <= n => turn[k].fat \in [Entries -> FatValues]
  <2> DEFINE T == {k \in Nat : k <= n => turn[k].fat \in [Entries -> FatValues]}
  <2>1. 0 \in T
    BY <1>4
  <2>2. ASSUME NEW k \in Nat, k \in T PROVE k + 1 \in T
    <3>1. k + 1 <= n => k + 1 \in 1 .. n /\ (k + 1) - 1 = k /\ k <= n
      OBVIOUS
    <3> QED
      BY <3>1, <2>2, <1>4, <1>5
  <2> HIDE DEF T
  <2>3. T = Nat
    <3>1. T \in SUBSET Nat
      BY DEF T
    <3> QED
      BY <3>1, <2>1, <2>2, FromZeroOn
  <2> QED
    BY <2>3 DEF T
<1> QED
  BY <1>1, <1>6

(* What leaves disk and cache alone.                                       *)
LEMMA BufferSame ==
    ASSUME BufferInv, UNCHANGED bufferVars
    PROVE  BufferInv'
BY DEF BufferInv, bufferVars, DiskTyped, BuffersTyped, Unwritten

(* A step that gets blocks.                                                *)
LEMMA BufferMore ==
    ASSUME BufferInv, NEW c, More(c), cache' = c, UNCHANGED <<disk, syc>>
    PROVE  BufferInv'
<1>1. CacheOK(c) /\ BuffersTyped(c) /\ SycOK(c, syc) /\ Unwritten(c, syc)
  BY MoreIsFine
<1>2. Unwritten(cache, syc)'
  BY <1>1 DEF Unwritten
<1>3. DiskTyped'
  BY DEF BufferInv, DiskTyped
<1> QED
  BY <1>1, <1>2, <1>3 DEF BufferInv

(* A step that puts one.                                                   *)
LEMMA BufferPut ==
    ASSUME BufferInv, syc = NoSyc, NEW c, CacheOK(c), BuffersTyped(c), Unwritten(c, NoSyc),
           NEW b \in Blocks, disk_buffer_put(c, b), UNCHANGED disk
    PROVE  BufferInv'
<1>1. /\ CacheOK(cache') /\ cache'.buffer = c.buffer
      /\ SycOK(cache', syc')
      /\ Unwritten(cache, syc)'
  BY PutFacts
<1>2. BuffersTyped(cache')
  BY <1>1 DEF BuffersTyped
<1>3. DiskTyped'
  BY DEF BufferInv, DiskTyped
<1> QED
  BY <1>1, <1>2, <1>3 DEF BufferInv

(* fat12_set_info copies a table into the buffers of the blocks it has got. *)
LEMMA InfoIsWritten ==
    ASSUME BufferInv, syc = NoSyc, UNCHANGED <<disk, syc>>,
           NEW f \in [Entries -> FatValues], NEW r \in [Slots -> FileType],
           cache' = [WithInfo EXCEPT !.buffer = Over(InfoSectors(f, r), @)]
    PROVE  BufferInv'
<1> DEFINE c == WithInfo
           i == InfoSectors(f, r)
           d == [c EXCEPT !.buffer = Over(i, @)]
<1>1. /\ More(c) /\ InfoBlocks \subseteq c.busy
      /\ \A s \in FatSectors \cup RootSectors : s \in DOMAIN c.buffer
  BY InfoIsMore
<1>2. CacheOK(c) /\ BuffersTyped(c) /\ Unwritten(c, syc)
  BY <1>1, MoreIsFine
<1>3. DOMAIN i = FatSectors \cup RootSectors
  BY DEF InfoSectors
<1>4. \A s \in DOMAIN i : SectorTyped(s, i[s]) /\ BlockOf(s) \in c.busy
  BY <1>1, <1>3, InfoSectorTyped, InfoIsLow
<1> HIDE DEF i, c
<1>5. d = [chain |-> c.chain, buffer |-> Over(i, c.buffer), busy |-> c.busy]
  BY <1>2 DEF CacheOK
<1> HIDE DEF d
<1>6. /\ d.chain = c.chain /\ d.busy = c.busy /\ d.buffer = Over(i, c.buffer)
      /\ d = [chain |-> d.chain, buffer |-> d.buffer, busy |-> d.busy]
  BY <1>5
<1>7. d.buffer = [s \in DOMAIN c.buffer |-> IF s \in DOMAIN i THEN i[s] ELSE c.buffer[s]]
  <2>1. DOMAIN i \cup DOMAIN c.buffer = DOMAIN c.buffer
    BY <1>1, <1>3
  <2> QED
    BY <1>6, <2>1 DEF Over
<1>8. Kept(d) = Kept(c)
  BY <1>6 DEF Kept, find_dnode
<1>9. CacheOK(d)
  <2>1. DOMAIN d.buffer = DOMAIN c.buffer /\ d.buffer = [s \in DOMAIN d.buffer |-> d.buffer[s]]
    BY <1>7
  <2> QED
    BY <1>2, <1>6, <1>8, <2>1 DEF CacheOK
<1>10. BuffersTyped(d)
  BY <1>2, <1>4, <1>7 DEF BuffersTyped
<1>11. ASSUME NEW s \in DOMAIN d.buffer, d.buffer[s] # disk[s]
       PROVE  BlockOf(s) \in d.busy
  BY <1>2, <1>4, <1>6, <1>7, <1>11 DEF Unwritten
<1>12. cache' = d
  BY DEF d, c, i
<1>13. Unwritten(cache, syc)'
  BY <1>11, <1>12 DEF Unwritten
<1>14. SycOK(cache', syc') /\ DiskTyped'
  BY DEF SycOK, BufferInv, DiskTyped
<1> QED
  BY <1>9, <1>10, <1>12, <1>13, <1>14 DEF BufferInv

(* The copy of one sector                                                  *)
LEMMA TransferStep ==
    ASSUME BufferInv, syc = NoSyc, UNCHANGED disk,
           call.cluster \in DataClusters, call.op = "write" => call.byte \in BYTES, Transfer
    PROVE  BufferInv'
<1> DEFINE x == DataSector(call.cluster)
           b == BlockOf(x)
           c == disk_buffer_get(cache, b)
           from == c.buffer[x]
           to == [i \in 1 .. SECTOR_SIZE |-> IF i \in Copied THEN call.byte ELSE from[i]]
           d == [c EXCEPT !.buffer[x] = to]
<1>1. x >= DATA_START_SECT /\ b \in Blocks /\ x \in SectorsOf(b) /\ x \in Nat
  BY Layout
<1>2. /\ CacheOK(c) /\ Kept(c) = Kept(cache) \cup {b} /\ c.busy = cache.busy \cup {b}
      /\ \A s \in DOMAIN c.buffer :
            c.buffer[s] = IF s \in DOMAIN cache.buffer THEN cache.buffer[s] ELSE disk[s]
  BY <1>1, GetFacts DEF BufferInv
<1>3. \/ disk_buffer_put(c, b)
      \/ call.op = "write" /\ disk_buffer_put(d, b)
  BY DEF Transfer
<1>4. x \in DOMAIN c.buffer
  BY <1>1, <1>2 DEF CacheOK
<1> HIDE DEF c
<1>5. More(c)
  BY <1>2 DEF More
<1>6. BuffersTyped(c) /\ Unwritten(c, NoSyc)
  BY <1>5, MoreIsFine
<1>7. CASE disk_buffer_put(c, b)
  BY <1>1, <1>2, <1>6, <1>7, BufferPut
<1>8. CASE call.op = "write" /\ disk_buffer_put(d, b)
  <2>1. SectorTyped(x, to)
    <3>1. from \in [1 .. SECTOR_SIZE -> STRING]
      BY <1>4, <1>6 DEF BuffersTyped, SectorTyped
    <3>2. to \in [1 .. SECTOR_SIZE -> STRING]
      BY <1>8, <3>1, FileSysAssumption
    <3>3. x \notin FatSectors \cup RootSectors
      <4>1. DATA_START_SECT \in Nat /\ \A s \in FatSectors \cup RootSectors : s \in Nat /\ s < DATA_START_SECT
        BY Layout
      <4> HIDE DEF x
      <4> QED
        BY <4>1, <1>1
    <3> HIDE DEF to, x
    <3> QED
      BY <3>2, <3>3 DEF SectorTyped, FatSectors, RootSectors
  <2> HIDE DEF to, x, b
  <2>2. d = [chain |-> c.chain, buffer |-> [c.buffer EXCEPT ![x] = to], busy |-> c.busy]
    <3> DEFINE after == [c.buffer EXCEPT ![x] = to]
    <3>1. c = [chain |-> c.chain, buffer |-> c.buffer, busy |-> c.busy]
      BY <1>2 DEF CacheOK
    <3>2. d = [c EXCEPT !.buffer = after]
      BY <3>1
    <3> HIDE DEF d, after
    <3>3. d = [chain |-> c.chain, buffer |-> after, busy |-> c.busy]
      BY <3>1, <3>2
    <3> QED
      BY <3>3 DEF after
  <2> HIDE DEF d
  <2>3. /\ d.chain = c.chain /\ d.busy = c.busy /\ d.buffer = [c.buffer EXCEPT ![x] = to]
        /\ d = [chain |-> d.chain, buffer |-> d.buffer, busy |-> d.busy]
    BY <2>2
  <2>4. d.buffer = [s \in DOMAIN c.buffer |-> IF s = x THEN to ELSE c.buffer[s]]
    BY <2>3, <1>4
  <2>5. Kept(d) = Kept(c)
    BY <2>3 DEF Kept, find_dnode
  <2>6. CacheOK(d)
    <3>1. DOMAIN d.buffer = DOMAIN c.buffer /\ d.buffer = [s \in DOMAIN d.buffer |-> d.buffer[s]]
      BY <2>4
    <3> QED
      BY <1>2, <2>3, <2>5, <3>1 DEF CacheOK
  <2>7. BuffersTyped(d)
    BY <1>6, <2>1, <2>4 DEF BuffersTyped
  <2>8. Unwritten(d, NoSyc)
    <3>1. BlockOf(x) \in c.busy
      BY <1>2 DEF b
    <3> QED
      BY <3>1, <1>6, <2>3, <2>4 DEF Unwritten
  <2> QED
    BY <1>1, <1>8, <2>6, <2>7, <2>8, BufferPut DEF d
<1> QED
  BY <1>3, <1>7, <1>8

(***************************************************************************)
(* The inductive invariant                                                 *)
(***************************************************************************)
TableInv == fat \in [Entries -> FatValues] /\ root \in [Slots -> FileType]

InodeType == [slot : Slots, i_count : Nat]

(* What a descriptor refers to is an inode, whose entry is in the directory; *)
(* fat12_init, which forgets the inodes, comes before the first open.      *)
DescInv ==
    /\ inode_list \in Seq(InodeType)
    /\ filp = [d \in Descriptors |-> filp[d]]
    /\ \A d \in Descriptors :
          filp[d] # NULL =>
              /\ filp[d] = [inode |-> filp[d].inode, f_pos |-> filp[d].f_pos]
              /\ filp[d].f_pos \in Nat
              /\ filp[d].inode # <<>> => filp[d].inode[1] \in 1 .. Len(inode_list)
    /\ pc = "boot" => \A d \in Descriptors : filp[d] = NULL

CallType ==
    [op : {"none", "read", "write"}, slot : Slots, offset : Nat, len : Nat, byte : BYTES \cup {""},
     cluster : 0 .. NO_CLUSTER, curr_sect : Nat]

CallInv ==
    /\ call \in CallType
    /\ call.op = "write" => call.byte \in BYTES
    /\ pc \in {"boot", "info", "idle", "rw", "return", "wild", "bug", "fault"}
    /\ put \in 0 .. Cardinality(InfoBlocks)
    /\ unsaved \in BOOLEAN
    /\ risk \in {"none", "torn", "lost"}

FileInv == BufferInv /\ TableInv /\ DescInv /\ CallInv

LEMMA TableSame ==
    ASSUME TableInv, UNCHANGED <<fat, root>>
    PROVE  TableInv'
BY DEF TableInv

LEMMA DescSame ==
    ASSUME DescInv, UNCHANGED <<inode_list, filp>>, pc' = "boot" => pc = "boot"
    PROVE  DescInv'
BY DEF DescInv

LEMMA NoCallTyped ==
    /\ NoCall \in CallType
    /\ NoFile \in FileType
    /\ 0 \in 0 .. Cardinality(InfoBlocks)
<1>1. 0 \in Slots /\ 0 \in Nat /\ 0 \in 0 .. Cardinality(InfoBlocks)
  <2>1. SLOTS \in Nat \ {0}
    BY Layout
  <2>2. 0 \in Slots
    BY <2>1 DEF Slots
  <2>3. Cardinality(InfoBlocks) \in Nat
    BY InfoIsLow
  <2>4. 0 \in 0 .. Cardinality(InfoBlocks)
    BY <2>3
  <2> QED
    BY <2>2, <2>4
<1>2. 0 \in 0 .. NO_CLUSTER
  BY DEF NO_CLUSTER
<1> QED
  BY <1>1, <1>2 DEF NoCall, CallType, NoFile, FileType

(* When the kernel boots, for the first time or after a power failure.     *)
First ==
    /\ DiskTyped
    /\ cache = disk_buffer_init
    /\ syc = NoSyc
    /\ fat = [c \in Entries |-> 0]
    /\ root = [s \in Slots |-> NoFile]
    /\ inode_list = <<>>
    /\ call = NoCall
    /\ pc = "boot"
    /\ put = 0
    /\ unsaved = FALSE
    /\ risk \in {"none", "torn", "lost"}
    /\ filp = [d \in Descriptors |-> NULL]

(* It has the inductive invariant.                                         *)
LEMMA FirstState == First => FileInv
<1> SUFFICES ASSUME First PROVE FileInv
  OBVIOUS
<1> USE DEF First
<1>1. CacheOK(cache) /\ cache.buffer = <<>>
  <2>1. /\ cache = [chain |-> cache.chain, buffer |-> cache.buffer, busy |-> cache.busy]
        /\ cache.chain = [h \in 0 .. DISK_BUFFER_MOD - 1 |-> <<>>]
        /\ cache.buffer = <<>> /\ cache.busy = {}
    BY DEF disk_buffer_init
  <2>2. <<>> \in Seq(Blocks) /\ IsInjective(<<>>)
    BY DEF IsInjective
  <2>3. Kept(cache) = {}
    <3>1. SUFFICES ASSUME NEW b \in Blocks PROVE ~find_dnode(cache, b)
      BY DEF Kept
    <3>2. b % DISK_BUFFER_MOD \in 0 .. DISK_BUFFER_MOD - 1
      BY DivBounds, Geometry DEF Blocks
    <3> QED
      BY <2>1, <3>2 DEF find_dnode, Range
  <2>4. DOMAIN cache.buffer = {} /\ cache.buffer = [s \in DOMAIN cache.buffer |-> cache.buffer[s]]
    BY <2>1
  <2> QED
    BY <2>1, <2>2, <2>3, <2>4 DEF CacheOK
<1>2. BufferInv
  <2>1. DOMAIN cache.buffer = {}
    BY <1>1
  <2> QED
    BY <1>1, <2>1 DEF BufferInv, BuffersTyped, SycOK, Unwritten
<1>3. TableInv
  <2>1. 0 \in FatValues
    BY Layout DEF FatValues, Entries
  <2>2. NoFile \in FileType
    BY NoCallTyped
  <2> QED
    BY <2>1, <2>2 DEF TableInv
<1>4. DescInv
  BY DEF DescInv
<1>5. CallInv
  <2>1. NoCall.op # "write"
    BY DEF NoCall
  <2> QED
    BY <2>1, NoCallTyped DEF CallInv
<1> QED
  BY <1>2, <1>3, <1>4, <1>5 DEF FileInv

(* A new size in a directory entry.                                        *)
LEMMA SizeSet ==
    ASSUME NEW r \in [Slots -> FileType], NEW s \in Slots, NEW n \in Nat
    PROVE  [r EXCEPT ![s].size = n] \in [Slots -> FileType]
<1>1. r[s] \in FileType
  OBVIOUS
<1>2. [r[s] EXCEPT !.size = n] \in FileType
  BY <1>1 DEF FileType
<1> QED
  BY <1>2

(* The floppy at first can be read as a file system.                       *)
LEMMA InitInv == Init => FileInv
<1> SUFFICES ASSUME Init PROVE FileInv
  OBVIOUS
<1>1. DiskTyped
  <2>1. disk = DISK /\ DISK = [s \in Sectors |-> DISK[s]]
    BY FormatAssumption DEF Init
  <2>2. ASSUME NEW c \in Entries PROVE DISK[FatSector(c)][c] \in FatValues
    BY FormatAssumption DEF FatOf
  <2>3. ASSUME NEW s \in Slots PROVE DISK[RootSector(s)][s] \in FileType
    BY FormatAssumption DEF RootOf
  <2>4. \A c \in DataClusters : DISK[DataSector(c)] \in [1 .. SECTOR_SIZE -> STRING]
    BY FormatAssumption
  <2> QED
    BY <2>1, <2>2, <2>3, <2>4 DEF DiskTyped, SectorTyped
<1> QED
  BY <1>1, FirstState DEF Init, First

(***************************************************************************)
(* Every step keeps it                                                     *)
(***************************************************************************)
LEMMA BootStep ==
    ASSUME FileInv, Boot
    PROVE  FileInv'
<1>1. cache' = WithInfo /\ UNCHANGED <<disk, syc>>
  BY DEF Boot, fat12_init
<1>2. More(WithInfo) /\ \A s \in FatSectors \cup RootSectors : s \in DOMAIN WithInfo.buffer
  BY InfoIsMore DEF FileInv
<1>3. BufferInv'
  BY <1>1, <1>2, BufferMore DEF FileInv
<1>4. BuffersTyped(WithInfo)
  BY <1>2, MoreIsFine DEF FileInv
<1>5. TableInv'
  <2>1. fat' = FatOf(WithInfo.buffer) /\ root' = RootOf(WithInfo.buffer)
    BY DEF Boot, fat12_init
  <2>2. ASSUME NEW c \in Entries PROVE WithInfo.buffer[FatSector(c)][c] \in FatValues
    <3>1. FatSector(c) \in FatSectors
      BY DEF FatSectors
    <3> QED
      BY <3>1, <1>2, <1>4 DEF BuffersTyped, SectorTyped
  <2>3. ASSUME NEW s \in Slots PROVE WithInfo.buffer[RootSector(s)][s] \in FileType
    <3>1. RootSector(s) \in RootSectors
      BY DEF RootSectors
    <3> QED
      BY <3>1, <1>2, <1>4 DEF BuffersTyped, SectorTyped
  <2> QED
    BY <2>1, <2>2, <2>3 DEF TableInv, FatOf, RootOf
<1>6. DescInv'
  <2>1. inode_list' = <<>> /\ filp' = filp
    BY DEF Boot, fat12_init, fileVars
  <2> QED
    BY <2>1 DEF DescInv, FileInv, Boot, fat12_init
<1>7. CallInv'
  BY DEF Boot, fat12_init, FileInv, CallInv
<1> QED
  BY <1>3, <1>5, <1>6, <1>7 DEF FileInv

LEMMA PowerStep ==
    ASSUME FileInv, PowerFails
    PROVE  FileInv'
<1>1. First'
  BY DEF PowerFails, First, FileInv, BufferInv, DiskTyped, CallInv
<1>2. First' => FileInv'
  BY FirstState, PTL
<1> QED
  BY <1>1, <1>2

LEMMA DeviceStep ==
    ASSUME FileInv, Device
    PROVE  FileInv'
<1>1. BufferInv'
  BY SycStep DEF Device, FileInv
<1>2. TableInv' /\ DescInv'
  BY TableSame, DescSame DEF Device, FileInv, fatVars, fileVars
<1>3. CallInv'
  BY DEF Device, FileInv, fatVars, CallInv
<1> QED
  BY <1>1, <1>2, <1>3 DEF FileInv

LEMMA StopStep ==
    ASSUME FileInv, NEW why \in {"wild"}, Stop(why), UNCHANGED filp
    PROVE  FileInv'
<1>1. BufferInv'
  BY BufferSame DEF FileInv, Stop, bufferVars
<1>2. TableInv' /\ DescInv'
  BY TableSame, DescSame DEF FileInv, Stop
<1>3. CallInv'
  BY DEF FileInv, Stop, CallInv
<1> QED
  BY <1>1, <1>2, <1>3 DEF FileInv

LEMMA InfoPutStep ==
    ASSUME FileInv, set_info_put, UNCHANGED filp
    PROVE  FileInv'
<1>1. /\ syc = NoSyc /\ put \in InfoBlocks /\ disk_buffer_put(cache, put) /\ UNCHANGED disk
      /\ put' = put + 1 /\ pc' = "info" /\ UNCHANGED <<fat, root, inode_list, call, unsaved, risk>>
  BY DEF set_info_put
<1>2. BufferInv'
  <2>1. put \in Blocks
    BY <1>1, InfoIsLow
  <2>2. CacheOK(cache) /\ BuffersTyped(cache) /\ Unwritten(cache, NoSyc)
    BY <1>1 DEF FileInv, BufferInv
  <2> QED
    BY <1>1, <2>1, <2>2, BufferPut DEF FileInv
<1>3. TableInv' /\ DescInv'
  BY <1>1, TableSame, DescSame DEF FileInv
<1>4. put' \in 0 .. Cardinality(InfoBlocks)
  <2> DEFINE n == Cardinality(InfoBlocks)
  <2>1. n \in Nat /\ put \in 0 .. n - 1
    BY <1>1, InfoIsLow
  <2> HIDE DEF n
  <2>2. put' \in 0 .. n
    BY <1>1, <2>1
  <2> QED
    BY <2>2 DEF n
<1>5. CallInv'
  BY <1>1, <1>4 DEF FileInv, CallInv
<1> QED
  BY <1>2, <1>3, <1>5 DEF FileInv

LEMMA InfoReturnStep ==
    ASSUME FileInv, set_info_return, UNCHANGED filp
    PROVE  FileInv'
<1>1. BufferInv'
  BY BufferSame DEF FileInv, set_info_return, bufferVars
<1>2. TableInv' /\ DescInv'
  BY TableSame, DescSame DEF FileInv, set_info_return
<1>3. CallInv'
  BY NoCallTyped DEF FileInv, set_info_return, CallInv
<1> QED
  BY <1>1, <1>2, <1>3 DEF FileInv

LEMMA RwTurnStep ==
    ASSUME FileInv, rw_turn, UNCHANGED filp
    PROVE  FileInv'
<1>1. /\ syc = NoSyc /\ pc = "rw" /\ call.cluster \in DataClusters
      /\ UNCHANGED <<disk, fat, root, inode_list, put, unsaved, risk>>
      /\ Transfer \/ UNCHANGED <<cache, syc>>
      /\ \/ pc' = "return" /\ UNCHANGED call
         \/ /\ fat[call.cluster] < EOC
            /\ call' = [call EXCEPT !.cluster = fat[@], !.curr_sect = @ + 1]
            /\ pc' = "rw"
  <2>1. \A c \in DataClusters : fat[c] \in Nat
    <3>1. DataClusters \subseteq Entries
      BY DEF DataClusters, Entries
    <3>2. FatValues \subseteq Nat
      BY FatValueRange
    <3> QED
      BY <3>1, <3>2 DEF FileInv, TableInv
  <2> QED
    BY <2>1 DEF rw_turn, EOC
<1>2. BufferInv'
  <2>1. CASE Transfer
    BY <1>1, <2>1, TransferStep DEF FileInv, CallInv
  <2>2. CASE UNCHANGED <<cache, syc>>
    BY <1>1, <2>2, BufferSame DEF FileInv, bufferVars
  <2> QED
    BY <1>1, <2>1, <2>2
<1>3. TableInv' /\ DescInv'
  BY <1>1, TableSame, DescSame DEF FileInv
<1>4. CallInv'
  <2>1. CASE pc' = "return" /\ UNCHANGED call
    BY <1>1, <2>1 DEF FileInv, CallInv
  <2>2. CASE /\ fat[call.cluster] < EOC /\ pc' = "rw"
             /\ call' = [call EXCEPT !.cluster = fat[@], !.curr_sect = @ + 1]
    <3> DEFINE v == fat[call.cluster]
               n == call.curr_sect + 1
    <3>1. v \in 0 .. NO_CLUSTER
      <4>1. call.cluster \in Entries
        BY <1>1 DEF DataClusters, Entries
      <4>2. v \in FatValues
        BY <4>1 DEF FileInv, TableInv
      <4> QED
        BY <4>2, FatValueRange
    <3>2. call \in CallType /\ n \in Nat
      <4>1. call \in CallType
        BY DEF FileInv, CallInv
      <4>2. call.curr_sect \in Nat
        BY <4>1 DEF CallType
      <4> QED
        BY <4>1, <4>2
    <3>3. call' = [call EXCEPT !.cluster = v, !.curr_sect = n]
      BY <2>2, <3>2 DEF CallType
    <3> HIDE DEF v, n
    <3>4. call' \in CallType /\ call'.op = call.op /\ call'.byte = call.byte
      BY <3>1, <3>2, <3>3 DEF CallType
    <3> QED
      BY <3>4, <2>2, <1>1 DEF FileInv, CallInv
  <2> QED
    BY <1>1, <2>1, <2>2
<1> QED
  BY <1>2, <1>3, <1>4 DEF FileInv

LEMMA RwReturnStep ==
    ASSUME FileInv, rw_return, UNCHANGED filp
    PROVE  FileInv'
<1>1. BufferInv'
  BY BufferSame DEF FileInv, rw_return, bufferVars
<1>2. TableInv' /\ DescInv'
  BY TableSame, DescSame DEF FileInv, rw_return
<1>3. NoCall \in CallType /\ NoCall.op # "write"
  BY NoCallTyped DEF NoCall
<1>4. CallInv'
  BY <1>3 DEF FileInv, rw_return, CallInv
<1> QED
  BY <1>1, <1>2, <1>4 DEF FileInv

LEMMA CallStep ==
    ASSUME FileInv, CallTurn
    PROVE  FileInv'
<1>1. UNCHANGED filp
  BY DEF CallTurn, fileVars
<1>2. CASE set_info_put
  BY <1>1, <1>2, InfoPutStep
<1>3. CASE set_info_return
  BY <1>1, <1>3, InfoReturnStep
<1>4. CASE rw_turn
  BY <1>1, <1>4, RwTurnStep
<1>5. CASE rw_wild
  BY <1>1, <1>5, StopStep DEF rw_wild
<1>6. CASE rw_return
  BY <1>1, <1>6, RwReturnStep
<1> QED
  BY <1>2, <1>3, <1>4, <1>5, <1>6 DEF CallTurn

(***************************************************************************)
(* The calls                                                               *)
(***************************************************************************)
LEMMA StartTyped ==
    ASSUME FileInv, NEW op \in {"read", "write"}, NEW s \in Slots, NEW offset \in Nat,
           NEW len \in Nat, NEW byte \in BYTES \cup {""}, op = "write" => byte \in BYTES,
           Start(op, s, offset, len, byte), pc' \in {"rw", "info"},
           risk' \in {"none", "torn", "lost"}
    PROVE  CallInv'
<1>1. root[s].cluster \in 0 .. NO_CLUSTER
  BY DEF FileInv, TableInv, FileType
<1>2. call' = [op |-> op, slot |-> s, offset |-> offset, len |-> len, byte |-> byte,
               cluster |-> root[s].cluster, curr_sect |-> 0]
  BY DEF Start
<1>3. call' \in CallType /\ call'.op = op /\ call'.byte = byte
  BY <1>1, <1>2 DEF CallType
<1> QED
  BY <1>3 DEF FileInv, CallInv, Start

(* A file that does not shrink needs no fewer clusters.                    *)
LEMMA GrowsByAClusterOrMore ==
    ASSUME TableInv, NEW s \in Slots, NEW end \in Nat, end > root[s].size, Grows(s, end) # 0
    PROVE  Grows(s, end) \in Nat
<1>1. root[s].size \in Nat
  BY DEF TableInv, FileType
<1>2. SECTOR_SIZE \in Nat \ {0}
  BY Layout
<1> DEFINE a == root[s].size + SECTOR_SIZE
           b == end + SECTOR_SIZE
<1>3. a \in Nat /\ b \in Nat /\ a <= b
  BY <1>1, <1>2
<1> HIDE DEF a, b
<1>4. a \div SECTOR_SIZE \in Nat /\ b \div SECTOR_SIZE \in Nat
      /\ a \div SECTOR_SIZE <= b \div SECTOR_SIZE
  BY <1>2, <1>3, DivNat, DivMono
<1> QED
  BY <1>4 DEF Grows, Needed, a, b

LEMMA NatSum == \A p, q \in Nat : p + q \in Nat
OBVIOUS

(* fat12_rw_aux up to its loop                                             *)
LEMMA RwStep ==
    ASSUME FileInv, UNCHANGED filp,
           NEW op \in {"read", "write"}, NEW s \in Slots, NEW offset \in Nat,
           NEW len \in Nat, NEW byte \in BYTES \cup {""}, op = "write" => byte \in BYTES,
           fat12_rw_aux(op, s, offset, len, byte)
    PROVE  FileInv'
<1>1. offset + len \in Nat
  BY NatSum, Zenon
<1>2. syc = NoSyc /\ pc = "idle"
  BY DEF fat12_rw_aux
<1>3. CASE RwInPlace(op, s, offset, len, byte)
  <2>1. /\ UNCHANGED <<disk, cache, syc, fat, inode_list, put, unsaved, risk>>
        /\ pc' = "rw" /\ Start(op, s, offset, len, byte)
        /\ \/ root' = root
           \/ root' = [root EXCEPT ![s].size = offset + len]
    BY <1>3 DEF RwInPlace, Start
  <2>2. BufferInv'
    BY <2>1, BufferSame DEF FileInv, bufferVars
  <2>3. TableInv'
    <3> DEFINE r == [root EXCEPT ![s].size = offset + len]
    <3>1. fat' = fat /\ (root' = root \/ root' = r)
      BY <2>1
    <3>2. r \in [Slots -> FileType]
      BY <1>1, SizeSet DEF FileInv, TableInv
    <3> HIDE DEF r
    <3> QED
      BY <3>1, <3>2 DEF FileInv, TableInv
  <2>4. DescInv'
    BY <2>1, DescSame DEF FileInv
  <2>5. CallInv'
    <3>1. risk' \in {"none", "torn", "lost"}
      BY <2>1 DEF FileInv, CallInv
    <3> QED
      BY <2>1, <3>1, StartTyped
  <2> QED
    BY <2>2, <2>3, <2>4, <2>5 DEF FileInv
<1>4. CASE RwGrows(op, s, offset, len, byte)
  <2> DEFINE a == Appended(fat, Last(Chain(fat, root[s].cluster)), Grows(s, offset + len))
             r == [root EXCEPT ![s].size = offset + len]
             c == WithInfo
  <2>1. CASE a.wild
    BY <1>4, <2>1, StopStep DEF RwGrows
  <2>2. CASE ~a.wild
    <3>1. /\ fat' = a.fat /\ root' = r
          /\ cache' = [c EXCEPT !.buffer = Over(InfoSectors(a.fat, r), @)]
          /\ risk' = IF a.full \/ risk # "none" THEN "lost" ELSE risk
          /\ pc' = "info"
          /\ Start(op, s, offset, len, byte)
      BY <1>4, <2>2 DEF RwGrows
    <3>2. a.fat \in [Entries -> FatValues]
      <4>1. Grows(s, offset + len) \in Nat
        <5>1. offset + len > root[s].size /\ Grows(s, offset + len) # 0
          BY <1>4 DEF RwGrows
        <5> QED
          BY <1>1, <5>1, GrowsByAClusterOrMore DEF FileInv
      <4> QED
        BY <4>1, AppendedTyped DEF FileInv, TableInv
    <3>3. r \in [Slots -> FileType]
      BY <1>1, SizeSet DEF FileInv, TableInv
    <3> HIDE DEF a, r
    <3>4. BufferInv'
      BY <1>2, <3>1, <3>2, <3>3, InfoIsWritten DEF FileInv, Start
    <3>5. TableInv'
      BY <3>1, <3>2, <3>3 DEF TableInv
    <3>6. DescInv'
      BY <3>1, DescSame DEF FileInv, Start
    <3>7. CallInv'
      <4>1. risk' \in {"none", "torn", "lost"}
        BY <3>1 DEF FileInv, CallInv
      <4> QED
        BY <3>1, <4>1, StartTyped
    <3> QED
      BY <3>4, <3>5, <3>6, <3>7 DEF FileInv
  <2> QED
    BY <2>1, <2>2
<1>5. CASE RwWild(s, offset, len)
  BY <1>5, StopStep DEF RwWild
<1> QED
  BY <1>3, <1>4, <1>5 DEF fat12_rw_aux

(* The directory entry of an open descriptor                               *)
LEMMA DescriptorSlot ==
    ASSUME DescInv, NEW d \in Descriptors, filp[d] # NULL, filp[d].inode # <<>>
    PROVE  SlotOf(d) \in Slots /\ filp[d].f_pos \in Nat
<1>1. filp[d].inode[1] \in 1 .. Len(inode_list) /\ filp[d].f_pos \in Nat
  BY DEF DescInv
<1>2. inode_list[filp[d].inode[1]] \in InodeType
  BY <1>1, ElementOfSeq DEF DescInv
<1> QED
  BY <1>1, <1>2 DEF SlotOf, InodeType

LEMMA ReadWriteStep ==
    ASSUME FileInv, NEW d \in Descriptors, NEW len \in LENGTHS,
           \/ sys_read(d, len)
           \/ \E byte \in BYTES : sys_write(d, len, byte)
    PROVE  FileInv'
<1>1. len \in Nat
  BY FileSysAssumption
<1>2. CASE sys_read(d, len)
  <2>1. sys_rw("read", d, len, "")
    BY <1>2 DEF sys_read
  <2>2. /\ filp[d] # NULL /\ filp[d].inode # <<>>
        /\ fat12_rw_aux("read", SlotOf(d), filp[d].f_pos, len, "") /\ UNCHANGED filp
    BY <2>1 DEF sys_rw, fileVars
  <2>3. SlotOf(d) \in Slots /\ filp[d].f_pos \in Nat
    BY <2>2, DescriptorSlot DEF FileInv
  <2> QED
    BY <1>1, <2>2, <2>3, RwStep
<1>3. CASE \E byte \in BYTES : sys_write(d, len, byte)
  <2>1. PICK byte \in BYTES : sys_write(d, len, byte)
    BY <1>3
  <2>2. sys_rw("write", d, len, byte)
    BY <2>1 DEF sys_write
  <2>3. /\ filp[d] # NULL /\ filp[d].inode # <<>>
        /\ fat12_rw_aux("write", SlotOf(d), filp[d].f_pos, len, byte) /\ UNCHANGED filp
    BY <2>2 DEF sys_rw, fileVars
  <2>4. SlotOf(d) \in Slots /\ filp[d].f_pos \in Nat
    BY <2>3, DescriptorSlot DEF FileInv
  <2> QED
    BY <1>1, <2>3, <2>4, RwStep
<1> QED
  BY <1>2, <1>3

(* A new count in an inode                                                 *)
LEMMA CountSet ==
    ASSUME NEW s \in Seq(InodeType), NEW i \in 1 .. Len(s), NEW n \in Nat
    PROVE  /\ [s EXCEPT ![i].i_count = n] \in Seq(InodeType)
           /\ Len([s EXCEPT ![i].i_count = n]) = Len(s)
<1>1. s[i] \in InodeType
  BY ElementOfSeq
<1> DEFINE e == [s[i] EXCEPT !.i_count = n]
<1>2. e \in InodeType
  BY <1>1 DEF InodeType
<1>3. [s EXCEPT ![i].i_count = n] = [s EXCEPT ![i] = e]
  OBVIOUS
<1> HIDE DEF e
<1>4. [s EXCEPT ![i] = e] \in Seq(InodeType) /\ Len([s EXCEPT ![i] = e]) = Len(s)
  BY <1>2, ExceptSeq
<1> QED
  BY <1>3, <1>4

(* fat12_get_inode returns no inode or one on its list, which never gets   *)
(* shorter.                                                                *)
LEMMA OpenedTyped ==
    ASSUME DescInv, NEW n
    PROVE  LET o == Opened(n)
           IN  /\ o.list \in Seq(InodeType)
               /\ Len(o.list) \in Nat /\ Len(o.list) >= Len(inode_list)
               /\ o.inode # <<>> => o.inode[1] \in 1 .. Len(o.list)
<1> DEFINE o == Opened(n)
           m == Max(Found(n))
           k == Min(Named(n))
<1>1. inode_list \in Seq(InodeType) /\ Len(inode_list) \in Nat
      /\ DOMAIN inode_list = 1 .. Len(inode_list)
  BY LenProperties DEF DescInv
<1>2. CASE Found(n) # {}
  <2>1. m \in Found(n)
    <3>1. Found(n) \in SUBSET (0 .. Len(inode_list))
      BY <1>1 DEF Found
    <3> QED
      BY <3>1, <1>1, <1>2, MaxElement
  <2>2. m \in 1 .. Len(inode_list)
    BY <2>1, <1>1 DEF Found
  <2>3. o = [list |-> [inode_list EXCEPT ![m].i_count = inode_list[m].i_count + 1],
             inode |-> <<m>>]
    BY <1>2 DEF Opened
  <2> HIDE DEF o, m
  <2>4. inode_list[m].i_count + 1 \in Nat
    <3>1. inode_list[m] \in InodeType
      BY <1>1, <2>2, ElementOfSeq
    <3>2. inode_list[m].i_count \in Nat
      BY <3>1 DEF InodeType
    <3> QED
      BY <3>2
  <2>5. o.list \in Seq(InodeType) /\ Len(o.list) = Len(inode_list)
    BY <1>1, <2>2, <2>3, <2>4, CountSet
  <2>6. o.inode[1] = m
    BY <2>3
  <2> QED
    BY <1>1, <2>2, <2>5, <2>6 DEF o
<1>3. CASE Found(n) = {} /\ Named(n) # {}
  <2>1. k \in Slots
    <3>1. Named(n) \in SUBSET Nat /\ Named(n) \subseteq Slots
      BY DEF Named, Slots
    <3> QED
      BY <3>1, <1>3, MinElement
  <2> DEFINE e == [slot |-> k, i_count |-> 1]
  <2>2. o = [list |-> Append(inode_list, e), inode |-> <<Len(inode_list) + 1>>]
    BY <1>3 DEF Opened
  <2>3. e \in InodeType
    BY <2>1 DEF InodeType
  <2> HIDE DEF o, e
  <2>4. o.list \in Seq(InodeType) /\ Len(o.list) = Len(inode_list) + 1
    BY <1>1, <2>2, <2>3, AppendProperties
  <2>5. o.inode[1] = Len(inode_list) + 1
    BY <2>2
  <2> QED
    BY <1>1, <2>4, <2>5 DEF o
<1>4. CASE Found(n) = {} /\ Named(n) = {}
  <2>1. o.list = inode_list /\ o.inode = <<>>
    BY <1>4 DEF Opened
  <2> QED
    BY <1>1, <2>1
<1> QED
  BY <1>2, <1>3, <1>4

LEMMA OpenStep ==
    ASSUME FileInv, NEW n \in NAMES, NEW pos \in POSITIONS, sys_open(n, pos)
    PROVE  FileInv'
<1> DEFINE o == Opened(n)
           open == [inode |-> o.inode, f_pos |-> pos]
<1>1. /\ UNCHANGED <<disk, cache, syc, fat, root, call, pc, put, unsaved, risk>>
      /\ pc = "idle" /\ inode_list' = o.list
      /\ \/ get_free_fd >= 0 /\ filp' = [filp EXCEPT ![get_free_fd] = open]
         \/ filp' = filp
  BY DEF sys_open, Ready, bufferVars
<1>2. BufferInv'
  BY <1>1, BufferSame DEF FileInv, bufferVars
<1>3. TableInv' /\ CallInv'
  BY <1>1, TableSame DEF FileInv, CallInv
<1>4. DescInv'
  <2>1. /\ o.list \in Seq(InodeType)
        /\ Len(o.list) \in Nat /\ Len(o.list) >= Len(inode_list)
        /\ o.inode # <<>> => o.inode[1] \in 1 .. Len(o.list)
    BY OpenedTyped DEF FileInv
  <2>2. Len(inode_list) \in Nat
    BY LenProperties DEF FileInv, DescInv
  <2>3. pos \in Nat
    BY FileSysAssumption
  <2>4. \A d \in Descriptors : filp'[d] = filp[d] \/ filp'[d] = open
    BY <1>1 DEF FileInv, DescInv
  <2>5. filp' = [d \in Descriptors |-> filp'[d]]
    BY <1>1 DEF FileInv, DescInv
  <2> HIDE DEF o
  <2>6. ASSUME NEW d \in Descriptors, filp'[d] # NULL
        PROVE  /\ filp'[d] = [inode |-> filp'[d].inode, f_pos |-> filp'[d].f_pos]
               /\ filp'[d].f_pos \in Nat
               /\ filp'[d].inode # <<>> => filp'[d].inode[1] \in 1 .. Len(o.list)
    <3>1. CASE filp'[d] = filp[d]
      <4> DEFINE old == filp[d]
      <4>1. /\ old = [inode |-> old.inode, f_pos |-> old.f_pos] /\ old.f_pos \in Nat
            /\ old.inode # <<>> => old.inode[1] \in 1 .. Len(inode_list)
        BY <2>6, <3>1 DEF FileInv, DescInv
      <4> QED
        BY <3>1, <4>1, <2>1, <2>2
    <3>2. CASE filp'[d] = open
      BY <3>2, <2>1, <2>3
    <3> QED
      BY <2>4, <3>1, <3>2
  <2>7. inode_list' = o.list /\ pc' = "idle"
    BY <1>1 DEF o
  <2> QED
    BY <2>1, <2>5, <2>6, <2>7 DEF DescInv
<1> QED
  BY <1>2, <1>3, <1>4 DEF FileInv

LEMMA CloseStep ==
    ASSUME FileInv, NEW d \in Descriptors, sys_close(d)
    PROVE  FileInv'
<1> DEFINE i == filp[d].inode[1]
           n == inode_list[i].i_count - 1
<1>1. /\ UNCHANGED <<disk, cache, syc, fat, root, call, pc, put, unsaved, risk>>
      /\ pc = "idle" /\ filp' = [filp EXCEPT ![d] = NULL]
      /\ filp[d] # NULL /\ filp[d].inode # <<>>
      /\ inode_list[i].i_count > 1
      /\ inode_list' = [inode_list EXCEPT ![i].i_count = n]
  BY DEF sys_close, Ready, bufferVars, Release
<1>2. BufferInv'
  BY <1>1, BufferSame DEF FileInv, bufferVars
<1>3. TableInv' /\ CallInv'
  BY <1>1, TableSame DEF FileInv, CallInv
<1>4. DescInv'
  <2>1. inode_list \in Seq(InodeType) /\ i \in 1 .. Len(inode_list)
    BY <1>1 DEF FileInv, DescInv
  <2> HIDE DEF i
  <2>2. n \in Nat
    <3>1. inode_list[i] \in InodeType
      BY <2>1, ElementOfSeq
    <3>2. inode_list[i].i_count \in Nat
      BY <3>1 DEF InodeType
    <3> QED
      BY <3>2, <1>1
  <2> HIDE DEF n
  <2>3. inode_list' \in Seq(InodeType) /\ Len(inode_list') = Len(inode_list)
    BY <1>1, <2>1, <2>2, CountSet
  <2>4. /\ filp' = [e \in Descriptors |-> filp'[e]]
        /\ \A e \in Descriptors : filp'[e] # NULL => filp'[e] = filp[e]
    BY <1>1 DEF FileInv, DescInv
  <2>5. ASSUME NEW e \in Descriptors, filp'[e] # NULL
        PROVE  /\ filp'[e] = [inode |-> filp'[e].inode, f_pos |-> filp'[e].f_pos]
               /\ filp'[e].f_pos \in Nat
               /\ filp'[e].inode # <<>> => filp'[e].inode[1] \in 1 .. Len(inode_list')
    <3> DEFINE old == filp[e]
    <3>1. filp'[e] = old /\ old # NULL
      BY <2>4, <2>5
    <3>2. /\ old = [inode |-> old.inode, f_pos |-> old.f_pos] /\ old.f_pos \in Nat
          /\ old.inode # <<>> => old.inode[1] \in 1 .. Len(inode_list)
      BY <3>1 DEF FileInv, DescInv
    <3> QED
      BY <3>1, <3>2, <2>3
  <2>6. pc' = "idle"
    BY <1>1
  <2> QED
    BY <2>3, <2>4, <2>5, <2>6 DEF DescInv
<1> QED
  BY <1>2, <1>3, <1>4 DEF FileInv

LEMMA HaltStep ==
    ASSUME FileInv, UNCHANGED <<bufferVars, fat, root, inode_list, call, put, unsaved, risk, filp>>,
           pc' \in {"fault", "bug"}
    PROVE  FileInv'
<1>1. BufferInv'
  BY BufferSame DEF FileInv
<1>2. TableInv' /\ DescInv'
  BY TableSame, DescSame DEF FileInv
<1>3. CallInv'
  BY DEF FileInv, CallInv
<1> QED
  BY <1>1, <1>2, <1>3 DEF FileInv

LEMMA CreateStep ==
    ASSUME FileInv, UNCHANGED filp, NEW n \in NAMES, fat12_create(n)
    PROVE  FileInv'
<1> DEFINE c == get_free_fat_entry(fat)
           k == Min(Named(""))
           e == [name |-> n, cluster |-> c, size |-> 0]
<1>1. /\ UNCHANGED <<disk, cache, syc, inode_list, call, pc, put, unsaved>>
      /\ Named("") # {}
      /\ fat' = Marked(fat, c) /\ root' = [root EXCEPT ![k] = e]
      /\ risk' = IF c = NO_CLUSTER \/ risk # "none" THEN "lost" ELSE risk
  BY DEF fat12_create
<1>2. BufferInv'
  BY <1>1, BufferSame DEF FileInv, bufferVars
<1>3. TableInv'
  <2>1. c \in 0 .. NO_CLUSTER /\ Marked(fat, c) \in [Entries -> FatValues]
    BY FreeEntry DEF FileInv, TableInv
  <2> HIDE DEF c
  <2>2. e \in FileType
    BY <2>1 DEF FileType
  <2> QED
    BY <1>1, <2>1, <2>2 DEF FileInv, TableInv
<1>4. DescInv'
  BY <1>1, DescSame DEF FileInv
<1>5. CallInv'
  BY <1>1 DEF FileInv, CallInv
<1> QED
  BY <1>2, <1>3, <1>4, <1>5 DEF FileInv

LEMMA RemoveStep ==
    ASSUME FileInv, UNCHANGED filp, NEW n \in NAMES, fat12_remove(n)
    PROVE  FileInv'
<1> DEFINE first == {root[s].cluster : s \in Named(n)}
           freed == UNION {Range(Chain(fat, c)) : c \in first}
<1>1. CASE Stop("wild")
  BY <1>1, StopStep
<1>2. CASE ~Stop("wild")
  <2>1. /\ UNCHANGED <<disk, cache, syc, inode_list, call, pc, put>>
        /\ fat' = [c \in Entries |-> IF c \in freed THEN 0 ELSE fat[c]]
        /\ root' = [s \in Slots |-> IF s \in Named(n) THEN NoFile ELSE root[s]]
        /\ unsaved' = TRUE
        /\ risk' = IF risk # "none" THEN "lost" ELSE risk
    BY <1>2 DEF fat12_remove
  <2> HIDE DEF freed
  <2>2. BufferInv'
    BY <2>1, BufferSame DEF FileInv, bufferVars
  <2>3. TableInv'
    <3>1. 0 \in FatValues
      <4>1. CLUSTERS \in Nat /\ CLUSTERS >= 2
        BY Layout
      <4> QED
        BY <4>1 DEF FatValues, Entries
    <3> QED
      BY <2>1, <3>1, NoCallTyped DEF FileInv, TableInv
  <2>4. DescInv'
    BY <2>1, DescSame DEF FileInv
  <2>5. CallInv'
    BY <2>1 DEF FileInv, CallInv
  <2> QED
    BY <2>2, <2>3, <2>4, <2>5 DEF FileInv
<1> QED
  BY <1>1, <1>2

LEMMA NextInv ==
    ASSUME FileInv, [Next]_vars
    PROVE  FileInv'
<1>1. CASE Boot
  BY <1>1, BootStep
<1>2. CASE Device
  BY <1>2, DeviceStep
<1>3. CASE CallTurn
  BY <1>3, CallStep
<1>4. ASSUME NEW n \in NAMES, NEW pos \in POSITIONS, sys_open(n, pos)
      PROVE  FileInv'
  BY <1>4, OpenStep
<1>5. ASSUME NEW d \in Descriptors, NEW len \in LENGTHS,
             \/ sys_read(d, len)
             \/ \E byte \in BYTES : sys_write(d, len, byte)
      PROVE  FileInv'
  BY <1>5, ReadWriteStep
<1>6. ASSUME NEW d \in Descriptors, UseWithoutInode(d) \/ CloseBug(d)
      PROVE  FileInv'
  BY <1>6, HaltStep DEF UseWithoutInode, CloseBug, fileVars
<1>7. ASSUME NEW d \in Descriptors, sys_close(d)
      PROVE  FileInv'
  BY <1>7, CloseStep
<1>8. CASE ChangeDirectory
  <2>1. UNCHANGED filp
    BY <1>8 DEF ChangeDirectory, fileVars
  <2>2. PICK n \in NAMES : fat12_create(n) \/ fat12_remove(n)
    BY <1>8 DEF ChangeDirectory
  <2> QED
    BY <2>1, <2>2, CreateStep, RemoveStep
<1>9. CASE PowerFails
  BY <1>9, PowerStep
<1>10. CASE UNCHANGED vars
  <2>1. /\ UNCHANGED <<bufferVars, fat, root, inode_list, call, pc, put, unsaved, risk, filp>>
    BY <1>10 DEF vars, fatVars, fileVars, bufferVars
  <2>2. BufferInv'
    BY <2>1, BufferSame DEF FileInv
  <2>3. TableInv' /\ DescInv'
    BY <2>1, TableSame, DescSame DEF FileInv
  <2>4. CallInv'
    BY <2>1 DEF FileInv, CallInv
  <2> QED
    BY <2>2, <2>3, <2>4 DEF FileInv
<1> QED
  BY <1>1, <1>2, <1>3, <1>4, <1>5, <1>6, <1>7, <1>8, <1>9, <1>10 DEF Next, Idle

(* At every moment, whatever calls were made and wherever the power failed: *)
(* the floppy can be read as a file system, every buffer holds its sector, *)
(* and every open descriptor refers to an entry of the directory.          *)
THEOREM FilesInvariance == Spec => []FileInv
<1>1. FileInv /\ [Next]_vars => FileInv'
  BY NextInv
<1> QED
  BY InitInv, <1>1, PTL DEF Spec

(* The tables in memory and those on the floppy, read back sector by       *)
(* sector, hold FAT values and directory entries, and each block is once   *)
(* in its chain and has its sectors in the buffer: disk_buffer.c, fat12.c. *)
THEOREM FilesTyped == Spec => []TypeOK
<1>1. ASSUME FileInv PROVE TypeOK
  <2>1. DiskTyped /\ CacheOK(cache) /\ BuffersTyped(cache)
    BY <1>1 DEF FileInv, BufferInv
  <2>2. FatOf(disk) \in [Entries -> FatValues] /\ RootOf(disk) \in [Slots -> FileType]
    <3>1. \A c \in Entries : FatSector(c) \in Sectors
      BY Layout DEF FatSectors
    <3>2. \A s \in Slots : RootSector(s) \in Sectors
      BY Layout DEF RootSectors
    <3> QED
      BY <2>1, <3>1, <3>2 DEF FatOf, RootOf, DiskTyped, SectorTyped
  <2>3. ASSUME NEW c \in DataClusters
        PROVE  Content(DataSector(c)) \in [1 .. SECTOR_SIZE -> STRING]
    <3>1. DataSector(c) \in Sectors
      BY Layout
    <3> QED
      BY <2>1, <3>1 DEF Content, DiskTyped, BuffersTyped, SectorTyped
  <2>4. DOMAIN disk = Sectors
    BY <2>1 DEF DiskTyped
  <2>5. /\ cache.busy \subseteq Blocks
        /\ DOMAIN cache.buffer = UNION {SectorsOf(b) : b \in {x \in Blocks : find_dnode(cache, x)}}
        /\ \A h \in DOMAIN cache.chain : IsInjective(cache.chain[h])
    BY <2>1 DEF CacheOK, Kept
  <2>6. call.slot \in Slots /\ call.op \in {"none", "read", "write"}
    BY <1>1 DEF FileInv, CallInv, CallType
  <2> QED
    BY <1>1, <2>2, <2>3, <2>4, <2>5, <2>6 DEF TypeOK, FileInv, TableInv, CallInv
<1> QED
  BY FilesInvariance, <1>1, PTL

(* A sector that is not on the floppy as its buffer has it belongs to a    *)
(* block in use or to the one being written back: disk_buffer_put is over  *)
(* only when the block is safe, for any geometry of floppy and blocks.     *)
THEOREM BuffersAreWritten == Spec => []WriteThrough
<1>1. ASSUME FileInv PROVE WriteThrough
  BY <1>1 DEF FileInv, BufferInv, Unwritten, WriteThrough
<1> QED
  BY FilesInvariance, <1>1, PTL

(***************************************************************************)
(* Chains                                                                  *)
(***************************************************************************)
(* A chain is followed step by step, and stands still behind its end.      *)
LEMMA StepsRule ==
    ASSUME NEW f, NEW c
    PROVE  /\ Steps(f, c) = [n \in 0 .. CLUSTERS |-> Steps(f, c)[n]]
           /\ Steps(f, c)[0] = c
           /\ \A n \in 0 .. CLUSTERS - 1 :
                 Steps(f, c)[n + 1] = IF Steps(f, c)[n] \in DataClusters
                                      THEN f[Steps(f, c)[n]] ELSE Steps(f, c)[n]
<1> DEFINE After(x) == IF x \in DataClusters THEN f[x] ELSE x
           F(m, h) == [n \in 0 .. m |-> IF n = 0 THEN c ELSE After(h[n - 1])]
           step == CHOOSE h : h = F(CLUSTERS, h)
<1>1. Steps(f, c) = step
  BY DEF Steps
<1>2. CLUSTERS \in Nat
  BY Layout
<1> HIDE DEF After
<1>3. \A m \in Nat : \E h : h = F(m, h)
  <2> DEFINE T == {m \in Nat : \E h : h = F(m, h)}
  <2>1. 0 \in T
    <3>1. [n \in 0 .. 0 |-> c] = F(0, [n \in 0 .. 0 |-> c])
      OBVIOUS
    <3> QED
      BY <3>1
  <2>2. ASSUME NEW m \in Nat, m \in T PROVE m + 1 \in T
    <3>1. PICK h : h = F(m, h)
      BY <2>2
    <3> DEFINE g == [n \in 0 .. m + 1 |-> IF n <= m THEN h[n] ELSE After(h[m])]
    <3>2. ASSUME NEW n \in 0 .. m + 1
          PROVE  g[n] = IF n = 0 THEN c ELSE After(g[n - 1])
      <4>1. CASE n = 0
        BY <3>1, <4>1
      <4>2. CASE n \in 1 .. m
        <5>1. n - 1 \in 0 .. m /\ n \in 0 .. m /\ n # 0 /\ n - 1 <= m /\ n <= m
          BY <4>2
        <5>2. g[n] = h[n] /\ g[n - 1] = h[n - 1]
          BY <5>1
        <5>3. h[n] = After(h[n - 1])
          BY <3>1, <5>1
        <5> QED
          BY <5>1, <5>2, <5>3
      <4>3. CASE n = m + 1
        <5>1. n # 0 /\ n - 1 = m /\ ~(n <= m) /\ m \in 0 .. m + 1 /\ m <= m
          BY <4>3
        <5>2. g[n] = After(h[m]) /\ g[m] = h[m]
          BY <5>1
        <5> QED
          BY <5>1, <5>2
      <4> QED
        BY <4>1, <4>2, <4>3
    <3>3. g = F(m + 1, g)
      <4>1. DOMAIN g = 0 .. m + 1 /\ g = [n \in 0 .. m + 1 |-> g[n]]
        OBVIOUS
      <4> HIDE DEF g
      <4> QED
        BY <3>2, <4>1
    <3> HIDE DEF g
    <3>4. \E i : i = F(m + 1, i)
      BY <3>3
    <3> QED
      BY <3>4
  <2> HIDE DEF T
  <2>3. T = Nat
    <3>1. T \in SUBSET Nat
      BY DEF T
    <3> QED
      BY <3>1, <2>1, <2>2, FromZeroOn
  <2> QED
    BY <2>3 DEF T
<1>4. step = F(CLUSTERS, step)
  BY <1>2, <1>3
<1> HIDE DEF step
<1>5. \A n \in 0 .. CLUSTERS : step[n] = IF n = 0 THEN c ELSE After(step[n - 1])
  BY <1>4
<1>6. step = [n \in 0 .. CLUSTERS |-> step[n]]
  BY <1>4
<1>7. step[0] = c
  BY <1>2, <1>5
<1>8. ASSUME NEW n \in 0 .. CLUSTERS - 1 PROVE step[n + 1] = After(step[n])
  <2>1. n + 1 \in 0 .. CLUSTERS /\ n + 1 # 0 /\ (n + 1) - 1 = n
    BY <1>2
  <2> QED
    BY <1>5, <2>1
<1> QED
  BY <1>1, <1>6, <1>7, <1>8 DEF After

(* Two FATs that agree on the clusters met up to the k-th step lead to the *)
(* same ones.                                                              *)
LEMMA SameSteps ==
    ASSUME NEW f, NEW g, NEW c, NEW k \in 0 .. CLUSTERS,
           \A i \in 0 .. k - 1 :
              Steps(f, c)[i] \in DataClusters => g[Steps(f, c)[i]] = f[Steps(f, c)[i]]
    PROVE  \A i \in 0 .. k : Steps(g, c)[i] = Steps(f, c)[i]
<1> DEFINE T == {n \in Nat : n <= k => Steps(g, c)[n] = Steps(f, c)[n]}
<1>1. CLUSTERS \in Nat
  BY Layout
<1>2. 0 \in T
  BY StepsRule
<1>3. ASSUME NEW n \in Nat, n \in T PROVE n + 1 \in T
  <2>1. SUFFICES ASSUME n + 1 <= k PROVE Steps(g, c)[n + 1] = Steps(f, c)[n + 1]
    OBVIOUS
  <2>2. n <= k /\ n \in 0 .. k - 1 /\ n \in 0 .. CLUSTERS - 1
    BY <1>1, <2>1
  <2>3. Steps(g, c)[n] = Steps(f, c)[n]
    BY <1>3, <2>2
  <2> QED
    BY <2>2, <2>3, StepsRule
<1> HIDE DEF T
<1>4. T = Nat
  <2>1. T \in SUBSET Nat
    BY DEF T
  <2> QED
    BY <1>2, <1>3, <2>1, FromZeroOn
<1> QED
  BY <1>4 DEF T

(* Behind a number that is no cluster nothing moves.                       *)
LEMMA StandsStill ==
    ASSUME NEW f, NEW c, NEW k \in 0 .. CLUSTERS, Steps(f, c)[k] \notin DataClusters
    PROVE  \A i \in k .. CLUSTERS : Steps(f, c)[i] = Steps(f, c)[k]
<1> DEFINE T == {n \in Nat : k + n <= CLUSTERS => Steps(f, c)[k + n] = Steps(f, c)[k]}
<1>1. CLUSTERS \in Nat /\ k \in Nat
  BY Layout
<1>2. 0 \in T
  BY <1>1
<1>3. ASSUME NEW n \in Nat, n \in T PROVE n + 1 \in T
  <2>1. SUFFICES ASSUME k + (n + 1) <= CLUSTERS PROVE Steps(f, c)[k + (n + 1)] = Steps(f, c)[k]
    OBVIOUS
  <2>2. k + n <= CLUSTERS /\ k + n \in 0 .. CLUSTERS - 1 /\ k + (n + 1) = (k + n) + 1
    BY <1>1, <2>1
  <2>3. Steps(f, c)[k + n] = Steps(f, c)[k]
    BY <1>3, <2>2
  <2> QED
    BY <2>2, <2>3, StepsRule
<1> HIDE DEF T
<1>4. T = Nat
  <2>1. T \in SUBSET Nat
    BY DEF T
  <2> QED
    BY <1>2, <1>3, <2>1, FromZeroOn
<1>5. ASSUME NEW i \in k .. CLUSTERS PROVE Steps(f, c)[i] = Steps(f, c)[k]
  <2>1. i - k \in Nat /\ k + (i - k) = i /\ i <= CLUSTERS
    BY <1>1
  <2> QED
    BY <1>4, <2>1 DEF T
<1> QED
  BY <1>5

(* The first k clusters from c on are clusters, each met once.             *)
Path(f, c, k) ==
    /\ k \in 0 .. CLUSTERS
    /\ \A i \in 0 .. k - 1 : Steps(f, c)[i] \in DataClusters
    /\ \A i, j \in 0 .. k - 1 : Steps(f, c)[i] = Steps(f, c)[j] => i = j

(* There are at most as many as the FAT has.                               *)
LEMMA PathIsShort ==
    ASSUME NEW f, NEW c, NEW k \in Nat,
           \A i \in 0 .. k - 1 : f[i] \in DataClusters,
           \A i, j \in 0 .. k - 1 : f[i] = f[j] => i = j
    PROVE  k <= CLUSTERS - 2
<1>1. CLUSTERS \in Nat /\ CLUSTERS >= 2
  BY Layout
<1>2. IsFiniteSet(DataClusters) /\ Cardinality(DataClusters) = CLUSTERS - 2
  BY <1>1, FS_Interval DEF DataClusters
<1>3. IsFiniteSet(0 .. k - 1) /\ Cardinality(0 .. k - 1) = k
  BY FS_Interval
<1> DEFINE h == [i \in 0 .. k - 1 |-> f[i]]
<1>4. h \in [0 .. k - 1 -> DataClusters] /\ \A i \in 0 .. k - 1 : h[i] = f[i]
  OBVIOUS
<1> HIDE DEF h
<1>5. SUFFICES ASSUME Cardinality(DataClusters) < Cardinality(0 .. k - 1) PROVE FALSE
  BY <1>1, <1>2, <1>3
<1>6. \E x, y \in 0 .. k - 1 : x # y /\ h[x] = h[y]
  BY <1>2, <1>3, <1>4, <1>5, FS_PigeonHole
<1> QED
  BY <1>4, <1>6

(* What is met on the way is one step behind what was met before.          *)
LEMMA PathNext ==
    ASSUME NEW f, NEW c, NEW k, Path(f, c, k), NEW i \in 0 .. k - 1
    PROVE  /\ k \in Nat /\ k <= CLUSTERS /\ i \in Nat /\ i < k /\ i + 1 \in 0 .. k
           /\ Steps(f, c)[i] \in DataClusters
           /\ Steps(f, c)[i + 1] = f[Steps(f, c)[i]]
<1>1. CLUSTERS \in Nat /\ k \in Nat /\ k <= CLUSTERS
  BY Layout DEF Path
<1>2. i \in 0 .. CLUSTERS - 1 /\ i \in Nat /\ i < k /\ i + 1 \in 0 .. k
  BY <1>1
<1>3. Steps(f, c)[i] \in DataClusters
  BY DEF Path
<1> QED
  BY <1>1, <1>2, <1>3, StepsRule

(* Two FATs have the same entries for the first k clusters met from c on.  *)
Agree(f, g, c, k) == \A i \in 0 .. k - 1 : g[Steps(f, c)[i]] = f[Steps(f, c)[i]]

(* A FAT that agrees on the way, but for its last entry, has the same one. *)
LEMMA SamePath ==
    ASSUME NEW f, NEW g, NEW c, NEW k, Path(f, c, k), Agree(f, g, c, k - 1)
    PROVE  /\ Path(g, c, k)
           /\ \A i \in 0 .. k - 1 : Steps(g, c)[i] = Steps(f, c)[i]
<1>1. CLUSTERS \in Nat /\ k \in 0 .. CLUSTERS
  BY Layout DEF Path
<1>2. ASSUME k # 0
      PROVE  \A i \in 0 .. k - 1 : Steps(g, c)[i] = Steps(f, c)[i]
  <2>1. k - 1 \in 0 .. CLUSTERS
    BY <1>1, <1>2
  <2>2. \A i \in 0 .. (k - 1) - 1 : g[Steps(f, c)[i]] = f[Steps(f, c)[i]]
    BY DEF Agree
  <2> QED
    BY <2>1, <2>2, SameSteps
<1>3. k = 0 => 0 .. k - 1 = {}
  OBVIOUS
<1> QED
  BY <1>1, <1>2, <1>3 DEF Path

(* A chain of k clusters, with a mark of the end in the last.              *)
Chained(f, c, k) ==
    /\ Path(f, c, k)
    /\ k # 0
    /\ f[Steps(f, c)[k - 1]] \in EOC .. 4095

LEMMA EndMarks ==
    \A v \in EOC .. 4095 : v # 0 /\ v \notin DataClusters /\ v >= EOC /\ v \in Nat
BY Layout DEF EOC, DataClusters

(* fat12.c's walk finds exactly these, and that they end.                  *)
LEMMA ChainIsPath ==
    ASSUME NEW f, NEW c, NEW k, Chained(f, c, k)
    PROVE  /\ Chain(f, c) = [n \in 1 .. k |-> Steps(f, c)[n - 1]]
           /\ Len(Chain(f, c)) = k
           /\ Last(Chain(f, c)) = Steps(f, c)[k - 1]
           /\ Range(Chain(f, c)) = {Steps(f, c)[i] : i \in 0 .. k - 1}
           /\ Ends(f, c)
<1> DEFINE step == Steps(f, c)
           ends == {n \in 0 .. CLUSTERS : n = CLUSTERS \/ step[n] \notin DataClusters}
<1>1. CLUSTERS \in Nat /\ k \in 0 .. CLUSTERS /\ k # 0 /\ k \in Nat
  BY Layout DEF Chained, Path
<1>2. /\ \A i \in 0 .. k - 1 : step[i] \in DataClusters
      /\ step[k] = f[step[k - 1]] /\ step[k] \in EOC .. 4095
  <2>1. k - 1 \in 0 .. k - 1 /\ (k - 1) + 1 = k
    BY <1>1
  <2>2. Path(f, c, k) /\ step[k - 1] \in DataClusters /\ f[step[k - 1]] \in EOC .. 4095
    BY <2>1 DEF Chained, Path
  <2>3. step[(k - 1) + 1] = f[step[k - 1]]
    BY <2>1, <2>2, PathNext
  <2>4. \A i \in 0 .. k - 1 : step[i] \in DataClusters
    BY <2>2 DEF Path
  <2> HIDE DEF step
  <2> QED
    BY <2>1, <2>2, <2>3, <2>4
<1>3. step[k] \notin DataClusters
  BY <1>2, EndMarks
<1> HIDE DEF step
<1>4. k \in ends /\ \A n \in ends : k <= n
  BY <1>1, <1>2, <1>3
<1>5. Min(ends) = k
  <2>1. ends \in SUBSET Nat /\ ends # {}
    BY <1>1, <1>4
  <2> HIDE DEF ends
  <2>2. Min(ends) \in ends /\ Min(ends) <= k /\ k <= Min(ends) /\ Min(ends) \in Nat
    BY <2>1, <1>4, MinElement
  <2> QED
    BY <2>2, <1>1
<1>6. Chain(f, c) = [n \in 1 .. k |-> step[n - 1]]
  <2>1. Chain(f, c) = [n \in 1 .. Min(ends) |-> step[n - 1]]
    BY DEF Chain, step
  <2> QED
    BY <2>1, <1>5
<1>7. Len(Chain(f, c)) = k /\ Last(Chain(f, c)) = step[k - 1]
  <2>1. Len([n \in 1 .. k |-> step[n - 1]]) = k
    BY <1>1
  <2>2. [n \in 1 .. k |-> step[n - 1]][k] = step[k - 1]
    BY <1>1
  <2> QED
    BY <2>1, <2>2, <1>6 DEF Last
<1>8. Range(Chain(f, c)) = {step[i] : i \in 0 .. k - 1}
  <2>1. Range([n \in 1 .. k |-> step[n - 1]]) = {step[n - 1] : n \in 1 .. k}
    BY DEF Range
  <2>2. \A n \in 1 .. k : n - 1 \in 0 .. k - 1
    BY <1>1
  <2>3. \A i \in 0 .. k - 1 : i + 1 \in 1 .. k /\ (i + 1) - 1 = i
    BY <1>1
  <2> QED
    BY <2>1, <2>2, <2>3, <1>6
<1>9. Ends(f, c)
  <2>1. c \in DataClusters
    BY <1>1, <1>2, StepsRule DEF step
  <2>2. step[CLUSTERS] = step[k]
    BY <1>1, <1>3, StandsStill DEF step
  <2> QED
    BY <2>1, <2>2, <1>2 DEF Ends, step
<1> QED
  BY <1>6, <1>7, <1>8, <1>9 DEF step

(* The other way round: what the walk finds, each cluster once, is a chain. *)
LEMMA PathIsChain ==
    ASSUME NEW f, NEW c, NEW k \in Nat \ {0}, Ends(f, c), Len(Chain(f, c)) = k,
           \A i, j \in 0 .. k - 1 : Steps(f, c)[i] = Steps(f, c)[j] => i = j
    PROVE  Chained(f, c, k)
<1> DEFINE step == Steps(f, c)
           ends == {n \in 0 .. CLUSTERS : n = CLUSTERS \/ step[n] \notin DataClusters}
           m == Min(ends)
<1>1. CLUSTERS \in Nat
  BY Layout
<1>2. m \in ends /\ \A n \in ends : m <= n
  <2>1. ends \in SUBSET Nat /\ CLUSTERS \in ends
    BY <1>1
  <2> HIDE DEF ends
  <2> QED
    BY <2>1, MinElement
<1>3. m \in 0 .. CLUSTERS /\ m \in Nat
  BY <1>1, <1>2
<1>4. m = k
  <2>1. Chain(f, c) = [n \in 1 .. m |-> step[n - 1]]
    BY DEF Chain
  <2> HIDE DEF m, step
  <2>2. Len([n \in 1 .. m |-> step[n - 1]]) = m
    BY <1>3
  <2> QED
    BY <2>1, <2>2
<1>5. \A i \in 0 .. k - 1 : step[i] \in DataClusters
  <2>1. SUFFICES ASSUME NEW i \in 0 .. k - 1, step[i] \notin DataClusters PROVE FALSE
    OBVIOUS
  <2> HIDE DEF m, step
  <2>2. i \in 0 .. CLUSTERS /\ i < m
    BY <1>1, <1>3, <1>4
  <2>3. i \in ends
    BY <2>1, <2>2
  <2> QED
    BY <2>2, <2>3, <1>2, <1>3
<1>6. k <= CLUSTERS - 2
  <2> HIDE DEF step
  <2>1. \A i, j \in 0 .. k - 1 : step[i] = step[j] => i = j
    BY DEF step
  <2> QED
    BY <2>1, <1>5, PathIsShort
<1>7. k \in 0 .. CLUSTERS /\ k # CLUSTERS
  BY <1>1, <1>6
<1>8. step[k] \notin DataClusters
  BY <1>2, <1>4, <1>7
<1>9. step[k] \in EOC .. 4095
  <2>1. step[CLUSTERS] \in EOC .. 4095
    BY DEF Ends
  <2>2. CLUSTERS \in k .. CLUSTERS
    BY <1>1, <1>7
  <2>3. step[CLUSTERS] = step[k]
    BY <2>2, <1>7, <1>8, StandsStill
  <2> QED
    BY <2>1, <2>3
<1>10. Path(f, c, k)
  BY <1>5, <1>7 DEF Path
<1>11. step[k] = f[step[k - 1]]
  <2>1. k - 1 \in 0 .. k - 1 /\ (k - 1) + 1 = k
    OBVIOUS
  <2> QED
    BY <2>1, <1>10, PathNext
<1> QED
  BY <1>9, <1>10, <1>11 DEF Chained

(* The entries of a chain are in use.                                      *)
LEMMA ChainIsUsed ==
    ASSUME NEW f, NEW c, NEW k, Chained(f, c, k), NEW i \in 0 .. k - 1
    PROVE  f[Steps(f, c)[i]] # 0 /\ Steps(f, c)[i] \in DataClusters
<1>1. Path(f, c, k) /\ k \in Nat
  BY Layout DEF Chained, Path
<1>2. CASE i = k - 1
  BY <1>1, <1>2, EndMarks, PathNext DEF Chained
<1>3. CASE i # k - 1
  <2>1. i + 1 \in 0 .. k - 1
    BY <1>1, <1>3
  <2>2. Steps(f, c)[i + 1] \in DataClusters
    BY <2>1, <1>1 DEF Path
  <2>3. 0 \notin DataClusters
    BY DEF DataClusters
  <2> QED
    BY <2>2, <2>3, <1>1, PathNext
<1> QED
  BY <1>2, <1>3

(* A FAT that agrees on all of a chain has it too.                         *)
LEMMA SameChain ==
    ASSUME NEW f, NEW g, NEW c, NEW k, Chained(f, c, k), Agree(f, g, c, k)
    PROVE  /\ Chained(g, c, k)
           /\ \A i \in 0 .. k - 1 : Steps(g, c)[i] = Steps(f, c)[i]
<1>1. Path(f, c, k) /\ k \in Nat /\ k # 0
  BY Layout DEF Chained, Path
<1>2. Agree(f, g, c, k - 1) /\ k - 1 \in 0 .. k - 1
  BY <1>1 DEF Agree
<1>3. Path(g, c, k) /\ \A i \in 0 .. k - 1 : Steps(g, c)[i] = Steps(f, c)[i]
  BY <1>1, <1>2, SamePath
<1> QED
  BY <1>1, <1>2, <1>3 DEF Chained, Agree

(* A free cluster is hung to the end.                                      *)
LEMMA ChainGrows ==
    ASSUME NEW f \in [Entries -> FatValues], NEW c, NEW k, Chained(f, c, k),
           NEW e \in DataClusters, f[e] = 0
    PROVE  LET g == [[f EXCEPT ![e] = EOC] EXCEPT ![Steps(f, c)[k - 1]] = e]
           IN  /\ Chained(g, c, k + 1)
               /\ \A i \in 0 .. k - 1 : Steps(g, c)[i] = Steps(f, c)[i]
               /\ Steps(g, c)[k] = e
               /\ g \in [Entries -> FatValues]
<1> DEFINE last == Steps(f, c)[k - 1]
           g == [[f EXCEPT ![e] = EOC] EXCEPT ![last] = e]
           h == [i \in 0 .. k |-> IF i = k THEN e ELSE Steps(f, c)[i]]
<1>1. CLUSTERS \in Nat /\ k \in Nat /\ k # 0 /\ k - 1 \in 0 .. k - 1 /\ k \in 0 .. CLUSTERS
  BY Layout DEF Chained, Path
<1>2. last \in DataClusters /\ last # e
  BY <1>1, ChainIsUsed
<1>3. DataClusters \subseteq Entries /\ Entries \subseteq FatValues /\ EOC \in FatValues /\ EOC \in EOC .. 4095
  BY Layout DEF DataClusters, Entries, FatValues, EOC
<1>4. /\ g \in [Entries -> FatValues]
      /\ g[e] = EOC /\ g[last] = e
      /\ \A x \in Entries : x # e /\ x # last => g[x] = f[x]
  BY <1>2, <1>3
<1>5. \A i \in 0 .. k - 1 : Steps(f, c)[i] \in DataClusters /\ Steps(f, c)[i] # e
  BY ChainIsUsed
<1>6. \A i, j \in 0 .. k - 1 : Steps(f, c)[i] = Steps(f, c)[j] => i = j
  BY DEF Chained, Path
<1>7. Agree(f, g, c, k - 1)
  <2>1. SUFFICES ASSUME NEW i \in 0 .. (k - 1) - 1 PROVE g[Steps(f, c)[i]] = f[Steps(f, c)[i]]
    BY DEF Agree
  <2>2. i \in 0 .. k - 1 /\ i # k - 1
    BY <1>1
  <2>3. Steps(f, c)[i] # last /\ Steps(f, c)[i] # e /\ Steps(f, c)[i] \in Entries
    BY <2>2, <1>1, <1>3, <1>5, <1>6
  <2> QED
    BY <2>3, <1>4
<1> HIDE DEF g
<1>8. Path(g, c, k) /\ \A i \in 0 .. k - 1 : Steps(g, c)[i] = Steps(f, c)[i]
  <2>1. Path(f, c, k)
    BY DEF Chained
  <2> QED
    BY <2>1, <1>7, SamePath
<1>9. Steps(g, c)[k] = e
  <2>1. Steps(g, c)[(k - 1) + 1] = g[Steps(g, c)[k - 1]] /\ (k - 1) + 1 = k
    BY <1>1, <1>8, PathNext
  <2> QED
    BY <2>1, <1>1, <1>4, <1>8
<1>10. \A i \in 0 .. k : i = k \/ i \in 0 .. k - 1
  BY <1>1
<1>11. /\ \A i \in 0 .. k : h[i] \in DataClusters /\ h[i] = Steps(g, c)[i]
       /\ \A i, j \in 0 .. k : h[i] = h[j] => i = j
  <2>1. \A i \in 0 .. k - 1 : i \in 0 .. k /\ i # k
    BY <1>1
  <2>2. \A i \in 0 .. k - 1 : h[i] = Steps(f, c)[i]
    BY <2>1
  <2>3. h[k] = e
    BY <1>1
  <2> HIDE DEF h
  <2> QED
    BY <2>2, <2>3, <1>5, <1>6, <1>8, <1>9, <1>10
<1> HIDE DEF h
<1>12. k + 1 <= CLUSTERS - 2
  <2>1. (k + 1) - 1 = k /\ k + 1 \in Nat
    BY <1>1
  <2>2. /\ \A i \in 0 .. (k + 1) - 1 : h[i] \in DataClusters
        /\ \A i, j \in 0 .. (k + 1) - 1 : h[i] = h[j] => i = j
    BY <2>1, <1>11
  <2> QED
    BY <2>1, <2>2, PathIsShort
<1>13. Path(g, c, k + 1)
  <2>1. k + 1 \in 0 .. CLUSTERS /\ (k + 1) - 1 = k
    BY <1>1, <1>12
  <2> QED
    BY <2>1, <1>11 DEF Path
<1>14. Chained(g, c, k + 1)
  <2>1. (k + 1) - 1 = k /\ k + 1 # 0
    BY <1>1
  <2>2. g[Steps(g, c)[k]] \in EOC .. 4095
    BY <1>3, <1>4, <1>9
  <2> QED
    BY <2>1, <2>2, <1>13 DEF Chained
<1> QED
  BY <1>4, <1>8, <1>9, <1>14 DEF g

(* A number of clusters from what is no chain yet: how many distinct ones  *)
(* there are tells whether any was met twice.                              *)
LEMMA ImageSize ==
    ASSUME NEW k \in Nat, NEW h
    PROVE  Cardinality({h[i] : i \in 0 .. k - 1}) = k
             <=> \A i, j \in 0 .. k - 1 : h[i] = h[j] => i = j
<1> DEFINE S == 0 .. k - 1
           T == {h[i] : i \in S}
           g == [i \in S |-> h[i]]
<1>1. IsFiniteSet(S) /\ Cardinality(S) = k
  BY FS_Interval
<1>2. g \in Surjection(S, T)
  BY DEF Surjection
<1>3. g \in Injection(S, T) <=> \A i, j \in S : h[i] = h[j] => i = j
  BY DEF Injection, IsInjective
<1>4. Cardinality(T) = Cardinality(S) <=> g \in Injection(S, T)
  <2> HIDE DEF S, T, g
  <2> QED
    BY <1>1, <1>2, FS_Surjection
<1> QED
  BY <1>1, <1>3, <1>4

(***************************************************************************)
(* A FAT f and a directory r                                               *)
(***************************************************************************)
Used(r) == {s \in Slots : r[s].name # ""}
Size(file) == Needed(file.size)
Way(f, file) == Steps(f, file.cluster)

Apart(f, r) ==
    \A s, t \in Used(r) : s # t =>
        \A i \in 0 .. Size(r[s]) - 1, j \in 0 .. Size(r[t]) - 1 :
            Way(f, r[s])[i] # Way(f, r[t])[j]

(* Every file has the clusters it needs, and none has another's.           *)
Whole(f, r) ==
    /\ \A s \in Used(r) : Path(f, r[s].cluster, Size(r[s]))
    /\ Apart(f, r)

(* Its chain has exactly these, and no cluster is lost.                    *)
Tight(f, r) ==
    /\ \A s \in Used(r) : Chained(f, r[s].cluster, Size(r[s]))
    /\ Apart(f, r)
    /\ \A c \in DataClusters : f[c] # 0 =>
          \E s \in Used(r) : \E i \in 0 .. Size(r[s]) - 1 : c = Way(f, r[s])[i]
    /\ f[0] # 0 /\ f[1] # 0

FreeIsEmpty(r) == \A s \in Slots : r[s].name = "" => r[s] = NoFile

(* fat12.c counts a sector more than the bytes fill.                       *)
LEMMA NeededFacts ==
    ASSUME NEW n \in Nat
    PROVE  /\ Needed(n) \in Nat /\ Needed(n) # 0
           /\ n < SECTOR_SIZE => Needed(n) = 1
           /\ n >= SECTOR_SIZE => Needed(n) >= 2
           /\ \A m \in Nat : n <= m => Needed(n) <= Needed(m)
<1> DEFINE S == SECTOR_SIZE
<1>1. S \in Nat \ {0}
  BY Layout
<1> HIDE DEF S
<1>2. (n + S) \div S = 1 + n \div S
  <2> DEFINE q == n \div S
  <2>1. q \in Int /\ q * S <= n /\ n < q * S + S
    BY <1>1, DivBounds
  <2> HIDE DEF q
  <2>2. (q + 1) * S = q * S + S /\ q * S \in Int
    BY <1>1, <2>1, Multiples
  <2> DEFINE p == q + 1
  <2>3. p \in Int /\ p * S <= n + S /\ n + S < p * S + S /\ n + S \in Int
    BY <1>1, <2>1, <2>2
  <2> HIDE DEF p
  <2>4. (n + S) \div S = p
    BY <1>1, <2>3, DivUnique
  <2> QED
    BY <2>1, <2>4 DEF p, q
<1>3. n \div S \in Nat
  BY <1>1, DivNat
<1>4. n < S => n \div S < 1
  <2>1. n < S => n < 1 * S
    BY <1>1
  <2> QED
    BY <2>1, <1>1, DivLess
<1>5. n >= S => n \div S >= 1
  <2>1. S \div S = 1
    <3>1. 1 * S <= S /\ S < 1 * S + S
      BY <1>1
    <3> QED
      BY <3>1, <1>1, DivUnique
  <2> QED
    BY <2>1, <1>1, DivMono
<1>6. \A m \in Nat : n <= m => (n + S) \div S <= (m + S) \div S
  <2>1. SUFFICES ASSUME NEW m \in Nat, n <= m PROVE (n + S) \div S <= (m + S) \div S
    OBVIOUS
  <2>2. n + S \in Int /\ m + S \in Int /\ n + S <= m + S
    BY <1>1, <2>1
  <2> QED
    BY <2>2, <1>1, DivMono
<1> QED
  BY <1>2, <1>3, <1>4, <1>5, <1>6 DEF Needed, S

LEMMA SizeFacts ==
    ASSUME NEW r \in [Slots -> FileType], NEW s \in Slots
    PROVE  /\ Size(r[s]) \in Nat /\ Size(r[s]) # 0 /\ 0 \in 0 .. Size(r[s]) - 1
           /\ r[s] \in FileType /\ r[s].size \in Nat
<1>1. r[s] \in FileType /\ r[s].size \in Nat
  BY DEF FileType
<1>2. Size(r[s]) \in Nat /\ Size(r[s]) # 0
  BY <1>1, NeededFacts DEF Size
<1> QED
  BY <1>1, <1>2

LEMMA TightIsWhole ==
    ASSUME NEW f, NEW r, Tight(f, r)
    PROVE  Whole(f, r)
BY DEF Tight, Whole, Chained

(* The clusters of a file in the words of Occupied.                        *)
LEMMA OccupiedIsPath ==
    ASSUME NEW f, NEW file, Path(f, file.cluster, Size(file)), file.size \in Nat
    PROVE  /\ Occupied(f, file) = {Way(f, file)[i] : i \in 0 .. Size(file) - 1}
           /\ Cardinality(Occupied(f, file)) = Size(file)
<1> DEFINE c == file.cluster
           k == Size(file)
           step == Steps(f, c)
           ends == {n \in 0 .. CLUSTERS : n = CLUSTERS \/ step[n] \notin DataClusters}
           m == Min(ends)
<1>1. /\ CLUSTERS \in Nat /\ k \in 0 .. CLUSTERS /\ k \in Nat
      /\ \A i \in 0 .. k - 1 : step[i] \in DataClusters
      /\ \A i, j \in 0 .. k - 1 : step[i] = step[j] => i = j
  BY Layout DEF Path
<1>2. m \in ends
  <2>1. ends \in SUBSET Nat /\ CLUSTERS \in ends
    BY <1>1
  <2> HIDE DEF ends
  <2> QED
    BY <2>1, MinElement
<1> HIDE DEF step, k
<1>3. m \in Nat /\ k <= m
  <2>1. m \in 0 .. CLUSTERS /\ (m = CLUSTERS \/ step[m] \notin DataClusters)
    BY <1>2
  <2> HIDE DEF m
  <2> QED
    BY <2>1, <1>1
<1>4. Chain(f, c) = [n \in 1 .. m |-> step[n - 1]]
  BY DEF Chain, step
<1> HIDE DEF m
<1>5. Len(Chain(f, c)) = m
  <2>1. Len([n \in 1 .. m |-> step[n - 1]]) = m
    BY <1>3
  <2> QED
    BY <2>1, <1>4
<1>6. Occupied(f, file) = {Chain(f, c)[n] : n \in 1 .. k}
  <2>1. Occupied(f, file) = {Chain(f, c)[n] : n \in 1 .. IF k <= Len(Chain(f, c)) THEN k ELSE Len(Chain(f, c))}
    BY DEF Occupied, k, Size
  <2> QED
    BY <2>1, <1>3, <1>5
<1>7. \A n \in 1 .. k : Chain(f, c)[n] = step[n - 1] /\ n - 1 \in 0 .. k - 1
  BY <1>1, <1>3, <1>4
<1>8. \A i \in 0 .. k - 1 : i + 1 \in 1 .. k /\ (i + 1) - 1 = i
  BY <1>1
<1>9. Occupied(f, file) = {step[i] : i \in 0 .. k - 1}
  BY <1>6, <1>7, <1>8
<1>10. Cardinality({step[i] : i \in 0 .. k - 1}) = k
  BY <1>1, ImageSize
<1> QED
  BY <1>9, <1>10 DEF k, step, Way

(* What the properties say of a FAT and a directory.                       *)
LEMMA WholeIsSound ==
    ASSUME NEW f, NEW r \in [Slots -> FileType], Whole(f, r)
    PROVE  Sound(f, r)
<1>1. ASSUME NEW s \in Used(r)
      PROVE  /\ Occupied(f, r[s]) = {Way(f, r[s])[i] : i \in 0 .. Size(r[s]) - 1}
             /\ Cardinality(Occupied(f, r[s])) = Size(r[s])
  <2>1. Path(f, r[s].cluster, Size(r[s])) /\ r[s].size \in Nat
    BY SizeFacts DEF Whole, Used
  <2> QED
    BY <2>1, OccupiedIsPath
<1>2. ASSUME NEW s \in Used(r), NEW t \in Used(r), s # t
      PROVE  Occupied(f, r[s]) \cap Occupied(f, r[t]) = {}
  <2>1. \A i \in 0 .. Size(r[s]) - 1, j \in 0 .. Size(r[t]) - 1 : Way(f, r[s])[i] # Way(f, r[t])[j]
    BY <1>2 DEF Whole, Apart
  <2> QED
    BY <1>1, <2>1
<1>3. \A s \in Used(r) : Cardinality(Occupied(f, r[s])) = Needed(r[s].size)
  BY <1>1 DEF Size
<1> QED
  BY <1>2, <1>3 DEF Sound, Used

LEMMA TightIsExact ==
    ASSUME NEW f, NEW r \in [Slots -> FileType], Tight(f, r)
    PROVE  Exact(f, r)
<1>1. Whole(f, r) /\ Sound(f, r)
  BY TightIsWhole, WholeIsSound
<1>2. ASSUME NEW s \in Used(r)
      PROVE  Occupied(f, r[s]) = {Way(f, r[s])[i] : i \in 0 .. Size(r[s]) - 1}
  <2>1. Path(f, r[s].cluster, Size(r[s])) /\ r[s].size \in Nat
    BY <1>1, SizeFacts DEF Whole, Used
  <2> QED
    BY <2>1, OccupiedIsPath
<1>3. ASSUME NEW s \in Used(r)
      PROVE  Ends(f, r[s].cluster) /\ Len(Chain(f, r[s].cluster)) = Needed(r[s].size)
  <2>1. Chained(f, r[s].cluster, Size(r[s]))
    BY DEF Tight
  <2> QED
    BY <2>1, ChainIsPath DEF Size
<1>4. {c \in DataClusters : f[c] # 0} \subseteq UNION {Occupied(f, r[s]) : s \in Used(r)}
  BY <1>2 DEF Tight
<1>5. ASSUME NEW s \in Used(r), NEW c \in Occupied(f, r[s])
      PROVE  c \in DataClusters /\ f[c] # 0
  <2>1. PICK i \in 0 .. Size(r[s]) - 1 : c = Way(f, r[s])[i]
    BY <1>2
  <2>2. Chained(f, r[s].cluster, Size(r[s]))
    BY DEF Tight
  <2> QED
    BY <2>1, <2>2, ChainIsUsed DEF Way
<1>6. {c \in DataClusters : f[c] # 0} = UNION {Occupied(f, r[s]) : s \in Used(r)}
  BY <1>4, <1>5
<1> QED
  BY <1>1, <1>3, <1>6 DEF Exact, Used

LEMMA ExactIsTight ==
    ASSUME NEW f, NEW r \in [Slots -> FileType], Exact(f, r), f[0] # 0, f[1] # 0
    PROVE  Tight(f, r)
<1>1. ASSUME NEW s \in Used(r)
      PROVE  /\ Chained(f, r[s].cluster, Size(r[s]))
             /\ Occupied(f, r[s]) = {Way(f, r[s])[i] : i \in 0 .. Size(r[s]) - 1}
  <2> DEFINE c == r[s].cluster
             k == Size(r[s])
             step == Steps(f, c)
             ends == {n \in 0 .. CLUSTERS : n = CLUSTERS \/ step[n] \notin DataClusters}
             m == Min(ends)
  <2>1. /\ Ends(f, c) /\ Len(Chain(f, c)) = k /\ k \in Nat /\ k # 0
        /\ Cardinality(Occupied(f, r[s])) = k /\ r[s].size \in Nat
    BY SizeFacts DEF Exact, Sound, Used, Size
  <2> HIDE DEF k
  <2>2. Occupied(f, r[s]) = {Chain(f, c)[n] : n \in 1 .. k}
    <3>1. Occupied(f, r[s]) = {Chain(f, c)[n] : n \in 1 .. IF k <= Len(Chain(f, c)) THEN k ELSE Len(Chain(f, c))}
      BY DEF Occupied, k, Size
    <3> QED
      BY <3>1, <2>1
  <2>3. Chain(f, c) = [n \in 1 .. m |-> step[n - 1]]
    BY DEF Chain
  <2>4. m \in Nat
    <3>1. ends \in SUBSET Nat /\ CLUSTERS \in ends
      BY Layout
    <3> HIDE DEF ends
    <3> QED
      BY <3>1, MinElement
  <2> HIDE DEF m, step
  <2>5. m = k
    <3>1. Len([n \in 1 .. m |-> step[n - 1]]) = m
      BY <2>4
    <3> QED
      BY <3>1, <2>1, <2>3
  <2>6. \A n \in 1 .. k : Chain(f, c)[n] = step[n - 1] /\ n - 1 \in 0 .. k - 1
    BY <2>1, <2>3, <2>5
  <2>7. \A i \in 0 .. k - 1 : i + 1 \in 1 .. k /\ (i + 1) - 1 = i
    BY <2>1
  <2>8. Occupied(f, r[s]) = {step[i] : i \in 0 .. k - 1}
    BY <2>2, <2>6, <2>7
  <2>9. \A i, j \in 0 .. k - 1 : step[i] = step[j] => i = j
    BY <2>1, <2>8, ImageSize
  <2>10. Chained(f, c, k)
    BY <2>1, <2>9, PathIsChain DEF step
  <2> QED
    BY <2>8, <2>10 DEF step, k, Way
<1>2. Apart(f, r)
  <2>1. SUFFICES ASSUME NEW s \in Used(r), NEW t \in Used(r), s # t,
                        NEW i \in 0 .. Size(r[s]) - 1, NEW j \in 0 .. Size(r[t]) - 1
                 PROVE  Way(f, r[s])[i] # Way(f, r[t])[j]
    BY DEF Apart
  <2>2. Occupied(f, r[s]) \cap Occupied(f, r[t]) = {}
    BY <2>1 DEF Exact, Sound, Used
  <2> QED
    BY <2>2, <1>1
<1>3. ASSUME NEW c \in DataClusters, f[c] # 0
      PROVE  \E s \in Used(r) : \E i \in 0 .. Size(r[s]) - 1 : c = Way(f, r[s])[i]
  <2>1. c \in UNION {Occupied(f, r[s]) : s \in Used(r)}
    BY <1>3 DEF Exact, Used
  <2> QED
    BY <2>1, <1>1
<1> QED
  BY <1>1, <1>2, <1>3 DEF Tight

(* Each file of q, with the FAT g, is one of r, with the FAT f, or what    *)
(* that was before it grew.                                                *)
Follows(f, r, g, q) ==
    \A s \in Used(q) :
        /\ r[s].name = q[s].name /\ r[s].cluster = q[s].cluster /\ q[s].size <= r[s].size
        /\ Agree(f, g, r[s].cluster, Size(q[s]) - 1)

(* Each file of r that has more than a sector is in q, with all its        *)
(* clusters.                                                               *)
Saved(f, r, g, q) ==
    /\ \A s \in Used(q) :
          /\ r[s].name = q[s].name /\ r[s].cluster = q[s].cluster /\ q[s].size <= r[s].size
          /\ Size(q[s]) = Size(r[s])
          /\ Agree(f, g, r[s].cluster, Size(r[s]))
    /\ \A s \in Used(r) \ Used(q) : Size(r[s]) = 1

LEMMA SavedFollows ==
    ASSUME NEW f, NEW r \in [Slots -> FileType], NEW g, NEW q, Saved(f, r, g, q)
    PROVE  Follows(f, r, g, q)
<1>1. ASSUME NEW s \in Used(q)
      PROVE  Agree(f, g, r[s].cluster, Size(q[s]) - 1)
  <2>1. Size(q[s]) = Size(r[s]) /\ Agree(f, g, r[s].cluster, Size(r[s])) /\ Size(r[s]) \in Nat
    BY SizeFacts DEF Saved, Used
  <2> QED
    BY <2>1 DEF Agree
<1> QED
  BY <1>1 DEF Saved, Follows

(* A FAT and a directory say the same of each other.                       *)
LEMMA SavedAsIs ==
    ASSUME NEW f, NEW r \in [Slots -> FileType]
    PROVE  Saved(f, r, f, r)
<1>1. \A s \in Used(r) : r[s].size <= r[s].size
  <2>1. \A s \in Used(r) : r[s].size \in Nat
    BY DEF Used, FileType
  <2> QED
    BY <2>1
<1> QED
  BY <1>1 DEF Saved, Agree

(* A shorter part of a way                                                 *)
LEMMA PathPart ==
    ASSUME NEW f, NEW c, NEW k, Path(f, c, k), NEW m \in Nat, m <= k
    PROVE  Path(f, c, m)
<1>1. k \in Nat /\ k <= CLUSTERS /\ CLUSTERS \in Nat
  BY Layout DEF Path
<1>2. m \in 0 .. CLUSTERS /\ \A i \in 0 .. m - 1 : i \in 0 .. k - 1
  BY <1>1
<1> QED
  BY <1>2 DEF Path

(* What follows a whole directory is whole: whenever the floppy has a part *)
(* of it, the files it has are there.                                      *)
THEOREM FollowsIsWhole ==
    ASSUME NEW f, NEW r \in [Slots -> FileType], NEW g, NEW q \in [Slots -> FileType],
           Whole(f, r), Follows(f, r, g, q)
    PROVE  Whole(g, q)
<1>1. ASSUME NEW s \in Used(q)
      PROVE  /\ s \in Used(r) /\ Size(q[s]) \in Nat /\ Size(q[s]) <= Size(r[s])
             /\ q[s].cluster = r[s].cluster
             /\ Size(r[s]) \in Nat
  <2>1. s \in Slots /\ r[s].size \in Nat /\ q[s].size \in Nat /\ q[s].size <= r[s].size
    BY SizeFacts DEF Follows, Used
  <2> QED
    BY <2>1, NeededFacts DEF Follows, Used, Size
<1>2. ASSUME NEW s \in Used(q)
      PROVE  /\ Path(g, q[s].cluster, Size(q[s]))
             /\ \A i \in 0 .. Size(q[s]) - 1 : Way(g, q[s])[i] = Way(f, r[s])[i] /\ i \in 0 .. Size(r[s]) - 1
  <2>1. Path(f, r[s].cluster, Size(r[s]))
    BY <1>1 DEF Whole
  <2>2. Path(f, r[s].cluster, Size(q[s]))
    BY <2>1, <1>1, PathPart
  <2>3. Agree(f, g, r[s].cluster, Size(q[s]) - 1)
    BY DEF Follows
  <2>4. /\ Path(g, r[s].cluster, Size(q[s]))
        /\ \A i \in 0 .. Size(q[s]) - 1 : Steps(g, r[s].cluster)[i] = Steps(f, r[s].cluster)[i]
    BY <2>2, <2>3, SamePath
  <2>5. \A i \in 0 .. Size(q[s]) - 1 : i \in 0 .. Size(r[s]) - 1
    BY <1>1
  <2> QED
    BY <2>4, <2>5, <1>1 DEF Way
<1>3. Apart(g, q)
  <2>1. SUFFICES ASSUME NEW s \in Used(q), NEW t \in Used(q), s # t,
                        NEW i \in 0 .. Size(q[s]) - 1, NEW j \in 0 .. Size(q[t]) - 1
                 PROVE  Way(g, q[s])[i] # Way(g, q[t])[j]
    BY DEF Apart
  <2>2. s \in Used(r) /\ t \in Used(r)
    BY <1>1
  <2>3. i \in 0 .. Size(r[s]) - 1 /\ j \in 0 .. Size(r[t]) - 1
    BY <1>2
  <2>4. Way(f, r[s])[i] # Way(f, r[t])[j]
    BY <2>1, <2>2, <2>3 DEF Whole, Apart
  <2> QED
    BY <2>4, <1>2
<1> QED
  BY <1>2, <1>3 DEF Whole

(* Only the clusters a file begins with and needs count.                   *)
LEMMA SameNeeds ==
    ASSUME NEW f, NEW r, NEW q, Used(q) = Used(r),
           \A s \in Used(r) : q[s].cluster = r[s].cluster /\ Size(q[s]) = Size(r[s])
    PROVE  /\ Tight(f, r) => Tight(f, q)
           /\ Whole(f, r) => Whole(f, q)
<1>1. \A s \in Used(q) : Way(f, q[s]) = Way(f, r[s])
  BY DEF Way
<1>2. Apart(f, r) => Apart(f, q)
  BY <1>1 DEF Apart
<1> QED
  BY <1>1, <1>2 DEF Tight, Whole

LEMMA ClusterFacts ==
    /\ CLUSTERS \in Nat /\ DataClusters \subseteq Entries /\ 0 \in Entries /\ 1 \in Entries
    /\ 0 \notin DataClusters /\ 1 \notin DataClusters
    /\ \A c \in Entries : c # 0 /\ c # 1 => c \in DataClusters
    /\ Entries \subseteq FatValues /\ EOC \in FatValues /\ EOC \in EOC .. 4095 /\ EOC # 0
    /\ \A v \in FatValues : v \in Nat
BY Layout DEF DataClusters, Entries, FatValues, EOC

(* The files of r but s are in q what they are in r.                       *)
OthersSame(r, q, s) == \A t \in Used(r) : t # s => q[t] = r[t]

(* A new file s, with one cluster that was free                            *)
LEMMA CreatedTight ==
    ASSUME NEW f \in [Entries -> FatValues], NEW r, Tight(f, r),
           NEW c \in Entries, f[c] = 0,
           NEW s \in Slots, s \notin Used(r),
           NEW q, Used(q) = Used(r) \cup {s}, q[s].cluster = c, Size(q[s]) = 1,
           OthersSame(r, q, s)
    PROVE  /\ Tight([f EXCEPT ![c] = EOC], q)
           /\ \A t \in Used(r) : Agree(f, [f EXCEPT ![c] = EOC], r[t].cluster, Size(r[t]))
<1> DEFINE g == [f EXCEPT ![c] = EOC]
<1>1. c \in DataClusters
  <2>1. f[0] # 0 /\ f[1] # 0
    BY DEF Tight
  <2> QED
    BY <2>1, ClusterFacts
<1>2. /\ \A x \in Entries : g[x] = IF x = c THEN EOC ELSE f[x]
      /\ DataClusters \subseteq Entries /\ 0 \in Entries /\ 1 \in Entries
      /\ EOC # 0 /\ EOC \in EOC .. 4095
  BY ClusterFacts
<1>4. Used(q) = Used(r) \cup {s} /\ s \notin Used(r)
  OBVIOUS
<1> HIDE DEF g
<1>6. ASSUME NEW t \in Used(r)
      PROVE  /\ Chained(g, r[t].cluster, Size(r[t])) /\ Agree(f, g, r[t].cluster, Size(r[t]))
             /\ \A i \in 0 .. Size(r[t]) - 1 : Way(g, r[t])[i] = Way(f, r[t])[i] /\ Way(f, r[t])[i] # c
  <2>1. Chained(f, r[t].cluster, Size(r[t]))
    BY DEF Tight
  <2>2. \A i \in 0 .. Size(r[t]) - 1 :
           Steps(f, r[t].cluster)[i] \in DataClusters /\ Steps(f, r[t].cluster)[i] # c
    BY <2>1, ChainIsUsed
  <2>3. Agree(f, g, r[t].cluster, Size(r[t]))
    BY <2>2, <1>2 DEF Agree
  <2>4. /\ Chained(g, r[t].cluster, Size(r[t]))
        /\ \A i \in 0 .. Size(r[t]) - 1 : Steps(g, r[t].cluster)[i] = Steps(f, r[t].cluster)[i]
    BY <2>1, <2>3, SameChain
  <2> QED
    BY <2>2, <2>3, <2>4 DEF Way
<1>7. /\ Chained(g, q[s].cluster, Size(q[s]))
      /\ \A i \in 0 .. Size(q[s]) - 1 : Way(g, q[s])[i] = c
      /\ 0 \in 0 .. Size(q[s]) - 1
  <2>1. Steps(g, c)[0] = c
    BY StepsRule
  <2>2. Path(g, c, 1) /\ 0 .. 1 - 1 = {0}
    BY <2>1, <1>1, Layout DEF Path
  <2>3. Chained(g, c, 1)
    BY <2>1, <2>2, <1>1, <1>2 DEF Chained
  <2> QED
    BY <2>1, <2>2, <2>3 DEF Way
<1>8. \A t \in Used(r) : q[t] = r[t]
  BY <1>4 DEF OthersSame
<1>9. Apart(g, q)
  <2>1. SUFFICES ASSUME NEW t \in Used(q), NEW u \in Used(q), t # u,
                        NEW i \in 0 .. Size(q[t]) - 1, NEW j \in 0 .. Size(q[u]) - 1
                 PROVE  Way(g, q[t])[i] # Way(g, q[u])[j]
    BY DEF Apart
  <2>2. CASE t = s
    <3>1. u \in Used(r) /\ q[u] = r[u]
      BY <2>1, <2>2, <1>4, <1>8
    <3> QED
      BY <3>1, <2>2, <1>6, <1>7
  <2>3. CASE u = s
    <3>1. t \in Used(r) /\ q[t] = r[t]
      BY <2>1, <2>3, <1>4, <1>8
    <3> QED
      BY <3>1, <2>3, <1>6, <1>7
  <2>4. CASE t # s /\ u # s
    <3>1. t \in Used(r) /\ q[t] = r[t] /\ u \in Used(r) /\ q[u] = r[u]
      BY <2>4, <1>4, <1>8
    <3>2. Way(f, r[t])[i] # Way(f, r[u])[j]
      BY <3>1, <2>1 DEF Tight, Apart
    <3> QED
      BY <3>1, <3>2, <1>6
  <2> QED
    BY <2>2, <2>3, <2>4
<1>10. ASSUME NEW x \in DataClusters, g[x] # 0
       PROVE  \E t \in Used(q) : \E i \in 0 .. Size(q[t]) - 1 : x = Way(g, q[t])[i]
  <2>1. CASE x = c
    BY <2>1, <1>4, <1>7
  <2>2. CASE x # c
    <3>1. f[x] # 0
      BY <2>2, <1>2, <1>10
    <3>2. PICK t \in Used(r) : \E i \in 0 .. Size(r[t]) - 1 : x = Way(f, r[t])[i]
      BY <3>1 DEF Tight
    <3> QED
      BY <3>2, <1>4, <1>6, <1>8
  <2> QED
    BY <2>1, <2>2
<1>11. Tight(g, q)
  <2>1. \A t \in Used(q) : Chained(g, q[t].cluster, Size(q[t]))
    BY <1>4, <1>6, <1>7, <1>8
  <2>2. g[0] # 0 /\ g[1] # 0
    BY <1>2 DEF Tight
  <2> QED
    BY <2>1, <2>2, <1>9, <1>10 DEF Tight
<1> QED
  BY <1>6, <1>11 DEF g

(* Files that go with their clusters                                       *)
LEMMA RemovedTight ==
    ASSUME NEW f \in [Entries -> FatValues], NEW r \in [Slots -> FileType], Tight(f, r),
           NEW S \in SUBSET Used(r)
    PROVE  LET freed == UNION {{Way(f, r[s])[i] : i \in 0 .. Size(r[s]) - 1} : s \in S}
               g == [c \in Entries |-> IF c \in freed THEN 0 ELSE f[c]]
               q == [s \in Slots |-> IF s \in S THEN NoFile ELSE r[s]]
           IN  Tight(g, q)
<1> DEFINE freed == UNION {{Way(f, r[s])[i] : i \in 0 .. Size(r[s]) - 1} : s \in S}
           g == [c \in Entries |-> IF c \in freed THEN 0 ELSE f[c]]
           q == [s \in Slots |-> IF s \in S THEN NoFile ELSE r[s]]
<1>1. DataClusters \subseteq Entries /\ {0, 1} \cap DataClusters = {} /\ 0 \in Entries /\ 1 \in Entries
  BY ClusterFacts
<1>2. Used(q) = Used(r) \ S /\ \A s \in Used(q) : q[s] = r[s]
  BY DEF Used, NoFile
<1>3. \A c \in Entries : g[c] = IF c \in freed THEN 0 ELSE f[c]
  OBVIOUS
<1>4. freed \subseteq DataClusters
  <2>1. SUFFICES ASSUME NEW s \in S, NEW i \in 0 .. Size(r[s]) - 1
                 PROVE  Way(f, r[s])[i] \in DataClusters
    OBVIOUS
  <2>2. Chained(f, r[s].cluster, Size(r[s]))
    BY DEF Tight
  <2> QED
    BY <2>2, ChainIsUsed DEF Way
<1>5. ASSUME NEW s \in Used(q), NEW i \in 0 .. Size(r[s]) - 1
      PROVE  Way(f, r[s])[i] \notin freed
  <2>1. SUFFICES ASSUME NEW t \in S, NEW j \in 0 .. Size(r[t]) - 1, Way(f, r[s])[i] = Way(f, r[t])[j]
                 PROVE  FALSE
    OBVIOUS
  <2>2. s \in Used(r) /\ t \in Used(r) /\ s # t
    BY <1>2
  <2> QED
    BY <2>1, <2>2 DEF Tight, Apart
<1> HIDE DEF freed, g, q
<1>6. ASSUME NEW s \in Used(q)
      PROVE  /\ s \in Used(r) /\ q[s] = r[s]
             /\ Chained(g, q[s].cluster, Size(q[s]))
             /\ \A i \in 0 .. Size(q[s]) - 1 : Way(g, q[s])[i] = Way(f, r[s])[i]
  <2>1. s \in Used(r) /\ q[s] = r[s]
    BY <1>2
  <2>2. Chained(f, r[s].cluster, Size(r[s]))
    BY <2>1 DEF Tight
  <2>3. Agree(f, g, r[s].cluster, Size(r[s]))
    <3>1. SUFFICES ASSUME NEW i \in 0 .. Size(r[s]) - 1
                   PROVE  g[Steps(f, r[s].cluster)[i]] = f[Steps(f, r[s].cluster)[i]]
      BY DEF Agree
    <3>2. Steps(f, r[s].cluster)[i] \in Entries
      BY <2>2, <1>1, ChainIsUsed
    <3>3. Steps(f, r[s].cluster)[i] \notin freed
      BY <1>5 DEF Way
    <3> QED
      BY <3>2, <3>3, <1>3
  <2> QED
    BY <2>1, <2>2, <2>3, SameChain DEF Way
<1>7. Apart(g, q)
  <2>1. SUFFICES ASSUME NEW t \in Used(q), NEW u \in Used(q), t # u,
                        NEW i \in 0 .. Size(q[t]) - 1, NEW j \in 0 .. Size(q[u]) - 1
                 PROVE  Way(g, q[t])[i] # Way(g, q[u])[j]
    BY DEF Apart
  <2>2. Way(f, r[t])[i] # Way(f, r[u])[j]
    BY <2>1, <1>6 DEF Tight, Apart
  <2> QED
    BY <2>2, <1>6
<1>8. ASSUME NEW x \in DataClusters, g[x] # 0
      PROVE  \E t \in Used(q) : \E i \in 0 .. Size(q[t]) - 1 : x = Way(g, q[t])[i]
  <2>1. f[x] # 0 /\ x \notin freed
    BY <1>1, <1>3, <1>8
  <2>2. PICK t \in Used(r) : \E i \in 0 .. Size(r[t]) - 1 : x = Way(f, r[t])[i]
    BY <2>1 DEF Tight
  <2>3. t \notin S
    BY <2>1, <2>2 DEF freed
  <2>4. t \in Used(q)
    BY <2>2, <2>3, <1>2
  <2> QED
    BY <2>2, <2>4, <1>6
<1>9. g[0] # 0 /\ g[1] # 0
  BY <1>1, <1>3, <1>4 DEF Tight
<1> QED
  BY <1>6, <1>7, <1>8, <1>9 DEF Tight, freed, g, q

LEMMA UsedIsSlots == \A r : Used(r) \subseteq Slots
BY DEF Used

(* A chain of k clusters from c on that has m more in g than in f, all of  *)
(* them free in f; nothing else differs.                                   *)
Grown(f, c, k, m, g, last) ==
    /\ g \in [Entries -> FatValues]
    /\ Chained(g, c, k + m)
    /\ last = Steps(g, c)[k + m - 1]
    /\ \A i \in 0 .. k - 1 : Steps(g, c)[i] = Steps(f, c)[i]
    /\ \A i \in k .. k + m - 1 : f[Steps(g, c)[i]] = 0
    /\ \A x \in Entries : g[x] # f[x] => \E i \in k - 1 .. k + m - 1 : x = Steps(g, c)[i]

LEMMA GrownNot ==
    ASSUME NEW f \in [Entries -> FatValues], NEW c, NEW k, Chained(f, c, k)
    PROVE  Grown(f, c, k, 0, f, Steps(f, c)[k - 1])
<1>1. k \in Nat /\ k + 0 = k
  BY Layout DEF Chained, Path
<1>2. k .. k + 0 - 1 = {}
  BY <1>1
<1> QED
  BY <1>1, <1>2 DEF Grown

LEMMA GrownMore ==
    ASSUME NEW f \in [Entries -> FatValues], NEW c, NEW k, Chained(f, c, k), NEW m \in Nat,
           NEW g, NEW last, Grown(f, c, k, m, g, last), NEW e \in DataClusters, g[e] = 0
    PROVE  Grown(f, c, k, m + 1, [[g EXCEPT ![e] = EOC] EXCEPT ![last] = e], e)
<1> DEFINE h == [[g EXCEPT ![e] = EOC] EXCEPT ![last] = e]
           n == k + m
<1>1. /\ k \in Nat /\ k # 0 /\ n \in Nat /\ n # 0 /\ k <= n /\ k + (m + 1) = n + 1
      /\ (n + 1) - 1 = n /\ k + (m + 1) - 1 = n /\ k + m - 1 = n - 1
  BY Layout DEF Chained, Path
<1>2. /\ g \in [Entries -> FatValues]
      /\ Chained(g, c, n)
      /\ last = Steps(g, c)[n - 1]
      /\ \A i \in 0 .. k - 1 : Steps(g, c)[i] = Steps(f, c)[i]
      /\ \A i \in k .. n - 1 : f[Steps(g, c)[i]] = 0
      /\ \A x \in Entries : g[x] # f[x] => \E i \in k - 1 .. n - 1 : x = Steps(g, c)[i]
  BY <1>1 DEF Grown
<1>3. /\ h \in [Entries -> FatValues]
      /\ Chained(h, c, n + 1)
      /\ \A i \in 0 .. n - 1 : Steps(h, c)[i] = Steps(g, c)[i]
      /\ Steps(h, c)[n] = e
  <2>1. h = [[g EXCEPT ![e] = EOC] EXCEPT ![Steps(g, c)[n - 1]] = e]
    BY <1>2
  <2> HIDE DEF n, h
  <2>2. LET i == [[g EXCEPT ![e] = EOC] EXCEPT ![Steps(g, c)[n - 1]] = e]
        IN  /\ Chained(i, c, n + 1)
            /\ \A j \in 0 .. n - 1 : Steps(i, c)[j] = Steps(g, c)[j]
            /\ Steps(i, c)[n] = e
            /\ i \in [Entries -> FatValues]
    BY <1>2, ChainGrows
  <2> QED
    BY <2>1, <2>2
<1> HIDE DEF n
<1>4. \A x \in Entries : h[x] # g[x] => x = e \/ x = last
  <2>1. g = [x \in Entries |-> g[x]]
    BY <1>2
  <2> QED
    BY <2>1
<1> HIDE DEF h
<1>5. e \in Entries
  BY ClusterFacts
<1>6. f[e] = 0
  <2>1. SUFFICES ASSUME f[e] # 0 PROVE FALSE
    OBVIOUS
  <2>2. PICK i \in k - 1 .. n - 1 : e = Steps(g, c)[i]
    BY <2>1, <1>2, <1>5
  <2>3. i \in 0 .. n - 1
    BY <1>1
  <2>4. g[e] # 0
    BY <2>2, <2>3, <1>2, ChainIsUsed
  <2> QED
    BY <2>4
<1>7. \A i \in 0 .. k - 1 : Steps(h, c)[i] = Steps(f, c)[i]
  <2>1. \A i \in 0 .. k - 1 : i \in 0 .. n - 1
    BY <1>1
  <2> QED
    BY <2>1, <1>2, <1>3
<1>8. \A i \in k .. n : f[Steps(h, c)[i]] = 0
  <2>1. \A i \in k .. n : i = n \/ (i \in k .. n - 1 /\ i \in 0 .. n - 1)
    BY <1>1
  <2> QED
    BY <2>1, <1>2, <1>3, <1>6
<1>9. ASSUME NEW x \in Entries, h[x] # f[x]
      PROVE  \E i \in k - 1 .. n : x = Steps(h, c)[i]
  <2>1. CASE x = e
    <3>1. n \in k - 1 .. n
      BY <1>1
    <3> QED
      BY <2>1, <3>1, <1>3
  <2>2. CASE x = last
    <3>1. n - 1 \in k - 1 .. n /\ n - 1 \in 0 .. n - 1
      BY <1>1
    <3> QED
      BY <2>2, <3>1, <1>2, <1>3
  <2>3. CASE x # e /\ x # last
    <3>1. g[x] # f[x]
      BY <2>3, <1>4, <1>9
    <3>2. PICK i \in k - 1 .. n - 1 : x = Steps(g, c)[i]
      BY <3>1, <1>2
    <3>3. i \in k - 1 .. n /\ i \in 0 .. n - 1
      BY <1>1
    <3> QED
      BY <3>2, <3>3, <1>3
  <2> QED
    BY <2>1, <2>2, <2>3
<1>10. Grown(f, c, k, m + 1, h, e)
  BY <1>1, <1>3, <1>7, <1>8, <1>9 DEF Grown
<1> QED
  BY <1>10 DEF h

(* What get_free_fat_entry finds                                           *)
LEMMA FreeFound ==
    ASSUME NEW g \in [Entries -> FatValues], get_free_fat_entry(g) # NO_CLUSTER
    PROVE  /\ get_free_fat_entry(g) \in Entries
           /\ g[get_free_fat_entry(g)] = 0
           /\ get_free_fat_entry(g) % 4096 = get_free_fat_entry(g)
           /\ Marked(g, get_free_fat_entry(g)) = [g EXCEPT ![get_free_fat_entry(g)] = EOC]
<1> DEFINE free == {c \in Entries : g[c] = 0}
           e == get_free_fat_entry(g)
<1>1. e = Min(free) /\ free # {}
  BY DEF get_free_fat_entry
<1>2. e \in free
  <2>1. free \in SUBSET Nat
    BY Layout DEF Entries
  <2> HIDE DEF free
  <2> QED
    BY <1>1, <2>1, MinElement
<1> HIDE DEF e
<1>3. e \in Entries /\ g[e] = 0
  BY <1>2
<1>4. e \in 0 .. 4079
  BY <1>3, Layout DEF Entries
<1>5. \A v \in 0 .. 4079 : v % 4096 = v
  OBVIOUS
<1>6. e % 4096 = e
  BY <1>4, <1>5
<1> QED
  BY <1>3, <1>6 DEF Marked, e

(* resize appends as many clusters as it has to, if there are as many.     *)
THEOREM AppendedGrown ==
    ASSUME NEW f \in [Entries -> FatValues], f[0] # 0, f[1] # 0,
           NEW c, NEW k, Chained(f, c, k), NEW n \in Nat,
           ~Appended(f, Steps(f, c)[k - 1], n).full
    PROVE  Grown(f, c, k, n, Appended(f, Steps(f, c)[k - 1], n).fat,
                 Appended(f, Steps(f, c)[k - 1], n).last)
<1> DEFINE last == Steps(f, c)[k - 1]
<1>1. PICK turn : /\ Appended(f, last, n) = turn[n]
                  /\ turn[0] = NoTurn(f, last)
                  /\ \A m \in 1 .. n : turn[m] = AppendTurn(turn[m - 1])
  BY AppendedTurns
<1> DEFINE Fine(m) == turn[m].full \/ Grown(f, c, k, m, turn[m].fat, turn[m].last)
           T == {m \in Nat : m <= n => Fine(m)}
<1>2. 0 \in T
  <2>1. turn[0].fat = f /\ turn[0].last = last
    BY <1>1 DEF NoTurn
  <2> QED
    BY <2>1, GrownNot
<1>3. ASSUME NEW m \in Nat, m \in T PROVE m + 1 \in T
  <2>1. SUFFICES ASSUME m + 1 <= n PROVE Fine(m + 1)
    OBVIOUS
  <2> DEFINE p == turn[m]
             e == get_free_fat_entry(p.fat)
  <2>2. turn[m + 1] = AppendTurn(p) /\ Fine(m)
    <3>1. m + 1 \in 1 .. n /\ (m + 1) - 1 = m /\ m <= n
      BY <2>1
    <3> QED
      BY <3>1, <1>1, <1>3
  <2> HIDE DEF p
  <2>3. CASE p.full
    <3>1. AppendTurn(p) = [p EXCEPT !.wild = TRUE]
      BY <2>3 DEF AppendTurn
    <3>2. [p EXCEPT !.wild = TRUE].full = p.full
      OBVIOUS
    <3> QED
      BY <3>1, <3>2, <2>2, <2>3
  <2>4. CASE ~p.full /\ e = NO_CLUSTER
    <3>1. AppendTurn(p).full
      BY <2>4 DEF AppendTurn
    <3> QED
      BY <3>1, <2>2
  <2>5. CASE ~p.full /\ e # NO_CLUSTER
    <3>1. Grown(f, c, k, m, p.fat, p.last)
      BY <2>2, <2>5 DEF p
    <3>2. p.fat \in [Entries -> FatValues]
      BY <3>1 DEF Grown
    <3>3. /\ e \in Entries /\ p.fat[e] = 0 /\ e % 4096 = e
          /\ Marked(p.fat, e) = [p.fat EXCEPT ![e] = EOC]
      BY <2>5, <3>2, FreeFound
    <3>4. /\ AppendTurn(p).fat = [Marked(p.fat, e) EXCEPT ![p.last] = e % 4096]
          /\ AppendTurn(p).last = e
      BY <2>5 DEF AppendTurn
    <3> HIDE DEF e
    <3>5. \A x \in {0, 1} : p.fat[x] = f[x]
      <4>1. SUFFICES ASSUME NEW x \in {0, 1}, p.fat[x] # f[x] PROVE FALSE
        OBVIOUS
      <4>2. PICK i \in k - 1 .. k + m - 1 : x = Steps(p.fat, c)[i]
        BY <4>1, <3>1, ClusterFacts DEF Grown
      <4>3. i \in 0 .. (k + m) - 1
        BY Layout DEF Chained, Path
      <4>4. Steps(p.fat, c)[i] \in DataClusters
        BY <4>3, <3>1, ChainIsUsed DEF Grown
      <4> QED
        BY <4>2, <4>4, ClusterFacts
    <3>6. e \in DataClusters
      BY <3>3, <3>5, ClusterFacts
    <3>7. Grown(f, c, k, m + 1, [[p.fat EXCEPT ![e] = EOC] EXCEPT ![p.last] = e], e)
      <4> DEFINE g == p.fat
                 l == p.last
      <4>1. Grown(f, c, k, m, g, l) /\ g[e] = 0
        BY <3>1, <3>3
      <4> HIDE DEF g, l
      <4>2. Grown(f, c, k, m + 1, [[g EXCEPT ![e] = EOC] EXCEPT ![l] = e], e)
        BY <4>1, <3>6, GrownMore
      <4> QED
        BY <4>2 DEF g, l
    <3>8. turn[m + 1].fat = [[p.fat EXCEPT ![e] = EOC] EXCEPT ![p.last] = e] /\ turn[m + 1].last = e
      BY <2>2, <3>3, <3>4
    <3> QED
      BY <3>7, <3>8
  <2> QED
    BY <2>3, <2>4, <2>5
<1> HIDE DEF T, Fine
<1>4. T = Nat
  <2>1. T \in SUBSET Nat
    BY DEF T
  <2> QED
    BY <2>1, <1>2, <1>3, FromZeroOn
<1>5. Fine(n)
  BY <1>4 DEF T
<1> QED
  BY <1>1, <1>5 DEF Fine

(* A file that has grown                                                   *)
LEMMA GrownTight ==
    ASSUME NEW f \in [Entries -> FatValues], NEW r \in [Slots -> FileType], Tight(f, r),
           NEW s \in Used(r), NEW m \in Nat, NEW g, NEW last,
           Grown(f, r[s].cluster, Size(r[s]), m, g, last),
           NEW q, Used(q) = Used(r), q[s].cluster = r[s].cluster, Size(q[s]) = Size(r[s]) + m,
           OthersSame(r, q, s)
    PROVE  /\ Tight(g, q)
           /\ \A t \in Used(r) : Agree(f, g, r[t].cluster, Size(r[t]) - 1)
<1> DEFINE c == r[s].cluster
           k == Size(r[s])
<1>1. k \in Nat /\ k # 0 /\ k + m \in Nat /\ s \in Slots
  <2>1. s \in Slots
    BY UsedIsSlots
  <2>2. k \in Nat /\ k # 0
    BY <2>1, SizeFacts
  <2> HIDE DEF k
  <2> QED
    BY <2>1, <2>2
<1>2. Chained(f, c, k)
  BY DEF Tight
<1>3. /\ g \in [Entries -> FatValues]
      /\ Chained(g, c, k + m)
      /\ \A i \in 0 .. k - 1 : Steps(g, c)[i] = Steps(f, c)[i]
      /\ \A i \in k .. k + m - 1 : f[Steps(g, c)[i]] = 0
      /\ \A x \in Entries : g[x] # f[x] => \E i \in k - 1 .. k + m - 1 : x = Steps(g, c)[i]
  BY DEF Grown
<1>4. q[s].cluster = c /\ Size(q[s]) = k + m /\ Way(g, q[s]) = Steps(g, c) /\ Way(f, r[s]) = Steps(f, c)
  BY DEF Way
<1> HIDE DEF c, k
<1>5. \A i \in 0 .. k + m - 1 : i \in 0 .. k - 1 \/ i \in k .. k + m - 1
  BY <1>1
<1>6. \A i \in k - 1 .. k + m - 1 : i = k - 1 \/ i \in k .. k + m - 1
  BY <1>1
<1>7. ASSUME NEW t \in Used(r), t # s
      PROVE  /\ q[t] = r[t]
             /\ Chained(g, r[t].cluster, Size(r[t]))
             /\ Agree(f, g, r[t].cluster, Size(r[t]))
             /\ \A i \in 0 .. Size(r[t]) - 1 :
                   /\ Way(g, r[t])[i] = Way(f, r[t])[i]
                   /\ \A j \in 0 .. k + m - 1 : Steps(g, c)[j] # Way(f, r[t])[i]
  <2>1. Chained(f, r[t].cluster, Size(r[t]))
    BY DEF Tight
  <2>2. ASSUME NEW i \in 0 .. Size(r[t]) - 1
        PROVE  /\ Way(f, r[t])[i] \in Entries /\ f[Way(f, r[t])[i]] # 0
               /\ \A j \in 0 .. k + m - 1 : Steps(g, c)[j] # Way(f, r[t])[i]
    <3>1. Way(f, r[t])[i] \in DataClusters /\ f[Way(f, r[t])[i]] # 0
      BY <2>1, ChainIsUsed DEF Way
    <3>2. \A j \in 0 .. k - 1 : Steps(f, c)[j] # Way(f, r[t])[i]
      BY <1>4, <1>7 DEF Tight, Apart, k
    <3>3. \A j \in 0 .. k - 1 : Steps(g, c)[j] # Way(f, r[t])[i]
      BY <3>2, <1>3
    <3>4. \A j \in k .. k + m - 1 : Steps(g, c)[j] # Way(f, r[t])[i]
      BY <3>1, <1>3
    <3> QED
      BY <3>1, <3>3, <3>4, <1>5, ClusterFacts
  <2>3. Agree(f, g, r[t].cluster, Size(r[t]))
    <3>1. SUFFICES ASSUME NEW i \in 0 .. Size(r[t]) - 1, g[Way(f, r[t])[i]] # f[Way(f, r[t])[i]]
                   PROVE  FALSE
      BY DEF Agree, Way
    <3>2. PICK j \in k - 1 .. k + m - 1 : Way(f, r[t])[i] = Steps(g, c)[j]
      BY <3>1, <2>2, <1>3
    <3>3. j \in 0 .. k + m - 1
      BY <1>1
    <3> QED
      BY <3>2, <3>3, <2>2
  <2>4. /\ Chained(g, r[t].cluster, Size(r[t]))
        /\ \A i \in 0 .. Size(r[t]) - 1 : Steps(g, r[t].cluster)[i] = Steps(f, r[t].cluster)[i]
    BY <2>1, <2>3, SameChain
  <2> QED
    BY <2>2, <2>3, <2>4, <1>7 DEF Way, OthersSame
<1>8. Apart(g, q)
  <2>1. SUFFICES ASSUME NEW t \in Used(q), NEW u \in Used(q), t # u,
                        NEW i \in 0 .. Size(q[t]) - 1, NEW j \in 0 .. Size(q[u]) - 1
                 PROVE  Way(g, q[t])[i] # Way(g, q[u])[j]
    BY DEF Apart
  <2>2. CASE t = s
    <3>1. u \in Used(r) /\ u # s /\ q[u] = r[u] /\ i \in 0 .. k + m - 1
      BY <2>1, <2>2, <1>1, <1>4 DEF OthersSame
    <3>2. Steps(g, c)[i] # Way(f, r[u])[j] /\ Way(g, r[u])[j] = Way(f, r[u])[j]
      BY <3>1, <1>7
    <3> QED
      BY <3>1, <3>2, <2>2, <1>4
  <2>3. CASE u = s
    <3>1. t \in Used(r) /\ t # s /\ q[t] = r[t] /\ j \in 0 .. k + m - 1
      BY <2>1, <2>3, <1>1, <1>4 DEF OthersSame
    <3>2. Steps(g, c)[j] # Way(f, r[t])[i] /\ Way(g, r[t])[i] = Way(f, r[t])[i]
      BY <3>1, <1>7
    <3> QED
      BY <3>1, <3>2, <2>3, <1>4
  <2>4. CASE t # s /\ u # s
    <3>1. t \in Used(r) /\ q[t] = r[t] /\ u \in Used(r) /\ q[u] = r[u]
      BY <2>4 DEF OthersSame
    <3>2. Way(f, r[t])[i] # Way(f, r[u])[j]
      BY <3>1, <2>1 DEF Tight, Apart
    <3> QED
      BY <3>1, <3>2, <2>4, <1>7
  <2> QED
    BY <2>2, <2>3, <2>4
<1>9. ASSUME NEW x \in DataClusters, g[x] # 0
      PROVE  \E t \in Used(q) : \E i \in 0 .. Size(q[t]) - 1 : x = Way(g, q[t])[i]
  <2>1. x \in Entries
    BY ClusterFacts
  <2>2. CASE g[x] # f[x]
    <3>1. PICK i \in k - 1 .. k + m - 1 : x = Steps(g, c)[i]
      BY <2>1, <2>2, <1>3
    <3>2. i \in 0 .. k + m - 1
      BY <1>1
    <3>3. s \in Used(q) /\ i \in 0 .. Size(q[s]) - 1 /\ x = Way(g, q[s])[i]
      BY <3>1, <3>2, <1>1, <1>4
    <3> QED
      BY <3>3
  <2>3. CASE g[x] = f[x]
    <3>1. PICK t \in Used(r) : \E i \in 0 .. Size(r[t]) - 1 : x = Way(f, r[t])[i]
      BY <2>3, <1>9 DEF Tight
    <3>2. PICK i \in 0 .. Size(r[t]) - 1 : x = Way(f, r[t])[i]
      BY <3>1
    <3>3. CASE t = s
      <4>1. i \in 0 .. k - 1 /\ i \in 0 .. k + m - 1
        BY <3>3, <1>1 DEF k
      <4>2. s \in Used(q) /\ i \in 0 .. Size(q[s]) - 1 /\ x = Way(g, q[s])[i]
        BY <3>2, <3>3, <4>1, <1>1, <1>3, <1>4
      <4> QED
        BY <4>2
    <3>4. CASE t # s
      BY <3>2, <3>4, <1>7
    <3> QED
      BY <3>3, <3>4
  <2> QED
    BY <2>2, <2>3
<1>10. g[0] # 0 /\ g[1] # 0
  <2>1. SUFFICES ASSUME NEW x \in {0, 1}, g[x] # f[x] PROVE FALSE
    BY DEF Tight
  <2>2. PICK i \in k - 1 .. k + m - 1 : x = Steps(g, c)[i]
    BY <2>1, <1>3, ClusterFacts
  <2>3. i \in 0 .. (k + m) - 1
    BY <1>1
  <2>4. Steps(g, c)[i] \in DataClusters
    BY <2>3, <1>3, ChainIsUsed
  <2> QED
    BY <2>2, <2>4, ClusterFacts
<1>11. Tight(g, q)
  <2>1. \A t \in Used(q) : Chained(g, q[t].cluster, Size(q[t]))
    BY <1>3, <1>4, <1>7
  <2> QED
    BY <2>1, <1>8, <1>9, <1>10 DEF Tight
<1>12. ASSUME NEW t \in Used(r)
       PROVE  Agree(f, g, r[t].cluster, Size(r[t]) - 1)
  <2>1. CASE t # s
    <3>1. Size(r[t]) \in Nat /\ Agree(f, g, r[t].cluster, Size(r[t]))
      BY <2>1, <1>7, SizeFacts DEF Used
    <3> QED
      BY <3>1 DEF Agree
  <2>2. CASE t = s
    <3>1. SUFFICES ASSUME NEW i \in 0 .. (k - 1) - 1, g[Steps(f, c)[i]] # f[Steps(f, c)[i]]
                   PROVE  FALSE
      BY <2>2 DEF Agree, c, k
    <3>2. i \in 0 .. k - 1 /\ i \in 0 .. k + m - 1
      BY <1>1
    <3>3. Steps(f, c)[i] = Steps(g, c)[i] /\ Steps(f, c)[i] \in Entries
      BY <3>2, <1>2, <1>3, ChainIsUsed, ClusterFacts
    <3>4. PICK j \in k - 1 .. k + m - 1 : Steps(g, c)[i] = Steps(g, c)[j]
      BY <3>1, <3>3, <1>3
    <3>5. j \in 0 .. k + m - 1 /\ i # j
      BY <1>1
    <3>6. \A a, b \in 0 .. (k + m) - 1 : Steps(g, c)[a] = Steps(g, c)[b] => a = b
      BY <1>3 DEF Chained, Path
    <3> QED
      BY <3>2, <3>4, <3>5, <3>6, <1>1
  <2> QED
    BY <2>1, <2>2
<1> QED
  BY <1>11, <1>12

(***************************************************************************)
(* A save in progress                                                      *)
(***************************************************************************)
Info == FatSectors \cup RootSectors

(* fat12_set_info writes FAT and directory in a call; fat12_init, which    *)
(* puts the blocks too, has changed nothing in them.                       *)
Saving == pc = "info" /\ call # NoCall

(* The sectors in front of this one have been written.                     *)
Frontier == IF syc # NoSyc THEN FirstOf(syc) ELSE put * SECTORS_PER_BLOCK

(* In a save the blocks are on the floppy up to the frontier, and in the   *)
(* buffers as they will be.  At other times no block is in use, and FAT    *)
(* and directory are in the buffers as they are on the floppy.             *)
SaveInv ==
    /\ pc = "boot" =>
          cache = disk_buffer_init /\ syc = NoSyc /\ call = NoCall /\ unsaved = FALSE
    /\ pc # "info" => cache.busy = {} /\ put = 0
    /\ pc = "info" =>
          /\ InfoBlocks \subseteq Kept(cache)
          /\ cache.busy \subseteq {b \in InfoBlocks : b >= put}
          /\ syc # NoSyc => syc.block = put - 1
          /\ call = NoCall => unsaved = FALSE
    /\ Saving => \A x \in Info : cache.buffer[x] = InfoSectors(fat, root)[x]
    /\ \A x \in Info : x \in DOMAIN cache.buffer /\ cache.buffer[x] # disk[x] =>
          Saving /\ x >= Frontier

(* FAT and directory are in buffers as soon as fat12_set_info has got them. *)
LEMMA InfoIsKept ==
    ASSUME FileInv, InfoBlocks \subseteq Kept(cache)
    PROVE  Info \subseteq DOMAIN cache.buffer
<1>1. SUFFICES ASSUME NEW x \in Info PROVE x \in DOMAIN cache.buffer
  OBVIOUS
<1>2. BlockOf(x) \in Kept(cache) /\ x \in SectorsOf(BlockOf(x))
  BY InfoIsLow, Layout DEF Info
<1> QED
  BY <1>2 DEF FileInv, BufferInv, CacheOK

(* Steps that put nothing and write nothing                                *)
LEMMA SaveSame ==
    ASSUME SaveInv, UNCHANGED <<disk, cache, syc, put>>,
           pc # "info", pc' \notin {"info", "boot"}
    PROVE  SaveInv'
<1>1. cache.busy = {} /\ put = 0 /\ ~Saving
  BY DEF SaveInv, Saving
<1>2. \A x \in Info : x \in DOMAIN cache.buffer => cache.buffer[x] = disk[x]
  BY <1>1 DEF SaveInv
<1>3. ~Saving' /\ (pc # "info")' /\ (pc # "boot")'
  BY DEF Saving
<1> QED
  BY <1>1, <1>2, <1>3 DEF SaveInv

LEMMA SaveFirst ==
    ASSUME First
    PROVE  SaveInv
<1>1. /\ pc = "boot" /\ cache = disk_buffer_init /\ syc = NoSyc /\ call = NoCall
      /\ put = 0 /\ unsaved = FALSE
  BY DEF First
<1>2. cache.busy = {} /\ DOMAIN cache.buffer = {} /\ ~Saving
  BY <1>1 DEF disk_buffer_init, Saving
<1> QED
  BY <1>1, <1>2 DEF SaveInv

LEMMA SaveBoot ==
    ASSUME FileInv, SaveInv, Boot
    PROVE  SaveInv'
<1>1. /\ pc = "boot" /\ cache' = WithInfo /\ pc' = "info" /\ UNCHANGED <<disk, syc, call, put, unsaved>>
  BY DEF Boot, fat12_init
<1>2. /\ cache = disk_buffer_init /\ syc = NoSyc /\ call = NoCall /\ put = 0 /\ unsaved = FALSE
      /\ cache.busy = {}
  BY <1>1 DEF SaveInv
<1>3. DOMAIN cache.buffer = {}
  BY <1>2 DEF disk_buffer_init
<1>4. Got(WithInfo, Cardinality(InfoBlocks))
  BY InfoIsGot DEF FileInv, BufferInv
<1>5. Kept(cache)' = Kept(cache) \cup InfoBlocks /\ cache'.busy = InfoBlocks
  <2>1. Kept(WithInfo) = Kept(cache) \cup InfoBlocks /\ WithInfo.busy = cache.busy \cup InfoBlocks
    BY <1>4, InfoIsLow DEF Got
  <2> QED
    BY <2>1, <1>1, <1>2 DEF Kept
<1>6. \A x \in DOMAIN cache'.buffer : cache'.buffer[x] = disk[x]
  BY <1>1, <1>3, <1>4 DEF Got
<1>7. \A b \in InfoBlocks : b >= 0
  BY InfoIsLow
<1>8. ~Saving'
  BY <1>1, <1>2 DEF Saving
<1> QED
  BY <1>1, <1>2, <1>5, <1>6, <1>7, <1>8 DEF SaveInv

(* A turn of the write-back moves the frontier by the sectors it writes.   *)
LEMMA SaveDevice ==
    ASSUME FileInv, SaveInv, Device
    PROVE  /\ SaveInv'
           /\ pc # "boot"
           /\ pc = "info" => Frontier \in Nat /\ Frontier' = Frontier + SECTORS_PER_FD
           /\ \A x \in Info :
                 disk'[x] = IF Saving /\ x \in Frontier .. Frontier + SECTORS_PER_FD - 1
                            THEN InfoSectors(fat, root)[x] ELSE disk[x]
<1> DEFINE first == FirstOf(syc)
           S == SECTORS_PER_FD
           next == [syc EXCEPT !.turn = @ + 1]
<1>1. /\ syc \in SycType /\ syc.block \in Kept(cache) /\ syc # NoSyc
      /\ syc.block \in Blocks /\ cache' = cache
      /\ syc' = IF syc.turn + 1 = SECTORS_PER_BLOCK \div S THEN NoSyc ELSE next
      /\ UNCHANGED <<fat, root, call, pc, put, unsaved>>
  BY DEF FileInv, BufferInv, Device, SycTurn, SycOK, Kept, fatVars
<1>2. disk' = [s \in Sectors |->
                  IF s \in first .. first + S - 1 THEN cache.buffer[s] ELSE disk[s]]
  BY <1>1, TurnWritesItsSectors DEF Device
<1>3. /\ first \in Nat
      /\ \A n \in 0 .. S - 1 : first + n \in SectorsOf(syc.block)
      /\ syc.turn + 1 = SECTORS_PER_BLOCK \div S
           => first + S = syc.block * SECTORS_PER_BLOCK + SECTORS_PER_BLOCK
      /\ syc.turn + 1 # SECTORS_PER_BLOCK \div S
           => next \in SycType /\ FirstOf(next) = first + S
  BY <1>1, TurnPlace
<1>4. next.block = syc.block
  BY <1>1 DEF SycType
<1>5. pc # "boot" /\ S \in Nat \ {0}
  BY <1>1, Geometry DEF SaveInv
<1> HIDE DEF first, next
<1>6. ASSUME NEW s \in first .. first + S - 1 PROVE s \in DOMAIN cache.buffer
  <2>1. s - first \in 0 .. S - 1 /\ first + (s - first) = s
    BY <1>3, <1>5
  <2>2. s \in SectorsOf(syc.block)
    BY <1>3, <2>1
  <2> QED
    BY <1>1, <2>2 DEF FileInv, BufferInv, CacheOK
<1>7. ASSUME pc = "info"
      PROVE  Frontier = first /\ Frontier' = first + S
  <2>1. Frontier = first
    BY <1>1 DEF Frontier, first
  <2>2. syc.block = put - 1 /\ put \in Int
    <3>1. put \in Int
      BY InfoIsLow DEF FileInv, CallInv
    <3> QED
      BY <3>1, <1>1, <1>7 DEF SaveInv
  <2>3. put * SECTORS_PER_BLOCK = syc.block * SECTORS_PER_BLOCK + SECTORS_PER_BLOCK
    <3>1. syc.block \in Int /\ put = syc.block + 1
      BY <2>2
    <3> QED
      BY <3>1, Multiples, Geometry
  <2>4. CASE syc.turn + 1 = SECTORS_PER_BLOCK \div S
    BY <2>1, <2>3, <2>4, <1>1, <1>3 DEF Frontier
  <2>5. CASE syc.turn + 1 # SECTORS_PER_BLOCK \div S
    <3>1. syc' = next /\ next # NoSyc /\ FirstOf(next) = first + S
      BY <2>5, <1>1, <1>3, TurnPlace
    <3>2. Frontier' = IF syc' # NoSyc THEN FirstOf(syc') ELSE put' * SECTORS_PER_BLOCK
      BY DEF Frontier, FirstOf
    <3> QED
      BY <3>1, <3>2, <2>1
  <2> QED
    BY <2>4, <2>5, <2>1
<1>8. ASSUME NEW x \in Info
      PROVE  /\ x \in Nat /\ x \in Sectors
             /\ disk'[x] = IF x \in first .. first + S - 1 THEN cache.buffer[x] ELSE disk[x]
             /\ ~Saving => disk'[x] = disk[x]
             /\ Saving => cache.buffer[x] = InfoSectors(fat, root)[x]
  <2>1. x \in Sectors /\ x \in Nat
    BY Layout DEF Info
  <2>2. disk'[x] = IF x \in first .. first + S - 1 THEN cache.buffer[x] ELSE disk[x]
    BY <1>2, <2>1
  <2>3. ASSUME ~Saving, x \in first .. first + S - 1 PROVE cache.buffer[x] = disk[x]
    BY <2>3, <1>6 DEF SaveInv
  <2> QED
    BY <2>1, <2>2, <2>3 DEF SaveInv
<1>9. Saving' <=> Saving
  BY <1>1 DEF Saving
<1>10. ASSUME NEW x \in Info, x \in DOMAIN cache.buffer, cache.buffer[x] # disk'[x]
       PROVE  Saving /\ x >= Frontier'
  <2>1. /\ x \notin first .. first + S - 1 /\ disk'[x] = disk[x] /\ x \in Nat
    BY <1>8, <1>10
  <2>2. Saving /\ x >= Frontier
    BY <2>1, <1>10 DEF SaveInv
  <2>3. Frontier = first /\ Frontier' = first + S
    BY <2>2, <1>7 DEF Saving
  <2> QED
    BY <2>1, <2>2, <2>3, <1>3, <1>5
<1>11. SaveInv'
  <2>1. (pc # "info")' => cache'.busy = {} /\ put' = 0
    BY <1>1 DEF SaveInv
  <2>2. (pc = "info")' =>
          /\ InfoBlocks \subseteq Kept(cache)'
          /\ cache'.busy \subseteq {b \in InfoBlocks : b >= put'}
          /\ syc' # NoSyc => syc'.block = put' - 1
          /\ call' = NoCall => unsaved' = FALSE
    BY <1>1, <1>4 DEF SaveInv, Kept
  <2>3. Saving' => \A x \in Info : cache'.buffer[x] = InfoSectors(fat', root')[x]
    BY <1>1, <1>8, <1>9
  <2>4. \A x \in Info : x \in DOMAIN cache'.buffer /\ cache'.buffer[x] # disk'[x] => Saving' /\ x >= Frontier'
    BY <1>1, <1>9, <1>10
  <2> QED
    BY <2>1, <2>2, <2>3, <2>4, <1>1, <1>5 DEF SaveInv
<1>12. \A x \in Info :
          disk'[x] = IF Saving /\ x \in Frontier .. Frontier + S - 1
                     THEN InfoSectors(fat, root)[x] ELSE disk[x]
  BY <1>7, <1>8 DEF Saving
<1> QED
  BY <1>3, <1>5, <1>7, <1>11, <1>12

LEMMA SavePut ==
    ASSUME FileInv, SaveInv, set_info_put
    PROVE  SaveInv' /\ (Saving' <=> Saving)
<1>1. /\ pc = "info" /\ pc' = "info" /\ syc = NoSyc /\ put \in InfoBlocks
      /\ disk_buffer_put(cache, put)
      /\ put' = put + 1 /\ UNCHANGED <<disk, fat, root, call, unsaved>>
  BY DEF set_info_put
<1>2. put \in Nat /\ put \in Blocks /\ put \in Kept(cache)
  <2>1. put \in Nat /\ put \in Blocks
    BY <1>1, InfoIsLow
  <2>2. put \in Kept(cache)
    BY <1>1 DEF SaveInv
  <2> QED
    BY <2>1, <2>2
<1>3. /\ cache' = [cache EXCEPT !.busy = @ \ {put}]
      /\ syc' = [block |-> put, turn |-> 0]
  BY <1>1, <1>2 DEF disk_buffer_put, Kept
<1>4. /\ cache'.chain = cache.chain /\ cache'.buffer = cache.buffer
      /\ cache'.busy = cache.busy \ {put}
  <2>1. cache = [chain |-> cache.chain, buffer |-> cache.buffer, busy |-> cache.busy]
    BY DEF FileInv, BufferInv, CacheOK
  <2> QED
    BY <2>1, <1>3
<1>5. syc' # NoSyc /\ syc'.block = put' - 1 /\ FirstOf(syc') = put * SECTORS_PER_BLOCK
  <2>1. put < BLOCKS
    BY <1>2, Geometry DEF Blocks
  <2>2. syc' # NoSyc
    BY <2>1, <1>2, <1>3, Geometry DEF NoSyc
  <2>3. syc'.turn = 0 /\ syc'.block = put
    BY <1>3
  <2>4. \A p \in Int : p * SECTORS_PER_BLOCK \in Int /\ 0 * SECTORS_PER_FD = 0
    BY Geometry
  <2> DEFINE m == put * SECTORS_PER_BLOCK
  <2>5. m \in Int
    BY <2>4, <1>2
  <2>6. FirstOf(syc') = m + 0
    BY <2>3, <2>4, <1>2 DEF FirstOf
  <2> HIDE DEF m
  <2>7. FirstOf(syc') = m
    BY <2>5, <2>6
  <2> QED
    BY <2>2, <2>3, <2>7, <1>1, <1>2 DEF m
<1>6. Frontier' = Frontier
  <2>1. Frontier = put * SECTORS_PER_BLOCK
    BY <1>1 DEF Frontier
  <2>2. Frontier' = FirstOf(syc')
    BY <1>5 DEF Frontier, FirstOf
  <2> QED
    BY <2>1, <2>2, <1>5
<1>7. Saving' <=> Saving
  BY <1>1 DEF Saving
<1>8. Kept(cache)' = Kept(cache)
  BY <1>4 DEF Kept, find_dnode
<1>9. cache'.busy \subseteq {b \in InfoBlocks : b >= put'}
  <2>1. SUFFICES ASSUME NEW b \in cache.busy, b # put PROVE b \in InfoBlocks /\ b >= put + 1
    BY <1>1, <1>4
  <2>2. b \in InfoBlocks /\ b >= put
    BY <1>1 DEF SaveInv
  <2>3. b \in Int
    BY <2>2, InfoIsLow
  <2> QED
    BY <2>1, <2>2, <2>3, <1>2
<1>10. Saving' => \A x \in Info : cache'.buffer[x] = InfoSectors(fat', root')[x]
  BY <1>1, <1>4, <1>7 DEF SaveInv
<1>11. \A x \in Info : x \in DOMAIN cache'.buffer /\ cache'.buffer[x] # disk'[x] =>
          Saving' /\ x >= Frontier'
  BY <1>1, <1>4, <1>6, <1>7 DEF SaveInv
<1>12. (pc = "info")' =>
          /\ InfoBlocks \subseteq Kept(cache)'
          /\ cache'.busy \subseteq {b \in InfoBlocks : b >= put'}
          /\ syc' # NoSyc => syc'.block = put' - 1
          /\ call' = NoCall => unsaved' = FALSE
  BY <1>1, <1>5, <1>8, <1>9 DEF SaveInv
<1> QED
  BY <1>1, <1>7, <1>10, <1>11, <1>12 DEF SaveInv

(* When fat12_set_info returns, the frontier has passed all its sectors.   *)
LEMMA SaveReturn ==
    ASSUME FileInv, SaveInv, set_info_return
    PROVE  /\ SaveInv'
           /\ Saving => \A x \in Info : disk[x] = InfoSectors(fat, root)[x]
<1>1. /\ pc = "info" /\ pc' \in {"idle", "rw"} /\ syc = NoSyc /\ put \notin InfoBlocks
      /\ put' = 0 /\ UNCHANGED <<disk, cache, syc, fat, root, call>>
  BY DEF set_info_return
<1>2. put \in Nat /\ \A b \in InfoBlocks : b < put
  <2> DEFINE n == Cardinality(InfoBlocks)
  <2>1. n \in Nat /\ put \in 0 .. n /\ put \notin 0 .. n - 1 /\ InfoBlocks = 0 .. n - 1
    BY <1>1, InfoIsLow DEF FileInv, CallInv
  <2> HIDE DEF n
  <2> QED
    BY <2>1
<1>3. cache.busy = {}
  <2>1. SUFFICES ASSUME NEW b \in cache.busy PROVE FALSE
    OBVIOUS
  <2>2. b \in InfoBlocks /\ b >= put
    BY <1>1 DEF SaveInv
  <2>3. b \in Int
    BY <2>2, InfoIsLow
  <2> QED
    BY <2>2, <2>3, <1>2
<1>4. ASSUME NEW x \in Info PROVE x \in DOMAIN cache.buffer /\ cache.buffer[x] = disk[x]
  <2> DEFINE b == BlockOf(x)
             m == b * SECTORS_PER_BLOCK
             l == put * SECTORS_PER_BLOCK
  <2>1. x \in Nat /\ b \in InfoBlocks /\ b \in Blocks /\ x \in SectorsOf(b)
    BY InfoIsLow, Layout DEF Info
  <2>2. x < m + SECTORS_PER_BLOCK
    BY <2>1, SectorInBlock
  <2>3. b \in Int /\ b < put
    BY <2>1, <1>2, InfoIsLow
  <2>4. m + SECTORS_PER_BLOCK <= l /\ m \in Int /\ l \in Int
    <3> HIDE DEF b
    <3> QED
      BY <2>3, <1>2, Multiples, Geometry
  <2> HIDE DEF m, l
  <2>5. ~(x >= l)
    BY <2>1, <2>2, <2>4, Geometry
  <2>6. Frontier = l
    BY <1>1 DEF Frontier, l
  <2>7. x \in DOMAIN cache.buffer
    BY <1>1, InfoIsKept DEF SaveInv
  <2> QED
    BY <2>5, <2>6, <2>7 DEF SaveInv
<1>5. ~Saving' /\ (pc # "boot")' /\ (pc # "info")'
  BY <1>1 DEF Saving
<1>6. Saving => \A x \in Info : disk[x] = InfoSectors(fat, root)[x]
  BY <1>4 DEF SaveInv
<1> QED
  BY <1>1, <1>3, <1>4, <1>5, <1>6 DEF SaveInv

(* The copy of a sector leaves FAT and directory alone, and no block in    *)
(* use.                                                                    *)
LEMMA TransferApart ==
    ASSUME FileInv, cache.busy = {}, call.cluster \in DataClusters, Transfer
    PROVE  /\ cache'.busy = {}
           /\ \A y \in Info : y \in DOMAIN cache'.buffer =>
                 cache'.buffer[y] = IF y \in DOMAIN cache.buffer THEN cache.buffer[y] ELSE disk[y]
<1> DEFINE x == DataSector(call.cluster)
           b == BlockOf(x)
           c == disk_buffer_get(cache, b)
           from == c.buffer[x]
           to == [i \in 1 .. SECTOR_SIZE |-> IF i \in Copied THEN call.byte ELSE from[i]]
           d == [c EXCEPT !.buffer[x] = to]
<1>1. b \in Blocks /\ \A y \in Info : y # x
  <2>1. x \in Nat /\ x >= DATA_START_SECT /\ b \in Blocks /\ DATA_START_SECT \in Nat
    BY Layout
  <2>2. \A y \in Info : y \in Nat /\ y < DATA_START_SECT
    BY Layout DEF Info
  <2> HIDE DEF x
  <2> QED
    BY <2>1, <2>2
<1>2. /\ CacheOK(c) /\ b \in Kept(c) /\ c.busy = {b}
      /\ \A s \in DOMAIN c.buffer :
            c.buffer[s] = IF s \in DOMAIN cache.buffer THEN cache.buffer[s] ELSE disk[s]
  <2>1. LET g == disk_buffer_get(cache, b)
        IN  /\ CacheOK(g)
            /\ Kept(g) = Kept(cache) \cup {b}
            /\ g.busy = cache.busy \cup {b}
            /\ \A s \in DOMAIN g.buffer :
                  g.buffer[s] = IF s \in DOMAIN cache.buffer THEN cache.buffer[s] ELSE disk[s]
    BY <1>1, GetFacts DEF FileInv, BufferInv
  <2> QED
    BY <2>1
<1>3. disk_buffer_put(c, b) \/ disk_buffer_put(d, b)
  BY DEF Transfer
<1> HIDE DEF c, b, to, x
<1>4. c = [chain |-> c.chain, buffer |-> c.buffer, busy |-> c.busy]
  BY <1>2 DEF CacheOK
<1>5. find_dnode(c, b)
  BY <1>2 DEF Kept
<1>6. CASE disk_buffer_put(c, b)
  <2>1. cache' = [c EXCEPT !.busy = @ \ {b}]
    BY <1>5, <1>6 DEF disk_buffer_put
  <2>2. cache'.busy = {} /\ cache'.buffer = c.buffer
    BY <2>1, <1>2, <1>4
  <2> QED
    BY <2>2, <1>2
<1>7. CASE disk_buffer_put(d, b)
  <2> DEFINE after == [c.buffer EXCEPT ![x] = to]
  <2>1. d = [c EXCEPT !.buffer = after]
    BY <1>4
  <2> HIDE DEF d, after
  <2>2. d = [chain |-> c.chain, buffer |-> after, busy |-> c.busy]
    BY <2>1, <1>4
  <2>3. find_dnode(d, b)
    BY <2>2, <1>5 DEF find_dnode
  <2>4. cache' = [d EXCEPT !.busy = @ \ {b}]
    BY <2>3, <1>7 DEF disk_buffer_put
  <2>5. cache'.busy = {} /\ cache'.buffer = after
    BY <2>2, <2>4, <1>2
  <2>6. DOMAIN after = DOMAIN c.buffer /\ \A y \in DOMAIN c.buffer : y # x => after[y] = c.buffer[y]
    BY DEF after
  <2> QED
    BY <2>5, <2>6, <1>1, <1>2
<1> QED
  BY <1>3, <1>6, <1>7

LEMMA SaveRwTurn ==
    ASSUME FileInv, SaveInv, rw_turn
    PROVE  SaveInv'
<1>1. /\ pc = "rw" /\ pc' \in {"rw", "return"} /\ call.cluster \in DataClusters
      /\ UNCHANGED <<disk, put>>
      /\ Transfer \/ UNCHANGED <<cache, syc>>
      /\ syc = NoSyc
  BY DEF rw_turn
<1>2. cache.busy = {} /\ put = 0 /\ ~Saving
  BY <1>1 DEF SaveInv, Saving
<1>3. \A x \in Info : x \in DOMAIN cache.buffer => cache.buffer[x] = disk[x]
  BY <1>2 DEF SaveInv
<1>4. cache'.busy = {} /\ \A x \in Info : x \in DOMAIN cache'.buffer => cache'.buffer[x] = disk[x]
  <2>1. CASE Transfer
    BY <2>1, <1>1, <1>2, <1>3, TransferApart
  <2>2. CASE UNCHANGED cache
    BY <2>2, <1>2, <1>3
  <2> QED
    BY <2>1, <2>2, <1>1
<1>5. ~Saving' /\ (pc # "boot")' /\ (pc # "info")'
  BY <1>1 DEF Saving
<1> QED
  BY <1>1, <1>2, <1>4, <1>5 DEF SaveInv

(* A save begins: nothing is on the floppy, everything in the buffers.     *)
LEMMA SaveBegins ==
    ASSUME FileInv, SaveInv, pc = "idle", syc = NoSyc, UNCHANGED <<disk, syc, put>>,
           pc' = "info", call' # NoCall,
           cache' = [WithInfo EXCEPT !.buffer = Over(InfoSectors(fat', root'), @)]
    PROVE  SaveInv' /\ Saving'
<1> DEFINE c == WithInfo
           i == InfoSectors(fat', root')
<1>1. cache.busy = {} /\ put = 0 /\ put' = 0
  BY DEF SaveInv
<1>2. Got(c, Cardinality(InfoBlocks))
  BY InfoIsGot DEF FileInv, BufferInv
<1>3. CacheOK(c) /\ c.busy = InfoBlocks /\ InfoBlocks \subseteq Kept(c)
  BY <1>1, <1>2, InfoIsLow DEF Got
<1>4. DOMAIN i = Info
  BY DEF InfoSectors, Info
<1> HIDE DEF c, i
<1>5. cache' = [c EXCEPT !.buffer = Over(i, @)]
  BY DEF c, i
<1>6. cache'.busy = InfoBlocks /\ cache'.chain = c.chain /\ cache'.buffer = Over(i, c.buffer)
  <2>1. c = [chain |-> c.chain, buffer |-> c.buffer, busy |-> c.busy]
    BY <1>3 DEF CacheOK
  <2> QED
    BY <2>1, <1>3, <1>5
<1>7. InfoBlocks \subseteq Kept(cache)'
  BY <1>3, <1>6 DEF Kept, find_dnode
<1>8. \A x \in Info : cache'.buffer[x] = i[x]
  BY <1>4, <1>6 DEF Over
<1>9. Saving'
  BY DEF Saving
<1>10. Frontier' = 0
  <2>1. Frontier' = put' * SECTORS_PER_BLOCK
    BY DEF Frontier
  <2>2. 0 * SECTORS_PER_BLOCK = 0
    BY Geometry
  <2> QED
    BY <2>1, <2>2, <1>1
<1>11. \A x \in Info : x >= Frontier'
  BY <1>10, Layout DEF Info
<1>12. \A b \in InfoBlocks : b >= 0
  BY InfoIsLow
<1> QED
  BY <1>1, <1>6, <1>7, <1>8, <1>9, <1>11, <1>12 DEF SaveInv, i

(* A file's call is one.                                                   *)
LEMMA CallIsOne ==
    ASSUME NEW op \in {"read", "write"}, NEW s, NEW offset, NEW len, NEW byte,
           Start(op, s, offset, len, byte)
    PROVE  call' # NoCall
<1>1. call'.op = op /\ NoCall.op = "none"
  BY DEF Start, NoCall
<1> QED
  BY <1>1

LEMMA SaveRw ==
    ASSUME FileInv, SaveInv,
           NEW op \in {"read", "write"}, NEW s \in Slots, NEW offset, NEW len, NEW byte,
           fat12_rw_aux(op, s, offset, len, byte)
    PROVE  SaveInv'
<1>1. syc = NoSyc /\ pc = "idle"
  BY DEF fat12_rw_aux
<1>2. CASE RwInPlace(op, s, offset, len, byte)
  <2>1. UNCHANGED <<disk, cache, syc, put>> /\ pc' = "rw"
    BY <1>2 DEF RwInPlace, Start
  <2> QED
    BY <1>1, <2>1, SaveSame
<1>3. ASSUME NEW why \in {"wild"}, Stop(why) PROVE SaveInv'
  BY <1>1, <1>3, SaveSame DEF Stop
<1>4. CASE RwGrows(op, s, offset, len, byte)
  <2> DEFINE a == Appended(fat, Last(Chain(fat, root[s].cluster)), Grows(s, offset + len))
             r == [root EXCEPT ![s].size = offset + len]
             c == WithInfo
  <2>1. CASE a.wild
    BY <1>4, <2>1, <1>3 DEF RwGrows
  <2>2. CASE ~a.wild
    <3>1. /\ fat' = a.fat /\ root' = r
          /\ cache' = [c EXCEPT !.buffer = Over(InfoSectors(a.fat, r), @)]
          /\ pc' = "info"
          /\ Start(op, s, offset, len, byte)
      BY <1>4, <2>2 DEF RwGrows
    <3>2. UNCHANGED <<disk, syc, put>> /\ call' # NoCall
      BY <3>1, CallIsOne DEF Start
    <3> HIDE DEF a, r
    <3>3. cache' = [WithInfo EXCEPT !.buffer = Over(InfoSectors(fat', root'), @)]
      BY <3>1
    <3> QED
      BY <1>1, <3>1, <3>2, <3>3, SaveBegins
  <2> QED
    BY <2>1, <2>2
<1>5. CASE RwWild(s, offset, len)
  BY <1>3, <1>5 DEF RwWild
<1> QED
  BY <1>2, <1>4, <1>5 DEF fat12_rw_aux

(* The descriptor's read or write calls fat12_rw_aux with its slot.        *)
LEMMA ReadWriteCalls ==
    ASSUME FileInv, NEW d \in Descriptors, NEW len \in LENGTHS,
           \/ sys_read(d, len)
           \/ \E byte \in BYTES : sys_write(d, len, byte)
    PROVE  \E op \in {"read", "write"}, s \in Slots, offset \in Nat, byte \in BYTES \cup {""} :
              fat12_rw_aux(op, s, offset, len, byte)
<1>1. CASE sys_read(d, len)
  <2>1. /\ filp[d] # NULL /\ filp[d].inode # <<>>
        /\ fat12_rw_aux("read", SlotOf(d), filp[d].f_pos, len, "")
    BY <1>1 DEF sys_read, sys_rw
  <2> QED
    BY <2>1, DescriptorSlot DEF FileInv
<1>2. CASE \E byte \in BYTES : sys_write(d, len, byte)
  <2>1. PICK byte \in BYTES : sys_write(d, len, byte)
    BY <1>2
  <2>2. /\ filp[d] # NULL /\ filp[d].inode # <<>>
        /\ fat12_rw_aux("write", SlotOf(d), filp[d].f_pos, len, byte)
    BY <2>1 DEF sys_write, sys_rw
  <2> QED
    BY <2>2, DescriptorSlot DEF FileInv
<1> QED
  BY <1>1, <1>2

(* Every step keeps it.                                                    *)
LEMMA SaveStep ==
    ASSUME FileInv, SaveInv, [Next]_vars
    PROVE  SaveInv'
<1>1. CASE Boot
  BY <1>1, SaveBoot
<1>2. CASE Device
  BY <1>2, SaveDevice
<1>3. CASE CallTurn
  <2>1. CASE set_info_put
    BY <2>1, SavePut
  <2>2. CASE set_info_return
    BY <2>2, SaveReturn
  <2>3. CASE rw_turn
    BY <2>3, SaveRwTurn
  <2>4. CASE rw_wild
    BY <2>4, SaveSame DEF rw_wild, Stop
  <2>5. CASE rw_return
    BY <2>5, SaveSame DEF rw_return
  <2> QED
    BY <1>3, <2>1, <2>2, <2>3, <2>4, <2>5 DEF CallTurn
<1>4. ASSUME NEW n \in NAMES, NEW pos \in POSITIONS, sys_open(n, pos)
      PROVE  SaveInv'
  BY <1>4, SaveSame DEF sys_open, Ready, bufferVars
<1>5. ASSUME NEW d \in Descriptors, NEW len \in LENGTHS,
             \/ sys_read(d, len)
             \/ \E byte \in BYTES : sys_write(d, len, byte)
      PROVE  SaveInv'
  <2>1. PICK op \in {"read", "write"}, s \in Slots, offset \in Nat, byte \in BYTES \cup {""} :
              fat12_rw_aux(op, s, offset, len, byte)
    BY <1>5, ReadWriteCalls
  <2> QED
    BY <2>1, SaveRw
<1>6. ASSUME NEW d \in Descriptors, UseWithoutInode(d) \/ CloseBug(d)
      PROVE  SaveInv'
  BY <1>6, SaveSame DEF UseWithoutInode, CloseBug, Ready, bufferVars
<1>7. ASSUME NEW d \in Descriptors, sys_close(d)
      PROVE  SaveInv'
  BY <1>7, SaveSame DEF sys_close, Ready, bufferVars
<1>8. CASE ChangeDirectory
  <2>1. PICK n \in NAMES : fat12_create(n) \/ fat12_remove(n)
    BY <1>8 DEF ChangeDirectory
  <2>2. CASE fat12_create(n)
    BY <2>2, SaveSame DEF fat12_create
  <2>3. CASE fat12_remove(n)
    <3>1. /\ UNCHANGED <<disk, cache, syc, put>> /\ pc = "idle" /\ pc' \in {"idle", "wild"}
      BY <2>3 DEF fat12_remove, Stop
    <3> QED
      BY <3>1, SaveSame
  <2> QED
    BY <2>1, <2>2, <2>3
<1>9. CASE PowerFails
  <2>1. First'
    BY <1>9 DEF PowerFails, First, FileInv, BufferInv, DiskTyped, CallInv
  <2>2. First' => SaveInv'
    BY SaveFirst, PTL
  <2> QED
    BY <2>1, <2>2
<1>10. CASE UNCHANGED vars
  <2>1. UNCHANGED <<disk, cache, syc, fat, root, call, pc, put, unsaved>>
    BY <1>10 DEF vars, fatVars, bufferVars
  <2>2. Frontier' = Frontier /\ Kept(cache)' = Kept(cache)
    BY <2>1 DEF Frontier, FirstOf, Kept
  <2>3. Saving' <=> Saving
    BY <2>1 DEF Saving
  <2> QED
    BY <2>1, <2>2, <2>3 DEF SaveInv
<1> QED
  BY <1>1, <1>2, <1>3, <1>4, <1>5, <1>6, <1>7, <1>8, <1>9, <1>10 DEF Next, Idle

(* FAT and directory, taken out of the sectors they were put into          *)
LEMMA InfoIsBack ==
    ASSUME NEW f \in [Entries -> FatValues], NEW r \in [Slots -> FileType], NEW d,
           \A x \in Info : d[x] = InfoSectors(f, r)[x]
    PROVE  FatOf(d) = f /\ RootOf(d) = r
<1>1. ASSUME NEW c \in Entries PROVE d[FatSector(c)][c] = f[c]
  <2> DEFINE x == FatSector(c)
  <2>1. x \in FatSectors /\ x \in Info
    BY DEF FatSectors, Info
  <2>2. InfoSectors(f, r)[x] = [e \in {y \in Entries : FatSector(y) = x} |-> f[e]]
    BY <2>1 DEF InfoSectors
  <2> QED
    BY <2>1, <2>2
<1>2. ASSUME NEW s \in Slots PROVE d[RootSector(s)][s] = r[s]
  <2> DEFINE x == RootSector(s)
  <2>1. x \in RootSectors /\ x \in Info /\ x \notin FatSectors
    BY Layout DEF RootSectors, Info
  <2>2. InfoSectors(f, r)[x] = [e \in {y \in Slots : RootSector(y) = x} |-> r[e]]
    BY <2>1 DEF InfoSectors
  <2> QED
    BY <2>1, <2>2
<1> QED
  BY <1>1, <1>2 DEF FatOf, RootOf

LEMMA SameInfo ==
    ASSUME NEW d, NEW e, \A x \in Info : d[x] = e[x]
    PROVE  FatOf(d) = FatOf(e) /\ RootOf(d) = RootOf(e)
<1>1. \A c \in Entries : FatSector(c) \in Info
  BY DEF Info, FatSectors
<1>2. \A s \in Slots : RootSector(s) \in Info
  BY DEF Info, RootSectors
<1> QED
  BY <1>1, <1>2 DEF FatOf, RootOf

(* Behind the frontier a save has been written.                            *)
LEMMA SavedPart ==
    ASSUME FileInv, SaveInv, Saving, NEW x \in Info, ~(x >= Frontier)
    PROVE  disk[x] = InfoSectors(fat, root)[x]
<1>1. InfoBlocks \subseteq Kept(cache)
  BY DEF SaveInv, Saving
<1>2. x \in DOMAIN cache.buffer
  BY <1>1, InfoIsKept
<1> QED
  BY <1>2 DEF SaveInv

(* What is used on the floppy is used in memory.                           *)
LEMMA FollowsIsUsed ==
    ASSUME NEW f, NEW r, NEW g, NEW q, Follows(f, r, g, q) \/ Saved(f, r, g, q), NEW s \in Used(q)
    PROVE  s \in Used(r)
BY DEF Follows, Saved, Used

(* A save writes the FAT before the directory.                             *)
LEMMA WrittenFollows ==
    ASSUME NEW f, NEW r \in [Slots -> FileType], Tight(f, r),
           NEW g, NEW q \in [Slots -> FileType], Follows(f, r, g, q),
           NEW h, NEW p \in [Slots -> FileType],
           \A c \in Entries : h[c] \in {g[c], f[c]},
           \A s \in Slots : p[s] = q[s] \/ (p[s] = r[s] /\ \A c \in Entries : h[c] = f[c])
    PROVE  Follows(f, r, h, p)
<1>1. SUFFICES ASSUME NEW s \in Used(p)
               PROVE  /\ r[s].name = p[s].name /\ r[s].cluster = p[s].cluster
                      /\ p[s].size <= r[s].size
                      /\ Agree(f, h, r[s].cluster, Size(p[s]) - 1)
  BY DEF Follows
<1>2. s \in Slots /\ r[s].size \in Nat /\ p[s].size \in Nat /\ q[s].size \in Nat
      /\ Size(r[s]) \in Nat /\ Size(p[s]) \in Nat
  BY UsedIsSlots, SizeFacts
<1>3. CASE p[s] = q[s]
  <2>1. s \in Used(q)
    BY <1>2, <1>3 DEF Used
  <2>2. /\ r[s].name = p[s].name /\ r[s].cluster = p[s].cluster /\ p[s].size <= r[s].size
        /\ Agree(f, g, r[s].cluster, Size(p[s]) - 1)
    BY <2>1, <1>3 DEF Follows
  <2>3. s \in Used(r)
    BY <2>1, FollowsIsUsed
  <2>4. Size(p[s]) <= Size(r[s])
    BY <1>2, <2>2, NeededFacts DEF Size
  <2>5. Agree(f, h, r[s].cluster, Size(p[s]) - 1)
    <3>1. SUFFICES ASSUME NEW i \in 0 .. (Size(p[s]) - 1) - 1
                   PROVE  h[Steps(f, r[s].cluster)[i]] = f[Steps(f, r[s].cluster)[i]]
      BY DEF Agree
    <3>2. i \in 0 .. Size(r[s]) - 1
      BY <1>2, <2>4, <3>1
    <3>3. Path(f, r[s].cluster, Size(r[s]))
      BY <2>3 DEF Tight, Chained
    <3>4. Steps(f, r[s].cluster)[i] \in Entries
      BY <3>2, <3>3, PathNext, ClusterFacts
    <3>5. g[Steps(f, r[s].cluster)[i]] = f[Steps(f, r[s].cluster)[i]]
      BY <2>2, <3>1 DEF Agree
    <3> QED
      BY <3>4, <3>5
  <2> QED
    BY <2>2, <2>5
<1>4. CASE p[s] = r[s] /\ \A c \in Entries : h[c] = f[c]
  <2>1. s \in Used(r)
    BY <1>2, <1>4 DEF Used
  <2>2. Agree(f, h, r[s].cluster, Size(p[s]) - 1)
    <3>1. SUFFICES ASSUME NEW i \in 0 .. (Size(p[s]) - 1) - 1
                   PROVE  h[Steps(f, r[s].cluster)[i]] = f[Steps(f, r[s].cluster)[i]]
      BY DEF Agree
    <3>2. i \in 0 .. Size(r[s]) - 1
      BY <1>2, <1>4, <3>1
    <3>3. Path(f, r[s].cluster, Size(r[s]))
      BY <2>1 DEF Tight, Chained
    <3>4. Steps(f, r[s].cluster)[i] \in Entries
      BY <3>2, <3>3, PathNext, ClusterFacts
    <3> QED
      BY <3>4, <1>4
  <2>3. p[s].size <= r[s].size
    BY <1>2, <1>4
  <2> QED
    BY <2>2, <2>3, <1>4
<1> QED
  BY <1>2, <1>3, <1>4

(* A size that needs no other clusters                                     *)
LEMMA SavedInPlace ==
    ASSUME NEW f, NEW r \in [Slots -> FileType], NEW g, NEW q \in [Slots -> FileType],
           Saved(f, r, g, q),
           NEW p \in [Slots -> FileType], Used(p) = Used(r),
           \A s \in Used(r) : /\ p[s].name = r[s].name /\ p[s].cluster = r[s].cluster
                              /\ p[s].size >= r[s].size /\ Size(p[s]) = Size(r[s])
    PROVE  Saved(f, p, g, q)
<1>1. ASSUME NEW s \in Used(q)
      PROVE  /\ p[s].name = q[s].name /\ p[s].cluster = q[s].cluster /\ q[s].size <= p[s].size
             /\ Size(q[s]) = Size(p[s])
             /\ Agree(f, g, p[s].cluster, Size(p[s]))
  <2>1. s \in Used(r) /\ s \in Slots
    BY FollowsIsUsed, UsedIsSlots
  <2>2. p[s].size \in Nat /\ q[s].size \in Nat /\ r[s].size \in Nat
    BY <2>1, SizeFacts
  <2>3. /\ r[s].name = q[s].name /\ r[s].cluster = q[s].cluster /\ q[s].size <= r[s].size
        /\ Size(q[s]) = Size(r[s])
        /\ Agree(f, g, r[s].cluster, Size(r[s]))
    BY DEF Saved
  <2>4. /\ p[s].name = r[s].name /\ p[s].cluster = r[s].cluster
        /\ p[s].size >= r[s].size /\ Size(p[s]) = Size(r[s])
    BY <2>1
  <2>5. q[s].size <= p[s].size
    BY <2>2, <2>3, <2>4
  <2> QED
    BY <2>3, <2>4, <2>5
<1>2. \A s \in Used(p) \ Used(q) : Size(p[s]) = 1
  BY DEF Saved
<1> QED
  BY <1>1, <1>2 DEF Saved

(* What is on the floppy when a file has grown                             *)
LEMMA GrownFollows ==
    ASSUME NEW f, NEW r \in [Slots -> FileType], Tight(f, r),
           NEW g, NEW q \in [Slots -> FileType], Saved(f, r, g, q),
           NEW h, \A s \in Used(r) : Agree(f, h, r[s].cluster, Size(r[s]) - 1),
           NEW p \in [Slots -> FileType],
           \A s \in Used(r) : /\ p[s].name = r[s].name /\ p[s].cluster = r[s].cluster
                              /\ p[s].size >= r[s].size
    PROVE  Follows(h, p, g, q)
<1>1. SUFFICES ASSUME NEW s \in Used(q)
               PROVE  /\ p[s].name = q[s].name /\ p[s].cluster = q[s].cluster
                      /\ q[s].size <= p[s].size
                      /\ Agree(h, g, p[s].cluster, Size(q[s]) - 1)
  BY DEF Follows
<1>2. s \in Used(r) /\ s \in Slots
  BY FollowsIsUsed, UsedIsSlots
<1>3. p[s].size \in Nat /\ q[s].size \in Nat /\ r[s].size \in Nat /\ Size(r[s]) \in Nat
  BY <1>2, SizeFacts
<1>4. /\ r[s].name = q[s].name /\ r[s].cluster = q[s].cluster /\ q[s].size <= r[s].size
      /\ Size(q[s]) = Size(r[s])
      /\ Agree(f, g, r[s].cluster, Size(r[s]))
  BY DEF Saved
<1>5. /\ p[s].name = r[s].name /\ p[s].cluster = r[s].cluster /\ p[s].size >= r[s].size
      /\ Agree(f, h, r[s].cluster, Size(r[s]) - 1)
  BY <1>2
<1>6. q[s].size <= p[s].size
  BY <1>3, <1>4, <1>5
<1>7. Path(f, r[s].cluster, Size(r[s]))
  BY <1>2 DEF Tight, Chained
<1>8. \A i \in 0 .. Size(r[s]) - 1 : Steps(h, r[s].cluster)[i] = Steps(f, r[s].cluster)[i]
  BY <1>5, <1>7, SamePath
<1>9. Agree(h, g, r[s].cluster, Size(r[s]) - 1)
  <2>1. SUFFICES ASSUME NEW i \in 0 .. (Size(r[s]) - 1) - 1
                 PROVE  g[Steps(h, r[s].cluster)[i]] = h[Steps(h, r[s].cluster)[i]]
    BY DEF Agree
  <2>2. i \in 0 .. Size(r[s]) - 1
    BY <1>3, <2>1
  <2>3. g[Steps(f, r[s].cluster)[i]] = f[Steps(f, r[s].cluster)[i]]
    BY <1>4, <2>2 DEF Agree
  <2>4. h[Steps(f, r[s].cluster)[i]] = f[Steps(f, r[s].cluster)[i]]
    BY <1>5, <2>1 DEF Agree
  <2> QED
    BY <1>8, <2>2, <2>3, <2>4
<1> QED
  BY <1>4, <1>5, <1>6, <1>9

(* A new file is not on the floppy yet.                                    *)
LEMMA CreatedSaved ==
    ASSUME NEW f, NEW r \in [Slots -> FileType], Tight(f, r),
           NEW g, NEW q, Saved(f, r, g, q),
           NEW h, \A t \in Used(r) : Agree(f, h, r[t].cluster, Size(r[t])),
           NEW s, s \notin Used(r),
           NEW p, Used(p) = Used(r) \cup {s}, Size(p[s]) = 1,
           OthersSame(r, p, s)
    PROVE  Saved(h, p, g, q)
<1>1. ASSUME NEW t \in Used(q)
      PROVE  /\ p[t].name = q[t].name /\ p[t].cluster = q[t].cluster /\ q[t].size <= p[t].size
             /\ Size(q[t]) = Size(p[t])
             /\ Agree(h, g, p[t].cluster, Size(p[t]))
  <2>1. t \in Used(r) /\ t \in Slots
    BY FollowsIsUsed, UsedIsSlots
  <2>2. p[t] = r[t]
    BY <2>1 DEF OthersSame
  <2>3. /\ r[t].name = q[t].name /\ r[t].cluster = q[t].cluster /\ q[t].size <= r[t].size
        /\ Size(q[t]) = Size(r[t])
        /\ Agree(f, g, r[t].cluster, Size(r[t]))
    BY DEF Saved
  <2>4. Chained(f, r[t].cluster, Size(r[t])) /\ Agree(f, h, r[t].cluster, Size(r[t]))
    BY <2>1 DEF Tight
  <2>5. \A i \in 0 .. Size(r[t]) - 1 : Steps(h, r[t].cluster)[i] = Steps(f, r[t].cluster)[i]
    BY <2>4, SameChain
  <2>6. Agree(h, g, r[t].cluster, Size(r[t]))
    BY <2>3, <2>4, <2>5 DEF Agree
  <2> QED
    BY <2>2, <2>3, <2>6
<1>2. \A t \in Used(p) \ Used(q) : Size(p[t]) = 1
  BY DEF Saved, OthersSame
<1> QED
  BY <1>1, <1>2 DEF Saved

(* A new size in a directory entry that is used                            *)
WithSize(r, s, n) == [r EXCEPT ![s].size = n]

LEMMA Resized ==
    ASSUME NEW r \in [Slots -> FileType], NEW s \in Used(r), NEW n \in Nat,
           NEW q, q = WithSize(r, s, n)
    PROVE  /\ q \in [Slots -> FileType]
           /\ Used(q) = Used(r)
           /\ q[s].name = r[s].name /\ q[s].cluster = r[s].cluster /\ q[s].size = n
           /\ \A t \in Slots : t # s => q[t] = r[t]
           /\ FreeIsEmpty(r) => FreeIsEmpty(q)
<1>1. s \in Slots
  BY UsedIsSlots
<1>2. q \in [Slots -> FileType]
  BY <1>1, SizeSet DEF WithSize
<1>3. r[s] \in FileType
  BY <1>1
<1>4. q[s] = [r[s] EXCEPT !.size = n] /\ \A t \in Slots : t # s => q[t] = r[t]
  BY <1>1 DEF WithSize
<1>5. q[s].name = r[s].name /\ q[s].cluster = r[s].cluster /\ q[s].size = n
  BY <1>3, <1>4 DEF FileType
<1>6. \A t \in Slots : q[t].name = r[t].name
  BY <1>4, <1>5
<1>7. Used(q) = Used(r)
  BY <1>6 DEF Used
<1>8. r[s].name # ""
  BY DEF Used
<1>9. FreeIsEmpty(r) => FreeIsEmpty(q)
  BY <1>4, <1>6, <1>8, Zenon DEF FreeIsEmpty
<1> QED
  BY <1>2, <1>4, <1>5, <1>7, <1>9

(* The entry a new name gets                                               *)
LEMMA FirstNamed ==
    ASSUME NEW n, Named(n) # {}
    PROVE  Min(Named(n)) \in Slots /\ root[Min(Named(n))].name = n
<1>1. Named(n) \in SUBSET Nat
  BY DEF Named, Slots
<1>2. Min(Named(n)) \in Named(n)
  BY <1>1, MinElement
<1> QED
  BY <1>2 DEF Named

(* A cluster to begin with makes an entry a used one.                      *)
LEMMA ClusterIsUsed ==
    ASSUME NEW r, FreeIsEmpty(r), NEW s \in Slots, r[s].cluster \in DataClusters
    PROVE  s \in Used(r)
<1>1. NoFile.cluster = 0 /\ 0 \notin DataClusters
  BY ClusterFacts DEF NoFile
<1> QED
  BY <1>1, Zenon DEF FreeIsEmpty, Used

FloppyFat == FatOf(disk)
FloppyRoot == RootOf(disk)

(* Memory and floppy: what each says, and what they say of each other.     *)
FloppyInv ==
    /\ FreeIsEmpty(root) /\ FreeIsEmpty(FloppyRoot)
    /\ pc # "boot" /\ risk = "none" => Tight(fat, root)
    /\ Saving /\ risk = "none" /\ unsaved = FALSE => Follows(fat, root, FloppyFat, FloppyRoot)
    /\ ~Saving /\ risk = "none" /\ unsaved = FALSE =>
          /\ Tight(FloppyFat, FloppyRoot)
          /\ pc # "boot" => Saved(fat, root, FloppyFat, FloppyRoot)
    /\ risk = "torn" =>
          /\ ~Saving /\ unsaved = FALSE
          /\ Whole(FloppyFat, FloppyRoot)
          /\ pc # "boot" =>
                /\ fat = FloppyFat /\ Used(root) = Used(FloppyRoot)
                /\ Saved(fat, root, FloppyFat, FloppyRoot)

FloppyTables == FloppyFat \in [Entries -> FatValues] /\ FloppyRoot \in [Slots -> FileType]

LEMMA FloppyTyped ==
    ASSUME FileInv
    PROVE  /\ FloppyTables
           /\ FloppyFat \in [Entries -> FatValues] /\ FloppyRoot \in [Slots -> FileType]
           /\ fat \in [Entries -> FatValues] /\ root \in [Slots -> FileType]
           /\ risk \in {"none", "torn", "lost"} /\ unsaved \in BOOLEAN
<1>1. DiskTyped
  BY DEF FileInv, BufferInv
<1>2. \A c \in Entries : FatSector(c) \in Sectors
  BY Layout DEF FatSectors
<1>3. \A s \in Slots : RootSector(s) \in Sectors
  BY Layout DEF RootSectors
<1>4. FloppyFat \in [Entries -> FatValues] /\ FloppyRoot \in [Slots -> FileType]
  BY <1>1, <1>2, <1>3 DEF FloppyFat, FloppyRoot, FatOf, RootOf, DiskTyped, SectorTyped
<1> QED
  BY <1>4 DEF FileInv, TableInv, CallInv, FloppyTables

InfoIsThere == \A x \in Info : x \in DOMAIN cache.buffer

LEMMA InfoThere == FileInv /\ SaveInv /\ pc = "info" => InfoIsThere
BY InfoIsKept DEF SaveInv, InfoIsThere

(* Steps that change neither FAT nor directory                             *)
LEMMA FloppySame ==
    ASSUME FloppyInv, UNCHANGED <<disk, fat, root, unsaved, risk>>,
           pc' = "boot" <=> pc = "boot", Saving' <=> Saving
    PROVE  FloppyInv'
BY DEF FloppyInv, FloppyFat, FloppyRoot

(* Steps after which the promise is off                                    *)
LEMMA FloppyLost ==
    ASSUME FloppyInv, UNCHANGED disk, FreeIsEmpty(root'), risk' = "lost"
    PROVE  FloppyInv'
BY DEF FloppyInv, FloppyFat, FloppyRoot

LEMMA FloppyBoot ==
    ASSUME FileInv, SaveInv, FloppyInv, Boot, FileInv', SaveInv'
    PROVE  FloppyInv'
<1>1. /\ pc = "boot" /\ pc' = "info" /\ UNCHANGED <<disk, call, unsaved, risk>>
      /\ fat' = FatOf(cache'.buffer) /\ root' = RootOf(cache'.buffer)
  BY DEF Boot, fat12_init
<1>2. ~Saving /\ ~Saving' /\ unsaved = FALSE
  BY <1>1 DEF Saving, SaveInv
<1>3. \A x \in Info : cache'.buffer[x] = disk'[x]
  <2>1. FileInv' /\ SaveInv' /\ (pc = "info")' => InfoIsThere'
    BY InfoThere, PTL
  <2>2. InfoIsThere'
    BY <2>1, <1>1
  <2> QED
    BY <2>2, <1>2 DEF SaveInv, InfoIsThere
<1>4. fat' = FloppyFat /\ root' = FloppyRoot /\ FloppyFat' = FloppyFat /\ FloppyRoot' = FloppyRoot
  BY <1>1, <1>3, SameInfo DEF FloppyFat, FloppyRoot
<1>5. Saved(FloppyFat, FloppyRoot, FloppyFat, FloppyRoot)
  BY SavedAsIs, FloppyTyped
<1> HIDE DEF FloppyFat, FloppyRoot
<1>6. CASE risk = "none"
  <2>1. Tight(FloppyFat, FloppyRoot)
    BY <1>2, <1>6 DEF FloppyInv
  <2> QED
    BY <2>1, <1>1, <1>2, <1>4, <1>5, <1>6 DEF FloppyInv
<1>7. CASE risk = "torn"
  BY <1>1, <1>2, <1>4, <1>5, <1>7 DEF FloppyInv
<1>8. CASE risk = "lost"
  BY <1>1, <1>4, <1>8 DEF FloppyInv
<1> QED
  BY <1>6, <1>7, <1>8, FloppyTyped

LEMMA FloppyDevice ==
    ASSUME FileInv, SaveInv, FloppyInv, Device, FileInv'
    PROVE  FloppyInv'
<1>1. /\ UNCHANGED <<fat, root, call, pc, put, unsaved, risk>>
      /\ pc # "boot"
      /\ pc = "info" => Frontier \in Nat
      /\ \A x \in Info :
            disk'[x] = IF Saving /\ x \in Frontier .. Frontier + SECTORS_PER_FD - 1
                       THEN InfoSectors(fat, root)[x] ELSE disk[x]
  BY SaveDevice DEF Device, fatVars
<1>2. Saving' <=> Saving
  BY <1>1 DEF Saving
<1>3. CASE ~Saving
  <2>1. FloppyFat' = FloppyFat /\ FloppyRoot' = FloppyRoot
    BY <1>1, <1>3, SameInfo DEF FloppyFat, FloppyRoot
  <2> QED
    BY <2>1, <1>1, <1>2 DEF FloppyInv
<1>4. CASE Saving
  <2> DEFINE last == Frontier + SECTORS_PER_FD - 1
             d == InfoSectors(fat, root)
  <2>1. \A x \in Info : disk'[x] = IF x \in Frontier .. last THEN d[x] ELSE disk[x]
    BY <1>1, <1>4
  <2>2. Frontier \in Nat /\ last \in Int
    BY <1>1, <1>4, Geometry DEF Saving
  <2>3. \A x \in Info : x \in Nat /\ (~(x >= Frontier) => disk[x] = d[x])
    BY <1>4, SavedPart, Layout DEF Info
  <2> HIDE DEF last, d
  <2>4. ASSUME NEW x \in Info, x \in Frontier .. last, NEW y \in Info, y < x
        PROVE  disk'[y] = d[y]
    BY <2>1, <2>2, <2>3, <2>4
  <2>5. \A x \in FatSectors, y \in RootSectors : x < y
    BY LayoutAssumption
  <2>6. /\ \A c \in Entries : FatSector(c) \in FatSectors /\ FatSector(c) \in Info
        /\ \A s \in Slots : RootSector(s) \in RootSectors /\ RootSector(s) \in Info
    BY DEF FatSectors, RootSectors, Info
  <2>7. FatOf(d) = fat /\ RootOf(d) = root
    BY FloppyTyped, InfoIsBack DEF d
  <2>8. /\ \A c \in Entries : d[FatSector(c)][c] = fat[c]
        /\ \A s \in Slots : d[RootSector(s)][s] = root[s]
    BY <2>7 DEF FatOf, RootOf
  <2>9. /\ \A c \in Entries : FloppyFat[c] = disk[FatSector(c)][c] /\ FloppyFat'[c] = disk'[FatSector(c)][c]
        /\ \A s \in Slots : FloppyRoot[s] = disk[RootSector(s)][s] /\ FloppyRoot'[s] = disk'[RootSector(s)][s]
    BY DEF FloppyFat, FloppyRoot, FatOf, RootOf, Slots, Entries, FatSector, RootSector
  <2>10. \A c \in Entries : FloppyFat'[c] \in {FloppyFat[c], fat[c]}
    BY <2>1, <2>6, <2>8, <2>9
  <2>11. ASSUME NEW s \in Slots
         PROVE  FloppyRoot'[s] = FloppyRoot[s]
                   \/ (FloppyRoot'[s] = root[s] /\ \A c \in Entries : FloppyFat'[c] = fat[c])
    <3>1. CASE RootSector(s) \in Frontier .. last
      <4>1. FloppyRoot'[s] = root[s]
        BY <2>1, <2>6, <2>8, <2>9, <3>1
      <4>2. ASSUME NEW c \in Entries PROVE FloppyFat'[c] = fat[c]
        <5>1. FatSector(c) < RootSector(s)
          BY <2>5, <2>6
        <5>2. disk'[FatSector(c)] = d[FatSector(c)]
          BY <2>4, <2>6, <3>1, <5>1
        <5> QED
          BY <5>2, <2>8, <2>9
      <4> QED
        BY <4>1, <4>2
    <3>2. CASE RootSector(s) \notin Frontier .. last
      BY <2>1, <2>6, <2>9, <3>2
    <3> QED
      BY <3>1, <3>2
  <2>12. /\ FloppyFat' \in [Entries -> FatValues] /\ FloppyRoot' \in [Slots -> FileType]
         /\ FloppyFat \in [Entries -> FatValues] /\ FloppyRoot \in [Slots -> FileType]
         /\ root \in [Slots -> FileType]
    <3>1. FileInv' => FloppyTables'
      BY FloppyTyped, PTL
    <3>2. FloppyTables'
      BY <3>1
    <3> QED
      BY <3>2, FloppyTyped DEF FloppyTables
  <2> HIDE DEF FloppyFat, FloppyRoot
  <2>13. FreeIsEmpty(FloppyRoot')
    BY <2>11, Zenon DEF FloppyInv, FreeIsEmpty
  <2>14. risk = "none" /\ unsaved = FALSE => Follows(fat, root, FloppyFat', FloppyRoot')
    <3>1. SUFFICES ASSUME risk = "none", unsaved = FALSE
                   PROVE  Follows(fat, root, FloppyFat', FloppyRoot')
      OBVIOUS
    <3>2. Tight(fat, root) /\ Follows(fat, root, FloppyFat, FloppyRoot)
      BY <3>1, <1>1, <1>4 DEF FloppyInv
    <3> QED
      BY <3>2, <2>10, <2>11, <2>12, WrittenFollows
  <2> QED
    BY <2>13, <2>14, <1>1, <1>2, <1>4 DEF FloppyInv
<1> QED
  BY <1>3, <1>4

LEMMA FloppyReturn ==
    ASSUME FileInv, SaveInv, FloppyInv, set_info_return
    PROVE  FloppyInv'
<1>1. /\ pc = "info" /\ pc' \in {"idle", "rw"} /\ unsaved' = FALSE
      /\ UNCHANGED <<disk, fat, root, call, risk>>
  BY DEF set_info_return
<1>2. ~Saving'
  BY <1>1 DEF Saving
<1>3. CASE ~Saving
  <2>1. unsaved = FALSE
    BY <1>1, <1>3 DEF Saving, SaveInv
  <2> QED
    BY <2>1, <1>1, <1>2, <1>3, FloppySame
<1>4. CASE Saving
  <2>1. \A x \in Info : disk[x] = InfoSectors(fat, root)[x]
    BY <1>4, SaveReturn
  <2>2. FloppyFat = fat /\ FloppyRoot = root
    BY <2>1, InfoIsBack, FloppyTyped DEF FloppyFat, FloppyRoot
  <2>3. FloppyFat' = fat' /\ FloppyRoot' = root'
    BY <2>2, <1>1 DEF FloppyFat, FloppyRoot
  <2>4. Saved(fat, root, fat, root)
    BY SavedAsIs, FloppyTyped
  <2>5. CASE risk = "none"
    BY <2>3, <2>4, <2>5, <1>1, <1>2 DEF FloppyInv
  <2>6. CASE risk = "lost"
    BY <2>3, <2>6, <1>1 DEF FloppyInv
  <2>7. risk # "torn"
    BY <1>4 DEF FloppyInv
  <2> QED
    BY <2>5, <2>6, <2>7, FloppyTyped
<1> QED
  BY <1>3, <1>4

LEMMA FloppyPower ==
    ASSUME FileInv, SaveInv, FloppyInv, PowerFails
    PROVE  FloppyInv'
<1>1. /\ UNCHANGED disk /\ pc' = "boot" /\ call' = NoCall /\ unsaved' = FALSE
      /\ root' = [s \in Slots |-> NoFile]
      /\ risk' = IF unsaved THEN "lost"
                 ELSE IF Saving /\ risk = "none" THEN "torn" ELSE risk
  BY DEF PowerFails, Saving
<1>2. FloppyFat' = FloppyFat /\ FloppyRoot' = FloppyRoot
  BY <1>1 DEF FloppyFat, FloppyRoot
<1>3. FreeIsEmpty(root')
  BY <1>1 DEF FreeIsEmpty
<1>4. ~Saving'
  BY <1>1 DEF Saving
<1>5. risk \in {"none", "torn", "lost"} /\ unsaved \in BOOLEAN
  BY FloppyTyped
<1>6. CASE risk' = "lost"
  BY <1>1, <1>3, <1>6, FloppyLost
<1>7. CASE risk' = "torn" /\ Saving /\ unsaved = FALSE /\ risk = "none"
  <2>1. pc # "boot"
    BY <1>7 DEF Saving
  <2>2. Tight(fat, root) /\ Follows(fat, root, FloppyFat, FloppyRoot)
    BY <2>1, <1>7 DEF FloppyInv
  <2>3. Whole(FloppyFat, FloppyRoot)
    BY <2>2, TightIsWhole, FollowsIsWhole, FloppyTyped
  <2> QED
    BY <2>3, <1>1, <1>2, <1>3, <1>4, <1>7 DEF FloppyInv
<1>8. CASE risk' = risk /\ risk # "lost" /\ unsaved = FALSE /\ ~(Saving /\ risk = "none")
  BY <1>1, <1>2, <1>3, <1>4, <1>5, <1>8 DEF FloppyInv
<1> QED
  BY <1>1, <1>5, <1>6, <1>7, <1>8

LEMMA FloppyFirst ==
    ASSUME Init
    PROVE  FloppyInv
<1>1. /\ disk = DISK /\ pc = "boot" /\ risk = "none" /\ unsaved = FALSE
      /\ root = [s \in Slots |-> NoFile]
  BY DEF Init
<1>2. FreeIsEmpty(root)
  BY <1>1 DEF FreeIsEmpty
<1>3. ~Saving
  BY <1>1 DEF Saving
<1>4. FreeIsEmpty(FloppyRoot)
  BY <1>1, FloppyAtFirstAssumption, Zenon DEF FreeIsEmpty, FloppyRoot
<1>5. Tight(FloppyFat, FloppyRoot)
  <2>1. FatOf(DISK)[0] # 0 /\ FatOf(DISK)[1] # 0 /\ Exact(FatOf(DISK), RootOf(DISK))
    BY FloppyAtFirstAssumption
  <2>2. RootOf(DISK) \in [Slots -> FileType]
    BY FormatAssumption
  <2> QED
    BY <2>1, <2>2, <1>1, ExactIsTight DEF FloppyFat, FloppyRoot
<1> QED
  BY <1>1, <1>2, <1>3, <1>4, <1>5 DEF FloppyInv

(* A size in memory that needs no other clusters                           *)
LEMMA FloppyInPlace ==
    ASSUME FileInv, SaveInv, FloppyInv,
           NEW op \in {"read", "write"}, NEW s \in Slots, NEW offset \in Nat, NEW len \in Nat, NEW byte,
           pc = "idle", root[s].cluster \in DataClusters,
           RwInPlace(op, s, offset, len, byte)
    PROVE  FloppyInv'
<1> DEFINE end == offset + len
           q == [root EXCEPT ![s].size = end]
<1>1. /\ UNCHANGED <<disk, fat, unsaved, risk>> /\ pc' = "rw"
      /\ \/ root' = root
         \/ root' = q /\ end > root[s].size /\ Grows(s, end) = 0
  <2>1. /\ UNCHANGED <<disk, fat, unsaved, risk>> /\ pc' = "rw"
        /\ root' = IF end > root[s].size THEN q ELSE root
        /\ end <= root[s].size \/ Grows(s, end) = 0
    BY DEF RwInPlace, Start
  <2>2. end \in Nat /\ root[s].size \in Nat
    BY FloppyTyped, NatSum, SizeFacts
  <2> HIDE DEF end, q
  <2> QED
    BY <2>1, <2>2
<1>2. ~Saving /\ ~Saving'
  BY <1>1 DEF Saving
<1>3. CASE root' = root
  BY <1>1, <1>2, <1>3, FloppySame
<1>4. CASE root' = q /\ end > root[s].size /\ Grows(s, end) = 0
  <2>1. root \in [Slots -> FileType] /\ FloppyRoot \in [Slots -> FileType] /\ end \in Nat
        /\ root[s].size \in Nat
    BY FloppyTyped, NatSum, SizeFacts
  <2>2. s \in Used(root)
    BY ClusterIsUsed DEF FloppyInv
  <2>3. /\ q \in [Slots -> FileType] /\ Used(q) = Used(root)
        /\ q[s].name = root[s].name /\ q[s].cluster = root[s].cluster /\ q[s].size = end
        /\ \A t \in Slots : t # s => q[t] = root[t]
        /\ FreeIsEmpty(root) => FreeIsEmpty(q)
    <3>1. q = WithSize(root, s, end)
      BY DEF WithSize
    <3> HIDE DEF q, end
    <3> QED
      BY <2>1, <2>2, <3>1, Resized
  <2>4. Size(q[s]) = Size(root[s])
    <3>1. Needed(end) - Needed(root[s].size) = 0
      BY <1>4 DEF Grows
    <3>2. Needed(end) \in Nat /\ Needed(root[s].size) \in Nat
      BY <2>1, NeededFacts
    <3> HIDE DEF q, end
    <3> QED
      BY <2>3, <3>1, <3>2 DEF Size
  <2> HIDE DEF q, end
  <2>5. ASSUME NEW t \in Used(root)
        PROVE  /\ q[t].name = root[t].name /\ q[t].cluster = root[t].cluster
               /\ q[t].size >= root[t].size /\ Size(q[t]) = Size(root[t])
    <3>1. CASE t = s
      BY <3>1, <2>1, <2>3, <2>4, <1>4
    <3>2. CASE t # s
      <4>1. t \in Slots /\ root[t].size \in Nat
        BY <2>1, UsedIsSlots, SizeFacts
      <4>2. q[t] = root[t]
        BY <3>2, <4>1, <2>3
      <4> QED
        BY <4>1, <4>2
    <3> QED
      BY <3>1, <3>2
  <2>6. /\ Tight(fat, root) => Tight(fat, q)
        /\ Whole(fat, root) => Whole(fat, q)
    BY <2>3, <2>5, SameNeeds
  <2>7. Saved(fat, root, FloppyFat, FloppyRoot) => Saved(fat, q, FloppyFat, FloppyRoot)
    BY <2>1, <2>3, <2>5, SavedInPlace
  <2>8. FreeIsEmpty(q)
    BY <2>3 DEF FloppyInv
  <2>9. FloppyFat' = FloppyFat /\ FloppyRoot' = FloppyRoot
    BY <1>1 DEF FloppyFat, FloppyRoot
  <2>10. pc # "boot" /\ pc' # "boot"
    BY <1>1
  <2> QED
    BY <1>1, <1>2, <1>4, <2>3, <2>6, <2>7, <2>8, <2>9, <2>10 DEF FloppyInv
<1> QED
  BY <1>1, <1>3, <1>4

(* A file grows.                                                           *)
LEMMA FloppyGrows ==
    ASSUME FileInv, SaveInv, FloppyInv,
           NEW op \in {"read", "write"}, NEW s \in Slots, NEW offset \in Nat, NEW len \in Nat, NEW byte,
           pc = "idle", root[s].cluster \in DataClusters,
           RwGrows(op, s, offset, len, byte)
    PROVE  FloppyInv'
<1> DEFINE end == offset + len
           n == Grows(s, end)
           a == Appended(fat, Last(Chain(fat, root[s].cluster)), n)
           q == [root EXCEPT ![s].size = end]
<1>1. /\ root \in [Slots -> FileType] /\ FloppyRoot \in [Slots -> FileType] /\ end \in Nat
      /\ root[s].size \in Nat /\ fat \in [Entries -> FatValues]
      /\ risk \in {"none", "torn", "lost"}
  BY FloppyTyped, NatSum, SizeFacts
<1>2. end > root[s].size /\ n # 0
  BY DEF RwGrows
<1>3. n \in Nat
  BY <1>1, <1>2, GrowsByAClusterOrMore DEF FileInv
<1>4. CASE a.wild
  <2>1. UNCHANGED <<disk, root>> /\ risk' = "lost"
    BY <1>4 DEF RwGrows, Stop
  <2> QED
    BY <2>1, FloppyLost DEF FloppyInv
<1>5. CASE ~a.wild
  <2>1. /\ UNCHANGED <<disk, unsaved>> /\ pc' = "info" /\ call' # NoCall
        /\ fat' = a.fat /\ root' = q
        /\ risk' = IF a.full \/ risk # "none" THEN "lost" ELSE risk
    BY <1>5, CallIsOne DEF RwGrows, Start
  <2>2. s \in Used(root)
    BY ClusterIsUsed DEF FloppyInv
  <2>3. /\ q \in [Slots -> FileType] /\ Used(q) = Used(root)
        /\ q[s].name = root[s].name /\ q[s].cluster = root[s].cluster /\ q[s].size = end
        /\ \A t \in Slots : t # s => q[t] = root[t]
        /\ FreeIsEmpty(root) => FreeIsEmpty(q)
    <3>1. q = WithSize(root, s, end)
      BY DEF WithSize
    <3> HIDE DEF q, end
    <3> QED
      BY <1>1, <2>2, <3>1, Resized
  <2>4. FreeIsEmpty(q)
    BY <2>3 DEF FloppyInv
  <2>5. Size(q[s]) = Size(root[s]) + n
    <3>1. n = Needed(end) - Needed(root[s].size)
      BY DEF Grows
    <3>2. Needed(end) \in Nat /\ Needed(root[s].size) \in Nat
      BY <1>1, NeededFacts
    <3> HIDE DEF q, end, n
    <3> QED
      BY <2>3, <3>1, <3>2 DEF Size
  <2> HIDE DEF q, end, n
  <2>6. CASE risk' = "lost"
    BY <2>1, <2>4, <2>6, FloppyLost
  <2>7. CASE risk' = "none" /\ risk = "none" /\ ~a.full
    <3>1. ~Saving /\ Saving' /\ pc # "boot"
      BY <2>1 DEF Saving
    <3>2. Tight(fat, root)
      BY <2>7, <3>1 DEF FloppyInv
    <3> DEFINE c == root[s].cluster
               k == Size(root[s])
    <3>3. Chained(fat, c, k) /\ fat[0] # 0 /\ fat[1] # 0
      BY <2>2, <3>2 DEF Tight
    <3>4. Last(Chain(fat, c)) = Steps(fat, c)[k - 1]
      BY <3>3, ChainIsPath
    <3>5. a = Appended(fat, Steps(fat, c)[k - 1], n)
      BY <3>4
    <3>6. Grown(fat, c, k, n, a.fat, a.last)
      <4> HIDE DEF a, c, k
      <4>1. ~Appended(fat, Steps(fat, c)[k - 1], n).full
        BY <2>7, <3>5
      <4>2. Grown(fat, c, k, n, Appended(fat, Steps(fat, c)[k - 1], n).fat,
                  Appended(fat, Steps(fat, c)[k - 1], n).last)
        BY <1>1, <1>3, <3>3, <4>1, AppendedGrown
      <4> QED
        BY <3>5, <4>2
    <3> DEFINE h == a.fat
               l == a.last
    <3>7. Grown(fat, c, k, n, h, l)
      BY <3>6
    <3> HIDE DEF a, h, l
    <3>8. OthersSame(root, q, s)
      BY <2>3, UsedIsSlots DEF OthersSame
    <3>9. /\ Tight(h, q)
          /\ \A t \in Used(root) : Agree(fat, h, root[t].cluster, Size(root[t]) - 1)
      <4>1. /\ fat \in [Entries -> FatValues] /\ root \in [Slots -> FileType] /\ Tight(fat, root)
            /\ s \in Used(root) /\ n \in Nat /\ Used(q) = Used(root)
            /\ q[s].cluster = root[s].cluster /\ Size(q[s]) = Size(root[s]) + n
        BY <1>1, <1>3, <2>2, <2>3, <2>5, <3>2
      <4> QED
        BY <4>1, <3>7, <3>8, GrownTight
    <3>10. ASSUME NEW t \in Used(root)
           PROVE  /\ q[t].name = root[t].name /\ q[t].cluster = root[t].cluster
                  /\ q[t].size >= root[t].size
      <4>1. CASE t = s
        BY <4>1, <1>1, <1>2, <2>3 DEF end
      <4>2. CASE t # s
        <5>1. root[t].size \in Nat
          BY <1>1, UsedIsSlots, SizeFacts
        <5> QED
          BY <5>1, <4>2, <3>8 DEF OthersSame
      <4> QED
        BY <4>1, <4>2
    <3>11. unsaved = FALSE => Follows(h, q, FloppyFat, FloppyRoot)
      <4>1. SUFFICES ASSUME unsaved = FALSE PROVE Follows(h, q, FloppyFat, FloppyRoot)
        OBVIOUS
      <4>2. Saved(fat, root, FloppyFat, FloppyRoot)
        BY <4>1, <2>7, <3>1 DEF FloppyInv
      <4> QED
        BY <4>2, <1>1, <2>3, <3>2, <3>9, <3>10, GrownFollows
    <3>12. FloppyFat' = FloppyFat /\ FloppyRoot' = FloppyRoot /\ fat' = h /\ root' = q
      BY <2>1 DEF FloppyFat, FloppyRoot, h
    <3> QED
      BY <2>1, <2>4, <2>7, <3>1, <3>9, <3>11, <3>12 DEF FloppyInv
  <2> QED
    BY <1>1, <2>1, <2>6, <2>7
<1> QED
  BY <1>4, <1>5

LEMMA FloppyRw ==
    ASSUME FileInv, SaveInv, FloppyInv,
           NEW op \in {"read", "write"}, NEW s \in Slots, NEW offset \in Nat, NEW len \in Nat, NEW byte,
           fat12_rw_aux(op, s, offset, len, byte)
    PROVE  FloppyInv'
<1>1. CASE RwWild(s, offset, len)
  BY <1>1, FloppyLost DEF RwWild, Stop, FloppyInv
<1> QED
  BY <1>1, FloppyInPlace, FloppyGrows DEF fat12_rw_aux

LEMMA FloppyCreate ==
    ASSUME FileInv, SaveInv, FloppyInv, NEW n \in NAMES, fat12_create(n)
    PROVE  FloppyInv'
<1> DEFINE c == get_free_fat_entry(fat)
           s == Min(Named(""))
           e == [name |-> n, cluster |-> c, size |-> 0]
           q == [root EXCEPT ![s] = e]
<1>1. /\ UNCHANGED <<disk, call, pc, unsaved>> /\ pc = "idle"
      /\ Named("") # {}
      /\ fat' = Marked(fat, c) /\ root' = q
      /\ risk' = IF c = NO_CLUSTER \/ risk # "none" THEN "lost" ELSE risk
  BY DEF fat12_create
<1>2. root \in [Slots -> FileType] /\ fat \in [Entries -> FatValues]
      /\ risk \in {"none", "torn", "lost"}
  BY FloppyTyped
<1>3. s \in Slots
  BY <1>1, FirstNamed, Zenon
<1>4. s \notin Used(root)
  <2>1. root[s].name = ""
    BY <1>1, FirstNamed, Zenon
  <2> QED
    BY <2>1, Zenon DEF Used
<1>5. n # ""
  BY FileSysAssumption
<1> HIDE DEF s, c
<1>6. q[s] = e /\ \A t \in Slots : t # s => q[t] = root[t]
  BY <1>2, <1>3
<1>7. q[s].name = n /\ q[s].cluster = c /\ q[s].size = 0
  BY <1>6
<1> HIDE DEF q, e
<1>8. FreeIsEmpty(q)
  BY <1>5, <1>6, <1>7, Zenon DEF FloppyInv, FreeIsEmpty
<1>9. Used(q) = Used(root) \cup {s}
  <2>1. \A t \in Slots : t \in Used(q) <=> t = s \/ t \in Used(root)
    BY <1>5, <1>6, <1>7, Zenon DEF Used
  <2> QED
    BY <2>1, <1>3, UsedIsSlots
<1>10. Size(q[s]) = 1
  <2>1. 0 < SECTOR_SIZE
    BY Layout
  <2> QED
    BY <2>1, <1>7, NeededFacts DEF Size
<1>11. OthersSame(root, q, s)
  BY <1>6, UsedIsSlots DEF OthersSame
<1>12. CASE risk' = "lost"
  BY <1>1, <1>8, <1>12, FloppyLost
<1>13. CASE risk' = "none" /\ risk = "none" /\ c # NO_CLUSTER
  <2> DEFINE h == [fat EXCEPT ![c] = EOC]
  <2>1. ~Saving /\ ~Saving' /\ pc # "boot"
    BY <1>1 DEF Saving
  <2>2. Tight(fat, root)
    BY <2>1, <1>13 DEF FloppyInv
  <2>3. c \in Entries /\ fat[c] = 0 /\ Marked(fat, c) = h
    BY <1>2, <1>13, FreeFound DEF c
  <2>4. /\ Tight(h, q)
        /\ \A t \in Used(root) : Agree(fat, h, root[t].cluster, Size(root[t]))
    <3>1. /\ fat \in [Entries -> FatValues] /\ Tight(fat, root) /\ c \in Entries /\ fat[c] = 0
          /\ s \in Slots /\ s \notin Used(root) /\ Used(q) = Used(root) \cup {s}
          /\ q[s].cluster = c /\ Size(q[s]) = 1
      BY <1>2, <1>3, <1>4, <1>7, <1>9, <1>10, <2>2, <2>3
    <3> QED
      BY <3>1, <1>11, CreatedTight
  <2> HIDE DEF h
  <2>5. Saved(fat, root, FloppyFat, FloppyRoot) => Saved(h, q, FloppyFat, FloppyRoot)
    BY <1>2, <1>4, <1>9, <1>10, <1>11, <2>2, <2>4, CreatedSaved
  <2>6. FloppyFat' = FloppyFat /\ FloppyRoot' = FloppyRoot /\ fat' = h
    BY <1>1, <2>3 DEF FloppyFat, FloppyRoot
  <2> QED
    BY <1>1, <1>8, <1>13, <2>1, <2>4, <2>5, <2>6 DEF FloppyInv
<1> QED
  BY <1>1, <1>2, <1>12, <1>13

LEMMA FloppyRemove ==
    ASSUME FileInv, SaveInv, FloppyInv, NEW n \in NAMES, fat12_remove(n)
    PROVE  FloppyInv'
<1> DEFINE first == {root[s].cluster : s \in Named(n)}
           freed == UNION {Range(Chain(fat, c)) : c \in first}
           S == Named(n)
           g == [c \in Entries |-> IF c \in freed THEN 0 ELSE fat[c]]
           q == [s \in Slots |-> IF s \in S THEN NoFile ELSE root[s]]
<1>1. CASE Stop("wild")
  BY <1>1, FloppyLost DEF Stop, FloppyInv
<1>2. CASE ~Stop("wild")
  <2>1. /\ UNCHANGED <<disk, call, pc>> /\ pc = "idle"
        /\ fat' = g /\ root' = q /\ unsaved' = TRUE
        /\ risk' = IF risk # "none" THEN "lost" ELSE risk
    BY <1>2 DEF fat12_remove
  <2>2. root \in [Slots -> FileType] /\ fat \in [Entries -> FatValues]
        /\ risk \in {"none", "torn", "lost"}
    BY FloppyTyped
  <2>3. FreeIsEmpty(q)
    BY Zenon DEF FloppyInv, FreeIsEmpty
  <2>4. CASE risk' = "lost"
    BY <2>1, <2>3, <2>4, FloppyLost
  <2>5. CASE risk' = "none" /\ risk = "none"
    <3>1. ~Saving /\ ~Saving' /\ pc # "boot"
      BY <2>1 DEF Saving
    <3>2. Tight(fat, root)
      BY <2>5, <3>1 DEF FloppyInv
    <3>3. S \in SUBSET Used(root)
      BY FileSysAssumption, Zenon DEF Named, Used
    <3>4. \A s \in S : Range(Chain(fat, root[s].cluster)) = {Way(fat, root[s])[i] : i \in 0 .. Size(root[s]) - 1}
      BY <3>2, <3>3, ChainIsPath DEF Tight, Way
    <3>5. freed = UNION {{Way(fat, root[s])[i] : i \in 0 .. Size(root[s]) - 1} : s \in S}
      <4> HIDE DEF S
      <4>1. freed = UNION {Range(Chain(fat, root[s].cluster)) : s \in S}
        BY DEF S
      <4> DEFINE One(s) == {Way(fat, root[s])[i] : i \in 0 .. Size(root[s]) - 1}
                 Two(s) == Range(Chain(fat, root[s].cluster))
      <4>2. \A s \in S : Two(s) = One(s)
        BY <3>4
      <4> HIDE DEF One, Two
      <4>3. {Two(s) : s \in S} = {One(s) : s \in S}
        BY <4>2
      <4> QED
        BY <4>1, <4>3 DEF One, Two
    <3> HIDE DEF freed, S
    <3>6. Tight(g, q)
      BY <2>2, <3>2, <3>3, <3>5, RemovedTight
    <3> HIDE DEF g, q
    <3>7. FloppyFat' = FloppyFat /\ FloppyRoot' = FloppyRoot
      BY <2>1 DEF FloppyFat, FloppyRoot
    <3> QED
      BY <2>1, <2>3, <2>5, <3>1, <3>6, <3>7 DEF FloppyInv
  <2> QED
    BY <2>1, <2>2, <2>4, <2>5
<1> QED
  BY <1>1, <1>2

LEMMA FloppyStep ==
    ASSUME FileInv, SaveInv, FloppyInv, [Next]_vars, FileInv', SaveInv'
    PROVE  FloppyInv'
<1>1. CASE Boot
  BY <1>1, FloppyBoot
<1>2. CASE Device
  BY <1>2, FloppyDevice
<1>3. CASE CallTurn
  <2>1. CASE set_info_put
    <3>1. UNCHANGED <<disk, fat, root, unsaved, risk>> /\ pc = "info" /\ pc' = pc
      BY <2>1 DEF set_info_put
    <3>2. Saving' <=> Saving
      BY <2>1, SavePut
    <3> QED
      BY <3>1, <3>2, FloppySame
  <2>2. CASE set_info_return
    BY <2>2, FloppyReturn
  <2>3. CASE rw_turn
    <3>1. UNCHANGED <<disk, fat, root, unsaved, risk>> /\ pc = "rw" /\ pc' \in {"rw", "return"}
      BY <2>3 DEF rw_turn
    <3>2. ~Saving /\ ~Saving'
      BY <3>1 DEF Saving
    <3> QED
      BY <3>1, <3>2, FloppySame
  <2>4. CASE rw_wild
    BY <2>4, FloppyLost DEF rw_wild, Stop, FloppyInv
  <2>5. CASE rw_return
    <3>1. UNCHANGED <<disk, fat, root, unsaved, risk>> /\ pc = "return" /\ pc' = "idle"
      BY <2>5 DEF rw_return
    <3>2. ~Saving /\ ~Saving'
      BY <3>1 DEF Saving
    <3> QED
      BY <3>1, <3>2, FloppySame
  <2> QED
    BY <1>3, <2>1, <2>2, <2>3, <2>4, <2>5 DEF CallTurn
<1>4. ASSUME UNCHANGED <<disk, fat, root, unsaved, risk>>, pc = "idle", pc' \notin {"boot", "info"}
      PROVE  FloppyInv'
  <2>1. ~Saving /\ ~Saving'
    BY <1>4 DEF Saving
  <2> QED
    BY <1>4, <2>1, FloppySame
<1>5. ASSUME NEW n \in NAMES, NEW pos \in POSITIONS, sys_open(n, pos)
      PROVE  FloppyInv'
  BY <1>4, <1>5 DEF sys_open, Ready, bufferVars
<1>6. ASSUME NEW d \in Descriptors, NEW len \in LENGTHS,
             \/ sys_read(d, len)
             \/ \E byte \in BYTES : sys_write(d, len, byte)
      PROVE  FloppyInv'
  <2>1. PICK op \in {"read", "write"}, s \in Slots, offset \in Nat, byte \in BYTES \cup {""} :
              fat12_rw_aux(op, s, offset, len, byte)
    BY <1>6, ReadWriteCalls
  <2>2. len \in Nat
    BY FileSysAssumption
  <2> QED
    BY <2>1, <2>2, FloppyRw
<1>7. ASSUME NEW d \in Descriptors, UseWithoutInode(d) \/ CloseBug(d) \/ sys_close(d)
      PROVE  FloppyInv'
  BY <1>4, <1>7 DEF UseWithoutInode, CloseBug, sys_close, Ready, bufferVars
<1>8. CASE ChangeDirectory
  BY <1>8, FloppyCreate, FloppyRemove DEF ChangeDirectory
<1>9. CASE PowerFails
  BY <1>9, FloppyPower
<1>10. CASE UNCHANGED vars
  <2>1. UNCHANGED <<disk, fat, root, call, pc, unsaved, risk>>
    BY <1>10 DEF vars, fatVars, bufferVars
  <2> QED
    BY <2>1, FloppySame DEF Saving
<1> QED
  BY <1>1, <1>2, <1>3, <1>5, <1>6, <1>7, <1>8, <1>9, <1>10 DEF Next, Idle

(* Buffers, memory and floppy go together.                                 *)
StoreInv == FileInv /\ SaveInv /\ FloppyInv

(* The inductive invariant of buffers, memory and floppy.                  *)
THEOREM FloppyInvariance == Spec => []StoreInv
<1>1. Init => StoreInv
  <2>1. Init => First
    BY InitInv DEF Init, First, FileInv, BufferInv
  <2> QED
    BY <2>1, InitInv, SaveFirst, FloppyFirst DEF StoreInv
<1>2. StoreInv /\ [Next]_vars => StoreInv'
  BY NextInv, SaveStep, FloppyStep DEF StoreInv
<1> QED
  BY <1>1, <1>2, PTL DEF Spec

(* At whatever moment the power fails, in a save too, each file in the     *)
(* floppy's directory has all its clusters there, for itself: the save     *)
(* writes the sectors upwards, and the FAT lies before the directory.      *)
THEOREM FloppyIsSound == Spec => []DiskSound
<1>1. ASSUME StoreInv PROVE DiskSound
  <2>1. SUFFICES ASSUME risk # "lost", ~unsaved
                 PROVE  Sound(FloppyFat, FloppyRoot)
    BY DEF DiskSound, FloppyFat, FloppyRoot
  <2>2. /\ FloppyRoot \in [Slots -> FileType] /\ root \in [Slots -> FileType]
        /\ risk \in {"none", "torn"} /\ unsaved = FALSE
    BY <1>1, <2>1, FloppyTyped DEF StoreInv
  <2>3. Whole(FloppyFat, FloppyRoot)
    <3>1. CASE risk = "none" /\ Saving
      <4>1. pc # "boot"
        BY <3>1 DEF Saving
      <4>2. Whole(fat, root) /\ Follows(fat, root, FloppyFat, FloppyRoot)
        BY <1>1, <2>2, <3>1, <4>1, TightIsWhole DEF StoreInv, FloppyInv
      <4> QED
        BY <2>2, <4>2, FollowsIsWhole
    <3>2. CASE risk = "none" /\ ~Saving
      BY <1>1, <2>2, <3>2, TightIsWhole DEF StoreInv, FloppyInv
    <3>3. CASE risk = "torn"
      BY <1>1, <3>3 DEF StoreInv, FloppyInv
    <3> QED
      BY <2>2, <3>1, <3>2, <3>3
  <2> QED
    BY <2>2, <2>3, WholeIsSound
<1> QED
  BY FloppyInvariance, <1>1, PTL

(* Whatever was created, removed, read and written: the FAT has exactly    *)
(* the clusters of the files, none missing, shared or leaked, each chain   *)
(* with its mark, from any floppy that was so at first.                    *)
THEOREM ChainsAreExact == Spec => []ChainsExact
<1>1. ASSUME StoreInv PROVE ChainsExact
  BY <1>1, TightIsExact, FloppyTyped DEF ChainsExact, StoreInv, FloppyInv
<1> QED
  BY FloppyInvariance, <1>1, PTL

(* A call that made a file longer than a sector returns only when its      *)
(* chain and its entry are on the floppy, and what came later does not     *)
(* touch them.                                                             *)
THEOREM GrowthIsOnFloppy == Spec => []GrowthIsSaved
<1>1. ASSUME StoreInv PROVE GrowthIsSaved
  <2>1. SUFFICES ASSUME pc = "idle", risk = "none", ~unsaved,
                        NEW s \in Slots, root[s].size >= SECTOR_SIZE
                 PROVE  /\ FloppyRoot[s].name = root[s].name
                        /\ Needed(FloppyRoot[s].size) = Needed(root[s].size)
                        /\ Chain(FloppyFat, FloppyRoot[s].cluster) = Chain(fat, root[s].cluster)
    BY DEF GrowthIsSaved, FloppyFat, FloppyRoot
  <2>2. /\ root \in [Slots -> FileType] /\ unsaved = FALSE /\ root[s].size \in Nat
    BY <1>1, <2>1, FloppyTyped, SizeFacts DEF StoreInv
  <2>3. ~Saving /\ pc # "boot"
    BY <2>1 DEF Saving
  <2>4. Tight(fat, root) /\ Saved(fat, root, FloppyFat, FloppyRoot) /\ FreeIsEmpty(root)
    BY <1>1, <2>1, <2>2, <2>3 DEF StoreInv, FloppyInv
  <2>5. s \in Used(root)
    <3>1. NoFile.size # root[s].size
      <4>1. NoFile.size = 0
        BY DEF NoFile
      <4> QED
        BY <4>1, <2>1, <2>2, Layout
    <3> QED
      BY <2>4, <3>1, Zenon DEF FreeIsEmpty, Used
  <2>6. s \in Used(FloppyRoot)
    <3>1. Size(root[s]) # 1 /\ Size(root[s]) \in Nat
      BY <2>1, <2>2, NeededFacts DEF Size
    <3> QED
      BY <3>1, <2>4, <2>5 DEF Saved
  <2>7. /\ root[s].name = FloppyRoot[s].name /\ root[s].cluster = FloppyRoot[s].cluster
        /\ Size(FloppyRoot[s]) = Size(root[s])
        /\ Agree(fat, FloppyFat, root[s].cluster, Size(root[s]))
    BY <2>4, <2>6 DEF Saved
  <2>8. Chained(fat, root[s].cluster, Size(root[s]))
    BY <2>4, <2>5 DEF Tight
  <2>9. /\ Chained(FloppyFat, root[s].cluster, Size(root[s]))
        /\ \A i \in 0 .. Size(root[s]) - 1 :
              Steps(FloppyFat, root[s].cluster)[i] = Steps(fat, root[s].cluster)[i]
    BY <2>7, <2>8, SameChain
  <2>10. Chain(FloppyFat, root[s].cluster) = Chain(fat, root[s].cluster)
    <3> DEFINE c == root[s].cluster
               k == Size(root[s])
    <3>1. /\ Chain(FloppyFat, c) = [n \in 1 .. k |-> Steps(FloppyFat, c)[n - 1]]
          /\ Chain(fat, c) = [n \in 1 .. k |-> Steps(fat, c)[n - 1]]
      <4>1. Chained(FloppyFat, c, k) /\ Chained(fat, c, k)
        BY <2>8, <2>9
      <4> HIDE DEF c, k
      <4>2. Chain(FloppyFat, c) = [n \in 1 .. k |-> Steps(FloppyFat, c)[n - 1]]
        BY <4>1, ChainIsPath
      <4>3. Chain(fat, c) = [n \in 1 .. k |-> Steps(fat, c)[n - 1]]
        BY <4>1, ChainIsPath
      <4> QED
        BY <4>2, <4>3
    <3>2. k \in Nat
      BY <2>2, SizeFacts
    <3>3. \A i \in 0 .. k - 1 : Steps(FloppyFat, c)[i] = Steps(fat, c)[i]
      BY <2>9
    <3> HIDE DEF k, c
    <3>4. \A n \in 1 .. k : n - 1 \in 0 .. k - 1
      BY <3>2
    <3>5. \A n \in 1 .. k : Steps(FloppyFat, c)[n - 1] = Steps(fat, c)[n - 1]
      BY <3>3, <3>4
    <3>6. Chain(FloppyFat, c) = Chain(fat, c)
      BY <3>1, <3>5
    <3> QED
      BY <3>6 DEF c
  <2> QED
    BY <2>7, <2>10 DEF Size
<1> QED
  BY FloppyInvariance, <1>1, PTL

(***************************************************************************)
(* The files as FileStore sees them                                        *)
(***************************************************************************)
(* Byte i of a file is byte ByteOf(i) of its cluster PlaceOf(i).           *)
PlaceOf(i) == (i - 1) \div SECTOR_SIZE
ByteOf(i) == ((i - 1) % SECTOR_SIZE) + 1

LEMMA BytePlace ==
    ASSUME NEW i \in Nat \ {0}
    PROVE  /\ PlaceOf(i) \in Nat /\ ByteOf(i) \in 1 .. SECTOR_SIZE
           /\ PlaceOf(i) * SECTOR_SIZE \in Nat
           /\ i = PlaceOf(i) * SECTOR_SIZE + ByteOf(i)
<1> DEFINE S == SECTOR_SIZE
           j == i - 1
<1>1. S \in Nat \ {0} /\ j \in Nat /\ j \in Int
  BY Layout
<1> HIDE DEF j, S
<1>2. j \div S \in Nat /\ (j \div S) * S \in Nat
  BY <1>1, DivNat
<1>3. j % S = j - (j \div S) * S /\ j % S \in 0 .. S - 1
  BY <1>1, DivBounds
<1> DEFINE q == j \div S
           m == q * S
           r == j % S
<1>4. q \in Nat /\ m \in Nat /\ r = j - m /\ r \in 0 .. S - 1
  BY <1>2, <1>3
<1>5. PlaceOf(i) = q /\ ByteOf(i) = r + 1 /\ PlaceOf(i) * SECTOR_SIZE = m
  BY DEF PlaceOf, ByteOf, j, S
<1> HIDE DEF q, m, r
<1>6. i = m + (r + 1) /\ r + 1 \in 1 .. S
  BY <1>1, <1>4 DEF j
<1> QED
  BY <1>4, <1>5, <1>6 DEF S

LEMMA PlaceIs ==
    ASSUME NEW k \in Nat, NEW b \in 1 .. SECTOR_SIZE
    PROVE  /\ k * SECTOR_SIZE + b \in Nat \ {0}
           /\ PlaceOf(k * SECTOR_SIZE + b) = k
           /\ ByteOf(k * SECTOR_SIZE + b) = b
<1> DEFINE S == SECTOR_SIZE
           m == k * S
           i == m + b
<1>1. S \in Nat \ {0} /\ m \in Nat /\ b \in Nat /\ b >= 1 /\ b <= S
  BY Layout
<1>2. i \in Nat \ {0}
  BY <1>1
<1> HIDE DEF S
<1>3. m <= i - 1 /\ i - 1 < m + S /\ i - 1 \in Int
  BY <1>1
<1>4. (i - 1) \div S = k
  BY <1>1, <1>3, DivUnique
<1>5. (i - 1) % S = (i - 1) - ((i - 1) \div S) * S
  BY <1>1, <1>3, DivBounds
<1>6. (i - 1) % S = b - 1
  BY <1>1, <1>4, <1>5
<1>7. ((i - 1) % S) + 1 = b
  BY <1>6, <1>1
<1> QED
  BY <1>2, <1>4, <1>7 DEF PlaceOf, ByteOf, S

LEMMA PlaceInFile ==
    ASSUME NEW n \in Nat, NEW i \in 1 .. n
    PROVE  /\ i \in Nat \ {0}
           /\ PlaceOf(i) \in 0 .. Needed(n) - 1
           /\ n \div SECTOR_SIZE = Needed(n) - 1
<1> DEFINE S == SECTOR_SIZE
<1>1. S \in Nat \ {0} /\ i \in Nat \ {0} /\ i - 1 \in Int /\ i - 1 <= n /\ n \in Int /\ 1 \in Int
  BY Layout
<1> HIDE DEF S
<1>2. (1 * S + n) \div S = 1 + n \div S
  BY <1>1, DivShift
<1>3. 1 * S + n = n + S
  BY <1>1
<1>4. (i - 1) \div S <= n \div S
  BY <1>1, DivMono
<1>5. n \div S \in Nat
  BY <1>1, DivNat
<1>6. Needed(n) = 1 + n \div S
  BY <1>2, <1>3 DEF Needed, S
<1>7. PlaceOf(i) \in Nat /\ PlaceOf(i) = (i - 1) \div S
  BY <1>1, BytePlace DEF PlaceOf, S
<1> QED
  BY <1>1, <1>4, <1>5, <1>6, <1>7 DEF S

Cell(f, file, look, i) == look[Way(f, file)[PlaceOf(i)]][ByteOf(i)]
Seen(f, r, look) ==
    [s \in Slots |-> [name |-> r[s].name,
                      data |-> [i \in 1 .. r[s].size |-> Cell(f, r[s], look, i)]]]

(* What a read would find in a cluster, and what is on the floppy for it.  *)
Look == [c \in DataClusters |-> Content(DataSector(c))]
Under == [c \in DataClusters |-> disk[DataSector(c)]]

LEMMA ChainStart ==
    ASSUME NEW f, NEW c, NEW k, Path(f, c, k), NEW n \in 1 .. k
    PROVE  n \in DOMAIN Chain(f, c) /\ Chain(f, c)[n] = Steps(f, c)[n - 1]
<1> DEFINE step == Steps(f, c)
           ends == {j \in 0 .. CLUSTERS : j = CLUSTERS \/ step[j] \notin DataClusters}
           m == Min(ends)
<1>1. /\ CLUSTERS \in Nat /\ k \in 0 .. CLUSTERS /\ k \in Nat
      /\ \A i \in 0 .. k - 1 : step[i] \in DataClusters
  BY Layout DEF Path
<1>2. m \in ends
  <2>1. ends \in SUBSET Nat /\ CLUSTERS \in ends
    BY <1>1
  <2> HIDE DEF ends
  <2> QED
    BY <2>1, MinElement
<1> HIDE DEF step
<1>3. m \in Nat /\ k <= m
  <2>1. m \in 0 .. CLUSTERS /\ (m = CLUSTERS \/ step[m] \notin DataClusters)
    BY <1>2
  <2> HIDE DEF m
  <2> QED
    BY <2>1, <1>1
<1>4. Chain(f, c) = [j \in 1 .. m |-> step[j - 1]]
  BY DEF Chain, step
<1> HIDE DEF m
<1>5. n \in 1 .. m
  BY <1>1, <1>3
<1> QED
  BY <1>4, <1>5 DEF step

LEMMA FilesSeen ==
    ASSUME NEW f, NEW r \in [Slots -> FileType], Whole(f, r), FreeIsEmpty(r)
    PROVE  [s \in Slots |-> FileIn(f, r[s])] = Seen(f, r, Look)
<1>1. ASSUME NEW s \in Slots
      PROVE  [i \in 1 .. r[s].size |-> ByteAt(Chain(f, r[s].cluster), i - 1)]
                = [i \in 1 .. r[s].size |-> Cell(f, r[s], Look, i)]
  <2>1. CASE s \in Used(r)
    <3>1. Path(f, r[s].cluster, Size(r[s])) /\ r[s].size \in Nat
      BY <2>1, SizeFacts DEF Whole
    <3>2. ASSUME NEW i \in 1 .. r[s].size
          PROVE  ByteAt(Chain(f, r[s].cluster), i - 1) = Cell(f, r[s], Look, i)
      <4> DEFINE p == PlaceOf(i)
                 chain == Chain(f, r[s].cluster)
      <4>1. p \in 0 .. Size(r[s]) - 1 /\ p \in Nat /\ Size(r[s]) \in Nat
        BY <3>1, PlaceInFile, SizeFacts DEF Size
      <4>2. p + 1 \in 1 .. Size(r[s]) /\ (p + 1) - 1 = p
        BY <4>1
      <4> HIDE DEF p
      <4>3. p + 1 \in DOMAIN chain /\ chain[p + 1] = Steps(f, r[s].cluster)[p]
        BY <3>1, <4>2, ChainStart
      <4>4. Steps(f, r[s].cluster)[p] \in DataClusters
        BY <3>1, <4>1 DEF Path
      <4> HIDE DEF chain
      <4>5. ByteAt(chain, i - 1) = Content(DataSector(chain[p + 1]))[ByteOf(i)]
        BY <4>3 DEF ByteAt, p, PlaceOf, ByteOf
      <4>6. Cell(f, r[s], Look, i) = Look[Steps(f, r[s].cluster)[p]][ByteOf(i)]
        BY DEF Cell, Way, p
      <4> QED
        BY <4>3, <4>4, <4>5, <4>6 DEF Look, chain
    <3> QED
      BY <3>2
  <2>2. CASE s \notin Used(r)
    <3>1. r[s].size = 0
      <4>1. r[s] = NoFile
        BY <2>2, Zenon DEF FreeIsEmpty, Used
      <4>2. NoFile.size = 0
        BY DEF NoFile
      <4> QED
        BY <4>1, <4>2
    <3> QED
      BY <3>1
  <2> QED
    BY <2>1, <2>2
<1> QED
  BY <1>1, Zenon DEF FileIn, Seen

(* The directory that counts has all its clusters in the FAT that counts,  *)
(* and the floppy is not ahead of them.                                    *)
NowSound ==
    /\ FatNow \in [Entries -> FatValues] /\ RootNow \in [Slots -> FileType]
    /\ Whole(FatNow, RootNow) /\ FreeIsEmpty(RootNow)

LEMMA NowIsSound ==
    ASSUME StoreInv, risk # "lost"
    PROVE  /\ NowSound
           /\ unsaved = FALSE => Follows(FatNow, RootNow, FloppyFat, FloppyRoot)
<1>1. /\ FileInv /\ SaveInv /\ FloppyInv
      /\ FloppyFat \in [Entries -> FatValues] /\ FloppyRoot \in [Slots -> FileType]
      /\ fat \in [Entries -> FatValues] /\ root \in [Slots -> FileType]
      /\ risk \in {"none", "torn"}
  BY FloppyTyped DEF StoreInv
<1>2. FatNow = (IF pc = "boot" THEN FloppyFat ELSE fat) /\ RootNow = IF pc = "boot" THEN FloppyRoot ELSE root
  BY DEF FatNow, RootNow, FloppyFat, FloppyRoot
<1>3. Whole(FatNow, RootNow)
  <2>1. CASE pc = "boot"
    <3>1. ~Saving /\ unsaved = FALSE
      BY <1>1, <2>1 DEF Saving, SaveInv
    <3> QED
      BY <1>1, <1>2, <2>1, <3>1, TightIsWhole DEF FloppyInv
  <2>2. CASE pc # "boot" /\ risk = "none"
    BY <1>1, <1>2, <2>2, TightIsWhole DEF FloppyInv
  <2>3. CASE pc # "boot" /\ risk = "torn"
    <3>1. /\ fat = FloppyFat /\ Used(root) = Used(FloppyRoot) /\ Whole(FloppyFat, FloppyRoot)
          /\ Saved(fat, root, FloppyFat, FloppyRoot)
      BY <1>1, <2>3 DEF FloppyInv
    <3>2. \A s \in Used(FloppyRoot) :
             root[s].cluster = FloppyRoot[s].cluster /\ Size(root[s]) = Size(FloppyRoot[s])
      BY <3>1 DEF Saved
    <3>3. Whole(FloppyFat, root)
      BY <3>1, <3>2, SameNeeds
    <3> QED
      BY <1>2, <2>3, <3>1, <3>3
  <2> QED
    BY <1>1, <2>1, <2>2, <2>3
<1>4. FreeIsEmpty(RootNow)
  BY <1>1, <1>2 DEF FloppyInv
<1>5. unsaved = FALSE => Follows(FatNow, RootNow, FloppyFat, FloppyRoot)
  <2>1. SUFFICES ASSUME unsaved = FALSE
                 PROVE  Follows(FatNow, RootNow, FloppyFat, FloppyRoot)
    OBVIOUS
  <2>2. CASE pc = "boot"
    BY <1>1, <1>2, <2>2, SavedAsIs, SavedFollows
  <2>3. CASE pc # "boot" /\ risk = "none" /\ Saving
    BY <1>1, <1>2, <2>1, <2>3 DEF FloppyInv
  <2>4. CASE pc # "boot" /\ ~(risk = "none" /\ Saving)
    <3>1. Saved(fat, root, FloppyFat, FloppyRoot)
      BY <1>1, <2>1, <2>4 DEF FloppyInv
    <3> QED
      BY <1>1, <1>2, <2>4, <3>1, SavedFollows
  <2> QED
    BY <2>2, <2>3, <2>4
<1> QED
  BY <1>1, <1>2, <1>3, <1>4, <1>5 DEF NowSound

FilesNow == Files = Seen(FatNow, RootNow, Look)

LEMMA FilesAre == StoreInv /\ risk # "lost" => NowSound /\ FilesNow
<1>1. SUFFICES ASSUME StoreInv, risk # "lost" PROVE NowSound /\ FilesNow
  OBVIOUS
<1>2. NowSound
  BY <1>1, NowIsSound
<1>3. Files = [s \in Slots |-> FileIn(FatNow, RootNow[s])]
  BY DEF Files
<1> QED
  BY <1>2, <1>3, FilesSeen DEF NowSound, FilesNow

(***************************************************************************)
(* What is in the clusters                                                 *)
(***************************************************************************)
LEMMA DataSectors ==
    /\ \A c \in DataClusters : c \in Nat /\ DataSector(c) \in Sectors /\ DataSector(c) \notin Info
    /\ \A c, e \in DataClusters : DataSector(c) = DataSector(e) => c = e
<1>1. \A s \in Info : s \in Nat /\ s < DATA_START_SECT
  BY Layout DEF Info
<1>2. DATA_START_SECT \in Nat /\ CLUSTERS \in Nat
  BY Layout
<1>3. \A c \in DataClusters : /\ c \in Nat /\ DataSector(c) \in Nat /\ DataSector(c) \in Sectors
                              /\ DataSector(c) >= DATA_START_SECT
  BY <1>2, Layout DEF DataClusters
<1>4. \A c, e \in DataClusters : DataSector(c) = DataSector(e) => c = e
  BY <1>2, <1>3 DEF DataSector
<1> QED
  BY <1>1, <1>2, <1>3, <1>4

(* Buffers g and h with the same data                                      *)
SameData(g, h) ==
    \A c \in DataClusters :
        /\ DataSector(c) \in DOMAIN g <=> DataSector(c) \in DOMAIN h
        /\ DataSector(c) \in DOMAIN h => g[DataSector(c)] = h[DataSector(c)]

LEMMA LookKept ==
    ASSUME UNCHANGED disk, cache'.buffer = cache.buffer
    PROVE  Look' = Look /\ Under' = Under
BY DEF Look, Under, Content

(* Blocks that are got are as the floppy is.                               *)
LEMMA LookMore ==
    ASSUME CacheOK(cache), NEW c, More(c), UNCHANGED disk, SameData(cache'.buffer, c.buffer)
    PROVE  Look' = Look /\ Under' = Under
<1>1. ASSUME NEW e \in DataClusters
      PROVE  Content(DataSector(e))' = Content(DataSector(e))
  <2> DEFINE x == DataSector(e)
  <2>1. DOMAIN cache.buffer \subseteq DOMAIN c.buffer
    BY DEF More, CacheOK
  <2>2. /\ x \in DOMAIN cache'.buffer <=> x \in DOMAIN c.buffer
        /\ x \in DOMAIN c.buffer => cache'.buffer[x] = c.buffer[x]
    BY DEF SameData
  <2>3. x \in DOMAIN c.buffer => c.buffer[x] = IF x \in DOMAIN cache.buffer THEN cache.buffer[x] ELSE disk[x]
    BY DEF More
  <2>4. (Content(x))' = IF x \in DOMAIN cache'.buffer THEN cache'.buffer[x] ELSE disk[x]
    BY DEF Content
  <2>5. Content(x) = IF x \in DOMAIN cache.buffer THEN cache.buffer[x] ELSE disk[x]
    BY DEF Content
  <2> HIDE DEF x
  <2>6. (Content(x))' = Content(x)
    BY <2>1, <2>2, <2>3, <2>4, <2>5
  <2> QED
    BY <2>6 DEF x
<1>2. Look' = [e \in DataClusters |-> (Content(DataSector(e)))']
  BY DEF Look
<1>3. Look' = Look
  BY <1>1, <1>2 DEF Look
<1> QED
  BY <1>3 DEF Under

(* A transfer to the floppy makes nothing visible.                         *)
LEMMA LookDevice ==
    ASSUME FileInv, Device
    PROVE  /\ Look' = Look
           /\ \A c \in DataClusters : Under'[c] \in {Under[c], Look[c]}
<1>1. syc \in SycType /\ syc.block \in Kept(cache) /\ UNCHANGED cache /\ CacheOK(cache)
  BY DEF Device, SycTurn, FileInv, BufferInv, SycOK
<1> DEFINE first == FirstOf(syc)
<1>2. disk' = [s \in Sectors |-> IF s \in first .. first + SECTORS_PER_FD - 1
                                 THEN cache.buffer[s] ELSE disk[s]]
  BY <1>1, TurnWritesItsSectors DEF Device
<1>3. \A s \in first .. first + SECTORS_PER_FD - 1 : s \in DOMAIN cache.buffer
  <2>1. first \in Nat /\ \A n \in 0 .. SECTORS_PER_FD - 1 : first + n \in SectorsOf(syc.block)
    BY <1>1, TurnPlace
  <2> HIDE DEF first
  <2>2. \A s \in first .. first + SECTORS_PER_FD - 1 :
           s - first \in 0 .. SECTORS_PER_FD - 1 /\ first + (s - first) = s
    BY <2>1, Geometry
  <2>3. SectorsOf(syc.block) \subseteq DOMAIN cache.buffer
    BY <1>1 DEF CacheOK
  <2> QED
    BY <2>1, <2>2, <2>3
<1> HIDE DEF first
<1>4. ASSUME NEW c \in DataClusters
      PROVE  /\ (Content(DataSector(c)))' = Content(DataSector(c))
             /\ disk'[DataSector(c)] \in {disk[DataSector(c)], Content(DataSector(c))}
  <2> DEFINE x == DataSector(c)
  <2>1. x \in Sectors
    BY DataSectors
  <2> HIDE DEF x
  <2>2. disk'[x] = IF x \in first .. first + SECTORS_PER_FD - 1 THEN cache.buffer[x] ELSE disk[x]
    BY <1>2, <2>1
  <2>3. /\ (Content(x))' = Content(x)
        /\ disk'[x] \in {disk[x], Content(x)}
    BY <1>1, <1>3, <2>2 DEF Content
  <2> QED
    BY <2>3 DEF x
<1>5. Look' = [c \in DataClusters |-> (Content(DataSector(c)))'] /\ Under' = [c \in DataClusters |-> disk'[DataSector(c)]]
  BY DEF Look, Under
<1> QED
  BY <1>4, <1>5 DEF Look, Under

(* When no block is on its way, what is seen is on the floppy.             *)
LEMMA Settled ==
    ASSUME FileInv, SaveInv, pc # "info", syc = NoSyc
    PROVE  Look = Under
<1>1. cache.busy = {} /\ CacheOK(cache) /\ Unwritten(cache, syc)
  BY DEF SaveInv, FileInv, BufferInv
<1>2. \A s \in DOMAIN cache.buffer : cache.buffer[s] = disk[s]
  BY <1>1 DEF Unwritten
<1>3. \A c \in DataClusters : Content(DataSector(c)) = disk[DataSector(c)]
  BY <1>2 DEF Content
<1> QED
  BY <1>3 DEF Look, Under

LEMMA LookInfo ==
    ASSUME FileInv, UNCHANGED disk,
           \/ cache' = WithInfo
           \/ cache' = [WithInfo EXCEPT !.buffer = Over(InfoSectors(fat', root'), @)]
    PROVE  Look' = Look /\ Under' = Under
<1> DEFINE c == WithInfo
           i == InfoSectors(fat', root')
<1>1. More(c) /\ CacheOK(cache)
  BY InfoIsMore DEF FileInv, BufferInv
<1>2. SameData(cache'.buffer, c.buffer)
  <2>1. CASE cache' = c
    BY <2>1 DEF SameData
  <2>2. CASE cache' = [c EXCEPT !.buffer = Over(i, @)]
    <3>1. c = [chain |-> c.chain, buffer |-> c.buffer, busy |-> c.busy]
      BY <1>1 DEF More, CacheOK
    <3> HIDE DEF c, i
    <3>2. cache'.buffer = Over(i, c.buffer)
      BY <2>2, <3>1
    <3>3. DOMAIN i = Info
      BY DEF i, InfoSectors, Info
    <3>4. \A e \in DataClusters : DataSector(e) \notin Info
      BY DataSectors
    <3>5. ASSUME NEW e \in DataClusters, NEW x, x = DataSector(e)
          PROVE  /\ x \in DOMAIN Over(i, c.buffer) <=> x \in DOMAIN c.buffer
                 /\ x \in DOMAIN c.buffer => Over(i, c.buffer)[x] = c.buffer[x]
      <4>1. x \notin DOMAIN i
        BY <3>3, <3>4, <3>5
      <4>2. x \in DOMAIN Over(i, c.buffer) <=> x \in DOMAIN c.buffer
        BY <4>1 DEF Over
      <4> QED
        BY <4>1, <4>2 DEF Over
    <3> QED
      BY <3>2, <3>5 DEF SameData
  <2> QED
    BY <2>1, <2>2
<1> QED
  BY <1>1, <1>2, LookMore

LEMMA LookPower ==
    ASSUME PowerFails
    PROVE  Look' = Under /\ Under' = Under
<1>1. UNCHANGED disk /\ DOMAIN cache'.buffer = {}
  BY DEF PowerFails, disk_buffer_init
<1> QED
  BY <1>1 DEF Look, Under, Content

(* The bytes of a sector after a write                                     *)
Written(look) == [b \in 1 .. SECTOR_SIZE |-> IF b \in Copied THEN call.byte ELSE look[call.cluster][b]]

LEMMA LookTransfer ==
    ASSUME FileInv, UNCHANGED disk, call.cluster \in DataClusters, Transfer
    PROVE  /\ Under' = Under
           /\ \/ /\ call.op = "read" /\ Look' = Look
                 /\ got' = got \o [i \in 1 .. Cardinality(Copied) |->
                                     Look[call.cluster][Min(Copied) - 1 + i]]
              \/ /\ call.op = "write" /\ got' = got
                 /\ Look' = [Look EXCEPT ![call.cluster] = Written(Look)]
<1> DEFINE x == DataSector(call.cluster)
           b == BlockOf(x)
           c == disk_buffer_get(cache, b)
           from == c.buffer[x]
           to == [i \in 1 .. SECTOR_SIZE |-> IF i \in Copied THEN call.byte ELSE from[i]]
           d == [c EXCEPT !.buffer[x] = to]
<1>1. b \in Blocks /\ x \in SectorsOf(b) /\ x \in Nat
  BY Layout
<1>2. /\ CacheOK(cache)
      /\ CacheOK(c) /\ Kept(c) = Kept(cache) \cup {b} /\ c.busy = cache.busy \cup {b}
      /\ \A s \in DOMAIN c.buffer :
            c.buffer[s] = IF s \in DOMAIN cache.buffer THEN cache.buffer[s] ELSE disk[s]
  BY <1>1, GetFacts DEF FileInv, BufferInv
<1>3. \/ /\ call.op = "read" /\ disk_buffer_put(c, b)
         /\ got' = got \o [i \in 1 .. Cardinality(Copied) |-> from[Min(Copied) - 1 + i]]
      \/ call.op = "write" /\ disk_buffer_put(d, b) /\ got' = got
  BY DEF Transfer
<1>4. x \in DOMAIN c.buffer
  BY <1>1, <1>2 DEF CacheOK
<1>5. Under' = Under
  BY DEF Under
<1> HIDE DEF c
<1>6. More(c)
  BY <1>2 DEF More
<1>7. from = Look[call.cluster]
  <2>1. from = Content(x)
    BY <1>2, <1>4 DEF Content
  <2> QED
    BY <2>1 DEF Look
<1>8. c = [chain |-> c.chain, buffer |-> c.buffer, busy |-> c.busy]
  BY <1>2 DEF CacheOK
<1>9. CASE call.op = "read" /\ disk_buffer_put(c, b)
  <2>1. cache'.buffer = c.buffer
    <3> HIDE DEF b
    <3>1. cache' = IF find_dnode(c, b) THEN [c EXCEPT !.busy = @ \ {b}] ELSE c
      BY <1>9 DEF disk_buffer_put
    <3> QED
      BY <1>8, <3>1
  <2>2. SameData(cache'.buffer, c.buffer)
    BY <2>1 DEF SameData
  <2>3. Look' = Look
    BY <1>2, <1>6, <2>2, LookMore
  <2> QED
    BY <1>3, <1>5, <1>7, <1>9, <2>3
<1>10. CASE call.op = "write" /\ disk_buffer_put(d, b)
  <2>1. d = [chain |-> c.chain, buffer |-> [c.buffer EXCEPT ![x] = to], busy |-> c.busy]
    <3> DEFINE after == [c.buffer EXCEPT ![x] = to]
    <3>1. d = [c EXCEPT !.buffer = after]
      BY <1>8
    <3> HIDE DEF d, after
    <3>2. d = [chain |-> c.chain, buffer |-> after, busy |-> c.busy]
      BY <1>8, <3>1
    <3> QED
      BY <3>2 DEF after
  <2> HIDE DEF d
  <2>2. d.buffer = [c.buffer EXCEPT ![x] = to]
    BY <2>1
  <2>3. cache'.buffer = [c.buffer EXCEPT ![x] = to]
    <3>1. cache' = IF find_dnode(d, b) THEN [d EXCEPT !.busy = @ \ {b}] ELSE d
      BY <1>10 DEF disk_buffer_put
    <3> DEFINE after == [c.buffer EXCEPT ![x] = to]
    <3> HIDE DEF b, after
    <3>2. d = [chain |-> c.chain, buffer |-> after, busy |-> c.busy]
      BY <2>1 DEF after
    <3> HIDE DEF to
    <3>3. cache'.buffer = after
      BY <3>1, <3>2
    <3> QED
      BY <3>3 DEF after
  <2>4. to = Written(Look)
    BY <1>7 DEF Written
  <2> HIDE DEF to, from
  <2>5. ASSUME NEW e \in DataClusters, e # call.cluster
        PROVE  (Content(DataSector(e)))' = Content(DataSector(e))
    <3> DEFINE y == DataSector(e)
    <3>1. y # x
      BY <2>5, DataSectors
    <3>2. DOMAIN cache.buffer \subseteq DOMAIN c.buffer
      BY <1>2 DEF CacheOK
    <3> HIDE DEF x, y
    <3>3. DOMAIN cache'.buffer = DOMAIN c.buffer /\ cache'.buffer[y] = c.buffer[y]
      BY <2>3, <3>1
    <3>4. (Content(y))' = IF y \in DOMAIN cache'.buffer THEN cache'.buffer[y] ELSE disk[y]
      BY DEF Content
    <3>5. Content(y) = IF y \in DOMAIN cache.buffer THEN cache.buffer[y] ELSE disk[y]
      BY DEF Content
    <3>6. y \in DOMAIN c.buffer => c.buffer[y] = IF y \in DOMAIN cache.buffer THEN cache.buffer[y] ELSE disk[y]
      BY <1>2
    <3>7. (Content(y))' = Content(y)
      BY <3>2, <3>3, <3>4, <3>5, <3>6
    <3> QED
      BY <3>7 DEF y
  <2>6. \A e \in DataClusters : e = call.cluster => (Content(DataSector(e)))' = to
    <3>1. SUFFICES ASSUME NEW e \in DataClusters, e = call.cluster
                   PROVE  (Content(DataSector(e)))' = to
      OBVIOUS
    <3> DEFINE y == DataSector(e)
    <3>2. y = x
      BY <3>1
    <3> HIDE DEF x, y
    <3>3. y \in DOMAIN cache'.buffer /\ cache'.buffer[y] = to
      BY <1>4, <2>3, <3>2
    <3>4. (Content(y))' = to
      BY <3>3 DEF Content
    <3> QED
      BY <3>4 DEF y
  <2>7. Look' = [e \in DataClusters |-> (Content(DataSector(e)))']
    BY DEF Look
  <2>8. Look' = [e \in DataClusters |-> IF e = call.cluster THEN to ELSE Look[e]]
    BY <2>5, <2>6, <2>7 DEF Look
  <2>9. Look' = [Look EXCEPT ![call.cluster] = to]
    BY <2>8 DEF Look
  <2> QED
    BY <1>3, <1>5, <1>10, <2>4, <2>9
<1> QED
  BY <1>3, <1>9, <1>10

(***************************************************************************)
(* The window of a call                                                    *)
(***************************************************************************)
(* How far into the window the bytes up to m reach                         *)
Clamp(m) ==
    IF m < call.offset THEN call.offset
    ELSE IF m > call.offset + call.len THEN call.offset + call.len ELSE m

(* The bytes copied in a turn are those of the window in the sector.       *)
LEMMA CopiedPart ==
    ASSUME call \in CallType, NEW m, m = call.curr_sect * SECTOR_SIZE
    PROVE  /\ m \in Nat /\ Clamp(m) \in Nat /\ Clamp(m + SECTOR_SIZE) \in Nat
           /\ call.offset <= Clamp(m) /\ Clamp(m) <= Clamp(m + SECTOR_SIZE)
           /\ Clamp(m + SECTOR_SIZE) <= call.offset + call.len
           /\ ~InWindow => Clamp(m) = Clamp(m + SECTOR_SIZE)
           /\ InWindow =>
                 /\ Clamp(m) - m \in 0 .. SECTOR_SIZE
                 /\ Clamp(m + SECTOR_SIZE) - m \in 0 .. SECTOR_SIZE
                 /\ Copied = Clamp(m) - m + 1 .. Clamp(m + SECTOR_SIZE) - m
<1> DEFINE S == SECTOR_SIZE
           k == call.curr_sect
           o == call.offset
           l == call.len
           e == o + l
           a == o \div S
           z == e \div S
           am == a * S
           zm == z * S
           ro == o % S
           re == e % S
<1>1. /\ S \in Nat \ {0} /\ k \in Nat /\ o \in Nat /\ l \in Nat /\ e \in Nat
      /\ k \in Int /\ o \in Int /\ e \in Int
  <2>1. S \in Nat \ {0}
    BY Layout
  <2>2. k \in Nat /\ o \in Nat /\ l \in Nat
    BY DEF CallType
  <2> HIDE DEF S, k, o, l
  <2> QED
    BY <2>1, <2>2
<1>2. /\ StartSect = a /\ EndSect = z /\ StartByte = o % S
      /\ InWindow = (k \in a .. z)
  BY DEF StartSect, EndSect, StartByte, InWindow
<1>3. Copied = IF k = a
               THEN ro + 1 .. IF l + ro > S THEN S ELSE ro + l
               ELSE IF k < z THEN 1 .. S ELSE 1 .. re
  BY DEF Copied, StartSect, EndSect, StartByte
<1>4. /\ a \in Nat /\ z \in Nat /\ am \in Nat /\ zm \in Nat
      /\ am <= o /\ o < am + S /\ ro = o - am
      /\ zm <= e /\ e < zm + S /\ re = e - zm
  <2> HIDE DEF S, o, e
  <2>1. a \in Nat /\ z \in Nat /\ am \in Nat /\ zm \in Nat
    BY <1>1, DivNat
  <2>2. am <= o /\ o < am + S /\ ro = o - am
    BY <1>1, DivBounds
  <2>3. zm <= e /\ e < zm + S /\ re = e - zm
    BY <1>1, DivBounds
  <2> QED
    BY <2>1, <2>2, <2>3
<1>5. m = k * S /\ e = o + l
  OBVIOUS
<1>6. /\ Clamp(m) = IF m < o THEN o ELSE IF m > e THEN e ELSE m
      /\ Clamp(m + S) = IF m + S < o THEN o ELSE IF m + S > e THEN e ELSE m + S
  BY DEF Clamp
<1> HIDE DEF S, k, o, l, e, ro, re
<1>7. \A j \in Nat : /\ k < j => m + S <= j * S
                     /\ k = j => m = j * S
                     /\ j < k => j * S + S <= m
  <2>1. SUFFICES ASSUME NEW j \in Nat
                 PROVE  /\ k < j => m + S <= j * S
                        /\ k = j => m = j * S
                        /\ j < k => j * S + S <= m
    OBVIOUS
  <2>2. k < j => k * S + S <= j * S
    BY <1>1, Multiples
  <2>3. j < k => j * S + S <= k * S
    BY <1>1, Multiples
  <2> QED
    BY <1>5, <2>2, <2>3
<1>8. m \in Nat
  <2>1. k * S \in Nat
    BY <1>1
  <2> QED
    BY <1>5, <2>1
<1>9. /\ k < a => m + S <= am
      /\ k = a => m = am
      /\ a < k => am + S <= m
      /\ k < z => m + S <= zm
      /\ k = z => m = zm
      /\ z < k => zm + S <= m
  BY <1>4, <1>7
<1> HIDE DEF a, z, am, zm
<1>10. /\ Clamp(m) \in Nat /\ Clamp(m + S) \in Nat
       /\ o <= Clamp(m) /\ Clamp(m) <= Clamp(m + S) /\ Clamp(m + S) <= e
  BY <1>1, <1>5, <1>6, <1>8
<1>11. ~(k \in a .. z) => Clamp(m) = Clamp(m + S)
  BY <1>1, <1>4, <1>5, <1>6, <1>8, <1>9
<1>12. k \in a .. z =>
         /\ Clamp(m) - m \in 0 .. S
         /\ Clamp(m + S) - m \in 0 .. S
  BY <1>1, <1>4, <1>5, <1>6, <1>8, <1>9
<1>13. ASSUME k \in a .. z
       PROVE  Copied = Clamp(m) - m + 1 .. Clamp(m + S) - m
  <2>1. CASE k = a
    <3>1. Clamp(m) = o /\ Clamp(m) - m + 1 = ro + 1
      BY <2>1, <1>1, <1>4, <1>5, <1>6, <1>8, <1>9
    <3>2. Clamp(m + S) - m = IF l + ro > S THEN S ELSE ro + l
      <4>1. m = am /\ ro = o - m /\ m <= o /\ o < m + S
        BY <2>1, <1>4, <1>9
      <4>2. e = m + (l + ro) /\ l + ro \in Nat /\ ro \in Nat
        BY <4>1, <1>1, <1>5, <1>8
      <4>3. Clamp(m + S) = IF m + S > e THEN e ELSE m + S
        BY <4>1, <1>1, <1>6, <1>8
      <4>4. CASE l + ro > S
        BY <4>2, <4>3, <4>4, <1>1, <1>8
      <4>5. CASE ~(l + ro > S)
        <5>1. Clamp(m + S) = e
          BY <4>2, <4>3, <4>5, <1>1, <1>8
        <5> QED
          BY <4>2, <4>5, <5>1, <1>1, <1>8
      <4> QED
        BY <4>4, <4>5
    <3> QED
      BY <2>1, <3>1, <3>2, <1>3
  <2>2. CASE k # a /\ k < z
    <3>1. Clamp(m) - m + 1 = 1 /\ Clamp(m + S) - m = S
      BY <2>2, <1>1, <1>4, <1>5, <1>6, <1>8, <1>9, <1>13
    <3> QED
      BY <2>2, <3>1, <1>3
  <2>3. CASE k # a /\ ~(k < z)
    <3>1. Clamp(m) - m + 1 = 1 /\ Clamp(m + S) - m = re
      BY <2>3, <1>1, <1>4, <1>5, <1>6, <1>8, <1>9, <1>13
    <3> QED
      BY <2>3, <3>1, <1>3
  <2> QED
    BY <2>1, <2>2, <2>3
<1> QED
  BY <1>2, <1>8, <1>10, <1>11, <1>12, <1>13 DEF S, o, l, e, k

(***************************************************************************)
(* What a call has done                                                    *)
(***************************************************************************)
Mine(i) == Cell(fat, root[call.slot], Look, i)

Reached ==
    IF pc = "return" THEN call.offset + call.len
    ELSE Clamp(call.curr_sect * SECTOR_SIZE)

(* A call has its window in its file, and follows the file's chain.        *)
CallKnown ==
    /\ call = NoCall => got = <<>> /\ pc \notin {"rw", "return"}
    /\ call # NoCall =>
          /\ call.op \in {"read", "write"} /\ pc \in {"info", "rw", "return"}
          /\ call.slot \in Used(root)
          /\ call.offset + call.len <= root[call.slot].size
          /\ pc = "info" => call.curr_sect = 0
          /\ call.curr_sect < Size(root[call.slot]) =>
                call.cluster = Way(fat, root[call.slot])[call.curr_sect]

(* Byte b of cluster c is in the window of the call.                       *)
Aimed(c, b) ==
    \E j \in 0 .. Size(root[call.slot]) - 1 :
        /\ c = Way(fat, root[call.slot])[j]
        /\ j * SECTOR_SIZE + b \in call.offset + 1 .. call.offset + call.len

(* What is seen and not on the floppy is in the window of a write.         *)
Pending ==
    \A c \in DataClusters : Look[c] # Under[c] =>
        /\ call.op = "write" /\ pc \in {"rw", "return"}
        /\ \A b \in 1 .. SECTOR_SIZE : Look[c][b] # Under[c][b] => Aimed(c, b)

(* The window is written, or read, up to where the call is.                *)
Done ==
    call # NoCall =>
        /\ call.op = "write" =>
              got = <<>> /\ \A i \in call.offset + 1 .. Reached : Mine(i) = call.byte
        /\ call.op = "read" =>
              got = [i \in 1 .. Reached - call.offset |-> Mine(call.offset + i)]

DataInv == risk # "lost" => CallKnown /\ Pending /\ Done

LEMMA DataSame ==
    ASSUME DataInv, UNCHANGED <<call, got, fat, root, risk, pc>>, Look' = Look,
           \A c \in DataClusters : Under'[c] \in {Under[c], Look[c]}
    PROVE  DataInv'
<1>1. SUFFICES ASSUME risk # "lost"
               PROVE  CallKnown' /\ Pending' /\ Done'
  BY DEF DataInv
<1>2. CallKnown /\ Pending /\ Done
  BY <1>1 DEF DataInv
<1>3. CallKnown'
  BY <1>2, Zenon DEF CallKnown
<1>4. Done'
  <2>1. Reached' = Reached /\ \A i : Mine(i)' = Mine(i)
    BY DEF Reached, Clamp, Mine
  <2> HIDE DEF Reached, Mine
  <2> QED
    BY <1>2, <2>1 DEF Done
<1>5. Pending'
  <2>1. \A c, b : Aimed(c, b)' <=> Aimed(c, b)
    BY Zenon DEF Aimed
  <2> HIDE DEF Aimed
  <2> QED
    BY <1>2, <2>1 DEF Pending
<1> QED
  BY <1>3, <1>4, <1>5

LEMMA DataIdle ==
    ASSUME call' = NoCall, got' = <<>>, pc' \notin {"rw", "return"}, Look' = Under'
    PROVE  DataInv'
<1>1. CallKnown'
  BY DEF CallKnown
<1>2. Pending'
  BY DEF Pending
<1>3. Done'
  BY DEF Done
<1> QED
  BY <1>1, <1>2, <1>3 DEF DataInv

LEMMA DataQuiet ==
    ASSUME FileInv, SaveInv, DataInv, pc \in {"boot", "idle"}, syc = NoSyc,
           UNCHANGED <<call, got>>, Look' = Look, Under' = Under,
           pc' \notin {"rw", "return"}, risk' # "lost" => risk # "lost"
    PROVE  DataInv'
<1>1. CASE risk' = "lost"
  BY <1>1 DEF DataInv
<1>2. CASE risk' # "lost"
  <2>1. call = NoCall /\ got = <<>>
    BY <1>2 DEF DataInv, CallKnown
  <2>2. Look = Under
    BY Settled
  <2> QED
    BY <2>1, <2>2, DataIdle
<1> QED
  BY <1>1, <1>2

LEMMA DataReturn ==
    ASSUME FileInv, SaveInv, DataInv, set_info_return
    PROVE  DataInv'
<1>1. /\ UNCHANGED <<disk, cache, fat, root, call, got, risk>>
      /\ pc = "info" /\ pc' = IF call = NoCall THEN "idle" ELSE "rw"
  BY DEF set_info_return
<1>2. SUFFICES ASSUME risk # "lost"
               PROVE  CallKnown' /\ Pending' /\ Done'
  BY <1>1 DEF DataInv
<1>3. CallKnown /\ Pending /\ Done
  BY <1>2 DEF DataInv
<1>4. CallKnown'
  BY <1>1, <1>3, Zenon DEF CallKnown
<1>5. Look' = Look /\ Under' = Under
  BY <1>1, LookKept
<1>6. Done'
  <2>1. Reached' = Reached /\ \A i : Mine(i)' = Mine(i)
    <3>1. pc # "return" /\ pc' # "return"
      BY <1>1
    <3> QED
      BY <1>1, <1>5, <3>1 DEF Reached, Clamp, Mine
  <2> HIDE DEF Reached, Mine
  <2> QED
    BY <1>1, <1>3, <2>1 DEF Done
<1>7. Look = Under
  <2>1. \A c \in DataClusters : Look[c] = Under[c]
    BY <1>1, <1>3 DEF Pending
  <2> QED
    BY <2>1 DEF Look, Under
<1>8. Pending'
  BY <1>5, <1>7 DEF Pending
<1> QED
  BY <1>4, <1>6, <1>8

LEMMA DataStarts ==
    ASSUME NEW op \in {"read", "write"}, NEW s, NEW offset \in Nat, NEW len \in Nat, NEW byte,
           Start(op, s, offset, len, byte),
           Look' = Under', pc' \in {"rw", "info"}, s \in Used(root'),
           root'[s].cluster = root[s].cluster, offset + len <= root'[s].size
    PROVE  DataInv'
<1>1. /\ call' # NoCall /\ call'.op = op /\ call'.slot = s /\ call'.offset = offset /\ call'.len = len
      /\ call'.cluster = root[s].cluster /\ call'.curr_sect = 0 /\ got' = <<>>
  BY CallIsOne DEF Start
<1>2. Reached' = offset
  <2>1. SECTOR_SIZE \in Nat
    BY Layout
  <2>2. Reached' = Clamp(call.curr_sect * SECTOR_SIZE)'
    BY DEF Reached
  <2>3. 0 * SECTOR_SIZE = 0
    BY <2>1
  <2>4. Reached' = IF 0 < offset THEN offset ELSE IF 0 > offset + len THEN offset + len ELSE 0
    BY <1>1, <2>2, <2>3 DEF Clamp
  <2> QED
    BY <2>4
<1>3. Done'
  <2>1. \A i \in offset + 1 .. offset : FALSE
    OBVIOUS
  <2>2. 1 .. offset - offset = {}
    OBVIOUS
  <2>3. Done' = (call' # NoCall =>
        /\ call'.op = "write" =>
              got' = <<>> /\ \A i \in call'.offset + 1 .. Reached' : Mine(i)' = call'.byte
        /\ call'.op = "read" =>
              got' = [i \in 1 .. Reached' - call'.offset |-> Mine(call.offset + i)'])
    BY DEF Done
  <2> HIDE DEF Reached, Mine
  <2>4. [i \in 1 .. Reached' - call'.offset |-> Mine(call.offset + i)'] = <<>>
    BY <1>1, <1>2, <2>2
  <2> QED
    BY <1>1, <1>2, <2>1, <2>3, <2>4
<1>4. Pending'
  BY DEF Pending
<1>5. CallKnown'
  <2>1. Way(fat', root'[s])[0] = root'[s].cluster
    BY StepsRule DEF Way
  <2> QED
    BY <1>1, <2>1 DEF CallKnown
<1> QED
  BY <1>3, <1>4, <1>5 DEF DataInv

LEMMA SizeIs == \A n \in Nat : n \div SECTOR_SIZE = Needed(n) - 1 /\ n \div SECTOR_SIZE \in Nat
<1>1. SUFFICES ASSUME NEW n \in Nat
               PROVE  n \div SECTOR_SIZE = Needed(n) - 1 /\ n \div SECTOR_SIZE \in Nat
  OBVIOUS
<1> DEFINE S == SECTOR_SIZE
<1>2. S \in Nat \ {0} /\ n \in Int /\ 1 \in Int
  BY Layout
<1> HIDE DEF S
<1>3. (1 * S + n) \div S = 1 + n \div S
  BY <1>2, DivShift
<1>4. 1 * S + n = n + S
  BY <1>2
<1>5. n \div S \in Nat
  BY <1>2, DivNat
<1> QED
  BY <1>3, <1>4, <1>5 DEF Needed, S

LEMMA ClusterIsNoMark == \A x \in DataClusters : x \in Nat /\ ~(x >= EOC)
<1>1. CLUSTERS \in 2 .. 4080
  BY Layout
<1>2. ASSUME NEW x \in DataClusters PROVE x \in Nat /\ x < 4088
  <2>1. x \in Int /\ 2 <= x /\ x <= CLUSTERS - 1 /\ CLUSTERS \in Int /\ CLUSTERS <= 4080
    BY <1>1 DEF DataClusters
  <2> QED
    BY <2>1
<1>3. EOC = 4088
  BY DEF EOC
<1> HIDE DEF EOC
<1> QED
  BY <1>2, <1>3

(* The call in its loop                                                    *)
LEMMA TurnFacts ==
    ASSUME StoreInv, DataInv, risk # "lost", rw_turn
    PROVE  LET s == call.slot
               k == call.curr_sect
               n == Size(root[s])
               m == k * SECTOR_SIZE
           IN  /\ call # NoCall /\ call' # NoCall /\ call \in CallType
               /\ s \in Used(root) /\ n \in Nat /\ k \in Nat
               /\ root[s].size \in Nat /\ call.offset + call.len <= root[s].size
               /\ Path(fat, root[s].cluster, n)
               /\ k < n => call.cluster = Way(fat, root[s])[k]
               /\ InWindow => k < n
               /\ Look = Under
               /\ Reached = Clamp(m) /\ Reached' = Clamp(m + SECTOR_SIZE)
               /\ call'.op = call.op /\ call'.slot = s /\ call'.offset = call.offset
               /\ call'.len = call.len /\ call'.byte = call.byte
               /\ CallKnown'
<1> DEFINE s == call.slot
           k == call.curr_sect
           file == root[s]
           n == Size(root[s])
           m == k * SECTOR_SIZE
           next == [call EXCEPT !.cluster = fat[@], !.curr_sect = @ + 1]
<1>1. FileInv /\ SaveInv /\ CallKnown
  BY DEF StoreInv, DataInv
<1>2. /\ pc = "rw" /\ syc = NoSyc /\ call.cluster \in DataClusters
      /\ UNCHANGED <<disk, fat, root, risk>>
      /\ fat[call.cluster] >= EOC => pc' = "return" /\ call' = call
      /\ ~(fat[call.cluster] >= EOC) => pc' = "rw" /\ call' = next
  BY DEF rw_turn
<1>3. /\ call # NoCall /\ call.op \in {"read", "write"} /\ s \in Used(root)
      /\ call.offset + call.len <= root[s].size
      /\ k < n => call.cluster = Way(fat, root[s])[k]
  BY <1>1, <1>2 DEF CallKnown
<1>4. /\ call \in CallType /\ root \in [Slots -> FileType] /\ fat \in [Entries -> FatValues]
      /\ s \in Slots /\ root[s].size \in Nat /\ n \in Nat /\ n # 0
  BY <1>1, <1>3, FloppyTyped, UsedIsSlots, SizeFacts DEF FileInv, CallInv
<1>5. k \in Nat /\ call.offset \in Nat /\ call.len \in Nat
  BY <1>4 DEF CallType
<1>6. Path(fat, root[s].cluster, n)
  <2>1. NowSound /\ RootNow = root /\ FatNow = fat
    BY <1>2, NowIsSound DEF RootNow, FatNow
  <2> QED
    BY <2>1, <1>3 DEF NowSound, Whole
<1>7. Look = Under
  BY <1>1, <1>2, Settled
<1>8. /\ next.op = call.op /\ next.slot = s /\ next.offset = call.offset
      /\ next.len = call.len /\ next.byte = call.byte
      /\ next.cluster = fat[call.cluster] /\ next.curr_sect = k + 1
  BY <1>4 DEF CallType
<1> HIDE DEF next
<1>9. EndSect \in Nat /\ EndSect <= n - 1 /\ n - 1 = root[s].size \div SECTOR_SIZE
  <2>1. call.offset + call.len \in Nat
    BY <1>5
  <2>2. (call.offset + call.len) \div SECTOR_SIZE <= root[s].size \div SECTOR_SIZE
    BY <2>1, <1>3, <1>4, Layout, DivMono
  <2>3. /\ root[s].size \div SECTOR_SIZE = n - 1
        /\ (call.offset + call.len) \div SECTOR_SIZE \in Nat
    BY <2>1, <1>4, SizeIs DEF Size
  <2> QED
    BY <2>2, <2>3 DEF EndSect
<1>10. InWindow => k < n
  BY <1>4, <1>5, <1>9 DEF InWindow
<1>11. k < n /\ k + 1 < n => /\ fat[call.cluster] = Way(fat, root[s])[k + 1]
                             /\ ~(fat[call.cluster] >= EOC)
  <2>1. SUFFICES ASSUME k < n, k + 1 < n
                 PROVE  /\ fat[call.cluster] = Way(fat, root[s])[k + 1]
                        /\ ~(fat[call.cluster] >= EOC)
    OBVIOUS
  <2>2. k \in 0 .. n - 1 /\ k + 1 \in 0 .. n - 1
    BY <2>1, <1>4, <1>5
  <2> DEFINE c == root[s].cluster
  <2> HIDE DEF c, k, n
  <2>3. Steps(fat, c)[k + 1] = fat[Steps(fat, c)[k]]
    BY <2>2, <1>6, PathNext DEF c
  <2>4. Steps(fat, c)[k + 1] \in DataClusters
    BY <2>2, <1>6 DEF Path, c
  <2>5. \A x \in DataClusters : ~(x >= EOC)
    BY ClusterIsNoMark
  <2>6. call.cluster = Steps(fat, c)[k]
    BY <2>1, <1>3 DEF Way, c
  <2> QED
    BY <2>3, <2>4, <2>5, <2>6 DEF Way, c
<1>12. Reached = Clamp(m)
  BY <1>2 DEF Reached
<1>13. Reached' = Clamp(m + SECTOR_SIZE)
  <2>1. CASE ~(fat[call.cluster] >= EOC)
    <3>1. call' = next /\ pc' = "rw"
      BY <2>1, <1>2
    <3>2. (k + 1) * SECTOR_SIZE = m + SECTOR_SIZE
      BY <1>5, Layout, Multiples
    <3>3. Reached' = Clamp(call.curr_sect * SECTOR_SIZE)'
      BY <3>1 DEF Reached
    <3>4. Reached' = IF (k + 1) * SECTOR_SIZE < call.offset THEN call.offset
                     ELSE IF (k + 1) * SECTOR_SIZE > call.offset + call.len THEN call.offset + call.len
                     ELSE (k + 1) * SECTOR_SIZE
      BY <3>1, <3>3, <1>8 DEF Clamp
    <3> QED
      BY <3>2, <3>4 DEF Clamp
  <2>2. CASE fat[call.cluster] >= EOC
    <3>1. call' = call /\ pc' = "return"
      BY <2>2, <1>2
    <3>2. Reached' = call.offset + call.len
      BY <3>1 DEF Reached
    <3>3. ~(k < n /\ k + 1 < n)
      BY <2>2, <1>11
    <3>4. k >= EndSect
      BY <3>3, <1>4, <1>5, <1>9
    <3>5. m + SECTOR_SIZE >= call.offset + call.len
      <4> DEFINE e == call.offset + call.len
                 z == e \div SECTOR_SIZE
                 S == SECTOR_SIZE
      <4>1. e \in Int /\ S \in Nat \ {0} /\ z \in Nat /\ k >= z
        BY <3>4, <1>5, <1>9, Layout DEF EndSect
      <4>2. e < z * S + S
        BY <4>1, DivBounds
      <4> HIDE DEF e, z, S, k
      <4>3. z * S \in Nat /\ k * S \in Nat
        BY <4>1, <1>5
      <4>4. z * S <= k * S
        <5>1. CASE z = k
          BY <5>1, <4>3
        <5>2. CASE z < k
          <6>1. z * S + S <= k * S
            BY <5>2, <4>1, <1>5, Multiples
          <6> QED
            BY <6>1, <4>1, <4>3
        <5> QED
          BY <5>1, <5>2, <4>1, <1>5
      <4>5. e <= k * S + S
        BY <4>1, <4>2, <4>3, <4>4
      <4> QED
        BY <4>5, <4>1, <4>3 DEF e, S, k
    <3>6. m \in Nat /\ SECTOR_SIZE \in Nat
      BY <1>4, Layout, CopiedPart
    <3> HIDE DEF m
    <3> QED
      BY <3>2, <3>5, <3>6, <1>5 DEF Clamp
  <2> QED
    BY <2>1, <2>2
<1>14. /\ call'.op = call.op /\ call'.slot = s /\ call'.offset = call.offset
       /\ call'.len = call.len /\ call'.byte = call.byte
  BY <1>2, <1>8
<1>15. call' # NoCall
  <2>1. NoCall.op = "none"
    BY DEF NoCall
  <2> QED
    BY <2>1, <1>3, <1>14
<1>16. CallKnown'
  <2>1. call'.curr_sect < n => call'.cluster = Way(fat, root[s])[call'.curr_sect]
    <3>1. CASE call' = call
      BY <3>1, <1>3
    <3>2. CASE call' = next
      <4>1. k + 1 < n => k < n
        BY <1>4, <1>5
      <4> QED
        BY <3>2, <4>1, <1>8, <1>11
    <3> QED
      BY <3>1, <3>2, <1>2
  <2>2. pc' \in {"rw", "return"} /\ fat' = fat /\ root' = root
    BY <1>2
  <2> QED
    BY <2>1, <2>2, <1>3, <1>14, <1>15 DEF CallKnown
<1> QED
  BY <1>3, <1>4, <1>5, <1>6, <1>7, <1>10, <1>12, <1>13, <1>14, <1>15, <1>16

LEMMA CellAt ==
    ASSUME NEW f, NEW file, NEW look, NEW k \in Nat, NEW b \in 1 .. SECTOR_SIZE
    PROVE  Cell(f, file, look, k * SECTOR_SIZE + b) = look[Way(f, file)[k]][b]
BY PlaceIs DEF Cell

LEMMA IntervalCount ==
    ASSUME NEW a \in Int, NEW b \in Int, a <= b + 1
    PROVE  /\ Cardinality(a .. b) = b - a + 1
           /\ a <= b => Min(a .. b) = a
<1>1. Cardinality(a .. b) = IF a <= b THEN b - a + 1 ELSE 0
  BY FS_Interval
<1>2. a <= b => Min(a .. b) = a
  BY DEF Min
<1> QED
  BY <1>1, <1>2

(* The sequence t is s and the values of a function behind it.             *)
LEMMA Longer ==
    ASSUME NEW p \in Nat, NEW q \in Nat, NEW V(_),
           NEW s, s = [i \in 1 .. p |-> V(i)], NEW t, t = [i \in 1 .. q |-> V(p + i)]
    PROVE  s \o t = [i \in 1 .. p + q |-> V(i)]
<1>1. Len(s) = p /\ Len(t) = q
  OBVIOUS
<1>2. s \o t = [i \in 1 .. p + q |-> IF i <= p THEN s[i] ELSE t[i - p]]
  BY <1>1
<1> QED
  BY <1>2

(* A turn that reads                                                       *)
LEMMA DoneRead ==
    ASSUME StoreInv, DataInv, risk # "lost", rw_turn, InWindow, call.op = "read", Look' = Look,
           got' = got \o [i \in 1 .. Cardinality(Copied) |-> Look[call.cluster][Min(Copied) - 1 + i]]
    PROVE  Done'
<1> DEFINE s == call.slot
           k == call.curr_sect
           m == k * SECTOR_SIZE
           S == SECTOR_SIZE
           o == call.offset
           A == Clamp(m)
           B == Clamp(m + S)
           V(i) == Mine(o + i)
           g == [i \in 1 .. Cardinality(Copied) |-> Look[call.cluster][Min(Copied) - 1 + i]]
<1>1. /\ k \in Nat /\ call.cluster = Way(fat, root[s])[k] /\ call # NoCall /\ call \in CallType
      /\ Reached = A /\ Reached' = B
      /\ call'.op = "read" /\ call'.slot = s /\ call'.offset = o
  BY TurnFacts
<1>2. /\ m \in Nat /\ A \in Nat /\ B \in Nat /\ o <= A /\ A <= B
      /\ A - m \in 0 .. S /\ B - m \in 0 .. S
      /\ Copied = A - m + 1 .. B - m
  BY <1>1, CopiedPart
<1>3. o \in Nat /\ S \in Nat
  <2>1. call.offset \in Nat
    BY <1>1 DEF CallType
  <2> QED
    BY <2>1, Layout
<1>4. got = [i \in 1 .. A - o |-> V(i)]
  BY <1>1 DEF DataInv, Done
<1>5. \A i : Mine(i)' = Mine(i)
  BY <1>1 DEF Mine, rw_turn
<1>6. g = [i \in 1 .. B - A |-> V((A - o) + i)]
  <2>1. Cardinality(Copied) = B - A /\ (A < B => Min(Copied) = A - m + 1)
    <3> DEFINE a == A - m + 1
               b == B - m
    <3>1. a \in Int /\ b \in Int /\ a <= b + 1 /\ b - a + 1 = B - A /\ (A < B <=> a <= b)
      BY <1>2
    <3>2. Copied = a .. b
      BY <1>2
    <3> HIDE DEF a, b
    <3>3. Cardinality(a .. b) = b - a + 1 /\ (a <= b => Min(a .. b) = a)
      BY <3>1, IntervalCount
    <3> QED
      BY <3>1, <3>2, <3>3 DEF a
  <2>2. ASSUME NEW i \in 1 .. B - A
        PROVE  Look[call.cluster][Min(Copied) - 1 + i] = V((A - o) + i)
    <3> DEFINE b == A - m + i
    <3> HIDE DEF A, B, o, m, S, V
    <3>1. Min(Copied) - 1 + i = b /\ b \in 1 .. S
      <4>1. i \in Int /\ 1 <= i /\ i <= B - A /\ A < B
        BY <1>2, <2>2
      <4>2. A - m + i \in 1 .. S
        BY <4>1, <1>2, <1>3
      <4>3. Min(Copied) = A - m + 1
        BY <4>1, <2>1
      <4>4. Min(Copied) - 1 + i = A - m + i
        BY <4>1, <4>3, <1>2
      <4> QED
        BY <4>2, <4>4
    <3>2. o + ((A - o) + i) = m + b
      BY <1>2, <1>3, <2>2
    <3>3. b \in 1 .. SECTOR_SIZE
      BY <3>1 DEF S
    <3> HIDE DEF b, s, k
    <3>4. Cell(fat, root[s], Look, k * SECTOR_SIZE + b) = Look[Way(fat, root[s])[k]][b]
      <4>1. k \in Nat
        BY <1>1
      <4> QED
        BY <4>1, <3>3, CellAt
    <3>5. V((A - o) + i) = Mine(m + b)
      BY <3>2 DEF V
    <3>6. Mine(m + b) = Look[call.cluster][b]
      BY <3>4, <1>1 DEF Mine, m, s
    <3> QED
      BY <3>1, <3>5, <3>6 DEF b
  <2> HIDE DEF V, A, B, o
  <2> QED
    BY <2>1, <2>2
<1> HIDE DEF V, g
<1>7. got' = [i \in 1 .. B - o |-> V(i)]
  <2> DEFINE p == A - o
             q == B - A
  <2>1. p \in Nat /\ q \in Nat /\ p + q = B - o
    BY <1>2, <1>3
  <2>2. got' = got \o g
    BY DEF g
  <2>3. got = [i \in 1 .. p |-> V(i)] /\ g = [i \in 1 .. q |-> V(p + i)]
    BY <1>4, <1>6
  <2> HIDE DEF p, q
  <2>4. got \o g = [i \in 1 .. p + q |-> V(i)]
    BY <2>1, <2>3, Longer
  <2> QED
    BY <2>1, <2>2, <2>4
<1>8. got' = [i \in 1 .. B - o |-> Mine(o + i)]
  BY <1>7 DEF V
<1> HIDE DEF A, B
<1>9. Done' = (call' # NoCall =>
         /\ call'.op = "write" =>
               got' = <<>> /\ \A i \in call'.offset + 1 .. Reached' : Mine(i)' = call'.byte
         /\ call'.op = "read" =>
               got' = [i \in 1 .. Reached' - call'.offset |-> Mine(call.offset + i)'])
  BY DEF Done
<1>10. (Mine(call.offset + 1))' = (Mine(call.offset + 1))'
  OBVIOUS
<1> HIDE DEF Mine, Reached
<1> QED
  BY <1>1, <1>5, <1>8, <1>9

(* What a write turn changes: the bytes of its sector that are in the      *)
(* window.                                                                 *)
LEMMA WriteAt ==
    ASSUME StoreInv, DataInv, risk # "lost", rw_turn, InWindow, call.op = "write",
           Look' = [Look EXCEPT ![call.cluster] = Written(Look)],
           NEW c \in DataClusters, NEW b \in 1 .. SECTOR_SIZE,
           NEW m, m = call.curr_sect * SECTOR_SIZE
    PROVE  Look'[c][b] = IF c = call.cluster /\ m + b \in Clamp(m) + 1 .. Clamp(m + SECTOR_SIZE)
                         THEN call.byte ELSE Look[c][b]
<1> DEFINE S == SECTOR_SIZE
           A == Clamp(m)
           B == Clamp(m + S)
<1>1. /\ m \in Nat /\ A \in Nat /\ B \in Nat
      /\ A - m \in 0 .. S /\ B - m \in 0 .. S
      /\ Copied = A - m + 1 .. B - m
  <2>1. call \in CallType
    BY TurnFacts
  <2> QED
    BY <2>1, CopiedPart
<1>2. S \in Nat
  BY Layout
<1> HIDE DEF A, B
<1>3. b \in Copied <=> m + b \in A + 1 .. B
  BY <1>1, <1>2 DEF S
<1>4. CASE c = call.cluster
  <2>1. Look'[c] = Written(Look)
    BY <1>4 DEF Look
  <2>2. Look'[c][b] = IF b \in Copied THEN call.byte ELSE Look[c][b]
    BY <2>1, <1>4 DEF Written
  <2> QED
    BY <2>2, <1>3, <1>4 DEF A, B
<1>5. CASE c # call.cluster
  <2>1. Look'[c] = Look[c]
    BY <1>5 DEF Look
  <2> QED
    BY <2>1, <1>5
<1> QED
  BY <1>4, <1>5

(* A turn that writes                                                      *)
LEMMA DoneWrite ==
    ASSUME StoreInv, DataInv, risk # "lost", rw_turn, InWindow, call.op = "write", got' = got,
           Look' = [Look EXCEPT ![call.cluster] = Written(Look)], Under' = Under
    PROVE  Done' /\ Pending'
<1> DEFINE s == call.slot
           k == call.curr_sect
           m == k * SECTOR_SIZE
           S == SECTOR_SIZE
           o == call.offset
           e == call.offset + call.len
           A == Clamp(m)
           B == Clamp(m + S)
           file == root[s]
           n == Size(file)
<1>1. /\ k \in Nat /\ k < n /\ n \in Nat
      /\ call.cluster = Way(fat, file)[k] /\ call # NoCall /\ call \in CallType
      /\ Reached = A /\ Reached' = B
      /\ call'.op = "write" /\ call'.slot = s /\ call'.offset = o
      /\ call'.len = call.len /\ call'.byte = call.byte
      /\ file.size \in Nat /\ e <= file.size /\ Path(fat, file.cluster, n)
      /\ Look = Under
  BY TurnFacts
<1>2. /\ m \in Nat /\ A \in Nat /\ B \in Nat /\ o <= A /\ A <= B /\ B <= e
      /\ A - m \in 0 .. S /\ B - m \in 0 .. S
  BY <1>1, CopiedPart
<1>3. o \in Nat /\ S \in Nat \ {0} /\ e \in Nat
  <2>1. call.offset \in Nat /\ call.len \in Nat
    BY <1>1 DEF CallType
  <2> QED
    BY <2>1, Layout
<1>4. fat' = fat /\ root' = root /\ pc' \in {"rw", "return"}
  BY DEF rw_turn
<1>5. ASSUME NEW c \in DataClusters, NEW b \in 1 .. SECTOR_SIZE
      PROVE  Look'[c][b] = IF c = call.cluster /\ m + b \in A + 1 .. B THEN call.byte ELSE Look[c][b]
  BY WriteAt
<1>6. got = <<>> /\ \A i \in o + 1 .. A : Mine(i) = call.byte
  BY <1>1 DEF DataInv, Done
<1>7. ASSUME NEW i \in o + 1 .. B
      PROVE  Mine(i)' = call.byte
  <2> DEFINE p == PlaceOf(i)
             b == ByteOf(i)
             w == Way(fat, file)[p]
  <2>1. i \in 1 .. file.size
    <3> HIDE DEF o, B, e, file
    <3> QED
      BY <1>1, <1>2, <1>3
  <2>2. /\ i \in Nat \ {0} /\ p \in 0 .. n - 1 /\ p \in Nat /\ b \in 1 .. SECTOR_SIZE
        /\ i = p * SECTOR_SIZE + b
    BY <2>1, <1>1, PlaceInFile, BytePlace DEF Size
  <2> HIDE DEF p, b, n
  <2>3. w \in DataClusters
    BY <1>1, <2>2 DEF Path, Way
  <2>4. Mine(i)' = Look'[w][b]
    BY <1>1, <1>4 DEF Mine, Cell, p, b
  <2>5. Mine(i) = Look[w][b]
    BY DEF Mine, Cell, p, b
  <2> HIDE DEF w, A, B, m
  <2>6. Look'[w][b] = IF w = call.cluster /\ m + b \in A + 1 .. B THEN call.byte ELSE Look[w][b]
    BY <1>5, <2>2, <2>3
  <2>7. CASE i <= A
    <3>1. Mine(i) = call.byte
      BY <2>7, <1>6, <1>2, <1>3
    <3> QED
      BY <3>1, <2>4, <2>5, <2>6
  <2>8. CASE ~(i <= A)
    <3> DEFINE d == i - m
    <3>1. d \in 1 .. SECTOR_SIZE /\ i = m + d
      <4> HIDE DEF o
      <4> QED
        BY <2>8, <1>2, <1>3, <2>2 DEF S
    <3> HIDE DEF d, k
    <3>2. PlaceOf(k * SECTOR_SIZE + d) = k /\ ByteOf(k * SECTOR_SIZE + d) = d
      BY <3>1, <1>1, PlaceIs
    <3>3. p = k /\ b = d
      BY <3>1, <3>2 DEF p, b, m
    <3>4. w = call.cluster
      BY <3>3, <1>1 DEF w
    <3>5. m + b \in A + 1 .. B
      <4> HIDE DEF o
      <4> QED
        BY <2>8, <3>1, <3>3, <1>2, <2>2
    <3> QED
      BY <3>4, <3>5, <2>4, <2>6
  <2> QED
    BY <2>7, <2>8
<1>8. Done'
  <2> HIDE DEF Mine, Reached, A, B
  <2>1. \A i \in o + 1 .. B : Mine(i)' = call.byte
    BY <1>7
  <2>2. Done' = (call' # NoCall =>
         /\ call'.op = "write" =>
               got' = <<>> /\ \A i \in call'.offset + 1 .. Reached' : Mine(i)' = call'.byte
         /\ call'.op = "read" =>
               got' = [i \in 1 .. Reached' - call'.offset |-> Mine(call.offset + i)'])
    BY DEF Done
  <2> QED
    BY <2>1, <2>2, <1>1, <1>6
<1>9. Pending'
  <2> SUFFICES ASSUME NEW c \in DataClusters, Look'[c] # Under'[c]
               PROVE  /\ call'.op = "write" /\ pc' \in {"rw", "return"}
                      /\ \A b \in 1 .. SECTOR_SIZE : Look'[c][b] # Under'[c][b] => Aimed(c, b)'
    BY DEF Pending
  <2>1. ASSUME NEW b \in 1 .. SECTOR_SIZE, Look'[c][b] # Under'[c][b]
        PROVE  Aimed(c, b)'
    <3>1. c = call.cluster /\ m + b \in A + 1 .. B
      <4>1. Look'[c][b] # Look[c][b]
        BY <2>1, <1>1
      <4> HIDE DEF m, A, B
      <4> QED
        BY <4>1, <1>5
    <3>2. m + b \in o + 1 .. e
      <4> HIDE DEF m, A, B, o, e
      <4> QED
        BY <3>1, <1>2, <1>3
    <3>3. k \in 0 .. n - 1 /\ c = Way(fat, file)[k]
      <4> HIDE DEF n
      <4> QED
        BY <3>1, <1>1
    <3>4. Aimed(c, b)' <=> \E j \in 0 .. n - 1 : /\ c = Way(fat, file)[j]
                                                /\ j * SECTOR_SIZE + b \in o + 1 .. e
      BY <1>1, <1>4, Zenon DEF Aimed
    <3> HIDE DEF n, o, e, file
    <3> QED
      BY <3>2, <3>3, <3>4 DEF m
  <2> QED
    BY <2>1, <1>1, <1>4
<1> QED
  BY <1>8, <1>9

(* A turn outside the window does nothing.                                 *)
LEMMA DoneNothing ==
    ASSUME StoreInv, DataInv, risk # "lost", rw_turn, ~InWindow
    PROVE  Look' = Look /\ Under' = Under /\ got' = got /\ Reached' = Reached /\ Done'
<1>1. /\ UNCHANGED <<disk, cache, fat, root, got>>
      /\ call' # NoCall /\ call # NoCall
      /\ call'.slot = call.slot /\ call'.offset = call.offset /\ call'.op = call.op /\ call'.byte = call.byte
  BY TurnFacts DEF rw_turn
<1>2. Look' = Look /\ Under' = Under
  BY <1>1, LookKept
<1>3. Reached' = Reached
  <2>1. /\ Reached = Clamp(call.curr_sect * SECTOR_SIZE) /\ call \in CallType
        /\ Reached' = Clamp(call.curr_sect * SECTOR_SIZE + SECTOR_SIZE)
    BY TurnFacts
  <2> HIDE DEF Reached
  <2> QED
    BY <2>1, CopiedPart
<1>4. Done
  BY DEF DataInv
<1>5. \A i : Mine(i)' = Mine(i)
  BY <1>1, <1>2 DEF Mine
<1>6. Done'
  <2> HIDE DEF Mine, Reached
  <2>1. Done' = (call' # NoCall =>
         /\ call'.op = "write" =>
               got' = <<>> /\ \A i \in call'.offset + 1 .. Reached' : Mine(i)' = call'.byte
         /\ call'.op = "read" =>
               got' = [i \in 1 .. Reached' - call'.offset |-> Mine(call.offset + i)'])
    BY DEF Done
  <2> QED
    BY <2>1, <1>1, <1>3, <1>4, <1>5 DEF Done
<1> QED
  BY <1>1, <1>2, <1>3, <1>6

LEMMA DataTurn ==
    ASSUME StoreInv, DataInv, rw_turn
    PROVE  DataInv'
<1>1. SUFFICES ASSUME risk # "lost"
               PROVE  CallKnown' /\ Pending' /\ Done'
  BY DEF DataInv, rw_turn
<1>2. CallKnown' /\ Look = Under
  BY <1>1, TurnFacts
<1>3. CASE ~InWindow
  <2>1. Look' = Look /\ Under' = Under /\ Done'
    BY <1>1, <1>3, DoneNothing
  <2>2. Pending'
    BY <1>2, <2>1 DEF Pending
  <2> QED
    BY <1>2, <2>1, <2>2
<1>4. CASE InWindow
  <2>1. /\ Under' = Under
        /\ \/ /\ call.op = "read" /\ Look' = Look
              /\ got' = got \o [i \in 1 .. Cardinality(Copied) |->
                                     Look[call.cluster][Min(Copied) - 1 + i]]
           \/ /\ call.op = "write" /\ got' = got
              /\ Look' = [Look EXCEPT ![call.cluster] = Written(Look)]
    <3>1. FileInv /\ UNCHANGED disk /\ call.cluster \in DataClusters /\ Transfer
      BY <1>4 DEF StoreInv, rw_turn
    <3> QED
      BY <3>1, LookTransfer
  <2>2. CASE call.op = "read" /\ Look' = Look
    <3>1. got' = got \o [i \in 1 .. Cardinality(Copied) |-> Look[call.cluster][Min(Copied) - 1 + i]]
      BY <2>1, <2>2
    <3>2. Done'
      BY <1>1, <1>4, <2>2, <3>1, DoneRead
    <3>3. Pending'
      BY <1>2, <2>1, <2>2 DEF Pending
    <3> QED
      BY <1>2, <3>2, <3>3
  <2>3. CASE call.op = "write" /\ got' = got /\ Look' = [Look EXCEPT ![call.cluster] = Written(Look)]
    BY <1>1, <1>2, <1>4, <2>1, <2>3, DoneWrite
  <2> QED
    BY <2>1, <2>2, <2>3
<1> QED
  BY <1>3, <1>4

(* The file s is at least as long as before, and all files keep the        *)
(* clusters they have.                                                     *)
Begun(s, end) ==
    /\ s \in Used(root)
    /\ \/ root' = root /\ fat' = fat /\ end <= root[s].size
       \/ root' = WithSize(root, s, end) /\ end > root[s].size
    /\ \A t \in Used(root) : Agree(fat, fat', root[t].cluster, Size(root[t]) - 1)

(* fat12_rw_aux up to its loop, when nothing goes wrong.                   *)
LEMMA CallBegins ==
    ASSUME StoreInv, risk' # "lost",
           NEW op \in {"read", "write"}, NEW s \in Slots, NEW offset \in Nat, NEW len \in Nat, NEW byte,
           fat12_rw_aux(op, s, offset, len, byte)
    PROVE  /\ Start(op, s, offset, len, byte) /\ pc' \in {"rw", "info"} /\ risk' = risk
           /\ Look = Under /\ Look' = Look /\ Under' = Under
           /\ Begun(s, offset + len)
<1> DEFINE end == offset + len
           q == [root EXCEPT ![s].size = end]
<1>1. /\ FileInv /\ SaveInv /\ FloppyInv
      /\ pc = "idle" /\ syc = NoSyc
  BY DEF StoreInv, fat12_rw_aux
<1>2. /\ root \in [Slots -> FileType] /\ fat \in [Entries -> FatValues] /\ end \in Nat
      /\ root[s].size \in Nat /\ risk \in {"none", "torn", "lost"}
  BY <1>1, FloppyTyped, NatSum, SizeFacts
<1>3. Look = Under
  BY <1>1, Settled
<1>4. q = WithSize(root, s, end)
  BY DEF WithSize
<1>5. ~RwWild(s, offset, len)
  BY DEF RwWild, Stop
<1>6. root[s].cluster \in DataClusters /\ s \in Used(root)
  <2>1. root[s].cluster \in DataClusters
    BY <1>5 DEF fat12_rw_aux
  <2> QED
    BY <2>1, <1>1, ClusterIsUsed DEF FloppyInv
<1>7. CASE RwInPlace(op, s, offset, len, byte)
  <2>1. /\ Start(op, s, offset, len, byte) /\ pc' = "rw" /\ UNCHANGED <<cache, fat, risk, disk>>
        /\ root' = IF end > root[s].size THEN q ELSE root
    BY <1>7 DEF RwInPlace, Start
  <2>2. Look' = Look /\ Under' = Under
    BY <2>1, LookKept
  <2> HIDE DEF end, q
  <2>3. \/ root' = root /\ end <= root[s].size
        \/ root' = WithSize(root, s, end) /\ end > root[s].size
    BY <1>2, <1>4, <2>1
  <2>4. \A t \in Used(root) : Agree(fat, fat', root[t].cluster, Size(root[t]) - 1)
    BY <2>1 DEF Agree
  <2>5. Begun(s, end)
    BY <1>6, <2>1, <2>3, <2>4 DEF Begun
  <2> QED
    BY <1>3, <2>1, <2>2, <2>5 DEF end
<1>8. CASE RwGrows(op, s, offset, len, byte)
  <2> DEFINE n == Grows(s, end)
             a == Appended(fat, Last(Chain(fat, root[s].cluster)), n)
  <2>1. end > root[s].size /\ n # 0
    BY <1>8 DEF RwGrows
  <2>2. n \in Nat
    BY <1>1, <1>2, <2>1, GrowsByAClusterOrMore DEF FileInv
  <2>3. ~a.wild
    BY <1>8 DEF RwGrows, Stop
  <2>4. /\ Start(op, s, offset, len, byte) /\ UNCHANGED disk /\ pc' = "info"
        /\ fat' = a.fat /\ root' = q
        /\ cache' = [WithInfo EXCEPT !.buffer = Over(InfoSectors(a.fat, q), @)]
        /\ risk' = IF a.full \/ risk # "none" THEN "lost" ELSE risk
    BY <1>8, <2>3 DEF RwGrows, Start
  <2>5. ~a.full /\ risk = "none" /\ risk' = risk
    BY <2>4
  <2>6. Look' = Look /\ Under' = Under
    <3> HIDE DEF a, q
    <3>1. cache' = [WithInfo EXCEPT !.buffer = Over(InfoSectors(fat', root'), @)]
      BY <2>4
    <3> QED
      BY <1>1, <2>4, <3>1, LookInfo
  <2>7. Tight(fat, root)
    BY <1>1, <2>5 DEF FloppyInv
  <2> DEFINE c == root[s].cluster
             k == Size(root[s])
  <2>8. Chained(fat, c, k) /\ fat[0] # 0 /\ fat[1] # 0
    BY <1>6, <2>7 DEF Tight
  <2>9. a = Appended(fat, Steps(fat, c)[k - 1], n)
    BY <2>8, ChainIsPath
  <2>10. Grown(fat, c, k, n, a.fat, a.last)
    <3> HIDE DEF a, c, k, n
    <3>1. ~Appended(fat, Steps(fat, c)[k - 1], n).full
      BY <2>5, <2>9
    <3>2. Grown(fat, c, k, n, Appended(fat, Steps(fat, c)[k - 1], n).fat,
                Appended(fat, Steps(fat, c)[k - 1], n).last)
      BY <1>2, <2>2, <2>8, <3>1, AppendedGrown
    <3> QED
      BY <2>9, <3>2
  <2>11. /\ q \in [Slots -> FileType] /\ Used(q) = Used(root)
         /\ q[s].cluster = root[s].cluster /\ q[s].size = end
         /\ OthersSame(root, q, s)
    <3>1. /\ q \in [Slots -> FileType] /\ Used(q) = Used(root)
          /\ q[s].cluster = root[s].cluster /\ q[s].size = end
          /\ \A t \in Slots : t # s => q[t] = root[t]
      <4> HIDE DEF q, end
      <4> QED
        BY <1>2, <1>4, <1>6, Resized
    <3> HIDE DEF q, end
    <3> QED
      BY <3>1, UsedIsSlots DEF OthersSame
  <2>12. Size(q[s]) = Size(root[s]) + n
    <3>1. n = Needed(end) - Needed(root[s].size)
      BY DEF Grows
    <3>2. Needed(end) \in Nat /\ Needed(root[s].size) \in Nat
      BY <1>2, NeededFacts
    <3> HIDE DEF q, end, n
    <3> QED
      BY <2>11, <3>1, <3>2 DEF Size
  <2> DEFINE h == a.fat
             l == a.last
  <2>13. Grown(fat, root[s].cluster, Size(root[s]), n, h, l)
    BY <2>10
  <2> HIDE DEF h, l, a, q, end, n
  <2>14. \A t \in Used(root) : Agree(fat, h, root[t].cluster, Size(root[t]) - 1)
    BY <1>2, <1>6, <2>2, <2>7, <2>11, <2>12, <2>13, GrownTight
  <2>15. Begun(s, end)
    BY <1>4, <1>6, <2>1, <2>4, <2>14 DEF Begun, h
  <2> QED
    BY <1>3, <2>4, <2>5, <2>6, <2>15 DEF end
<1> QED
  BY <1>5, <1>7, <1>8 DEF fat12_rw_aux

LEMMA DataRw ==
    ASSUME StoreInv,
           NEW op \in {"read", "write"}, NEW s \in Slots, NEW offset \in Nat, NEW len \in Nat, NEW byte,
           fat12_rw_aux(op, s, offset, len, byte)
    PROVE  DataInv'
<1>1. SUFFICES ASSUME risk' # "lost" PROVE DataInv'
  BY DEF DataInv
<1> DEFINE end == offset + len
<1>2. /\ Start(op, s, offset, len, byte) /\ pc' \in {"rw", "info"}
      /\ Look' = Under' /\ Begun(s, end)
  BY <1>1, CallBegins
<1>3. root \in [Slots -> FileType] /\ root[s].size \in Nat /\ end \in Nat
  BY FloppyTyped, NatSum, SizeFacts DEF StoreInv
<1> HIDE DEF end
<1>4. s \in Used(root') /\ root'[s].cluster = root[s].cluster /\ end <= root'[s].size
  <2>1. CASE root' = root /\ end <= root[s].size
    BY <1>2, <2>1 DEF Begun
  <2>2. CASE root' = WithSize(root, s, end)
    <3>1. /\ Used(root') = Used(root)
          /\ root'[s].cluster = root[s].cluster /\ root'[s].size = end
      BY <1>2, <1>3, <2>2, Resized DEF Begun
    <3> QED
      BY <1>2, <1>3, <3>1 DEF Begun
  <2> QED
    BY <1>2, <2>1, <2>2 DEF Begun
<1> QED
  BY <1>2, <1>4, DataStarts DEF end

LEMMA DataStep ==
    ASSUME StoreInv, DataInv, [Next]_vars
    PROVE  DataInv'
<1>1. FileInv /\ SaveInv
  BY DEF StoreInv
<1>2. CASE Boot
  <2>1. /\ UNCHANGED <<disk, syc, call, got, risk>> /\ pc = "boot" /\ pc' = "info" /\ cache' = WithInfo
    BY <1>2 DEF Boot, fat12_init
  <2>2. syc = NoSyc
    BY <1>1, <2>1 DEF SaveInv
  <2>3. Look' = Look /\ Under' = Under
    BY <1>1, <2>1, LookInfo
  <2> QED
    BY <1>1, <2>1, <2>2, <2>3, DataQuiet
<1>3. CASE Device
  <2>1. UNCHANGED <<call, got, fat, root, risk, pc>>
    BY <1>3 DEF Device, fatVars
  <2> QED
    BY <1>1, <1>3, <2>1, LookDevice, DataSame
<1>4. CASE CallTurn
  <2>1. CASE set_info_put
    <3>1. UNCHANGED <<call, got, fat, root, risk, pc, disk>> /\ disk_buffer_put(cache, put)
      BY <2>1 DEF set_info_put
    <3>2. cache'.buffer = cache.buffer
      <4>1. CacheOK(cache)
        BY <1>1 DEF FileInv, BufferInv
      <4> QED
        BY <3>1, <4>1 DEF disk_buffer_put, CacheOK
    <3>3. Look' = Look /\ Under' = Under
      BY <3>1, <3>2, LookKept
    <3> QED
      BY <3>1, <3>3, DataSame
  <2>2. CASE set_info_return
    BY <1>1, <2>2, DataReturn
  <2>3. CASE rw_turn
    BY <2>3, DataTurn
  <2>4. CASE rw_wild
    BY <2>4 DEF rw_wild, Stop, DataInv
  <2>5. CASE rw_return
    <3>1. /\ call' = NoCall /\ got' = <<>> /\ pc' = "idle" /\ UNCHANGED <<disk, cache>>
          /\ pc = "return" /\ syc = NoSyc
      BY <2>5 DEF rw_return
    <3>2. Look = Under
      BY <1>1, <3>1, Settled
    <3>3. Look' = Look /\ Under' = Under
      BY <3>1, LookKept
    <3> QED
      BY <3>1, <3>2, <3>3, DataIdle
  <2> QED
    BY <1>4, <2>1, <2>2, <2>3, <2>4, <2>5 DEF CallTurn
<1>5. ASSUME UNCHANGED <<disk, cache, call, got>>, pc = "idle", syc = NoSyc,
             pc' \notin {"rw", "return"}, risk' # "lost" => risk # "lost"
      PROVE  DataInv'
  <2>1. Look' = Look /\ Under' = Under
    BY <1>5, LookKept
  <2> QED
    BY <1>1, <1>5, <2>1, DataQuiet
<1>6. ASSUME NEW n \in NAMES, NEW pos \in POSITIONS, sys_open(n, pos)
      PROVE  DataInv'
  BY <1>5, <1>6 DEF sys_open, Ready, bufferVars
<1>7. ASSUME NEW d \in Descriptors, NEW len \in LENGTHS,
             \/ sys_read(d, len)
             \/ \E byte \in BYTES : sys_write(d, len, byte)
      PROVE  DataInv'
  <2>1. PICK op \in {"read", "write"}, s \in Slots, offset \in Nat, byte \in BYTES \cup {""} :
              fat12_rw_aux(op, s, offset, len, byte)
    BY <1>1, <1>7, ReadWriteCalls
  <2>2. len \in Nat
    BY FileSysAssumption
  <2> QED
    BY <2>1, <2>2, DataRw
<1>8. ASSUME NEW d \in Descriptors, UseWithoutInode(d) \/ CloseBug(d) \/ sys_close(d)
      PROVE  DataInv'
  BY <1>5, <1>8 DEF UseWithoutInode, CloseBug, sys_close, Ready, bufferVars
<1>9. CASE ChangeDirectory
  <2>1. PICK n \in NAMES : fat12_create(n) \/ fat12_remove(n)
    BY <1>9 DEF ChangeDirectory
  <2>2. CASE fat12_create(n)
    <3>1. /\ UNCHANGED <<disk, cache, call, got, pc>> /\ pc = "idle" /\ syc = NoSyc
          /\ risk' = risk \/ risk' = "lost"
      BY <2>2 DEF fat12_create
    <3> QED
      BY <1>5, <3>1
  <2>3. CASE fat12_remove(n)
    <3>1. /\ UNCHANGED <<disk, cache, call, got>> /\ pc = "idle" /\ syc = NoSyc /\ pc' \in {"idle", "wild"}
          /\ risk' = risk \/ risk' = "lost"
      BY <2>3 DEF fat12_remove, Stop
    <3> QED
      BY <1>5, <3>1
  <2> QED
    BY <2>1, <2>2, <2>3
<1>10. CASE PowerFails
  <2>1. call' = NoCall /\ got' = <<>> /\ pc' = "boot"
    BY <1>10 DEF PowerFails
  <2> QED
    BY <1>10, <2>1, LookPower, DataIdle
<1>11. CASE UNCHANGED vars
  <2>1. UNCHANGED <<call, got, fat, root, risk, pc, disk, cache>>
    BY <1>11 DEF vars, fatVars, bufferVars
  <2> QED
    BY <2>1, LookKept, DataSame
<1> QED
  BY <1>2, <1>3, <1>4, <1>6, <1>7, <1>8, <1>9, <1>10, <1>11 DEF Next, Idle

(* A call has read, or written, its window up to where it is, and what is  *)
(* in a buffer and not on the floppy is in the window of a write.          *)
THEOREM WindowInvariance == Spec => [](StoreInv /\ DataInv)
<1>1. Init => DataInv
  <2>1. SUFFICES ASSUME Init PROVE DataInv
    OBVIOUS
  <2>2. call = NoCall /\ got = <<>> /\ pc = "boot" /\ cache = disk_buffer_init
    BY <2>1 DEF Init
  <2>3. Look = Under
    BY <2>2 DEF Look, Under, Content, disk_buffer_init
  <2>4. CallKnown
    BY <2>2 DEF CallKnown
  <2>5. Pending
    BY <2>3 DEF Pending
  <2>6. Done
    BY <2>2 DEF Done
  <2> QED
    BY <2>4, <2>5, <2>6 DEF DataInv
<1>2. StoreInv /\ DataInv /\ [Next]_vars => DataInv'
  BY DataStep
<1> QED
  BY <1>1, <1>2, FloppyInvariance, PTL DEF Spec

(***************************************************************************)
(* Two views of the files                                                  *)
(***************************************************************************)
FileView(v) == v = [t \in Slots |-> [name |-> v[t].name, data |-> v[t].data]]

LEMMA SeenFacts ==
    ASSUME NEW f, NEW r \in [Slots -> FileType], NEW look,
           NEW v, v = Seen(f, r, look)
    PROVE  /\ FileView(v) /\ DOMAIN v = Slots
           /\ \A s \in Slots :
                 /\ v[s].name = r[s].name
                 /\ v[s].data = [i \in 1 .. r[s].size |-> Cell(f, r[s], look, i)]
                 /\ Len(v[s].data) = r[s].size /\ DOMAIN v[s].data = 1 .. r[s].size
                 /\ r[s].size \in Nat
<1>1. ASSUME NEW s \in Slots
      PROVE  /\ v[s] = [name |-> v[s].name, data |-> v[s].data]
             /\ v[s].name = r[s].name
             /\ v[s].data = [i \in 1 .. r[s].size |-> Cell(f, r[s], look, i)]
  BY DEF Seen
<1>2. v = [s \in Slots |-> v[s]] /\ DOMAIN v = Slots
  BY DEF Seen
<1>3. FileView(v)
  BY <1>1, <1>2 DEF FileView
<1>4. ASSUME NEW s \in Slots
      PROVE  Len(v[s].data) = r[s].size /\ DOMAIN v[s].data = 1 .. r[s].size /\ r[s].size \in Nat
  <2>1. r[s].size \in Nat
    BY SizeFacts
  <2> DEFINE n == r[s].size
             C(i) == Cell(f, r[s], look, i)
  <2>2. v[s].data = [i \in 1 .. n |-> C(i)] /\ n \in Nat
    BY <1>1, <2>1
  <2> HIDE DEF n, C
  <2>3. Len(v[s].data) = n /\ DOMAIN v[s].data = 1 .. n
    BY <2>2
  <2> QED
    BY <2>1, <2>3 DEF n
<1> QED
  BY <1>1, <1>2, <1>3, <1>4

WithData(v, s, d) == [v EXCEPT ![s].data = d]

LEMMA OneFile ==
    ASSUME NEW v, NEW w, FileView(v), FileView(w), NEW s \in Slots,
           w[s].name = v[s].name, \A t \in Slots : t # s => w[t] = v[t]
    PROVE  w = WithData(v, s, w[s].data)
<1> DEFINE d == w[s].data
           u == [v[s] EXCEPT !.data = d]
<1>1. WithData(v, s, d) = [v EXCEPT ![s] = u]
  BY Zenon DEF WithData
<1>2. v[s] = [name |-> v[s].name, data |-> v[s].data]
  BY DEF FileView
<1>3. u = [name |-> v[s].name, data |-> d]
  <2> DEFINE x == v[s]
             n == v[s].name
             e == v[s].data
  <2>1. x = [name |-> n, data |-> e]
    BY <1>2
  <2>2. u = [x EXCEPT !.data = d]
    OBVIOUS
  <2> HIDE DEF x, n, e, d, u
  <2>3. u = [name |-> n, data |-> d]
    BY <2>1, <2>2
  <2> QED
    BY <2>3 DEF n
<1>4. w[s] = [name |-> v[s].name, data |-> d]
  BY DEF FileView
<1>5. DOMAIN v = Slots /\ v = [t \in Slots |-> v[t]] /\ w = [t \in Slots |-> w[t]]
  BY DEF FileView
<1> HIDE DEF u, d
<1>6. [v EXCEPT ![s] = u] = [t \in Slots |-> IF t = s THEN u ELSE v[t]]
  BY <1>5
<1>7. \A t \in Slots : w[t] = IF t = s THEN u ELSE v[t]
  BY <1>3, <1>4
<1>8. w = [v EXCEPT ![s] = u]
  BY <1>5, <1>6, <1>7
<1> QED
  BY <1>1, <1>8 DEF d

(* A file keeps its bytes when the entries on its way, but for the last,   *)
(* are the same.                                                           *)
LEMMA SameCell ==
    ASSUME NEW f, NEW g, NEW file \in FileType, Path(f, file.cluster, Size(file)),
           Agree(f, g, file.cluster, Size(file) - 1),
           NEW longer, longer.cluster = file.cluster, NEW look, NEW i \in 1 .. file.size
    PROVE  Cell(g, longer, look, i) = Cell(f, file, look, i)
<1>1. file.size \in Nat
  BY DEF FileType
<1>2. PlaceOf(i) \in 0 .. Size(file) - 1
  BY <1>1, PlaceInFile DEF Size
<1>3. Steps(g, file.cluster)[PlaceOf(i)] = Steps(f, file.cluster)[PlaceOf(i)]
  BY <1>2, SamePath
<1> QED
  BY <1>3 DEF Cell, Way

(* The cluster of a byte                                                   *)
LEMMA CellPlace ==
    ASSUME NEW f, NEW r \in [Slots -> FileType], Whole(f, r), NEW s \in Used(r),
           NEW i \in 1 .. r[s].size
    PROVE  /\ PlaceOf(i) \in 0 .. Size(r[s]) - 1 /\ PlaceOf(i) \in Nat
           /\ ByteOf(i) \in 1 .. SECTOR_SIZE
           /\ i = PlaceOf(i) * SECTOR_SIZE + ByteOf(i)
           /\ Way(f, r[s])[PlaceOf(i)] \in DataClusters
<1>1. r[s].size \in Nat /\ Size(r[s]) \in Nat
  BY UsedIsSlots, SizeFacts
<1>2. /\ PlaceOf(i) \in 0 .. Size(r[s]) - 1 /\ i \in Nat \ {0}
  BY <1>1, PlaceInFile DEF Size
<1>3. Path(f, r[s].cluster, Size(r[s]))
  BY DEF Whole
<1>4. Way(f, r[s])[PlaceOf(i)] \in DataClusters
  BY <1>2, <1>3 DEF Path, Way
<1> QED
  BY <1>2, <1>4, BytePlace

LEMMA FreeData ==
    ASSUME NEW r, FreeIsEmpty(r), NEW s \in Slots, s \notin Used(r)
    PROVE  1 .. r[s].size = {}
<1>1. r[s] = NoFile
  BY Zenon DEF FreeIsEmpty, Used
<1>2. NoFile.size = 0
  BY DEF NoFile
<1>3. r[s].size = 0
  BY <1>1, <1>2
<1> QED
  BY <1>3

(* Slots that are free in both, or in use and the same, are seen the same. *)
LEMMA SameSlot ==
    ASSUME NEW f, NEW r \in [Slots -> FileType], Whole(f, r), FreeIsEmpty(r), NEW look,
           NEW g, NEW q \in [Slots -> FileType], NEW view,
           NEW s \in Slots, q[s] = r[s],
           s \in Used(r) => Agree(f, g, r[s].cluster, Size(r[s]) - 1),
           s \in Used(r) => \A i \in 0 .. Size(r[s]) - 1 : view[Way(f, r[s])[i]] = look[Way(f, r[s])[i]]
    PROVE  Seen(g, q, view)[s] = Seen(f, r, look)[s]
<1>1. CASE s \in Used(r)
  <2>1. ASSUME NEW i \in 1 .. r[s].size
        PROVE  Cell(g, r[s], view, i) = Cell(f, r[s], look, i)
    <3>1. r[s] \in FileType /\ Path(f, r[s].cluster, Size(r[s]))
      BY <1>1, SizeFacts DEF Whole
    <3>2. Cell(g, r[s], view, i) = Cell(f, r[s], view, i)
      BY <1>1, <3>1, SameCell
    <3>3. PlaceOf(i) \in 0 .. Size(r[s]) - 1
      BY <1>1, CellPlace
    <3> QED
      BY <1>1, <3>2, <3>3 DEF Cell
  <2> QED
    BY <2>1 DEF Seen
<1>2. CASE s \notin Used(r)
  <2>1. 1 .. r[s].size = {}
    BY <1>2, FreeData
  <2> QED
    BY <2>1 DEF Seen
<1> QED
  BY <1>1, <1>2

LEMMA SlotSeen ==
    ASSUME NEW f, NEW r \in [Slots -> FileType], Whole(f, r), FreeIsEmpty(r), NEW look,
           NEW g, NEW q \in [Slots -> FileType]
    PROVE  \A s \in Slots :
              q[s] = r[s] /\ (s \in Used(r) => Agree(f, g, r[s].cluster, Size(r[s]) - 1))
              => Seen(g, q, look)[s] = Seen(f, r, look)[s]
<1>1. ASSUME NEW s \in Slots, q[s] = r[s], s \in Used(r),
             Agree(f, g, r[s].cluster, Size(r[s]) - 1)
      PROVE  Seen(g, q, look)[s] = Seen(f, r, look)[s]
  BY <1>1, SameSlot
<1>2. ASSUME NEW s \in Slots, q[s] = r[s], s \notin Used(r)
      PROVE  Seen(g, q, look)[s] = Seen(f, r, look)[s]
  <2>1. 1 .. r[s].size = {}
    BY <1>2, FreeData
  <2> QED
    BY <1>2, <2>1 DEF Seen
<1> QED
  BY <1>1, <1>2

(* The directory grows, or a file does.                                    *)
LEMMA OthersSeen ==
    ASSUME NEW f, NEW r \in [Slots -> FileType], Whole(f, r), FreeIsEmpty(r), NEW look,
           NEW g, NEW q \in [Slots -> FileType],
           \A t \in Used(r) : Agree(f, g, r[t].cluster, Size(r[t]) - 1),
           NEW s \in Slots, \A t \in Slots : t # s => q[t] = r[t]
    PROVE  \A t \in Slots : t # s => Seen(g, q, look)[t] = Seen(f, r, look)[t]
BY SameSlot

(***************************************************************************)
(* Each step as one of FileStore                                           *)
(***************************************************************************)
Request == [op |-> call.op, slot |-> call.slot, offset |-> call.offset,
            len |-> call.len, byte |-> call.byte]

RequestRule ==
    /\ call = NoCall => Request = Store!NoRequest
    /\ call.op \in {"read", "write"} => Request # Store!NoRequest

LEMMA Requests == RequestRule
<1>1. call = NoCall => Request = Store!NoRequest
  <2>1. SUFFICES ASSUME call = NoCall PROVE Request = Store!NoRequest
    OBVIOUS
  <2>2. /\ NoCall.op = "none" /\ NoCall.slot = 0 /\ NoCall.offset = 0 /\ NoCall.len = 0
        /\ NoCall.byte = ""
    BY Zenon DEF NoCall
  <2> QED
    BY <2>1, <2>2, Zenon DEF Request, Store!NoRequest
<1>2. call.op \in {"read", "write"} => Request # Store!NoRequest
  <2>1. Store!NoRequest.op = "none"
    BY Zenon DEF Store!NoRequest
  <2>2. Request.op = call.op
    BY DEF Request
  <2> QED
    BY <2>1, <2>2
<1> QED
  BY <1>1, <1>2 DEF RequestRule

LEMMA Prefix ==
    ASSUME NEW p \in Nat, NEW q \in Nat, p <= q, NEW s, NEW t,
           s = [i \in 1 .. p |-> s[i]], t = [i \in 1 .. q |-> t[i]],
           \A i \in 1 .. p : s[i] = t[i]
    PROVE  Store!IsPrefix(s, t)
<1>1. Len(s) = p /\ Len(t) = q
  BY DEF Len
<1>2. SubSeq(s, 1, p) = s /\ SubSeq(t, 1, p) = s
  <2> DEFINE S == {s[i] : i \in 1 .. p} \cup {t[i] : i \in 1 .. q}
  <2>1. s \in Seq(S) /\ t \in Seq(S)
    <3>1. s \in [1 .. p -> S] /\ t \in [1 .. q -> S]
      OBVIOUS
    <3> HIDE DEF S
    <3> QED
      BY <3>1
  <2>2. \A i \in 1 .. p : s[i] \in S /\ t[i] \in S
    OBVIOUS
  <2> HIDE DEF S
  <2>3. ASSUME NEW x, \A i \in 1 .. p : x[i] \in S
        PROVE  /\ SubSeq(x, 1, p) \in Seq(S) /\ Len(SubSeq(x, 1, p)) = p
               /\ \A i \in 1 .. p : SubSeq(x, 1, p)[i] = x[i]
    <3> DEFINE y == SubSeq(x, 1, p)
    <3>1. /\ y \in Seq(S) /\ Len(y) = IF 1 <= p THEN p - 1 + 1 ELSE 0
          /\ \A i \in 1 .. p - 1 + 1 : y[i] = x[1 + i - 1]
      <4>1. 1 \in Int /\ p \in Int
        OBVIOUS
      <4> QED
        BY <2>3, <4>1, SubSeqProperties
    <3> HIDE DEF y
    <3>2. y \in Seq(S) /\ Len(y) = p /\ \A i \in 1 .. p : y[i] = x[i]
      BY <3>1
    <3> QED
      BY <3>2 DEF y
  <2>4. \A x \in Seq(S) : Len(x) = p /\ (\A i \in 1 .. p : x[i] = s[i]) => x = s
    BY <1>1, <2>1
  <2>5. SubSeq(s, 1, p) = s
    BY <2>2, <2>3, <2>4
  <2>6. \A i \in 1 .. p : SubSeq(t, 1, p)[i] = s[i]
    BY <2>2, <2>3
  <2> QED
    BY <2>2, <2>3, <2>4, <2>5, <2>6
<1> QED
  BY <1>1, <1>2 DEF Store!IsPrefix

(* A free slot is an absent file.                                          *)
LEMMA AbsentSeen ==
    ASSUME NEW f, NEW r \in [Slots -> FileType], FreeIsEmpty(r), NEW look, NEW s \in Slots
    PROVE  /\ s \in Used(r) => Seen(f, r, look)[s] # Store!Absent
           /\ s \notin Used(r) => Seen(f, r, look)[s] = Store!Absent
<1> DEFINE v == Seen(f, r, look)
<1>1. v[s].name = r[s].name /\ v[s] = [name |-> v[s].name, data |-> v[s].data]
      /\ v[s].data = [i \in 1 .. r[s].size |-> Cell(f, r[s], look, i)]
  BY SeenFacts DEF FileView
<1> HIDE DEF v
<1>2. s \in Used(r) => v[s] # Store!Absent
  <2>1. Store!Absent.name = ""
    BY Zenon DEF Store!Absent
  <2> QED
    BY <1>1, <2>1, Zenon DEF Used
<1>3. ASSUME s \notin Used(r) PROVE v[s] = Store!Absent
  <2>1. r[s].name = "" /\ r[s] = NoFile
    BY <1>3, Zenon DEF FreeIsEmpty, Used
  <2>2. NoFile.size = 0
    BY DEF NoFile
  <2>3. v[s].data = <<>>
    <3>1. r[s].size = 0
      BY <2>1, <2>2
    <3>2. 1 .. r[s].size = {}
      BY <3>1
    <3> QED
      BY <1>1, <3>2
  <2> QED
    BY <1>1, <2>1, <2>3, Zenon DEF Store!Absent
<1> QED
  BY <1>2, <1>3 DEF v

(* What holds of a state whose promise stands                              *)
Stands == StoreInv /\ DataInv /\ risk # "lost"

StandsFacts ==
    /\ NowSound /\ FilesNow /\ RequestRule
    /\ FileInv /\ SaveInv /\ CallKnown /\ Pending /\ Done
    /\ FileView(Files) /\ DOMAIN Files = Slots
    /\ \A s \in Slots :
          /\ Files[s].name = RootNow[s].name
          /\ Files[s].data = [i \in 1 .. RootNow[s].size |-> Cell(FatNow, RootNow[s], Look, i)]
          /\ Len(Files[s].data) = RootNow[s].size /\ DOMAIN Files[s].data = 1 .. RootNow[s].size
          /\ RootNow[s].size \in Nat
          /\ s \in Used(RootNow) => Files[s] # Store!Absent
          /\ s \notin Used(RootNow) => Files[s] = Store!Absent

LEMMA StandsMeans == Stands => StandsFacts
<1>1. SUFFICES ASSUME Stands PROVE StandsFacts
  OBVIOUS
<1>2. StoreInv /\ DataInv /\ risk # "lost"
  BY <1>1 DEF Stands
<1>3. NowSound /\ FilesNow
  BY <1>2, FilesAre
<1>4. RequestRule
  BY Requests
<1>5. FileInv /\ SaveInv /\ CallKnown /\ Pending /\ Done
  BY <1>2 DEF StoreInv, DataInv
<1>6. RootNow \in [Slots -> FileType] /\ FreeIsEmpty(RootNow) /\ Files = Seen(FatNow, RootNow, Look)
  BY <1>3 DEF NowSound, FilesNow
<1>7. FileView(Files) /\ DOMAIN Files = Slots
  BY <1>6, SeenFacts
<1>8. ASSUME NEW s \in Slots
      PROVE  /\ Files[s].name = RootNow[s].name
             /\ Files[s].data = [i \in 1 .. RootNow[s].size |-> Cell(FatNow, RootNow[s], Look, i)]
             /\ Len(Files[s].data) = RootNow[s].size /\ DOMAIN Files[s].data = 1 .. RootNow[s].size
             /\ RootNow[s].size \in Nat
             /\ s \in Used(RootNow) => Files[s] # Store!Absent
             /\ s \notin Used(RootNow) => Files[s] = Store!Absent
  BY <1>6, SeenFacts, AbsentSeen
<1> QED
  BY <1>3, <1>4, <1>5, <1>7, <1>8, Zenon DEF StandsFacts

LEMMA StandsNext == Stands' => StandsFacts'
BY StandsMeans, PTL

(* Nothing a read finds has changed.                                       *)
LEMMA SameStore ==
    ASSUME Stands, Stands', FatNow' = FatNow, RootNow' = RootNow, Look' = Look,
           UNCHANGED <<Request, got>>
    PROVE  UNCHANGED Store!vars
<1>1. FilesNow /\ FilesNow'
  BY StandsMeans, StandsNext DEF StandsFacts
<1>2. Files' = Files
  BY <1>1 DEF FilesNow
<1>3. (risk # "lost")' = (risk # "lost")
  BY DEF Stands
<1> QED
  BY <1>2, <1>3 DEF Store!vars, Request

LEMMA BeginImage ==
    ASSUME Stands, Stands',
           NEW op \in {"read", "write"}, NEW s \in Slots, NEW offset \in Nat, NEW len \in Nat, NEW byte,
           fat12_rw_aux(op, s, offset, len, byte)
    PROVE  Store!Begin
<1> DEFINE end == offset + len
           v == Files
           w == Files'
<1>1. StandsFacts /\ StandsFacts' /\ StoreInv /\ risk # "lost" /\ risk' # "lost"
  BY StandsMeans, StandsNext DEF Stands
<1>2. /\ Start(op, s, offset, len, byte) /\ pc' \in {"rw", "info"} /\ Look' = Look
      /\ Begun(s, end)
  BY <1>1, CallBegins
<1>3. FatNow = fat /\ RootNow = root /\ FatNow' = fat' /\ RootNow' = root'
  <2>1. pc = "idle"
    BY DEF fat12_rw_aux
  <2> QED
    BY <1>2, <2>1 DEF FatNow, RootNow
<1>4. Request = Store!NoRequest
  <2>1. call = NoCall
    BY <1>1 DEF fat12_rw_aux, StandsFacts, CallKnown
  <2> QED
    BY <1>1, <2>1 DEF StandsFacts, RequestRule
<1>5. /\ Request'.op = op /\ Request'.slot = s /\ Request'.offset = offset /\ Request'.len = len
      /\ got' = <<>>
  BY <1>2 DEF Request, Start
<1>6. /\ s \in Used(root) /\ root \in [Slots -> FileType] /\ root' \in [Slots -> FileType]
      /\ Whole(fat, root) /\ FreeIsEmpty(root)
      /\ v = Seen(fat, root, Look) /\ w = Seen(fat', root', Look)
      /\ root[s].size \in Nat /\ end \in Nat
  BY <1>1, <1>2, <1>3, NatSum, SizeFacts DEF StandsFacts, NowSound, FilesNow, Begun
<1> HIDE DEF v, w
<1>7. /\ root'[s].name = root[s].name /\ root'[s].cluster = root[s].cluster
      /\ root'[s].size = IF end > root[s].size THEN end ELSE root[s].size
      /\ \A t \in Slots : t # s => root'[t] = root[t]
  <2> HIDE DEF end
  <2>1. CASE root' = root /\ end <= root[s].size
    BY <1>6, <2>1
  <2>2. CASE root' = WithSize(root, s, end) /\ end > root[s].size
    <3>1. /\ root'[s].name = root[s].name /\ root'[s].cluster = root[s].cluster
          /\ root'[s].size = end
          /\ \A t \in Slots : t # s => root'[t] = root[t]
      BY <1>6, <2>2, Resized
    <3> QED
      BY <2>2, <3>1
  <2> QED
    BY <1>2, <2>1, <2>2 DEF Begun
<1>8. \A t \in Slots : t # s => w[t] = v[t]
  BY <1>2, <1>6, <1>7, OthersSeen DEF Begun
<1>9. /\ FileView(v) /\ FileView(w)
      /\ v[s].name = root[s].name /\ w[s].name = root'[s].name
      /\ v[s].data = [i \in 1 .. root[s].size |-> Cell(fat, root[s], Look, i)]
      /\ w[s].data = [i \in 1 .. root'[s].size |-> Cell(fat', root'[s], Look, i)]
      /\ Len(v[s].data) = root[s].size /\ Len(w[s].data) = root'[s].size
  <2> DEFINE q == root'
             g == fat'
             look == Look
  <2>1. /\ root \in [Slots -> FileType] /\ v = Seen(fat, root, look)
        /\ q \in [Slots -> FileType] /\ w = Seen(g, q, look)
    BY <1>6
  <2> HIDE DEF q, g, look
  <2>2. /\ FileView(v) /\ v[s].name = root[s].name
        /\ v[s].data = [i \in 1 .. root[s].size |-> Cell(fat, root[s], look, i)]
        /\ Len(v[s].data) = root[s].size
    BY <2>1, SeenFacts
  <2>3. /\ FileView(w) /\ w[s].name = q[s].name
        /\ w[s].data = [i \in 1 .. q[s].size |-> Cell(g, q[s], look, i)]
        /\ Len(w[s].data) = q[s].size
    BY <2>1, SeenFacts
  <2> QED
    BY <2>2, <2>3 DEF q, g, look
<1>10. w = WithData(v, s, w[s].data)
  BY <1>7, <1>8, <1>9, OneFile
<1>11. Store!IsPrefix(v[s].data, w[s].data)
  <2> DEFINE x == v[s].data
             y == w[s].data
             p == root[s].size
             q == root'[s].size
  <2>1. p \in Nat /\ q \in Nat /\ p <= q
    <3> HIDE DEF end
    <3> QED
      BY <1>6, <1>7
  <2>2. ASSUME NEW i \in 1 .. p
        PROVE  x[i] = y[i]
    <3>1. i \in 1 .. q
      <4> HIDE DEF p, q
      <4> QED
        BY <2>1
    <3>2. /\ Path(fat, root[s].cluster, Size(root[s])) /\ root[s] \in FileType
          /\ Agree(fat, fat', root[s].cluster, Size(root[s]) - 1)
      BY <1>2, <1>6 DEF Whole, Begun
    <3>3. Cell(fat', root'[s], Look, i) = Cell(fat, root[s], Look, i)
      BY <1>7, <3>2, SameCell
    <3> QED
      BY <1>9, <3>1, <3>3
  <2>3. x = [i \in 1 .. p |-> x[i]] /\ y = [i \in 1 .. q |-> y[i]]
    BY <1>9
  <2> HIDE DEF x, y, p, q
  <2>4. Store!IsPrefix(x, y)
    BY <2>1, <2>2, <2>3, Prefix
  <2> QED
    BY <2>4 DEF x, y
<1>12. v[s] # Store!Absent
  BY <1>6, AbsentSeen
<1>13. Len(w[s].data) = IF end > Len(v[s].data) THEN end ELSE Len(v[s].data)
  BY <1>7, <1>9, Zenon
<1>14. w = [v EXCEPT ![s].data = w[s].data]
  BY <1>10, Zenon DEF WithData
<1> QED
  BY <1>4, <1>5, <1>11, <1>12, <1>13, <1>14, Zenon DEF Store!Begin, Request, v, w, end

(* A turn of the loop, as FileStore's variables see it                     *)
LEMMA TurnImage ==
    ASSUME Stands, Stands', rw_turn
    PROVE  Store!ReadSome \/ Store!WriteSome \/ UNCHANGED Store!vars
<1> DEFINE s == call.slot
           k == call.curr_sect
           m == k * SECTOR_SIZE
           S == SECTOR_SIZE
           o == call.offset
           e == call.offset + call.len
           A == Clamp(m)
           B == Clamp(m + S)
           file == root[s]
           n == Size(file)
           v == Files
           w == Files'
<1>1. StandsFacts /\ StandsFacts' /\ StoreInv /\ DataInv /\ risk # "lost" /\ risk' # "lost"
  BY StandsMeans, StandsNext DEF Stands
<1>2. /\ InWindow => k \in Nat /\ k < n /\ n \in Nat
      /\ call # NoCall /\ call' # NoCall /\ call \in CallType
      /\ k < n => call.cluster = Way(fat, file)[k]
      /\ Reached = A /\ Reached' = B
      /\ call'.op = call.op /\ call'.slot = s /\ call'.offset = o
      /\ call'.len = call.len /\ call'.byte = call.byte
      /\ s \in Used(root) /\ file.size \in Nat /\ e <= file.size /\ Path(fat, file.cluster, n)
  BY <1>1, TurnFacts
<1>3. Request' = Request
  BY <1>2 DEF Request
<1>4. /\ pc = "rw" /\ pc' \in {"rw", "return"} /\ fat' = fat /\ root' = root
      /\ FatNow = fat /\ RootNow = root /\ FatNow' = fat /\ RootNow' = root
  BY DEF FatNow, RootNow, rw_turn
<1>5. CASE ~InWindow
  <2>1. Look' = Look /\ got' = got
    BY <1>1, <1>5, DoneNothing
  <2> QED
    BY <1>3, <1>4, <2>1, SameStore
<1>6. CASE InWindow
  <2>1. /\ m \in Nat /\ A \in Nat /\ B \in Nat /\ o <= A /\ A <= B /\ B <= e
        /\ o \in Nat /\ e \in Nat /\ call.len \in Nat /\ e = o + call.len
        /\ s \in Slots
    <3>1. m \in Nat /\ A \in Nat /\ B \in Nat /\ o <= A /\ A <= B /\ B <= e
      BY <1>2, CopiedPart
    <3>2. call.offset \in Nat /\ call.len \in Nat /\ s \in Slots
      BY <1>2 DEF CallType
    <3>3. e \in Nat
      BY <3>2, NatSum
    <3> HIDE DEF m, A, B
    <3> QED
      BY <3>1, <3>2, <3>3
  <2>2. \/ call.op = "read" /\ Look' = Look
        \/ call.op = "write" /\ got' = got /\ Look' = [Look EXCEPT ![call.cluster] = Written(Look)]
    <3>1. FileInv /\ UNCHANGED disk /\ call.cluster \in DataClusters /\ Transfer
      BY <1>1, <1>6 DEF StoreInv, rw_turn
    <3> QED
      BY <3>1, LookTransfer
  <2>3. /\ FileView(v) /\ v = Seen(fat, root, Look)
        /\ v[s].data = [i \in 1 .. file.size |-> Cell(fat, file, Look, i)]
        /\ Whole(fat, root) /\ FreeIsEmpty(root) /\ root \in [Slots -> FileType]
    BY <1>1, <1>4, <2>1 DEF StandsFacts, FilesNow, NowSound
  <2>4. /\ FileView(w) /\ w = Seen(fat, root, Look')
    BY <1>1, <1>4 DEF StandsFacts, FilesNow
  <2> HIDE DEF v, w
  <2>5. CASE call.op = "read" /\ Look' = Look
    <3>1. w = v
      BY <2>3, <2>4, <2>5
    <3> DEFINE V(i) == Mine(o + i)
    <3>2. got = [i \in 1 .. A - o |-> V(i)]
      BY <1>1, <1>2, <2>5 DEF StandsFacts, Done
    <3>3. got' = [i \in 1 .. B - o |-> V(i)]
      <4>1. \A i : Mine(i)' = Mine(i)
        BY <1>2, <1>4, <2>5 DEF Mine
      <4>2. Done'
        BY <1>1 DEF StandsFacts
      <4> HIDE DEF Mine, Reached, A, B
      <4>3. Done' = (call' # NoCall =>
              /\ call'.op = "write" =>
                    got' = <<>> /\ \A i \in call'.offset + 1 .. Reached' : Mine(i)' = call'.byte
              /\ call'.op = "read" =>
                    got' = [i \in 1 .. Reached' - call'.offset |-> Mine(call.offset + i)'])
        BY DEF Done
      <4> QED
        BY <1>2, <2>5, <4>1, <4>2, <4>3
    <3>4. A - o \in Nat /\ B - o \in Nat /\ A - o <= B - o /\ B - o <= call.len
      <4> HIDE DEF A, B, e
      <4> QED
        BY <2>1
    <3>5. \A i \in 1 .. B - o : o + i \in 1 .. file.size
      <4> HIDE DEF A, B, e
      <4> QED
        BY <1>2, <2>1
    <3>6. \A i \in 1 .. B - o : v[s].data[o + i] = V(i)
      <4>1. \A j \in 1 .. file.size : v[s].data[j] = Mine(j)
        BY <2>3 DEF Mine
      <4> HIDE DEF file, v, A, B, o, Mine
      <4> QED
        BY <3>5, <4>1
    <3> HIDE DEF V, A, B, o
    <3>7. Store!IsPrefix(got, got')
      <4> DEFINE p == A - o
                 q == B - o
                 t == got'
      <4>1. /\ p \in Nat /\ q \in Nat /\ p <= q
            /\ got = [i \in 1 .. p |-> V(i)] /\ t = [i \in 1 .. q |-> V(i)]
        BY <3>2, <3>3, <3>4
      <4> HIDE DEF p, q, t
      <4>2. /\ got = [i \in 1 .. p |-> got[i]] /\ t = [i \in 1 .. q |-> t[i]]
            /\ \A i \in 1 .. p : got[i] = t[i]
        BY <4>1
      <4> QED
        BY <4>1, <4>2, Prefix DEF t
    <3>8. DOMAIN got' = 1 .. B - o /\ \A i \in 1 .. B - o : got'[i] = v[s].data[o + i] /\ i <= call.len
      <4>1. DOMAIN got' = 1 .. B - o /\ \A i \in 1 .. B - o : got'[i] = V(i)
        BY <3>3
      <4>2. \A i \in 1 .. B - o : i <= call.len
        BY <3>4, <2>1
      <4> QED
        BY <3>6, <4>1, <4>2
    <3>9. \A i \in DOMAIN got' : i <= call.len /\ got'[i] = v[s].data[o + i]
      BY <3>8
    <3>10. /\ Request.op = "read" /\ Request.slot = s /\ Request.offset = o /\ Request.len = call.len
      BY <2>5 DEF Request, o
    <3> HIDE DEF s
    <3>11. Store!ReadSome
      BY <1>3, <3>1, <3>7, <3>9, <3>10, Zenon DEF Store!ReadSome, Request, v, w
    <3> QED
      BY <3>11
  <2>6. CASE call.op = "write" /\ got' = got /\ Look' = [Look EXCEPT ![call.cluster] = Written(Look)]
    <3>1. call.cluster = Way(fat, file)[k] /\ k \in Nat /\ k < n /\ n \in Nat
      BY <1>2, <1>6
    <3>2. ASSUME NEW c \in DataClusters, NEW b \in 1 .. SECTOR_SIZE
          PROVE  Look'[c][b] = IF c = call.cluster /\ m + b \in A + 1 .. B THEN call.byte ELSE Look[c][b]
      BY <1>1, <1>6, <2>6, WriteAt
    <3>3. ASSUME NEW t \in Slots, t # s
          PROVE  w[t] = v[t]
      <4>1. t \in Used(root) =>
              \A i \in 0 .. Size(root[t]) - 1 : Look'[Way(fat, root[t])[i]] = Look[Way(fat, root[t])[i]]
        <5>1. SUFFICES ASSUME t \in Used(root), NEW i \in 0 .. Size(root[t]) - 1
                       PROVE  Look'[Way(fat, root[t])[i]] = Look[Way(fat, root[t])[i]]
          OBVIOUS
        <5>2. Way(fat, root[t])[i] # Way(fat, root[s])[k]
          <6>1. k \in 0 .. Size(root[s]) - 1
            <7> HIDE DEF k, n
            <7>1. k \in 0 .. n - 1
              BY <3>1
            <7> QED
              BY <7>1 DEF n
          <6> QED
            BY <1>2, <2>3, <3>3, <5>1, <6>1 DEF Whole, Apart
        <5>3. Way(fat, root[t])[i] \in DataClusters
          BY <2>3, <5>1 DEF Whole, Path, Way
        <5> QED
          BY <2>6, <3>1, <5>2, <5>3 DEF Look
      <4>2. Agree(fat, fat, root[t].cluster, Size(root[t]) - 1)
        BY DEF Agree
      <4> DEFINE look == Look
                 view == Look'
      <4>3. /\ t \in Used(root) =>
                  \A i \in 0 .. Size(root[t]) - 1 : view[Way(fat, root[t])[i]] = look[Way(fat, root[t])[i]]
            /\ v = Seen(fat, root, look) /\ w = Seen(fat, root, view)
        BY <4>1, <2>3, <2>4
      <4> HIDE DEF look, view
      <4>4. Whole(fat, root) /\ FreeIsEmpty(root) /\ root \in [Slots -> FileType]
        BY <2>3
      <4>5. Seen(fat, root, view)[t] = Seen(fat, root, look)[t]
        BY <4>2, <4>3, <4>4, SameSlot
      <4> QED
        BY <4>3, <4>5
    <3>4. /\ w[s].name = v[s].name
          /\ Len(v[s].data) = file.size /\ Len(w[s].data) = file.size /\ DOMAIN v[s].data = 1 .. file.size
          /\ \A i \in 1 .. file.size : /\ v[s].data[i] = Cell(fat, file, Look, i)
                                       /\ w[s].data[i] = Cell(fat, file, Look', i)
      <4> DEFINE look == Look
                 view == Look'
      <4>1. v = Seen(fat, root, look) /\ w = Seen(fat, root, view)
        BY <2>3, <2>4
      <4> HIDE DEF look, view
      <4>0. root \in [Slots -> FileType] /\ s \in Slots
        BY <2>1, <2>3
      <4>2. /\ v[s].name = root[s].name
            /\ Len(v[s].data) = file.size /\ DOMAIN v[s].data = 1 .. file.size
            /\ v[s].data = [i \in 1 .. file.size |-> Cell(fat, file, look, i)]
        BY <4>0, <4>1, SeenFacts
      <4>3. /\ w[s].name = root[s].name /\ Len(w[s].data) = file.size
            /\ w[s].data = [i \in 1 .. file.size |-> Cell(fat, file, view, i)]
        BY <4>0, <4>1, SeenFacts
      <4>4. \A i \in 1 .. file.size : /\ v[s].data[i] = Cell(fat, file, look, i)
                                      /\ w[s].data[i] = Cell(fat, file, view, i)
        BY <4>2, <4>3
      <4> QED
        BY <4>2, <4>3, <4>4 DEF look, view
    <3>5. ASSUME NEW i \in 1 .. file.size
          PROVE  \/ w[s].data[i] = v[s].data[i]
                 \/ i \in o + 1 .. e /\ w[s].data[i] = call.byte
      <4> DEFINE p == PlaceOf(i)
                 b == ByteOf(i)
                 c == Way(fat, file)[p]
      <4>1. /\ p \in 0 .. n - 1 /\ p \in Nat /\ b \in 1 .. SECTOR_SIZE
            /\ i = p * SECTOR_SIZE + b /\ c \in DataClusters
        BY <1>2, <2>3, CellPlace
      <4>2. w[s].data[i] = Look'[c][b] /\ v[s].data[i] = Look[c][b]
        BY <3>4 DEF Cell
      <4> HIDE DEF p, b, c, m, A, B, n, k
      <4>3. Look'[c][b] = IF c = call.cluster /\ m + b \in A + 1 .. B THEN call.byte ELSE Look[c][b]
        BY <3>2, <4>1
      <4>4. c = call.cluster /\ m + b \in A + 1 .. B => i \in o + 1 .. e
        <5>1. SUFFICES ASSUME c = call.cluster, m + b \in A + 1 .. B
                       PROVE  i \in o + 1 .. e
          OBVIOUS
        <5>2. p = k
          <6>1. k \in 0 .. n - 1
            BY <3>1
          <6>2. Steps(fat, file.cluster)[p] = Steps(fat, file.cluster)[k]
            BY <3>1, <5>1 DEF c, Way
          <6> QED
            BY <1>2, <4>1, <6>1, <6>2 DEF Path
        <5>3. i = m + b
          BY <4>1, <5>2 DEF m
        <5> HIDE DEF o, e
        <5> QED
          BY <2>1, <4>1, <5>1, <5>3
      <4> QED
        BY <4>2, <4>3, <4>4
    <3>6. w = WithData(v, s, w[s].data)
      BY <2>1, <2>3, <2>4, <3>3, <3>4, OneFile
    <3>7. w = [v EXCEPT ![s].data = w[s].data]
      BY <3>6, Zenon DEF WithData
    <3>8. /\ Request.op = "write" /\ Request.slot = s /\ Request.offset = o /\ Request.len = call.len
          /\ Request.byte = call.byte
      BY <2>6 DEF Request
    <3>9. \A i \in DOMAIN v[s].data :
             \/ w[s].data[i] = v[s].data[i]
             \/ i \in Store!Window /\ w[s].data[i] = call.byte
      <4>1. Store!Window = o + 1 .. e
        BY DEF Store!Window
      <4> QED
        BY <3>4, <3>5, <4>1
    <3>10. Len(w[s].data) = Len(v[s].data)
      BY <3>4
    <3> HIDE DEF s, o
    <3>11. Store!WriteSome
      BY <1>3, <2>6, <3>7, <3>8, <3>9, <3>10, Zenon DEF Store!WriteSome, Request, v, w
    <3> QED
      BY <3>11
  <2> QED
    BY <2>2, <2>5, <2>6
<1> QED
  BY <1>5, <1>6

LEMMA EndImage ==
    ASSUME Stands, Stands', rw_return
    PROVE  Store!End
<1> DEFINE s == call.slot
           o == call.offset
           l == call.len
           file == root[s]
           v == Files
<1>1. StandsFacts /\ StandsFacts'
  BY StandsMeans, StandsNext
<1>2. /\ pc = "return" /\ call' = NoCall /\ got' = <<>> /\ pc' = "idle"
      /\ UNCHANGED <<disk, cache, fat, root>>
  BY DEF rw_return
<1>3. FatNow = fat /\ RootNow = root /\ FatNow' = fat /\ RootNow' = root
  BY <1>2 DEF FatNow, RootNow
<1>4. Files' = Files
  <2>1. Look' = Look
    BY <1>2, LookKept
  <2> QED
    BY <1>1, <1>3, <2>1 DEF StandsFacts, FilesNow
<1>5. /\ call # NoCall /\ call.op \in {"read", "write"} /\ s \in Used(root) /\ o + l <= file.size
      /\ call \in CallType /\ Done
  BY <1>1, <1>2 DEF StandsFacts, CallKnown, FileInv, CallInv
<1>6. Request # Store!NoRequest /\ Request' = Store!NoRequest
  BY <1>1, <1>2, <1>5 DEF StandsFacts, RequestRule
<1>7. s \in Slots /\ o \in Nat /\ l \in Nat /\ file.size \in Nat
  BY <1>1, <1>3, <1>5 DEF StandsFacts, CallType
<1>8. v[s].data = [i \in 1 .. file.size |-> Mine(i)]
  BY <1>1, <1>3, <1>7 DEF StandsFacts, Mine
<1>9. Reached = o + l
  BY <1>2 DEF Reached
<1>10. /\ Request.op = call.op /\ Request.slot = s /\ Request.offset = o /\ Request.len = l
       /\ Request.byte = call.byte
  BY DEF Request
<1> HIDE DEF v
<1>11. call.op = "write" => \A i \in Store!Window : v[s].data[i] = Request.byte
  <2>1. SUFFICES ASSUME call.op = "write", NEW i \in o + 1 .. o + l
                 PROVE  v[s].data[i] = call.byte
    BY <1>10 DEF Store!Window
  <2>2. Mine(i) = call.byte
    BY <1>5, <1>9, <2>1 DEF Done
  <2>3. i \in 1 .. file.size
    BY <1>5, <1>7
  <2> HIDE DEF Mine, file
  <2> QED
    BY <1>8, <2>2, <2>3 DEF file
<1>12. call.op = "read" => Len(got) = l
  <2>1. SUFFICES ASSUME call.op = "read" PROVE Len(got) = l
    OBVIOUS
  <2>2. got = [i \in 1 .. (o + l) - o |-> Mine(o + i)]
    BY <1>5, <1>9, <2>1 DEF Done
  <2> HIDE DEF Mine, o, l
  <2>3. (o + l) - o = l
    BY <1>7
  <2> QED
    BY <1>7, <2>2, <2>3
<1> HIDE DEF s, o, l, file
<1> QED
  BY <1>2, <1>4, <1>5, <1>6, <1>10, <1>11, <1>12, Zenon DEF Store!End, Request, v

LEMMA AgreeLess ==
    ASSUME NEW f, NEW g, NEW c, NEW k \in Nat, Agree(f, g, c, k)
    PROVE  Agree(f, g, c, k - 1)
BY DEF Agree

(* fat12_create, when there is a cluster                                   *)
LEMMA CreateFacts ==
    ASSUME StoreInv, risk' # "lost", NEW n \in NAMES, fat12_create(n)
    PROVE  /\ pc = "idle" /\ UNCHANGED <<disk, cache, call, got, pc>>
           /\ \A t \in Slots : root[t].name # n
           /\ \E s \in Slots :
                 /\ s \notin Used(root)
                 /\ root'[s].name = n /\ root'[s].size = 0
                 /\ \A t \in Slots : t # s => root'[t] = root[t]
           /\ \A t \in Used(root) : Agree(fat, fat', root[t].cluster, Size(root[t]) - 1)
<1> DEFINE c == get_free_fat_entry(fat)
           s == Min(Named(""))
           e == [name |-> n, cluster |-> c, size |-> 0]
           q == [root EXCEPT ![s] = e]
<1>1. /\ UNCHANGED <<disk, cache, call, got, pc>> /\ pc = "idle"
      /\ Named("") # {} /\ Named(n) = {}
      /\ fat' = Marked(fat, c) /\ root' = q
      /\ c # NO_CLUSTER /\ risk = "none"
  BY DEF fat12_create
<1>2. root \in [Slots -> FileType] /\ fat \in [Entries -> FatValues] /\ FloppyInv
  BY FloppyTyped DEF StoreInv
<1>3. s \in Slots
  BY <1>1, FirstNamed, Zenon
<1>4. s \notin Used(root)
  <2>1. root[s].name = ""
    BY <1>1, FirstNamed, Zenon
  <2> QED
    BY <2>1, Zenon DEF Used
<1>5. n # ""
  BY FileSysAssumption
<1> HIDE DEF s, c
<1>6. q[s] = e /\ \A t \in Slots : t # s => q[t] = root[t]
  BY <1>2, <1>3
<1>7. q[s].name = n /\ q[s].cluster = c /\ q[s].size = 0
  BY <1>6
<1> HIDE DEF q, e
<1>9. Used(q) = Used(root) \cup {s}
  <2>1. \A t \in Slots : t \in Used(q) <=> t = s \/ t \in Used(root)
    BY <1>5, <1>6, <1>7, Zenon DEF Used
  <2> QED
    BY <2>1, <1>3, UsedIsSlots
<1>10. Size(q[s]) = 1
  <2>1. 0 < SECTOR_SIZE
    BY Layout
  <2> QED
    BY <2>1, <1>7, NeededFacts DEF Size
<1>11. OthersSame(root, q, s)
  BY <1>6, UsedIsSlots DEF OthersSame
<1>12. Tight(fat, root)
  BY <1>1, <1>2 DEF FloppyInv
<1> DEFINE h == [fat EXCEPT ![c] = EOC]
<1>20. fat \in [Entries -> FatValues] /\ c # NO_CLUSTER /\ fat' = Marked(fat, c)
  BY <1>1, <1>2
<1>13. c \in Entries /\ fat[c] = 0 /\ Marked(fat, c) = h
  <2>1. get_free_fat_entry(fat) # NO_CLUSTER
    BY <1>20 DEF c
  <2>2. fat \in [Entries -> FatValues]
    BY <1>20
  <2> QED
    BY <2>1, <2>2, FreeFound DEF c
<1>14. \A t \in Used(root) : Agree(fat, fat', root[t].cluster, Size(root[t]))
  <2>1. /\ fat \in [Entries -> FatValues] /\ Tight(fat, root) /\ c \in Entries /\ fat[c] = 0
        /\ s \in Slots /\ s \notin Used(root) /\ Used(q) = Used(root) \cup {s}
        /\ q[s].cluster = c /\ Size(q[s]) = 1
    BY <1>3, <1>4, <1>7, <1>9, <1>10, <1>12, <1>13, <1>20
  <2>2. \A t \in Used(root) : Agree(fat, h, root[t].cluster, Size(root[t]))
    BY <2>1, <1>11, CreatedTight
  <2>3. fat' = h
    BY <1>13, <1>20
  <2> HIDE DEF h
  <2> QED
    BY <2>2, <2>3
<1>15. \A t \in Used(root) : Agree(fat, fat', root[t].cluster, Size(root[t]) - 1)
  BY <1>2, <1>14, UsedIsSlots, SizeFacts, AgreeLess
<1>16. \A t \in Slots : root[t].name # n
  BY <1>1 DEF Named
<1> QED
  BY <1>1, <1>3, <1>4, <1>6, <1>7, <1>15, <1>16

LEMMA CreatedImage ==
    ASSUME Stands, Stands', NEW n \in NAMES, fat12_create(n)
    PROVE  Store!ChangeDirectory
<1> DEFINE v == Files
           w == Files'
<1>1. StandsFacts /\ StandsFacts' /\ StoreInv /\ risk' # "lost"
  BY StandsMeans, StandsNext DEF Stands
<1>2. /\ pc = "idle" /\ UNCHANGED <<disk, cache, call, got, pc>>
      /\ \A t \in Slots : root[t].name # n
      /\ \A t \in Used(root) : Agree(fat, fat', root[t].cluster, Size(root[t]) - 1)
  BY <1>1, CreateFacts
<1>3. PICK s \in Slots :
         /\ s \notin Used(root)
         /\ root'[s].name = n /\ root'[s].size = 0
         /\ \A t \in Slots : t # s => root'[t] = root[t]
  BY <1>1, CreateFacts
<1>4. FatNow = fat /\ RootNow = root /\ FatNow' = fat' /\ RootNow' = root'
  BY <1>2 DEF FatNow, RootNow
<1>5. Look' = Look
  BY <1>2, LookKept
<1>6. Request = Store!NoRequest /\ Request' = Request /\ got' = got
  <2>1. call = NoCall
    BY <1>1, <1>2 DEF StandsFacts, CallKnown
  <2> QED
    BY <1>1, <1>2, <2>1 DEF StandsFacts, RequestRule, Request
<1>7. /\ root \in [Slots -> FileType] /\ root' \in [Slots -> FileType]
      /\ Whole(fat, root) /\ FreeIsEmpty(root)
      /\ v = Seen(fat, root, Look) /\ w = Seen(fat', root', Look)
      /\ FileView(v) /\ FileView(w)
  BY <1>1, <1>4, <1>5 DEF StandsFacts, NowSound, FilesNow
<1>8. /\ \A t \in Slots : v[t].name = root[t].name
      /\ w[s].name = n /\ w[s].data = [i \in 1 .. 0 |-> Cell(fat', root'[s], Look', i)]
      /\ v[s] = Store!Absent
  <2>1. /\ \A t \in Slots :
              /\ Files[t].name = RootNow[t].name
              /\ t \notin Used(RootNow) => Files[t] = Store!Absent
        /\ \A t \in Slots :
              /\ Files'[t].name = RootNow'[t].name
              /\ Files'[t].data = [i \in 1 .. RootNow'[t].size |-> Cell(FatNow', RootNow'[t], Look', i)]
    BY <1>1 DEF StandsFacts
  <2> HIDE DEF Files, FatNow, RootNow, Look
  <2>2. \A t \in Slots : v[t].name = root[t].name
    BY <2>1, <1>4
  <2>3. v[s] = Store!Absent
    BY <2>1, <1>3, <1>4
  <2>4. w[s].name = n
    BY <2>1, <1>3, <1>4
  <2>5. w[s].data = [i \in 1 .. root'[s].size |-> Cell(fat', root'[s], Look', i)]
    BY <2>1, <1>4
  <2>6. w[s].data = [i \in 1 .. 0 |-> Cell(fat', root'[s], Look', i)]
    BY <2>5, <1>3
  <2> QED
    BY <2>2, <2>3, <2>4, <2>6
<1> HIDE DEF v, w
<1>9. w[s].data = <<>>
  <2>1. 1 .. 0 = {}
    OBVIOUS
  <2> QED
    BY <1>8, <2>1
<1>10. \A t \in Slots : t # s => w[t] = v[t]
  BY <1>2, <1>3, <1>7, OthersSeen
<1>11. w = [v EXCEPT ![s] = [name |-> w[s].name, data |-> <<>>]]
  <2>1. w[s] = [name |-> w[s].name, data |-> <<>>]
    BY <1>7, <1>9 DEF FileView
  <2>2. w = [t \in Slots |-> w[t]] /\ v = [t \in Slots |-> v[t]]
    BY <1>7 DEF FileView
  <2> QED
    BY <1>10, <2>1, <2>2
<1>12. w[s].name \notin {v[t].name : t \in Slots}
  BY <1>2, <1>8
<1>13. Store!Created(v, w)
  BY <1>8, <1>11, <1>12, Zenon DEF Store!Created
<1> QED
  BY <1>6, <1>13, Zenon DEF Store!ChangeDirectory, Request, v, w

LEMMA DeletedImage ==
    ASSUME Stands, Stands', NEW n \in NAMES, fat12_remove(n)
    PROVE  Store!ChangeDirectory
<1> DEFINE first == {root[s].cluster : s \in Named(n)}
           freed == UNION {Range(Chain(fat, c)) : c \in first}
           S == Named(n)
           g == [c \in Entries |-> IF c \in freed THEN 0 ELSE fat[c]]
           v == Files
           w == Files'
<1>1. StandsFacts /\ StandsFacts' /\ StoreInv /\ risk' # "lost"
  BY StandsMeans, StandsNext DEF Stands
<1>2. /\ UNCHANGED <<disk, cache, call, got, pc>> /\ pc = "idle"
      /\ fat' = g /\ root' = [s \in Slots |-> IF s \in S THEN NoFile ELSE root[s]] /\ risk = "none"
  BY <1>1 DEF fat12_remove, Stop
<1>3. FatNow = fat /\ RootNow = root /\ FatNow' = fat' /\ RootNow' = root'
  BY <1>2 DEF FatNow, RootNow
<1>4. Look' = Look
  BY <1>2, LookKept
<1>5. Request = Store!NoRequest /\ Request' = Request /\ got' = got
  <2>1. call = NoCall
    BY <1>1, <1>2 DEF StandsFacts, CallKnown
  <2> QED
    BY <1>1, <1>2, <2>1 DEF StandsFacts, RequestRule, Request
<1>6. /\ root \in [Slots -> FileType] /\ root' \in [Slots -> FileType]
      /\ fat \in [Entries -> FatValues]
      /\ Whole(fat, root) /\ FreeIsEmpty(root) /\ FreeIsEmpty(root')
      /\ v = Seen(fat, root, Look) /\ w = Seen(fat', root', Look)
      /\ FileView(v) /\ FileView(w)
  BY <1>1, <1>3, <1>4 DEF StandsFacts, NowSound, FilesNow
<1>7. Tight(fat, root)
  BY <1>1, <1>2 DEF StoreInv, FloppyInv
<1>8. S \in SUBSET Used(root)
  BY FileSysAssumption, Zenon DEF Named, Used
<1>9. ASSUME NEW c \in freed
      PROVE  \E s \in S : \E i \in 0 .. Size(root[s]) - 1 : c = Way(fat, root[s])[i]
  <2>1. PICK s \in S : c \in Range(Chain(fat, root[s].cluster))
    BY <1>9
  <2>2. Range(Chain(fat, root[s].cluster)) = {Way(fat, root[s])[i] : i \in 0 .. Size(root[s]) - 1}
    BY <1>7, <1>8, <2>1, ChainIsPath DEF Tight, Way
  <2> QED
    BY <2>1, <2>2
<1>10. ASSUME NEW t \in Slots, t \notin S
       PROVE  w[t] = v[t]
  <2>1. t \in Used(root) => Agree(fat, fat', root[t].cluster, Size(root[t]) - 1)
    <3>1. SUFFICES ASSUME t \in Used(root), NEW i \in 0 .. (Size(root[t]) - 1) - 1
                   PROVE  fat'[Way(fat, root[t])[i]] = fat[Way(fat, root[t])[i]]
      BY DEF Agree, Way
    <3> DEFINE c == Way(fat, root[t])[i]
    <3>2. i \in 0 .. Size(root[t]) - 1
      <4>1. Size(root[t]) \in Nat
        BY <1>6, SizeFacts
      <4> QED
        BY <4>1
    <3>3. c \in Entries
      BY <1>6, <3>1, <3>2, ClusterFacts DEF Whole, Path, Way
    <3>4. c \notin freed
      <4>1. SUFFICES ASSUME c \in freed PROVE FALSE
        OBVIOUS
      <4>2. PICK s \in S : \E j \in 0 .. Size(root[s]) - 1 : c = Way(fat, root[s])[j]
        <5> HIDE DEF freed, S
        <5> QED
          BY <1>9, <4>1
      <4>3. s \in Used(root) /\ s # t
        BY <1>8, <1>10, <4>2
      <4> QED
        BY <1>6, <3>1, <3>2, <4>2, <4>3 DEF Whole, Apart
    <3> HIDE DEF freed, c
    <3>5. fat'[c] = fat[c]
      BY <1>2, <3>3, <3>4
    <3> QED
      BY <3>5 DEF c
  <2> HIDE DEF g, S
  <2>2. root'[t] = root[t]
    BY <1>2, <1>10
  <2> DEFINE look == Look
             h == fat'
             q == root'
  <2>3. /\ v = Seen(fat, root, look) /\ w = Seen(h, q, look) /\ q \in [Slots -> FileType]
        /\ q[t] = root[t]
        /\ t \in Used(root) => Agree(fat, h, root[t].cluster, Size(root[t]) - 1)
    BY <1>6, <2>1, <2>2
  <2> HIDE DEF v, w, look, h, q
  <2>4. root \in [Slots -> FileType] /\ Whole(fat, root) /\ FreeIsEmpty(root)
    BY <1>6
  <2>5. Seen(h, q, look)[t] = Seen(fat, root, look)[t]
    BY <2>3, <2>4, <1>10, SlotSeen
  <2> QED
    BY <2>3, <2>5
<1>11. ASSUME NEW t \in S
       PROVE  w[t] = Store!Absent
  <2>1. t \in Slots /\ root'[t] = NoFile
    BY <1>2, <1>8, UsedIsSlots
  <2>2. NoFile.name = ""
    BY Zenon DEF NoFile
  <2>3. t \notin Used(root')
    BY <2>1, <2>2, Zenon DEF Used
  <2> QED
    BY <1>1, <1>3, <2>1, <2>3 DEF StandsFacts
<1>12. \A t \in Slots : v[t].name = n <=> t \in S
  BY <1>1, <1>3 DEF StandsFacts, Named
<1> HIDE DEF v, w, S
<1>13. w = [t \in Slots |-> IF v[t].name = n THEN Store!Absent ELSE v[t]]
  <2>1. w = [t \in Slots |-> w[t]]
    BY <1>6 DEF FileView
  <2> QED
    BY <2>1, <1>10, <1>11, <1>12
<1>14. Store!Deleted(v, w)
  BY <1>13, Zenon DEF Store!Deleted
<1> QED
  BY <1>5, <1>14, Zenon DEF Store!ChangeDirectory, Request, v, w

(* A byte of a file that is seen and not on the floppy is being written.   *)
LEMMA InDangerByte ==
    ASSUME StandsFacts, NEW s \in Used(RootNow), NEW i \in 1 .. RootNow[s].size,
           Cell(FatNow, RootNow[s], Under, i) # Cell(FatNow, RootNow[s], Look, i)
    PROVE  call.op = "write" /\ call.slot = s /\ i \in call.offset + 1 .. call.offset + call.len
<1> DEFINE p == PlaceOf(i)
           b == ByteOf(i)
           t == call.slot
<1>1. /\ RootNow \in [Slots -> FileType] /\ Whole(FatNow, RootNow)
      /\ Pending /\ CallKnown
  BY DEF StandsFacts, NowSound
<1>2. /\ p \in 0 .. Size(RootNow[s]) - 1 /\ p \in Nat /\ b \in 1 .. SECTOR_SIZE
      /\ i = p * SECTOR_SIZE + b
      /\ Way(FatNow, RootNow[s])[p] \in DataClusters
  <2> HIDE DEF RootNow, FatNow
  <2> QED
    BY <1>1, CellPlace
<1> HIDE DEF p, b
<1>3. Look[Way(FatNow, RootNow[s])[p]][b] # Under[Way(FatNow, RootNow[s])[p]][b]
  BY DEF Cell, p, b
<1>4. /\ call.op = "write" /\ pc \in {"rw", "return"}
      /\ Aimed(Way(FatNow, RootNow[s])[p], b)
  <2> DEFINE c == Way(FatNow, RootNow[s])[p]
  <2>1. c \in DataClusters /\ Look[c][b] # Under[c][b]
    BY <1>2, <1>3
  <2> HIDE DEF c
  <2>2. call.op = "write" /\ pc \in {"rw", "return"} /\ Aimed(c, b)
    BY <1>1, <1>2, <2>1 DEF Pending
  <2> QED
    BY <2>2 DEF c
<1>5. FatNow = fat /\ RootNow = root
  BY <1>4 DEF FatNow, RootNow
<1>6. s \in Used(root) /\ t \in Used(root) /\ Whole(fat, root)
  BY <1>1, <1>4, <1>5 DEF CallKnown
<1>7. PICK j \in 0 .. Size(root[t]) - 1 :
         /\ Way(fat, root[s])[p] = Way(fat, root[t])[j]
         /\ j * SECTOR_SIZE + b \in call.offset + 1 .. call.offset + call.len
  BY <1>4, <1>5 DEF Aimed
<1>8. p \in 0 .. Size(root[s]) - 1
  BY <1>2, <1>5
<1>9. t = s
  BY <1>6, <1>7, <1>8 DEF Whole, Apart
<1>10. p = j
  <2>1. Path(fat, root[s].cluster, Size(root[s]))
    BY <1>6 DEF Whole
  <2> QED
    BY <1>7, <1>8, <1>9, <2>1 DEF Path, Way
<1> QED
  BY <1>2, <1>4, <1>7, <1>9, <1>10

LEMMA PowerFacts ==
    ASSUME Stands, Stands', PowerFails
    PROVE  /\ Follows(FatNow, RootNow, FloppyFat, FloppyRoot)
           /\ FatNow' = FloppyFat /\ RootNow' = FloppyRoot /\ Look' = Under
           /\ call' = NoCall /\ got' = <<>>
<1>1. /\ UNCHANGED disk /\ pc' = "boot" /\ call' = NoCall /\ got' = <<>>
      /\ risk' = IF unsaved THEN "lost"
                 ELSE IF pc = "info" /\ call # NoCall /\ risk = "none" THEN "torn" ELSE risk
  BY DEF PowerFails
<1>2. StoreInv /\ risk # "lost" /\ risk' # "lost" /\ FileInv /\ SaveInv /\ FloppyInv
  BY DEF Stands, StoreInv
<1>3. unsaved = FALSE
  <2>1. unsaved \in BOOLEAN
    BY <1>2, FloppyTyped
  <2> QED
    BY <1>1, <1>2, <2>1
<1>4. FatNow' = FloppyFat /\ RootNow' = FloppyRoot
  BY <1>1 DEF FatNow, RootNow, FloppyFat, FloppyRoot
<1>5. Look' = Under
  BY LookPower
<1>6. Follows(FatNow, RootNow, FloppyFat, FloppyRoot)
  BY <1>2, <1>3, NowIsSound
<1> QED
  BY <1>1, <1>4, <1>5, <1>6

LEMMA PowerImage ==
    ASSUME Stands, Stands', PowerFails
    PROVE  Store!PowerFails
<1> DEFINE v == Files
           w == Files'
           f == FatNow
           r == RootNow
           g == FloppyFat
           q == FloppyRoot
           end == call.offset + call.len
<1>1. StandsFacts /\ StandsFacts'
  BY StandsMeans, StandsNext
<1>2. /\ Follows(f, r, g, q)
      /\ FatNow' = g /\ RootNow' = q /\ Look' = Under
      /\ call' = NoCall /\ got' = <<>>
  BY PowerFacts
<1>3. Request' = Store!NoRequest
  BY <1>1, <1>2 DEF StandsFacts, RequestRule
<1>4. /\ r \in [Slots -> FileType] /\ Whole(f, r)
      /\ v = Seen(f, r, Look) /\ w = Seen(g, q, Under)
      /\ q \in [Slots -> FileType] /\ FreeIsEmpty(q)
  <2>1. /\ r \in [Slots -> FileType] /\ Whole(f, r) /\ v = Seen(f, r, Look)
    BY <1>1 DEF StandsFacts, NowSound, FilesNow
  <2>2. NowSound' /\ FilesNow'
    BY <1>1 DEF StandsFacts
  <2>3. RootNow' \in [Slots -> FileType] /\ FreeIsEmpty(RootNow') /\ w = Seen(FatNow', RootNow', Look')
    BY <2>2 DEF NowSound, FilesNow
  <2> HIDE DEF v, w, g, q
  <2> QED
    BY <1>2, <2>1, <2>3
<1>5. \A s \in Used(r) : \A i \in 1 .. r[s].size :
         Cell(f, r[s], Under, i) # Cell(f, r[s], Look, i) =>
            call.op = "write" /\ call.slot = s /\ i \in call.offset + 1 .. end
  BY <1>1, InDangerByte
<1> HIDE DEF v, w, f, r, g, q
<1>6. /\ DOMAIN w = Slots
      /\ \A s \in Slots :
            /\ v[s].name = r[s].name /\ w[s].name = q[s].name
            /\ v[s].data = [i \in 1 .. r[s].size |-> Cell(f, r[s], Look, i)]
            /\ w[s].data = [i \in 1 .. q[s].size |-> Cell(g, q[s], Under, i)]
            /\ Len(v[s].data) = r[s].size /\ Len(w[s].data) = q[s].size
            /\ DOMAIN w[s].data = 1 .. q[s].size
            /\ r[s].size \in Nat /\ q[s].size \in Nat
  <2> DEFINE top == Look
             low == Under
  <2>1. /\ r \in [Slots -> FileType] /\ v = Seen(f, r, top)
        /\ q \in [Slots -> FileType] /\ w = Seen(g, q, low)
    BY <1>4
  <2> HIDE DEF top, low
  <2>2. \A s \in Slots :
            /\ v[s].name = r[s].name /\ r[s].size \in Nat
            /\ v[s].data = [i \in 1 .. r[s].size |-> Cell(f, r[s], top, i)]
            /\ Len(v[s].data) = r[s].size
    <3>1. r \in [Slots -> FileType] /\ v = Seen(f, r, top)
      BY <2>1
    <3> QED
      BY <3>1, SeenFacts
  <2>3. /\ DOMAIN w = Slots
        /\ \A s \in Slots :
            /\ w[s].name = q[s].name /\ q[s].size \in Nat
            /\ w[s].data = [i \in 1 .. q[s].size |-> Cell(g, q[s], low, i)]
            /\ Len(w[s].data) = q[s].size /\ DOMAIN w[s].data = 1 .. q[s].size
    BY <2>1, SeenFacts
  <2> QED
    BY <2>2, <2>3 DEF top, low
<1>7. ASSUME NEW s \in Slots, s \notin Used(q)
      PROVE  w[s] = Store!Absent
  BY <1>4, <1>7, AbsentSeen
<1>8. ASSUME NEW s \in Used(q)
      PROVE  /\ s \in Slots
             /\ w[s].name = v[s].name
             /\ Len(w[s].data) <= Len(v[s].data)
             /\ \A i \in DOMAIN w[s].data :
                   \/ call.op = "write" /\ call.slot = s /\ i \in call.offset + 1 .. end
                   \/ w[s].data[i] = v[s].data[i]
  <2>1. /\ r[s].name = q[s].name /\ r[s].cluster = q[s].cluster /\ q[s].size <= r[s].size
        /\ Agree(f, g, r[s].cluster, Size(q[s]) - 1)
    BY <1>2, <1>8 DEF Follows
  <2>2. s \in Slots /\ s \in Used(r)
    <3>1. s \in Slots
      BY <1>8, UsedIsSlots
    <3>2. q[s].name # ""
      BY <1>8, Zenon DEF Used
    <3> QED
      BY <2>1, <3>1, <3>2, Zenon DEF Used
  <2>3. /\ Path(f, q[s].cluster, Size(q[s])) /\ q[s] \in FileType
    <3>1. Path(f, r[s].cluster, Size(r[s]))
      BY <1>4, <2>2 DEF Whole
    <3>2. /\ Size(q[s]) \in Nat /\ Size(r[s]) \in Nat /\ Size(q[s]) <= Size(r[s])
          /\ q[s] \in FileType
      BY <1>4, <1>6, <2>1, <2>2, SizeFacts, NeededFacts DEF Size
    <3> QED
      BY <2>1, <3>1, <3>2, PathPart
  <2>4. ASSUME NEW i \in 1 .. q[s].size
        PROVE  \/ call.op = "write" /\ call.slot = s /\ i \in call.offset + 1 .. end
               \/ w[s].data[i] = v[s].data[i]
    <3>1. i \in 1 .. r[s].size
      <4>1. q[s].size \in Nat /\ r[s].size \in Nat /\ q[s].size <= r[s].size
        BY <1>6, <2>1, <2>2
      <4> QED
        BY <4>1
    <3>2. /\ Cell(g, q[s], Under, i) = Cell(f, q[s], Under, i)
      <4>1. Agree(f, g, q[s].cluster, Size(q[s]) - 1)
        BY <2>1
      <4> QED
        BY <2>3, <4>1, SameCell
    <3>3. Cell(f, q[s], Under, i) = Cell(f, r[s], Under, i)
      BY <2>1 DEF Cell, Way
    <3>4. w[s].data[i] = Cell(f, r[s], Under, i) /\ v[s].data[i] = Cell(f, r[s], Look, i)
      BY <1>6, <2>2, <3>1, <3>2, <3>3
    <3> QED
      BY <1>5, <2>2, <3>1, <3>4
  <2> QED
    BY <1>6, <2>1, <2>2, <2>4
<1>9. \A s, i : call.op = "write" /\ call.slot = s /\ i \in call.offset + 1 .. end => Store!InDanger(s, i)
  <2>1. Request.op = call.op /\ Request.slot = call.slot /\ Request.offset = call.offset /\ Request.len = call.len
    BY DEF Request
  <2> QED
    BY <2>1, Zenon DEF Store!InDanger, Store!Window, Request, end
<1>10. \A s \in Slots :
          \/ w[s] = Store!Absent
          \/ /\ w[s].name = v[s].name
             /\ Len(w[s].data) <= Len(v[s].data)
             /\ \A i \in DOMAIN w[s].data : Store!InDanger(s, i) \/ w[s].data[i] = v[s].data[i]
  <2>1. SUFFICES ASSUME NEW s \in Slots, w[s] # Store!Absent
                 PROVE  /\ w[s].name = v[s].name
                        /\ Len(w[s].data) <= Len(v[s].data)
                        /\ \A i \in DOMAIN w[s].data : Store!InDanger(s, i) \/ w[s].data[i] = v[s].data[i]
    OBVIOUS
  <2>2. s \in Used(q)
    BY <1>7, <2>1
  <2> HIDE DEF end
  <2> QED
    BY <1>8, <1>9, <2>2, Zenon
<1> QED
  BY <1>2, <1>3, <1>6, <1>10, Zenon DEF Store!PowerFails, Request, v, w

(* Once the promise is lost it stays so.                                   *)
LEMMA LostStays ==
    ASSUME StoreInv, [Next]_vars, risk' # "lost"
    PROVE  risk # "lost"
<1>1. CASE Boot
  BY <1>1 DEF Boot, fat12_init
<1>2. CASE Device
  BY <1>2 DEF Device, fatVars
<1>3. CASE CallTurn
  BY <1>3 DEF CallTurn, set_info_put, set_info_return, rw_turn, rw_wild, rw_return, Stop
<1>4. ASSUME NEW n \in NAMES, NEW pos \in POSITIONS, sys_open(n, pos)
      PROVE  risk # "lost"
  BY <1>4 DEF sys_open
<1>5. ASSUME NEW d \in Descriptors, NEW len \in LENGTHS,
             \/ sys_read(d, len)
             \/ \E byte \in BYTES : sys_write(d, len, byte)
      PROVE  risk # "lost"
  <2>1. PICK op \in {"read", "write"}, s \in Slots, offset \in Nat, byte \in BYTES \cup {""} :
              fat12_rw_aux(op, s, offset, len, byte)
    BY <1>5, ReadWriteCalls DEF StoreInv
  <2>2. len \in Nat
    BY FileSysAssumption
  <2> QED
    BY <2>1, <2>2, CallBegins
<1>6. ASSUME NEW d \in Descriptors, UseWithoutInode(d) \/ CloseBug(d) \/ sys_close(d)
      PROVE  risk # "lost"
  BY <1>6 DEF UseWithoutInode, CloseBug, sys_close
<1>7. CASE ChangeDirectory
  BY <1>7 DEF ChangeDirectory, fat12_create, fat12_remove, Stop
<1>8. CASE PowerFails
  BY <1>8 DEF PowerFails
<1>9. CASE UNCHANGED vars
  BY <1>9 DEF vars, fatVars
<1> QED
  BY <1>1, <1>2, <1>3, <1>4, <1>5, <1>6, <1>7, <1>8, <1>9 DEF Next, Idle

(* The start reads FAT and directory as they are on the floppy.            *)
LEMMA BootImage ==
    ASSUME Stands, Stands', Boot
    PROVE  UNCHANGED Store!vars
<1>1. /\ pc = "boot" /\ pc' = "info" /\ UNCHANGED <<disk, syc, call, got, risk>>
      /\ cache' = WithInfo
      /\ fat' = FatOf(cache'.buffer) /\ root' = RootOf(cache'.buffer)
  BY DEF Boot, fat12_init
<1>2. FileInv /\ SaveInv /\ FileInv' /\ SaveInv'
  BY DEF Stands, StoreInv
<1>3. ~Saving'
  <2>1. call = NoCall
    BY <1>1, <1>2 DEF SaveInv
  <2> QED
    BY <1>1, <2>1 DEF Saving
<1>4. \A x \in Info : cache'.buffer[x] = disk[x]
  <2>1. FileInv' /\ SaveInv' /\ (pc = "info")' => InfoIsThere'
    BY InfoThere, PTL
  <2>2. InfoIsThere'
    BY <2>1, <1>1, <1>2
  <2> QED
    BY <2>2, <1>1, <1>2, <1>3 DEF SaveInv, InfoIsThere
<1>5. fat' = FloppyFat /\ root' = FloppyRoot
  BY <1>1, <1>4, SameInfo DEF FloppyFat, FloppyRoot
<1>6. FatNow' = FatNow /\ RootNow' = RootNow
  BY <1>1, <1>5 DEF FatNow, RootNow, FloppyFat, FloppyRoot
<1>7. Look' = Look
  BY <1>1, <1>2, LookInfo
<1>8. UNCHANGED <<Request, got>>
  BY <1>1 DEF Request
<1> QED
  BY <1>6, <1>7, <1>8, SameStore

(* Steps that leave the files alone                                        *)
LEMMA QuietImage ==
    ASSUME Stands, Stands', UNCHANGED <<fat, root, call, got>>, Look' = Look,
           (pc # "boot" /\ pc' # "boot") \/ (pc' = pc /\ disk' = disk)
    PROVE  UNCHANGED Store!vars
<1>1. FatNow' = FatNow /\ RootNow' = RootNow
  BY DEF FatNow, RootNow
<1>2. UNCHANGED <<Request, got>>
  BY DEF Request
<1> QED
  BY <1>1, <1>2, SameStore

(* Every step is one of FileStore.                                         *)
LEMMA StepImage ==
    ASSUME StoreInv, DataInv, StoreInv', DataInv', [Next]_vars, risk' # "lost"
    PROVE  Store!Promised \/ UNCHANGED Store!vars
<1>1. /\ Stands /\ Stands' /\ FileInv /\ SaveInv /\ risk # "lost"
  BY LostStays DEF Stands, StoreInv
<1>2. CASE Boot
  BY <1>1, <1>2, BootImage
<1>3. CASE Device
  <2>1. UNCHANGED <<fat, root, call, got, pc>>
    BY <1>3 DEF Device, fatVars
  <2>2. pc # "boot" /\ Look' = Look
    BY <1>1, <1>3, SaveDevice, LookDevice
  <2>3. UNCHANGED <<fat, root, call, got>> /\ pc # "boot" /\ pc' # "boot"
    BY <2>1, <2>2
  <2>4. Look' = Look /\ Stands /\ Stands'
    BY <1>1, <2>2
  <2> QED
    BY <2>3, <2>4, QuietImage
<1>4. CASE CallTurn
  <2>1. CASE set_info_put
    <3>1. UNCHANGED <<call, got, fat, root, pc, disk>> /\ disk_buffer_put(cache, put)
      BY <2>1 DEF set_info_put
    <3>2. cache'.buffer = cache.buffer
      <4>1. CacheOK(cache)
        BY <1>1 DEF FileInv, BufferInv
      <4> QED
        BY <3>1, <4>1 DEF disk_buffer_put, CacheOK
    <3>3. Look' = Look
      BY <3>1, <3>2, LookKept
    <3> QED
      BY <1>1, <3>1, <3>3, QuietImage
  <2>2. CASE set_info_return
    <3>1. UNCHANGED <<disk, cache, fat, root, call, got>> /\ pc # "boot" /\ pc' # "boot"
      BY <2>2 DEF set_info_return
    <3>2. Look' = Look
      BY <3>1, LookKept
    <3> QED
      BY <1>1, <3>1, <3>2, QuietImage
  <2>3. CASE rw_turn
    BY <1>1, <2>3, TurnImage, Zenon DEF Store!Promised
  <2>4. CASE rw_wild
    BY <2>4 DEF rw_wild, Stop
  <2>5. CASE rw_return
    BY <1>1, <2>5, EndImage, Zenon DEF Store!Promised
  <2> QED
    BY <1>4, <2>1, <2>2, <2>3, <2>4, <2>5 DEF CallTurn
<1>5. ASSUME UNCHANGED <<disk, cache, fat, root, call, got>>, (pc # "boot" /\ pc' # "boot") \/ pc' = pc
      PROVE  UNCHANGED Store!vars
  <2>1. Look' = Look
    BY <1>5, LookKept
  <2> QED
    BY <1>1, <1>5, <2>1, QuietImage
<1>6. ASSUME NEW n \in NAMES, NEW pos \in POSITIONS, sys_open(n, pos)
      PROVE  UNCHANGED Store!vars
  <2>1. UNCHANGED <<disk, cache, fat, root, call, got, pc>>
    BY <1>6 DEF sys_open, bufferVars
  <2> QED
    BY <1>5, <2>1
<1>7. ASSUME NEW d \in Descriptors, NEW len \in LENGTHS,
             \/ sys_read(d, len)
             \/ \E byte \in BYTES : sys_write(d, len, byte)
      PROVE  Store!Promised
  <2>1. PICK op \in {"read", "write"}, s \in Slots, offset \in Nat, byte \in BYTES \cup {""} :
              fat12_rw_aux(op, s, offset, len, byte)
    BY <1>1, <1>7, ReadWriteCalls
  <2>2. len \in Nat
    BY FileSysAssumption
  <2>3. Store!Begin
    BY <1>1, <2>1, <2>2, BeginImage
  <2> QED
    BY <2>3, Zenon DEF Store!Promised
<1>8. ASSUME NEW d \in Descriptors, UseWithoutInode(d) \/ CloseBug(d) \/ sys_close(d)
      PROVE  UNCHANGED Store!vars
  <2>1. UNCHANGED <<disk, cache, fat, root, call, got>> /\ pc = "idle" /\ pc' # "boot"
    BY <1>8 DEF UseWithoutInode, CloseBug, sys_close, Ready, bufferVars
  <2> QED
    BY <1>5, <2>1
<1>9. CASE ChangeDirectory
  <2>1. PICK n \in NAMES : fat12_create(n) \/ fat12_remove(n)
    BY <1>9 DEF ChangeDirectory
  <2>2. Store!ChangeDirectory
    BY <1>1, <2>1, CreatedImage, DeletedImage
  <2> QED
    BY <2>2, Zenon DEF Store!Promised
<1>10. CASE PowerFails
  BY <1>1, <1>10, PowerImage, Zenon DEF Store!Promised
<1>11. CASE UNCHANGED vars
  <2>1. UNCHANGED <<disk, cache, fat, root, call, got, pc>>
    BY <1>11 DEF vars, fatVars, bufferVars
  <2> QED
    BY <1>5, <2>1
<1> QED
  BY <1>2, <1>3, <1>4, <1>6, <1>7, <1>8, <1>9, <1>10, <1>11 DEF Next, Idle

(* FAT12, buffers and floppy store files as FileStore says: growing, then  *)
(* byte by byte what a call reads or writes, and at a power failure what   *)
(* was on the floppy, each byte that is left being the one that was there, *)
(* but in the window of a write.                                           *)
THEOREM FilesAreStored == Spec => StoresFiles
<1>1. Init /\ StoreInv /\ DataInv => Store!Init
  <2>1. SUFFICES ASSUME Init, StoreInv, DataInv PROVE Store!Init
    OBVIOUS
  <2>2. call = NoCall /\ got = <<>> /\ risk = "none"
    BY <2>1 DEF Init
  <2>3. Stands
    BY <2>1, <2>2 DEF Stands
  <2>4. DOMAIN Files = Slots /\ Request = Store!NoRequest
    BY <2>2, <2>3, StandsMeans DEF StandsFacts, RequestRule
  <2>5. (risk # "lost") = TRUE
    BY <2>2
  <2> QED
    BY <2>2, <2>4, <2>5, Zenon DEF Store!Init, Request
<1>2. (StoreInv /\ DataInv) /\ (StoreInv /\ DataInv)' /\ [Next]_vars => [Store!Next]_(Store!vars)
  <2>1. SUFFICES ASSUME StoreInv, DataInv, StoreInv', DataInv', [Next]_vars
                 PROVE  [Store!Next]_(Store!vars)
    OBVIOUS
  <2>2. CASE risk' = "lost"
    <3>1. Store!Next
      BY <2>2, Zenon DEF Store!Next
    <3> QED
      BY <3>1
  <2>3. CASE risk' # "lost"
    <3>1. Store!Promised \/ UNCHANGED Store!vars
      BY <2>1, <2>3, StepImage
    <3>2. risk # "lost"
      BY <2>1, <2>3, LostStays
    <3>3. Store!Promised => Store!Next
      BY <2>3, <3>2, Zenon DEF Store!Next
    <3> QED
      BY <3>1, <3>3
  <2> QED
    BY <2>2, <2>3
<1>3. Spec => [](StoreInv /\ DataInv)
  BY WindowInvariance
<1> QED
  BY <1>1, <1>2, <1>3, PTL DEF Spec, StoresFiles, Store!Spec
=============================================================================
