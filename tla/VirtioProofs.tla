---------------------------- MODULE VirtioProofs ----------------------------
(***************************************************************************)
(* Theorems about the virtio disk (Virtio), for rings of every size: an       *)
(* answer is always announced, and the split ring with its wrapping indices    *)
(* implements the queue of BlockQueue.                                        *)
(*                                                                         *)
(* The driver's chains are what keeps the rings apart: a chain is free, asked  *)
(* or answered, so there are never more of the last two than slots, and the    *)
(* slots of a ring between two indices are all different (Room, SlotsApart).   *)
(***************************************************************************)
EXTENDS Virtio, FiniteSetTheorems, SequenceTheorems, TLAPS

-----------------------------------------------------------------------------
(* Indices of a ring                                                         *)

LEMMA Euclid ==
  ASSUME NEW n \in Nat \ {0}, NEW a \in Int
  PROVE  a % n \in Int /\ \E q \in Int : a = q * n + (a % n)
<1>1. a = n * (a \div n) + (a % n) /\ a % n \in Int /\ a \div n \in Int
  OBVIOUS
<1> DEFINE q == a \div n
<1>2. a = q * n + (a % n)
  BY <1>1
<1> HIDE DEF q
<1> QED
  BY <1>1, <1>2 DEF q

LEMMA Remainder ==
  ASSUME NEW n \in Nat \ {0}, NEW a \in Int, NEW q \in {-1, 0, 1}, NEW r \in Int, 0 <= r, r < n, a = q * n + r
  PROVE  a % n = r
<1>1. a = n * (a \div n) + (a % n) /\ a % n >= 0 /\ a % n < n /\ a \div n \in Int
  OBVIOUS
<1>2. CASE a \div n > q
  <2>1. PICK k \in Nat : a \div n = q + 1 + k
    BY <1>1, <1>2
  <2>2. n * (a \div n) = q * n + n + n * k /\ n * k >= 0
    BY <2>1
  <2> QED
    BY <1>1, <2>2
<1>3. CASE a \div n < q
  <2>1. PICK k \in Nat : q = (a \div n) + 1 + k
    BY <1>1, <1>3
  <2>2. q * n = n * (a \div n) + n + n * k /\ n * k >= 0
    BY <1>1, <2>1
  <2> QED
    BY <1>1, <2>2
<1>4. CASE a \div n = q
  BY <1>1, <1>4
<1> QED
  BY <1>1, <1>2, <1>3, <1>4

LEMMA Sizes == Size \in Nat /\ Size > 0 /\ Wrap \in Nat /\ Wrap > Size
  BY VirtioAssumption

\* Indices advance around the ring of their values, and their distance is what is
\* between them.
LEMMA PlusIs ==
  ASSUME NEW x \in Index, NEW k \in 0 .. Wrap
  PROVE  Plus(x, k) = IF x + k < Wrap THEN x + k ELSE x + k - Wrap
<1>1. x \in Nat /\ x < Wrap /\ k \in Nat /\ k <= Wrap /\ Wrap \in Nat \ {0}
  BY Sizes DEF Index
<1>2. CASE x + k < Wrap
  <2>1. x + k = 0 * Wrap + (x + k)
    BY <1>1
  <2>2. (x + k) % Wrap = x + k
    BY <1>1, <1>2, <2>1, Remainder
  <2> QED
    BY <1>2, <2>2 DEF Plus
<1>3. CASE x + k >= Wrap
  <2>1. x + k = 1 * Wrap + (x + k - Wrap)
    BY <1>1
  <2>2. (x + k) % Wrap = x + k - Wrap
    BY <1>1, <1>3, <2>1, Remainder
  <2> QED
    BY <1>1, <1>3, <2>2 DEF Plus
<1> QED
  BY <1>1, <1>2, <1>3

LEMMA DistanceIs ==
  ASSUME NEW x \in Index, NEW y \in Index
  PROVE  Distance(x, y) = IF x <= y THEN y - x ELSE y - x + Wrap
<1>1. x \in Nat /\ x < Wrap /\ y \in Nat /\ y < Wrap /\ Wrap \in Nat \ {0}
  BY Sizes DEF Index
<1>2. CASE x <= y
  <2>1. y - x = 0 * Wrap + (y - x)
    BY <1>1
  <2>2. (y - x) % Wrap = y - x
    BY <1>1, <1>2, <2>1, Remainder
  <2> QED
    BY <1>2, <2>2 DEF Distance
<1>3. CASE x > y
  <2>1. y - x = (-1) * Wrap + (y - x + Wrap)
    BY <1>1
  <2>2. (y - x) % Wrap = y - x + Wrap
    BY <1>1, <1>3, <2>1, Remainder
  <2> QED
    BY <1>1, <1>3, <2>2 DEF Distance
<1> QED
  BY <1>1, <1>2, <1>3

LEMMA Around ==
  ASSUME NEW x \in Index, NEW y \in Index
  PROVE  /\ Distance(x, y) \in Index /\ (Distance(x, y) = 0 <=> x = y) /\ Distance(x, x) = 0
         /\ Plus(x, Distance(x, y)) = y /\ Plus(x, 0) = x
         /\ \A k \in Index : Plus(x, k) \in Index
         /\ \A k, j \in Index : k + j < Wrap => Plus(Plus(x, k), j) = Plus(x, k + j)
         /\ \A k \in Index : Distance(x, y) + k < Wrap => Distance(x, Plus(y, k)) = Distance(x, y) + k
         /\ \A k \in Index : k <= Distance(x, y) => Distance(Plus(x, k), y) = Distance(x, y) - k
<1>1. x \in Nat /\ x < Wrap /\ y \in Nat /\ y < Wrap /\ Wrap \in Nat \ {0} /\ 0 \in Index
  BY Sizes DEF Index
<1>2. \A k : k \in Index <=> (k \in Nat /\ k < Wrap)
  BY Sizes DEF Index
<1> DEFINE d == Distance(x, y)
<1>3. (d = IF x <= y THEN y - x ELSE y - x + Wrap) /\ Distance(x, x) = x - x
  <2>1. \A u, v \in Index : Distance(u, v) = IF u <= v THEN v - u ELSE v - u + Wrap
    BY DistanceIs
  <2> QED
    BY <1>1, <2>1
<1>4. d \in Index /\ (d = 0 <=> x = y) /\ Distance(x, x) = 0
  BY <1>1, <1>2, <1>3
<1>5. \A k \in Index : Plus(x, k) = IF x + k < Wrap THEN x + k ELSE x + k - Wrap
  BY PlusIs, <1>1, <1>2
<1>6. \A k \in Index : Plus(x, k) \in Index
  BY <1>1, <1>2, <1>5
<1>7. Plus(x, d) = y /\ Plus(x, 0) = x
  BY <1>1, <1>2, <1>3, <1>4, <1>5
<1>8. ASSUME NEW k \in Index, NEW j \in Index, k + j < Wrap
      PROVE  Plus(Plus(x, k), j) = Plus(x, k + j)
  <2>1. k \in Nat /\ j \in Nat /\ k < Wrap /\ j < Wrap /\ k + j \in Index
    BY <1>2, <1>8
  <2>2. Plus(x, k) = (IF x + k < Wrap THEN x + k ELSE x + k - Wrap) /\ Plus(x, k) \in Index
    BY <1>5, <1>6
  <2>3. Plus(x, k + j) = IF x + (k + j) < Wrap THEN x + (k + j) ELSE x + (k + j) - Wrap
    BY <1>5, <2>1
  <2>4. Plus(Plus(x, k), j) = IF Plus(x, k) + j < Wrap THEN Plus(x, k) + j ELSE Plus(x, k) + j - Wrap
    BY <2>1, <2>2, PlusIs, <1>1
  <2> QED
    BY <1>1, <1>8, <2>1, <2>2, <2>3, <2>4
<1>9. ASSUME NEW k \in Index, d + k < Wrap
      PROVE  Distance(x, Plus(y, k)) = d + k
  <2>1. k \in Nat /\ k < Wrap
    BY <1>2
  <2>2. Plus(y, k) = (IF y + k < Wrap THEN y + k ELSE y + k - Wrap)
    BY <1>1, <2>1, PlusIs
  <2>3. Plus(y, k) \in Index
    BY <1>1, <1>2, <2>1, <2>2
  <2>4. Distance(x, Plus(y, k)) = IF x <= Plus(y, k) THEN Plus(y, k) - x ELSE Plus(y, k) - x + Wrap
    BY <2>3, DistanceIs
  <2> QED
    BY <1>1, <1>3, <1>9, <2>1, <2>2, <2>4
<1>10. ASSUME NEW k \in Index, k <= d
       PROVE  Distance(Plus(x, k), y) = d - k
  <2>1. k \in Nat /\ k < Wrap
    BY <1>2
  <2>2. Plus(x, k) = (IF x + k < Wrap THEN x + k ELSE x + k - Wrap) /\ Plus(x, k) \in Index
    BY <1>5, <1>6
  <2>3. Distance(Plus(x, k), y) = IF Plus(x, k) <= y THEN y - Plus(x, k) ELSE y - Plus(x, k) + Wrap
    BY <2>2, DistanceIs
  <2> QED
    BY <1>1, <1>3, <1>10, <2>1, <2>2, <2>3
<1> QED
  BY <1>4, <1>6, <1>7, <1>8, <1>9, <1>10

LEMMA SlotType ==
  ASSUME NEW x \in Index, NEW k \in Index
  PROVE  Plus(x, k) \in Index /\ Slot(x) \in Id /\ Slot(Plus(x, k)) \in Id
<1>1. Plus(x, k) \in Index
  BY Around
<1>2. ASSUME NEW y \in Index PROVE Slot(y) \in Id
  <2>1. y \in Nat
    BY DEF Index
  <2> QED
    BY <2>1, Sizes DEF Slot, Id
<1> QED
  BY <1>1, <1>2

LEMMA NoMultiple ==
  ASSUME NEW n \in Nat, n > 0, NEW c \in Int, c * n < n, -n < c * n
  PROVE  c = 0
<1>1. CASE c > 0
  <2>1. PICK k \in Nat : c = 1 + k
    BY <1>1
  <2>2. c * n = n + k * n /\ k * n >= 0
    BY <2>1
  <2> QED
    BY <2>2
<1>2. CASE c < 0
  <2>1. PICK k \in Nat : c = -1 - k
    BY <1>2
  <2>2. c * n = -n - k * n /\ k * n >= 0
    BY <2>1
  <2> QED
    BY <2>2
<1> QED
  BY <1>1, <1>2

\* Fewer than Size indices in a row have slots of their own, through a wrap too.
LEMMA SlotsApart ==
  ASSUME NEW x \in Index, NEW j \in 0 .. (Size - 1), NEW k \in 0 .. (Size - 1),
         Slot(Plus(x, j)) = Slot(Plus(x, k))
  PROVE  j = k
<1> DEFINE y == Plus(x, j)  z == Plus(x, k)
<1>1. PICK m \in Int : Wrap = m * Size
  <2>1. Size \in Nat \ {0} /\ Wrap \in Int /\ Wrap % Size = 0
    BY Sizes, VirtioAssumption
  <2>2. PICK m \in Int : Wrap = m * Size + (Wrap % Size)
    BY <2>1, Euclid
  <2> QED
    BY <2>1, <2>2
<1>2. x \in Nat /\ j \in Nat /\ k \in Nat /\ j \in 0 .. Wrap /\ k \in 0 .. Wrap
  BY Sizes DEF Index
<1>3. /\ y \in Int /\ z \in Int
      /\ y = x + j \/ y = x + j - Wrap
      /\ z = x + k \/ z = x + k - Wrap
  BY <1>2, Sizes, PlusIs
<1>4. PICK a \in Int, b \in Int : y = a * Size + Slot(y) /\ z = b * Size + Slot(z)
  <2>1. Size \in Nat \ {0}
    BY Sizes
  <2> HIDE DEF y, z
  <2>2. (\E a \in Int : y = a * Size + Slot(y)) /\ (\E b \in Int : z = b * Size + Slot(z))
    BY <1>3, <2>1, Euclid DEF Slot
  <2> QED
    BY <2>2
<1>5. Slot(y) = Slot(z) /\ Slot(y) \in Int
  <2>1. Size \in Nat \ {0}
    BY Sizes
  <2> QED
    BY <1>3, <2>1, Euclid DEF Slot
<1> HIDE DEF y, z
<1>6. y - z = (a - b) * Size
  BY <1>3, <1>4, <1>5, Sizes
<1>7. \E c \in {-m, 0, m} : j - k = (a - b + c) * Size
  <2>1. y - z = j - k \/ y - z = j - k - Wrap \/ y - z = j - k + Wrap
    BY <1>2, <1>3, Sizes
  <2>2. CASE y - z = j - k
    BY <1>6, <2>2, <1>4, Sizes
  <2>3. CASE y - z = j - k - Wrap
    <3>1. j - k = (a - b) * Size + m * Size
      BY <1>1, <1>6, <2>3, <1>4, Sizes
    <3>2. j - k = (a - b + m) * Size
      BY <3>1, <1>4, Sizes
    <3> QED
      BY <3>2
  <2>4. CASE y - z = j - k + Wrap
    <3>1. j - k = (a - b) * Size - m * Size
      BY <1>1, <1>6, <2>4, <1>4, Sizes
    <3>2. j - k = (a - b + (-m)) * Size
      BY <3>1, <1>4, Sizes
    <3> QED
      BY <3>2
  <2> QED
    BY <2>1, <2>2, <2>3, <2>4
<1>8. PICK c \in {-m, 0, m} : j - k = (a - b + c) * Size
  BY <1>7
<1> DEFINE e == a - b + c
<1>9. e \in Int /\ j - k = e * Size
  BY <1>4, <1>8
<1>10. e * Size < Size /\ -Size < e * Size
  BY <1>9, Sizes
<1> HIDE DEF e
<1>11. e = 0
  BY <1>9, <1>10, Sizes, NoMultiple
<1> QED
  BY <1>9, <1>11, Sizes

-----------------------------------------------------------------------------
(* Sequences and what is asked and answered                                  *)

LEMMA IsSeq ==
  ASSUME NEW n \in Nat, NEW s, s = [i \in 1 .. n |-> s[i]]
  PROVE  s \in Seq({s[i] : i \in 1 .. n}) /\ Len(s) = n /\ DOMAIN s = 1 .. n
OBVIOUS

\* Values that are all different number no more than the chains there are.
LEMMA PigeonHole ==
  ASSUME NEW n \in Nat, NEW f \in [1 .. n -> Id],
         \A i, j \in 1 .. n : f[i] = f[j] => i = j
  PROVE  n <= Size
<1> SUFFICES ASSUME n > Size PROVE FALSE
  BY Sizes
<1>1. IsFiniteSet(1 .. n) /\ Cardinality(1 .. n) = n
  BY FS_Interval, Sizes
<1>2. IsFiniteSet(Id) /\ Cardinality(Id) = Size
  <2>1. IsFiniteSet(0 .. (Size - 1)) /\ Cardinality(0 .. (Size - 1)) = IF 0 > Size - 1 THEN 0 ELSE (Size - 1) - 0 + 1
    BY FS_Interval, Sizes
  <2> QED
    BY <2>1, Sizes DEF Id
<1>3. \E x, y \in 1 .. n : x # y /\ f[x] = f[y]
  <2>1. Cardinality(Id) < Cardinality(1 .. n)
    BY <1>1, <1>2, Sizes
  <2> QED
    BY <1>1, <1>2, <2>1, FS_PigeonHole, Zenon
<1> QED
  BY <1>3

(* The numbers of requests that wait and of answers not yet taken, and the     *)
(* chains and the slots they are in.                                          *)
Asks == Distance(dev.last, ring.availIdx)
Replies == Distance(seen, ring.usedIdx)
Asked(i) == ring.avail[Slot(Plus(dev.last, i - 1))]
Reply(i) == ring.used[Slot(Plus(seen, i - 1))]

(* what is written only by whole entries has its shape *)
Ringed(r) ==
  /\ r = [availIdx |-> r.availIdx, avail |-> r.avail, usedIdx |-> r.usedIdx, used |-> r.used,
          table |-> r.table, answer |-> r.answer]
  /\ r.availIdx \in Index /\ r.usedIdx \in Index /\ r.avail \in [Id -> Id]
  /\ r.used = [s \in Id |-> r.used[s]] /\ r.table = [h \in Id |-> r.table[h]]
  /\ r.answer = [h \in Id |-> r.answer[h]]

Shape ==
  /\ dev \in Devices /\ (dev.irq <=> dev.isr) /\ seen \in Index /\ draining \in BOOLEAN
  /\ Ringed(ring)

(* A chain is asked once or answered once or free, and has no status before it  *)
(* is answered.                                                               *)
Apart ==
  dev.ready =>
    /\ \A i \in 1 .. Replies : Reply(i).id \in Id
    /\ \A i \in 1 .. Asks : ring.answer[Asked(i)] = "none"
    /\ \A i, j \in 1 .. Asks : Asked(i) = Asked(j) => i = j
    /\ \A i, j \in 1 .. Replies : Reply(i).id = Reply(j).id => i = j
    /\ \A i \in 1 .. Asks, j \in 1 .. Replies : Asked(i) # Reply(j).id

LEMMA Counts ==
  ASSUME Shape
  PROVE  /\ Asks \in Nat /\ Asks < Wrap /\ Asks \in Index /\ Replies \in Nat /\ Replies < Wrap /\ Replies \in Index
         /\ Plus(dev.last, Asks) = ring.availIdx /\ Plus(seen, Replies) = ring.usedIdx
         /\ \A x \in Index : Slot(x) \in Id
<1>1. dev.last \in Index /\ seen \in Index /\ ring.availIdx \in Index /\ ring.usedIdx \in Index
  BY DEF Shape, Devices, Ringed
<1>2. \A k : k \in Index <=> (k \in Nat /\ k < Wrap)
  BY Sizes DEF Index
<1>3. ASSUME NEW x \in Index PROVE Slot(x) \in Id
  BY Sizes, <1>2 DEF Slot, Id
<1> QED
  BY <1>1, <1>2, <1>3, Around DEF Asks, Replies

LEMMA Forms ==
  ASSUME Shape, dev.ready
  PROVE  /\ Waiting = [i \in 1 .. Asks |-> [id |-> Asked(i), chain |-> ring.table[Asked(i)]]]
         /\ Done = [i \in 1 .. Replies |-> [id |-> Reply(i).id, status |-> ring.answer[Reply(i).id],
                                            written |-> Reply(i).written]]
         /\ Len(Waiting) = Asks /\ DOMAIN Waiting = 1 .. Asks
         /\ Len(Done) = Replies /\ DOMAIN Done = 1 .. Replies
         /\ Waiting \in Seq({Waiting[i] : i \in 1 .. Asks})
         /\ Done \in Seq({Done[i] : i \in 1 .. Replies})
<1>1. /\ Waiting = [i \in 1 .. Asks |-> [id |-> Asked(i), chain |-> ring.table[Asked(i)]]]
      /\ Done = [i \in 1 .. Replies |-> [id |-> Reply(i).id, status |-> ring.answer[Reply(i).id],
                                         written |-> Reply(i).written]]
  BY Zenon DEF Waiting, Done, Batch, Asks, Replies, Asked, Reply
<1>2. Asks \in Nat /\ Replies \in Nat
  BY Counts
<1>3. Waiting = [i \in 1 .. Asks |-> Waiting[i]] /\ Done = [i \in 1 .. Replies |-> Done[i]]
  <2>1. Waiting = [i \in 1 .. Asks |-> Waiting[i]]
    BY <1>1, Zenon
  <2>2. Done = [i \in 1 .. Replies |-> Done[i]]
    BY <1>1, Zenon
  <2> QED
    BY <2>1, <2>2, Zenon
<1>4. /\ Waiting \in Seq({Waiting[i] : i \in 1 .. Asks}) /\ Len(Waiting) = Asks /\ DOMAIN Waiting = 1 .. Asks
      /\ Done \in Seq({Done[i] : i \in 1 .. Replies}) /\ Len(Done) = Replies /\ DOMAIN Done = 1 .. Replies
  <2>1. /\ Waiting \in Seq({Waiting[i] : i \in 1 .. Asks})
        /\ Len(Waiting) = Asks /\ DOMAIN Waiting = 1 .. Asks
    BY <1>2, <1>3, IsSeq, ZenonT(30)
  <2>2. /\ Done \in Seq({Done[i] : i \in 1 .. Replies})
        /\ Len(Done) = Replies /\ DOMAIN Done = 1 .. Replies
    BY <1>2, <1>3, IsSeq, ZenonT(30)
  <2> QED BY <2>1, <2>2, Zenon
<1> QED
  BY <1>1, <1>4

\* The rings have room: what is asked and answered, and one chain more that is free,
\* fit in their slots.
LEMMA Room ==
  ASSUME Shape, Apart, dev.ready
  PROVE  /\ Asks + Replies <= Size
         /\ \A h \in Id : (\A i \in 1 .. Asks : Asked(i) # h) /\ (\A i \in 1 .. Replies : Reply(i).id # h)
                          => Asks + Replies < Size
<1>1. /\ Asks \in Nat /\ Replies \in Nat
      /\ \A i \in 1 .. Asks : Asked(i) \in Id
  <2>1. Asks \in Nat /\ Replies \in Nat /\ Asks \in Index /\ dev.last \in Index /\ ring.avail \in [Id -> Id]
    BY Counts DEF Shape, Devices, Ringed
  <2>2. \A i \in 1 .. Asks : i - 1 \in Index
    BY <2>1, Sizes DEF Index
  <2>3. \A i \in 1 .. Asks : Slot(Plus(dev.last, i - 1)) \in Id
    BY <2>1, <2>2, Around, Counts
  <2> QED
    BY <2>1, <2>3 DEF Asked
<1> DEFINE a == Asks  n == Replies  f == [i \in 1 .. (a + n) |-> IF i <= a THEN Asked(i) ELSE Reply(i - a).id]
<1>2. \A i \in 1 .. (a + n) : (i <= a /\ i \in 1 .. a) \/ (~(i <= a) /\ i - a \in 1 .. n)
  BY <1>1
<1>3. f \in [1 .. (a + n) -> Id] /\ \A i, j \in 1 .. (a + n) : f[i] = f[j] => i = j
  <2>1. \A i \in 1 .. a : Asked(i) \in Id
    BY <1>1
  <2>2. /\ \A i \in 1 .. n : Reply(i).id \in Id
        /\ \A i, j \in 1 .. a : Asked(i) = Asked(j) => i = j
        /\ \A i, j \in 1 .. n : Reply(i).id = Reply(j).id => i = j
        /\ \A i \in 1 .. a, j \in 1 .. n : Asked(i) # Reply(j).id
    BY DEF Apart
  <2>3. a \in Nat /\ n \in Nat
    BY <1>1
  <2> HIDE DEF a, n
  <2>4. f \in [1 .. (a + n) -> Id]
    BY <1>2, <2>1, <2>2
  <2>5. ASSUME NEW i \in 1 .. (a + n), NEW j \in 1 .. (a + n), f[i] = f[j]
        PROVE  i = j
    <3>1. f[i] = (IF i <= a THEN Asked(i) ELSE Reply(i - a).id) /\ f[j] = (IF j <= a THEN Asked(j) ELSE Reply(j - a).id)
      OBVIOUS
    <3> HIDE DEF f
    <3>2. CASE i <= a /\ j <= a
      BY <1>2, <2>2, <2>5, <3>1, <3>2
    <3>3. CASE i <= a /\ ~(j <= a)
      BY <1>2, <2>2, <2>5, <3>1, <3>3
    <3>4. CASE ~(i <= a) /\ j <= a
      BY <1>2, <2>2, <2>5, <3>1, <3>4
    <3>5. CASE ~(i <= a) /\ ~(j <= a)
      <4>1. i - a = j - a
        BY <1>2, <2>2, <2>5, <3>1, <3>5, Zenon
      <4> QED
        BY <2>3, <4>1
    <3> QED
      BY <3>2, <3>3, <3>4, <3>5
  <2> QED
    BY <2>4, <2>5
<1> HIDE DEF f
<1>4. a + n \in Nat
  BY <1>1
<1>5. a + n <= Size
  BY <1>3, <1>4, PigeonHole
<1>6. ASSUME NEW h \in Id, \A i \in 1 .. a : Asked(i) # h, \A i \in 1 .. n : Reply(i).id # h
      PROVE  a + n < Size
  <2> DEFINE m == a + n + 1  g == [i \in 1 .. m |-> IF i <= a + n THEN f[i] ELSE h]
  <2>1. \A i \in 1 .. (a + n) : f[i] # h
    BY <1>2, <1>6 DEF f
  <2>2. m \in Nat /\ \A i \in 1 .. m : (i <= a + n /\ i \in 1 .. (a + n)) \/ (~(i <= a + n) /\ i = m)
    BY <1>4
  <2> HIDE DEF a, n, m
  <2>3. g \in [1 .. m -> Id]
    BY <1>3, <2>2
  <2>4. \A i, j \in 1 .. m : g[i] = g[j] => i = j
    BY <1>3, <2>1, <2>2
  <2> HIDE DEF g
  <2>5. m <= Size
    BY <2>2, <2>3, <2>4, PigeonHole
  <2> QED
    BY <1>4, <2>5, Sizes DEF m
<1> QED
  BY <1>5, <1>6

-----------------------------------------------------------------------------
(* The queue carries out requests as the ring does                           *)

LEMMA SameStores ==
  ASSUME NEW s, NEW q
  PROVE  After(s, q) = Queue!After(s, q)
  BY Zenon DEF After, Queue!After, Performed, Queue!Performed, ReadInto, Queue!ReadInto,
     WrittenFrom, Queue!WrittenFrom, Zeroed, Queue!Zeroed, Covers, Queue!Covers, BlockOf, Queue!BlockOf,
     AddressOf, Queue!AddressOf, Advanced, Queue!Advanced, Past, Queue!Past, Begun, Queue!Begun,
     Ended, Queue!Ended, Usable, Queue!Usable, Writable, Queue!Writable, Verdict, Queue!Verdict,
     FoldLeft, Queue!FoldLeft, MapThenFoldSet, Queue!MapThenFoldSet, Max, Queue!Max

LEMMA SameAnswers ==
  ASSUME NEW s, NEW q
  PROVE  Answers(s, q) = Queue!Answers(s, q)
  BY Zenon DEF Answers, Queue!Answers, After, Queue!After, Performed, Queue!Performed, ReadInto, Queue!ReadInto,
     WrittenFrom, Queue!WrittenFrom, Zeroed, Queue!Zeroed, Covers, Queue!Covers, BlockOf, Queue!BlockOf,
     AddressOf, Queue!AddressOf, Advanced, Queue!Advanced, Past, Queue!Past, Begun, Queue!Begun,
     Ended, Queue!Ended, Usable, Queue!Usable, Writable, Queue!Writable, Verdict, Queue!Verdict,
     FoldLeft, Queue!FoldLeft, MapThenFoldSet, Queue!MapThenFoldSet, Max, Queue!Max

(* A sequence of n answers, to the requests of q.                              *)
Answering(a, q, n) ==
  /\ DOMAIN a = 1 .. n /\ Len(a) = n /\ a = [i \in 1 .. n |-> a[i]]
  /\ \A i \in 1 .. n : a[i] = [id |-> q[i].id, status |-> a[i].status, written |-> a[i].written]

\* Each answer carries the chain of its request.
LEMMA AnswersName ==
  ASSUME NEW s, NEW n \in Nat, NEW q, q = [i \in 1 .. n |-> q[i]], NEW a, a = Answers(s, q)
  PROVE  Answering(a, q, n)
<1>1. DOMAIN q = 1 .. n
  OBVIOUS
<1>2. /\ DOMAIN a = 1 .. n /\ a = [i \in 1 .. n |-> a[i]]
      /\ \A i \in 1 .. n : a[i] = [id |-> q[i].id, status |-> a[i].status, written |-> a[i].written]
  <2>1. a = [i \in 1 .. n |->
               [id |-> q[i].id, status |-> Performed(After(s, q)[i - 1], q[i].chain).status,
                written |-> Performed(After(s, q)[i - 1], q[i].chain).written]]
    BY <1>1, Zenon DEF Answers
  <2> DEFINE st(i) == Performed(After(s, q)[i - 1], q[i].chain).status
             wr(i) == Performed(After(s, q)[i - 1], q[i].chain).written
  <2>2. a = [i \in 1 .. n |-> [id |-> q[i].id, status |-> st(i), written |-> wr(i)]]
    BY <2>1, Zenon
  <2> HIDE DEF st, wr
  <2>3. a = [i \in 1 .. n |-> a[i]] /\ DOMAIN a = 1 .. n
    BY <2>2, Zenon
  <2>4. ASSUME NEW i \in 1 .. n
        PROVE  a[i] = [id |-> q[i].id, status |-> a[i].status, written |-> a[i].written]
    <3>1. a[i] = [id |-> q[i].id, status |-> st(i), written |-> wr(i)]
      BY <2>2, Zenon
    <3>2. a[i].status = st(i) /\ a[i].written = wr(i)
      BY <3>1
    <3> QED
      BY <3>1, <3>2, Zenon
  <2> QED
    BY <2>3, <2>4, Zenon
<1>3. Len(a) = n
  BY <1>2, IsSeq
<1> QED
  BY <1>2, <1>3, Zenon DEF Answering

LEMMA NoRequests ==
  ASSUME NEW s, NEW q, Len(q) = 0
  PROVE  After(s, q)[0] = s
<1> DEFINE Is(f) == f = [i \in 0 .. Len(q) |-> IF i = 0 THEN s ELSE Performed(f[i - 1], q[i].chain).store]
           g == [i \in 0 .. 0 |-> s]
<1>1. Is(g)
  <2>1. 0 .. Len(q) = 0 .. 0 /\ \A i \in 0 .. 0 : i = 0
    OBVIOUS
  <2>2. [i \in 0 .. 0 |-> IF i = 0 THEN s ELSE Performed(g[i - 1], q[i].chain).store] = g
    BY <2>1
  <2> QED
    BY <2>1, <2>2
<1>2. After(s, q) = CHOOSE f : Is(f)
  BY Zenon DEF After
<1>3. Is(After(s, q))
  <2> HIDE DEF Is
  <2> QED
    BY <1>1, <1>2
<1>4. 0 \in 0 .. Len(q)
  OBVIOUS
<1> QED
  BY <1>3, <1>4

-----------------------------------------------------------------------------
(* Answers go to the slots after the used index, one each                    *)

\* The rings e are r with the n answers of a in the used ring, each told to its chain.
Filled(r, a, n, e) ==
  /\ e.availIdx = r.availIdx /\ e.avail = r.avail /\ e.table = r.table
  /\ e.usedIdx = Plus(r.usedIdx, n) /\ Ringed(e)
  /\ \A i \in 1 .. n :
       /\ e.used[Slot(Plus(r.usedIdx, i - 1))] = [id |-> a[i].id, written |-> a[i].written]
       /\ e.answer[a[i].id] = a[i].status
  /\ \A s \in Id : (\A i \in 1 .. n : Slot(Plus(r.usedIdx, i - 1)) # s) => e.used[s] = r.used[s]
  /\ \A h \in Id : (\A i \in 1 .. n : a[i].id # h) => e.answer[h] = r.answer[h]

LEMMA CompletedIs ==
  ASSUME NEW r, Ringed(r), NEW a, Len(a) \in Nat, Len(a) <= Size,
         \A i \in 1 .. Len(a) : a[i].id \in Id /\ r.answer[a[i].id] = "none",
         \A i, j \in 1 .. Len(a) : a[i].id = a[j].id => i = j
  PROVE  Filled(r, a, Len(a), Completed(r, a))
<1> DEFINE n == Len(a)
           place(i) == Slot(Plus(r.usedIdx, i - 1))
           at(s)   == { i \in 1 .. n : place(i) = s }
           of(h)   == { i \in 1 .. n : a[i].id = h /\ a[i].status # "none" }
           last(I) == CHOOSE i \in I : \A j \in I : j <= i
           used    == [s \in Id |-> IF at(s) = {} THEN r.used[s]
                                    ELSE [id |-> a[last(at(s))].id, written |-> a[last(at(s))].written]]
           answer  == [h \in Id |-> IF of(h) = {} THEN r.answer[h] ELSE a[last(of(h))].status]
           e       == Completed(r, a)
<1>0. /\ n \in Nat /\ n <= Size
      /\ \A i \in 1 .. n : a[i].id \in Id /\ r.answer[a[i].id] = "none"
      /\ \A i, j \in 1 .. n : a[i].id = a[j].id => i = j
  OBVIOUS
<1>1. /\ r = [availIdx |-> r.availIdx, avail |-> r.avail, usedIdx |-> r.usedIdx, used |-> r.used,
              table |-> r.table, answer |-> r.answer]
      /\ r.usedIdx \in Index
  BY Zenon DEF Ringed
<1>2. e = [r EXCEPT !.used = used, !.answer = answer, !.usedIdx = Plus(@, n)]
  BY Zenon DEF Completed
<1> DEFINE idx == Plus(r.usedIdx, n)
<1>3. idx \in Index
  <2>1. n \in Index
    BY Sizes DEF Index, n
  <2> QED
    BY <1>1, <2>1, Around
<1> HIDE DEF used, answer, e, idx, n
<1>4. e = [availIdx |-> r.availIdx, avail |-> r.avail, usedIdx |-> idx, used |-> used,
           table |-> r.table, answer |-> answer]
  BY <1>1, <1>2 DEF idx
<1>5. /\ used = [s \in Id |-> used[s]] /\ answer = [h \in Id |-> answer[h]]
      /\ \A s \in Id : used[s] = IF at(s) = {} THEN r.used[s]
                                 ELSE [id |-> a[last(at(s))].id, written |-> a[last(at(s))].written]
      /\ \A h \in Id : answer[h] = IF of(h) = {} THEN r.answer[h] ELSE a[last(of(h))].status
  <2> HIDE DEF at, of, last
  <2> QED
    BY DEF used, answer
<1>6. ASSUME NEW i \in 1 .. n PROVE place(i) \in Id /\ at(place(i)) = {i}
  <2>1. i - 1 \in 0 .. (Size - 1) /\ i - 1 \in Index
    BY <1>0, Sizes DEF Index
  <2>2. place(i) \in Id
    BY <1>1, <2>1, SlotType
  <2>3. ASSUME NEW j \in 1 .. n, place(j) = place(i) PROVE j = i
    <3>1. j - 1 \in 0 .. (Size - 1)
      BY <1>0, Sizes
    <3>2. j - 1 = i - 1
      BY <1>1, <2>1, <2>3, <3>1, SlotsApart
    <3> QED
      BY <3>2
  <2> QED
    BY <2>2, <2>3
<1>7. \A i \in 1 .. n : last({i}) = i
  <2> SUFFICES ASSUME NEW i \in 1 .. n PROVE (CHOOSE k \in {i} : \A j \in {i} : j <= k) = i
    OBVIOUS
  <2> QED
    OBVIOUS
<1>8. ASSUME NEW i \in 1 .. n
      PROVE  /\ used[place(i)] = [id |-> a[i].id, written |-> a[i].written]
             /\ answer[a[i].id] = a[i].status
  <2>1. used[place(i)] = [id |-> a[i].id, written |-> a[i].written]
    <3>1. last(at(place(i))) = i /\ at(place(i)) # {}
      BY <1>6, <1>7
    <3> HIDE DEF last, at, place
    <3> QED
      BY <1>5, <1>6, <3>1
  <2>2. CASE a[i].status = "none"
    <3>1. of(a[i].id) = {}
      BY <1>0, <2>2
    <3>2. a[i].id \in Id /\ r.answer[a[i].id] = "none"
      BY <1>0
    <3> HIDE DEF of, at, last, place
    <3> QED
      BY <1>5, <2>1, <2>2, <3>1, <3>2, Zenon
  <2>3. CASE a[i].status # "none"
    <3>1. of(a[i].id) = {i}
      BY <1>0, <2>3
    <3>2. last(of(a[i].id)) = i /\ of(a[i].id) # {}
      BY <1>7, <3>1
    <3>3. a[i].id \in Id
      BY <1>0
    <3> HIDE DEF of, at, last, place
    <3>4. answer[a[i].id] = a[last(of(a[i].id))].status
      BY <1>5, <3>2, <3>3, Zenon
    <3> QED
      BY <2>1, <3>2, <3>4, Zenon
  <2> QED
    BY <2>2, <2>3
<1>9. ASSUME NEW s \in Id, \A i \in 1 .. n : place(i) # s PROVE used[s] = r.used[s]
  <2>1. at(s) = {}
    BY <1>9
  <2> HIDE DEF at
  <2> QED
    BY <1>5, <2>1
<1>10. ASSUME NEW h \in Id, \A i \in 1 .. n : a[i].id # h PROVE answer[h] = r.answer[h]
  <2>1. of(h) = {}
    BY <1>10
  <2> HIDE DEF of
  <2> QED
    BY <1>5, <2>1
<1>11. /\ e.availIdx = r.availIdx /\ e.avail = r.avail /\ e.table = r.table
       /\ e.usedIdx = idx /\ e.used = used /\ e.answer = answer /\ Ringed(e)
  <2>1. /\ e.availIdx = r.availIdx /\ e.avail = r.avail /\ e.table = r.table
        /\ e.usedIdx = idx /\ e.used = used /\ e.answer = answer
    BY <1>4
  <2> QED
    BY <1>3, <1>4, <1>5, <2>1, Zenon DEF Ringed
<1>12. Filled(r, a, n, e)
  BY <1>8, <1>9, <1>10, <1>11, Zenon DEF Filled, idx
<1> QED
  BY <1>12 DEF e, n

-----------------------------------------------------------------------------
(* Each step keeps the rings' shape and is a step of the queue               *)

QueueStep == Queue!Next \/ UNCHANGED Queue!vars

LEMMA QueueInit == Init => Shape /\ Apart /\ Queue!Init
<1> SUFFICES ASSUME Init PROVE Shape /\ Apart /\ Queue!Init
  OBVIOUS
<1>1. /\ dev = NoDevice /\ seen = 0 /\ draining = FALSE /\ ring = NoRings
      /\ store = [disk |-> [b \in 0 .. Sectors - 1 |-> Zero], mem |-> [a \in Address |-> Zero]]
  BY DEF Init
<1>2. 0 \in Index /\ 0 \in Id
  BY Sizes DEF Index, Id
<1>3. Ringed(ring)
  BY <1>1, <1>2 DEF NoRings, Ringed
<1>4. Shape /\ ~dev.ready
  BY <1>1, <1>2, <1>3 DEF Shape, NoDevice, Devices
<1>5. Waiting = <<>> /\ Done = <<>>
  BY <1>4 DEF Waiting, Done
<1>6. store \in Stores
  BY <1>1, VirtioAssumption DEF Stores
<1>7. store \in Queue!Stores
  BY <1>6 DEF Stores, Queue!Stores
<1> QED
  BY <1>4, <1>5, <1>7 DEF Apart, Queue!Init

\* What stays with one side of the rings leaves what is asked and answered alone.
LEMMA Still ==
  ASSUME Shape, Apart, ring' = ring, dev'.ready = dev.ready, dev'.last = dev.last, seen' = seen
  PROVE  Apart' /\ Waiting' = Waiting /\ Done' = Done
<1>1. Asks' = Asks /\ Replies' = Replies /\ \A i : Asked(i)' = Asked(i) /\ Reply(i)' = Reply(i)
  BY Zenon DEF Asks, Replies, Asked, Reply
<1>2. Waiting' = Waiting /\ Done' = Done
  BY Zenon DEF Waiting, Done, Batch
<1>3. Apart'
  BY <1>1, Zenon DEF Apart
<1> QED
  BY <1>2, <1>3

\* A notification serves all that waits; its answers follow those not yet taken.
LEMMA NotifyStep ==
  ASSUME Shape, Apart, CompletionSignalled, Notify, dev.ready
  PROVE  Shape' /\ Apart' /\ CompletionSignalled' /\ QueueStep
<1>0. PICK batch, a, w, n :
        batch = Waiting /\ a = Answers(store, Waiting) /\ w = Asks /\ n = Replies
  BY Zenon
<1>1. /\ batch = Batch(dev, ring) /\ ring' = Completed(ring, a) /\ store' = After(store, batch)[Len(batch)]
      /\ dev' = Signalled(dev, Len(batch)) /\ seen' = seen /\ draining' = draining
  BY <1>0, Zenon DEF Notify, Waiting
<1>2. /\ w \in Nat /\ n \in Nat /\ w \in Index /\ n \in Index /\ w < Wrap /\ n < Wrap
      /\ Plus(dev.last, w) = ring.availIdx /\ Plus(seen, n) = ring.usedIdx
      /\ \A x \in Index : Slot(x) \in Id
  BY <1>0, Counts
<1>3. /\ batch = [i \in 1 .. w |-> [id |-> Asked(i), chain |-> ring.table[Asked(i)]]]
      /\ Len(batch) = w /\ DOMAIN batch = 1 .. w
      /\ Done = [j \in 1 .. n |-> [id |-> Reply(j).id, status |-> ring.answer[Reply(j).id],
                                   written |-> Reply(j).written]]
      /\ Len(Done) = n /\ DOMAIN Done = 1 .. n /\ Done \in Seq({Done[i] : i \in 1 .. n})
  BY <1>0, Forms
<1>4. w + n <= Size
  BY <1>0, Room
<1>5. /\ dev.last \in Index /\ seen \in Index /\ ring.usedIdx \in Index /\ ring.availIdx \in Index
      /\ ring.avail \in [Id -> Id] /\ Ringed(ring)
  BY DEF Shape, Devices, Ringed
<1>6. \A i \in 1 .. w : Asked(i) \in Id
  <2> SUFFICES ASSUME NEW i \in 1 .. w PROVE ring.avail[Slot(Plus(dev.last, i - 1))] \in Id
    BY DEF Asked
  <2>1. i - 1 \in Index
    BY <1>2, Sizes DEF Index
  <2> QED
    BY <1>5, <2>1, SlotType
<1>7. /\ DOMAIN a = 1 .. w /\ Len(a) = w /\ a = [i \in 1 .. w |-> a[i]]
      /\ \A i \in 1 .. w : a[i] = [id |-> Asked(i), status |-> a[i].status, written |-> a[i].written]
  <2>1. batch = [i \in 1 .. w |-> batch[i]] /\ \A i \in 1 .. w : batch[i].id = Asked(i)
    BY <1>3
  <2>2. a = Answers(store, batch)
    BY <1>0
  <2>3. /\ DOMAIN a = 1 .. w /\ Len(a) = w /\ a = [i \in 1 .. w |-> a[i]]
        /\ \A i \in 1 .. w : a[i] = [id |-> batch[i].id, status |-> a[i].status, written |-> a[i].written]
    <3>1. w \in Nat /\ batch = [i \in 1 .. w |-> batch[i]]
      BY <1>2, <2>1
    <3>2. Answering(a, batch, w)
      BY <2>2, <3>1, AnswersName
    <3> QED
      BY <3>2, Zenon DEF Answering
  <2> QED
    BY <2>1, <2>3
<1>8. /\ \A i \in 1 .. w : a[i].id = Asked(i)
      /\ \A i \in 1 .. w : a[i].id \in Id /\ ring.answer[a[i].id] = "none"
      /\ \A i, j \in 1 .. w : a[i].id = a[j].id => i = j
  <2>1. \A i \in 1 .. w : a[i].id = Asked(i)
    BY <1>7
  <2> QED
    BY <1>0, <1>6, <2>1 DEF Apart
<1>e. PICK e : e = Completed(ring, a)
  BY Zenon
<1>9. /\ e.availIdx = ring.availIdx /\ e.avail = ring.avail /\ e.table = ring.table
      /\ e.usedIdx = Plus(ring.usedIdx, w) /\ Ringed(e)
      /\ \A i \in 1 .. w :
           /\ e.used[Slot(Plus(ring.usedIdx, i - 1))] = [id |-> a[i].id, written |-> a[i].written]
           /\ e.answer[a[i].id] = a[i].status
      /\ \A s \in Id : (\A i \in 1 .. w : Slot(Plus(ring.usedIdx, i - 1)) # s) => e.used[s] = ring.used[s]
      /\ \A h \in Id : (\A i \in 1 .. w : a[i].id # h) => e.answer[h] = ring.answer[h]
  <2>1. Len(a) \in Nat /\ Len(a) <= Size /\ Len(a) = w
    <3>1. Len(a) = w
      BY <1>7
    <3> QED
      BY <1>2, <1>4, <3>1, Sizes
  <2>2. /\ Ringed(ring)
        /\ \A i \in 1 .. Len(a) : a[i].id \in Id /\ ring.answer[a[i].id] = "none"
        /\ \A i, j \in 1 .. Len(a) : a[i].id = a[j].id => i = j
    BY <1>5, <1>8, <2>1
  <2>3. Filled(ring, a, Len(a), Completed(ring, a))
    BY <2>1, <2>2, CompletedIs
  <2>4. Filled(ring, a, w, e)
    BY <1>e, <2>1, <2>3, Zenon
  <2> QED
    BY <2>4, Zenon DEF Filled
<1>10. /\ dev'.last = ring.availIdx /\ dev'.ready /\ dev' \in Devices /\ (dev'.irq <=> dev'.isr)
       /\ ring' = e /\ (w > 0 => dev'.irq) /\ (dev.irq => dev'.irq)
  <2>1. dev' = [dev EXCEPT !.isr = @ \/ w > 0, !.irq = @ \/ w > 0, !.last = ring.availIdx]
    BY <1>1, <1>2, <1>3 DEF Signalled
  <2>2. dev \in Devices /\ dev.ready /\ (dev.irq <=> dev.isr)
    BY DEF Shape
  <2> DEFINE on == w > 0
  <2>3. on \in BOOLEAN
    OBVIOUS
  <2> HIDE DEF on
  <2>4. dev' = [dev EXCEPT !.isr = @ \/ on, !.irq = @ \/ on, !.last = ring.availIdx]
    BY <2>1 DEF on
  <2>5. dev' = [ready |-> TRUE, isr |-> dev.isr \/ on, irq |-> dev.irq \/ on, last |-> ring.availIdx]
    BY <2>2, <2>4 DEF Devices
  <2>6. (on => dev'.irq) /\ (dev.irq => dev'.irq)
    BY <2>2, <2>3, <2>5 DEF Devices
  <2>7. w > 0 => dev'.irq
    BY <2>6 DEF on
  <2> QED
    BY <1>1, <1>5, <1>e, <2>2, <2>3, <2>5, <2>6, <2>7 DEF Devices
<1>11. Shape'
  BY <1>1, <1>9, <1>10 DEF Shape
<1>12. Asks' = 0 /\ Replies' = n + w
  <2>1. Asks' = Distance(ring.availIdx, ring.availIdx) /\ Replies' = Distance(seen, Plus(ring.usedIdx, w))
    BY <1>1, <1>9, <1>10 DEF Asks, Replies
  <2>2. Distance(seen, ring.usedIdx) = n /\ n + w < Wrap
    BY <1>0, <1>2, <1>4, Sizes DEF Replies
  <2>3. Distance(seen, Plus(ring.usedIdx, w)) = Distance(seen, ring.usedIdx) + w
    <3>1. \A k \in Index : Distance(seen, ring.usedIdx) + k < Wrap
                            => Distance(seen, Plus(ring.usedIdx, k)) = Distance(seen, ring.usedIdx) + k
      BY <1>5, Around
    <3> QED
      BY <1>2, <2>2, <3>1
  <2>4. Distance(ring.availIdx, ring.availIdx) = 0
    BY <1>5, Around
  <2> QED
    BY <2>1, <2>2, <2>3, <2>4
<1>13. ASSUME NEW i \in 1 .. w
       PROVE  Plus(ring.usedIdx, i - 1) = Plus(seen, n + i - 1) /\ n + i - 1 \in 0 .. (Size - 1)
  <2>1. i - 1 \in Index /\ n + (i - 1) < Wrap /\ n + (i - 1) = n + i - 1 /\ n + i - 1 \in 0 .. (Size - 1)
    BY <1>2, <1>4, Sizes DEF Index
  <2> QED
    BY <1>2, <1>5, <2>1, Around
<1> DEFINE after(j) == e.used[Slot(Plus(seen, j - 1))]
<1>r. \A j : Reply(j)' = after(j)
  BY <1>1, <1>10, Zenon DEF Reply
<1>14. ASSUME NEW j \in 1 .. n
       PROVE  after(j) = Reply(j)
  <2>1. j - 1 \in 0 .. (Size - 1) /\ j - 1 \in Index
    BY <1>2, <1>4, Sizes DEF Index
  <2>2. ASSUME NEW i \in 1 .. w PROVE Slot(Plus(ring.usedIdx, i - 1)) # Slot(Plus(seen, j - 1))
    <3>1. n + i - 1 # j - 1
      BY <1>2
    <3> QED
      BY <1>5, <1>13, <2>1, <3>1, SlotsApart
  <2>3. Slot(Plus(seen, j - 1)) \in Id
    BY <1>5, <2>1, SlotType
  <2> QED
    BY <1>9, <2>2, <2>3, Zenon DEF Reply
<1>15. ASSUME NEW i \in 1 .. w
       PROVE  /\ after(n + i) = [id |-> a[i].id, written |-> a[i].written]
              /\ after(n + i).id = a[i].id /\ after(n + i).written = a[i].written
  <2>1. (n + i) - 1 = n + i - 1
    BY <1>2
  <2>2. e.used[Slot(Plus(ring.usedIdx, i - 1))] = [id |-> a[i].id, written |-> a[i].written]
    BY <1>9
  <2>3. PICK z : z = after(n + i)
    BY Zenon
  <2>4. z = [id |-> a[i].id, written |-> a[i].written]
    BY <1>13, <2>1, <2>2, <2>3, Zenon
  <2>5. z.id = a[i].id /\ z.written = a[i].written
    BY <2>4
  <2> QED
    BY <2>3, <2>4, <2>5, Zenon
<1> HIDE DEF after
<1>16. /\ \A j \in 1 .. n : Reply(j).id \in Id
       /\ \A i, j \in 1 .. n : Reply(i).id = Reply(j).id => i = j
       /\ \A i \in 1 .. w, j \in 1 .. n : Asked(i) # Reply(j).id
  BY <1>0 DEF Apart
<1>17. \A j \in 1 .. (n + w) : j \in 1 .. n \/ (j - n \in 1 .. w /\ n + (j - n) = j)
  BY <1>2
<1>18. Apart'
  <2> DEFINE id(j) == after(j).id
  <2>1. /\ \A j \in 1 .. n : id(j) = Reply(j).id
        /\ \A i \in 1 .. w : id(n + i) = Asked(i)
    <3>1. \A i \in 1 .. w : after(n + i).id = a[i].id
      BY <1>15, Zenon
    <3> QED
      BY <1>8, <1>14, <3>1
  <2> HIDE DEF id
  <2>2. \A j \in 1 .. (n + w) : id(j) \in Id
    BY <1>6, <1>16, <1>17, <2>1
  <2>3. ASSUME NEW i \in 1 .. (n + w), NEW j \in 1 .. (n + w), id(i) = id(j) PROVE i = j
    <3>1. CASE i \in 1 .. n /\ j \in 1 .. n
      BY <1>16, <2>1, <2>3, <3>1
    <3>2. CASE i \in 1 .. n /\ j - n \in 1 .. w /\ n + (j - n) = j
      BY <1>16, <2>1, <2>3, <3>2
    <3>3. CASE i - n \in 1 .. w /\ n + (i - n) = i /\ j \in 1 .. n
      BY <1>16, <2>1, <2>3, <3>3
    <3>4. CASE i - n \in 1 .. w /\ n + (i - n) = i /\ j - n \in 1 .. w /\ n + (j - n) = j
      <4>1. Asked(i - n) = Asked(j - n)
        BY <2>1, <2>3, <3>4
      <4>2. i - n = j - n
        BY <1>8, <3>4, <4>1
      <4> QED
        BY <3>4, <4>2
    <3> QED
      BY <1>17, <3>1, <3>2, <3>3, <3>4
  <2>4. \A i : i \notin 1 .. 0
    OBVIOUS
  <2>5. \A j : Reply(j)'.id = id(j)
    BY <1>r, Zenon DEF id
  <2> QED
    BY <1>12, <2>2, <2>3, <2>4, <2>5, Zenon DEF Apart
<1>19. Done' = Done \o a
  <2>1. Done' = [j \in 1 .. (n + w) |-> [id |-> after(j).id, status |-> e.answer[after(j).id],
                                          written |-> after(j).written]]
    <3>1. Done' = [j \in 1 .. Replies' |-> [id |-> Reply(j)'.id, status |-> ring'.answer[Reply(j)'.id],
                                            written |-> Reply(j)'.written]]
      BY <1>10, Zenon DEF Done, Replies, Reply
    <3> QED
      BY <1>r, <1>10, <1>12, <3>1, Zenon
  <2>2. ASSUME NEW j \in 1 .. n PROVE Done'[j] = Done[j]
    <3>1. Reply(j).id \in Id /\ \A i \in 1 .. w : a[i].id # Reply(j).id
      BY <1>8, <1>16
    <3>2. e.answer[Reply(j).id] = ring.answer[Reply(j).id]
      BY <1>9, <3>1
    <3>3. j \in 1 .. (n + w)
      BY <1>2
    <3> QED
      BY <1>3, <1>14, <2>1, <3>2, <3>3
  <2>3. ASSUME NEW i \in 1 .. w PROVE Done'[n + i] = a[i]
    <3>1. n + i \in 1 .. (n + w)
      BY <1>2
    <3>2. Done'[n + i] = [id |-> after(n + i).id, status |-> e.answer[after(n + i).id],
                          written |-> after(n + i).written]
      BY <2>1, <3>1
    <3>3. after(n + i).id = a[i].id /\ after(n + i).written = a[i].written
      BY <1>15, Zenon
    <3>4. e.answer[a[i].id] = a[i].status
      BY <1>9
    <3>5. a[i] = [id |-> a[i].id, status |-> a[i].status, written |-> a[i].written]
      BY <1>7, <1>8, Zenon
    <3> QED
      BY <3>2, <3>3, <3>4, <3>5, Zenon
  <2>4. Done \o a = [j \in 1 .. (n + w) |-> IF j <= n THEN Done[j] ELSE a[j - n]]
    BY <1>2, <1>3, <1>7
  <2>5. \A j \in 1 .. (n + w) : Done'[j] = IF j <= n THEN Done[j] ELSE a[j - n]
    BY <1>2, <1>17, <2>2, <2>3
  <2>6. Done' = [j \in 1 .. (n + w) |-> Done'[j]]
    BY <2>1
  <2> QED
    BY <2>4, <2>5, <2>6
<1>20. Waiting' = <<>>
  <2>1. Waiting' = [i \in 1 .. Asks' |-> [id |-> Asked(i)', chain |-> ring'.table[Asked(i)']]]
    BY <1>10, Zenon DEF Waiting, Batch, Asks, Asked
  <2> QED
    BY <1>12, <2>1
<1>21. CASE w = 0
  <2>1. batch = <<>> /\ a = <<>>
    BY <1>3, <1>7, <1>21
  <2>2. store' = store
    BY <1>1, <1>3, <1>21, NoRequests
  <2>3. Done \o <<>> = Done
    BY <1>2, <1>3, IsSeq
  <2>4. CompletionSignalled'
    BY <1>1, <1>10, <1>19, <2>1, <2>3, Zenon DEF CompletionSignalled
  <2> QED
    BY <2>4, <1>0, <1>1, <1>10, <1>11, <1>18, <1>19, <1>20, <2>1, <2>2, <2>3 DEF QueueStep, Queue!vars
<1>22. CASE w # 0
  <2>1. Waiting # <<>>
    <3>1. Len(Waiting) = w /\ Len(<<>>) = 0
      BY <1>0, <1>3
    <3> QED
      BY <1>22, <3>1
  <2>2. /\ store' = Queue!After(store, Waiting)[Len(Waiting)]
        /\ Done' = Done \o Queue!Answers(store, Waiting)
    BY <1>0, <1>1, <1>19, SameStores, SameAnswers
  <2>3. Queue!Serve
    BY <1>10, <1>20, <2>1, <2>2 DEF Queue!Serve
  <2>4. CompletionSignalled'
    BY <1>2, <1>10, <1>22 DEF CompletionSignalled
  <2> QED
    BY <1>11, <1>18, <2>3, <2>4 DEF QueueStep, Queue!Next
<1> QED
  BY <1>21, <1>22

\* A chain that is free goes to the slot after those asked, which is free too.
LEMMA SubmitStep ==
  ASSUME Shape, Apart, CompletionSignalled, NEW h \in Id, NEW c \in Chains, Submit(h, c)
  PROVE  Shape' /\ Apart' /\ CompletionSignalled' /\ QueueStep
<1>0. PICK w, n, p : w = Asks /\ n = Replies /\ p = Slot(ring.availIdx)
  BY Zenon
<1>1. /\ dev.ready /\ dev' = dev /\ store' = store /\ seen' = seen /\ draining' = draining
      /\ ring' = [ring EXCEPT !.table[h] = c, !.answer[h] = "none",
                              !.avail[p] = h, !.availIdx = Plus(@, 1)]
      /\ \A i \in DOMAIN Waiting : Waiting[i].id # h
      /\ \A i \in DOMAIN Done : Done[i].id # h
  BY <1>0, Zenon DEF Submit, Free
<1>2. /\ w \in Nat /\ n \in Nat /\ w \in Index /\ n \in Index /\ w < Wrap /\ n < Wrap
      /\ Plus(dev.last, w) = ring.availIdx
      /\ \A x \in Index : Slot(x) \in Id
  BY <1>0, Counts
<1>3. /\ Waiting = [i \in 1 .. w |-> [id |-> Asked(i), chain |-> ring.table[Asked(i)]]]
      /\ Len(Waiting) = w /\ DOMAIN Waiting = 1 .. w /\ Waiting \in Seq({Waiting[i] : i \in 1 .. w})
      /\ Done = [j \in 1 .. n |-> [id |-> Reply(j).id, status |-> ring.answer[Reply(j).id],
                                   written |-> Reply(j).written]]
      /\ DOMAIN Done = 1 .. n
  BY <1>0, <1>1, Forms
<1>4. (\A i \in 1 .. w : Asked(i) # h) /\ (\A j \in 1 .. n : Reply(j).id # h)
  <2>1. (\A i \in 1 .. w : Waiting[i].id = Asked(i)) /\ (\A j \in 1 .. n : Done[j].id = Reply(j).id)
    BY <1>3
  <2> QED
    BY <1>1, <1>3, <2>1, Zenon
<1>5. w + n < Size
  BY <1>0, <1>1, <1>4, Room
<1>6. /\ dev.last \in Index /\ seen \in Index /\ ring.usedIdx \in Index /\ ring.availIdx \in Index
      /\ ring.avail \in [Id -> Id] /\ Ringed(ring) /\ p \in Id
  BY <1>0, <1>2 DEF Shape, Devices, Ringed
<1>7. PICK next, avail, table, answer :
        next = Plus(ring.availIdx, 1) /\ avail = [ring.avail EXCEPT ![p] = h]
        /\ table = [ring.table EXCEPT ![h] = c] /\ answer = [ring.answer EXCEPT ![h] = "none"]
  BY Zenon
<1>8. ring' = [availIdx |-> next, avail |-> avail, usedIdx |-> ring.usedIdx, used |-> ring.used,
               table |-> table, answer |-> answer]
  <2>1. ring' = [ring EXCEPT !.table = table, !.answer = answer, !.avail = avail, !.availIdx = next]
    BY <1>1, <1>7
  <2>2. ring = [availIdx |-> ring.availIdx, avail |-> ring.avail, usedIdx |-> ring.usedIdx, used |-> ring.used,
                table |-> ring.table, answer |-> ring.answer]
    BY <1>6 DEF Ringed
  <2> QED
    BY <2>1, <2>2
<1>9. /\ next \in Index /\ avail \in [Id -> Id] /\ avail[p] = h /\ \A s \in Id : s # p => avail[s] = ring.avail[s]
      /\ table = [k \in Id |-> table[k]] /\ table[h] = c /\ \A k \in Id : k # h => table[k] = ring.table[k]
      /\ answer = [k \in Id |-> answer[k]] /\ answer[h] = "none" /\ \A k \in Id : k # h => answer[k] = ring.answer[k]
  <2>1. ring.table = [k \in Id |-> ring.table[k]] /\ ring.answer = [k \in Id |-> ring.answer[k]]
    BY <1>6 DEF Ringed
  <2>2. 1 \in Index
    BY Sizes DEF Index
  <2>3. next \in Index
    BY <1>6, <1>7, <2>2, SlotType
  <2> QED
    BY <1>6, <1>7, <2>1, <2>3
<1>10. /\ ring'.availIdx = next /\ ring'.avail = avail /\ ring'.usedIdx = ring.usedIdx /\ ring'.used = ring.used
       /\ ring'.table = table /\ ring'.answer = answer
  BY <1>8
<1>11. Shape'
  <2>1. Ringed(ring)'
    BY <1>6, <1>8, <1>9, <1>10, Zenon DEF Ringed
  <2> QED
    BY <1>1, <2>1 DEF Shape
<1>12. Asks' = w + 1 /\ Replies' = n
  <2>1. Asks' = Distance(dev.last, next) /\ Replies' = Replies
    BY <1>1, <1>10, Zenon DEF Asks, Replies
  <2>2. Distance(dev.last, ring.availIdx) = w /\ w + 1 < Wrap /\ 1 \in Index
    BY <1>0, <1>2, <1>5, Sizes DEF Asks, Index
  <2>3. \A k \in Index : Distance(dev.last, ring.availIdx) + k < Wrap
                          => Distance(dev.last, Plus(ring.availIdx, k)) = Distance(dev.last, ring.availIdx) + k
    BY <1>6, Around
  <2>4. Distance(dev.last, next) = w + 1
    BY <1>7, <2>2, <2>3
  <2> QED
    BY <1>0, <2>1, <2>4
<1> DEFINE asked(i) == avail[Slot(Plus(dev.last, i - 1))]
<1>13. \A i : Asked(i)' = asked(i) /\ Reply(i)' = Reply(i)
  BY <1>1, <1>10, Zenon DEF Asked, Reply
<1>14. ASSUME NEW i \in 1 .. w
       PROVE  asked(i) = Asked(i) /\ asked(i) \in Id
  <2>1. i - 1 \in 0 .. (Size - 1) /\ i - 1 \in Index /\ w \in 0 .. (Size - 1) /\ i - 1 # w
    BY <1>2, <1>5, Sizes DEF Index
  <2>2. Slot(Plus(dev.last, i - 1)) # p
    BY <1>0, <1>2, <1>6, <2>1, SlotsApart
  <2>3. Slot(Plus(dev.last, i - 1)) \in Id
    BY <1>6, <2>1, SlotType
  <2> QED
    BY <1>9, <2>2, <2>3, Zenon DEF Asked
<1>15. \A m : m = w + 1 => asked(m) = h
  <2> SUFFICES ASSUME NEW m, m = w + 1 PROVE asked(m) = h
    BY Zenon
  <2>1. m - 1 = w
    BY <1>2
  <2>2. PICK k : k = m - 1
    BY Zenon
  <2>3. Slot(Plus(dev.last, k)) = p
    BY <1>0, <1>2, <2>1, <2>2, Zenon
  <2> QED
    BY <1>9, <2>2, <2>3, Zenon
<1> HIDE DEF asked
<1>16. \A i \in 1 .. (w + 1) : i \in 1 .. w \/ i = w + 1
  BY <1>2
<1>17. /\ \A i \in 1 .. n : Reply(i).id \in Id
       /\ \A i \in 1 .. w : ring.answer[Asked(i)] = "none"
       /\ \A i, j \in 1 .. w : Asked(i) = Asked(j) => i = j
       /\ \A i, j \in 1 .. n : Reply(i).id = Reply(j).id => i = j
       /\ \A i \in 1 .. w, j \in 1 .. n : Asked(i) # Reply(j).id
  BY <1>0, <1>1 DEF Apart
<1>18. Apart'
  <2>1. ASSUME NEW i \in 1 .. (w + 1) PROVE answer[asked(i)] = "none"
    <3>1. CASE i \in 1 .. w
      <4>1. asked(i) = Asked(i) /\ asked(i) \in Id /\ ring.answer[asked(i)] = "none"
        BY <1>14, <1>17, <3>1, Zenon
      <4> QED
        BY <1>4, <1>9, <4>1, Zenon
    <3>2. CASE i = w + 1
      <4>1. asked(i) = h
        BY <1>15, <3>2, Zenon
      <4> QED
        BY <1>4, <1>9, <4>1, Zenon
    <3> QED
      BY <1>16, <3>1, <3>2, Zenon
  <2>2. ASSUME NEW i \in 1 .. (w + 1), NEW j \in 1 .. (w + 1), asked(i) = asked(j) PROVE i = j
    <3>1. CASE i \in 1 .. w /\ j \in 1 .. w
      BY <1>14, <1>17, <2>2, <3>1, Zenon
    <3>2. CASE i \in 1 .. w /\ j = w + 1
      BY <1>4, <1>14, <1>15, <2>2, <3>2, Zenon
    <3>3. CASE i = w + 1 /\ j \in 1 .. w
      BY <1>4, <1>14, <1>15, <2>2, <3>3, Zenon
    <3> QED
      BY <1>16, <3>1, <3>2, <3>3, Zenon
  <2>3. \A i \in 1 .. (w + 1), j \in 1 .. n : asked(i) # Reply(j).id
    BY <1>4, <1>14, <1>15, <1>16, <1>17, Zenon
  <2> QED
    BY <1>10, <1>12, <1>13, <1>17, <2>1, <2>2, <2>3, Zenon DEF Apart
<1>19. Waiting' = Append(Waiting, [id |-> h, chain |-> c])
  <2>1. Waiting' = [i \in 1 .. (w + 1) |-> [id |-> asked(i), chain |-> table[asked(i)]]]
    <3>1. Waiting' = [i \in 1 .. Asks' |-> [id |-> Asked(i)', chain |-> ring'.table[Asked(i)']]]
      BY <1>1, Zenon DEF Waiting, Batch, Asks, Asked
    <3> QED
      BY <1>10, <1>12, <1>13, <3>1, Zenon
  <2>2. ASSUME NEW i \in 1 .. w PROVE Waiting'[i] = Waiting[i]
    <3>1. i \in 1 .. (w + 1) /\ asked(i) = Asked(i) /\ asked(i) # h /\ asked(i) \in Id
      BY <1>2, <1>4, <1>14
    <3>2. table[asked(i)] = ring.table[asked(i)]
      BY <1>9, <3>1
    <3>3. Waiting'[i] = [id |-> asked(i), chain |-> table[asked(i)]]
      BY <2>1, <3>1
    <3>4. Waiting[i] = [id |-> Asked(i), chain |-> ring.table[Asked(i)]]
      BY <1>3
    <3> QED
      BY <3>1, <3>2, <3>3, <3>4, Zenon
  <2>3. Waiting'[w + 1] = [id |-> h, chain |-> c]
    <3>1. w + 1 \in 1 .. (w + 1)
      BY <1>2
    <3>2. Waiting'[w + 1] = [id |-> asked(w + 1), chain |-> table[asked(w + 1)]]
      BY <2>1, <3>1
    <3> QED
      BY <1>9, <1>15, <3>2, Zenon
  <2>4. PICK x : x = [id |-> h, chain |-> c]
    BY Zenon
  <2>5. Append(Waiting, x) = [i \in 1 .. (w + 1) |-> IF i <= w THEN Waiting[i] ELSE x]
    BY <1>2, <1>3
  <2>6. \A i \in 1 .. (w + 1) : Waiting'[i] = IF i <= w THEN Waiting[i] ELSE x
    BY <1>2, <1>16, <2>2, <2>3, <2>4
  <2>7. Waiting' = [i \in 1 .. (w + 1) |-> Waiting'[i]]
    BY <2>1
  <2> QED
    BY <2>4, <2>5, <2>6, <2>7
<1>20. Done' = Done
  <2>1. Done' = [j \in 1 .. n |-> [id |-> Reply(j).id, status |-> answer[Reply(j).id],
                                   written |-> Reply(j).written]]
    <3>1. Done' = [j \in 1 .. Replies' |-> [id |-> Reply(j)'.id, status |-> ring'.answer[Reply(j)'.id],
                                            written |-> Reply(j)'.written]]
      BY <1>1, Zenon DEF Done, Replies, Reply
    <3> QED
      BY <1>10, <1>12, <1>13, <3>1, Zenon
  <2>2. \A j \in 1 .. n : answer[Reply(j).id] = ring.answer[Reply(j).id]
    BY <1>4, <1>9, <1>17, Zenon
  <2> QED
    BY <1>3, <2>1, <2>2
<1>21. Queue!Submit(h, c)
  BY <1>1, <1>19, <1>20, Zenon DEF Queue!Submit
<1>22. CompletionSignalled'
  BY <1>1, <1>20, Zenon DEF CompletionSignalled
<1> QED
  BY <1>11, <1>18, <1>21, <1>22, Zenon DEF QueueStep, Queue!Next

\* The driver takes the answer that is next.
LEMMA TakeStep ==
  ASSUME Shape, Apart, CompletionSignalled, Take
  PROVE  Shape' /\ Apart' /\ CompletionSignalled' /\ QueueStep
<1>0. PICK n : n = Replies
  BY Zenon
<1>1. /\ dev.ready /\ Done # <<>> /\ seen' = Plus(seen, 1)
      /\ dev' = dev /\ ring' = ring /\ store' = store /\ draining' = draining
  BY Zenon DEF Take, Done
<1>2. /\ n \in Nat /\ n \in Index /\ n < Wrap
      /\ Done = [j \in 1 .. n |-> [id |-> Reply(j).id, status |-> ring.answer[Reply(j).id],
                                   written |-> Reply(j).written]]
      /\ Len(Done) = n /\ DOMAIN Done = 1 .. n /\ Done \in Seq({Done[i] : i \in 1 .. n})
  BY <1>0, <1>1, Counts, Forms
<1>3. n > 0
  <2>1. CASE n = 0
    <3>1. Done = <<>>
      BY <1>2, <2>1
    <3> QED
      BY <1>1, <3>1
  <2> QED
    BY <1>2, <2>1
<1>4. seen \in Index /\ ring.usedIdx \in Index /\ 1 \in Index /\ seen' \in Index
  <2>1. seen \in Index /\ ring.usedIdx \in Index /\ 1 \in Index
    BY Sizes DEF Shape, Ringed, Index
  <2> QED
    BY <1>1, <2>1, SlotType
<1>5. Shape'
  BY <1>1, <1>4 DEF Shape
<1>6. Asks' = Asks /\ Replies' = n - 1
  <2>1. Asks' = Asks /\ Replies' = Distance(Plus(seen, 1), ring.usedIdx)
    BY <1>1, Zenon DEF Asks, Replies
  <2>2. \A k \in Index : k <= Distance(seen, ring.usedIdx)
                          => Distance(Plus(seen, k), ring.usedIdx) = Distance(seen, ring.usedIdx) - k
    BY <1>4, Around
  <2>3. 1 <= Distance(seen, ring.usedIdx) /\ Distance(seen, ring.usedIdx) = n
    BY <1>0, <1>2, <1>3 DEF Replies
  <2>4. Distance(Plus(seen, 1), ring.usedIdx) = n - 1
    BY <1>4, <2>2, <2>3
  <2> QED
    BY <2>1, <2>4
<1> DEFINE after(j) == ring.used[Slot(Plus(Plus(seen, 1), j - 1))]
<1>7. \A i : Asked(i)' = Asked(i) /\ Reply(i)' = after(i)
  BY <1>1, Zenon DEF Asked, Reply
<1>8. ASSUME NEW j \in 1 .. (n - 1)
      PROVE  after(j) = Reply(j + 1) /\ j \in 1 .. n /\ j + 1 \in 1 .. n
  <2>1. j - 1 \in Index /\ 1 + (j - 1) < Wrap /\ 1 + (j - 1) = (j + 1) - 1
    BY <1>2, Sizes DEF Index
  <2>2. \A k, i \in Index : k + i < Wrap => Plus(Plus(seen, k), i) = Plus(seen, k + i)
    BY <1>4, Around
  <2>3. Plus(Plus(seen, 1), j - 1) = Plus(seen, (j + 1) - 1)
    BY <1>4, <2>1, <2>2
  <2>4. j \in 1 .. n /\ j + 1 \in 1 .. n
    BY <1>2
  <2> QED
    BY <2>3, <2>4, Zenon DEF Reply
<1> HIDE DEF after
<1>9. /\ \A i \in 1 .. n : Reply(i).id \in Id
      /\ \A i \in 1 .. Asks : ring.answer[Asked(i)] = "none"
      /\ \A i, j \in 1 .. Asks : Asked(i) = Asked(j) => i = j
      /\ \A i, j \in 1 .. n : Reply(i).id = Reply(j).id => i = j
      /\ \A i \in 1 .. Asks, j \in 1 .. n : Asked(i) # Reply(j).id
  BY <1>0, <1>1 DEF Apart
<1>10. Apart'
  <2>1. \A i \in 1 .. (n - 1) : after(i).id \in Id
    BY <1>8, <1>9, Zenon
  <2>2. ASSUME NEW i \in 1 .. (n - 1), NEW j \in 1 .. (n - 1), after(i).id = after(j).id PROVE i = j
    <3>1. i + 1 = j + 1
      BY <1>8, <1>9, <2>2, Zenon
    <3> QED
      BY <1>2, <3>1
  <2>3. \A i \in 1 .. Asks, j \in 1 .. (n - 1) : Asked(i) # after(j).id
    BY <1>8, <1>9, Zenon
  <2> QED
    BY <1>1, <1>6, <1>7, <1>9, <2>1, <2>2, <2>3, Zenon DEF Apart
<1>11. Waiting' = Waiting
  BY <1>1, Zenon DEF Waiting, Batch
<1>12. Done' = Tail(Done)
  <2>1. Done' = [j \in 1 .. (n - 1) |-> [id |-> after(j).id, status |-> ring.answer[after(j).id],
                                         written |-> after(j).written]]
    <3>1. Done' = [j \in 1 .. Replies' |-> [id |-> Reply(j)'.id, status |-> ring'.answer[Reply(j)'.id],
                                            written |-> Reply(j)'.written]]
      BY <1>1, Zenon DEF Done, Replies, Reply
    <3> QED
      BY <1>1, <1>6, <1>7, <3>1, Zenon
  <2>2. ASSUME NEW j \in 1 .. (n - 1) PROVE Done'[j] = Done[j + 1]
    <3>1. Done'[j] = [id |-> after(j).id, status |-> ring.answer[after(j).id], written |-> after(j).written]
      BY <2>1
    <3>2. j + 1 \in 1 .. n /\ after(j) = Reply(j + 1)
      BY <1>8
    <3>3. PICK m : m = j + 1
      BY Zenon
    <3>4. Done[m] = [id |-> Reply(m).id, status |-> ring.answer[Reply(m).id], written |-> Reply(m).written]
      BY <1>2, <3>2, <3>3, Zenon
    <3> QED
      BY <3>1, <3>2, <3>3, <3>4, Zenon
  <2>3. Tail(Done) = [j \in 1 .. (n - 1) |-> Done[j + 1]]
    BY <1>2, <1>3
  <2> QED
    BY <2>1, <2>2, <2>3
<1>13. Queue!Take
  BY <1>1, <1>11, <1>12, Zenon DEF Queue!Take
<1>14. CompletionSignalled'
  BY <1>1, Zenon DEF CompletionSignalled
<1> QED
  BY <1>5, <1>10, <1>13, <1>14, Zenon DEF QueueStep, Queue!Next

\* Rings given up and rings begun: nothing is asked and nothing answered.
LEMMA EmptyStep ==
  ASSUME Shape, dev'.ready = FALSE, store' = store
  PROVE  Apart' /\ CompletionSignalled' /\ QueueStep
<1>1. Waiting' = <<>> /\ Done' = <<>>
  BY Zenon DEF Waiting, Done
<1>2. Apart' /\ CompletionSignalled'
  BY <1>1, Zenon DEF Apart, CompletionSignalled
<1>3. dev \in Devices /\ dev.ready \in BOOLEAN
  BY DEF Shape, Devices
<1>4. CASE dev.ready
  <2>1. Queue!Abandon
    BY <1>1, <1>4, Zenon DEF Queue!Abandon
  <2> QED
    BY <1>2, <2>1, Zenon DEF QueueStep, Queue!Next
<1>5. CASE ~dev.ready
  <2>1. Waiting = <<>> /\ Done = <<>>
    BY <1>5, Zenon DEF Waiting, Done
  <2>2. dev'.ready = dev.ready
    BY <1>3, <1>5
  <2> QED
    BY <1>1, <1>2, <2>1, <2>2, Zenon DEF QueueStep, Queue!vars
<1> QED
  BY <1>4, <1>5

LEMMA RegisterSteps ==
  ASSUME Shape, Apart, CompletionSignalled,
         \/ Notify /\ ~dev.ready
         \/ ReadIsr
         \/ \E ready \in BOOLEAN : WriteQueue(ready)
         \/ Reset
         \/ Drained
         \/ \E a \in Address, v \in Value : Change(a, v)
  PROVE  Shape' /\ Apart' /\ CompletionSignalled' /\ QueueStep
<1>0. /\ dev \in Devices /\ (dev.irq <=> dev.isr) /\ seen \in Index /\ draining \in BOOLEAN
      /\ Ringed(ring) /\ 0 \in Index /\ 0 \in Id
  BY Sizes DEF Shape, Index, Id
<1>1. CASE Notify /\ ~dev.ready
  <2>1. dev' = dev /\ ring' = ring /\ store' = store /\ seen' = seen /\ draining' = draining
    BY <1>1, Zenon DEF Notify
  <2>2. Shape'
    BY <2>1, Zenon DEF Shape
  <2>3. Apart' /\ Waiting' = Waiting /\ Done' = Done
    BY <2>1, Still
  <2> QED
    BY <2>1, <2>2, <2>3, Zenon DEF CompletionSignalled, QueueStep, Queue!vars
<1>2. CASE ReadIsr
  <2>1. /\ dev' = [dev EXCEPT !.isr = FALSE, !.irq = FALSE] /\ (draining' <=> (draining \/ dev.isr))
        /\ draining' \in BOOLEAN /\ ring' = ring /\ store' = store /\ seen' = seen
    <3>1. \A b, c \in BOOLEAN : (b \/ c) \in BOOLEAN
      OBVIOUS
    <3>2. dev.isr \in BOOLEAN
      BY <1>0 DEF Devices
    <3>3. draining' = (draining \/ dev.isr)
      BY <1>2, Zenon DEF ReadIsr
    <3> QED
      BY <1>0, <1>2, <3>1, <3>2, <3>3, Zenon DEF ReadIsr
  <2>2. dev' = [ready |-> dev.ready, isr |-> FALSE, irq |-> FALSE, last |-> dev.last]
    BY <1>0, <2>1 DEF Devices
  <2>3. dev' \in Devices /\ (dev'.irq <=> dev'.isr) /\ dev'.ready = dev.ready /\ dev'.last = dev.last
    BY <1>0, <2>2 DEF Devices
  <2>4. Shape'
    BY <1>0, <2>1, <2>3, Zenon DEF Shape
  <2>5. Apart' /\ Waiting' = Waiting /\ Done' = Done
    BY <2>1, <2>3, Still
  <2>6. CompletionSignalled'
    BY <1>0, <2>1, <2>5, Zenon DEF CompletionSignalled
  <2> QED
    BY <2>1, <2>3, <2>4, <2>5, <2>6, Zenon DEF QueueStep, Queue!vars
<1>3. CASE WriteQueue(FALSE)
  <2>1. /\ dev' = [dev EXCEPT !.ready = FALSE, !.last = 0] /\ ring' = ring /\ seen' = 0
        /\ draining' = FALSE /\ store' = store
    BY <1>3, Zenon DEF WriteQueue
  <2>2. dev' = [ready |-> FALSE, isr |-> dev.isr, irq |-> dev.irq, last |-> 0]
    BY <1>0, <2>1 DEF Devices
  <2>3. dev' \in Devices /\ (dev'.irq <=> dev'.isr) /\ dev'.ready = FALSE
    BY <1>0, <2>2 DEF Devices
  <2>4. Shape'
    BY <1>0, <2>1, <2>3, Zenon DEF Shape
  <2> QED
    BY <2>1, <2>3, <2>4, EmptyStep
<1>4. CASE WriteQueue(TRUE)
  <2>1. /\ dev' = [dev EXCEPT !.ready = TRUE, !.last = 0] /\ ring' = NoRings /\ seen' = 0
        /\ draining' = FALSE /\ store' = store /\ ~dev.ready
    BY <1>4, Zenon DEF WriteQueue
  <2>2. dev' = [ready |-> TRUE, isr |-> dev.isr, irq |-> dev.irq, last |-> 0]
    BY <1>0, <2>1 DEF Devices
  <2>3. dev' \in Devices /\ (dev'.irq <=> dev'.isr) /\ dev'.ready = TRUE /\ dev'.last = 0
    BY <1>0, <2>2 DEF Devices
  <2>4. Ringed(ring)'
    <3>1. Ringed(NoRings)
      BY <1>0 DEF NoRings, Ringed
    <3> QED
      BY <2>1, <3>1, Zenon DEF Ringed
  <2>5. Shape'
    BY <1>0, <2>1, <2>3, <2>4, Zenon DEF Shape
  <2>6. Asks' = 0 /\ Replies' = 0
    <3>1. Distance(0, 0) = 0
      BY <1>0, Around
    <3>2. ring'.availIdx = 0 /\ ring'.usedIdx = 0
      BY <2>1 DEF NoRings
    <3> QED
      BY <2>1, <2>3, <3>1, <3>2, Zenon DEF Asks, Replies
  <2>7. Waiting' = <<>> /\ Done' = <<>>
    <3>1. /\ Waiting' = [i \in 1 .. Asks' |-> [id |-> Asked(i)', chain |-> ring'.table[Asked(i)']]]
          /\ Done' = [j \in 1 .. Replies' |-> [id |-> Reply(j)'.id, status |-> ring'.answer[Reply(j)'.id],
                                              written |-> Reply(j)'.written]]
      BY <2>3, Zenon DEF Waiting, Batch, Done, Asks, Asked, Replies, Reply
    <3> QED
      BY <2>6, <3>1
  <2>8. Apart'
    <3>1. \A i : i \notin 1 .. 0
      OBVIOUS
    <3> QED
      BY <2>6, <3>1, Zenon DEF Apart
  <2>9. Waiting = <<>> /\ Done = <<>>
    BY <2>1, Zenon DEF Waiting, Done
  <2>10. Queue!Open
    BY <2>1, <2>3, <2>7, <2>9, Zenon DEF Queue!Open
  <2>11. CompletionSignalled'
    BY <2>7, Zenon DEF CompletionSignalled
  <2> QED
    BY <2>5, <2>8, <2>10, <2>11, Zenon DEF QueueStep, Queue!Next
<1>5. CASE Reset
  <2>1. dev' = NoDevice /\ ring' = ring /\ seen' = 0 /\ draining' = FALSE /\ store' = store
    BY <1>5, Zenon DEF Reset
  <2>2. dev' \in Devices /\ (dev'.irq <=> dev'.isr) /\ dev'.ready = FALSE
    BY <1>0, <2>1 DEF NoDevice, Devices
  <2>3. Shape'
    BY <1>0, <2>1, <2>2, Zenon DEF Shape
  <2> QED
    BY <2>1, <2>2, <2>3, EmptyStep
<1>6. CASE Drained
  <2>1. /\ dev' = dev /\ ring' = ring /\ store' = store /\ seen' = seen /\ draining' = FALSE
        /\ Done = <<>>
    BY <1>6, Zenon DEF Drained
  <2>2. Shape'
    BY <1>0, <2>1, Zenon DEF Shape
  <2>3. Apart' /\ Waiting' = Waiting /\ Done' = Done
    BY <2>1, Still
  <2> QED
    BY <2>1, <2>2, <2>3, Zenon DEF CompletionSignalled, QueueStep, Queue!vars
<1>7. CASE \E a \in Address, v \in Value : Change(a, v)
  <2>1. PICK a \in Address, v \in Value : Change(a, v)
    BY <1>7, Zenon
  <2>2. /\ dev' = dev /\ ring' = ring /\ seen' = seen /\ draining' = draining
        /\ store' = [store EXCEPT !.mem[a] = v]
    BY <2>1, Zenon DEF Change
  <2>3. Shape'
    BY <2>2, Zenon DEF Shape
  <2>4. Apart' /\ Waiting' = Waiting /\ Done' = Done
    BY <2>2, Still
  <2>5. Queue!Change(a, v)
    BY <2>2, <2>4, Zenon DEF Queue!Change
  <2>6. Queue!Next
    BY <2>5, Zenon DEF Queue!Next
  <2> QED
    BY <2>2, <2>3, <2>4, <2>6, Zenon DEF CompletionSignalled, QueueStep
<1> QED
  BY <1>1, <1>2, <1>3, <1>4, <1>5, <1>6, <1>7

LEMMA QueueNext ==
  ASSUME Shape, Apart, CompletionSignalled, [Next]_vars
  PROVE  Shape' /\ Apart' /\ CompletionSignalled' /\ QueueStep
<1>1. CASE UNCHANGED vars
  <2>1. dev' = dev /\ ring' = ring /\ store' = store /\ seen' = seen /\ draining' = draining
    BY <1>1, Zenon DEF vars
  <2>2. Shape'
    BY <2>1, Zenon DEF Shape
  <2>3. Apart' /\ Waiting' = Waiting /\ Done' = Done
    BY <2>1, Still
  <2> QED
    BY <2>1, <2>2, <2>3, Zenon DEF CompletionSignalled, QueueStep, Queue!vars
<1>2. CASE Next
  <2>1. CASE Notify /\ dev.ready
    BY <2>1, NotifyStep
  <2>2. CASE \E h \in Id, c \in Chains : Submit(h, c)
    <3>1. PICK h \in Id, c \in Chains : Submit(h, c)
      BY <2>2, Zenon
    <3> QED
      BY <3>1, SubmitStep
  <2>3. CASE Take
    BY <2>3, TakeStep
  <2>4. CASE \/ Notify /\ ~dev.ready
             \/ ReadIsr
             \/ \E ready \in BOOLEAN : WriteQueue(ready)
             \/ Reset
             \/ Drained
             \/ \E a \in Address, v \in Value : Change(a, v)
    BY <2>4, RegisterSteps
  <2> QED
    BY <1>2, <2>1, <2>2, <2>3, <2>4, Zenon DEF Next
<1> QED
  BY <1>1, <1>2, Zenon

\* Registers and rings keep their shape; a chain is free, asked or answered, and
\* never two of them: what notify may rely on (virtio.rs, notify and request).
THEOREM RingsHold == Spec => [](Shape /\ Apart /\ CompletionSignalled)
<1>1. Init => Shape /\ Apart /\ CompletionSignalled
  <2> SUFFICES ASSUME Init PROVE Shape /\ Apart /\ CompletionSignalled
    OBVIOUS
  <2>1. Done = <<>>
    BY QueueInit, Zenon DEF Queue!Init
  <2> QED
    BY <2>1, QueueInit, Zenon DEF CompletionSignalled
<1>2. Shape /\ Apart /\ CompletionSignalled /\ [Next]_vars => Shape' /\ Apart' /\ CompletionSignalled'
  BY QueueNext, Zenon
<1> QED
  BY <1>1, <1>2, PTL DEF Spec

\* An answer the driver has not taken is always announced, whatever the size of the
\* rings: by the line, or by the interrupt status the driver has read and is acting on.
THEOREM AnswersAreSignalled == Spec => []CompletionSignalled
  BY RingsHold, PTL

\* The split ring, whose indices wrap, is the queue it stands for: every notification
\* serves all requests made available, in order, and its answers are taken in order.
THEOREM RingIsQueue == Spec => ImplementsQueue
<1>1. Init => Queue!Init
  BY QueueInit
<1>2. Shape /\ Apart /\ CompletionSignalled /\ [Next]_vars => [Queue!Next]_(Queue!vars)
  BY QueueNext, Zenon DEF QueueStep
<1> QED
  BY <1>1, <1>2, RingsHold, PTL DEF Spec, ImplementsQueue, Queue!Spec
=============================================================================
