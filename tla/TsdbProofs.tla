----------------------------- MODULE TsdbProofs -----------------------------
(***************************************************************************)
(* The invariants of the time-series database, for every number of         *)
(* sectors, every size of a sector and of the blobs and any number of logs *)
(* and power failures.                                                     *)
(***************************************************************************)
EXTENDS Tsdb, SequenceTheorems, WellFoundedInduction, TLAPS

(* A set of natural numbers has a least element: what the inductions below *)
(* rest on.                                                                *)
LEMMA LeastNat ==
    ASSUME NEW T, T \subseteq Nat, T # {}
    PROVE  \E x \in T : \A y \in T : x <= y
<1> DEFINE R == OpToRel(<, Nat)
<1>1. IsWellFoundedOn(R, Nat)
  BY NatLessThanWellFounded DEF OpToRel
<1>2. \A x, y \in Nat : <<x, y>> \in R <=> x < y
  BY DEF OpToRel
<1>3. \E x \in T : \A y \in T : ~(<<y, x>> \in R)
  <2> HIDE DEF R
  <2> QED
    BY <1>1, WFMin
<1>4. PICK x \in T : \A y \in T : ~(<<y, x>> \in R)
  BY <1>3
<1>5. \A y \in T : ~(y < x)
  <2> HIDE DEF R
  <2> QED
    BY <1>2, <1>4
<1> QED
  BY <1>5

LEMMA Induction ==
    ASSUME NEW S, 0 \in S, \A n \in Nat : n \in S => n + 1 \in S
    PROVE  Nat \subseteq S
<1> DEFINE T == Nat \ S
<1> SUFFICES ASSUME T # {} PROVE FALSE
  OBVIOUS
<1>1. PICK x \in T : \A y \in T : x <= y
  BY LeastNat
<1>2. x # 0 /\ x - 1 \in Nat /\ x - 1 \notin T
  BY <1>1
<1> QED
  BY <1>1, <1>2

(* Lowest and Highest choose what their names say.                         *)
LEMMA LowestIn ==
    ASSUME NEW S, S \subseteq Nat, S # {}
    PROVE  Lowest(S) \in S /\ \A t \in S : Lowest(S) <= t
BY LeastNat DEF Lowest

LEMMA HighestIn ==
    ASSUME NEW n \in Nat, NEW S, S \subseteq 0..n, S # {}
    PROVE  Highest(S) \in S /\ \A t \in S : Highest(S) >= t
<1> DEFINE T == {m \in Nat : \E s \in S : m = n - s}
<1>1. T # {} /\ T \subseteq Nat
  <2>1. PICK s \in S : TRUE
    OBVIOUS
  <2>2. n - s \in T
    BY <2>1
  <2> QED
    BY <2>2
<1>2. PICK x \in T : \A y \in T : x <= y
  <2> HIDE DEF T
  <2> QED
    BY <1>1, LeastNat
<1>3. PICK s \in S : x = n - s
  BY <1>2
<1>4. ASSUME NEW t \in S PROVE s >= t
  <2>1. n - t \in T
    OBVIOUS
  <2>2. x <= n - t
    <3> HIDE DEF T
    <3> QED
      BY <1>2, <2>1
  <2> QED
    BY <1>3, <2>2
<1> QED
  BY <1>4 DEF Highest

LEMMA MaxLenIn ==
    MaxLen \in Sizes /\ MaxLen \in 1..(Room - 1) /\ \A n \in Sizes : n \in Nat \ {0} /\ n <= MaxLen
<1>1. Sizes \subseteq 0..Room /\ Room \in Nat /\ Sizes # {}
  BY TsdbAssumption
<1>2. Highest(Sizes) \in Sizes /\ \A t \in Sizes : Highest(Sizes) >= t
  BY <1>1, HighestIn
<1>3. \E n \in Sizes : \A m \in Sizes : m <= n
  BY <1>1, <1>2
<1>4. MaxLen \in Sizes /\ \A m \in Sizes : m <= MaxLen
  BY <1>3 DEF MaxLen
<1> QED
  BY <1>4, TsdbAssumption

-----------------------------------------------------------------------------
(* What the traversal of a sector finds.  The blobs of a log are placed    *)
(* one below the other, and a torn one is taken for the longest: DataBelow *)
(* is where the room below the first i blobs ends.                         *)
DataBelow(log, i) == IF i = 0 THEN Room ELSE log[i].addr + log[i].size - LenOf(log[i])

Placed(log) ==
    \A i \in DOMAIN log :
        /\ log[i].addr = DataBelow(log, i - 1) - log[i].size
        /\ log[i].addr >= Len(log) /\ log[i].addr < Room
        /\ \A j \in DOMAIN log : i < j => log[j].addr < log[i].addr

LEMMA LenOfNode ==
    ASSUME NEW node \in Node
    PROVE  LenOf(node) \in Nat /\ node.size <= LenOf(node) /\ LenOf(node) <= MaxLen
           /\ node.size \in Nat \ {0} /\ node.size <= MaxLen /\ MaxLen \in Nat /\ node.addr \in Int
<1>1. node.size \in Sizes /\ node.addr \in Int
  BY DEF Node
<1>2. LenOf(node) = MaxLen \/ LenOf(node) = node.size
  BY DEF LenOf
<1>3. node.size \in Nat \ {0} /\ node.size <= MaxLen /\ MaxLen \in Nat
  <2> HIDE DEF Node
  <2> QED
    BY <1>1, MaxLenIn, TsdbAssumption
<1> QED
  BY <1>1, <1>2, <1>3

LEMMA DataBelowInt ==
    ASSUME NEW log \in Seq(Node), NEW i \in 0..Len(log)
    PROVE  DataBelow(log, i) \in Int /\ Room \in Nat
<1>1. i # 0 => log[i] \in Node
  BY ElementOfSeq
<1> QED
  BY <1>1, LenOfNode, TsdbAssumption DEF DataBelow

LEMMA PlacedBelow ==
    ASSUME NEW log \in Seq(Node), Placed(log), NEW i \in 1..Len(log)
    PROVE  DataBelow(log, i) = DataBelow(log, i - 1) - LenOf(log[i])
<1>1. log[i] \in Node /\ i \in DOMAIN log
  BY ElementOfSeq, LenProperties
<1>2. DataBelow(log, i - 1) \in Int
  BY DataBelowInt
<1>3. log[i].addr = DataBelow(log, i - 1) - log[i].size
  BY <1>1 DEF Placed
<1>4. DataBelow(log, i) = log[i].addr + log[i].size - LenOf(log[i])
  BY DEF DataBelow
<1>5. log[i].size \in Nat /\ LenOf(log[i]) \in Nat
  BY <1>1, LenOfNode
<1> QED
  BY <1>2, <1>3, <1>4, <1>5

(* DataAfter subtracts the blobs one by one.                               *)
LEMMA DataAfterPlaced ==
    ASSUME NEW log \in Seq(Node), Placed(log)
    PROVE  DataAfter(log) = DataBelow(log, Len(log))
<1> DEFINE f == [i \in 0..Len(log) |-> DataBelow(log, i)]
           g == CHOOSE d : d = [i \in 0..Len(log) |-> IF i = 0 THEN Room ELSE d[i - 1] - LenOf(log[i])]
<1>0. Len(log) \in Nat
  BY LenProperties
<1>1. f = [i \in 0..Len(log) |-> IF i = 0 THEN Room ELSE f[i - 1] - LenOf(log[i])]
  <2> SUFFICES ASSUME NEW i \in 0..Len(log)
               PROVE  DataBelow(log, i) = IF i = 0 THEN Room ELSE f[i - 1] - LenOf(log[i])
    OBVIOUS
  <2>1. CASE i = 0
    BY <2>1 DEF DataBelow
  <2>2. CASE i # 0
    <3>1. i \in 1..Len(log) /\ i - 1 \in 0..Len(log)
      BY <1>0, <2>2
    <3>2. f[i - 1] = DataBelow(log, i - 1)
      BY <3>1
    <3> QED
      BY <2>2, <3>1, <3>2, PlacedBelow
  <2> QED
    BY <2>1, <2>2
<1>2. g = [i \in 0..Len(log) |-> IF i = 0 THEN Room ELSE g[i - 1] - LenOf(log[i])]
  <2> HIDE DEF f
  <2> QED
    BY <1>1
<1>3. \A i \in 0..Len(log) : g[i] = DataBelow(log, i)
  <2> DEFINE S == {n \in Nat : n <= Len(log) => g[n] = DataBelow(log, n)}
  <2> HIDE DEF g, f
  <2>1. 0 \in S
    BY <1>0, <1>2 DEF DataBelow
  <2>2. ASSUME NEW n \in Nat, n \in S PROVE n + 1 \in S
    <3> SUFFICES ASSUME n + 1 <= Len(log) PROVE g[n + 1] = DataBelow(log, n + 1)
      BY <2>2
    <3>1. n + 1 \in 0..Len(log) /\ n + 1 \in 1..Len(log) /\ n + 1 # 0 /\ n + 1 - 1 = n
      BY <1>0
    <3>2. g[n + 1] = g[n] - LenOf(log[n + 1])
      BY <1>2, <3>1
    <3>3. g[n] = DataBelow(log, n)
      BY <1>0, <2>2
    <3> QED
      BY <3>1, <3>2, <3>3, PlacedBelow
  <2>3. Nat \subseteq S
    <3> HIDE DEF S
    <3> QED
      BY <2>1, <2>2, Induction
  <2> QED
    BY <1>0, <2>3
<1>4. DataAfter(log) = g[Len(log)]
  BY DEF DataAfter
<1> QED
  BY <1>0, <1>3, <1>4

(* RemainAfter leaves what lies between the nodes and the blobs, or        *)
(* nothing when they meet.                                                 *)
RoomBelow(log, i) == IF DataBelow(log, i) > i THEN DataBelow(log, i) - i ELSE 0

LEMMA RemainAfterPlaced ==
    ASSUME NEW log \in Seq(Node), Placed(log)
    PROVE  RemainAfter(log) = RoomBelow(log, Len(log))
<1> DEFINE Less(r, i) == IF r > 1 + LenOf(log[i]) THEN r - 1 - LenOf(log[i]) ELSE 0
           f == [i \in 0..Len(log) |-> RoomBelow(log, i)]
           g == CHOOSE d : d = [i \in 0..Len(log) |-> IF i = 0 THEN Room ELSE Less(d[i - 1], i)]
<1>0. Len(log) \in Nat /\ Room \in Nat
  BY LenProperties, TsdbAssumption
<1>1. RoomBelow(log, 0) = Room
  BY <1>0 DEF RoomBelow, DataBelow
<1>2. ASSUME NEW i \in 1..Len(log)
      PROVE  RoomBelow(log, i) = Less(RoomBelow(log, i - 1), i)
  <2>1. DataBelow(log, i) = DataBelow(log, i - 1) - LenOf(log[i]) /\ i - 1 \in 0..Len(log)
    BY <1>0, PlacedBelow
  <2>2. DataBelow(log, i - 1) \in Int
    BY <2>1, DataBelowInt
  <2>3. LenOf(log[i]) \in Nat
    BY ElementOfSeq, LenOfNode
  <2> QED
    BY <2>1, <2>2, <2>3 DEF RoomBelow
<1> HIDE DEF Less
<1>3. f = [i \in 0..Len(log) |-> IF i = 0 THEN Room ELSE Less(f[i - 1], i)]
  <2> SUFFICES ASSUME NEW i \in 0..Len(log), i # 0
               PROVE  RoomBelow(log, i) = Less(f[i - 1], i)
    BY <1>1
  <2>1. i \in 1..Len(log) /\ i - 1 \in 0..Len(log)
    BY <1>0
  <2>2. f[i - 1] = RoomBelow(log, i - 1)
    BY <2>1
  <2> QED
    BY <1>2, <2>1, <2>2
<1>4. g = [i \in 0..Len(log) |-> IF i = 0 THEN Room ELSE Less(g[i - 1], i)]
  <2> HIDE DEF f
  <2> QED
    BY <1>3
<1>5. \A i \in 0..Len(log) : g[i] = RoomBelow(log, i)
  <2> DEFINE S == {n \in Nat : n <= Len(log) => g[n] = RoomBelow(log, n)}
  <2> HIDE DEF g, f
  <2>1. 0 \in S
    BY <1>0, <1>1, <1>4
  <2>2. ASSUME NEW n \in Nat, n \in S PROVE n + 1 \in S
    <3> SUFFICES ASSUME n + 1 <= Len(log) PROVE g[n + 1] = RoomBelow(log, n + 1)
      BY <2>2
    <3>1. n + 1 \in 0..Len(log) /\ n + 1 \in 1..Len(log) /\ n + 1 # 0 /\ n + 1 - 1 = n
      BY <1>0
    <3>2. g[n + 1] = Less(g[n], n + 1)
      BY <1>4, <3>1
    <3>3. g[n] = RoomBelow(log, n)
      BY <1>0, <2>2
    <3> QED
      BY <1>2, <3>1, <3>2, <3>3
  <2>3. Nat \subseteq S
    <3> HIDE DEF S
    <3> QED
      BY <2>1, <2>2, Induction
  <2> QED
    BY <1>0, <2>3
<1>6. RemainAfter(log) = g[Len(log)]
  BY DEF RemainAfter, Less
<1> QED
  BY <1>0, <1>5, <1>6

LEMMA PlacedRoom ==
    ASSUME NEW log \in Seq(Node), Placed(log)
    PROVE  /\ DataBelow(log, Len(log)) \in Int /\ DataBelow(log, Len(log)) <= Room
           /\ RoomBelow(log, Len(log)) \in 0..Room
           /\ Len(log) \in 0..Room
<1>0. Len(log) \in Nat /\ Room \in Nat /\ DOMAIN log = 1..Len(log)
  BY LenProperties, TsdbAssumption
<1>1. CASE Len(log) = 0
  BY <1>0, <1>1 DEF DataBelow, RoomBelow
<1>2. CASE Len(log) # 0
  <2>1. Len(log) \in 1..Len(log) /\ Len(log) \in 0..Len(log)
    BY <1>0, <1>2
  <2>2. log[Len(log)].addr >= Len(log) /\ log[Len(log)].addr < Room
    BY <1>0, <2>1 DEF Placed
  <2>3. log[Len(log)] \in Node
    BY <2>1, ElementOfSeq
  <2>4. DataBelow(log, Len(log)) \in Int
    BY <2>1, DataBelowInt
  <2>5. DataBelow(log, Len(log)) <= log[Len(log)].addr
    BY <1>2, <2>3, LenOfNode DEF DataBelow
  <2>6. log[Len(log)].addr \in Int
    BY <2>3, LenOfNode
  <2> QED
    BY <1>0, <2>2, <2>4, <2>5, <2>6 DEF RoomBelow
<1> QED
  BY <1>1, <1>2

(* A log that fits is placed between the nodes and the blobs.              *)
LEMMA PlacedAppend ==
    ASSUME NEW log \in Seq(Node), Placed(log), NEW node \in Node,
           RoomBelow(log, Len(log)) >= 1 + node.size,
           node.addr = DataBelow(log, Len(log)) - node.size
    PROVE  /\ Placed(Append(log, node))
           /\ RoomBelow(log, Len(log)) = DataBelow(log, Len(log)) - Len(log)
<1> DEFINE n == Len(log)
           new == Append(log, node)
<1>0. n \in Nat /\ DOMAIN log = 1..n /\ new \in Seq(Node) /\ Len(new) = n + 1 /\ DOMAIN new = 1..(n + 1)
      /\ new[n + 1] = node /\ \A i \in 1..n : new[i] = log[i]
  BY LenProperties, AppendProperties
<1>1. DataBelow(log, n) \in Int /\ DataBelow(log, n) <= Room /\ Room \in Nat
  BY PlacedRoom, TsdbAssumption
<1>2. node.size \in Nat \ {0}
  BY LenOfNode
<1>3. node.addr >= n + 1 /\ node.addr < Room /\ node.addr \in Int /\ RoomBelow(log, n) = DataBelow(log, n) - n
  BY <1>0, <1>1, <1>2 DEF RoomBelow
<1>4. \A i \in 0..n : DataBelow(new, i) = DataBelow(log, i)
  BY <1>0 DEF DataBelow
<1>5. ASSUME NEW i \in 1..n
      PROVE  /\ node.addr < log[i].addr
             /\ log[i].addr \in Int
             /\ log[i].addr = DataBelow(log, i - 1) - log[i].size
             /\ log[i].addr < Room
             /\ \A j \in 1..n : i < j => log[j].addr < log[i].addr
  <2>1. n \in 1..n /\ n # 0
    BY <1>0
  <2>2. log[i] \in Node /\ log[n] \in Node
    BY <1>0, <2>1, ElementOfSeq
  <2>3. log[n].addr <= log[i].addr
    <3>1. log[i].addr \in Int /\ log[n].addr \in Int
      BY <2>2, LenOfNode
    <3>2. i < n => log[n].addr < log[i].addr
      BY <1>0, <2>1 DEF Placed
    <3>3. i = n \/ i < n
      <4>1. n \in Nat
        BY <1>0
      <4> HIDE DEF n, new
      <4> QED
        BY <4>1
    <3> QED
      <4> HIDE DEF n
      <4> QED
        BY <3>1, <3>2, <3>3
  <2>4. DataBelow(log, n) <= log[n].addr /\ log[n].addr \in Int /\ log[i].addr \in Int
    BY <2>1, <2>2, LenOfNode, SMTT(40) DEF DataBelow
  <2>5. node.addr < log[i].addr
    BY <1>1, <1>2, <2>3, <2>4
  <2> QED
    BY <1>0, <2>4, <2>5 DEF Placed
<1>6. ASSUME NEW i \in 1..(n + 1)
      PROVE  /\ new[i].addr = DataBelow(new, i - 1) - new[i].size
             /\ new[i].addr >= n + 1 /\ new[i].addr < Room
             /\ \A j \in 1..(n + 1) : i < j => new[j].addr < new[i].addr
  <2>1. CASE i = n + 1
    BY <1>0, <1>3, <1>4, <2>1
  <2>2. CASE i # n + 1
    <3>1. i \in 1..n /\ new[i] = log[i] /\ i - 1 \in 0..n
      BY <1>0, <2>2
    <3>2. DataBelow(new, i - 1) = DataBelow(log, i - 1)
      BY <1>4, <3>1
    <3>3. ASSUME NEW j \in 1..(n + 1), i < j PROVE new[j].addr < new[i].addr
      BY <1>0, <1>5, <3>1, <3>3
    <3>4. new[i].addr >= n + 1
      BY <1>0, <1>3, <1>5, <3>1
    <3> QED
      BY <1>5, <3>1, <3>2, <3>3, <3>4
  <2> QED
    BY <2>1, <2>2
<1>7. Placed(new)
  <2> HIDE DEF new
  <2> QED
    BY <1>0, <1>6 DEF Placed
<1> QED
  BY <1>3, <1>7

(* The last log may become whole without another blob moving.              *)
LEMMA PlacedWhole ==
    ASSUME NEW log \in Seq(Node), Placed(log), NEW n \in Nat, Len(log) = n + 1
    PROVE  LET new == [log EXCEPT ![n + 1].st = "WRITE"]
           IN  /\ new \in Seq(Node) /\ Len(new) = n + 1 /\ Placed(new)
               /\ DataBelow(new, n + 1) = log[n + 1].addr
<1> DEFINE node == [log[n + 1] EXCEPT !.st = "WRITE"]
           new == [log EXCEPT ![n + 1] = node]
<1>1. DOMAIN log = 1..(n + 1) /\ n + 1 \in 1..(n + 1) /\ log[n + 1] \in Node
  BY LenProperties, ElementOfSeq
<1>2. node \in Node /\ node.addr = log[n + 1].addr /\ node.size = log[n + 1].size /\ LenOf(node) = node.size
  BY <1>1 DEF Node, LenOf, Torn
<1>3. new \in Seq(Node) /\ Len(new) = n + 1 /\ DOMAIN new = 1..(n + 1)
      /\ \A j \in 1..(n + 1) : new[j] = IF j = n + 1 THEN node ELSE log[j]
  BY <1>1, <1>2, ExceptSeq, LenProperties
<1>4. \A j \in 1..(n + 1) : new[j].addr = log[j].addr /\ new[j].size = log[j].size
  <2> HIDE DEF new, node
  <2> QED
    BY <1>2, <1>3
<1>5. \A i \in 0..n : DataBelow(new, i) = DataBelow(log, i)
  BY <1>3 DEF DataBelow
<1>6. DataBelow(new, n + 1) = log[n + 1].addr
  <2>1. new[n + 1] = node
    BY <1>1, <1>3
  <2>2. node.addr \in Int /\ node.size \in Nat
    BY <1>2, LenOfNode
  <2> QED
    BY <1>2, <2>1, <2>2 DEF DataBelow
<1>7. Placed(new)
  <2> HIDE DEF new, node
  <2> QED
    BY <1>1, <1>3, <1>4, <1>5 DEF Placed
<1>8. new = [log EXCEPT ![n + 1].st = "WRITE"]
  OBVIOUS
<1> QED
  BY <1>3, <1>6, <1>7, <1>8

-----------------------------------------------------------------------------
(* The types of the sectors and of the memory.                             *)
Stores == {"UNUSED", "EMPTY", "USING", "FULL"}
EndStats == {"UNUSED", "PRE_WRITE", "WRITE"}
EndType == [st : EndStats, time : Int, idx : Nat]
SectorType == [ok : BOOLEAN, store : Stores, start : Int, end : [{1, 2} -> EndType], log : Seq(Node)]
EndStatPairs == [{1, 2} -> EndStats]
CurType == [addr : 0..NSectors, store : Stores, start : Int, endStat : EndStatPairs,
            endTime : Int, n : 0..Room, data : Int, remain : 0..Room]
DbType == [cur : CurType, oldest : 0..NSectors, last : Int, rollover : BOOLEAN]
BlobType == [id : Nat, time : Nat, size : Sizes \union {0}]
Pcs == {"off", "ready", "endpre", "endwrite", "full", "erase", "magic", "using", "start",
        "pre", "write", "format", "formatmagic", "assert", "nosector"}

(* What holds of a sector at any time.                                     *)
SectorOK(sec) ==
    /\ sec \in SectorType
    /\ sec.store = "EMPTY" => sec = Formatted
    /\ sec.store = "UNUSED" => sec = Erased
    /\ sec.store \in {"USING", "FULL"} => sec.ok
    /\ Placed(sec.log)

FlashOK ==
    /\ flash \in [Sectors -> SectorType]
    /\ \A s \in Sectors : SectorOK(flash[s])

MemoryOK ==
    /\ db \in DbType /\ blob \in BlobType /\ pc \in Pcs
    /\ at \in 0..NSectors /\ clock \in Nat /\ count \in Nat /\ cleaning \in BOOLEAN

(* What the running call knows of the current sector: at most points how   *)
(* far its nodes and its blobs reach.                                      *)
Knows(cur, sec) ==
    /\ cur.store = sec.store
    /\ cur.n = Len(sec.log)
    /\ cur.data = DataBelow(sec.log, Len(sec.log))
    /\ cur.remain = RoomBelow(sec.log, Len(sec.log))

BlobNode == [st |-> "PRE_WRITE", id |-> blob.id, time |-> blob.time,
             size |-> blob.size, addr |-> db.cur.data - blob.size]

HalfWritten ==
    /\ db.cur.store = "USING"
    /\ Len(flash[Cur].log) = db.cur.n + 1
    /\ flash[Cur].log[db.cur.n + 1] = BlobNode
    /\ db.cur.remain = db.cur.data - db.cur.n
    /\ Fits(blob.size)

Appending == {"endpre", "endwrite", "full", "erase", "magic", "using", "start", "pre", "write"}
Settled == {"ready", "endpre", "endwrite", "full", "using", "start", "pre"}

CallOK ==
    /\ pc \in Appending \union {"ready"} => Cur \in Sectors
    /\ pc \in Appending => blob.size \in Sizes /\ blob.time = clock /\ blob.id = count
    /\ pc \in Settled => Knows(db.cur, flash[Cur])
    /\ pc = "ready" => flash[Cur].store \in {"EMPTY", "USING"}
    /\ pc \in {"endpre", "endwrite", "full", "start", "pre", "write"} => flash[Cur].store = "USING"
    /\ pc \in {"endpre", "endwrite"} => FreeEnd # {}
    /\ pc = "using" => flash[Cur].store = "EMPTY"
    /\ pc \in {"start", "pre"} => Fits(blob.size)
    /\ pc = "magic" => flash[Cur] = Erased
    /\ pc = "write" => HalfWritten
    /\ pc \in {"format", "formatmagic"} =>
           at \in Sectors /\ \A s \in Sectors : s < at => flash[s] = Formatted

Inv == FlashOK /\ MemoryOK /\ CallOK

-----------------------------------------------------------------------------
LEMMA SectorsFacts ==
    /\ NSectors \in Nat /\ NSectors >= 2 /\ Sectors = 1..NSectors /\ 1 \in Sectors
    /\ \A s \in Sectors : /\ s \in Nat /\ s # 0 /\ s \in 0..NSectors
                          /\ After(s) \in Sectors /\ After(s) # s /\ Before(s) \in Sectors
                          /\ After(s) \in 0..NSectors /\ After(Before(s)) = s /\ Before(After(s)) = s
BY TsdbAssumption DEF Sectors, After, Before

LEMMA BlankSectors ==
    /\ SectorOK(Erased) /\ Erased.log = <<>> /\ Erased.store = "UNUSED" /\ ~Erased.ok
    /\ SectorOK(Formatted) /\ Formatted.log = <<>> /\ Formatted.store = "EMPTY" /\ Formatted.ok
    /\ \A i \in {1, 2} : Formatted.end[i] = NoInfo /\ Erased.end[i] = NoInfo
    /\ NoInfo.st = "UNUSED"
<1>1. NoInfo \in EndType
  BY DEF NoInfo, EndType, EndStats, Unwritten
<1>2. <<NoInfo, NoInfo>> \in [{1, 2} -> EndType] /\ \A i \in {1, 2} : <<NoInfo, NoInfo>>[i] = NoInfo
  BY <1>1
<1>3. <<>> \in Seq(Node) /\ Placed(<<>>)
  BY DEF Placed
<1>4. Erased.store = "UNUSED" /\ Erased.log = <<>> /\ Erased.end = <<NoInfo, NoInfo>> /\ ~Erased.ok /\ Erased \in SectorType
  <2> HIDE DEF NoInfo, EndType, Node
  <2> QED
    BY <1>2, <1>3 DEF Erased, SectorType, Stores, Unwritten
<1>5. Formatted.store = "EMPTY" /\ Formatted.log = <<>> /\ Formatted.end = <<NoInfo, NoInfo>> /\ Formatted.ok
      /\ Formatted \in SectorType
  <2> HIDE DEF NoInfo, EndType, Node
  <2> HIDE DEF Erased
  <2>1. Formatted \in SectorType
    BY <1>4 DEF Formatted, SectorType, Stores
  <2> QED
    BY <1>4, <2>1 DEF Formatted, SectorType
<1> QED
  BY <1>2, <1>3, <1>4, <1>5 DEF SectorOK, NoInfo

LEMMA EmptyRoom ==
    DataBelow(<<>>, 0) = Room /\ RoomBelow(<<>>, 0) = Room /\ Len(<<>>) = 0
BY TsdbAssumption DEF DataBelow, RoomBelow

LEMMA Put_ ==
    ASSUME FlashOK, NEW s \in Sectors, NEW sec, SectorOK(sec), flash' = [flash EXCEPT ![s] = sec]
    PROVE  FlashOK' /\ flash'[s] = sec /\ \A t \in Sectors : t # s => flash'[t] = flash[t]
<1>1. sec \in SectorType
  BY DEF SectorOK
<1>2. flash' \in [Sectors -> SectorType] /\ flash'[s] = sec /\ \A t \in Sectors : t # s => flash'[t] = flash[t]
  BY <1>1 DEF FlashOK
<1>3. \A t \in Sectors : SectorOK(flash'[t])
  BY <1>2 DEF FlashOK
<1> QED
  BY <1>2, <1>3 DEF FlashOK

(* read_sector_info returns what the flash holds, and of a USING sector    *)
(* that is traversed how far it is filled.                                 *)
LEMMA SectorInfoFacts ==
    ASSUME FlashOK, NEW s \in Sectors, NEW traversal \in BOOLEAN, NEW old \in Int
    PROVE  LET info == SectorInfo(s, traversal, old)
           IN  /\ info \in CurType /\ info.addr = s /\ info.store = flash[s].store
               /\ info.endStat = <<flash[s].end[1].st, flash[s].end[2].st>>
               /\ traversal /\ flash[s].store \in {"USING", "EMPTY"} => Knows(info, flash[s])
               /\ flash[s].store = "EMPTY" => Knows(info, flash[s])
<1> DEFINE sec == flash[s]
           logs == IF sec.store = "USING" /\ traversal THEN sec.log ELSE <<>>
           info == SectorInfo(s, traversal, old)
           endTime == IF logs # <<>> THEN TimeOf(Last(logs))
                      ELSE IF EndInfo(s).st = "WRITE" THEN EndInfo(s).time ELSE old
<1>1. sec \in SectorType /\ SectorOK(sec)
  BY DEF FlashOK
<1>2. sec.store \in Stores /\ sec.start \in Int /\ sec.end \in [{1, 2} -> EndType] /\ sec.log \in Seq(Node)
  BY <1>1 DEF SectorType
<1>3. logs \in Seq(Node) /\ Placed(logs)
  BY <1>1, <1>2 DEF SectorOK, Placed
<1>4. DataAfter(logs) = DataBelow(logs, Len(logs)) /\ RemainAfter(logs) = RoomBelow(logs, Len(logs))
  <2> HIDE DEF logs
  <2> QED
    BY <1>3, DataAfterPlaced, RemainAfterPlaced
<1>5. DataAfter(logs) \in Int /\ RemainAfter(logs) \in 0..Room /\ Len(logs) \in 0..Room
  <2> HIDE DEF logs
  <2> QED
    BY <1>3, <1>4, PlacedRoom
<1>6. endTime \in Int
  <2>1. CASE logs # <<>>
    <3> HIDE DEF logs
    <3>1. Len(logs) \in 1..Len(logs)
      BY <1>3, <2>1, EmptySeq, LenProperties
    <3>2. Last(logs) \in Node
      BY <1>3, <3>1, ElementOfSeq DEF Last
    <3> QED
      BY <2>1, <3>2 DEF TimeOf, Node
  <2>2. EndInfo(s) \in EndType
    BY <1>2 DEF EndInfo
  <2> QED
    <3> HIDE DEF logs
    <3> QED
      BY <2>1, <2>2 DEF EndType
<1>7. <<sec.end[1].st, sec.end[2].st>> \in EndStatPairs
  <2>1. sec.end[1].st \in EndStats /\ sec.end[2].st \in EndStats
    BY <1>2 DEF EndType
  <2> QED
    BY <2>1 DEF EndStatPairs
<1>8. info = [addr |-> s, store |-> sec.store, start |-> sec.start,
              endStat |-> <<sec.end[1].st, sec.end[2].st>>, endTime |-> endTime,
              n |-> Len(logs), data |-> DataAfter(logs), remain |-> RemainAfter(logs)]
  BY DEF SectorInfo
<1>9. info \in CurType /\ info.addr = s /\ info.store = sec.store
      /\ info.endStat = <<sec.end[1].st, sec.end[2].st>>
      /\ info.n = Len(logs) /\ info.data = DataAfter(logs) /\ info.remain = RemainAfter(logs)
  <2> HIDE DEF info, logs, sec, endTime
  <2>1. s \in 0..NSectors
    BY SectorsFacts
  <2>2. sec.store \in Stores /\ sec.start \in Int
    BY <1>2
  <2> QED
    BY <1>5, <1>6, <1>7, <1>8, <2>1, <2>2 DEF CurType
<1>10. ASSUME logs = sec.log PROVE Knows(info, sec)
  <2> HIDE DEF info, logs, sec
  <2> QED
    BY <1>4, <1>9, <1>10 DEF Knows
<1>11. sec.store = "EMPTY" => logs = sec.log
  BY <1>1, BlankSectors DEF SectorOK
<1>12. sec.store = "USING" /\ traversal => logs = sec.log
  OBVIOUS
<1> QED
  <2> HIDE DEF logs
  <2> QED
    BY <1>9, <1>10, <1>11, <1>12

-----------------------------------------------------------------------------
LEMMA MemoryType ==
    Memory \in DbType /\ NoBlob \in BlobType
<1>1. <<"UNUSED", "UNUSED">> \in EndStatPairs
  BY DEF EndStats, EndStatPairs
<1> QED
  BY <1>1, TsdbAssumption DEF Memory, DbType, CurType, Stores, NoSector, BlobType, NoBlob

LEMMA InitInv ==
    ASSUME Init
    PROVE  Inv
<1>1. FlashOK
  <2>1. flash = [s \in Sectors |-> Erased]
    BY DEF Init
  <2>2. SectorOK(Erased) /\ Erased \in SectorType
    BY BlankSectors DEF SectorOK
  <2> QED
    BY <2>1, <2>2 DEF FlashOK
<1>2. MemoryOK
  <2>1. 0 \in 0..NSectors
    BY TsdbAssumption
  <2> QED
    BY <2>1, MemoryType DEF Init, MemoryOK, Pcs, NoSector
<1>3. CallOK
  BY DEF Init, CallOK, Appending, Settled
<1> QED
  BY <1>1, <1>2, <1>3 DEF Inv

(* The parts of the invariant a step keeps that leaves the flash alone.    *)
LEMMA FlashKept ==
    ASSUME FlashOK, flash' = flash
    PROVE  FlashOK'
BY DEF FlashOK

LEMMA CurType_ ==
    ASSUME MemoryOK
    PROVE  /\ db \in DbType /\ db.cur \in CurType
           /\ db.cur.store \in Stores /\ db.cur.remain \in 0..Room /\ db.cur.n \in 0..Room /\ db.cur.n \in Nat
           /\ db.cur.data \in Int /\ Cur \in 0..NSectors /\ db.cur.endStat \in [{1, 2} -> EndStats]
           /\ db.last \in Int /\ Room \in Nat /\ db.cur.endTime \in Int /\ db.oldest \in 0..NSectors
BY TsdbAssumption DEF MemoryOK, DbType, CurType, EndStatPairs, Cur

LEMMA CurWith ==
    ASSUME NEW c \in CurType
    PROVE  /\ \A x \in Stores : [c EXCEPT !.store = x] \in CurType
           /\ \A x \in Int : /\ [c EXCEPT !.start = x] \in CurType
                             /\ [c EXCEPT !.endTime = x] \in CurType
                             /\ [c EXCEPT !.data = x] \in CurType
           /\ \A x \in 0..Room : [c EXCEPT !.n = x] \in CurType /\ [c EXCEPT !.remain = x] \in CurType
           /\ \A x \in EndStatPairs : [c EXCEPT !.endStat = x] \in CurType
<1>1. \A x \in Stores : [c EXCEPT !.store = x] \in CurType
  BY DEF CurType
<1>2. \A x \in Int : [c EXCEPT !.start = x] \in CurType
  BY DEF CurType
<1>3. \A x \in Int : [c EXCEPT !.endTime = x] \in CurType
  BY DEF CurType
<1>4. \A x \in Int : [c EXCEPT !.data = x] \in CurType
  BY DEF CurType
<1>5. \A x \in 0..Room : [c EXCEPT !.n = x] \in CurType
  BY DEF CurType
<1>6. \A x \in 0..Room : [c EXCEPT !.remain = x] \in CurType
  BY DEF CurType
<1>7. \A x \in EndStatPairs : [c EXCEPT !.endStat = x] \in CurType
  BY DEF CurType
<1> QED
  BY <1>1, <1>2, <1>3, <1>4, <1>5, <1>6, <1>7

LEMMA AppendInv ==
    ASSUME Inv, NEW size \in Sizes, NEW step \in Steps, Append_(size, step)
    PROVE  Inv'
<1>1. /\ pc = "ready" /\ flash' = flash /\ db' = db /\ at' = at /\ cleaning' = cleaning
      /\ clock' = clock + step /\ count' = count + 1
      /\ blob' = [id |-> count', time |-> clock', size |-> size]
      /\ pc' = FirstWrite(size)
  BY DEF Append_
<1>2. /\ pc' \in {"using", "pre", "endpre", "full"}
      /\ pc' = "using" => db.cur.store = "EMPTY"
      /\ pc' # "using" => db.cur.store # "EMPTY"
      /\ pc' = "pre" => Fits(size)
      /\ pc' = "endpre" => FreeEnd # {}
  BY <1>1 DEF FirstWrite
<1>3. FlashOK'
  BY <1>1, FlashKept DEF Inv
<1>4. MemoryOK'
  <2>1. count' \in Nat /\ clock' \in Nat
    BY <1>1, TsdbAssumption DEF Inv, MemoryOK
  <2>2. blob' \in BlobType
    BY <1>1, <2>1 DEF BlobType
  <2> QED
    BY <1>1, <1>2, <2>1, <2>2 DEF Inv, MemoryOK, Pcs
<1>5. CallOK'
  <2>1. /\ Cur \in Sectors /\ Cur' = Cur /\ flash'[Cur'] = flash[Cur] /\ db'.cur = db.cur
        /\ flash[Cur].store \in {"EMPTY", "USING"} /\ Knows(db.cur, flash[Cur])
        /\ blob'.size \in Sizes /\ blob'.size = size /\ blob'.time = clock' /\ blob'.id = count'
    BY <1>1 DEF Inv, CallOK, Appending, Settled, Cur
  <2>2. db.cur.store = flash[Cur].store
    BY <2>1 DEF Knows
  <2>3. FreeEnd' = FreeEnd /\ Fits(blob.size)' = Fits(size)
    BY <1>1, <2>1 DEF FreeEnd, Fits
  <2> HIDE DEF Cur
  <2> QED
    BY <1>2, <2>1, <2>2, <2>3 DEF CallOK, Appending, Settled
<1> QED
  BY <1>3, <1>4, <1>5 DEF Inv

(* The end node that comes next.                                           *)
LEMMA FreeEndNext ==
    ASSUME FreeEnd # {}
    PROVE  Lowest(FreeEnd) \in {1, 2} /\ db.cur.endStat[Lowest(FreeEnd)] = "UNUSED"
<1>1. FreeEnd \subseteq Nat
  BY DEF FreeEnd
<1>2. Lowest(FreeEnd) \in FreeEnd
  BY <1>1, LowestIn
<1> QED
  BY <1>2 DEF FreeEnd

(* Only the header changes.                                                *)
LEMMA HeaderOK ==
    ASSUME NEW sec, SectorOK(sec), sec.store = "USING", NEW i \in {1, 2}, NEW e \in EndType
    PROVE  LET new == [sec EXCEPT !.end[i] = e]
           IN  SectorOK(new) /\ new.store = "USING" /\ new.log = sec.log /\ new.end = [sec.end EXCEPT ![i] = e]
<1> DEFINE new == [sec EXCEPT !.end[i] = e]
<1>1. sec \in SectorType /\ sec.end \in [{1, 2} -> EndType]
  BY DEF SectorOK, SectorType
<1>2. new \in SectorType /\ new.store = sec.store /\ new.log = sec.log /\ new.ok = sec.ok
      /\ new.end = [sec.end EXCEPT ![i] = e]
  BY <1>1 DEF SectorType
<1> QED
  BY <1>2 DEF SectorOK

LEMMA EndPreWriteInv ==
    ASSUME Inv, EndPreWrite
    PROVE  Inv'
<1> DEFINE L == Lowest(FreeEnd)
           e == [flash[Cur].end[L] EXCEPT !.st = "PRE_WRITE"]
           sec == [flash[Cur] EXCEPT !.end[L] = e]
<1>1. /\ pc = "endpre" /\ flash' = [flash EXCEPT ![Cur] = sec] /\ pc' = "endwrite"
      /\ db' = db /\ blob' = blob /\ at' = at /\ clock' = clock /\ count' = count /\ cleaning' = cleaning
  BY DEF EndPreWrite, Put
<1>2. /\ Cur \in Sectors /\ FreeEnd # {} /\ flash[Cur].store = "USING" /\ Knows(db.cur, flash[Cur])
      /\ blob.size \in Sizes /\ blob.time = clock /\ blob.id = count
  BY <1>1 DEF Inv, CallOK, Appending, Settled
<1>3. SectorOK(flash[Cur]) /\ L \in {1, 2}
  BY <1>2, FreeEndNext DEF Inv, FlashOK
<1>4. e \in EndType
  <2>1. flash[Cur].end[L] \in EndType
    BY <1>3 DEF SectorOK, SectorType
  <2> QED
    BY <2>1 DEF EndType, EndStats
<1>5. SectorOK(sec) /\ sec.store = "USING" /\ sec.log = flash[Cur].log
  <2> HIDE DEF e, L
  <2> QED
    BY <1>2, <1>3, <1>4, HeaderOK
<1> HIDE DEF sec
<1>6. FlashOK' /\ flash'[Cur] = sec
  BY <1>1, <1>2, <1>5, Put_ DEF Inv
<1>7. MemoryOK'
  BY <1>1 DEF Inv, MemoryOK, Pcs
<1>8. CallOK'
  <2>1. Cur' = Cur /\ flash'[Cur'] = sec /\ db'.cur = db.cur /\ FreeEnd' = FreeEnd
    BY <1>1, <1>6 DEF Cur, FreeEnd
  <2>2. Knows(db.cur, sec)
    BY <1>2, <1>5 DEF Knows
  <2> QED
    BY <1>1, <1>2, <1>5, <2>1, <2>2 DEF CallOK, Appending, Settled
<1> QED
  BY <1>6, <1>7, <1>8 DEF Inv

LEMMA EndWriteInv ==
    ASSUME Inv, EndWrite
    PROVE  Inv'
<1> DEFINE L == Lowest(FreeEnd)
           e == [st |-> "WRITE", time |-> db.last, idx |-> db.cur.n]
           sec == [flash[Cur] EXCEPT !.end[L] = e]
<1>1. /\ pc = "endwrite" /\ flash' = [flash EXCEPT ![Cur] = sec] /\ pc' = "full"
      /\ db' = db /\ blob' = blob /\ at' = at /\ clock' = clock /\ count' = count /\ cleaning' = cleaning
  BY DEF EndWrite, Put
<1>2. /\ Cur \in Sectors /\ FreeEnd # {} /\ flash[Cur].store = "USING" /\ Knows(db.cur, flash[Cur])
      /\ blob.size \in Sizes /\ blob.time = clock /\ blob.id = count
  BY <1>1 DEF Inv, CallOK, Appending, Settled
<1>3. SectorOK(flash[Cur]) /\ L \in {1, 2}
  BY <1>2, FreeEndNext DEF Inv, FlashOK
<1>4. e \in EndType
  BY CurType_ DEF Inv, EndType, EndStats
<1>5. SectorOK(sec) /\ sec.store = "USING" /\ sec.log = flash[Cur].log
  <2> HIDE DEF e, L
  <2> QED
    BY <1>2, <1>3, <1>4, HeaderOK
<1> HIDE DEF sec
<1>6. FlashOK' /\ flash'[Cur] = sec
  BY <1>1, <1>2, <1>5, Put_ DEF Inv
<1>7. MemoryOK'
  BY <1>1 DEF Inv, MemoryOK, Pcs
<1>8. CallOK'
  <2>1. Cur' = Cur /\ flash'[Cur'] = sec /\ db'.cur = db.cur
    BY <1>1, <1>6 DEF Cur
  <2>2. Knows(db.cur, sec)
    BY <1>2, <1>5 DEF Knows
  <2> QED
    BY <1>1, <1>2, <1>5, <2>1, <2>2 DEF CallOK, Appending, Settled
<1> QED
  BY <1>6, <1>7, <1>8 DEF Inv

LEMMA SectorFullInv ==
    ASSUME Inv, SectorFull
    PROVE  Inv'
<1> DEFINE next == SectorInfo(After(Cur), FALSE, db.cur.endTime)
           sec == [flash[Cur] EXCEPT !.store = "FULL"]
<1>1. /\ pc = "full" /\ flash' = [flash EXCEPT ![Cur] = sec]
      /\ pc' = IF next.store = "EMPTY" THEN "using" ELSE "erase"
      /\ db' = [db EXCEPT !.cur = next, !.oldest = IF next.store = "EMPTY" THEN @ ELSE After(next.addr)]
      /\ blob' = blob /\ at' = at /\ clock' = clock /\ count' = count /\ cleaning' = cleaning
  BY DEF SectorFull, Put
<1>2. /\ Cur \in Sectors /\ flash[Cur].store = "USING"
      /\ blob.size \in Sizes /\ blob.time = clock /\ blob.id = count
  BY <1>1 DEF Inv, CallOK, Appending, Settled
<1>3. After(Cur) \in Sectors /\ After(Cur) # Cur
  BY <1>2, SectorsFacts
<1>4. /\ next \in CurType /\ next.addr = After(Cur) /\ next.store = flash[After(Cur)].store
      /\ next.store = "EMPTY" => Knows(next, flash[After(Cur)])
  <2>1. db.cur.endTime \in Int /\ FlashOK /\ FALSE \in BOOLEAN
    BY CurType_ DEF Inv
  <2>2. ASSUME NEW s \in Sectors, NEW old \in Int
        PROVE  LET info == SectorInfo(s, FALSE, old)
               IN  /\ info \in CurType /\ info.addr = s /\ info.store = flash[s].store
                   /\ info.store = "EMPTY" => Knows(info, flash[s])
    BY <2>1, SectorInfoFacts
  <2> QED
    BY <1>3, <2>1, <2>2
<1>5. SectorOK(sec)
  <2>1. SectorOK(flash[Cur])
    BY <1>2 DEF Inv, FlashOK
  <2>2. sec \in SectorType /\ sec.store = "FULL" /\ sec.log = flash[Cur].log /\ sec.ok = flash[Cur].ok
    BY <2>1 DEF SectorOK, SectorType, Stores
  <2> QED
    BY <1>2, <2>1, <2>2 DEF SectorOK
<1> HIDE DEF sec, next
<1>6. FlashOK' /\ flash'[After(Cur)] = flash[After(Cur)]
  BY <1>1, <1>2, <1>3, <1>5, Put_ DEF Inv
<1>7. db' \in DbType /\ db'.cur = next
  <2>1. db \in DbType
    BY CurType_ DEF Inv
  <2>2. After(next.addr) \in 0..NSectors
    BY <1>3, <1>4, SectorsFacts
  <2> QED
    BY <1>1, <1>4, <2>1, <2>2 DEF DbType
<1>8. MemoryOK'
  BY <1>1, <1>7 DEF Inv, MemoryOK, Pcs
<1>9. CallOK'
  <2>1. Cur' = After(Cur) /\ flash'[Cur'] = flash[After(Cur)]
    BY <1>4, <1>6, <1>7 DEF Cur
  <2> QED
    BY <1>1, <1>2, <1>3, <1>4, <1>7, <2>1 DEF CallOK, Appending, Settled
<1> QED
  BY <1>6, <1>8, <1>9 DEF Inv

LEMMA EraseNextInv ==
    ASSUME Inv, EraseNext
    PROVE  Inv'
<1>1. /\ pc = "erase" /\ flash' = [flash EXCEPT ![Cur] = Erased] /\ pc' = "magic"
      /\ db' = db /\ blob' = blob /\ at' = at /\ clock' = clock /\ count' = count /\ cleaning' = cleaning
  BY DEF EraseNext, Put
<1>2. Cur \in Sectors /\ blob.size \in Sizes /\ blob.time = clock /\ blob.id = count
  BY <1>1 DEF Inv, CallOK, Appending
<1>3. FlashOK' /\ flash'[Cur] = Erased
  BY <1>1, <1>2, BlankSectors, Put_ DEF Inv
<1>4. MemoryOK'
  BY <1>1 DEF Inv, MemoryOK, Pcs
<1>5. CallOK'
  <2>1. Cur' = Cur /\ flash'[Cur'] = Erased
    BY <1>1, <1>3 DEF Cur
  <2> QED
    BY <1>1, <1>2, <2>1 DEF CallOK, Appending, Settled
<1> QED
  BY <1>3, <1>4, <1>5 DEF Inv

LEMMA FormatNextInv ==
    ASSUME Inv, FormatNext
    PROVE  Inv'
<1> DEFINE cur == [db.cur EXCEPT !.store = "EMPTY", !.start = Unwritten, !.n = 0,
                                 !.endStat = <<"UNUSED", "UNUSED">>, !.data = Room, !.remain = Room]
<1>1. /\ pc = "magic" /\ flash' = [flash EXCEPT ![Cur] = Formatted] /\ pc' = "using"
      /\ db' = [db EXCEPT !.cur = cur]
      /\ blob' = blob /\ at' = at /\ clock' = clock /\ count' = count /\ cleaning' = cleaning
  BY DEF FormatNext, Put
<1>2. Cur \in Sectors /\ blob.size \in Sizes /\ blob.time = clock /\ blob.id = count
  BY <1>1 DEF Inv, CallOK, Appending
<1>3. FlashOK' /\ flash'[Cur] = Formatted
  BY <1>1, <1>2, BlankSectors, Put_ DEF Inv
<1>4. cur \in CurType /\ cur.addr = Cur /\ cur.store = "EMPTY" /\ cur.n = 0 /\ cur.data = Room /\ cur.remain = Room
  <2>1. db.cur \in CurType /\ Room \in Nat
    BY CurType_ DEF Inv
  <2>2. <<"UNUSED", "UNUSED">> \in EndStatPairs
    BY DEF EndStats, EndStatPairs
  <2>3. ASSUME NEW c \in CurType, NEW e \in EndStatPairs
        PROVE  [c EXCEPT !.store = "EMPTY", !.start = Unwritten, !.n = 0,
                         !.endStat = e, !.data = Room, !.remain = Room] \in CurType
    <3> DEFINE c1 == [c EXCEPT !.store = "EMPTY"]
               c2 == [c1 EXCEPT !.start = Unwritten]
               c3 == [c2 EXCEPT !.n = 0]
               c4 == [c3 EXCEPT !.endStat = e]
               c5 == [c4 EXCEPT !.data = Room]
               c6 == [c5 EXCEPT !.remain = Room]
    <3>1. "EMPTY" \in Stores /\ Unwritten \in Int /\ 0 \in 0..Room /\ Room \in Int /\ Room \in 0..Room
      BY <2>1 DEF Stores, Unwritten
    <3>2. c6 \in CurType
      <4>1. c1 \in CurType
        BY <3>1, CurWith
      <4>2. c2 \in CurType
        <5> HIDE DEF c1
        <5> QED BY <3>1, <4>1, CurWith
      <4>3. c3 \in CurType
        <5> HIDE DEF c2
        <5> QED BY <3>1, <4>2, CurWith
      <4>4. c4 \in CurType
        <5> HIDE DEF c3
        <5> QED BY <4>3, CurWith
      <4>5. c5 \in CurType
        <5> HIDE DEF c4
        <5> QED BY <3>1, <4>4, CurWith
      <4> HIDE DEF c5
      <4> QED
        BY <3>1, <4>5, CurWith
    <3>3. c6 = [c EXCEPT !.store = "EMPTY", !.start = Unwritten, !.n = 0,
                         !.endStat = e, !.data = Room, !.remain = Room]
      OBVIOUS
    <3> HIDE DEF c6
    <3> QED
      BY <3>2, <3>3
  <2>4. cur \in CurType
    BY <2>1, <2>2, <2>3
  <2> QED
    BY <2>1, <2>4 DEF CurType, Cur
<1> HIDE DEF cur
<1>5. db' \in DbType /\ db'.cur = cur
  <2>1. db \in DbType
    BY CurType_ DEF Inv
  <2> QED
    BY <1>1, <1>4, <2>1 DEF DbType
<1>6. MemoryOK'
  BY <1>1, <1>5 DEF Inv, MemoryOK, Pcs
<1>7. CallOK'
  <2>1. Cur' = Cur /\ flash'[Cur'] = Formatted
    BY <1>3, <1>4, <1>5 DEF Cur
  <2>2. Knows(cur, Formatted)
    BY <1>4, BlankSectors, EmptyRoom DEF Knows
  <2> QED
    BY <1>1, <1>2, <1>5, <2>1, <2>2, BlankSectors DEF CallOK, Appending, Settled
<1> QED
  BY <1>3, <1>6, <1>7 DEF Inv

LEMMA SizeFacts ==
    ASSUME NEW size \in Sizes
    PROVE  size \in Nat /\ size > 0 /\ Room >= 1 + size /\ Room \in Nat
<1>1. size \in 1..(Room - 1) /\ Room \in Nat
  BY TsdbAssumption
<1> QED
  BY <1>1

LEMMA DbWith ==
    ASSUME NEW d \in DbType, NEW c \in CurType
    PROVE  /\ [d EXCEPT !.cur = c] \in DbType /\ [d EXCEPT !.cur = c].cur = c
           /\ [d EXCEPT !.cur = c].last = d.last /\ [d EXCEPT !.cur = c].oldest = d.oldest
           /\ \A x \in Int : [d EXCEPT !.last = x] \in DbType /\ [d EXCEPT !.last = x].cur = d.cur
                              /\ [d EXCEPT !.last = x].oldest = d.oldest
BY DEF DbType

LEMMA SectorUsingInv ==
    ASSUME Inv, SectorUsing
    PROVE  Inv'
<1> DEFINE c1 == [db.cur EXCEPT !.store = "USING"]
           cur == [c1 EXCEPT !.start = blob.time]
           sec == [flash[Cur] EXCEPT !.store = "USING"]
<1>1. /\ pc = "using" /\ flash' = [flash EXCEPT ![Cur] = sec] /\ pc' = "start"
      /\ db' = [db EXCEPT !.cur.store = "USING", !.cur.start = blob.time]
      /\ blob' = blob /\ at' = at /\ clock' = clock /\ count' = count /\ cleaning' = cleaning
  BY DEF SectorUsing, Put
<1>2. /\ Cur \in Sectors /\ flash[Cur].store = "EMPTY" /\ Knows(db.cur, flash[Cur])
      /\ blob.size \in Sizes /\ blob.time = clock /\ blob.id = count
  BY <1>1 DEF Inv, CallOK, Appending, Settled
<1>3. flash[Cur] = Formatted /\ SectorOK(Formatted)
  BY <1>2, BlankSectors DEF Inv, FlashOK, SectorOK
<1>4. SectorOK(sec) /\ sec.store = "USING" /\ sec.log = <<>>
  <2>1. Formatted \in SectorType /\ Placed(Formatted.log) /\ Formatted.ok
    BY BlankSectors DEF SectorOK
  <2>2. sec \in SectorType /\ sec.store = "USING" /\ sec.log = Formatted.log /\ sec.ok = Formatted.ok
    BY <1>3, <2>1 DEF SectorType, Stores
  <2> QED
    BY <2>1, <2>2, BlankSectors DEF SectorOK
<1> HIDE DEF sec
<1>5. FlashOK' /\ flash'[Cur] = sec
  BY <1>1, <1>2, <1>4, Put_ DEF Inv
<1>6. db.cur \in CurType /\ db \in DbType /\ blob.time \in Int
  BY CurType_ DEF Inv, MemoryOK, BlobType
<1>7. /\ cur \in CurType /\ cur.addr = Cur /\ cur.store = "USING" /\ cur.n = db.cur.n
      /\ cur.data = db.cur.data /\ cur.remain = db.cur.remain
  <2>1. c1 \in CurType /\ c1.addr = Cur /\ c1.store = "USING" /\ c1.n = db.cur.n
        /\ c1.data = db.cur.data /\ c1.remain = db.cur.remain
    BY <1>6, CurWith DEF Stores, CurType, Cur
  <2> HIDE DEF c1
  <2>2. cur \in CurType
    BY <1>6, <2>1, CurWith
  <2> QED
    BY <2>1, <2>2 DEF CurType
<1>8. db' = [db EXCEPT !.cur = cur]
  BY <1>1
<1> HIDE DEF cur
<1>9. db' \in DbType /\ db'.cur = cur
  BY <1>6, <1>7, <1>8, DbWith
<1>10. MemoryOK'
  BY <1>1, <1>9 DEF Inv, MemoryOK, Pcs
<1>11. CallOK'
  <2>1. Cur' = Cur /\ flash'[Cur'] = sec
    BY <1>5, <1>7, <1>9 DEF Cur
  <2>2. db.cur.n = 0 /\ db.cur.data = Room /\ db.cur.remain = Room
    BY <1>2, <1>3, BlankSectors, EmptyRoom DEF Knows
  <2>3. Knows(cur, sec)
    BY <1>4, <1>7, <2>2, EmptyRoom DEF Knows
  <2>4. Fits(blob.size)'
    <3>1. Room >= 1 + blob.size
      BY <1>2, SizeFacts
    <3> QED
      BY <1>1, <1>7, <1>9, <2>2, <3>1 DEF Fits
  <2> QED
    BY <1>1, <1>2, <1>4, <1>9, <2>1, <2>3, <2>4 DEF CallOK, Appending, Settled
<1> QED
  BY <1>5, <1>10, <1>11 DEF Inv

LEMMA StartTimeInv ==
    ASSUME Inv, StartTime
    PROVE  Inv'
<1> DEFINE sec == [flash[Cur] EXCEPT !.start = blob.time]
<1>1. /\ pc = "start" /\ flash' = [flash EXCEPT ![Cur] = sec] /\ pc' = "pre"
      /\ db' = db /\ blob' = blob /\ at' = at /\ clock' = clock /\ count' = count /\ cleaning' = cleaning
  BY DEF StartTime, Put
<1>2. /\ Cur \in Sectors /\ flash[Cur].store = "USING" /\ Knows(db.cur, flash[Cur]) /\ Fits(blob.size)
      /\ blob.size \in Sizes /\ blob.time = clock /\ blob.id = count
  BY <1>1 DEF Inv, CallOK, Appending, Settled
<1>3. SectorOK(sec) /\ sec.store = "USING" /\ sec.log = flash[Cur].log
  <2>1. SectorOK(flash[Cur]) /\ blob.time \in Int
    BY <1>2 DEF Inv, FlashOK, MemoryOK, BlobType
  <2>2. sec \in SectorType /\ sec.store = "USING" /\ sec.log = flash[Cur].log /\ sec.ok = flash[Cur].ok
    BY <1>2, <2>1 DEF SectorOK, SectorType
  <2> QED
    BY <1>2, <2>1, <2>2 DEF SectorOK
<1> HIDE DEF sec
<1>4. FlashOK' /\ flash'[Cur] = sec
  BY <1>1, <1>2, <1>3, Put_ DEF Inv
<1>5. MemoryOK'
  BY <1>1 DEF Inv, MemoryOK, Pcs
<1>6. CallOK'
  <2>1. Cur' = Cur /\ flash'[Cur'] = sec /\ db'.cur = db.cur /\ Fits(blob.size)' = Fits(blob.size)
    BY <1>1, <1>4 DEF Cur, Fits
  <2>2. Knows(db.cur, sec)
    BY <1>2, <1>3 DEF Knows
  <2> QED
    BY <1>1, <1>2, <1>3, <2>1, <2>2 DEF CallOK, Appending, Settled
<1> QED
  BY <1>4, <1>5, <1>6 DEF Inv

LEMMA PreWriteFacts ==
    ASSUME Inv, PreWrite
    PROVE  LET log == flash[Cur].log
           IN  /\ pc = "pre" /\ pc' = "write"
               /\ db' = db /\ blob' = blob /\ at' = at /\ clock' = clock /\ count' = count /\ cleaning' = cleaning
               /\ Cur \in Sectors /\ flash[Cur].store = "USING" /\ Knows(db.cur, flash[Cur]) /\ Fits(blob.size)
               /\ blob.size \in Sizes /\ blob.time = clock /\ blob.id = count
               /\ log \in Seq(Node) /\ BlobNode \in Node
               /\ flash' = [flash EXCEPT ![Cur] = [flash[Cur] EXCEPT !.log = Append(log, BlobNode)]]
<1>1. /\ pc = "pre" /\ pc' = "write"
      /\ flash' = [flash EXCEPT ![Cur] = [flash[Cur] EXCEPT !.log =
                        IF db.cur.n < Len(flash[Cur].log) THEN ReplaceAt(flash[Cur].log, db.cur.n + 1, BlobNode)
                        ELSE Append(flash[Cur].log, BlobNode)]]
      /\ db' = db /\ blob' = blob /\ at' = at /\ clock' = clock /\ count' = count /\ cleaning' = cleaning
  BY DEF PreWrite, Put, BlobNode
<1>2. /\ Cur \in Sectors /\ flash[Cur].store = "USING" /\ Knows(db.cur, flash[Cur]) /\ Fits(blob.size)
      /\ blob.size \in Sizes /\ blob.time = clock /\ blob.id = count
  BY <1>1 DEF Inv, CallOK, Appending, Settled
<1>3. flash[Cur].log \in Seq(Node)
  BY <1>2 DEF Inv, FlashOK, SectorType
<1>4. ~(db.cur.n < Len(flash[Cur].log))
  <2>1. Len(flash[Cur].log) \in Nat
    BY <1>3, LenProperties
  <2> QED
    BY <1>2, <2>1 DEF Knows
<1>5. BlobNode \in Node
  <2>1. blob.id \in Nat /\ blob.time \in Nat /\ blob.size \in Int /\ db.cur.data \in Int
    BY <1>2, CurType_, SizeFacts DEF Inv, MemoryOK, BlobType
  <2>2. db.cur.data - blob.size \in Int
    BY <2>1
  <2> QED
    BY <1>2, <2>1, <2>2 DEF BlobNode, Node
<1> QED
  BY <1>1, <1>2, <1>3, <1>4, <1>5

LEMMA PreWriteInv ==
    ASSUME Inv, PreWrite
    PROVE  Inv'
<1> DEFINE log == flash[Cur].log
           new == Append(log, BlobNode)
           sec == [flash[Cur] EXCEPT !.log = new]
           n == db.cur.n
<1>1. /\ pc = "pre" /\ pc' = "write" /\ flash' = [flash EXCEPT ![Cur] = sec]
      /\ db' = db /\ blob' = blob /\ at' = at /\ clock' = clock /\ count' = count /\ cleaning' = cleaning
      /\ Cur \in Sectors /\ flash[Cur].store = "USING" /\ Knows(db.cur, flash[Cur]) /\ Fits(blob.size)
      /\ blob.size \in Sizes /\ blob.time = clock /\ blob.id = count
      /\ log \in Seq(Node) /\ BlobNode \in Node
  BY PreWriteFacts
<1>2. BlobNode.size = blob.size /\ BlobNode.addr = db.cur.data - blob.size
  BY DEF BlobNode
<1>3. SectorOK(flash[Cur]) /\ Placed(log)
  BY <1>1 DEF Inv, FlashOK, SectorOK
<1>4. Placed(new) /\ db.cur.remain = db.cur.data - n
  <2>1. RoomBelow(log, Len(log)) >= 1 + BlobNode.size /\ BlobNode.addr = DataBelow(log, Len(log)) - BlobNode.size
    BY <1>1, <1>2 DEF Knows, Fits
  <2> QED
    BY <1>1, <1>3, <2>1, PlacedAppend DEF Knows
<1>5. new \in Seq(Node) /\ Len(new) = n + 1 /\ new[n + 1] = BlobNode
  <2>1. Len(log) = n
    BY <1>1 DEF Knows
  <2> QED
    BY <1>1, <2>1, AppendProperties
<1>6. SectorOK(sec) /\ sec.store = "USING" /\ sec.log = new
  <2> HIDE DEF new
  <2>1. sec \in SectorType /\ sec.store = "USING" /\ sec.log = new /\ sec.ok = flash[Cur].ok
    BY <1>1, <1>3, <1>5 DEF SectorOK, SectorType
  <2> QED
    BY <1>1, <1>3, <1>4, <2>1 DEF SectorOK
<1> HIDE DEF sec, new
<1>7. FlashOK' /\ flash'[Cur] = sec
  BY <1>1, <1>6, Put_ DEF Inv
<1>8. MemoryOK'
  BY <1>1 DEF Inv, MemoryOK, Pcs
<1>9. CallOK'
  <2>1. Cur' = Cur /\ flash'[Cur'] = sec /\ db'.cur = db.cur /\ Fits(blob.size)' = Fits(blob.size)
        /\ BlobNode' = BlobNode
    BY <1>1, <1>7 DEF Cur, Fits, BlobNode
  <2>2. HalfWritten'
    BY <1>1, <1>4, <1>5, <1>6, <2>1 DEF HalfWritten, Knows
  <2> QED
    BY <1>1, <1>6, <2>1, <2>2 DEF CallOK, Appending, Settled
<1> QED
  BY <1>7, <1>8, <1>9 DEF Inv

LEMMA WriteFacts ==
    ASSUME Inv, Write
    PROVE  LET log == flash[Cur].log
               n == db.cur.n
           IN  /\ pc = "write" /\ pc' = "ready" /\ blob' = NoBlob
               /\ at' = at /\ clock' = clock /\ count' = count /\ cleaning' = cleaning
               /\ Cur \in Sectors /\ flash[Cur].store = "USING" /\ HalfWritten
               /\ blob.size \in Sizes /\ blob.time = clock /\ blob.id = count
               /\ log \in Seq(Node) /\ n \in Nat /\ Len(log) = n + 1 /\ DOMAIN log = 1..(n + 1)
               /\ log[n + 1] = BlobNode
               /\ flash' = [flash EXCEPT ![Cur] = [flash[Cur] EXCEPT !.log = [log EXCEPT ![n + 1].st = "WRITE"]]]
<1>1. /\ pc = "write" /\ pc' = "ready" /\ blob' = NoBlob
      /\ at' = at /\ clock' = clock /\ count' = count /\ cleaning' = cleaning
      /\ flash' = [flash EXCEPT ![Cur] = [flash[Cur] EXCEPT !.log[db.cur.n + 1].st = "WRITE"]]
  BY DEF Write, Put
<1>2. /\ Cur \in Sectors /\ flash[Cur].store = "USING" /\ HalfWritten
      /\ blob.size \in Sizes /\ blob.time = clock /\ blob.id = count
  BY <1>1 DEF Inv, CallOK, Appending
<1>3. flash[Cur].log \in Seq(Node) /\ db.cur.n \in Nat
  BY <1>2, CurType_ DEF Inv, FlashOK, SectorType
<1> QED
  BY <1>1, <1>2, <1>3, LenProperties DEF HalfWritten

LEMMA WriteInv ==
    ASSUME Inv, Write
    PROVE  Inv'
<1> DEFINE log == flash[Cur].log
           n == db.cur.n
           new == [log EXCEPT ![n + 1].st = "WRITE"]
           sec == [flash[Cur] EXCEPT !.log = new]
           c1 == [db.cur EXCEPT !.endTime = blob.time]
           c2 == [c1 EXCEPT !.n = n + 1]
           c3 == [c2 EXCEPT !.data = db.cur.data - blob.size]
           cur == [c3 EXCEPT !.remain = db.cur.remain - (1 + blob.size)]
           d1 == [db EXCEPT !.cur = cur]
           last == IF blob.time >= db.last THEN blob.time ELSE db.last
<1>1. /\ pc = "write" /\ pc' = "ready" /\ blob' = NoBlob
      /\ at' = at /\ clock' = clock /\ count' = count /\ cleaning' = cleaning
      /\ Cur \in Sectors /\ flash[Cur].store = "USING" /\ HalfWritten /\ blob.size \in Sizes
      /\ log \in Seq(Node) /\ n \in Nat /\ Len(log) = n + 1 /\ DOMAIN log = 1..(n + 1) /\ log[n + 1] = BlobNode
      /\ flash' = [flash EXCEPT ![Cur] = sec]
  BY WriteFacts
<1>2. db' = [d1 EXCEPT !.last = last]
  BY DEF Write
<1>3. SectorOK(flash[Cur]) /\ Placed(log)
  BY <1>1 DEF Inv, FlashOK, SectorOK
<1>4. new \in Seq(Node) /\ Len(new) = n + 1 /\ Placed(new) /\ DataBelow(new, n + 1) = log[n + 1].addr
  BY <1>1, <1>3, PlacedWhole
<1>5. SectorOK(sec) /\ sec.store = "USING" /\ sec.log = new
  <2> HIDE DEF new
  <2>1. sec \in SectorType /\ sec.store = "USING" /\ sec.log = new /\ sec.ok = flash[Cur].ok
    BY <1>1, <1>3, <1>4 DEF SectorOK, SectorType
  <2> QED
    BY <1>1, <1>3, <1>4, <2>1 DEF SectorOK
<1>6. /\ db \in DbType /\ db.cur \in CurType /\ db.cur.data \in Int /\ db.cur.remain \in 0..Room /\ db.last \in Int
      /\ blob.time \in Int /\ blob.size \in Nat /\ Room \in Nat
  BY <1>1, CurType_, TsdbAssumption DEF Inv, MemoryOK, BlobType
<1>7. /\ log[n + 1].addr = db.cur.data - blob.size
      /\ db.cur.remain = db.cur.data - n /\ db.cur.remain >= 1 + blob.size /\ db.cur.store = "USING"
  BY <1>1 DEF HalfWritten, BlobNode, Fits
<1>8. n + 1 \in 0..Room /\ db.cur.data - blob.size \in Int /\ db.cur.remain - (1 + blob.size) \in 0..Room
  <2>1. log[n + 1].addr >= n + 1 /\ log[n + 1].addr < Room
    BY <1>1, <1>3 DEF Placed
  <2>2. n \in Nat
    BY <1>1
  <2>3. log[n + 1].addr \in Int
    BY <1>6, <1>7
  <2> HIDE DEF n, log
  <2>4. n + 1 \in 0..Room
    BY <1>6, <2>1, <2>2, <2>3
  <2>5. db.cur.data - blob.size \in Int /\ db.cur.remain - (1 + blob.size) \in 0..Room
    BY <1>6, <1>7
  <2> QED
    BY <2>4, <2>5
<1>9. /\ cur \in CurType /\ cur.addr = Cur /\ cur.store = "USING" /\ cur.n = n + 1
      /\ cur.data = db.cur.data - blob.size /\ cur.remain = db.cur.remain - (1 + blob.size)
  <2>1. c1 \in CurType /\ c1.addr = Cur /\ c1.store = "USING"
    BY <1>6, <1>7, CurWith DEF CurType, Cur
  <2>2. c2 \in CurType /\ c2.addr = Cur /\ c2.store = "USING" /\ c2.n = n + 1
    <3> HIDE DEF c1
    <3> QED BY <1>8, <2>1, CurWith DEF CurType
  <2>3. c3 \in CurType /\ c3.addr = Cur /\ c3.store = "USING" /\ c3.n = n + 1 /\ c3.data = db.cur.data - blob.size
    <3> HIDE DEF c2
    <3> QED BY <1>8, <2>2, CurWith DEF CurType
  <2> HIDE DEF c3
  <2> QED BY <1>8, <2>3, CurWith DEF CurType
<1> HIDE DEF cur, sec, new
<1>10. db' \in DbType /\ db'.cur = cur
  <2>1. d1 \in DbType /\ d1.cur = cur
    BY <1>6, <1>9, DbWith
  <2>2. last \in Int
    BY <1>6
  <2> HIDE DEF d1, last
  <2> QED
    BY <1>2, <1>9, <2>1, <2>2, DbWith
<1>11. FlashOK' /\ flash'[Cur] = sec
  BY <1>1, <1>5, Put_ DEF Inv
<1>12. MemoryOK'
  BY <1>1, <1>10 DEF Inv, MemoryOK, Pcs, BlobType, NoBlob
<1>13. CallOK'
  <2>1. Cur' = Cur /\ flash'[Cur'] = sec
    BY <1>9, <1>10, <1>11 DEF Cur
  <2>2. Knows(cur, sec)
    <3>1. cur.data = DataBelow(new, n + 1)
      BY <1>4, <1>7, <1>9
    <3>2. cur.remain = cur.data - (n + 1) /\ cur.remain >= 0
      <4> HIDE DEF n, log
      <4>1. n \in Nat /\ db.cur.data \in Int /\ blob.size \in Nat /\ db.cur.remain \in Int
        BY <1>1, <1>6
      <4> QED
        BY <4>1, <1>7, <1>9
    <3>3. cur.remain = RoomBelow(new, n + 1)
      BY <1>1, <1>6, <1>8, <1>9, <3>1, <3>2 DEF RoomBelow
    <3> QED
      BY <1>4, <1>5, <1>9, <3>1, <3>3 DEF Knows
  <2> QED
    BY <1>1, <1>5, <1>10, <2>1, <2>2 DEF CallOK, Appending, Settled
<1> QED
  BY <1>11, <1>12, <1>13 DEF Inv

LEMMA CleanInv ==
    ASSUME Inv, Clean
    PROVE  Inv'
<1>1. /\ pc = "ready" /\ pc' = "format" /\ at' = 1 /\ cleaning' = TRUE
      /\ flash' = flash /\ db' = db /\ blob' = blob /\ clock' = clock /\ count' = count
  BY DEF Clean
<1>2. FlashOK'
  BY <1>1, FlashKept DEF Inv
<1>3. MemoryOK'
  BY <1>1, SectorsFacts DEF Inv, MemoryOK, Pcs
<1>4. CallOK'
  BY <1>1, SectorsFacts DEF CallOK, Appending, Settled
<1> QED
  BY <1>2, <1>3, <1>4 DEF Inv

LEMMA StartFormatsInv ==
    ASSUME Inv, StartFormats
    PROVE  Inv'
<1>1. /\ pc = "off" /\ pc' = "format" /\ at' = 1 /\ cleaning' = cleaning
      /\ flash' = flash /\ db' = db /\ blob' = blob /\ clock' = clock /\ count' = count
  BY DEF StartFormats
<1>2. FlashOK'
  BY <1>1, FlashKept DEF Inv
<1>3. MemoryOK'
  BY <1>1, SectorsFacts DEF Inv, MemoryOK, Pcs
<1>4. CallOK'
  BY <1>1, SectorsFacts DEF CallOK, Appending, Settled
<1> QED
  BY <1>2, <1>3, <1>4 DEF Inv

LEMMA FormatEraseInv ==
    ASSUME Inv, FormatErase
    PROVE  Inv'
<1>1. /\ pc = "format" /\ flash' = [flash EXCEPT ![at] = Erased] /\ pc' = "formatmagic"
      /\ db' = db /\ blob' = blob /\ at' = at /\ clock' = clock /\ count' = count /\ cleaning' = cleaning
  BY DEF FormatErase, Put
<1>2. at \in Sectors /\ \A s \in Sectors : s < at => flash[s] = Formatted
  BY <1>1 DEF Inv, CallOK
<1>3. FlashOK' /\ flash'[at] = Erased /\ \A t \in Sectors : t # at => flash'[t] = flash[t]
  BY <1>1, <1>2, BlankSectors, Put_ DEF Inv
<1>4. MemoryOK'
  BY <1>1 DEF Inv, MemoryOK, Pcs
<1>5. \A s \in Sectors : s < at' => flash'[s] = Formatted
  <2> SUFFICES ASSUME NEW s \in Sectors, s < at PROVE flash'[s] = Formatted
    BY <1>1
  <2>1. s # at
    BY SectorsFacts
  <2> QED
    BY <1>2, <1>3, <2>1
<1>6. CallOK'
  BY <1>1, <1>2, <1>5 DEF CallOK, Appending, Settled
<1> QED
  BY <1>3, <1>4, <1>6 DEF Inv

LEMMA FormatMagicFacts ==
    ASSUME Inv, FormatMagic
    PROVE  /\ pc = "formatmagic" /\ at \in Sectors /\ flash' = [flash EXCEPT ![at] = Formatted]
           /\ FlashOK' /\ flash'[at] = Formatted /\ \A t \in Sectors : t # at => flash'[t] = flash[t]
           /\ \A s \in Sectors : s < at + 1 => flash'[s] = Formatted
           /\ blob' = blob /\ clock' = clock /\ count' = count
           /\ at < NSectors => pc' = "format" /\ at' = at + 1 /\ db' = db /\ cleaning' = cleaning
           /\ ~(at < NSectors) => /\ pc' = "ready" /\ at' = 0 /\ cleaning' = FALSE
                                  /\ db'.cur \in CurType /\ db' \in DbType
                                  /\ db'.cur.addr = 1 /\ db'.cur.store = "EMPTY" /\ db'.cur.n = 0
                                  /\ db'.cur.data = Room /\ db'.cur.remain = Room
                                  /\ db'.cur.endStat = <<"UNUSED", "UNUSED">>
                                  /\ db'.oldest = 1
                                  /\ \A s \in Sectors : flash'[s] = Formatted
<1>1. /\ pc = "formatmagic" /\ flash' = [flash EXCEPT ![at] = Formatted]
      /\ pc' = IF at < NSectors THEN "format" ELSE "ready"
      /\ blob' = blob /\ clock' = clock /\ count' = count
  BY DEF FormatMagic, Put
<1>2. at \in Sectors /\ \A s \in Sectors : s < at => flash[s] = Formatted
  BY <1>1 DEF Inv, CallOK
<1>3. FlashOK' /\ flash'[at] = Formatted /\ \A t \in Sectors : t # at => flash'[t] = flash[t]
  BY <1>1, <1>2, BlankSectors, Put_ DEF Inv
<1>4. \A s \in Sectors : s < at + 1 => flash'[s] = Formatted
  <2> SUFFICES ASSUME NEW s \in Sectors, s < at + 1, s # at PROVE s < at
    BY <1>2, <1>3
  <2> QED
    BY <1>2, SectorsFacts
<1>5. at < NSectors => at' = at + 1 /\ db' = db /\ cleaning' = cleaning
  BY DEF FormatMagic
<1>6. CASE ~(at < NSectors)
  <2> DEFINE m == Memory.cur
             c1 == [m EXCEPT !.addr = 1]
             c2 == [c1 EXCEPT !.store = "EMPTY"]
             c3 == [c2 EXCEPT !.start = Unwritten]
             c4 == [c3 EXCEPT !.data = Room]
             cur == [c4 EXCEPT !.remain = Room]
             d1 == [db EXCEPT !.cur = cur]
             d2 == [d1 EXCEPT !.oldest = 1]
  <2>1. at' = 0 /\ cleaning' = FALSE /\ db' = [d2 EXCEPT !.last = 0]
    BY <1>6 DEF FormatMagic, NoSector
  <2>2. /\ m \in CurType /\ m.n = 0 /\ m.endStat = <<"UNUSED", "UNUSED">>
    <3>1. <<"UNUSED", "UNUSED">> \in EndStatPairs
      BY DEF EndStats, EndStatPairs
    <3>2. Room \in Nat /\ NSectors \in Nat
      BY TsdbAssumption
    <3>3. m = [addr |-> NoSector, store |-> "UNUSED", start |-> 0, endStat |-> <<"UNUSED", "UNUSED">>,
               endTime |-> 0, n |-> 0, data |-> 0, remain |-> 0]
      BY DEF Memory
    <3> HIDE DEF m
    <3> QED
      BY <3>1, <3>2, <3>3 DEF CurType, Stores, NoSector
  <2>3. c1 \in CurType /\ c1.addr = 1 /\ c1.n = 0 /\ c1.endStat = <<"UNUSED", "UNUSED">>
    <3>1. 1 \in 0..NSectors
      BY SectorsFacts
    <3> HIDE DEF m
    <3> QED
      BY <2>2, <3>1 DEF CurType
  <2>4. "EMPTY" \in Stores /\ Unwritten \in Int /\ Room \in Int /\ Room \in 0..Room
    BY TsdbAssumption DEF Stores, Unwritten
  <2>5. c2 \in CurType /\ c2.addr = 1 /\ c2.n = 0 /\ c2.endStat = <<"UNUSED", "UNUSED">> /\ c2.store = "EMPTY"
    <3> HIDE DEF c1
    <3> QED BY <2>3, <2>4, CurWith DEF CurType
  <2>6. c3 \in CurType /\ c3.addr = 1 /\ c3.n = 0 /\ c3.endStat = <<"UNUSED", "UNUSED">> /\ c3.store = "EMPTY"
    <3> HIDE DEF c2
    <3> QED BY <2>4, <2>5, CurWith DEF CurType
  <2>7. c4 \in CurType /\ c4.addr = 1 /\ c4.n = 0 /\ c4.endStat = <<"UNUSED", "UNUSED">> /\ c4.store = "EMPTY"
        /\ c4.data = Room
    <3> HIDE DEF c3
    <3> QED BY <2>4, <2>6, CurWith DEF CurType
  <2>8. cur \in CurType /\ cur.addr = 1 /\ cur.n = 0 /\ cur.endStat = <<"UNUSED", "UNUSED">> /\ cur.store = "EMPTY"
        /\ cur.data = Room /\ cur.remain = Room
    <3> HIDE DEF c4
    <3> QED BY <2>4, <2>7, CurWith DEF CurType
  <2>9. d1 \in DbType /\ d1.cur = cur
    <3> HIDE DEF cur
    <3> QED BY <2>8, CurType_, DbWith DEF Inv
  <2>10. d2 \in DbType /\ d2.cur = cur /\ d2.oldest = 1
    <3>1. 1 \in 0..NSectors
      BY SectorsFacts
    <3> HIDE DEF d1, cur
    <3> QED BY <2>9, <3>1 DEF DbType
  <2>11. db' \in DbType /\ db'.cur = cur /\ db'.oldest = 1
    <3> HIDE DEF d2, cur
    <3>1. d2 \in DbType /\ cur \in CurType /\ 0 \in Int
      BY <2>8, <2>10
    <3>2. [d2 EXCEPT !.last = 0] \in DbType /\ [d2 EXCEPT !.last = 0].cur = d2.cur
          /\ [d2 EXCEPT !.last = 0].oldest = d2.oldest
      BY <3>1, DbWith
    <3> QED
      BY <2>1, <2>10, <3>2
  <2>12. \A s \in Sectors : flash'[s] = Formatted
    <3> SUFFICES ASSUME NEW s \in Sectors PROVE s < at + 1
      BY <1>4
    <3>1. at \in 1..NSectors /\ s \in 1..NSectors /\ NSectors \in Nat
      BY <1>2, SectorsFacts
    <3> QED
      BY <1>6, <3>1
  <2> HIDE DEF cur
  <2> QED
    BY <1>1, <1>2, <1>3, <1>4, <1>6, <2>1, <2>8, <2>11, <2>12
<1> QED
  BY <1>1, <1>2, <1>3, <1>4, <1>5, <1>6

LEMMA FormatMagicInv ==
    ASSUME Inv, FormatMagic
    PROVE  Inv'
<1>1. CASE at < NSectors
  <2>1. /\ pc' = "format" /\ at' = at + 1 /\ db' = db /\ cleaning' = cleaning /\ at \in Sectors
        /\ blob' = blob /\ clock' = clock /\ count' = count /\ FlashOK'
        /\ \A s \in Sectors : s < at' => flash'[s] = Formatted
    BY <1>1, FormatMagicFacts
  <2>2. at' \in Sectors /\ at' \in 0..NSectors
    BY <1>1, <2>1, SectorsFacts
  <2>3. MemoryOK'
    BY <2>1, <2>2 DEF Inv, MemoryOK, Pcs
  <2>4. CallOK'
    BY <2>1, <2>2 DEF CallOK, Appending, Settled
  <2> QED
    BY <2>1, <2>3, <2>4 DEF Inv
<1>2. CASE ~(at < NSectors)
  <2>1. /\ pc' = "ready" /\ at' = 0 /\ cleaning' = FALSE /\ db' \in DbType
        /\ db'.cur.addr = 1 /\ db'.cur.store = "EMPTY" /\ db'.cur.n = 0
        /\ db'.cur.data = Room /\ db'.cur.remain = Room
        /\ blob' = blob /\ clock' = clock /\ count' = count /\ FlashOK'
        /\ flash'[1] = Formatted /\ 1 \in Sectors
    BY <1>2, FormatMagicFacts, SectorsFacts
  <2>2. MemoryOK'
    <3>1. 0 \in 0..NSectors
      BY TsdbAssumption
    <3> QED
      BY <2>1, <3>1 DEF Inv, MemoryOK, Pcs
  <2>3. CallOK'
    <3>1. Cur' = 1 /\ flash'[Cur'] = Formatted
      BY <2>1 DEF Cur
    <3>2. Knows(db'.cur, Formatted)
      BY <2>1, BlankSectors, EmptyRoom DEF Knows
    <3> QED
      BY <2>1, <3>1, <3>2, BlankSectors DEF CallOK, Appending, Settled
  <2> QED
    BY <2>1, <2>2, <2>3 DEF Inv
<1> QED
  BY <1>1, <1>2

LEMMA SetRolloverInv ==
    ASSUME Inv, SetRollover
    PROVE  Inv'
<1>1. /\ pc = "ready" /\ pc' = "ready" /\ db' = [db EXCEPT !.rollover = ~@]
      /\ flash' = flash /\ at' = at /\ cleaning' = cleaning /\ blob' = blob /\ clock' = clock /\ count' = count
  BY DEF SetRollover
<1>2. FlashOK'
  BY <1>1, FlashKept DEF Inv
<1>3. db' \in DbType /\ db'.cur = db.cur
  <2>1. db \in DbType
    BY CurType_ DEF Inv
  <2> QED
    BY <1>1, <2>1 DEF DbType
<1>4. MemoryOK'
  BY <1>1, <1>3 DEF Inv, MemoryOK
<1>5. CallOK'
  <2>1. /\ Cur \in Sectors /\ flash[Cur].store \in {"EMPTY", "USING"} /\ Knows(db.cur, flash[Cur])
    BY <1>1 DEF Inv, CallOK, Appending, Settled
  <2>2. Cur' = Cur
    BY <1>3 DEF Cur
  <2> QED
    BY <1>1, <1>3, <2>1, <2>2 DEF CallOK, Appending, Settled
<1> QED
  BY <1>2, <1>4, <1>5 DEF Inv

LEMMA StopInv ==
    ASSUME Inv, StartAsserts \/ StartFindsNone
    PROVE  Inv'
<1>1. /\ pc' \in {"assert", "nosector"} /\ db' = db
      /\ flash' = flash /\ at' = at /\ cleaning' = cleaning /\ blob' = blob /\ clock' = clock /\ count' = count
  BY DEF StartAsserts, StartFindsNone
<1>2. FlashOK'
  BY <1>1, FlashKept DEF Inv
<1>3. MemoryOK'
  BY <1>1 DEF Inv, MemoryOK, Pcs
<1>4. CallOK'
  BY <1>1 DEF CallOK, Appending, Settled
<1> QED
  BY <1>2, <1>3, <1>4 DEF Inv

(* The sectors a start chooses.                                            *)
LEMMA ChosenSectors ==
    ASSUME Using \union Empty # {}
    PROVE  /\ CurSec \in Using \union Empty /\ CurSec \in Sectors
           /\ Latest \in Using \union Empty /\ Latest \in Sectors
<1>1. Using \subseteq Nat /\ Empty \subseteq Nat /\ Empty \subseteq 0..NSectors /\ NSectors \in Nat
      /\ Using \subseteq Sectors /\ Empty \subseteq Sectors
  BY SectorsFacts DEF Using, Empty
<1>2. Using # {} => Lowest(Using) \in Using
  BY <1>1, LowestIn
<1>3. Empty # {} => Lowest(Empty) \in Empty /\ Highest(Empty) \in Empty
  BY <1>1, LowestIn, HighestIn
<1> QED
  BY <1>1, <1>2, <1>3 DEF CurSec, Latest

LEMMA StartFacts ==
    ASSUME Inv, NEW old \in {0} \union {EndInfo(s).time : s \in Sectors}, Start(old)
    PROVE  /\ pc = "off" /\ pc' = "ready" /\ Failed = {} /\ Using \union Empty # {}
           /\ \A s \in Sectors : ~NoEndNode(s)
           /\ flash' = flash /\ at' = at /\ cleaning' = FALSE /\ blob' = blob /\ clock' = clock /\ count' = count
           /\ db' \in DbType /\ db'.cur.addr = CurSec /\ db'.oldest = After(Latest)
           /\ flash[CurSec].store \in {"EMPTY", "USING"} /\ Knows(db'.cur, flash[CurSec])
           /\ db'.cur.endStat = <<flash[CurSec].end[1].st, flash[CurSec].end[2].st>>
<1> DEFINE cur == SectorInfo(CurSec, TRUE, old)
           before == SectorInfo(Before(CurSec), FALSE, old)
           last == CASE cur.store = "USING" -> cur.endTime
                     [] cur.store = "EMPTY" /\ After(Latest) # CurSec -> before.endTime
                     [] OTHER -> db.last
<1>1. /\ pc = "off" /\ pc' = "ready" /\ Failed = {} /\ Using \union Empty # {}
      /\ \A s \in Sectors : ~NoEndNode(s)
      /\ flash' = flash /\ at' = at /\ cleaning' = FALSE /\ blob' = blob /\ clock' = clock /\ count' = count
      /\ db' = [cur |-> cur, oldest |-> After(Latest), rollover |-> TRUE, last |-> last]
  BY DEF Start
<1>2. old \in Int
  <2>1. ASSUME NEW s \in Sectors PROVE EndInfo(s).time \in Int
    <3>1. flash[s] \in SectorType
      BY DEF Inv, FlashOK
    <3> QED
      BY <3>1 DEF SectorType, EndInfo, EndType
  <2> QED
    BY <2>1
<1>3. CurSec \in Sectors /\ flash[CurSec].store \in {"EMPTY", "USING"} /\ Latest \in Sectors
  BY <1>1, ChosenSectors DEF Using, Empty
<1>4. /\ cur \in CurType /\ cur.addr = CurSec /\ Knows(cur, flash[CurSec]) /\ cur.store = flash[CurSec].store
      /\ cur.endStat = <<flash[CurSec].end[1].st, flash[CurSec].end[2].st>>
  <2>1. FlashOK /\ TRUE \in BOOLEAN
    BY DEF Inv
  <2>2. ASSUME NEW s \in Sectors, flash[s].store \in {"EMPTY", "USING"}
        PROVE  LET info == SectorInfo(s, TRUE, old)
               IN  /\ info \in CurType /\ info.addr = s /\ Knows(info, flash[s]) /\ info.store = flash[s].store
                   /\ info.endStat = <<flash[s].end[1].st, flash[s].end[2].st>>
    BY <1>2, <2>1, <2>2, SectorInfoFacts
  <2> QED
    BY <1>3, <2>2
<1>5. before \in CurType
  <2>1. FlashOK /\ FALSE \in BOOLEAN /\ Before(CurSec) \in Sectors
    BY <1>3, SectorsFacts DEF Inv
  <2> QED
    BY <1>2, <2>1, SectorInfoFacts
<1>6. last \in Int
  <2>1. db.last \in Int /\ cur.endTime \in Int /\ before.endTime \in Int
    <3> HIDE DEF cur, before
    <3> QED
      BY <1>4, <1>5, CurType_ DEF Inv, CurType
  <2> HIDE DEF cur, before
  <2> QED
    BY <2>1, <1>4, <1>3
<1> HIDE DEF cur, before, last
<1>7. db' \in DbType /\ db'.cur = cur /\ db'.oldest = After(Latest)
  <2>1. After(Latest) \in 0..NSectors
    BY <1>3, SectorsFacts
  <2> QED
    BY <1>1, <1>4, <1>6, <2>1 DEF DbType
<1> QED
  BY <1>1, <1>3, <1>4, <1>7

LEMMA StartInv ==
    ASSUME Inv, NEW old \in {0} \union {EndInfo(s).time : s \in Sectors}, Start(old)
    PROVE  Inv'
<1>1. /\ pc' = "ready" /\ flash' = flash /\ at' = at /\ cleaning' = FALSE
      /\ blob' = blob /\ clock' = clock /\ count' = count
      /\ db' \in DbType /\ db'.cur.addr = CurSec /\ CurSec \in Sectors
      /\ flash[CurSec].store \in {"EMPTY", "USING"} /\ Knows(db'.cur, flash[CurSec])
  BY StartFacts, ChosenSectors
<1>2. FlashOK'
  BY <1>1, FlashKept DEF Inv
<1>3. MemoryOK'
  BY <1>1 DEF Inv, MemoryOK, Pcs
<1>4. CallOK'
  <2>1. Cur' = CurSec
    BY <1>1 DEF Cur
  <2> QED
    BY <1>1, <2>1 DEF CallOK, Appending, Settled
<1> QED
  BY <1>2, <1>3, <1>4 DEF Inv

LEMMA CrashInv ==
    ASSUME Inv, Crash
    PROVE  Inv'
<1>1. /\ pc' = "off" /\ db' = Memory /\ blob' = NoBlob /\ at' = 0
      /\ flash' = flash /\ clock' = clock /\ count' = count /\ cleaning' = cleaning
  BY DEF Crash, NoSector
<1>2. FlashOK'
  BY <1>1, FlashKept DEF Inv
<1>3. MemoryOK'
  BY <1>1, MemoryType, SectorsFacts DEF Inv, MemoryOK, Pcs
<1>4. CallOK'
  BY <1>1 DEF CallOK, Appending, Settled
<1> QED
  BY <1>2, <1>3, <1>4 DEF Inv

LEMMA DeinitInv ==
    ASSUME Inv, Deinit
    PROVE  Inv'
<1>1. /\ pc = "ready" /\ pc' = "off" /\ db' = [Memory EXCEPT !.last = db.last]
      /\ flash' = flash /\ blob' = blob /\ clock' = clock /\ count' = count
      /\ at' = at /\ cleaning' = cleaning
  BY DEF Deinit
<1>2. FlashOK'
  BY <1>1, FlashKept DEF Inv
<1>3. db' \in DbType
  <2>1. db.last \in Int /\ Memory \in DbType
    BY MemoryType, CurType_ DEF Inv, DbType
  <2> QED
    BY <1>1, <2>1 DEF DbType
<1>4. MemoryOK'
  BY <1>1, <1>3 DEF Inv, MemoryOK, Pcs
<1>5. CallOK'
  BY <1>1 DEF CallOK, Appending, Settled
<1> QED
  BY <1>2, <1>4, <1>5 DEF Inv

LEMMA StepInv ==
    ASSUME Inv, [Next]_vars
    PROVE  Inv'
<1>1. ASSUME NEW size \in Sizes, NEW step \in Steps, Append_(size, step) PROVE Inv'
  BY <1>1, AppendInv
<1>2. ASSUME NEW old \in {0} \union {EndInfo(s).time : s \in Sectors}, Start(old) PROVE Inv'
  BY <1>2, StartInv
<1>3. CASE UNCHANGED vars
  <2>1. FlashOK'
    BY <1>3, FlashKept DEF Inv, vars
  <2>2. MemoryOK'
    BY <1>3 DEF Inv, MemoryOK, vars
  <2>3. CallOK'
    BY <1>3 DEF Inv, CallOK, Appending, Settled, Knows, HalfWritten, BlobNode, Fits, FreeEnd, Cur, vars
  <2> QED
    BY <2>1, <2>2, <2>3 DEF Inv
<1> QED
  BY <1>1, <1>2, <1>3, EndPreWriteInv, EndWriteInv, SectorFullInv, EraseNextInv, FormatNextInv,
     SectorUsingInv, StartTimeInv, PreWriteInv, WriteInv, CleanInv, FormatEraseInv, FormatMagicInv,
     SetRolloverInv, StartFormatsInv, StopInv, DeinitInv, CrashInv DEF Next

(* In every state the sectors and the memory are of their types, a blob    *)
(* lies below those before it and above the nodes, and what the running    *)
(* call believes of the current sector is what the flash holds.            *)
THEOREM Invariant == Spec => []Inv
<1>1. Init => Inv
  BY InitInv
<1>2. Inv /\ [Next]_vars => Inv'
  BY StepInv
<1> QED
  BY <1>1, <1>2, PTL DEF Spec

(* No blob is written over another one or over the index (write_tsl after  *)
(* read_sector_info), whenever the power fails.                            *)
THEOREM ConsistentAlways == Spec => []Consistent
<1>1. Inv => Consistent
  <2> SUFFICES ASSUME Inv PROVE Consistent
    OBVIOUS
  <2>1. TypeOK
    <3>1. \A s \in Sectors : /\ flash[s].ok \in BOOLEAN
                             /\ flash[s].store \in {"UNUSED", "EMPTY", "USING", "FULL"}
                             /\ flash[s].log \in Seq(Node)
      BY DEF Inv, FlashOK, SectorType, Stores
    <3>2. db.cur.addr \in Sectors \union {NoSector}
      <4>1. Cur \in 0..NSectors
        BY CurType_ DEF Inv
      <4> QED
        BY <4>1, TsdbAssumption DEF Cur, NoSector, Sectors
    <3>3. db.cur.remain \in 0..Room /\ db.cur.n \in 0..Room
      BY CurType_ DEF Inv
    <3>4. pc \in Pcs
      BY DEF Inv, MemoryOK
    <3> QED
      BY <3>1, <3>2, <3>3, <3>4 DEF TypeOK, Pcs
  <2>2. DataApart
    <3> SUFFICES ASSUME NEW s \in Sectors, NEW i \in DOMAIN flash[s].log
                 PROVE  /\ flash[s].log[i].addr >= Len(flash[s].log)
                        /\ i > 1 => flash[s].log[i].addr + flash[s].log[i].size <= flash[s].log[i - 1].addr
      BY DEF DataApart
    <3> DEFINE log == flash[s].log
    <3>1. log \in Seq(Node) /\ Placed(log)
      BY DEF Inv, FlashOK, SectorType, SectorOK
    <3>2. i \in 1..Len(log) /\ Len(log) \in Nat
      BY <3>1, LenProperties
    <3>3. log[i].addr >= Len(log) /\ log[i].addr = DataBelow(log, i - 1) - log[i].size
      BY <3>1 DEF Placed
    <3>4. ASSUME i > 1 PROVE log[i].addr + log[i].size <= log[i - 1].addr
      <4> HIDE DEF log
      <4>1. i - 1 \in 1..Len(log) /\ i - 1 # 0
        BY <3>2, <3>4
      <4>2. log[i] \in Node /\ log[i - 1] \in Node
        BY <3>1, <3>2, <4>1, ElementOfSeq
      <4>3. DataBelow(log, i - 1) = log[i - 1].addr + log[i - 1].size - LenOf(log[i - 1])
        BY <4>1 DEF DataBelow
      <4>4. /\ log[i - 1].addr \in Int /\ log[i - 1].size \in Nat /\ LenOf(log[i - 1]) \in Nat
            /\ log[i - 1].size <= LenOf(log[i - 1])
        BY <4>2, LenOfNode
      <4>5. log[i].addr \in Int /\ log[i].size \in Nat
        BY <4>2, LenOfNode
      <4> QED
        BY <3>3, <4>3, <4>4, <4>5
    <3> QED
      BY <3>3, <3>4
  <2> QED
    BY <2>1, <2>2 DEF Consistent
<1> QED
  BY <1>1, Invariant, PTL

-----------------------------------------------------------------------------
(* The order of the logs in the ring.  When c is the last sector written,  *)
(* the oldest logs follow it: s comes before t in the order of the appends *)
(* when s is behind c and t is not, or when both are on the same side.     *)
Ahead(c, s, t) == \/ (s > c <=> t > c) /\ s < t
                  \/ s > c /\ ~(t > c)

Ordered(f, c) ==
    \A s, t \in Sectors :
        \A i \in DOMAIN f[s].log, j \in DOMAIN f[t].log :
            (s = t /\ i < j) \/ Ahead(c, s, t) => f[s].log[i].id < f[t].log[j].id

(* The ring from the current sector c on: the EMPTY sectors up to e, which *)
(* lies before the oldest one; every other sector is FULL.                 *)
Good(f, c, e) ==
    /\ c \in Sectors /\ e \in Sectors /\ c <= e
    /\ f[c].store \in {"EMPTY", "USING"}
    /\ \A s \in Sectors : s # c => f[s].store = (IF c < s /\ s <= e THEN "EMPTY" ELSE "FULL")
    /\ Ordered(f, c)

AllFull(f) == \A s \in Sectors : f[s].store = "FULL"

(* While the ring is formatted: c is the sector the logs had come to.      *)
Partial(f, c) ==
    /\ c \in Sectors
    /\ f[c].store # "FULL"
    /\ \A s \in Sectors : f[s].store = "USING" => s = c
    /\ \A s, t \in Sectors : c < s /\ s < t /\ f[s].store = "FULL" => f[t].store = "FULL"
    /\ Ordered(f, c)

(* The user wants an empty database, or it never held a log.               *)
Discard == cleaning \/ \A s \in Sectors : flash[s].log = <<>>

Calm == {"ready", "endpre", "endwrite", "full", "using", "start", "pre", "write"}
Stopped == {"off", "assert", "nosector"}

RingOK ==
    /\ pc \in Calm => db.oldest \in Sectors /\ Good(flash, Cur, Before(db.oldest))
    /\ pc = "erase" => AllFull(flash) /\ Ordered(flash, Before(Cur)) /\ db.oldest = After(Cur)
    /\ pc = "magic" => /\ \A s \in Sectors : s # Cur => flash[s].store = "FULL"
                       /\ Ordered(flash, Cur) /\ db.oldest = After(Cur)
    /\ pc \in Stopped => \/ AllFull(flash)
                         \/ \E c, e \in Sectors : Good(flash, c, e)
                         \/ Discard /\ ~Split /\ \E c \in Sectors : Partial(flash, c)
    /\ pc \in {"format", "formatmagic"} => Discard /\ \E c \in Sectors : Partial(flash, c)
    /\ pc = "formatmagic" => flash[at] = Erased

(* An end node that a reader may believe, and a header without one.        *)
EndOf(sec) == IF sec.end[1].st = "WRITE" THEN sec.end[1] ELSE sec.end[2]
Closed(sec) == EndOf(sec).st = "WRITE" /\ EndOf(sec).idx = Len(sec.log)
Open(sec) == \A i \in {1, 2} : sec.end[i].st # "WRITE"

EndsOK ==
    /\ \A s \in Sectors : /\ flash[s].store = "FULL" => Closed(flash[s])
                          /\ flash[s].store = "USING" => Open(flash[s]) \/ (pc = "full" /\ s = Cur)
    /\ pc = "full" => Closed(flash[Cur])
    /\ pc \in {"ready", "using", "start", "pre", "write"} => FreeEnd # {}

(* The ids of the logs, of which the running call writes the next one.     *)
IdsOK ==
    \A s \in Sectors : \A i \in DOMAIN flash[s].log :
        /\ flash[s].log[i].id <= count
        /\ pc \in Appending \ {"write"} => flash[s].log[i].id < count

RingInv == RingOK /\ EndsOK /\ IdsOK

(* What a step leaves of the logs.                                         *)
Fewer(f, g) ==
    \A s \in Sectors : \A i \in DOMAIN g[s].log :
        i \in DOMAIN f[s].log /\ g[s].log[i].id = f[s].log[i].id

LEMMA OrderedKept ==
    ASSUME NEW f, NEW g, NEW c, NEW d, Ordered(f, c), Fewer(f, g),
           \A s, t \in Sectors : DOMAIN g[s].log # {} /\ DOMAIN g[t].log # {} /\ Ahead(d, s, t) => Ahead(c, s, t)
    PROVE  Ordered(g, d)
<1> SUFFICES ASSUME NEW s \in Sectors, NEW t \in Sectors,
                    NEW i \in DOMAIN g[s].log, NEW j \in DOMAIN g[t].log,
                    (s = t /\ i < j) \/ Ahead(d, s, t)
             PROVE  g[s].log[i].id < g[t].log[j].id
  BY DEF Ordered
<1>1. (s = t /\ i < j) \/ Ahead(c, s, t)
  OBVIOUS
<1>2. i \in DOMAIN f[s].log /\ j \in DOMAIN f[t].log /\ g[s].log[i].id = f[s].log[i].id /\ g[t].log[j].id = f[t].log[j].id
  BY DEF Fewer
<1> QED
  BY <1>1, <1>2 DEF Ordered

LEMMA GoodKept ==
    ASSUME NEW f, NEW g, NEW c, NEW e, Good(f, c, e), Fewer(f, g),
           \A s \in Sectors : g[s].store = f[s].store \/ (s = c /\ g[s].store \in {"EMPTY", "USING"})
    PROVE  Good(g, c, e)
<1>1. Ordered(g, c)
  BY OrderedKept DEF Good
<1> QED
  BY <1>1 DEF Good

(* A sector without logs may become the last one written, or cease to be.  *)
LEMMA OrderedNext ==
    ASSUME NEW f, NEW g, NEW c \in Sectors, Ordered(f, Before(c)), Fewer(f, g), DOMAIN g[c].log = {}
    PROVE  Ordered(g, c)
<1>1. NSectors \in Nat /\ c \in 1..NSectors /\ Sectors = 1..NSectors
  BY SectorsFacts
<1>2. \A s, t \in Sectors : s # c /\ t # c /\ Ahead(c, s, t) => Ahead(Before(c), s, t)
  BY <1>1 DEF Ahead, Before
<1> QED
  BY <1>2, OrderedKept

LEMMA FewerSame ==
    ASSUME NEW f, NEW g, \A s \in Sectors : g[s].log = f[s].log \/ DOMAIN g[s].log = {}
    PROVE  Fewer(f, g)
BY DEF Fewer

(* The newest log goes to the end of the last sector.                      *)
LEMMA OrderedAppend ==
    ASSUME NEW f, NEW g, NEW c \in Sectors, NEW node \in Node, NEW sec \in SectorType,
           Ordered(f, c), f \in [Sectors -> SectorType], g \in [Sectors -> SectorType],
           sec.log = Append(f[c].log, node), g[c] = sec, \A s \in Sectors : s # c => g[s] = f[s],
           \A s \in Sectors : \A i \in DOMAIN f[s].log : f[s].log[i].id < node.id
    PROVE  Ordered(g, c)
<1> DEFINE n == Len(f[c].log)
<1>1. f[c].log \in Seq(Node)
  BY DEF SectorType
<1>2. n \in Nat /\ DOMAIN f[c].log = 1..n /\ DOMAIN g[c].log = 1..(n + 1) /\ g[c].log[n + 1] = node
      /\ \A i \in 1..n : g[c].log[i] = f[c].log[i]
  BY <1>1, AppendProperties, LenProperties
<1>3. SUFFICES ASSUME NEW s \in Sectors, NEW t \in Sectors,
                      NEW i \in DOMAIN g[s].log, NEW j \in DOMAIN g[t].log,
                      (s = t /\ i < j) \/ Ahead(c, s, t)
               PROVE  g[s].log[i].id < g[t].log[j].id
  BY DEF Ordered
<1>4. s = c => t = c
  <2>1. c \in Nat /\ t \in Nat
    BY SectorsFacts
  <2> QED
    BY <1>3, <2>1 DEF Ahead
<1>5. ~(s = c /\ i = n + 1)
  <2> SUFFICES ASSUME s = c, i = n + 1 PROVE FALSE
    OBVIOUS
  <2>1. t = c /\ j \in 1..(n + 1) /\ c \in Nat
    BY <1>2, <1>4, SectorsFacts
  <2>2. ~Ahead(c, s, t)
    BY <2>1 DEF Ahead
  <2> HIDE DEF n
  <2> QED
    BY <1>2, <1>3, <2>1, <2>2
<1>6. i \in DOMAIN f[s].log /\ g[s].log[i] = f[s].log[i]
  <2> HIDE DEF n
  <2>1. CASE s = c
    BY <1>2, <1>5, <2>1
  <2> QED
    BY <2>1
<1>7. CASE t = c /\ j = n + 1
  BY <1>2, <1>6, <1>7
<1>8. CASE ~(t = c /\ j = n + 1)
  <2>1. j \in DOMAIN f[t].log /\ g[t].log[j] = f[t].log[j]
    <3> HIDE DEF n
    <3>1. CASE t = c
      BY <1>2, <1>8, <3>1
    <3> QED
      BY <3>1
  <2> QED
    BY <1>3, <1>6, <2>1 DEF Ordered
<1> QED
  BY <1>7, <1>8

-----------------------------------------------------------------------------
LEMMA RingInit ==
    ASSUME Init
    PROVE  RingInv
<1>1. pc = "off" /\ flash = [s \in Sectors |-> Erased] /\ \A s \in Sectors : flash[s] = Erased
  BY DEF Init
<1>2. \A s \in Sectors : flash[s].log = <<>> /\ flash[s].store = "UNUSED" /\ ~flash[s].ok
  BY <1>1, BlankSectors
<1>3. 1 \in Sectors
  BY TsdbAssumption DEF Sectors
<1>4. Partial(flash, 1) /\ Discard /\ ~Split
  <2>1. Ordered(flash, 1)
    BY <1>2 DEF Ordered
  <2> QED
    BY <1>2, <1>3, <2>1 DEF Partial, Discard, Split
<1>5. RingOK
  BY <1>1, <1>3, <1>4 DEF RingOK, Calm, Stopped
<1>6. EndsOK /\ IdsOK
  BY <1>1, <1>2 DEF EndsOK, IdsOK
<1> QED
  BY <1>5, <1>6 DEF RingInv

LEMMA IdNat ==
    ASSUME FlashOK, NEW s \in Sectors, NEW i \in DOMAIN flash[s].log
    PROVE  flash[s].log[i] \in Node /\ flash[s].log[i].id \in Nat
<1>1. flash[s].log \in Seq(Node)
  BY DEF FlashOK, SectorType
<1>2. flash[s].log[i] \in Node
  BY <1>1, LenProperties, ElementOfSeq
<1> QED
  BY <1>2 DEF Node

LEMMA CalmStep ==
    ASSUME RingOK, pc \in Calm, pc' \in Calm, Cur' = Cur, db'.oldest = db.oldest, Fewer(flash, flash'),
           \A s \in Sectors : flash'[s].store = flash[s].store \/ (s = Cur /\ flash'[s].store \in {"EMPTY", "USING"})
    PROVE  RingOK'
<1>1. Good(flash, Cur, Before(db.oldest)) /\ db.oldest \in Sectors
  BY DEF RingOK
<1>2. Good(flash', Cur, Before(db.oldest))
  BY <1>1, GoodKept
<1>3. pc' \notin {"erase", "magic", "format", "formatmagic"} /\ pc' \notin Stopped
  BY DEF Calm, Stopped
<1> QED
  BY <1>1, <1>2, <1>3 DEF RingOK

LEMMA IdsStep ==
    ASSUME IdsOK, count' = count, Fewer(flash, flash'),
           pc' \in Appending \ {"write"} => pc \in Appending \ {"write"}
    PROVE  IdsOK'
BY DEF IdsOK, Fewer

LEMMA AppendRing ==
    ASSUME Inv, RingInv, NEW size \in Sizes, NEW step \in Steps, Append_(size, step)
    PROVE  RingInv'
<1>1. /\ pc = "ready" /\ flash' = flash /\ db' = db /\ count' = count + 1 /\ pc' = FirstWrite(size)
  BY DEF Append_
<1>2. FreeEnd # {}
  BY <1>1 DEF RingInv, EndsOK
<1>3. pc' \in {"using", "pre", "endpre"}
  BY <1>1, <1>2 DEF FirstWrite
<1>4. RingOK'
  <2>1. Cur' = Cur /\ pc \in Calm /\ pc' \in Calm
    BY <1>1, <1>3 DEF Cur, Calm
  <2>2. Fewer(flash, flash')
    BY <1>1 DEF Fewer
  <2> QED
    BY <1>1, <2>1, <2>2, CalmStep DEF RingInv
<1>5. EndsOK'
  <2>1. FreeEnd' = FreeEnd
    BY <1>1 DEF FreeEnd
  <2> QED
    BY <1>1, <1>2, <1>3, <2>1 DEF RingInv, EndsOK
<1>6. IdsOK'
  <2> SUFFICES ASSUME NEW s \in Sectors, NEW i \in DOMAIN flash[s].log
               PROVE  flash[s].log[i].id < count + 1 /\ flash[s].log[i].id <= count + 1
    BY <1>1 DEF IdsOK
  <2>1. flash[s].log[i].id \in Nat /\ count \in Nat
    BY IdNat DEF Inv, MemoryOK
  <2>2. flash[s].log[i].id <= count
    BY DEF RingInv, IdsOK
  <2> QED
    BY <2>1, <2>2
<1> QED
  BY <1>4, <1>5, <1>6 DEF RingInv

(* A write to the header of the current sector.                            *)
LEMMA HeaderRing ==
    ASSUME Inv, RingInv, NEW sec, flash' = [flash EXCEPT ![Cur] = sec], Cur \in Sectors,
           sec.log = flash[Cur].log, sec.store \in {"EMPTY", "USING"}, Cur' = Cur, db'.oldest = db.oldest,
           pc \in Calm, pc' \in Calm, count' = count,
           pc' \in Appending \ {"write"} => pc \in Appending \ {"write"}
    PROVE  /\ RingOK' /\ IdsOK'
           /\ flash'[Cur] = sec /\ \A s \in Sectors : s # Cur => flash'[s] = flash[s]
<1>1. flash'[Cur] = sec /\ \A s \in Sectors : s # Cur => flash'[s] = flash[s]
  BY DEF Inv, FlashOK
<1>2. \A s \in Sectors : flash'[s].log = flash[s].log
  BY <1>1
<1>3. Fewer(flash, flash')
  BY <1>2 DEF Fewer
<1>4. RingOK'
  BY <1>1, <1>3, CalmStep DEF RingInv
<1>5. IdsOK'
  BY <1>3, IdsStep DEF RingInv
<1> QED
  BY <1>1, <1>4, <1>5

LEMMA EndPreWriteRing ==
    ASSUME Inv, RingInv, EndPreWrite
    PROVE  RingInv'
<1> DEFINE L == Lowest(FreeEnd)
           e == [flash[Cur].end[L] EXCEPT !.st = "PRE_WRITE"]
           sec == [flash[Cur] EXCEPT !.end[L] = e]
<1>1. /\ pc = "endpre" /\ flash' = [flash EXCEPT ![Cur] = sec] /\ pc' = "endwrite"
      /\ db' = db /\ count' = count
  BY DEF EndPreWrite, Put
<1>2. /\ Cur \in Sectors /\ FreeEnd # {} /\ flash[Cur].store = "USING"
  BY <1>1 DEF Inv, CallOK, Appending, Settled
<1>3. SectorOK(flash[Cur]) /\ L \in {1, 2}
  BY <1>2, FreeEndNext DEF Inv, FlashOK
<1>4. e \in EndType /\ e.st = "PRE_WRITE"
  <2>1. flash[Cur].end[L] \in EndType
    BY <1>3 DEF SectorOK, SectorType
  <2> QED
    BY <2>1 DEF EndType, EndStats
<1>5. sec.store = "USING" /\ sec.log = flash[Cur].log /\ sec.end = [flash[Cur].end EXCEPT ![L] = e]
  <2> HIDE DEF e, L
  <2> QED
    BY <1>2, <1>3, <1>4, HeaderOK
<1>6. Open(flash[Cur]) /\ flash[Cur].end \in [{1, 2} -> EndType]
  BY <1>1, <1>2, <1>3 DEF RingInv, EndsOK, SectorOK, SectorType
<1>7. Open(sec)
  <2> HIDE DEF e, L, sec
  <2> QED
    BY <1>3, <1>4, <1>5, <1>6 DEF Open
<1> HIDE DEF sec
<1>8. Cur' = Cur /\ pc \in Calm /\ pc' \in Calm /\ db'.oldest = db.oldest /\ pc \in Appending \ {"write"}
  BY <1>1 DEF Cur, Calm, Appending
<1>9. RingOK' /\ IdsOK' /\ flash'[Cur] = sec /\ \A s \in Sectors : s # Cur => flash'[s] = flash[s]
  BY <1>1, <1>2, <1>5, <1>8, HeaderRing
<1>10. EndsOK'
  BY <1>1, <1>5, <1>7, <1>9 DEF RingInv, EndsOK
<1> QED
  BY <1>9, <1>10 DEF RingInv

LEMMA EndWriteRing ==
    ASSUME Inv, RingInv, EndWrite
    PROVE  RingInv'
<1> DEFINE L == Lowest(FreeEnd)
           e == [st |-> "WRITE", time |-> db.last, idx |-> db.cur.n]
           sec == [flash[Cur] EXCEPT !.end[L] = e]
<1>1. /\ pc = "endwrite" /\ flash' = [flash EXCEPT ![Cur] = sec] /\ pc' = "full"
      /\ db' = db /\ count' = count
  BY DEF EndWrite, Put
<1>2. /\ Cur \in Sectors /\ FreeEnd # {} /\ flash[Cur].store = "USING" /\ Knows(db.cur, flash[Cur])
  BY <1>1 DEF Inv, CallOK, Appending, Settled
<1>3. SectorOK(flash[Cur]) /\ L \in {1, 2}
  BY <1>2, FreeEndNext DEF Inv, FlashOK
<1>4. e \in EndType /\ e.st = "WRITE" /\ e.idx = Len(flash[Cur].log)
  BY <1>2, CurType_ DEF Inv, EndType, EndStats, Knows
<1>5. sec.store = "USING" /\ sec.log = flash[Cur].log /\ sec.end = [flash[Cur].end EXCEPT ![L] = e]
  <2> HIDE DEF e, L
  <2> QED
    BY <1>2, <1>3, <1>4, HeaderOK
<1>6. Open(flash[Cur]) /\ flash[Cur].end \in [{1, 2} -> EndType]
  BY <1>1, <1>2, <1>3 DEF RingInv, EndsOK, SectorOK, SectorType
<1>7. Closed(sec)
  <2> HIDE DEF e, L, sec
  <2>1. CASE L = 1
    BY <1>4, <1>5, <1>6, <2>1 DEF Closed, EndOf
  <2>2. CASE L = 2
    BY <1>4, <1>5, <1>6, <2>2 DEF Closed, EndOf, Open
  <2> QED
    BY <1>3, <2>1, <2>2
<1> HIDE DEF sec
<1>8. Cur' = Cur /\ pc \in Calm /\ pc' \in Calm /\ db'.oldest = db.oldest /\ pc \in Appending \ {"write"}
  BY <1>1 DEF Cur, Calm, Appending
<1>9. RingOK' /\ IdsOK' /\ flash'[Cur] = sec /\ \A s \in Sectors : s # Cur => flash'[s] = flash[s]
  BY <1>1, <1>2, <1>5, <1>8, HeaderRing
<1>10. EndsOK'
  BY <1>1, <1>5, <1>7, <1>8, <1>9 DEF RingInv, EndsOK
<1> QED
  BY <1>9, <1>10 DEF RingInv

LEMMA StartTimeRing ==
    ASSUME Inv, RingInv, StartTime
    PROVE  RingInv'
<1> DEFINE sec == [flash[Cur] EXCEPT !.start = blob.time]
<1>1. /\ pc = "start" /\ flash' = [flash EXCEPT ![Cur] = sec] /\ pc' = "pre"
      /\ db' = db /\ count' = count
  BY DEF StartTime, Put
<1>2. Cur \in Sectors /\ flash[Cur].store = "USING"
  BY <1>1 DEF Inv, CallOK, Appending, Settled
<1>3. flash[Cur] \in SectorType
  BY <1>2 DEF Inv, FlashOK
<1>4. sec.store = "USING" /\ sec.log = flash[Cur].log /\ sec.end = flash[Cur].end
  BY <1>2, <1>3 DEF SectorType
<1>5. Open(flash[Cur])
  BY <1>1, <1>2 DEF RingInv, EndsOK
<1>6. Open(sec)
  BY <1>4, <1>5 DEF Open
<1> HIDE DEF sec
<1>7. Cur' = Cur /\ pc \in Calm /\ pc' \in Calm /\ db'.oldest = db.oldest /\ pc \in Appending \ {"write"}
      /\ FreeEnd' = FreeEnd
  BY <1>1 DEF Cur, Calm, Appending, FreeEnd
<1>8. RingOK' /\ IdsOK' /\ flash'[Cur] = sec /\ \A s \in Sectors : s # Cur => flash'[s] = flash[s]
  BY <1>1, <1>2, <1>4, <1>7, HeaderRing
<1>9. EndsOK'
  BY <1>1, <1>4, <1>6, <1>7, <1>8 DEF RingInv, EndsOK
<1> QED
  BY <1>8, <1>9 DEF RingInv

LEMMA SectorUsingRing ==
    ASSUME Inv, RingInv, SectorUsing
    PROVE  RingInv'
<1> DEFINE sec == [flash[Cur] EXCEPT !.store = "USING"]
<1>1. /\ pc = "using" /\ flash' = [flash EXCEPT ![Cur] = sec] /\ pc' = "start"
      /\ db' = [db EXCEPT !.cur.store = "USING", !.cur.start = blob.time] /\ count' = count
  BY DEF SectorUsing, Put
<1>2. Cur \in Sectors /\ flash[Cur].store = "EMPTY"
  BY <1>1 DEF Inv, CallOK, Appending, Settled
<1>3. flash[Cur] = Formatted /\ Formatted \in SectorType
  BY <1>2, BlankSectors DEF Inv, FlashOK, SectorOK
<1>4. sec.store = "USING" /\ sec.log = flash[Cur].log /\ sec.end = Formatted.end
  BY <1>3 DEF SectorType
<1>5. Open(sec)
  BY <1>4, BlankSectors DEF Open
<1> HIDE DEF sec
<1>6. db'.cur.addr = db.cur.addr /\ db'.oldest = db.oldest /\ db'.cur.endStat = db.cur.endStat
  <2>1. db \in DbType /\ db.cur \in CurType
    BY CurType_ DEF Inv
  <2> QED
    BY <1>1, <2>1 DEF DbType, CurType
<1>7. Cur' = Cur /\ pc \in Calm /\ pc' \in Calm /\ pc \in Appending \ {"write"} /\ FreeEnd' = FreeEnd
  BY <1>1, <1>6 DEF Cur, Calm, Appending, FreeEnd
<1>8. RingOK' /\ IdsOK' /\ flash'[Cur] = sec /\ \A s \in Sectors : s # Cur => flash'[s] = flash[s]
  BY <1>1, <1>2, <1>4, <1>6, <1>7, HeaderRing
<1>9. EndsOK'
  BY <1>1, <1>4, <1>5, <1>7, <1>8 DEF RingInv, EndsOK
<1> QED
  BY <1>8, <1>9 DEF RingInv

(* The next sector becomes the current one: an EMPTY one that lies before  *)
(* e, or the oldest one when c has come to e.                              *)
LEMMA GoodNext ==
    ASSUME NEW f, NEW g, NEW c, NEW e, Good(f, c, e), Fewer(f, g),
           g[c].store = "FULL", \A s \in Sectors : s # c => g[s].store = f[s].store /\ g[s].log = f[s].log,
           f[After(c)].store = "EMPTY" => DOMAIN f[After(c)].log = {}
    PROVE  /\ f[After(c)].store = "EMPTY" => Good(g, After(c), e)
           /\ f[After(c)].store # "EMPTY" => AllFull(g) /\ Ordered(g, c)
<1>0. NSectors \in Nat /\ NSectors >= 2 /\ Sectors = 1..NSectors /\ c \in 1..NSectors /\ e \in 1..NSectors /\ c <= e
      /\ After(c) \in Sectors /\ After(c) # c /\ Before(After(c)) = c
  BY SectorsFacts DEF Good
<1>1. After(c) = IF c < NSectors THEN c + 1 ELSE 1
  BY DEF After
<1>2. \A s \in Sectors : s # c => f[s].store = (IF c < s /\ s <= e THEN "EMPTY" ELSE "FULL")
  BY DEF Good
<1>3. CASE f[After(c)].store = "EMPTY"
  <2>1. c < After(c) /\ After(c) <= e
    BY <1>0, <1>2, <1>3
  <2>2. After(c) = c + 1
    BY <1>0, <1>1, <2>1
  <2>3. Ordered(g, After(c))
    <3>1. Ordered(f, Before(After(c)))
      BY <1>0 DEF Good
    <3>2. DOMAIN g[After(c)].log = {}
      BY <1>0, <1>3
    <3> QED
      BY <1>0, <3>1, <3>2, OrderedNext
  <2>4. ASSUME NEW s \in Sectors, s # After(c)
        PROVE  g[s].store = (IF After(c) < s /\ s <= e THEN "EMPTY" ELSE "FULL")
    <3>1. CASE s = c
      BY <1>0, <2>2, <3>1
    <3>2. CASE s # c
      BY <1>0, <1>2, <2>2, <2>4, <3>2
    <3> QED
      BY <3>1, <3>2
  <2>5. g[After(c)].store = "EMPTY"
    BY <1>0, <1>3
  <2> QED
    BY <1>0, <1>3, <2>1, <2>3, <2>4, <2>5 DEF Good
<1>4. CASE f[After(c)].store # "EMPTY"
  <2>1. c = e
    BY <1>0, <1>1, <1>2, <1>4
  <2>2. AllFull(g)
    BY <1>0, <1>2, <2>1 DEF AllFull
  <2>3. Ordered(g, c)
    BY OrderedKept DEF Good
  <2> QED
    BY <1>4, <2>2, <2>3
<1> QED
  BY <1>3, <1>4

LEMMA SectorFullRing ==
    ASSUME Inv, RingInv, SectorFull
    PROVE  RingInv'
<1> DEFINE next == SectorInfo(After(Cur), FALSE, db.cur.endTime)
           sec == [flash[Cur] EXCEPT !.store = "FULL"]
           e == Before(db.oldest)
<1>1. /\ pc = "full" /\ flash' = [flash EXCEPT ![Cur] = sec] /\ count' = count
      /\ pc' = IF next.store = "EMPTY" THEN "using" ELSE "erase"
      /\ db' = [db EXCEPT !.cur = next, !.oldest = IF next.store = "EMPTY" THEN @ ELSE After(next.addr)]
  BY DEF SectorFull, Put
<1>2. /\ Cur \in Sectors /\ flash[Cur].store = "USING" /\ flash[Cur] \in SectorType
      /\ Closed(flash[Cur]) /\ db.oldest \in Sectors /\ Good(flash, Cur, e)
  BY <1>1 DEF Inv, CallOK, Appending, Settled, RingInv, RingOK, EndsOK, FlashOK, Calm
<1>3. After(Cur) \in Sectors /\ After(Cur) # Cur /\ Before(After(Cur)) = Cur
  BY <1>2, SectorsFacts
<1>4. /\ next \in CurType /\ next.addr = After(Cur) /\ next.store = flash[After(Cur)].store
      /\ next.endStat = <<flash[After(Cur)].end[1].st, flash[After(Cur)].end[2].st>>
  <2>1. db.cur.endTime \in Int /\ FlashOK /\ FALSE \in BOOLEAN
    BY CurType_ DEF Inv
  <2>2. ASSUME NEW s \in Sectors, NEW old \in Int
        PROVE  LET info == SectorInfo(s, FALSE, old)
               IN  /\ info \in CurType /\ info.addr = s /\ info.store = flash[s].store
                   /\ info.endStat = <<flash[s].end[1].st, flash[s].end[2].st>>
    BY <2>1, SectorInfoFacts
  <2> QED
    BY <1>3, <2>1, <2>2
<1>5. sec.store = "FULL" /\ sec.log = flash[Cur].log /\ sec.end = flash[Cur].end
  BY <1>2 DEF SectorType
<1>6. Closed(sec)
  BY <1>2, <1>5 DEF Closed, EndOf
<1> HIDE DEF sec, next, e
<1>7. flash'[Cur] = sec /\ \A s \in Sectors : s # Cur => flash'[s] = flash[s]
  BY <1>1, <1>2 DEF Inv, FlashOK
<1>8. db'.cur = next /\ db'.oldest = IF next.store = "EMPTY" THEN db.oldest ELSE After(After(Cur))
  <2>1. db \in DbType
    BY CurType_ DEF Inv
  <2> QED
    BY <1>1, <1>4, <2>1 DEF DbType
<1>9. Cur' = After(Cur)
  BY <1>4, <1>8 DEF Cur
<1>10. Fewer(flash, flash')
  <2>1. \A s \in Sectors : flash'[s].log = flash[s].log
    BY <1>5, <1>7
  <2> QED
    BY <2>1 DEF Fewer
<1>11. flash[After(Cur)].store = "EMPTY" => flash[After(Cur)] = Formatted
  BY <1>3 DEF Inv, FlashOK, SectorOK
<1>12. /\ flash[After(Cur)].store = "EMPTY" => Good(flash', After(Cur), e)
       /\ flash[After(Cur)].store # "EMPTY" => AllFull(flash') /\ Ordered(flash', Cur)
  <2>1. flash[After(Cur)].store = "EMPTY" => DOMAIN flash[After(Cur)].log = {}
    BY <1>11, BlankSectors
  <2> QED
    BY <1>2, <1>5, <1>7, <1>10, <2>1, GoodNext
<1>13. RingOK'
  <2>1. CASE next.store = "EMPTY"
    BY <1>1, <1>2, <1>4, <1>8, <1>9, <1>12, <2>1 DEF RingOK, Calm, Stopped, e
  <2>2. CASE next.store # "EMPTY"
    BY <1>1, <1>3, <1>4, <1>8, <1>9, <1>12, <2>2 DEF RingOK, Calm, Stopped
  <2> QED
    BY <2>1, <2>2
<1>14. EndsOK'
  <2>1. \A s \in Sectors : s # Cur => flash[s].store # "USING"
    BY <1>2 DEF Good
  <2>2. next.store = "EMPTY" => FreeEnd' # {}
    <3> SUFFICES ASSUME next.store = "EMPTY" PROVE next.endStat[1] = "UNUSED"
      BY <1>8 DEF FreeEnd
    <3>1. flash[After(Cur)].end[1].st = "UNUSED"
      BY <1>4, <1>11, BlankSectors
    <3> QED
      BY <1>4, <3>1
  <2> QED
    BY <1>1, <1>5, <1>6, <1>7, <2>1, <2>2 DEF RingInv, EndsOK
<1>15. IdsOK'
  BY <1>1, <1>10, IdsStep DEF RingInv, Appending
<1> QED
  BY <1>13, <1>14, <1>15 DEF RingInv

LEMMA EraseNextRing ==
    ASSUME Inv, RingInv, EraseNext
    PROVE  RingInv'
<1>1. /\ pc = "erase" /\ flash' = [flash EXCEPT ![Cur] = Erased] /\ pc' = "magic"
      /\ db' = db /\ count' = count
  BY DEF EraseNext, Put
<1>2. /\ Cur \in Sectors /\ AllFull(flash) /\ Ordered(flash, Before(Cur)) /\ db.oldest = After(Cur)
  BY <1>1 DEF Inv, CallOK, Appending, RingInv, RingOK
<1>3. flash'[Cur] = Erased /\ \A s \in Sectors : s # Cur => flash'[s] = flash[s]
  BY <1>1, <1>2 DEF Inv, FlashOK
<1>4. Fewer(flash, flash') /\ DOMAIN flash'[Cur].log = {}
  <2>1. DOMAIN flash'[Cur].log = {}
    BY <1>3, BlankSectors
  <2> QED
    BY <1>3, <2>1 DEF Fewer
<1>5. Ordered(flash', Cur)
  BY <1>2, <1>4, OrderedNext
<1>6. Cur' = Cur
  BY <1>1 DEF Cur
<1>7. RingOK'
  BY <1>1, <1>2, <1>3, <1>5, <1>6 DEF RingOK, AllFull, Calm, Stopped
<1>8. EndsOK'
  BY <1>1, <1>2, <1>3, BlankSectors DEF RingInv, EndsOK, AllFull
<1>9. IdsOK'
  BY <1>1, <1>4, IdsStep DEF RingInv, Appending
<1> QED
  BY <1>7, <1>8, <1>9 DEF RingInv

LEMMA FormatNextRing ==
    ASSUME Inv, RingInv, FormatNext
    PROVE  RingInv'
<1> DEFINE cur == [db.cur EXCEPT !.store = "EMPTY", !.start = Unwritten, !.n = 0,
                                 !.endStat = <<"UNUSED", "UNUSED">>, !.data = Room, !.remain = Room]
<1>1. /\ pc = "magic" /\ flash' = [flash EXCEPT ![Cur] = Formatted] /\ pc' = "using"
      /\ db' = [db EXCEPT !.cur = cur] /\ count' = count
  BY DEF FormatNext, Put
<1>2. /\ Cur \in Sectors /\ Ordered(flash, Cur) /\ db.oldest = After(Cur)
      /\ \A s \in Sectors : s # Cur => flash[s].store = "FULL"
  BY <1>1 DEF Inv, CallOK, Appending, RingInv, RingOK
<1>3. flash'[Cur] = Formatted /\ \A s \in Sectors : s # Cur => flash'[s] = flash[s]
  BY <1>1, <1>2 DEF Inv, FlashOK
<1>4. cur.addr = Cur /\ cur.endStat[1] = "UNUSED" /\ db'.cur = cur /\ db'.oldest = db.oldest
  <2>1. db \in DbType /\ db.cur \in CurType
    BY CurType_ DEF Inv
  <2>2. cur.addr = Cur /\ cur.endStat = <<"UNUSED", "UNUSED">>
    BY <2>1 DEF CurType, Cur
  <2> HIDE DEF cur
  <2> QED
    BY <1>1, <2>1, <2>2 DEF DbType
<1> HIDE DEF cur
<1>5. Fewer(flash, flash')
  <2>1. DOMAIN flash'[Cur].log = {}
    BY <1>3, BlankSectors
  <2> QED
    BY <1>3, <2>1 DEF Fewer
<1>6. Ordered(flash', Cur)
  BY <1>2, <1>5, OrderedKept
<1>7. Cur' = Cur
  BY <1>4 DEF Cur
<1>8. Good(flash', Cur, Cur)
  <2>1. Cur \in Nat
    BY <1>2, SectorsFacts
  <2> QED
    BY <1>2, <1>3, <1>6, <2>1, BlankSectors DEF Good
<1>9. RingOK'
  <2>1. After(Cur) \in Sectors /\ Before(After(Cur)) = Cur
    BY <1>2, SectorsFacts
  <2> QED
    BY <1>1, <1>2, <1>4, <1>7, <1>8, <2>1 DEF RingOK, Calm, Stopped
<1>10. EndsOK'
  <2>1. FreeEnd' # {}
    BY <1>4 DEF FreeEnd
  <2> QED
    BY <1>1, <1>2, <1>3, <2>1, BlankSectors DEF RingInv, EndsOK
<1>11. IdsOK'
  BY <1>1, <1>5, IdsStep DEF RingInv, Appending
<1> QED
  BY <1>9, <1>10, <1>11 DEF RingInv

LEMMA PreWriteRing ==
    ASSUME Inv, RingInv, PreWrite
    PROVE  RingInv'
<1> DEFINE log == flash[Cur].log
           new == Append(log, BlobNode)
           sec == [flash[Cur] EXCEPT !.log = new]
<1>1. /\ pc = "pre" /\ pc' = "write" /\ flash' = [flash EXCEPT ![Cur] = sec] /\ db' = db /\ count' = count
      /\ Cur \in Sectors /\ flash[Cur].store = "USING" /\ log \in Seq(Node) /\ BlobNode \in Node
      /\ blob.id = count
  BY PreWriteFacts
<1>2. flash[Cur] \in SectorType /\ flash \in [Sectors -> SectorType]
  BY <1>1 DEF Inv, FlashOK
<1>3. BlobNode.id = count /\ count \in Nat
  BY <1>1 DEF BlobNode, Inv, MemoryOK
<1>4. new \in Seq(Node) /\ Len(new) = Len(log) + 1 /\ Len(log) \in Nat /\ DOMAIN log = 1..Len(log)
      /\ DOMAIN new = 1..(Len(log) + 1) /\ new[Len(log) + 1] = BlobNode /\ \A i \in 1..Len(log) : new[i] = log[i]
  BY <1>1, AppendProperties, LenProperties
<1>5. sec \in SectorType /\ sec.store = "USING" /\ sec.log = new /\ sec.end = flash[Cur].end
  <2> HIDE DEF new
  <2> QED
    BY <1>1, <1>2, <1>4 DEF SectorType
<1> HIDE DEF sec
<1>6. flash' \in [Sectors -> SectorType] /\ flash'[Cur] = sec /\ \A s \in Sectors : s # Cur => flash'[s] = flash[s]
  BY <1>1, <1>2, <1>5
<1>7. db.oldest \in Sectors /\ Good(flash, Cur, Before(db.oldest)) /\ Open(flash[Cur]) /\ FreeEnd # {}
  BY <1>1 DEF RingInv, RingOK, Calm, EndsOK
<1>8. \A s \in Sectors : \A i \in DOMAIN flash[s].log : flash[s].log[i].id < BlobNode.id
  BY <1>1, <1>3 DEF RingInv, IdsOK, Appending
<1>9. Ordered(flash', Cur)
  <2>1. Ordered(flash, Cur)
    BY <1>7 DEF Good
  <2>2. sec.log = Append(flash[Cur].log, BlobNode) /\ sec \in SectorType /\ Cur \in Sectors /\ BlobNode \in Node
    BY <1>1, <1>5
  <2> QED
    BY <1>2, <1>6, <1>8, <2>1, <2>2, OrderedAppend
<1>10. Good(flash', Cur, Before(db.oldest))
  BY <1>1, <1>5, <1>6, <1>7, <1>9 DEF Good
<1>11. Cur' = Cur /\ FreeEnd' = FreeEnd
  BY <1>1 DEF Cur, FreeEnd
<1>12. RingOK'
  BY <1>1, <1>7, <1>10, <1>11 DEF RingOK, Calm, Stopped
<1>13. EndsOK'
  <2>1. Open(sec)
    BY <1>5, <1>7 DEF Open
  <2> QED
    BY <1>1, <1>5, <1>6, <1>7, <1>11, <2>1 DEF RingInv, EndsOK
<1>14. IdsOK'
  <2> SUFFICES ASSUME NEW s \in Sectors, NEW i \in DOMAIN flash'[s].log
               PROVE  flash'[s].log[i].id <= count
    BY <1>1 DEF IdsOK
  <2>1. CASE s = Cur /\ i = Len(log) + 1
    BY <1>3, <1>4, <1>5, <1>6, <2>1
  <2>2. CASE ~(s = Cur /\ i = Len(log) + 1)
    <3>1. i \in DOMAIN flash[s].log /\ flash'[s].log[i] = flash[s].log[i]
      <4>1. CASE s = Cur
        <5>1. i \in 1..Len(log)
          BY <1>4, <1>5, <1>6, <2>2, <4>1
        <5> QED
          BY <1>4, <1>5, <1>6, <4>1, <5>1
      <4> QED
        BY <1>6, <4>1
    <3> QED
      BY <3>1 DEF RingInv, IdsOK
  <2> QED
    BY <2>1, <2>2
<1> QED
  BY <1>12, <1>13, <1>14 DEF RingInv

LEMMA WriteRing ==
    ASSUME Inv, RingInv, Write
    PROVE  RingInv'
<1> DEFINE log == flash[Cur].log
           n == db.cur.n
           new == [log EXCEPT ![n + 1].st = "WRITE"]
           sec == [flash[Cur] EXCEPT !.log = new]
<1>1. /\ pc = "write" /\ pc' = "ready" /\ flash' = [flash EXCEPT ![Cur] = sec] /\ count' = count
      /\ Cur \in Sectors /\ flash[Cur].store = "USING" /\ n \in Nat
      /\ log \in Seq(Node) /\ DOMAIN log = 1..(n + 1)
  BY WriteFacts
<1>2. flash[Cur] \in SectorType
  BY <1>1 DEF Inv, FlashOK
<1>3. DOMAIN new = DOMAIN log /\ \A i \in DOMAIN log : new[i].id = log[i].id
  <2>1. log[n + 1] \in Node
    BY <1>1, IdNat DEF Inv
  <2> QED
    BY <1>1, <2>1 DEF Node
<1>4. sec.store = "USING" /\ sec.log = new /\ sec.end = flash[Cur].end
  <2> HIDE DEF new
  <2> QED
    BY <1>1, <1>2 DEF SectorType
<1> HIDE DEF sec, new
<1>5. flash'[Cur] = sec /\ \A s \in Sectors : s # Cur => flash'[s] = flash[s]
  BY <1>1 DEF Inv, FlashOK
<1>6. db'.cur.addr = db.cur.addr /\ db'.cur.endStat = db.cur.endStat /\ db'.oldest = db.oldest
  <2>1. db \in DbType /\ db.cur \in CurType
    BY CurType_ DEF Inv
  <2> QED
    BY <2>1 DEF Write, DbType, CurType
<1>7. Cur' = Cur /\ FreeEnd' = FreeEnd
  BY <1>6 DEF Cur, FreeEnd
<1>8. Fewer(flash, flash')
  BY <1>3, <1>4, <1>5 DEF Fewer
<1>9. RingOK'
  <2>1. pc \in Calm /\ pc' \in Calm
    BY <1>1 DEF Calm
  <2> QED
    BY <1>1, <1>4, <1>5, <1>6, <1>7, <1>8, <2>1, CalmStep DEF RingInv
<1>10. EndsOK'
  <2>1. Open(flash[Cur]) /\ FreeEnd # {}
    BY <1>1 DEF RingInv, EndsOK
  <2>2. Open(sec)
    BY <1>4, <2>1 DEF Open
  <2> QED
    BY <1>1, <1>4, <1>5, <1>7, <2>1, <2>2 DEF RingInv, EndsOK
<1>11. IdsOK'
  BY <1>1, <1>8, IdsStep DEF RingInv, Appending
<1> QED
  BY <1>9, <1>10, <1>11 DEF RingInv

(* A ring in order passes the check of the headers, and the start finds    *)
(* in it the sector where the log goes on and the oldest one.              *)
LEMMA GoodPasses ==
    ASSUME FlashOK, NEW c, NEW e, Good(flash, c, e)
    PROVE  Failed = {} /\ Using \union Empty # {} /\ CurSec = c /\ Latest = e
<1>0. NSectors \in Nat /\ Sectors = 1..NSectors /\ c \in 1..NSectors /\ e \in 1..NSectors /\ c <= e
      /\ Sectors \subseteq Nat /\ c \in Nat /\ e \in Nat
  BY SectorsFacts DEF Good
<1>1. \A s \in Sectors : s # c => flash[s].store = (IF c < s /\ s <= e THEN "EMPTY" ELSE "FULL")
  BY DEF Good
<1>2. flash[c].store \in {"EMPTY", "USING"}
  BY DEF Good
<1>3. \A s \in Sectors : flash[s].ok
  <2> SUFFICES ASSUME NEW s \in Sectors PROVE flash[s].ok
    OBVIOUS
  <2>1. flash[s].store \in {"EMPTY", "USING", "FULL"}
    BY <1>1, <1>2
  <2> QED
    BY <2>1, BlankSectors DEF FlashOK, SectorOK
<1>4. \A s \in Using : s = c
  BY <1>1 DEF Using
<1>5. \A s \in Empty : c <= s /\ s <= e
  BY <1>0, <1>1 DEF Empty
<1>6. Failed = {}
  BY <1>0, <1>3, <1>4, <1>5 DEF Failed, CheckFailed, Using
<1>7. Using \subseteq Nat /\ Empty \subseteq 0..NSectors /\ Empty \subseteq Nat
  BY <1>0 DEF Using, Empty
<1>8. c \in Using \/ c \in Empty
  BY <1>0, <1>2 DEF Using, Empty
<1>9. CurSec = c
  <2>1. CASE Using # {}
    BY <1>4, <1>7, <2>1, LowestIn DEF CurSec
  <2>2. CASE Using = {}
    <3>1. c \in Empty
      BY <1>8, <2>2
    <3>2. Lowest(Empty) \in Empty /\ Lowest(Empty) <= c
      BY <1>7, <3>1, LowestIn
    <3>3. c <= Lowest(Empty) /\ Lowest(Empty) \in Nat
      BY <1>5, <1>7, <3>2
    <3> QED
      BY <1>0, <2>2, <3>2, <3>3 DEF CurSec
  <2> QED
    BY <2>1, <2>2
<1>10. Latest = e
  <2>1. CASE Empty # {}
    <3>1. Highest(Empty) \in Empty /\ \A t \in Empty : Highest(Empty) >= t
      BY <1>0, <1>7, <2>1, HighestIn
    <3>2. Highest(Empty) <= e /\ Highest(Empty) >= c /\ Highest(Empty) \in Nat
      BY <1>5, <1>7, <3>1
    <3>3. c < e => e \in Empty
      BY <1>0, <1>1 DEF Empty
    <3> QED
      BY <1>0, <2>1, <3>1, <3>2, <3>3 DEF Latest
  <2>2. CASE Empty = {}
    <3>1. ~(c < e)
      BY <1>0, <1>1, <2>2 DEF Empty
    <3>2. c \in Using
      BY <1>8, <2>2
    <3>3. Lowest(Using) = c
      BY <1>4, <1>7, <3>2, LowestIn
    <3> QED
      BY <1>0, <2>2, <3>1, <3>3 DEF Latest
  <2> QED
    BY <2>1, <2>2
<1> QED
  BY <1>6, <1>8, <1>9, <1>10

LEMMA AllFullPasses ==
    ASSUME FlashOK, AllFull(flash)
    PROVE  Failed = {} /\ Using \union Empty = {}
<1>1. \A s \in Sectors : flash[s].store = "FULL" /\ flash[s].ok
  BY DEF AllFull, FlashOK, SectorOK
<1> QED
  BY <1>1 DEF Failed, CheckFailed, Using, Empty

(* A power failure during the formatting, unless it leaves a Split ring,   *)
(* leaves one that the start formats again or one in order.                *)
LEMMA PartialPasses ==
    ASSUME FlashOK, Failed = {}, Using \union Empty # {}, NEW c, Partial(flash, c), ~Split
    PROVE  Good(flash, CurSec, Latest)
<1>0. NSectors \in Nat /\ Sectors = 1..NSectors /\ c \in Sectors /\ c \in Nat /\ Sectors \subseteq Nat
  BY SectorsFacts DEF Partial
<1>1. \A s \in Sectors : flash[s].store \in {"EMPTY", "USING", "FULL"}
  <2> SUFFICES ASSUME NEW s \in Sectors PROVE flash[s].store \in {"EMPTY", "USING", "FULL"}
    OBVIOUS
  <2>1. flash[s].ok
    BY DEF Failed, CheckFailed
  <2>2. flash[s].store \in Stores /\ (flash[s].store = "UNUSED" => flash[s] = Erased)
    BY DEF FlashOK, SectorOK, SectorType
  <2> QED
    BY <2>1, <2>2, BlankSectors DEF Stores
<1>2. /\ \A s \in Using : s = c
      /\ \A s, t \in Sectors : c < s /\ s < t /\ flash[s].store = "FULL" => flash[t].store = "FULL"
      /\ Ordered(flash, c)
  BY DEF Partial, Using
<1>3. Using \subseteq Nat /\ Empty \subseteq Nat /\ Empty \subseteq 0..NSectors
  BY <1>0 DEF Using, Empty
<1>4. \A s \in Sectors : flash[s].store = "EMPTY" => DOMAIN flash[s].log = {}
  BY BlankSectors DEF FlashOK, SectorOK
<1>5. Empty # {} => Highest(Empty) \in Empty /\ \A t \in Empty : Highest(Empty) >= t
  BY <1>0, <1>3, HighestIn
<1>6. ASSUME NEW s \in Sectors, c < s, Empty # {}
      PROVE  flash[s].store = IF s <= Highest(Empty) THEN "EMPTY" ELSE "FULL"
  <2>1. s \notin Using
    BY <1>0, <1>2, <1>6
  <2>2. flash[s].store \in {"EMPTY", "FULL"}
    BY <1>1, <2>1 DEF Using
  <2>3. CASE s <= Highest(Empty)
    <3>1. Highest(Empty) \in Sectors /\ flash[Highest(Empty)].store = "EMPTY"
      BY <1>5, <1>6 DEF Empty
    <3>2. flash[s].store # "FULL"
      BY <1>0, <1>2, <1>6, <2>3, <3>1
    <3> QED
      BY <2>2, <2>3, <3>2
  <2>4. CASE ~(s <= Highest(Empty))
    <3>1. s \notin Empty
      BY <1>0, <1>3, <1>5, <1>6, <2>4
    <3> QED
      BY <2>2, <2>4, <3>1 DEF Empty
  <2> QED
    BY <2>3, <2>4
<1>7. CASE Using # {}
  <2>1. c \in Sectors /\ c \in Using
    BY <1>0, <1>2, <1>7
  <2>2. CurSec = c
    BY <1>2, <1>3, <2>1, LowestIn DEF CurSec
  <2>3. ASSUME NEW s \in Sectors, s < c PROVE flash[s].store = "FULL"
    <3>1. s \notin Using \union Empty
      BY <2>1, <2>3 DEF Failed, CheckFailed, Using
    <3> QED
      BY <1>1, <3>1 DEF Using, Empty
  <2>4. CASE Empty # {}
    <3>1. Latest = Highest(Empty) /\ Latest \in Sectors /\ Latest \in Empty
      BY <1>5, <2>4 DEF Latest, Empty
    <3>2. c < Latest
      <4>1. flash[Latest].store = "EMPTY" /\ flash[c].store = "USING"
        BY <2>1, <3>1 DEF Empty, Using
      <4>2. ~(Latest < c) /\ Latest # c
        BY <2>3, <3>1, <4>1
      <4> QED
        BY <1>0, <3>1, <4>2
    <3>3. ASSUME NEW s \in Sectors, s # c
          PROVE  flash[s].store = (IF c < s /\ s <= Latest THEN "EMPTY" ELSE "FULL")
      <4>1. CASE s < c
        BY <1>0, <2>3, <4>1
      <4>2. CASE c < s
        BY <1>6, <2>4, <3>1, <4>2
      <4> QED
        BY <1>0, <3>3, <4>1, <4>2
    <3> QED
      BY <1>0, <1>2, <2>1, <2>2, <3>1, <3>2, <3>3 DEF Good, Using
  <2>5. CASE Empty = {}
    <3>1. Latest = c
      BY <2>2, <2>5, <2>1 DEF Latest, CurSec
    <3>2. ASSUME NEW s \in Sectors, s # c PROVE flash[s].store = "FULL"
      BY <1>1, <1>2, <2>5, <3>2 DEF Using, Empty
    <3> QED
      BY <1>0, <1>2, <2>1, <2>2, <3>1, <3>2 DEF Good, Using
  <2> QED
    BY <2>4, <2>5
<1>8. CASE Using = {}
  <2> DEFINE l == Lowest(Empty)
             h == Highest(Empty)
  <2>1. CurSec = l /\ l \in Empty /\ l \in Sectors /\ \A t \in Empty : l <= t
    BY <1>3, <1>8, LowestIn DEF CurSec, Empty
  <2>2. Latest = h /\ h \in Sectors /\ h \in Empty /\ (\A t \in Empty : t <= h) /\ l <= h
    <3>1. Latest = h /\ h \in Sectors /\ h \in Empty /\ \A t \in Empty : h >= t
      BY <1>5, <2>1 DEF Latest, Empty
    <3> HIDE DEF l, h
    <3> QED
      BY <1>0, <1>3, <2>1, <3>1
  <2> HIDE DEF l, h
  <2>3. c \in Empty /\ l <= c /\ c <= h
    <3>1. flash[c].store \in {"EMPTY", "USING"}
      BY <1>0, <1>1 DEF Partial
    <3>2. c \in Empty
      BY <1>0, <1>8, <3>1 DEF Using, Empty
    <3> QED
      BY <2>1, <2>2, <3>2
  <2>4. \A s \in Sectors : flash[s].ok
    BY DEF Failed, CheckFailed
  <2>5. ASSUME NEW s \in Sectors PROVE flash[s].store = (IF l <= s /\ s <= h THEN "EMPTY" ELSE "FULL")
    <3>1. flash[s].store \in {"EMPTY", "FULL"}
      BY <1>1, <1>8 DEF Using
    <3>2. CASE l <= s /\ s <= h
      <4>1. CASE s = l \/ s = h
        BY <2>1, <2>2, <3>2, <4>1 DEF Empty
      <4>2. CASE s # l /\ s # h
        <5>1. l < s /\ s < h
          BY <1>0, <2>1, <2>2, <3>2, <4>2
        <5>2. flash[s].store # "FULL"
          BY <1>8, <2>1, <2>2, <2>4, <5>1 DEF Split
        <5> QED
          BY <3>1, <3>2, <5>2
      <4> QED
        BY <4>1, <4>2
    <3>3. CASE ~(l <= s /\ s <= h)
      <4>1. s \notin Empty
        BY <2>1, <2>2, <3>3
      <4> QED
        BY <3>1, <3>3, <4>1 DEF Empty
    <3> QED
      BY <3>2, <3>3
  <2>6. Ordered(flash, l)
    <3>1. Fewer(flash, flash)
      BY DEF Fewer
    <3>2. ASSUME NEW s \in Sectors, NEW t \in Sectors,
                 DOMAIN flash[s].log # {}, DOMAIN flash[t].log # {}, Ahead(l, s, t)
          PROVE  Ahead(c, s, t)
      <4>1. ~(l <= s /\ s <= h) /\ ~(l <= t /\ t <= h)
        BY <1>4, <2>5, <3>2
      <4>2. s \in Nat /\ t \in Nat /\ l \in Nat /\ h \in Nat /\ c \in Nat
        BY <1>0, <2>1, <2>2
      <4>3. (s > l <=> s > c) /\ (t > l <=> t > c)
        BY <2>3, <4>1, <4>2
      <4> QED
        BY <3>2, <4>3 DEF Ahead
    <3> QED
      BY <1>2, <3>1, <3>2, OrderedKept
  <2>7. \A s \in Sectors : s # l => flash[s].store = (IF l < s /\ s <= h THEN "EMPTY" ELSE "FULL")
    BY <1>0, <2>1, <2>5
  <2> QED
    BY <2>1, <2>2, <2>6, <2>7 DEF Good, Empty
<1> QED
  BY <1>7, <1>8

-----------------------------------------------------------------------------
(* The three power failures after which a start does not find a ring in    *)
(* order: between the end node of a sector and FULL, between the erasure   *)
(* of the next sector and its magic word, and in a clean that has left the *)
(* state Split.                                                            *)
CalmCrashes == "full" \notin CrashPoints /\ "magic" \notin CrashPoints /\ ~SplitCrashes

LEMMA CleanRing ==
    ASSUME Inv, RingInv, Clean
    PROVE  RingInv'
<1>1. /\ pc = "ready" /\ pc' = "format" /\ cleaning' = TRUE
      /\ flash' = flash /\ db' = db /\ count' = count
  BY DEF Clean
<1>2. Good(flash, Cur, Before(db.oldest)) /\ Cur \in Sectors
  BY <1>1 DEF Inv, CallOK, RingInv, RingOK, Calm
<1>3. Partial(flash, Cur)
  <2> DEFINE e == Before(db.oldest)
  <2>1. \A s \in Sectors : s # Cur => flash[s].store = (IF Cur < s /\ s <= e THEN "EMPTY" ELSE "FULL")
    BY <1>2 DEF Good
  <2>2. \A s \in Sectors : flash[s].store = "USING" => s = Cur
    BY <2>1
  <2>3. flash[Cur].store # "FULL"
    BY <1>2 DEF Good
  <2>4. e \in Nat /\ Cur \in Nat /\ Sectors \subseteq Nat
    BY <1>2, SectorsFacts DEF Good
  <2> HIDE DEF e
  <2>5. ASSUME NEW s \in Sectors, NEW t \in Sectors, Cur < s, s < t, flash[s].store = "FULL"
        PROVE  flash[t].store = "FULL"
    <3>1. s # Cur /\ t # Cur /\ s \in Nat /\ t \in Nat
      <4>1. \A a, b, c \in Nat : a < b /\ b < c => b # a /\ c # a
        OBVIOUS
      <4>2. s \in Nat /\ t \in Nat
        BY <2>4
      <4> QED
        BY <2>4, <2>5, <4>1, <4>2
    <3>2. ~(s <= e)
      BY <2>1, <2>5, <3>1
    <3> QED
      BY <2>1, <2>4, <2>5, <3>1, <3>2
  <2> QED
    BY <1>2, <2>2, <2>3, <2>4, <2>5 DEF Partial, Good
<1>4. RingOK'
  BY <1>1, <1>2, <1>3 DEF RingOK, Calm, Stopped, Discard
<1>5. EndsOK'
  BY <1>1 DEF RingInv, EndsOK
<1>6. IdsOK'
  BY <1>1 DEF RingInv, IdsOK, Appending
<1> QED
  BY <1>4, <1>5, <1>6 DEF RingInv

(* The steps that touch neither the sectors nor what is known of them.     *)
LEMMA QuietRing ==
    ASSUME Inv, RingInv, flash' = flash, count' = count,
           \/ pc = "ready" /\ pc' = "ready" /\ Cur' = Cur /\ db'.oldest = db.oldest /\ FreeEnd' = FreeEnd
           \/ pc = "off" /\ pc' \in {"assert", "nosector"} /\ cleaning' = cleaning
    PROVE  RingInv'
<1>1. RingOK'
  BY DEF RingInv, RingOK, Calm, Stopped, Discard, Split, Using, Empty
<1>2. EndsOK'
  BY DEF RingInv, EndsOK
<1>3. IdsOK'
  BY DEF RingInv, IdsOK, Appending
<1> QED
  BY <1>1, <1>2, <1>3 DEF RingInv

LEMMA DeinitRing ==
    ASSUME Inv, RingInv, Deinit
    PROVE  RingInv'
<1>1. pc = "ready" /\ pc' = "off" /\ flash' = flash /\ count' = count
  BY DEF Deinit
<1>2. Good(flash, Cur, Before(db.oldest))
  BY <1>1 DEF RingInv, RingOK, Calm
<1>3. \E c, e \in Sectors : Good(flash, c, e)
  BY <1>2 DEF Good
<1>4. RingOK'
  BY <1>1, <1>3 DEF RingOK, Calm, Stopped
<1>5. EndsOK'
  BY <1>1 DEF RingInv, EndsOK
<1>6. IdsOK'
  BY <1>1 DEF RingInv, IdsOK, Appending
<1> QED
  BY <1>4, <1>5, <1>6 DEF RingInv

LEMMA SetRolloverRing ==
    ASSUME Inv, RingInv, SetRollover
    PROVE  RingInv'
<1>1. pc = "ready" /\ pc' = "ready" /\ flash' = flash /\ count' = count /\ db' = [db EXCEPT !.rollover = ~@]
  BY DEF SetRollover
<1>2. db'.cur = db.cur /\ db'.oldest = db.oldest
  <2>1. db \in DbType
    BY CurType_ DEF Inv
  <2> QED
    BY <1>1, <2>1 DEF DbType
<1>3. Cur' = Cur /\ FreeEnd' = FreeEnd
  BY <1>2 DEF Cur, FreeEnd
<1> QED
  BY <1>1, <1>2, <1>3, QuietRing

LEMMA StopRing ==
    ASSUME Inv, RingInv, StartAsserts \/ StartFindsNone
    PROVE  RingInv'
<1>1. pc = "off" /\ pc' \in {"assert", "nosector"} /\ flash' = flash /\ count' = count /\ cleaning' = cleaning
  BY DEF StartAsserts, StartFindsNone
<1> QED
  BY <1>1, QuietRing

LEMMA StartFormatsRing ==
    ASSUME Inv, RingInv, StartFormats
    PROVE  RingInv'
<1>1. /\ pc = "off" /\ pc' = "format" /\ cleaning' = cleaning /\ Failed # {}
      /\ flash' = flash /\ db' = db /\ count' = count
  BY DEF StartFormats
<1>2. Discard /\ \E c \in Sectors : Partial(flash, c)
  <2>1. ~AllFull(flash) /\ \A c, e \in Sectors : ~Good(flash, c, e)
    BY <1>1, GoodPasses, AllFullPasses DEF Inv
  <2> QED
    BY <1>1, <2>1 DEF RingInv, RingOK, Stopped
<1>3. RingOK'
  BY <1>1, <1>2 DEF RingOK, Calm, Stopped, Discard
<1>4. EndsOK'
  BY <1>1 DEF RingInv, EndsOK
<1>5. IdsOK'
  BY <1>1 DEF RingInv, IdsOK, Appending
<1> QED
  BY <1>3, <1>4, <1>5 DEF RingInv

LEMMA FormatEraseRing ==
    ASSUME Inv, RingInv, FormatErase
    PROVE  RingInv'
<1>1. /\ pc = "format" /\ flash' = [flash EXCEPT ![at] = Erased] /\ pc' = "formatmagic"
      /\ db' = db /\ at' = at /\ count' = count /\ cleaning' = cleaning
  BY DEF FormatErase, Put
<1>2. at \in Sectors /\ \A s \in Sectors : s < at => flash[s] = Formatted
  BY <1>1 DEF Inv, CallOK
<1>3. flash'[at] = Erased /\ \A t \in Sectors : t # at => flash'[t] = flash[t]
  BY <1>1, <1>2 DEF Inv, FlashOK
<1>4. Discard /\ \E c \in Sectors : Partial(flash, c)
  BY <1>1 DEF RingInv, RingOK
<1>5. PICK c \in Sectors : Partial(flash, c)
  BY <1>4
<1>6. DOMAIN flash'[at].log = {} /\ flash'[at].store = "UNUSED" /\ flash'[at].log = <<>>
  BY <1>3, BlankSectors
<1>7. \A s \in Sectors : s < at => DOMAIN flash[s].log = {} /\ flash[s].store = "EMPTY"
  BY <1>2, BlankSectors
<1>8. Fewer(flash, flash')
  BY <1>3, <1>6 DEF Fewer
<1>9. Partial(flash', c)
  <2>1. Ordered(flash', c)
    BY <1>5, <1>8, OrderedKept DEF Partial
  <2>2. ASSUME NEW s \in Sectors, NEW t \in Sectors, c < s, s < t, flash'[s].store = "FULL"
        PROVE  flash'[t].store = "FULL"
    <3>1. s # at /\ flash[s].store = "FULL"
      BY <1>3, <1>6, <2>2
    <3>2. flash[t].store = "FULL"
      BY <1>5, <2>2, <3>1 DEF Partial
    <3>3. t # at
      <4>1. ~(s < at)
        BY <1>7, <3>1
      <4> QED
        BY <2>2, <4>1
    <3> QED
      BY <1>3, <3>2, <3>3
  <2>3. flash'[c].store # "FULL"
    BY <1>3, <1>5, <1>6 DEF Partial
  <2>4. \A s \in Sectors : flash'[s].store = "USING" => s = c
    BY <1>3, <1>5, <1>6 DEF Partial
  <2> QED
    BY <1>5, <2>1, <2>2, <2>3, <2>4 DEF Partial
<1>10. Discard'
  BY <1>1, <1>3, <1>4, <1>6 DEF Discard
<1>11. RingOK'
  BY <1>1, <1>3, <1>5, <1>9, <1>10 DEF RingOK, Calm, Stopped
<1>12. EndsOK'
  BY <1>1, <1>3, <1>6 DEF RingInv, EndsOK
<1>13. IdsOK'
  BY <1>1, <1>8, IdsStep DEF RingInv, Appending
<1> QED
  BY <1>11, <1>12, <1>13 DEF RingInv

LEMMA FormatMagicRing ==
    ASSUME Inv, RingInv, FormatMagic
    PROVE  RingInv'
<1>1. /\ pc = "formatmagic" /\ at \in Sectors /\ count' = count
      /\ flash'[at] = Formatted /\ \A t \in Sectors : t # at => flash'[t] = flash[t]
      /\ at < NSectors => pc' = "format" /\ cleaning' = cleaning
      /\ ~(at < NSectors) => /\ pc' = "ready" /\ db'.cur.addr = 1
                             /\ db'.cur.endStat = <<"UNUSED", "UNUSED">>
                             /\ db'.oldest = 1 /\ \A s \in Sectors : flash'[s] = Formatted
  BY FormatMagicFacts
<1>2. /\ flash[at] = Erased /\ Discard /\ \E c \in Sectors : Partial(flash, c)
  BY <1>1 DEF RingInv, RingOK
<1>3. PICK c \in Sectors : Partial(flash, c)
  BY <1>2
<1>4. flash'[at].log = <<>> /\ flash[at].store = "UNUSED" /\ flash'[at].store = "EMPTY" /\ DOMAIN flash'[at].log = {}
  BY <1>1, <1>2, BlankSectors
<1>5. Fewer(flash, flash')
  BY <1>1, <1>4 DEF Fewer
<1>6. IdsOK'
  BY <1>1, <1>5, IdsStep DEF RingInv, Appending
<1>7. EndsOK'
  <2>1. CASE at < NSectors
    BY <1>1, <1>4, <2>1 DEF RingInv, EndsOK
  <2>2. CASE ~(at < NSectors)
    <3>1. FreeEnd' # {}
      BY <1>1, <2>2 DEF FreeEnd
    <3> QED
      BY <1>1, <2>2, <3>1, BlankSectors DEF EndsOK
  <2> QED
    BY <2>1, <2>2
<1>8. CASE at < NSectors
  <2>1. Ordered(flash', c)
    BY <1>3, <1>5, OrderedKept DEF Partial
  <2>2. \A s \in Sectors : /\ flash'[s].store = "USING" <=> flash[s].store = "USING"
                           /\ flash'[s].store = "FULL" <=> flash[s].store = "FULL"
    BY <1>1, <1>4
  <2>3. Partial(flash', c)
    <3>1. \A s \in Sectors : flash[s].store = "USING" => s = c
      BY <1>3 DEF Partial
    <3>2. \A s, t \in Sectors : c < s /\ s < t /\ flash[s].store = "FULL" => flash[t].store = "FULL"
      BY <1>3 DEF Partial
    <3>3. flash'[c].store # "FULL"
      BY <1>3, <2>2 DEF Partial
    <3>4. \A s \in Sectors : flash'[s].store = "USING" => s = c
      BY <2>2, <3>1
    <3>5. \A s, t \in Sectors : c < s /\ s < t /\ flash'[s].store = "FULL" => flash'[t].store = "FULL"
      BY <2>2, <3>2
    <3> QED
      BY <1>3, <2>1, <3>3, <3>4, <3>5 DEF Partial
  <2>4. Discard'
    BY <1>1, <1>2, <1>4, <1>8 DEF Discard
  <2>5. RingOK'
    BY <1>1, <1>3, <1>8, <2>3, <2>4 DEF RingOK, Calm, Stopped
  <2> QED
    BY <1>6, <1>7, <2>5 DEF RingInv
<1>9. CASE ~(at < NSectors)
  <2>1. NSectors \in Nat /\ NSectors >= 2 /\ Sectors = 1..NSectors /\ Before(1) = NSectors
    BY SectorsFacts DEF Before
  <2>2. \A s \in Sectors : flash'[s].store = "EMPTY" /\ flash'[s].log = <<>>
    BY <1>1, <1>9, BlankSectors
  <2>3. Ordered(flash', 1)
    BY <2>2 DEF Ordered
  <2>4. Good(flash', 1, NSectors)
    BY <2>1, <2>2, <2>3 DEF Good
  <2>5. Cur' = 1
    BY <1>1, <1>9 DEF Cur
  <2>6. RingOK'
    BY <1>1, <1>9, <2>1, <2>4, <2>5 DEF RingOK, Calm, Stopped
  <2> QED
    BY <1>6, <1>7, <2>6 DEF RingInv
<1> QED
  BY <1>8, <1>9

LEMMA StartRing ==
    ASSUME Inv, RingInv, NEW old \in {0} \union {EndInfo(s).time : s \in Sectors}, Start(old)
    PROVE  RingInv'
<1>1. /\ pc = "off" /\ pc' = "ready" /\ Failed = {} /\ Using \union Empty # {}
      /\ \A s \in Sectors : ~NoEndNode(s)
      /\ flash' = flash /\ count' = count /\ db'.cur.addr = CurSec /\ db'.oldest = After(Latest)
      /\ flash[CurSec].store \in {"EMPTY", "USING"}
      /\ db'.cur.endStat = <<flash[CurSec].end[1].st, flash[CurSec].end[2].st>>
  BY StartFacts
<1>2. CurSec \in Sectors /\ Latest \in Sectors
  BY <1>1, ChosenSectors
<1>3. Good(flash, CurSec, Latest)
  <2>1. FlashOK
    BY DEF Inv
  <2>2. ~AllFull(flash)
    BY <1>1, <2>1, AllFullPasses
  <2>3. ASSUME NEW c \in Sectors, NEW e \in Sectors, Good(flash, c, e) PROVE Good(flash, CurSec, Latest)
    BY <2>1, <2>3, GoodPasses
  <2>4. ASSUME NEW c \in Sectors, Partial(flash, c), ~Split PROVE Good(flash, CurSec, Latest)
    BY <1>1, <2>1, <2>4, PartialPasses
  <2> QED
    BY <1>1, <2>2, <2>3, <2>4 DEF RingInv, RingOK, Stopped
<1>4. After(Latest) \in Sectors /\ Before(After(Latest)) = Latest
  BY <1>2, SectorsFacts
<1>5. Cur' = CurSec
  BY <1>1 DEF Cur
<1>6. RingOK'
  BY <1>1, <1>3, <1>4, <1>5 DEF RingOK, Calm, Stopped
<1>7. FreeEnd' # {}
  <2> DEFINE sec == flash[CurSec]
  <2>1. sec \in SectorType /\ (sec.store = "EMPTY" => sec = Formatted)
    BY <1>2 DEF Inv, FlashOK, SectorOK
  <2>2. \E i \in {1, 2} : sec.end[i].st = "UNUSED"
    <3>1. CASE sec.store = "EMPTY"
      BY <2>1, <3>1, BlankSectors
    <3>2. CASE sec.store = "USING"
      <4>1. Open(sec)
        BY <1>1, <1>2, <3>2 DEF RingInv, EndsOK
      <4>2. \E i \in {1, 2} : sec.end[i].st # "PRE_WRITE"
        BY <1>1, <1>2 DEF NoEndNode
      <4>3. \A i \in {1, 2} : sec.end[i].st \in EndStats
        BY <2>1 DEF SectorType, EndType
      <4> QED
        BY <4>1, <4>2, <4>3 DEF Open, EndStats
    <3> QED
      BY <1>1, <3>1, <3>2
  <2>3. db'.cur.endStat[1] = sec.end[1].st /\ db'.cur.endStat[2] = sec.end[2].st
    BY <1>1
  <2> HIDE DEF sec
  <2> QED
    BY <2>2, <2>3 DEF FreeEnd
<1>8. EndsOK'
  BY <1>1, <1>7 DEF RingInv, EndsOK
<1>9. IdsOK'
  BY <1>1 DEF RingInv, IdsOK, Appending
<1> QED
  BY <1>6, <1>8, <1>9 DEF RingInv

LEMMA CrashRing ==
    ASSUME CalmCrashes, Inv, RingInv, Crash
    PROVE  RingInv'
<1>1. /\ pc # "full" /\ pc # "magic" /\ pc' = "off" /\ flash' = flash /\ count' = count /\ cleaning' = cleaning
      /\ pc \in Pcs /\ ~(pc = "format" /\ Split)
  BY DEF Crash, CalmCrashes, Inv, MemoryOK
<1>2. \/ AllFull(flash)
      \/ \E c, e \in Sectors : Good(flash, c, e)
      \/ Discard /\ ~Split /\ \E c \in Sectors : Partial(flash, c)
  <2>1. CASE pc \in Calm
    <3>1. Good(flash, Cur, Before(db.oldest))
      BY <2>1 DEF RingInv, RingOK
    <3>2. Cur \in Sectors /\ Before(db.oldest) \in Sectors
      BY <3>1 DEF Good
    <3> QED
      BY <3>1, <3>2
  <2>2. CASE pc = "erase"
    BY <2>2 DEF RingInv, RingOK
  <2>3. CASE pc \in Stopped
    BY <2>3 DEF RingInv, RingOK
  <2>4. CASE pc = "format"
    BY <1>1, <2>4 DEF RingInv, RingOK
  <2>5. CASE pc = "formatmagic"
    <3>1. at \in Sectors /\ flash[at] = Erased
      BY <2>5 DEF Inv, CallOK, RingInv, RingOK
    <3>2. ~flash[at].ok
      BY <3>1, BlankSectors
    <3> QED
      BY <2>5, <3>1, <3>2 DEF RingInv, RingOK, Split
  <2> QED
    BY <1>1, <2>1, <2>2, <2>3, <2>4, <2>5 DEF Pcs, Calm, Stopped
<1>3. RingOK'
  BY <1>1, <1>2 DEF RingOK, Calm, Stopped, Discard, Split, Using, Empty
<1>4. EndsOK'
  BY <1>1 DEF RingInv, EndsOK
<1>5. IdsOK'
  BY <1>1 DEF RingInv, IdsOK, Appending
<1> QED
  BY <1>3, <1>4, <1>5 DEF RingInv

LEMMA RingStep ==
    ASSUME CalmCrashes, Inv, RingInv, [Next]_vars
    PROVE  RingInv'
<1>1. ASSUME NEW size \in Sizes, NEW step \in Steps, Append_(size, step) PROVE RingInv'
  BY <1>1, AppendRing
<1>2. ASSUME NEW old \in {0} \union {EndInfo(s).time : s \in Sectors}, Start(old) PROVE RingInv'
  BY <1>2, StartRing
<1>3. CASE UNCHANGED vars
  <2>1. RingOK'
    BY <1>3 DEF RingInv, RingOK, Discard, Split, Using, Empty, Cur, vars
  <2>2. EndsOK'
    BY <1>3 DEF RingInv, EndsOK, FreeEnd, Cur, vars
  <2>3. IdsOK'
    BY <1>3 DEF RingInv, IdsOK, vars
  <2> QED
    BY <2>1, <2>2, <2>3 DEF RingInv
<1> QED
  BY <1>1, <1>2, <1>3, EndPreWriteRing, EndWriteRing, SectorFullRing, EraseNextRing, FormatNextRing,
     SectorUsingRing, StartTimeRing, PreWriteRing, WriteRing, CleanRing, FormatEraseRing, FormatMagicRing,
     SetRolloverRing, StartFormatsRing, StopRing, DeinitRing, CrashRing DEF Next

(* If no power failure comes between the end node of a sector and FULL,    *)
(* between the erasure of the next one and its magic word, or in a clean   *)
(* that has left FULL sectors between EMPTY ones, the ring is in order     *)
(* whenever a call ends and every start finds it so, or the user asked for *)
(* an empty database.                                                      *)
THEOREM RingInvariant ==
    ASSUME CalmCrashes
    PROVE  Spec => []RingInv
<1>1. Init => RingInv
  BY RingInit
<1>2. Inv /\ RingInv /\ [Next]_vars => RingInv'
  BY RingStep
<1> QED
  BY <1>1, <1>2, Invariant, PTL DEF Spec

-----------------------------------------------------------------------------
(* What a step drops.                                                      *)
LEMMA LogsKept ==
    ASSUME \A s \in Sectors : \A i \in DOMAIN flash[s].log :
               ~Torn(flash[s].log[i]) => i \in DOMAIN flash'[s].log /\ flash'[s].log[i] = flash[s].log[i]
    PROVE  Gone = {}
<1> SUFFICES ASSUME NEW log \in Written PROVE log \in Written'
  BY DEF Gone
<1>1. PICK s \in Sectors : log \in LogsOn(s)
  BY DEF Written
<1>2. PICK i \in DOMAIN flash[s].log : log = flash[s].log[i]
  BY <1>1 DEF LogsOn
<1>3. ~Torn(log)
  BY DEF Written
<1>4. i \in DOMAIN flash'[s].log /\ flash'[s].log[i] = log
  BY <1>2, <1>3
<1>5. log \in LogsOn(s)'
  BY <1>4 DEF LogsOn
<1>6. Torn(log)' <=> Torn(log)
  BY DEF Torn
<1> QED
  BY <1>3, <1>5, <1>6 DEF Written

LEMMA HeaderKeeps ==
    ASSUME Inv, NEW s \in Sectors, NEW sec, flash' = [flash EXCEPT ![s] = sec],
           sec.log = flash[s].log \/ flash[s].log = <<>>
    PROVE  Gone = {}
<1>1. flash'[s] = sec /\ \A t \in Sectors : t # s => flash'[t] = flash[t]
  BY DEF Inv, FlashOK
<1>2. \A t \in Sectors : flash'[t].log = flash[t].log \/ DOMAIN flash[t].log = {}
  BY <1>1
<1> QED
  BY <1>2, LogsKept

LEMMA HeadersKeep ==
    ASSUME Inv, EndPreWrite \/ EndWrite \/ SectorFull \/ SectorUsing \/ StartTime
    PROVE  Gone = {}
<1>1. pc \in Appending
  BY DEF EndPreWrite, EndWrite, SectorFull, SectorUsing, StartTime, Appending
<1>2. Cur \in Sectors /\ flash[Cur] \in SectorType
  BY <1>1 DEF Inv, CallOK, FlashOK
<1>3. CASE EndPreWrite
  <2> DEFINE i == Lowest(FreeEnd)
             e == [flash[Cur].end[i] EXCEPT !.st = "PRE_WRITE"]
  <2>1. flash' = [flash EXCEPT ![Cur] = [flash[Cur] EXCEPT !.end[i] = e]]
    BY <1>3 DEF EndPreWrite, Put
  <2> HIDE DEF i, e
  <2>2. [flash[Cur] EXCEPT !.end[i] = e].log = flash[Cur].log
    BY <1>2 DEF SectorType
  <2> QED
    BY <1>2, <2>1, <2>2, HeaderKeeps
<1>4. CASE EndWrite
  <2> DEFINE i == Lowest(FreeEnd)
             e == [st |-> "WRITE", time |-> db.last, idx |-> db.cur.n]
  <2>1. flash' = [flash EXCEPT ![Cur] = [flash[Cur] EXCEPT !.end[i] = e]]
    BY <1>4 DEF EndWrite, Put
  <2> HIDE DEF i, e
  <2>2. [flash[Cur] EXCEPT !.end[i] = e].log = flash[Cur].log
    BY <1>2 DEF SectorType
  <2> QED
    BY <1>2, <2>1, <2>2, HeaderKeeps
<1>5. CASE SectorFull
  <2>1. flash' = [flash EXCEPT ![Cur] = [flash[Cur] EXCEPT !.store = "FULL"]]
    BY <1>5 DEF SectorFull, Put
  <2>2. [flash[Cur] EXCEPT !.store = "FULL"].log = flash[Cur].log
    BY <1>2 DEF SectorType
  <2> QED
    BY <1>2, <2>1, <2>2, HeaderKeeps
<1>6. CASE SectorUsing
  <2>1. flash' = [flash EXCEPT ![Cur] = [flash[Cur] EXCEPT !.store = "USING"]]
    BY <1>6 DEF SectorUsing, Put
  <2>2. [flash[Cur] EXCEPT !.store = "USING"].log = flash[Cur].log
    BY <1>2 DEF SectorType
  <2> QED
    BY <1>2, <2>1, <2>2, HeaderKeeps
<1>7. CASE StartTime
  <2>1. flash' = [flash EXCEPT ![Cur] = [flash[Cur] EXCEPT !.start = blob.time]]
    BY <1>7 DEF StartTime, Put
  <2>2. [flash[Cur] EXCEPT !.start = blob.time].log = flash[Cur].log
    BY <1>2 DEF SectorType
  <2> QED
    BY <1>2, <2>1, <2>2, HeaderKeeps
<1> QED
  BY <1>3, <1>4, <1>5, <1>6, <1>7

LEMMA NodesKeep ==
    ASSUME Inv, PreWrite \/ Write
    PROVE  Gone = {}
<1> DEFINE log == flash[Cur].log
           new == Append(log, BlobNode)
           whole == [log EXCEPT ![db.cur.n + 1].st = "WRITE"]
<1>1. CASE PreWrite
  <2>1. /\ Cur \in Sectors /\ log \in Seq(Node) /\ BlobNode \in Node
        /\ flash' = [flash EXCEPT ![Cur] = [flash[Cur] EXCEPT !.log = new]]
    BY <1>1, PreWriteFacts
  <2>2. \A i \in DOMAIN log : i \in DOMAIN new /\ new[i] = log[i]
    BY <2>1, AppendProperties, LenProperties
  <2>3. flash'[Cur].log = new /\ \A s \in Sectors : s # Cur => flash'[s] = flash[s]
    <3> HIDE DEF new
    <3> QED
      BY <2>1 DEF Inv, FlashOK, SectorType
  <2> HIDE DEF new
  <2>4. \A s \in Sectors : \A i \in DOMAIN flash[s].log :
            i \in DOMAIN flash'[s].log /\ flash'[s].log[i] = flash[s].log[i]
    BY <2>2, <2>3
  <2> QED
    BY <2>4, LogsKept
<1>2. CASE Write
  <2>1. /\ Cur \in Sectors /\ log \in Seq(Node) /\ DOMAIN log = 1..(db.cur.n + 1)
        /\ log[db.cur.n + 1] = BlobNode
        /\ flash' = [flash EXCEPT ![Cur] = [flash[Cur] EXCEPT !.log = whole]]
    BY <1>2, WriteFacts
  <2>2. \A i \in DOMAIN log : i # db.cur.n + 1 => i \in DOMAIN whole /\ whole[i] = log[i]
    BY <2>1
  <2>3. Torn(log[db.cur.n + 1])
    BY <2>1 DEF Torn, BlobNode
  <2>4. flash'[Cur].log = whole /\ \A s \in Sectors : s # Cur => flash'[s] = flash[s]
    <3> HIDE DEF whole
    <3> QED
      BY <2>1 DEF Inv, FlashOK, SectorType
  <2> HIDE DEF whole
  <2>5. \A s \in Sectors : \A i \in DOMAIN flash[s].log : ~Torn(flash[s].log[i]) =>
            i \in DOMAIN flash'[s].log /\ flash'[s].log[i] = flash[s].log[i]
    BY <2>2, <2>3, <2>4
  <2> QED
    BY <2>5, LogsKept
<1> QED
  BY <1>1, <1>2

(* The sector that is formatted to make room comes after all the others in *)
(* the ring: it holds the oldest logs.                                     *)
LEMMA EraseNextDrops ==
    ASSUME Inv, RingInv, EraseNext
    PROVE  /\ \A s \in Sectors : flash[s].store = "FULL"
           /\ \A log \in Gone, rest \in Written \ Gone : log.id < rest.id
<1>1. /\ pc = "erase" /\ flash' = [flash EXCEPT ![Cur] = Erased]
  BY DEF EraseNext, Put
<1>2. /\ Cur \in Sectors /\ AllFull(flash) /\ Ordered(flash, Before(Cur))
  BY <1>1 DEF Inv, CallOK, Appending, RingInv, RingOK
<1>3. flash'[Cur] = Erased /\ \A s \in Sectors : s # Cur => flash'[s] = flash[s]
  BY <1>1, <1>2 DEF Inv, FlashOK
<1>4. Written' = {log \in UNION {LogsOn(s) : s \in Sectors \ {Cur}} : ~Torn(log)}
  <2> SUFFICES UNION {LogsOn(s)' : s \in Sectors} = UNION {LogsOn(s) : s \in Sectors \ {Cur}}
    BY DEF Written, Torn
  <2> QED
    BY <1>2, <1>3, BlankSectors DEF LogsOn
<1>5. ASSUME NEW log \in Gone, NEW rest \in Written \ Gone
      PROVE  log.id < rest.id
  <2>1. rest \in Written' /\ log \in Written /\ log \notin Written'
    BY DEF Gone
  <2>2. PICK t \in Sectors : t # Cur /\ rest \in LogsOn(t)
    BY <1>4, <2>1
  <2>3. PICK s \in Sectors : log \in LogsOn(s)
    BY <2>1 DEF Written
  <2>4. s = Cur
    BY <1>4, <2>1, <2>3 DEF Written
  <2>5. PICK i \in DOMAIN flash[Cur].log : log = flash[Cur].log[i]
    BY <2>3, <2>4 DEF LogsOn
  <2>6. PICK j \in DOMAIN flash[t].log : rest = flash[t].log[j]
    BY <2>2 DEF LogsOn
  <2>7. Ahead(Before(Cur), Cur, t)
    <3>1. NSectors \in Nat /\ NSectors >= 2 /\ Sectors = 1..NSectors
      BY SectorsFacts
    <3> QED
      BY <1>2, <2>2, <3>1 DEF Ahead, Before
  <2> QED
    BY <1>2, <2>5, <2>6, <2>7 DEF Ordered
<1> QED
  BY <1>2, <1>5 DEF AllFull

LEMMA FormatsDrop ==
    ASSUME Inv, RingInv, FormatNext \/ FormatErase \/ FormatMagic
    PROVE  Gone # {} => cleaning
<1>1. CASE FormatNext
  <2>1. pc = "magic" /\ flash' = [flash EXCEPT ![Cur] = Formatted]
    BY <1>1 DEF FormatNext, Put
  <2>2. Cur \in Sectors /\ flash[Cur].log = <<>>
    BY <2>1, BlankSectors DEF Inv, CallOK, Appending
  <2> QED
    BY <2>1, <2>2, HeaderKeeps
<1>2. CASE FormatErase
  <2>1. pc = "format" /\ flash' = [flash EXCEPT ![at] = Erased]
    BY <1>2 DEF FormatErase, Put
  <2>2. at \in Sectors /\ Discard
    BY <2>1 DEF Inv, CallOK, RingInv, RingOK
  <2>3. ~cleaning => flash[at].log = <<>>
    BY <2>2 DEF Discard
  <2> QED
    BY <2>1, <2>2, <2>3, HeaderKeeps
<1>3. CASE FormatMagic
  <2>1. pc = "formatmagic" /\ flash' = [flash EXCEPT ![at] = Formatted]
    BY <1>3 DEF FormatMagic, Put
  <2>2. at \in Sectors /\ flash[at].log = <<>>
    BY <2>1, BlankSectors DEF Inv, CallOK, RingInv, RingOK
  <2> QED
    BY <2>1, <2>2, HeaderKeeps
<1> QED
  BY <1>1, <1>2, <1>3

DropsOne == Gone # {} => \/ cleaning
                         \/ /\ \A s \in Sectors : s # Cur => flash[s].store = "FULL"
                            /\ \A log \in Gone, rest \in Written \ Gone : log.id < rest.id

LEMMA DropsStep ==
    ASSUME Inv, RingInv, [Next]_vars
    PROVE  DropsOne
<1>1. CASE flash' = flash
  BY <1>1, LogsKept DEF DropsOne
<1>2. CASE flash' # flash
  <2>1. \/ EndPreWrite \/ EndWrite \/ SectorFull \/ SectorUsing \/ StartTime \/ PreWrite \/ Write
        \/ EraseNext \/ FormatNext \/ FormatErase \/ FormatMagic
    BY <1>2 DEF Next, vars, Append_, Clean, SetRollover, StartAsserts, StartFormats, StartFindsNone, Start,
            Deinit, Crash
  <2>2. CASE EraseNext
    BY <2>2, EraseNextDrops DEF DropsOne
  <2>3. CASE FormatNext \/ FormatErase \/ FormatMagic
    BY <2>3, FormatsDrop DEF DropsOne
  <2>4. CASE EndPreWrite \/ EndWrite \/ SectorFull \/ SectorUsing \/ StartTime
    BY <2>4, HeadersKeep DEF DropsOne
  <2>5. CASE PreWrite \/ Write
    BY <2>5, NodesKeep DEF DropsOne
  <2> QED
    BY <2>1, <2>2, <2>3, <2>4, <2>5
<1> QED
  BY <1>1, <1>2

(* A log leaves the flash only when the user cleans the database or when   *)
(* every other sector is FULL, and then it is older than every log that    *)
(* stays: neither fdb_tsl_append nor fdb_tsdb_init drops another one,      *)
(* unless the power fails at one of the three places of CalmCrashes.       *)
THEOREM DropsOldestAlways ==
    ASSUME CalmCrashes
    PROVE  Spec => DropsOldest
<1>1. Inv /\ RingInv /\ [Next]_vars =>
          [Gone # {} => \/ cleaning
                        \/ /\ \A s \in Sectors : s # Cur => flash[s].store = "FULL"
                           /\ \A log \in Gone, rest \in Written \ Gone : log.id < rest.id]_vars
  BY DropsStep DEF DropsOne
<1> QED
  BY <1>1, Invariant, RingInvariant, PTL DEF Spec, DropsOldest

-----------------------------------------------------------------------------
(* The order in which fdb_tsl_iter reads: a sequence sorted by the         *)
(* relation R, and one that R puts wholly before another.                  *)
Elems(seq) == {seq[i] : i \in DOMAIN seq}
Sorted(seq, R) == \A i, j \in DOMAIN seq : i < j => <<seq[i], seq[j]>> \in R
Precedes(s1, s2, R) == \A log \in Elems(s1), other \in Elems(s2) : <<log, other>> \in R

LEMMA ConcatSorted ==
    ASSUME NEW S, NEW R, NEW s1 \in Seq(S), NEW s2 \in Seq(S), Sorted(s1, R), Sorted(s2, R), Precedes(s1, s2, R)
    PROVE  s1 \o s2 \in Seq(S) /\ Sorted(s1 \o s2, R) /\ Elems(s1 \o s2) = Elems(s1) \union Elems(s2)
<1> DEFINE s == s1 \o s2
           m == Len(s1)
           n == Len(s2)
<1>1. /\ s \in Seq(S) /\ m \in Nat /\ n \in Nat /\ DOMAIN s = 1..(m + n)
      /\ DOMAIN s1 = 1..m /\ DOMAIN s2 = 1..n
      /\ \A i \in 1..(m + n) : s[i] = IF i <= m THEN s1[i] ELSE s2[i - m]
  BY ConcatProperties, LenProperties
<1> HIDE DEF s, m, n
<1>2. ASSUME NEW i \in DOMAIN s
      PROVE  \/ i <= m /\ i \in DOMAIN s1 /\ s[i] = s1[i]
             \/ i > m /\ i - m \in DOMAIN s2 /\ s[i] = s2[i - m]
  <2>1. CASE i <= m
    BY <1>1, <2>1
  <2>2. CASE i > m
    <3>1. i - m \in 1..n /\ ~(i <= m)
      BY <1>1, <2>2
    <3> QED
      BY <1>1, <2>2, <3>1
  <2> QED
    BY <1>1, <2>1, <2>2
<1>3. Elems(s) = Elems(s1) \union Elems(s2)
  <2>1. ASSUME NEW log \in Elems(s) PROVE log \in Elems(s1) \union Elems(s2)
    BY <1>2 DEF Elems
  <2>2. ASSUME NEW log \in Elems(s1) PROVE log \in Elems(s)
    <3>1. PICK i \in DOMAIN s1 : log = s1[i]
      BY DEF Elems
    <3>2. i \in DOMAIN s /\ i <= m
      BY <1>1
    <3> QED
      BY <1>1, <3>1, <3>2 DEF Elems
  <2>3. ASSUME NEW log \in Elems(s2) PROVE log \in Elems(s)
    <3>1. PICK i \in DOMAIN s2 : log = s2[i]
      BY DEF Elems
    <3>2. i + m \in DOMAIN s /\ ~(i + m <= m) /\ i + m - m = i
      BY <1>1
    <3>3. s[i + m] = log
      BY <1>1, <3>1, <3>2
    <3> QED
      BY <3>2, <3>3 DEF Elems
  <2> QED
    BY <2>1, <2>2, <2>3
<1>4. ASSUME NEW i \in DOMAIN s, NEW j \in DOMAIN s, i < j PROVE <<s[i], s[j]>> \in R
  <2>0. i \in Nat /\ j \in Nat
    BY <1>1
  <2>1. CASE i <= m /\ j <= m
    <3>1. i \in DOMAIN s1 /\ j \in DOMAIN s1 /\ s[i] = s1[i] /\ s[j] = s1[j]
      BY <1>1, <2>0, <2>1
    <3> QED
      BY <1>4, <3>1 DEF Sorted
  <2>2. CASE i <= m /\ j > m
    <3>1. i \in DOMAIN s1 /\ s[i] = s1[i]
      BY <1>1, <2>0, <2>2
    <3>2. j - m \in DOMAIN s2 /\ s[j] = s2[j - m]
      BY <1>1, <1>2, <2>0, <2>2
    <3>3. s[i] \in Elems(s1) /\ s[j] \in Elems(s2)
      BY <3>1, <3>2 DEF Elems
    <3> QED
      BY <3>3 DEF Precedes
  <2>3. CASE i > m /\ j > m
    <3>1. i - m \in DOMAIN s2 /\ j - m \in DOMAIN s2 /\ s[i] = s2[i - m] /\ s[j] = s2[j - m]
      BY <1>1, <1>2, <2>0, <2>3
    <3>2. i - m < j - m
      BY <1>1, <1>4, <2>0
    <3> QED
      BY <3>1, <3>2 DEF Sorted
  <2> QED
    BY <1>1, <1>4, <2>0, <2>1, <2>2, <2>3
<1>5. Sorted(s, R)
  BY <1>4 DEF Sorted
<1> QED
  BY <1>1, <1>3, <1>5 DEF s

AllIn(seqs, m) == UNION {Elems(seqs[k]) : k \in 1..m}
Flattens(seqs, d, m) == d = [i \in 1..m |-> IF i = 1 THEN seqs[i] ELSE d[i - 1] \o seqs[i]]
Part(seqs, S, R, q, m) == /\ q \in Seq(S) /\ Sorted(q, R)
                          /\ Elems(q) = AllIn(seqs, m)

(* FlattenSeq of sequences each of which precedes the later ones.          *)
LEMMA FlattenSorted ==
    ASSUME NEW S, NEW R, NEW n \in Nat \ {0}, NEW seqs \in [1..n -> Seq(S)],
           \A k \in 1..n : Sorted(seqs[k], R),
           \A k, l \in 1..n : k < l => Precedes(seqs[k], seqs[l], R)
    PROVE  /\ FlattenSeq(seqs) \in Seq(S) /\ Sorted(FlattenSeq(seqs), R)
           /\ Elems(FlattenSeq(seqs)) = AllIn(seqs, n)
<1> DEFINE g == CHOOSE d : Flattens(seqs, d, n)
           Q == {m \in Nat : m \in 1..n => \E d : Flattens(seqs, d, m)}
           P == {m \in Nat : m \in 1..n => Part(seqs, S, R, g[m], m)}
<1>1. Nat \subseteq Q
  <2>1. 0 \in Q
    OBVIOUS
  <2>2. ASSUME NEW m \in Nat, m \in Q PROVE m + 1 \in Q
    <3> SUFFICES ASSUME m + 1 \in 1..n PROVE \E d : Flattens(seqs, d, m + 1)
      OBVIOUS
    <3>1. CASE m = 0
      <4> DEFINE d == [i \in 1..1 |-> seqs[i]]
      <4>1. Flattens(seqs, d, 1)
        BY DEF Flattens
      <4>2. m + 1 = 1
        BY <3>1
      <4> HIDE DEF d
      <4> QED
        BY <4>1, <4>2
    <3>2. CASE m # 0
      <4>1. PICK d : Flattens(seqs, d, m)
        <5>1. m \in 1..n
          BY <3>2
        <5> QED
          BY <2>2, <5>1
      <4> DEFINE e == [i \in 1..(m + 1) |-> IF i = m + 1 THEN d[m] \o seqs[m + 1] ELSE d[i]]
      <4>2. ASSUME NEW i \in 1..(m + 1) PROVE e[i] = IF i = 1 THEN seqs[i] ELSE e[i - 1] \o seqs[i]
        <5>1. CASE i = m + 1
          <6>1. i # 1 /\ i - 1 = m /\ m \in 1..(m + 1) /\ m # m + 1
            BY <3>2, <5>1
          <6>2. e[m] = d[m] /\ e[i] = d[m] \o seqs[i]
            BY <5>1, <6>1
          <6> QED
            BY <6>1, <6>2
        <5>2. CASE i # m + 1
          <6>1. i \in 1..m /\ e[i] = d[i]
            BY <5>2
          <6>2. i # 1 => i - 1 \in 1..(m + 1) /\ i - 1 # m + 1
            BY <6>1
          <6>3. i # 1 => e[i - 1] = d[i - 1]
            BY <6>2
          <6>4. d[i] = IF i = 1 THEN seqs[i] ELSE d[i - 1] \o seqs[i]
            BY <4>1, <6>1 DEF Flattens
          <6> QED
            BY <6>1, <6>3, <6>4
        <5> QED
          BY <5>1, <5>2
      <4>3. Flattens(seqs, e, m + 1)
        BY <4>2 DEF Flattens
      <4> HIDE DEF e
      <4> QED
        BY <4>3
    <3> QED
      BY <3>1, <3>2
  <2> QED
    <3> HIDE DEF Q
    <3> QED
      BY <2>1, <2>2, Induction
<1>2. Flattens(seqs, g, n)
  <2>1. \E d : Flattens(seqs, d, n)
    <3>1. n \in Q /\ n \in 1..n
      BY <1>1
    <3> QED
      BY <3>1
  <2> QED
    BY <2>1
<1> HIDE DEF g
<1>3. Nat \subseteq P
  <2>1. 0 \in P
    OBVIOUS
  <2>2. ASSUME NEW m \in Nat, m \in P PROVE m + 1 \in P
    <3> SUFFICES ASSUME m + 1 \in 1..n PROVE Part(seqs, S, R, g[m + 1], m + 1)
      OBVIOUS
    <3>1. CASE m = 0
      <4>1. g[1] = seqs[1]
        BY <1>2, <3>1 DEF Flattens
      <4>2. UNION {Elems(seqs[k]) : k \in 1..1} = Elems(seqs[1])
        OBVIOUS
      <4>3. Part(seqs, S, R, g[1], 1) /\ m + 1 = 1
        BY <3>1, <4>1, <4>2 DEF Part, AllIn
      <4> QED
        BY <4>3
    <3>2. CASE m # 0
      <4>1. m \in 1..n /\ m + 1 # 1 /\ m + 1 - 1 = m
        BY <3>2
      <4>2. g[m + 1] = g[m] \o seqs[m + 1]
        <5>1. \A i \in 1..n : g[i] = IF i = 1 THEN seqs[i] ELSE g[i - 1] \o seqs[i]
          BY <1>2, Zenon DEF Flattens
        <5>2. g[m + 1] = IF m + 1 = 1 THEN seqs[m + 1] ELSE g[m + 1 - 1] \o seqs[m + 1]
          BY <5>1
        <5> QED
          BY <4>1, <5>2
      <4>3. Part(seqs, S, R, g[m], m)
        BY <2>2, <4>1
      <4>4. Precedes(g[m], seqs[m + 1], R)
        <5>1. ASSUME NEW log \in Elems(g[m]), NEW other \in Elems(seqs[m + 1]) PROVE <<log, other>> \in R
          <6>1. PICK k \in 1..m : log \in Elems(seqs[k])
            BY <4>3 DEF Part, AllIn
          <6>2. k \in 1..n /\ k < m + 1
            OBVIOUS
          <6> QED
            BY <6>1, <6>2 DEF Precedes
        <5> QED
          BY <5>1 DEF Precedes
      <4>5. /\ g[m + 1] \in Seq(S) /\ Sorted(g[m + 1], R)
            /\ Elems(g[m + 1]) = Elems(g[m]) \union Elems(seqs[m + 1])
        BY <4>2, <4>3, <4>4, ConcatSorted DEF Part
      <4> DEFINE few == UNION {Elems(seqs[k]) : k \in 1..m}
                 more == UNION {Elems(seqs[k]) : k \in 1..(m + 1)}
      <4>6. \A x : x \in few <=> \E k \in 1..m : x \in Elems(seqs[k])
        OBVIOUS
      <4>7. \A x : x \in more <=> \E k \in 1..(m + 1) : x \in Elems(seqs[k])
        OBVIOUS
      <4>8. \A k : k \in 1..(m + 1) <=> k \in 1..m \/ k = m + 1
        OBVIOUS
      <4>9. more = few \union Elems(seqs[m + 1])
        <5> HIDE DEF few, more
        <5> QED
          BY <4>6, <4>7, <4>8, Zenon
      <4> QED
        BY <4>3, <4>5, <4>9 DEF Part, AllIn
    <3> QED
      BY <3>1, <3>2
  <2> QED
    <3> HIDE DEF P
    <3> QED
      BY <2>1, <2>2, Induction
<1>4. Part(seqs, S, R, g[n], n)
  <2>1. n \in P /\ n \in 1..n
    BY <1>3
  <2> QED
    BY <2>1
<1>5. FlattenSeq(seqs) = g[n]
  <2>1. seqs \in Seq(Seq(S)) /\ Len(seqs) = n /\ n # 0
    BY LenProperties
  <2> QED
    BY <2>1 DEF FlattenSeq, g, Flattens
<1> QED
  BY <1>4, <1>5 DEF Part

-----------------------------------------------------------------------------
(* Between two calls the readers see every log: how many a sector has, from *)
(* cur_sec or from the end node, and each sector once, the oldest first.   *)
LEMMA LogsInAll ==
    ASSUME Inv, RingInv, pc = "ready", NEW s \in Sectors
    PROVE  /\ LogsIn(s) = flash[s].log /\ flash[s].log \in Seq(Node)
           /\ flash[s].store # "EMPTY" => Nodes(s) = Len(flash[s].log)
<1>1. Good(flash, Cur, Before(db.oldest)) /\ Knows(db.cur, flash[Cur])
  BY DEF RingInv, RingOK, Calm, Inv, CallOK, Settled
<1>2. flash[s] \in SectorType /\ (flash[s].store = "EMPTY" => flash[s].log = <<>>)
  BY BlankSectors DEF Inv, FlashOK, SectorOK
<1>3. flash[s].log \in Seq(Node) /\ SubSeq(flash[s].log, 1, Len(flash[s].log)) = flash[s].log
  <2>1. flash[s].log \in Seq(Node)
    BY <1>2 DEF SectorType
  <2> QED
    BY <2>1, SubSeqFull
<1>4. CASE flash[s].store = "USING"
  <2>1. s = Cur
    BY <1>1, <1>4 DEF Good
  <2>2. s \in Using /\ Nodes(s) = Len(flash[s].log)
    BY <1>1, <1>4, <2>1 DEF Using, Nodes, Knows
  <2> QED
    BY <1>3, <1>4, <2>2 DEF LogsIn
<1>5. CASE flash[s].store = "FULL"
  <2>1. s \notin Using /\ EndInfo(s) = EndOf(flash[s])
    BY <1>5 DEF Using, EndInfo, EndOf
  <2>2. Closed(flash[s])
    BY <1>5 DEF RingInv, EndsOK
  <2>3. Nodes(s) = Len(flash[s].log)
    BY <2>1, <2>2 DEF Nodes, Closed
  <2> QED
    BY <1>3, <1>5, <2>3 DEF LogsIn
<1>6. CASE flash[s].store = "EMPTY"
  BY <1>2, <1>3, <1>6 DEF LogsIn
<1> QED
  BY <1>1, <1>4, <1>5, <1>6 DEF Good

LEMMA Modulo ==
    ASSUME NEW n \in Nat \ {0}, NEW m \in 0..(2 * n - 1)
    PROVE  m % n = IF m < n THEN m ELSE m - n
<1>1. CASE m < n
  BY <1>1
<1>2. CASE ~(m < n)
  BY <1>2
<1> QED
  BY <1>1, <1>2

LEMMA RingFacts ==
    ASSUME db.oldest \in Sectors, NEW i \in Sectors
    PROVE  /\ Ring[i] \in Sectors
           /\ Ring[i] = IF db.oldest + i - 1 <= NSectors THEN db.oldest + i - 1 ELSE db.oldest + i - 1 - NSectors
<1> DEFINE o == db.oldest
           m == o + i - 2
<1>1. NSectors \in Nat /\ NSectors >= 2 /\ o \in 1..NSectors /\ i \in 1..NSectors /\ Sectors = 1..NSectors
  BY SectorsFacts
<1>2. Ring[i] = (m % NSectors) + 1
  BY DEF Ring
<1> HIDE DEF o
<1>3. NSectors \in Nat \ {0} /\ m \in 0..(2 * NSectors - 1) /\ o + i - 1 = m + 1
  BY <1>1
<1> HIDE DEF m
<1>4. m % NSectors = IF m < NSectors THEN m ELSE m - NSectors
  BY <1>3, Modulo
<1>5. Ring[i] = IF o + i - 1 <= NSectors THEN o + i - 1 ELSE o + i - 1 - NSectors
  BY <1>1, <1>2, <1>3, <1>4
<1>6. Ring[i] \in Sectors
  BY <1>1, <1>5
<1> QED
  BY <1>5, <1>6 DEF o

LEMMA RingCovers ==
    ASSUME db.oldest \in Sectors, NEW s \in Sectors
    PROVE  \E i \in Sectors : Ring[i] = s
<1>1. NSectors \in Nat /\ NSectors >= 2 /\ db.oldest \in 1..NSectors /\ s \in 1..NSectors /\ Sectors = 1..NSectors
  BY SectorsFacts
<1>2. CASE s >= db.oldest
  <2> DEFINE i == s - db.oldest + 1
  <2>1. i \in Sectors /\ db.oldest + i - 1 = s /\ s <= NSectors
    BY <1>1, <1>2
  <2> HIDE DEF i
  <2>2. Ring[i] = s
    BY <2>1, RingFacts
  <2> QED
    BY <2>1, <2>2
<1>3. CASE s < db.oldest
  <2> DEFINE i == s - db.oldest + 1 + NSectors
  <2>1. i \in Sectors /\ db.oldest + i - 1 - NSectors = s /\ ~(db.oldest + i - 1 <= NSectors)
    BY <1>1, <1>3
  <2> HIDE DEF i
  <2>2. Ring[i] = s
    BY <2>1, RingFacts
  <2> QED
    BY <2>1, <2>2
<1> QED
  BY <1>1, <1>2, <1>3

(* From the oldest sector on, the ring is in the order of the ids.         *)
LEMMA RingOrder ==
    ASSUME NEW c, Good(flash, c, Before(db.oldest)), db.oldest \in Sectors,
           NEW i \in Sectors, NEW j \in Sectors, i < j,
           flash[Ring[i]].store # "EMPTY", flash[Ring[j]].store # "EMPTY"
    PROVE  Ahead(c, Ring[i], Ring[j])
<1> DEFINE o == db.oldest
           s == Ring[i]
           t == Ring[j]
           e == Before(o)
<1>1. NSectors \in Nat /\ NSectors >= 2 /\ Sectors = 1..NSectors
      /\ o \in 1..NSectors /\ i \in 1..NSectors /\ j \in 1..NSectors
  BY SectorsFacts
<1>2. /\ s \in 1..NSectors /\ s = IF o + i - 1 <= NSectors THEN o + i - 1 ELSE o + i - 1 - NSectors
      /\ t \in 1..NSectors /\ t = IF o + j - 1 <= NSectors THEN o + j - 1 ELSE o + j - 1 - NSectors
  BY <1>1, RingFacts
<1>3. c \in 1..NSectors /\ e \in 1..NSectors /\ c <= e
  BY <1>1 DEF Good
<1>4. ~(c < s /\ s <= e) /\ ~(c < t /\ t <= e)
  <2>1. \A r \in Sectors : r # c => flash[r].store = (IF c < r /\ r <= e THEN "EMPTY" ELSE "FULL")
    BY DEF Good
  <2>2. s # c => ~(c < s /\ s <= e)
    BY <1>1, <1>2, <2>1
  <2>3. t # c => ~(c < t /\ t <= e)
    BY <1>1, <1>2, <2>1
  <2> HIDE DEF s, t, e
  <2> QED
    BY <1>2, <1>3, <2>2, <2>3
<1>5. (o = 1 /\ e = NSectors) \/ (o > 1 /\ e = o - 1)
  BY <1>1 DEF Before
<1> HIDE DEF o, s, t, e
<1>6. CASE o = 1 /\ e = NSectors
  <2>1. s = i /\ t = j
    BY <1>1, <1>2, <1>6
  <2>2. s <= c /\ t <= c
    BY <1>2, <1>3, <1>4, <1>6
  <2> QED
    BY <1>1, <1>3, <2>1, <2>2 DEF Ahead, s, t
<1>7. CASE o > 1 /\ e = o - 1
  <2>1. (s <= c \/ s >= o) /\ (t <= c \/ t >= o)
    BY <1>1, <1>2, <1>3, <1>4, <1>7
  <2>2. CASE o + j - 1 <= NSectors
    <3>1. s = o + i - 1 /\ t = o + j - 1
      BY <1>1, <1>2, <2>2
    <3>2. s > c /\ t > c /\ s < t
      BY <1>1, <1>3, <1>7, <3>1
    <3> QED
      BY <3>2 DEF Ahead, s, t
  <2>3. CASE o + i - 1 <= NSectors /\ ~(o + j - 1 <= NSectors)
    <3>1. s = o + i - 1 /\ t = o + j - 1 - NSectors
      BY <1>2, <2>3
    <3>2. s > c /\ t < o
      BY <1>1, <1>3, <1>7, <3>1
    <3>3. t <= c
      BY <1>1, <1>2, <2>1, <3>2
    <3>4. ~(t > c)
      BY <1>2, <1>3, <3>3
    <3> QED
      BY <3>2, <3>4 DEF Ahead, s, t
  <2>4. CASE ~(o + i - 1 <= NSectors) /\ ~(o + j - 1 <= NSectors)
    <3>1. s = o + i - 1 - NSectors /\ t = o + j - 1 - NSectors
      BY <1>2, <2>4
    <3>2. s < t /\ s < o /\ t < o
      BY <1>1, <3>1
    <3>3. s <= c /\ t <= c
      BY <1>1, <1>2, <2>1, <3>2
    <3>4. ~(s > c) /\ ~(t > c)
      BY <1>2, <1>3, <3>3
    <3> QED
      BY <3>2, <3>4 DEF Ahead, s, t
  <2> QED
    BY <1>1, <2>2, <2>3, <2>4
<1> QED
  BY <1>5, <1>6, <1>7

ById == {pair \in Node \X Node : pair[1].id < pair[2].id}

LEMMA RingLogs ==
    ASSUME Inv, RingInv, pc = "ready"
    PROVE  /\ \A i \in Sectors : /\ Ring[i] \in Sectors /\ LogsIn(Ring[i]) = flash[Ring[i]].log
                                 /\ flash[Ring[i]].log \in Seq(Node) /\ Sorted(flash[Ring[i]].log, ById)
           /\ \A i, j \in Sectors : i < j => Precedes(flash[Ring[i]].log, flash[Ring[j]].log, ById)
<1> DEFINE c == Cur
<1>1. Good(flash, c, Before(db.oldest)) /\ db.oldest \in Sectors
  BY DEF RingInv, RingOK, Calm
<1> HIDE DEF c
<1>2. ASSUME NEW i \in Sectors
      PROVE  /\ Ring[i] \in Sectors /\ LogsIn(Ring[i]) = flash[Ring[i]].log
             /\ flash[Ring[i]].log \in Seq(Node)
             /\ \A a \in DOMAIN flash[Ring[i]].log : flash[Ring[i]].log[a] \in Node
  BY <1>1, RingFacts, LogsInAll, IdNat DEF Inv
<1>3. Ordered(flash, c)
  BY <1>1 DEF Good
<1>4. ASSUME NEW i \in Sectors PROVE Sorted(flash[Ring[i]].log, ById)
  <2> DEFINE s == Ring[i]
  <2>1. s \in Sectors /\ \A a \in DOMAIN flash[s].log : flash[s].log[a] \in Node
    BY <1>2
  <2> HIDE DEF s
  <2>2. Sorted(flash[s].log, ById)
    BY <1>3, <2>1 DEF Ordered, Sorted, ById
  <2> QED
    BY <2>2 DEF s
<1>5. ASSUME NEW i \in Sectors, NEW j \in Sectors, i < j
      PROVE  Precedes(flash[Ring[i]].log, flash[Ring[j]].log, ById)
  <2> DEFINE s == Ring[i]
             t == Ring[j]
  <2>1. /\ s \in Sectors /\ \A a \in DOMAIN flash[s].log : flash[s].log[a] \in Node
        /\ t \in Sectors /\ \A a \in DOMAIN flash[t].log : flash[t].log[a] \in Node
    BY <1>2
  <2>2. ASSUME NEW log \in Elems(flash[s].log), NEW other \in Elems(flash[t].log) PROVE <<log, other>> \in ById
    <3>1. PICK a \in DOMAIN flash[s].log : log = flash[s].log[a]
      BY DEF Elems
    <3>2. PICK b \in DOMAIN flash[t].log : other = flash[t].log[b]
      BY DEF Elems
    <3>3. flash[s].store # "EMPTY" /\ flash[t].store # "EMPTY"
      <4>1. \A r \in Sectors : flash[r].store = "EMPTY" => DOMAIN flash[r].log = {}
        BY BlankSectors DEF Inv, FlashOK, SectorOK
      <4> QED
        BY <2>1, <3>1, <3>2, <4>1
    <3>4. Ahead(c, s, t)
      BY <1>1, <1>5, <3>3, RingOrder
    <3> HIDE DEF s, t
    <3> QED
      BY <1>3, <2>1, <3>1, <3>2, <3>4 DEF Ordered, ById
  <2> QED
    BY <2>2 DEF Precedes
<1> QED
  BY <1>2, <1>4, <1>5

LEMMA StoredSorted ==
    ASSUME Inv, RingInv, pc = "ready"
    PROVE  Stored \in Seq(Node) /\ Sorted(Stored, ById) /\ Elems(Stored) = UNION {LogsOn(s) : s \in Sectors}
<1> DEFINE seqs == [i \in Sectors |-> LogsIn(Ring[i])]
<1>1. db.oldest \in Sectors
  BY DEF RingInv, RingOK, Calm
<1>2. NSectors \in Nat \ {0} /\ Sectors = 1..NSectors
  BY SectorsFacts
<1>3. /\ \A i \in Sectors : /\ Ring[i] \in Sectors /\ LogsIn(Ring[i]) = flash[Ring[i]].log
                            /\ flash[Ring[i]].log \in Seq(Node) /\ Sorted(flash[Ring[i]].log, ById)
      /\ \A i, j \in Sectors : i < j => Precedes(flash[Ring[i]].log, flash[Ring[j]].log, ById)
  BY RingLogs
<1>4. \A i \in Sectors : seqs[i] = flash[Ring[i]].log
  BY <1>3
<1>5. seqs \in [1..NSectors -> Seq(Node)] /\ Stored = FlattenSeq(seqs)
  <2>1. Stored = FlattenSeq(seqs)
    BY DEF Stored
  <2>2. \A i \in Sectors : LogsIn(Ring[i]) \in Seq(Node)
    BY <1>3
  <2> QED
    BY <1>2, <2>1, <2>2
<1> HIDE DEF seqs
<1>6. /\ FlattenSeq(seqs) \in Seq(Node) /\ Sorted(FlattenSeq(seqs), ById)
      /\ Elems(FlattenSeq(seqs)) = AllIn(seqs, NSectors)
  <2>1. \A i \in 1..NSectors : Sorted(seqs[i], ById)
    BY <1>2, <1>3, <1>4
  <2>2. \A i, j \in 1..NSectors : i < j => Precedes(seqs[i], seqs[j], ById)
    BY <1>2, <1>3, <1>4
  <2>3. NSectors \in Nat \ {0} /\ seqs \in [1..NSectors -> Seq(Node)]
    BY <1>2, <1>5
  <2> QED
    BY <2>1, <2>2, <2>3, FlattenSorted, Zenon
<1>7. AllIn(seqs, NSectors) = UNION {LogsOn(s) : s \in Sectors}
  <2>1. \A i \in Sectors : Elems(seqs[i]) = LogsOn(Ring[i])
    BY <1>4 DEF Elems, LogsOn
  <2>2. ASSUME NEW s \in Sectors PROVE \E i \in Sectors : LogsOn(s) = Elems(seqs[i])
    <3>1. PICK i \in Sectors : Ring[i] = s
      BY <1>1, RingCovers
    <3> QED
      BY <2>1, <3>1
  <2>3. AllIn(seqs, NSectors) = UNION {Elems(seqs[i]) : i \in Sectors}
    BY <1>2 DEF AllIn
  <2>4. ASSUME NEW i \in Sectors PROVE Elems(seqs[i]) \subseteq UNION {LogsOn(s) : s \in Sectors}
    BY <1>3, <2>1
  <2>5. ASSUME NEW s \in Sectors PROVE LogsOn(s) \subseteq UNION {Elems(seqs[i]) : i \in Sectors}
    BY <2>2
  <2> QED
    BY <2>3, <2>4, <2>5
<1> QED
  BY <1>5, <1>6, <1>7

-----------------------------------------------------------------------------
(* The times of the logs, and what the headers and cur_sec say of them.    *)
SecTimes(sec, now) ==
    /\ sec.start <= now
    /\ \A i \in {1, 2} : sec.end[i].time <= now
    /\ \A i \in DOMAIN sec.log : /\ 1 <= sec.log[i].time /\ sec.log[i].time <= now
                                 /\ sec.start <= sec.log[i].time

LastTime(log) == TimeOf(log[Len(log)])
EndTimes(sec) == sec.log # <<>> /\ EndOf(sec).time = LastTime(sec.log)

Monotone(f) ==
    \A s, t \in Sectors :
        \A i \in DOMAIN f[s].log, j \in DOMAIN f[t].log :
            f[s].log[i].id < f[t].log[j].id => f[s].log[i].time <= f[t].log[j].time

StartsBefore(start, log) == start <= clock /\ \A i \in DOMAIN log : start <= log[i].time

CurTimes ==
    /\ pc \in {"endpre", "endwrite"} => flash[Cur].log # <<>>
    /\ pc = "full" => EndTimes(flash[Cur])
    /\ pc = "start" => flash[Cur].log = <<>>
    /\ pc \in Settled /\ flash[Cur].log # <<>> => /\ db.last = LastTime(flash[Cur].log)
                                                  /\ db.cur.endTime = LastTime(flash[Cur].log)
    /\ pc \in Settled \union {"write"} => StartsBefore(db.cur.start, flash[Cur].log)

TimeInv ==
    /\ clock >= 1 /\ db.last <= clock
    /\ \A s \in Sectors : /\ SecTimes(flash[s], clock)
                          /\ flash[s].store = "FULL" => EndTimes(flash[s])
    /\ Monotone(flash)
    /\ CurTimes

LEMMA NodeTypes ==
    ASSUME FlashOK, NEW s \in Sectors
    PROVE  /\ flash[s] \in SectorType /\ flash[s].start \in Int /\ flash[s].log \in Seq(Node)
           /\ \A i \in {1, 2} : flash[s].end[i] \in EndType /\ flash[s].end[i].time \in Int
           /\ \A i \in DOMAIN flash[s].log : /\ flash[s].log[i] \in Node
                                             /\ flash[s].log[i].id \in Nat /\ flash[s].log[i].time \in Nat
<1>1. flash[s] \in SectorType
  BY DEF FlashOK
<1>2. flash[s].start \in Int /\ flash[s].log \in Seq(Node) /\ flash[s].end \in [{1, 2} -> EndType]
  BY <1>1 DEF SectorType
<1>3. \A i \in {1, 2} : flash[s].end[i] \in EndType /\ flash[s].end[i].time \in Int
  BY <1>2 DEF EndType
<1>4. \A i \in DOMAIN flash[s].log : flash[s].log[i] \in Node
  BY <1>2, ElementOfSeq, LenProperties
<1>5. \A node \in Node : node.id \in Nat /\ node.time \in Nat
  BY DEF Node
<1> QED
  BY <1>1, <1>2, <1>3, <1>4, <1>5

LEMMA BlankTimes ==
    ASSUME NEW now \in Nat
    PROVE  /\ SecTimes(Erased, now) /\ Erased.store # "FULL" /\ DOMAIN Erased.log = {}
           /\ SecTimes(Formatted, now) /\ Formatted.store # "FULL" /\ DOMAIN Formatted.log = {}
<1>1. Erased.start = -1 /\ Formatted.start = -1 /\ \A i \in {1, 2} : Erased.end[i].time = -1 /\ Formatted.end[i].time = -1
  <2>1. \A i \in {1, 2} : Erased.end[i] = NoInfo /\ Formatted.end[i] = NoInfo
    BY BlankSectors
  <2>2. NoInfo.time = -1
    BY DEF NoInfo, Unwritten
  <2>3. Erased.start = -1
    BY DEF Erased, Unwritten
  <2>4. Formatted.start = Erased.start
    BY DEF Formatted, Erased
  <2> QED
    BY <2>1, <2>2, <2>3, <2>4
<1> QED
  BY <1>1, BlankSectors DEF SecTimes

(* A write to the sector s that adds no log.                               *)
LEMMA TimesPut ==
    ASSUME Inv, TimeInv, NEW s \in Sectors, NEW sec, flash' = [flash EXCEPT ![s] = sec], clock' = clock,
           SecTimes(sec, clock), sec.store = "FULL" => EndTimes(sec),
           \A i \in DOMAIN sec.log : /\ i \in DOMAIN flash[s].log
                                     /\ sec.log[i].id = flash[s].log[i].id /\ sec.log[i].time = flash[s].log[i].time
    PROVE  /\ flash'[s] = sec /\ \A t \in Sectors : t # s => flash'[t] = flash[t]
           /\ \A t \in Sectors : /\ SecTimes(flash'[t], clock')
                                 /\ flash'[t].store = "FULL" => EndTimes(flash'[t])
           /\ Monotone(flash') /\ clock' >= 1
<1>1. flash'[s] = sec /\ \A t \in Sectors : t # s => flash'[t] = flash[t]
  BY DEF Inv, FlashOK
<1>2. \A t \in Sectors : /\ SecTimes(flash'[t], clock')
                         /\ flash'[t].store = "FULL" => EndTimes(flash'[t])
  BY <1>1 DEF TimeInv
<1>3. \A t \in Sectors : \A i \in DOMAIN flash'[t].log :
          /\ i \in DOMAIN flash[t].log
          /\ flash'[t].log[i].id = flash[t].log[i].id /\ flash'[t].log[i].time = flash[t].log[i].time
  BY <1>1
<1>4. Monotone(flash')
  BY <1>3 DEF TimeInv, Monotone
<1>5. clock' >= 1
  BY DEF TimeInv
<1> QED
  BY <1>1, <1>2, <1>4, <1>5

LEMMA TimesInit ==
    ASSUME Init
    PROVE  TimeInv
<1>1. /\ flash = [s \in Sectors |-> Erased] /\ db = Memory /\ pc = "off" /\ clock = 1
  BY DEF Init
<1>2. clock >= 1 /\ db.last <= clock
  BY <1>1 DEF Memory
<1>3. \A s \in Sectors : flash[s] = Erased
  BY <1>1
<1>4. \A s \in Sectors : SecTimes(flash[s], clock) /\ flash[s].store # "FULL" /\ DOMAIN flash[s].log = {}
  BY <1>1, <1>3, BlankTimes
<1>5. Monotone(flash)
  BY <1>4 DEF Monotone
<1>6. CurTimes
  BY <1>1 DEF CurTimes, Settled
<1> QED
  BY <1>2, <1>4, <1>5, <1>6 DEF TimeInv

LEMMA AppendTimes ==
    ASSUME Inv, RingInv, TimeInv, NEW size \in Sizes, NEW step \in Steps, Append_(size, step)
    PROVE  TimeInv'
<1>1. /\ pc = "ready" /\ flash' = flash /\ db' = db /\ clock' = clock + step /\ pc' = FirstWrite(size)
  BY DEF Append_
<1>2. /\ Cur \in Sectors /\ flash[Cur].store \in {"EMPTY", "USING"} /\ Knows(db.cur, flash[Cur]) /\ FreeEnd # {}
  BY <1>1 DEF Inv, CallOK, Settled, Appending, RingInv, EndsOK
<1>3. db.cur.store = flash[Cur].store
  BY <1>2 DEF Knows
<1>4. /\ pc' \in {"using", "pre", "endpre"}
      /\ pc' = "endpre" => ~Fits(size)
  BY <1>1, <1>2, <1>3 DEF FirstWrite
<1>5. flash[Cur].log = <<>> => Fits(size)
  <2> SUFFICES ASSUME flash[Cur].log = <<>> PROVE Fits(size)
    OBVIOUS
  <2>1. db.cur.remain = Room
    BY <1>2, EmptyRoom DEF Knows
  <2> QED
    BY <2>1, SizeFacts DEF Fits
<1>6. Cur' = Cur
  BY <1>1 DEF Cur
<1>7. clock \in Nat /\ clock' \in Nat /\ clock <= clock' /\ db.last \in Int /\ db.cur.start \in Int
  <2>1. step \in Nat /\ clock \in Nat
    BY TsdbAssumption DEF Inv, MemoryOK
  <2>2. clock' \in Nat /\ clock <= clock'
    BY <1>1, <2>1
  <2>3. db.last \in Int /\ db.cur.start \in Int
    BY CurType_ DEF Inv, CurType
  <2> QED
    BY <2>1, <2>2, <2>3
<1>8. ASSUME NEW s \in Sectors PROVE SecTimes(flash[s], clock')
  <2>1. SecTimes(flash[s], clock)
    BY DEF TimeInv
  <2>2. /\ flash[s].start \in Int /\ \A i \in {1, 2} : flash[s].end[i].time \in Int
        /\ \A i \in DOMAIN flash[s].log : flash[s].log[i].time \in Nat
    BY NodeTypes DEF Inv
  <2>3. flash[s].start <= clock'
    BY <1>7, <2>1, <2>2 DEF SecTimes
  <2>4. ASSUME NEW i \in {1, 2} PROVE flash[s].end[i].time <= clock'
    BY <1>7, <2>1, <2>2 DEF SecTimes
  <2>5. ASSUME NEW i \in DOMAIN flash[s].log PROVE flash[s].log[i].time <= clock'
    BY <1>7, <2>1, <2>2 DEF SecTimes
  <2> QED
    BY <2>1, <2>3, <2>4, <2>5 DEF SecTimes
<1>9. CurTimes'
  <2>1. StartsBefore(db.cur.start, flash[Cur].log)
    BY <1>1 DEF TimeInv, CurTimes, Settled
  <2>2. StartsBefore(db.cur.start, flash[Cur].log)'
    BY <1>1, <1>6, <1>7, <2>1 DEF StartsBefore
  <2>3. flash[Cur].log # <<>> => /\ db.last = LastTime(flash[Cur].log)
                                 /\ db.cur.endTime = LastTime(flash[Cur].log)
    BY <1>1 DEF TimeInv, CurTimes, Settled
  <2>4. (flash[Cur].log # <<>> => /\ db.last = LastTime(flash[Cur].log)
                                  /\ db.cur.endTime = LastTime(flash[Cur].log))'
    BY <1>1, <1>6, <2>3 DEF LastTime, TimeOf, Torn
  <2> QED
    BY <1>1, <1>4, <1>5, <1>6, <2>2, <2>4 DEF CurTimes
<1>10. clock' >= 1 /\ db'.last <= clock'
  BY <1>1, <1>7 DEF TimeInv
<1>11. Monotone(flash') /\ \A s \in Sectors : flash'[s].store = "FULL" => EndTimes(flash'[s])
  BY <1>1 DEF TimeInv
<1> QED
  BY <1>1, <1>8, <1>9, <1>10, <1>11 DEF TimeInv

(* The end nodes of the current sector.                                    *)
LEMMA EndPreWriteTimes ==
    ASSUME Inv, RingInv, TimeInv, EndPreWrite
    PROVE  TimeInv'
<1> DEFINE L == Lowest(FreeEnd)
           e == [flash[Cur].end[L] EXCEPT !.st = "PRE_WRITE"]
           sec == [flash[Cur] EXCEPT !.end[L] = e]
<1>1. /\ pc = "endpre" /\ flash' = [flash EXCEPT ![Cur] = sec] /\ pc' = "endwrite"
      /\ db' = db /\ clock' = clock
  BY DEF EndPreWrite, Put
<1>2. /\ Cur \in Sectors /\ FreeEnd # {} /\ flash[Cur].store = "USING"
  BY <1>1 DEF Inv, CallOK, Appending, Settled
<1>3. SectorOK(flash[Cur]) /\ L \in {1, 2}
  BY <1>2, FreeEndNext DEF Inv, FlashOK
<1>4. e \in EndType /\ e.time = flash[Cur].end[L].time
  <2>1. flash[Cur].end[L] \in EndType
    BY <1>3 DEF SectorOK, SectorType
  <2> QED
    BY <2>1 DEF EndType, EndStats
<1>5. /\ sec.store = "USING" /\ sec.log = flash[Cur].log /\ sec.end = [flash[Cur].end EXCEPT ![L] = e]
      /\ sec.start = flash[Cur].start
  <2> HIDE DEF e, L
  <2>1. flash[Cur] \in SectorType
    BY <1>3 DEF SectorOK
  <2> QED
    BY <1>2, <1>3, <1>4, <2>1, HeaderOK DEF SectorType
<1>6. \A i \in {1, 2} : sec.end[i].time = flash[Cur].end[i].time
  <2> HIDE DEF e, L, sec
  <2>1. flash[Cur].end \in [{1, 2} -> EndType]
    BY <1>3 DEF SectorOK, SectorType
  <2> QED
    BY <1>3, <1>4, <1>5, <2>1
<1> HIDE DEF sec, e, L
<1>7. SecTimes(sec, clock)
  <2>1. SecTimes(flash[Cur], clock)
    BY <1>2 DEF TimeInv
  <2> QED
    BY <1>5, <1>6, <2>1 DEF SecTimes
<1>8. /\ flash'[Cur] = sec /\ \A t \in Sectors : t # Cur => flash'[t] = flash[t]
      /\ \A t \in Sectors : /\ SecTimes(flash'[t], clock')
                            /\ flash'[t].store = "FULL" => EndTimes(flash'[t])
      /\ Monotone(flash') /\ clock' >= 1
  BY <1>1, <1>2, <1>5, <1>7, TimesPut
<1>9. Cur' = Cur /\ flash'[Cur'].log = flash[Cur].log
  BY <1>1, <1>5, <1>8 DEF Cur
<1>10. CurTimes'
  <2>1. /\ StartsBefore(db.cur.start, flash[Cur].log) /\ flash[Cur].log # <<>>
        /\ db.last = LastTime(flash[Cur].log) /\ db.cur.endTime = LastTime(flash[Cur].log)
    BY <1>1 DEF TimeInv, CurTimes, Settled
  <2> QED
    BY <1>1, <1>9, <2>1 DEF CurTimes, StartsBefore, LastTime, TimeOf, Torn
<1> QED
  BY <1>1, <1>8, <1>10 DEF TimeInv

LEMMA EndWriteTimes ==
    ASSUME Inv, RingInv, TimeInv, EndWrite
    PROVE  TimeInv'
<1> DEFINE L == Lowest(FreeEnd)
           e == [st |-> "WRITE", time |-> db.last, idx |-> db.cur.n]
           sec == [flash[Cur] EXCEPT !.end[L] = e]
<1>1. /\ pc = "endwrite" /\ flash' = [flash EXCEPT ![Cur] = sec] /\ pc' = "full"
      /\ db' = db /\ clock' = clock
  BY DEF EndWrite, Put
<1>2. /\ Cur \in Sectors /\ FreeEnd # {} /\ flash[Cur].store = "USING"
  BY <1>1 DEF Inv, CallOK, Appending, Settled
<1>3. SectorOK(flash[Cur]) /\ L \in {1, 2}
  BY <1>2, FreeEndNext DEF Inv, FlashOK
<1>4. e \in EndType /\ e.time = db.last /\ e.st = "WRITE"
  BY CurType_ DEF Inv, EndType, EndStats
<1>5. /\ sec.store = "USING" /\ sec.log = flash[Cur].log /\ sec.end = [flash[Cur].end EXCEPT ![L] = e]
      /\ sec.start = flash[Cur].start
  <2> HIDE DEF e, L
  <2>1. flash[Cur] \in SectorType
    BY <1>3 DEF SectorOK
  <2> QED
    BY <1>2, <1>3, <1>4, <2>1, HeaderOK DEF SectorType
<1>6. Open(flash[Cur]) /\ flash[Cur].end \in [{1, 2} -> EndType]
  BY <1>1, <1>2, <1>3 DEF RingInv, EndsOK, SectorOK, SectorType
<1>7. EndOf(sec) = e /\ \A i \in {1, 2} : sec.end[i] = e \/ sec.end[i] = flash[Cur].end[i]
  <2> HIDE DEF e, L, sec
  <2>1. CASE L = 1
    BY <1>4, <1>5, <1>6, <2>1 DEF EndOf
  <2>2. CASE L = 2
    BY <1>4, <1>5, <1>6, <2>2 DEF EndOf, Open
  <2> QED
    BY <1>3, <2>1, <2>2
<1> HIDE DEF sec, e, L
<1>8. /\ StartsBefore(db.cur.start, flash[Cur].log) /\ flash[Cur].log # <<>>
      /\ db.last = LastTime(flash[Cur].log) /\ db.cur.endTime = LastTime(flash[Cur].log)
  BY <1>1 DEF TimeInv, CurTimes, Settled
<1>9. SecTimes(sec, clock) /\ EndTimes(sec)
  <2>1. SecTimes(flash[Cur], clock) /\ db.last <= clock
    BY <1>2 DEF TimeInv
  <2> QED
    BY <1>4, <1>5, <1>7, <1>8, <2>1 DEF SecTimes, EndTimes
<1>10. /\ flash'[Cur] = sec /\ \A t \in Sectors : t # Cur => flash'[t] = flash[t]
       /\ \A t \in Sectors : /\ SecTimes(flash'[t], clock')
                             /\ flash'[t].store = "FULL" => EndTimes(flash'[t])
       /\ Monotone(flash') /\ clock' >= 1
  BY <1>1, <1>2, <1>5, <1>9, TimesPut
<1>11. Cur' = Cur /\ flash'[Cur'] = sec /\ sec.log = flash[Cur].log
  BY <1>1, <1>5, <1>10 DEF Cur
<1>12. CurTimes'
  <2>1. EndTimes(flash[Cur])'
    BY <1>9, <1>11 DEF EndTimes, EndOf, LastTime, TimeOf, Torn
  <2> QED
    BY <1>1, <1>8, <1>11, <2>1 DEF CurTimes, StartsBefore, LastTime, TimeOf, Torn
<1> QED
  BY <1>1, <1>10, <1>12 DEF TimeInv

LEMMA SectorFullTimes ==
    ASSUME Inv, RingInv, TimeInv, SectorFull
    PROVE  TimeInv'
<1> DEFINE next == SectorInfo(After(Cur), FALSE, db.cur.endTime)
           sec == [flash[Cur] EXCEPT !.store = "FULL"]
<1>1. /\ pc = "full" /\ flash' = [flash EXCEPT ![Cur] = sec] /\ clock' = clock
      /\ pc' = IF next.store = "EMPTY" THEN "using" ELSE "erase"
      /\ db' = [db EXCEPT !.cur = next, !.oldest = IF next.store = "EMPTY" THEN @ ELSE After(next.addr)]
  BY DEF SectorFull, Put
<1>2. Cur \in Sectors /\ After(Cur) \in Sectors /\ After(Cur) # Cur /\ EndTimes(flash[Cur]) /\ flash[Cur] \in SectorType
  BY <1>1, SectorsFacts DEF Inv, CallOK, Appending, TimeInv, CurTimes, FlashOK
<1>3. next.addr = After(Cur) /\ next.store = flash[After(Cur)].store /\ next.start = flash[After(Cur)].start
  BY DEF SectorInfo
<1>4. sec.log = flash[Cur].log /\ sec.end = flash[Cur].end /\ sec.start = flash[Cur].start
  BY <1>2 DEF SectorType
<1> HIDE DEF sec, next
<1>5. SecTimes(sec, clock) /\ EndTimes(sec)
  BY <1>2, <1>4 DEF TimeInv, SecTimes, EndTimes, EndOf
<1>6. /\ flash'[Cur] = sec /\ \A t \in Sectors : t # Cur => flash'[t] = flash[t]
      /\ \A t \in Sectors : /\ SecTimes(flash'[t], clock')
                            /\ flash'[t].store = "FULL" => EndTimes(flash'[t])
      /\ Monotone(flash') /\ clock' >= 1
  BY <1>1, <1>2, <1>4, <1>5, TimesPut
<1>7. db'.cur = next /\ db'.last = db.last
  <2>1. db \in DbType
    BY CurType_ DEF Inv
  <2> QED
    BY <1>1, <2>1 DEF DbType
<1>8. Cur' = After(Cur) /\ flash'[Cur'] = flash[After(Cur)]
  BY <1>2, <1>3, <1>6, <1>7 DEF Cur
<1>9. CurTimes'
  <2>1. CASE pc' = "using"
    <3>1. next.store = "EMPTY"
      BY <1>1, <2>1
    <3>2. flash[After(Cur)].log = <<>>
      BY <1>2, <1>3, <3>1, BlankSectors DEF Inv, FlashOK, SectorOK
    <3>3. flash[After(Cur)].start <= clock
      BY <1>2 DEF TimeInv, SecTimes
    <3>4. flash'[Cur'].log = <<>> /\ db'.cur.start <= clock' /\ DOMAIN flash'[Cur'].log = {}
      BY <1>1, <1>3, <1>7, <1>8, <3>2, <3>3
    <3> QED
      BY <2>1, <3>4 DEF CurTimes, StartsBefore
  <2>2. CASE pc' = "erase"
    BY <2>2 DEF CurTimes, Settled
  <2> QED
    BY <1>1, <2>1, <2>2
<1> QED
  BY <1>1, <1>6, <1>7, <1>9 DEF TimeInv

LEMMA EraseNextTimes ==
    ASSUME Inv, RingInv, TimeInv, EraseNext
    PROVE  TimeInv'
<1>1. /\ pc = "erase" /\ flash' = [flash EXCEPT ![Cur] = Erased] /\ pc' = "magic"
      /\ db' = db /\ clock' = clock
  BY DEF EraseNext, Put
<1>2. Cur \in Sectors /\ clock \in Nat
  BY <1>1 DEF Inv, CallOK, Appending, MemoryOK
<1>3. /\ \A t \in Sectors : /\ SecTimes(flash'[t], clock')
                            /\ flash'[t].store = "FULL" => EndTimes(flash'[t])
      /\ Monotone(flash') /\ clock' >= 1
  BY <1>1, <1>2, BlankTimes, TimesPut
<1>4. CurTimes'
  BY <1>1 DEF CurTimes, Settled
<1> QED
  BY <1>1, <1>3, <1>4 DEF TimeInv

LEMMA FormatNextTimes ==
    ASSUME Inv, RingInv, TimeInv, FormatNext
    PROVE  TimeInv'
<1> DEFINE cur == [db.cur EXCEPT !.store = "EMPTY", !.start = Unwritten, !.n = 0,
                                 !.endStat = <<"UNUSED", "UNUSED">>, !.data = Room, !.remain = Room]
<1>1. /\ pc = "magic" /\ flash' = [flash EXCEPT ![Cur] = Formatted] /\ pc' = "using"
      /\ db' = [db EXCEPT !.cur = cur] /\ clock' = clock
  BY DEF FormatNext, Put
<1>2. Cur \in Sectors /\ clock \in Nat /\ db \in DbType /\ db.cur \in CurType
  BY <1>1, CurType_ DEF Inv, CallOK, Appending, MemoryOK
<1>3. cur.addr = Cur /\ cur.start = -1
  BY <1>2 DEF CurType, Cur, Unwritten
<1> HIDE DEF cur
<1>4. db'.cur = cur /\ db'.last = db.last
  BY <1>1, <1>2 DEF DbType
<1>5. /\ flash'[Cur] = Formatted
      /\ \A t \in Sectors : /\ SecTimes(flash'[t], clock')
                            /\ flash'[t].store = "FULL" => EndTimes(flash'[t])
      /\ Monotone(flash') /\ clock' >= 1
  BY <1>1, <1>2, BlankTimes, TimesPut
<1>6. Cur' = Cur /\ flash'[Cur'].log = <<>> /\ DOMAIN flash'[Cur'].log = {} /\ db'.cur.start <= clock'
  BY <1>1, <1>2, <1>3, <1>4, <1>5, BlankSectors DEF Cur
<1>7. CurTimes'
  BY <1>1, <1>6 DEF CurTimes, StartsBefore
<1> QED
  BY <1>1, <1>4, <1>5, <1>7 DEF TimeInv

LEMMA SectorUsingTimes ==
    ASSUME Inv, RingInv, TimeInv, SectorUsing
    PROVE  TimeInv'
<1> DEFINE c1 == [db.cur EXCEPT !.store = "USING"]
           cur == [c1 EXCEPT !.start = blob.time]
           sec == [flash[Cur] EXCEPT !.store = "USING"]
<1>1. /\ pc = "using" /\ flash' = [flash EXCEPT ![Cur] = sec] /\ pc' = "start"
      /\ db' = [db EXCEPT !.cur.store = "USING", !.cur.start = blob.time] /\ clock' = clock
  BY DEF SectorUsing, Put
<1>2. /\ Cur \in Sectors /\ flash[Cur].store = "EMPTY" /\ blob.time = clock /\ clock \in Nat
      /\ db \in DbType /\ db.cur \in CurType
  BY <1>1, CurType_ DEF Inv, CallOK, Appending, MemoryOK
<1>3. flash[Cur].log = <<>> /\ flash[Cur] \in SectorType
  BY <1>2, BlankSectors DEF Inv, FlashOK, SectorOK
<1>4. sec.log = <<>> /\ sec.end = flash[Cur].end /\ sec.start = flash[Cur].start /\ sec.store = "USING"
  BY <1>3 DEF SectorType
<1> HIDE DEF sec
<1>5. cur.addr = Cur /\ cur.start = blob.time
  BY <1>2 DEF CurType, Cur
<1>6. db' = [db EXCEPT !.cur = cur]
  BY <1>1
<1> HIDE DEF cur
<1>7. db'.cur = cur /\ db'.last = db.last
  BY <1>2, <1>6 DEF DbType
<1>8. SecTimes(sec, clock)
  BY <1>2, <1>3, <1>4 DEF TimeInv, SecTimes
<1>9. /\ flash'[Cur] = sec
      /\ \A t \in Sectors : /\ SecTimes(flash'[t], clock')
                            /\ flash'[t].store = "FULL" => EndTimes(flash'[t])
      /\ Monotone(flash') /\ clock' >= 1
  BY <1>1, <1>2, <1>3, <1>4, <1>8, TimesPut
<1>10. Cur' = Cur /\ flash'[Cur'].log = <<>> /\ DOMAIN flash'[Cur'].log = {} /\ db'.cur.start <= clock'
  BY <1>1, <1>2, <1>4, <1>5, <1>7, <1>9 DEF Cur
<1>11. CurTimes'
  BY <1>1, <1>10 DEF CurTimes, StartsBefore
<1> QED
  BY <1>1, <1>7, <1>9, <1>11 DEF TimeInv

LEMMA StartTimeTimes ==
    ASSUME Inv, RingInv, TimeInv, StartTime
    PROVE  TimeInv'
<1> DEFINE sec == [flash[Cur] EXCEPT !.start = blob.time]
<1>1. /\ pc = "start" /\ flash' = [flash EXCEPT ![Cur] = sec] /\ pc' = "pre"
      /\ db' = db /\ clock' = clock
  BY DEF StartTime, Put
<1>2. /\ Cur \in Sectors /\ flash[Cur].store = "USING" /\ blob.time = clock /\ clock \in Nat
      /\ flash[Cur] \in SectorType /\ flash[Cur].log = <<>>
  BY <1>1 DEF Inv, CallOK, Appending, Settled, MemoryOK, TimeInv, CurTimes, FlashOK
<1>3. sec.log = <<>> /\ sec.end = flash[Cur].end /\ sec.start = clock /\ sec.store = "USING"
  BY <1>2 DEF SectorType
<1> HIDE DEF sec
<1>4. SecTimes(sec, clock)
  BY <1>2, <1>3 DEF TimeInv, SecTimes
<1>5. /\ flash'[Cur] = sec
      /\ \A t \in Sectors : /\ SecTimes(flash'[t], clock')
                            /\ flash'[t].store = "FULL" => EndTimes(flash'[t])
      /\ Monotone(flash') /\ clock' >= 1
  BY <1>1, <1>2, <1>3, <1>4, TimesPut
<1>6. db.cur.start <= clock
  BY <1>1 DEF TimeInv, CurTimes, Settled, StartsBefore
<1>7. Cur' = Cur /\ flash'[Cur'].log = <<>> /\ DOMAIN flash'[Cur'].log = {} /\ db'.cur.start <= clock'
  BY <1>1, <1>3, <1>5, <1>6 DEF Cur
<1>8. CurTimes'
  BY <1>1, <1>7 DEF CurTimes, StartsBefore
<1> QED
  BY <1>1, <1>5, <1>8 DEF TimeInv

(* The new log has the newest time.                                        *)
LEMMA PreWriteTimes ==
    ASSUME Inv, RingInv, TimeInv, PreWrite
    PROVE  TimeInv'
<1> DEFINE log == flash[Cur].log
           n == Len(log)
           new == Append(log, BlobNode)
           sec == [flash[Cur] EXCEPT !.log = new]
<1>1. /\ pc = "pre" /\ pc' = "write" /\ db' = db /\ clock' = clock
      /\ Cur \in Sectors /\ flash[Cur].store = "USING" /\ blob.time = clock /\ blob.id = count
      /\ log \in Seq(Node) /\ BlobNode \in Node /\ flash' = [flash EXCEPT ![Cur] = sec]
  BY PreWriteFacts
<1>2. /\ n \in Nat /\ DOMAIN log = 1..n /\ DOMAIN new = 1..(n + 1) /\ new[n + 1] = BlobNode
      /\ \A i \in 1..n : new[i] = log[i]
  BY <1>1, AppendProperties, LenProperties
<1>3. BlobNode.time = clock /\ BlobNode.id = count /\ clock \in Nat /\ clock >= 1
  BY <1>1 DEF BlobNode, Inv, MemoryOK, TimeInv
<1>4. flash[Cur] \in SectorType
  BY <1>1 DEF Inv, FlashOK
<1> HIDE DEF new, n
<1>5. sec.log = new /\ sec.end = flash[Cur].end /\ sec.start = flash[Cur].start /\ sec.store = "USING"
  BY <1>1, <1>4 DEF SectorType
<1> HIDE DEF sec
<1>6. flash'[Cur] = sec /\ \A t \in Sectors : t # Cur => flash'[t] = flash[t]
  BY <1>1 DEF Inv, FlashOK
<1>7. \A i \in DOMAIN new : (i \in DOMAIN log /\ new[i] = log[i]) \/ new[i] = BlobNode
  <2> SUFFICES ASSUME NEW i \in DOMAIN new PROVE (i \in DOMAIN log /\ new[i] = log[i]) \/ new[i] = BlobNode
    OBVIOUS
  <2>1. i \in 1..n \/ i = n + 1
    BY <1>2
  <2> QED
    BY <1>2, <2>1
<1>8. SecTimes(sec, clock)
  <2>1. SecTimes(flash[Cur], clock)
    BY <1>1 DEF TimeInv
  <2> QED
    BY <1>3, <1>5, <1>7, <2>1 DEF SecTimes
<1>9. \A s \in Sectors : /\ SecTimes(flash'[s], clock')
                         /\ flash'[s].store = "FULL" => EndTimes(flash'[s])
  BY <1>1, <1>5, <1>6, <1>8 DEF TimeInv
<1>10. Monotone(flash')
  <2> SUFFICES ASSUME NEW s \in Sectors, NEW t \in Sectors,
                      NEW i \in DOMAIN flash'[s].log, NEW j \in DOMAIN flash'[t].log,
                      flash'[s].log[i].id < flash'[t].log[j].id
               PROVE  flash'[s].log[i].time <= flash'[t].log[j].time
    BY DEF Monotone
  <2>1. \/ i \in DOMAIN flash[s].log /\ flash'[s].log[i] = flash[s].log[i]
        \/ flash'[s].log[i] = BlobNode
    BY <1>5, <1>6, <1>7
  <2>2. \/ j \in DOMAIN flash[t].log /\ flash'[t].log[j] = flash[t].log[j]
        \/ flash'[t].log[j] = BlobNode
    BY <1>5, <1>6, <1>7
  <2>3. CASE flash'[t].log[j] = BlobNode
    <3>1. CASE i \in DOMAIN flash[s].log /\ flash'[s].log[i] = flash[s].log[i]
      <4>1. SecTimes(flash[s], clock)
        BY DEF TimeInv
      <4> QED
        BY <1>3, <2>3, <3>1, <4>1 DEF SecTimes
    <3> QED
      BY <1>3, <2>1, <2>3, <3>1
  <2>4. CASE j \in DOMAIN flash[t].log /\ flash'[t].log[j] = flash[t].log[j]
    <3>1. flash[t].log[j].id < count /\ flash[t].log[j].id \in Nat /\ count \in Nat
      BY <1>1, <2>4, NodeTypes DEF RingInv, IdsOK, Appending, Inv, MemoryOK
    <3>2. i \in DOMAIN flash[s].log /\ flash'[s].log[i] = flash[s].log[i]
      BY <1>3, <2>1, <2>4, <3>1
    <3> QED
      BY <2>4, <3>2 DEF TimeInv, Monotone
  <2> QED
    BY <2>2, <2>3, <2>4
<1>11. CurTimes'
  <2>1. Cur' = Cur /\ flash'[Cur'].log = new
    BY <1>1, <1>5, <1>6 DEF Cur
  <2>2. StartsBefore(db.cur.start, log)
    BY <1>1 DEF TimeInv, CurTimes, Settled
  <2>3. StartsBefore(db.cur.start, flash[Cur].log)'
    BY <1>1, <1>3, <1>7, <2>1, <2>2 DEF StartsBefore
  <2> QED
    BY <1>1, <2>3 DEF CurTimes, Settled
<1>12. clock' >= 1 /\ db'.last <= clock'
  BY <1>1 DEF TimeInv
<1> QED
  BY <1>9, <1>10, <1>11, <1>12 DEF TimeInv

LEMMA WriteTimes ==
    ASSUME Inv, RingInv, TimeInv, Write
    PROVE  TimeInv'
<1> DEFINE log == flash[Cur].log
           n == db.cur.n
           new == [log EXCEPT ![n + 1].st = "WRITE"]
           sec == [flash[Cur] EXCEPT !.log = new]
           c1 == [db.cur EXCEPT !.endTime = blob.time]
           c2 == [c1 EXCEPT !.n = n + 1]
           c3 == [c2 EXCEPT !.data = db.cur.data - blob.size]
           cur == [c3 EXCEPT !.remain = db.cur.remain - (1 + blob.size)]
           d1 == [db EXCEPT !.cur = cur]
           last == IF blob.time >= db.last THEN blob.time ELSE db.last
<1>1. /\ pc = "write" /\ pc' = "ready" /\ clock' = clock
      /\ Cur \in Sectors /\ flash[Cur].store = "USING" /\ blob.time = clock
      /\ log \in Seq(Node) /\ n \in Nat /\ Len(log) = n + 1 /\ DOMAIN log = 1..(n + 1) /\ log[n + 1] = BlobNode
      /\ flash' = [flash EXCEPT ![Cur] = sec]
  BY WriteFacts
<1>2. db' = [d1 EXCEPT !.last = last]
  BY DEF Write
<1>3. /\ db \in DbType /\ db.cur \in CurType /\ flash[Cur] \in SectorType /\ clock \in Nat /\ clock >= 1
      /\ db.last \in Int /\ db.last <= clock
  BY <1>1, CurType_ DEF Inv, FlashOK, MemoryOK, TimeInv
<1>4. log[n + 1].time = clock /\ log[n + 1].st = "PRE_WRITE" /\ log[n + 1] \in Node
  <2>1. log[n + 1] \in Node
    BY <1>1, ElementOfSeq
  <2> QED
    BY <1>1, <2>1 DEF BlobNode
<1>5. /\ \A i \in DOMAIN log : new[i].id = log[i].id /\ new[i].time = log[i].time
      /\ DOMAIN new = DOMAIN log /\ new[n + 1].st = "WRITE" /\ new \in Seq(Node) /\ Len(new) = n + 1
  <2>1. new \in Seq(Node) /\ Len(new) = n + 1
    <3>1. SectorOK(flash[Cur]) /\ Placed(log)
      BY <1>1 DEF Inv, FlashOK, SectorOK
    <3> QED
      BY <1>1, <3>1, PlacedWhole
  <2>2. DOMAIN new = DOMAIN log /\ new[n + 1] = [log[n + 1] EXCEPT !.st = "WRITE"]
        /\ \A i \in DOMAIN log : i # n + 1 => new[i] = log[i]
    BY <1>1
  <2>3. new[n + 1].st = "WRITE" /\ new[n + 1].id = log[n + 1].id /\ new[n + 1].time = log[n + 1].time
    <3>1. \A node \in Node : LET whole == [node EXCEPT !.st = "WRITE"]
                            IN  whole.st = "WRITE" /\ whole.id = node.id /\ whole.time = node.time
      BY DEF Node
    <3> HIDE DEF new, log, n
    <3> QED
      BY <1>4, <2>2, <3>1
  <2> HIDE DEF new
  <2> QED
    BY <2>1, <2>2, <2>3
<1> HIDE DEF new
<1>6. sec.log = new /\ sec.end = flash[Cur].end /\ sec.start = flash[Cur].start /\ sec.store = "USING"
  BY <1>1, <1>3 DEF SectorType
<1> HIDE DEF sec
<1>7. cur.addr = Cur /\ cur.start = db.cur.start /\ cur.endTime = blob.time
  <2>1. c1.addr = Cur /\ c1.start = db.cur.start /\ c1.endTime = blob.time
    BY <1>3 DEF CurType, Cur
  <2>2. c2.addr = c1.addr /\ c2.start = c1.start /\ c2.endTime = c1.endTime
    BY <1>3 DEF CurType
  <2>3. c3.addr = c2.addr /\ c3.start = c2.start /\ c3.endTime = c2.endTime
    BY <1>3 DEF CurType
  <2>4. cur.addr = c3.addr /\ cur.start = c3.start /\ cur.endTime = c3.endTime
    BY <1>3 DEF CurType
  <2> HIDE DEF cur, c1, c2, c3
  <2> QED
    BY <2>1, <2>2, <2>3, <2>4
<1> HIDE DEF cur
<1>8. db'.cur = cur /\ db'.last = clock
  <2>1. d1.cur = cur /\ DOMAIN d1 = DOMAIN db
    BY <1>3 DEF DbType
  <2>2. last = clock
    BY <1>1, <1>3
  <2> HIDE DEF last
  <2>3. db'.cur = d1.cur /\ db'.last = last
    BY <1>2, <1>3 DEF DbType
  <2> QED
    BY <2>1, <2>2, <2>3
<1>9. SecTimes(sec, clock)
  <2>1. SecTimes(flash[Cur], clock)
    BY <1>1 DEF TimeInv
  <2> QED
    BY <1>5, <1>6, <2>1 DEF SecTimes
<1>10. /\ flash'[Cur] = sec
       /\ \A t \in Sectors : /\ SecTimes(flash'[t], clock')
                             /\ flash'[t].store = "FULL" => EndTimes(flash'[t])
       /\ Monotone(flash') /\ clock' >= 1
  BY <1>1, <1>5, <1>6, <1>9, TimesPut
<1>11. LastTime(new) = clock
  <2>1. new[n + 1].time = clock
    BY <1>1, <1>4, <1>5
  <2> QED
    BY <1>5, <2>1 DEF LastTime, TimeOf, Torn
<1>12. CurTimes'
  <2>1. Cur' = Cur /\ flash'[Cur'].log = new
    BY <1>6, <1>7, <1>8, <1>10 DEF Cur
  <2>2. StartsBefore(db.cur.start, log)
    BY <1>1 DEF TimeInv, CurTimes
  <2>3. StartsBefore(db.cur.start, flash[Cur].log)'
    BY <1>1, <1>5, <1>7, <1>8, <2>1, <2>2, ZenonT(60) DEF StartsBefore
  <2>4. (db.last = LastTime(flash[Cur].log) /\ db.cur.endTime = LastTime(flash[Cur].log))'
    BY <1>1, <1>7, <1>8, <1>11, <2>1 DEF LastTime, TimeOf, Torn
  <2> QED
    BY <1>1, <2>3, <2>4 DEF CurTimes
<1>13. db'.last <= clock'
  BY <1>1, <1>3, <1>8
<1> QED
  BY <1>10, <1>12, <1>13 DEF TimeInv

(* The steps that leave the flash and the clock alone and end no call.     *)
LEMMA QuietTimes ==
    ASSUME Inv, TimeInv, flash' = flash, clock' = clock, db'.last <= clock,
           \/ pc' \in {"format", "assert", "nosector", "off"}
           \/ pc' = pc /\ db'.cur = db.cur /\ db'.last = db.last
    PROVE  TimeInv'
<1>1. CASE pc' \in {"format", "assert", "nosector", "off"}
  <2>1. CurTimes'
    BY <1>1 DEF CurTimes, Settled
  <2> QED
    BY <2>1 DEF TimeInv, SecTimes, EndTimes, EndOf, LastTime, TimeOf, Torn, Monotone
<1>2. CASE pc' = pc /\ db'.cur = db.cur /\ db'.last = db.last
  <2>1. CurTimes'
    BY <1>2 DEF TimeInv, CurTimes, Cur, StartsBefore, EndTimes, EndOf, LastTime, TimeOf, Torn
  <2> QED
    BY <2>1 DEF TimeInv, SecTimes, EndTimes, EndOf, LastTime, TimeOf, Torn, Monotone
<1> QED
  BY <1>1, <1>2

LEMMA CleanTimes ==
    ASSUME Inv, TimeInv, Clean \/ StartFormats \/ StartAsserts \/ StartFindsNone
    PROVE  TimeInv'
<1>1. pc' \in {"format", "assert", "nosector"} /\ flash' = flash /\ db' = db /\ clock' = clock
  BY DEF Clean, StartFormats, StartAsserts, StartFindsNone
<1>2. db'.last <= clock
  BY <1>1 DEF TimeInv
<1> QED
  BY <1>1, <1>2, QuietTimes

LEMMA SetRolloverTimes ==
    ASSUME Inv, TimeInv, SetRollover
    PROVE  TimeInv'
<1>1. pc' = pc /\ flash' = flash /\ clock' = clock /\ db' = [db EXCEPT !.rollover = ~@]
  BY DEF SetRollover
<1>2. db'.cur = db.cur /\ db'.last = db.last
  <2>1. db \in DbType
    BY CurType_ DEF Inv
  <2> QED
    BY <1>1, <2>1 DEF DbType
<1>3. db'.last <= clock
  BY <1>2 DEF TimeInv
<1> QED
  BY <1>1, <1>2, <1>3, QuietTimes

LEMMA CrashTimes ==
    ASSUME Inv, TimeInv, Crash
    PROVE  TimeInv'
<1>1. pc' = "off" /\ flash' = flash /\ clock' = clock /\ db' = Memory
  BY DEF Crash
<1>2. db'.last <= clock
  <2>1. clock \in Nat
    BY DEF Inv, MemoryOK
  <2> QED
    BY <1>1, <2>1 DEF Memory
<1> QED
  BY <1>1, <1>2, QuietTimes

LEMMA DeinitTimes ==
    ASSUME Inv, TimeInv, Deinit
    PROVE  TimeInv'
<1>1. pc' = "off" /\ flash' = flash /\ clock' = clock /\ db' = [Memory EXCEPT !.last = db.last]
  BY DEF Deinit
<1>2. db'.last <= clock
  BY <1>1 DEF Memory, TimeInv
<1> QED
  BY <1>1, <1>2, QuietTimes

LEMMA FormatEraseTimes ==
    ASSUME Inv, TimeInv, FormatErase
    PROVE  TimeInv'
<1>1. /\ pc = "format" /\ flash' = [flash EXCEPT ![at] = Erased] /\ pc' = "formatmagic"
      /\ db' = db /\ clock' = clock
  BY DEF FormatErase, Put
<1>2. at \in Sectors /\ clock \in Nat
  BY <1>1 DEF Inv, CallOK, MemoryOK
<1>3. /\ \A t \in Sectors : /\ SecTimes(flash'[t], clock')
                            /\ flash'[t].store = "FULL" => EndTimes(flash'[t])
      /\ Monotone(flash') /\ clock' >= 1
  BY <1>1, <1>2, BlankTimes, TimesPut
<1>4. CurTimes'
  BY <1>1 DEF CurTimes, Settled
<1> QED
  BY <1>1, <1>3, <1>4 DEF TimeInv

LEMMA FormatMagicTimes ==
    ASSUME Inv, TimeInv, FormatMagic
    PROVE  TimeInv'
<1>1. /\ pc = "formatmagic" /\ at \in Sectors /\ flash' = [flash EXCEPT ![at] = Formatted] /\ clock' = clock
      /\ at < NSectors => pc' = "format" /\ db' = db
      /\ ~(at < NSectors) => pc' = "ready" /\ db'.cur.addr = 1 /\ \A s \in Sectors : flash'[s] = Formatted
  BY FormatMagicFacts
<1>2. clock \in Nat /\ clock >= 1
  BY DEF Inv, MemoryOK, TimeInv
<1>3. /\ \A t \in Sectors : /\ SecTimes(flash'[t], clock')
                            /\ flash'[t].store = "FULL" => EndTimes(flash'[t])
      /\ Monotone(flash') /\ clock' >= 1
  BY <1>1, <1>2, BlankTimes, TimesPut
<1>4. CASE at < NSectors
  <2>1. CurTimes'
    BY <1>1, <1>4 DEF CurTimes, Settled
  <2> QED
    BY <1>1, <1>3, <1>4, <2>1 DEF TimeInv
<1>5. CASE ~(at < NSectors)
  <2> DEFINE cur == [Memory.cur EXCEPT !.addr = 1, !.store = "EMPTY", !.start = Unwritten,
                                       !.data = Room, !.remain = Room]
  <2>1. cur.start = Unwritten
    BY DEF Memory
  <2>2. db' = [db EXCEPT !.cur = cur, !.oldest = 1, !.last = 0]
    BY <1>5 DEF FormatMagic
  <2> HIDE DEF cur
  <2>3. db'.cur = cur /\ db'.last = 0
    <3>1. db \in DbType
      BY CurType_ DEF Inv
    <3> QED
      BY <2>2, <3>1 DEF DbType
  <2>4. Cur' \in Sectors
    BY <1>1, <1>5, SectorsFacts DEF Cur
  <2>5. flash'[Cur'].log = <<>> /\ DOMAIN flash'[Cur'].log = {} /\ db'.cur.start <= clock'
    BY <1>1, <1>2, <1>5, <2>1, <2>3, <2>4, BlankSectors DEF Unwritten
  <2>6. CurTimes'
    BY <1>1, <1>5, <2>5 DEF CurTimes, StartsBefore
  <2> QED
    BY <1>1, <1>2, <1>3, <2>3, <2>6 DEF TimeInv
<1> QED
  BY <1>4, <1>5

(* What read_sector_info finds.                                            *)
LEMMA InfoTimes ==
    ASSUME Inv, TimeInv, NEW s \in Sectors, NEW traversal \in BOOLEAN, NEW old \in Int, old <= clock
    PROVE  LET info == SectorInfo(s, traversal, old)
           IN  /\ info.start = flash[s].start /\ info.endTime <= clock
               /\ traversal /\ flash[s].store = "USING" /\ flash[s].log # <<>>
                      => info.endTime = LastTime(flash[s].log)
<1> DEFINE sec == flash[s]
           logs == IF sec.store = "USING" /\ traversal THEN sec.log ELSE <<>>
           endTime == IF logs # <<>> THEN TimeOf(Last(logs))
                      ELSE IF EndInfo(s).st = "WRITE" THEN EndInfo(s).time ELSE old
           info == SectorInfo(s, traversal, old)
<1>1. info.start = sec.start /\ info.endTime = endTime
  BY DEF SectorInfo
<1>2. SecTimes(sec, clock) /\ sec.log \in Seq(Node) /\ clock \in Nat
  BY NodeTypes DEF TimeInv, Inv, MemoryOK
<1>3. EndInfo(s).time <= clock
  BY <1>2 DEF EndInfo, SecTimes
<1>4. ASSUME logs # <<>> PROVE logs = sec.log /\ TimeOf(Last(logs)) = LastTime(sec.log) /\ LastTime(sec.log) <= clock
  <2>1. logs = sec.log /\ sec.log # <<>>
    BY <1>4
  <2>2. Len(sec.log) \in DOMAIN sec.log
    BY <1>2, <2>1, EmptySeq, LenProperties
  <2>3. sec.log[Len(sec.log)].time <= clock
    BY <1>2, <2>2 DEF SecTimes
  <2>4. LastTime(sec.log) <= clock
    BY <1>2, <2>3 DEF LastTime, TimeOf
  <2>5. TimeOf(Last(sec.log)) = LastTime(sec.log)
    BY DEF Last, LastTime
  <2> HIDE DEF logs, sec
  <2> QED
    BY <2>1, <2>4, <2>5
<1> HIDE DEF info, sec
<1>5. endTime <= clock
  <2> HIDE DEF logs
  <2> QED
    BY <1>3, <1>4
<1>6. traversal /\ sec.store = "USING" /\ sec.log # <<>> => endTime = LastTime(sec.log)
  BY <1>4
<1> QED
  BY <1>1, <1>5, <1>6 DEF info, sec

LEMMA StartTimes ==
    ASSUME Inv, TimeInv, NEW old \in {0} \union {EndInfo(s).time : s \in Sectors}, Start(old)
    PROVE  TimeInv'
<1> DEFINE cur == SectorInfo(CurSec, TRUE, old)
           before == SectorInfo(Before(CurSec), FALSE, old)
           last == CASE cur.store = "USING" -> cur.endTime
                     [] cur.store = "EMPTY" /\ After(Latest) # CurSec -> before.endTime
                     [] OTHER -> db.last
<1>1. /\ pc' = "ready" /\ flash' = flash /\ clock' = clock /\ Using \union Empty # {}
      /\ db' = [cur |-> cur, oldest |-> After(Latest), rollover |-> TRUE, last |-> last]
  BY DEF Start
<1>2. CurSec \in Sectors /\ flash[CurSec].store \in {"EMPTY", "USING"} /\ Before(CurSec) \in Sectors
  BY <1>1, ChosenSectors, SectorsFacts DEF Using, Empty
<1>3. old \in Int /\ old <= clock
  <2>1. ASSUME NEW s \in Sectors PROVE EndInfo(s).time \in Int /\ EndInfo(s).time <= clock
    <3>1. SecTimes(flash[s], clock) /\ \A i \in {1, 2} : flash[s].end[i].time \in Int
      BY NodeTypes DEF TimeInv, Inv
    <3> QED
      BY <3>1 DEF EndInfo, SecTimes
  <2>2. clock \in Nat
    BY DEF Inv, MemoryOK
  <2> QED
    BY <2>1, <2>2
<1>4. /\ cur.start = flash[CurSec].start /\ cur.endTime <= clock
      /\ flash[CurSec].store = "USING" /\ flash[CurSec].log # <<>> => cur.endTime = LastTime(flash[CurSec].log)
      /\ before.endTime <= clock
  BY <1>2, <1>3, InfoTimes
<1>5. cur.addr = CurSec /\ cur.store = flash[CurSec].store
  BY DEF SectorInfo
<1> HIDE DEF cur, before
<1>6. last <= clock
  BY <1>4 DEF TimeInv
<1>7. db'.cur = cur /\ db'.last = last /\ Cur' = CurSec
  BY <1>1, <1>5 DEF Cur
<1>8. cur.store = "USING" => last = cur.endTime
  OBVIOUS
<1> HIDE DEF last
<1>9. flash[CurSec].log # <<>> => flash[CurSec].store = "USING"
  BY <1>2, BlankSectors DEF Inv, FlashOK, SectorOK
<1>10. StartsBefore(cur.start, flash[CurSec].log)
  <2>1. SecTimes(flash[CurSec], clock)
    BY <1>2 DEF TimeInv
  <2> QED
    BY <1>4, <2>1 DEF SecTimes, StartsBefore
<1>11. CurTimes'
  <2>1. StartsBefore(db.cur.start, flash[Cur].log)'
    BY <1>1, <1>7, <1>10 DEF StartsBefore
  <2>2. (flash[Cur].log # <<>> => db.last = LastTime(flash[Cur].log) /\ db.cur.endTime = LastTime(flash[Cur].log))'
    BY <1>1, <1>4, <1>5, <1>7, <1>8, <1>9 DEF LastTime, TimeOf, Torn
  <2> QED
    BY <1>1, <2>1, <2>2 DEF CurTimes
<1> QED
  <2>1. (\A s \in Sectors : /\ SecTimes(flash[s], clock)
                            /\ flash[s].store = "FULL" => EndTimes(flash[s]))'
    BY <1>1 DEF TimeInv
  <2>2. Monotone(flash') /\ clock' >= 1
    BY <1>1 DEF TimeInv
  <2>3. db'.last <= clock'
    BY <1>1, <1>6, <1>7
  <2> QED
    BY <1>11, <2>1, <2>2, <2>3 DEF TimeInv

LEMMA TimesStep ==
    ASSUME Inv, RingInv, TimeInv, [Next]_vars
    PROVE  TimeInv'
<1>1. ASSUME NEW size \in Sizes, NEW step \in Steps, Append_(size, step) PROVE TimeInv'
  BY <1>1, AppendTimes
<1>2. ASSUME NEW old \in {0} \union {EndInfo(s).time : s \in Sectors}, Start(old) PROVE TimeInv'
  BY <1>2, StartTimes
<1>3. CASE UNCHANGED vars
  <2>1. flash' = flash /\ clock' = clock /\ pc' = pc /\ db' = db
    BY <1>3 DEF vars
  <2>2. db'.last <= clock
    BY <2>1 DEF TimeInv
  <2> QED
    BY <2>1, <2>2, QuietTimes
<1> QED
  BY <1>1, <1>2, <1>3, EndPreWriteTimes, EndWriteTimes, SectorFullTimes, EraseNextTimes, FormatNextTimes,
     SectorUsingTimes, StartTimeTimes, PreWriteTimes, WriteTimes, CleanTimes, FormatEraseTimes, FormatMagicTimes,
     SetRolloverTimes, DeinitTimes, CrashTimes DEF Next

(* The times of the logs rise with their ids, a header's start is not      *)
(* after any log of its sector, the end node of a FULL sector holds the    *)
(* time of its last log, and so does cur_sec between two calls, whatever   *)
(* a start rebuilt it from, the three power failures of CalmCrashes apart. *)
THEOREM TimeInvariant ==
    ASSUME CalmCrashes
    PROVE  Spec => []TimeInv
<1>1. Init => TimeInv
  BY TimesInit
<1>2. Inv /\ RingInv /\ TimeInv /\ [Next]_vars => TimeInv'
  BY TimesStep
<1> QED
  BY <1>1, <1>2, Invariant, RingInvariant, PTL DEF Spec

-----------------------------------------------------------------------------
(* What fdb_tsl_iter and fdb_tsl_iter_by_time call back for.               *)
Returned == Node \union {NoLog}

LEMMA NoLogFacts ==
    NoLog \notin Node /\ TimeOf(NoLog) = -1 /\ NoLog \in Returned
<1>1. NoLog.st = "UNUSED" /\ NoLog.time = -1
  BY DEF NoLog, Unwritten
<1> QED
  BY <1>1 DEF Node, TimeOf, Torn, Returned

ReadOrder == {pair \in Returned \X Returned :
                  pair[1] \in Node /\ pair[2] \in Node => pair[1].id < pair[2].id}

(* A sector with logs is read up to the last; of those without any, only   *)
(* the USING one is read, and gives nothing but unwritten nodes.           *)
LEMMA SectorRead ==
    ASSUME Inv, RingInv, TimeInv, pc = "ready", NEW s \in Sectors, NEW stale \in Nat
    PROVE  /\ flash[s].log # <<>> => ReadIn(s, stale) = flash[s].log
           /\ flash[s].log = <<>> => /\ ReadIn(s, stale) \in Seq({NoLog})
                                     /\ ReadIn(s, stale) # <<>> => s \in Using
<1>1. flash[s].store \in {"EMPTY", "USING", "FULL"}
  BY DEF RingInv, RingOK, Calm, Good
<1>2. flash[s].store = "EMPTY" => flash[s].log = <<>>
  BY BlankSectors DEF Inv, FlashOK, SectorOK
<1>3. flash[s].store = "FULL" => flash[s].log # <<>>
  BY DEF TimeInv, EndTimes
<1>4. ASSUME flash[s].log # <<>> PROVE ReadIn(s, stale) = flash[s].log
  <2>1. flash[s].log \in Seq(Node) /\ Nodes(s) = Len(flash[s].log)
    BY <1>2, <1>4, LogsInAll
  <2>2. Len(flash[s].log) \in Nat /\ Len(flash[s].log) # 0
    BY <1>4, <2>1, LenProperties, EmptySeq
  <2>3. ReadIn(s, stale) = SubSeq(flash[s].log, 1, IF Nodes(s) > 1 THEN Nodes(s) ELSE 1)
    BY <1>1, <1>2, <1>4 DEF ReadIn
  <2>4. (IF Nodes(s) > 1 THEN Nodes(s) ELSE 1) = Len(flash[s].log)
    BY <2>1, <2>2
  <2> QED
    BY <2>1, <2>3, <2>4, SubSeqFull
<1>5. ASSUME flash[s].log = <<>>
      PROVE  ReadIn(s, stale) \in Seq({NoLog}) /\ (ReadIn(s, stale) # <<>> => s \in Using)
  <2>1. CASE flash[s].store = "EMPTY"
    BY <2>1 DEF ReadIn
  <2>2. CASE flash[s].store = "USING"
    <3> DEFINE n == IF s = 1 /\ stale > 1 THEN stale ELSE 1
    <3>1. n \in Nat
      OBVIOUS
    <3>2. ReadIn(s, stale) = [i \in 1..n |-> NoLog]
      BY <1>5, <2>2 DEF ReadIn
    <3> HIDE DEF n
    <3>3. [i \in 1..n |-> NoLog] \in Seq({NoLog})
      BY <3>1
    <3> QED
      BY <2>2, <3>2, <3>3 DEF Using
  <2> QED
    BY <1>1, <1>3, <1>5, <2>1, <2>2
<1> QED
  BY <1>4, <1>5

LEMMA IterSorted ==
    ASSUME Inv, RingInv, TimeInv, pc = "ready", NEW stale \in Nat
    PROVE  /\ Iter(stale) \in Seq(Returned) /\ Sorted(Iter(stale), ReadOrder)
           /\ \A x : x \in Elems(Iter(stale)) /\ x # NoLog <=> \E s \in Sectors : x \in LogsOn(s)
           /\ NoLog \in Elems(Iter(stale)) => \E s \in Using : flash[s].log = <<>>
<1> DEFINE seqs == [i \in Sectors |-> ReadIn(Ring[i], stale)]
<1>1. db.oldest \in Sectors
  BY DEF RingInv, RingOK, Calm
<1>2. NSectors \in Nat \ {0} /\ Sectors = 1..NSectors
  BY SectorsFacts
<1>3. /\ \A i \in Sectors : /\ Ring[i] \in Sectors /\ LogsIn(Ring[i]) = flash[Ring[i]].log
                            /\ flash[Ring[i]].log \in Seq(Node) /\ Sorted(flash[Ring[i]].log, ById)
      /\ \A i, j \in Sectors : i < j => Precedes(flash[Ring[i]].log, flash[Ring[j]].log, ById)
  BY RingLogs
<1>4. ASSUME NEW i \in Sectors
      PROVE  \/ seqs[i] = flash[Ring[i]].log /\ flash[Ring[i]].log # <<>>
             \/ /\ seqs[i] \in Seq({NoLog}) /\ flash[Ring[i]].log = <<>>
                /\ seqs[i] # <<>> => Ring[i] \in Using
  BY <1>3, SectorRead
<1>5. Iter(stale) = FlattenSeq(seqs)
  BY DEF Iter
<1>6. ASSUME NEW s \in Sectors PROVE \A x \in LogsOn(s) : x \in Node /\ x # NoLog
  BY IdNat, NoLogFacts DEF Inv, LogsOn
<1>7. seqs = [i \in Sectors |-> seqs[i]]
  OBVIOUS
<1> HIDE DEF seqs
<1>8. ASSUME NEW i \in Sectors
      PROVE  /\ seqs[i] \in Seq(Returned) /\ Sorted(seqs[i], ReadOrder)
             /\ \A x \in Elems(seqs[i]) : x # NoLog => x \in LogsOn(Ring[i])
             /\ \A x \in LogsOn(Ring[i]) : x \in Elems(seqs[i])
             /\ NoLog \in Elems(seqs[i]) => Ring[i] \in Using /\ flash[Ring[i]].log = <<>>
  <2>1. Ring[i] \in Sectors
    BY <1>3
  <2>2. CASE seqs[i] = flash[Ring[i]].log /\ flash[Ring[i]].log # <<>>
    <3> DEFINE log == flash[Ring[i]].log
    <3>1. log \in Seq(Node) /\ Sorted(log, ById) /\ Elems(log) = LogsOn(Ring[i])
      BY <1>3 DEF Elems, LogsOn
    <3> HIDE DEF log
    <3>2. log \in Seq(Returned)
      <4>1. Node \subseteq Returned
        BY DEF Returned
      <4> QED
        BY <3>1, <4>1, SeqMonotonic
    <3>3. Sorted(log, ReadOrder)
      <4>1. ById \subseteq ReadOrder
        BY DEF ById, ReadOrder, Returned
      <4> QED
        BY <3>1, <4>1 DEF Sorted
    <3>4. seqs[i] = log
      BY <2>2 DEF log
    <3>5. \A x \in Elems(log) : x \in LogsOn(Ring[i]) /\ x # NoLog
      BY <1>6, <2>1, <3>1
    <3> QED
      BY <3>1, <3>2, <3>3, <3>4, <3>5
  <2>3. CASE /\ seqs[i] \in Seq({NoLog}) /\ flash[Ring[i]].log = <<>>
             /\ seqs[i] # <<>> => Ring[i] \in Using
    <3>1. \A j \in DOMAIN seqs[i] : seqs[i][j] = NoLog
      <4> DEFINE seq == seqs[i]
      <4>1. seq \in Seq({NoLog})
        BY <2>3
      <4> HIDE DEF seq
      <4>2. \A j \in DOMAIN seq : seq[j] \in {NoLog}
        BY <4>1, ElementOfSeq, LenProperties
      <4> QED
        BY <4>2 DEF seq
    <3>2. seqs[i] \in Seq(Returned)
      <4>1. {NoLog} \subseteq Returned
        BY NoLogFacts
      <4> QED
        BY <2>3, <4>1, SeqMonotonic
    <3>3. <<NoLog, NoLog>> \in ReadOrder
      BY NoLogFacts DEF ReadOrder
    <3>4. Sorted(seqs[i], ReadOrder)
      BY <3>1, <3>3 DEF Sorted
    <3>5. LogsOn(Ring[i]) = {}
      BY <2>3 DEF LogsOn
    <3>6. seqs[i] = <<>> => Elems(seqs[i]) = {}
      BY DEF Elems
    <3>7. \A x \in Elems(seqs[i]) : x = NoLog
      BY <3>1 DEF Elems
    <3> QED
      BY <2>3, <3>2, <3>4, <3>5, <3>6, <3>7
  <2> QED
    BY <1>4, <2>2, <2>3
<1>9. ASSUME NEW i \in Sectors, NEW j \in Sectors, i < j
      PROVE  Precedes(seqs[i], seqs[j], ReadOrder)
  <2> SUFFICES ASSUME NEW x \in Elems(seqs[i]), NEW y \in Elems(seqs[j]) PROVE <<x, y>> \in ReadOrder
    BY DEF Precedes
  <2>1. x = NoLog \/ x \in LogsOn(Ring[i])
    BY <1>8
  <2>2. y = NoLog \/ y \in LogsOn(Ring[j])
    BY <1>8
  <2>3. x \in Returned /\ y \in Returned
    BY <1>3, <1>6, <2>1, <2>2, NoLogFacts DEF Returned
  <2>4. CASE x = NoLog \/ y = NoLog
    BY <2>3, <2>4, NoLogFacts DEF ReadOrder
  <2>5. CASE x \in LogsOn(Ring[i]) /\ y \in LogsOn(Ring[j])
    <3>1. <<x, y>> \in ById
      BY <1>3, <1>9, <2>5 DEF Precedes, Elems, LogsOn
    <3> QED
      BY <2>3, <3>1 DEF ById, ReadOrder
  <2> QED
    BY <2>1, <2>2, <2>4, <2>5
<1>10. /\ FlattenSeq(seqs) \in Seq(Returned) /\ Sorted(FlattenSeq(seqs), ReadOrder)
       /\ Elems(FlattenSeq(seqs)) = AllIn(seqs, NSectors)
  <2>1. \A i \in 1..NSectors : Sorted(seqs[i], ReadOrder)
    BY <1>2, <1>8
  <2>2. \A i, j \in 1..NSectors : i < j => Precedes(seqs[i], seqs[j], ReadOrder)
    BY <1>2, <1>9
  <2>3. NSectors \in Nat \ {0} /\ seqs \in [1..NSectors -> Seq(Returned)]
    BY <1>2, <1>7, <1>8
  <2> QED
    BY <2>1, <2>2, <2>3, FlattenSorted, Zenon
<1>11. \A x : x \in AllIn(seqs, NSectors) <=> \E i \in Sectors : x \in Elems(seqs[i])
  BY <1>2 DEF AllIn
<1>12. ASSUME NEW x, \E i \in Sectors : x \in Elems(seqs[i]), x # NoLog
       PROVE  \E s \in Sectors : x \in LogsOn(s)
  BY <1>3, <1>8, <1>12
<1>13. ASSUME NEW x, NEW s \in Sectors, x \in LogsOn(s)
       PROVE  (\E i \in Sectors : x \in Elems(seqs[i])) /\ x # NoLog
  <2>1. PICK i \in Sectors : Ring[i] = s
    BY <1>1, RingCovers
  <2> QED
    BY <1>6, <1>8, <1>13, <2>1
<1>14. (\E i \in Sectors : NoLog \in Elems(seqs[i])) => \E s \in Using : flash[s].log = <<>>
  BY <1>8
<1> QED
  BY <1>5, <1>10, <1>11, <1>12, <1>13, <1>14

(* Between two calls fdb_tsl_iter calls back once for every log the flash  *)
(* holds and in the order of the appends, for every ring and whatever      *)
(* power failures came between the calls that wrote it, but for the three  *)
(* of CalmCrashes; for an unwritten node only while the USING sector has   *)
(* no log, whatever node end_idx named before.                             *)
THEOREM EachTSLAlways ==
    ASSUME CalmCrashes
    PROVE  Spec => []EachTSL
<1>1. Inv /\ RingInv /\ TimeInv => EachTSL
  <2> SUFFICES ASSUME Inv, RingInv, TimeInv, pc = "ready", NEW stale \in 0..Room
               PROVE  LET iter == Iter(stale)
                          logs == {i \in DOMAIN iter : iter[i] # NoLog}
                      IN  /\ {iter[i] : i \in logs} = UNION {LogsOn(s) : s \in Sectors}
                          /\ \A i, j \in logs : i < j => iter[i].id < iter[j].id
                          /\ logs # DOMAIN iter => \E s \in Using : flash[s].log = <<>>
    BY DEF EachTSL
  <2> DEFINE iter == Iter(stale)
             logs == {i \in DOMAIN iter : iter[i] # NoLog}
  <2>1. /\ iter \in Seq(Returned) /\ Sorted(iter, ReadOrder)
        /\ \A x : x \in Elems(iter) /\ x # NoLog <=> \E s \in Sectors : x \in LogsOn(s)
        /\ NoLog \in Elems(iter) => \E s \in Using : flash[s].log = <<>>
    <3>1. stale \in Nat
      BY TsdbAssumption
    <3> QED
      BY <3>1, IterSorted
  <2> HIDE DEF iter
  <2>2. \A i \in logs : iter[i] \in Node
    BY <2>1, ElementOfSeq, LenProperties DEF Returned
  <2>3. \A i, j \in logs : i < j => iter[i].id < iter[j].id
    BY <2>1, <2>2 DEF Sorted, ReadOrder
  <2>4. {iter[i] : i \in logs} = UNION {LogsOn(s) : s \in Sectors}
    BY <2>1 DEF Elems
  <2>5. logs # DOMAIN iter => NoLog \in Elems(iter)
    BY DEF Elems
  <2> QED
    BY <2>1, <2>3, <2>4, <2>5 DEF iter
<1> QED
  BY <1>1, Invariant, RingInvariant, TimeInvariant, PTL

-----------------------------------------------------------------------------
LEMMA Half ==
    ASSUME NEW i \in Int, NEW j \in Int, i <= j
    PROVE  i + (j - i) \div 2 \in i..j
<1> DEFINE d == (j - i) \div 2
<1>1. d \in Int /\ 0 <= d /\ d <= j - i
  <2>1. j - i \in Nat
    OBVIOUS
  <2> DEFINE k == j - i
  <2> HIDE DEF k
  <2>2. k \in Nat => k \div 2 \in Int /\ 0 <= k \div 2 /\ k \div 2 <= k
    OBVIOUS
  <2> QED
    BY <2>1, <2>2 DEF k
<1> HIDE DEF d
<1> QED
  BY <1>1

(* The binary search: the first node whose time is not before from.        *)
LEMMA SearchFinds ==
    ASSUME NEW s, NEW from, NEW n \in Nat, n = Nodes(s), NEW r \in 1..(n + 1),
           \A k \in 1..n : NodeTime(s, k) < from <=> k < r
    PROVE  SearchStart(s, from) = r
<1> DEFINE D == (1..(n + 1)) \X (0..n)
           mid(i, j) == i + (j - i) \div 2
           body(h, b) == IF b[1] > b[2] THEN b[1]
                         ELSE IF NodeTime(s, mid(b[1], b[2])) < from THEN h[<<mid(b[1], b[2]) + 1, b[2]>>]
                         ELSE h[<<b[1], mid(b[1], b[2]) - 1>>]
           Solves(h) == h = [b \in D |-> body(h, b)]
           search == CHOOSE h : Solves(h)
<1>1. SearchStart(s, from) = search[<<1, n>>]
  BY DEF SearchStart
<1>2. ASSUME NEW i \in 1..(n + 1), NEW j \in 0..n, i <= j
      PROVE  /\ mid(i, j) \in 1..n /\ i <= mid(i, j) /\ mid(i, j) <= j
             /\ <<mid(i, j) + 1, j>> \in D /\ <<i, mid(i, j) - 1>> \in D
  <2>1. i \in Int /\ j \in Int
    OBVIOUS
  <2>2. mid(i, j) \in i..j
    BY <1>2, <2>1, Half
  <2> HIDE DEF mid
  <2>3. mid(i, j) \in 1..n /\ mid(i, j) + 1 \in 1..(n + 1) /\ mid(i, j) - 1 \in 0..n
    BY <2>2
  <2> QED
    BY <2>2, <2>3
<1> HIDE DEF mid
<1>3. \E h : Solves(h)
  <2> DEFINE clamp(i, j) == IF r <= i \/ i > j THEN i ELSE IF r <= j THEN r ELSE j + 1
             g == [b \in D |-> clamp(b[1], b[2])]
  <2>1. ASSUME NEW b \in D PROVE g[b] = body(g, b)
    <3> DEFINE i == b[1]
               j == b[2]
               m == mid(i, j)
    <3>1. i \in 1..(n + 1) /\ j \in 0..n /\ g[b] = clamp(i, j)
      OBVIOUS
    <3>2. CASE i > j
      BY <3>1, <3>2
    <3>3. CASE i <= j
      <4>1. m \in 1..n /\ i <= m /\ m <= j /\ <<m + 1, j>> \in D /\ <<i, m - 1>> \in D
        BY <1>2, <3>1, <3>3
      <4>2. g[<<m + 1, j>>] = clamp(m + 1, j) /\ g[<<i, m - 1>>] = clamp(i, m - 1)
        BY <4>1
      <4>3. body(g, b) = IF NodeTime(s, m) < from THEN g[<<m + 1, j>>] ELSE g[<<i, m - 1>>]
        BY <3>1, <3>3
      <4> HIDE DEF g, m, i, j
      <4>4. NodeTime(s, m) < from <=> m < r
        BY <4>1
      <4>5. m < r => clamp(i, j) = clamp(m + 1, j)
        BY <3>1, <3>3, <4>1
      <4>6. ~(m < r) => clamp(i, j) = clamp(i, m - 1)
        BY <3>1, <3>3, <4>1
      <4> QED
        BY <3>1, <4>2, <4>3, <4>4, <4>5, <4>6
    <3> QED
      BY <3>1, <3>2, <3>3
  <2> HIDE DEF body
  <2>2. g = [b \in D |-> body(g, b)]
    BY <2>1
  <2> HIDE DEF g
  <2> QED
    BY <2>2
<1>4. Solves(search)
  BY <1>3
<1>5. \A b \in D : search[b] = body(search, b)
  <2> HIDE DEF search, body, D
  <2> QED
    BY <1>4
<1> HIDE DEF search, Solves
<1> DEFINE S == {m \in Nat : \A i \in 1..(n + 1), j \in 0..n :
                                 j + 1 - i <= m /\ i <= r /\ r <= j + 1 => search[<<i, j>>] = r}
<1>6. 0 \in S
  <2> SUFFICES ASSUME NEW i \in 1..(n + 1), NEW j \in 0..n, j + 1 - i <= 0, i <= r, r <= j + 1
               PROVE  search[<<i, j>>] = r
    OBVIOUS
  <2>1. i > j /\ i = r /\ <<i, j>> \in D
    OBVIOUS
  <2>2. search[<<i, j>>] = body(search, <<i, j>>)
    BY <1>5, <2>1
  <2> QED
    BY <2>1, <2>2
<1>7. ASSUME NEW m \in Nat, m \in S PROVE m + 1 \in S
  <2> SUFFICES ASSUME NEW i \in 1..(n + 1), NEW j \in 0..n, j + 1 - i <= m + 1, i <= r, r <= j + 1
               PROVE  search[<<i, j>>] = r
    OBVIOUS
  <2>1. <<i, j>> \in D /\ <<i, j>>[1] = i /\ <<i, j>>[2] = j
    OBVIOUS
  <2>2. search[<<i, j>>] = body(search, <<i, j>>)
    BY <1>5, <2>1
  <2>3. CASE i > j
    BY <2>1, <2>2, <2>3
  <2>4. CASE i <= j
    <3> DEFINE k == mid(i, j)
    <3>1. k \in 1..n /\ i <= k /\ k <= j
      BY <1>2, <2>4
    <3>2. search[<<i, j>>] = IF NodeTime(s, k) < from THEN search[<<k + 1, j>>] ELSE search[<<i, k - 1>>]
      BY <2>1, <2>2, <2>4
    <3> HIDE DEF k
    <3>3. NodeTime(s, k) < from <=> k < r
      BY <3>1
    <3>4. ASSUME k < r PROVE search[<<k + 1, j>>] = r
      <4>1. k + 1 \in 1..(n + 1) /\ j + 1 - (k + 1) <= m /\ k + 1 <= r
        BY <3>1, <3>4
      <4> QED
        BY <1>7, <4>1
    <3>5. ASSUME ~(k < r) PROVE search[<<i, k - 1>>] = r
      <4>1. k - 1 \in 0..n /\ (k - 1) + 1 - i <= m /\ r <= (k - 1) + 1
        BY <3>1, <3>5
      <4> QED
        BY <1>7, <4>1
    <3> QED
      BY <3>2, <3>3, <3>4, <3>5
  <2> QED
    BY <2>3, <2>4
<1>8. Nat \subseteq S
  <2> HIDE DEF S
  <2> QED
    BY <1>6, <1>7, Induction
<1>9. n \in S /\ 1 \in 1..(n + 1) /\ n \in 0..n /\ n + 1 - 1 <= n
  BY <1>8
<1>10. search[<<1, n>>] = r
  <2> HIDE DEF body
  <2> QED
    BY <1>9
<1> QED
  BY <1>1, <1>10

-----------------------------------------------------------------------------
(* What fdb_tsl_iter_by_time reads: the sequence of the logs from the time *)
(* on and, where a sector has none, the node behind its last one.          *)
InOrder == {pair \in Returned \X Returned :
                pair[1] \in Node /\ (pair[2] = NoLog \/ pair[1].id < pair[2].id)}

TailFrom(s, from) ==
    LET start == SearchStart(s, from)
    IN  IF start > Nodes(s) THEN <<NoLog>> ELSE SubSeq(LogsIn(s), start, Nodes(s))

(* The tail of a sector: its logs from the time on, or NoLog.              *)
LEMMA TailFacts ==
    ASSUME Inv, RingInv, TimeInv, pc = "ready", NEW s \in Sectors, flash[s].store # "EMPTY",
           \A i \in DOMAIN flash[s].log : ~Torn(flash[s].log[i]), NEW from \in Int
    PROVE  /\ TailFrom(s, from) \in Seq(Returned) /\ Sorted(TailFrom(s, from), InOrder)
           /\ \A x : x \in Elems(TailFrom(s, from)) /\ x # NoLog <=> x \in LogsOn(s) /\ from <= x.time
           /\ (\E log \in LogsOn(s) : from <= log.time) => NoLog \notin Elems(TailFrom(s, from))
<1> DEFINE log == flash[s].log
           n == Len(log)
<1>1. /\ log \in Seq(Node) /\ n \in Nat /\ DOMAIN log = 1..n /\ LogsIn(s) = log /\ Nodes(s) = n
      /\ \A i \in 1..n : log[i] \in Node /\ log[i].time \in Nat /\ log[i].id \in Nat
  <2>1. log \in Seq(Node) /\ LogsIn(s) = log /\ Nodes(s) = n
    BY LogsInAll
  <2>2. n \in Nat /\ DOMAIN log = 1..n
    BY <2>1, LenProperties
  <2>3. \A i \in DOMAIN log : log[i] \in Node /\ log[i].time \in Nat /\ log[i].id \in Nat
    BY NodeTypes DEF Inv
  <2> QED
    BY <2>1, <2>2, <2>3
<1>2. \A i, j \in 1..n : i < j => log[i].id < log[j].id /\ log[i].time <= log[j].time
  <2>1. Ordered(flash, Cur)
    BY DEF RingInv, RingOK, Calm, Good
  <2>2. \A i, j \in 1..n : i < j => log[i].id < log[j].id
    BY <1>1, <2>1 DEF Ordered
  <2>3. \A i, j \in 1..n : log[i].id < log[j].id => log[i].time <= log[j].time
    BY <1>1 DEF TimeInv, Monotone
  <2> QED
    BY <2>2, <2>3
<1>3. \A i \in 1..n : NodeTime(s, i) = log[i].time
  <2> SUFFICES ASSUME NEW i \in 1..n PROVE NodeTime(s, i) = log[i].time
    OBVIOUS
  <2>1. i <= n /\ ~Torn(log[i])
    BY <1>1
  <2> QED
    BY <2>1 DEF NodeTime, TimeOf
<1>4. LogsOn(s) = {log[i] : i \in 1..n}
  BY <1>1 DEF LogsOn
<1> HIDE DEF log, n
<1> DEFINE late == {k \in 1..(n + 1) : k <= n => from <= log[k].time}
<1>5. PICK r \in late : \A k \in late : r <= k
  <2>1. n + 1 \in late /\ late \subseteq Nat
    BY <1>1
  <2> HIDE DEF late
  <2> QED
    BY <2>1, LeastNat
<1>6. r \in 1..(n + 1) /\ r \in Nat /\ \A k \in 1..n : log[k].time < from <=> k < r
  <2>1. r \in 1..(n + 1) /\ r \in Nat /\ (r <= n => from <= log[r].time)
    BY <1>1, <1>5
  <2>2. ASSUME NEW k \in 1..n PROVE log[k].time < from <=> k < r
    <3>1. k \in Nat /\ k \in 1..(n + 1) /\ k <= n /\ log[k].time \in Nat
      BY <1>1
    <3>2. CASE k < r
      <4>1. k \notin late
        BY <1>1, <1>5, <2>1, <3>1, <3>2
      <4> QED
        BY <1>1, <3>1, <3>2, <4>1
    <3>3. CASE k = r
      BY <1>1, <2>1, <3>1, <3>3
    <3>4. CASE r < k
      <4>1. r \in 1..n /\ from <= log[r].time
        BY <1>1, <2>1, <3>1, <3>4
      <4>2. log[r].time <= log[k].time /\ log[r].time \in Nat
        BY <1>1, <1>2, <3>4, <4>1
      <4> QED
        BY <2>1, <3>1, <3>4, <4>1, <4>2
    <3> QED
      BY <2>1, <3>1, <3>2, <3>3, <3>4
  <2> QED
    BY <2>1, <2>2
<1> HIDE DEF late
<1>7. SearchStart(s, from) = r
  <2>1. \A k \in 1..n : NodeTime(s, k) < from <=> k < r
    BY <1>3, <1>6
  <2>2. n \in Nat /\ n = Nodes(s) /\ r \in 1..(n + 1)
    BY <1>1, <1>6
  <2> QED
    BY <2>1, <2>2, SearchFinds, Zenon
<1>8. TailFrom(s, from) = IF r > n THEN <<NoLog>> ELSE SubSeq(log, r, n)
  BY <1>1, <1>7 DEF TailFrom
<1>9. \A x : x \in LogsOn(s) /\ from <= x.time <=> \E k \in 1..n : x = log[k] /\ r <= k
  <2>1. \A k \in 1..n : from <= log[k].time <=> r <= k
    BY <1>1, <1>6
  <2> QED
    BY <1>4, <2>1
<1>10. CASE r > n
  <2> DEFINE t == <<NoLog>>
  <2>1. TailFrom(s, from) = t
    BY <1>8, <1>10
  <2>2. t \in Seq(Returned) /\ Len(t) = 1 /\ DOMAIN t = 1..1 /\ t[1] = NoLog
    BY NoLogFacts
  <2>3. Sorted(t, InOrder)
    BY <2>2 DEF Sorted
  <2>4. Elems(t) = {NoLog}
    BY <2>2 DEF Elems
  <2>5. \A x : ~(x \in LogsOn(s) /\ from <= x.time)
    BY <1>1, <1>6, <1>9, <1>10
  <2> HIDE DEF t
  <2> QED
    BY <2>1, <2>2, <2>3, <2>4, <2>5
<1>11. CASE ~(r > n)
  <2> DEFINE t == SubSeq(log, r, n)
             m == n - r + 1
  <2>1. TailFrom(s, from) = t
    BY <1>8, <1>11
  <2>2. t \in Seq(Node) /\ Len(t) = m /\ m \in Nat /\ \A i \in 1..m : t[i] = log[r + i - 1]
    <3>1. \A i \in r..n : log[i] \in Node
      BY <1>1, <1>6
    <3>2. r \in Int /\ n \in Int /\ r <= n
      BY <1>1, <1>6, <1>11
    <3> QED
      BY <3>1, <3>2, SubSeqProperties
  <2>3. DOMAIN t = 1..m
    BY <2>2, LenProperties
  <2> HIDE DEF t
  <2>4. \A i \in 1..m : r + i - 1 \in 1..n /\ r <= r + i - 1
    BY <1>1, <1>6
  <2>5. \A k \in 1..n : r <= k => k - r + 1 \in 1..m /\ r + (k - r + 1) - 1 = k
    BY <1>1, <1>6
  <2>6. \A x : x \in Elems(t) <=> \E k \in 1..n : x = log[k] /\ r <= k
    <3>1. \A x : x \in Elems(t) <=> \E i \in 1..m : x = t[i]
      BY <2>3 DEF Elems
    <3>2. ASSUME NEW i \in 1..m PROVE \E k \in 1..n : t[i] = log[k] /\ r <= k
      BY <2>2, <2>4
    <3>3. ASSUME NEW k \in 1..n, r <= k PROVE \E i \in 1..m : log[k] = t[i]
      <4>1. k - r + 1 \in 1..m /\ t[k - r + 1] = log[k]
        BY <2>2, <2>5, <3>3
      <4> QED
        BY <4>1
    <3> HIDE DEF m
    <3> QED
      BY <3>1, <3>2, <3>3
  <2>7. \A i \in 1..m : t[i] \in Node
    BY <1>1, <2>2, <2>4
  <2>8. NoLog \notin Elems(t)
    BY <2>3, <2>7, NoLogFacts DEF Elems
  <2>9. Sorted(t, InOrder)
    <3> SUFFICES ASSUME NEW i \in 1..m, NEW j \in 1..m, i < j PROVE <<t[i], t[j]>> \in InOrder
      BY <2>3 DEF Sorted
    <3>1. r + i - 1 \in 1..n /\ r + j - 1 \in 1..n /\ r + i - 1 < r + j - 1
      BY <1>6, <2>4
    <3>2. t[i].id < t[j].id
      BY <1>2, <2>2, <3>1
    <3> QED
      BY <2>7, <3>2 DEF InOrder, Returned
  <2>10. t \in Seq(Returned)
    <3>1. \A i \in 1..m : t[i] \in Returned
      BY <2>7 DEF Returned
    <3> QED
      BY <2>2, <3>1, SeqDef DEF Returned
  <2> QED
    BY <1>9, <2>1, <2>6, <2>8, <2>9, <2>10
<1> QED
  BY <1>10, <1>11

(* The EMPTY sectors come last in the ring.                                *)
LEMMA EmptyLast ==
    ASSUME NEW c, Good(flash, c, Before(db.oldest)), db.oldest \in Sectors, NEW i \in Sectors, NEW j \in Sectors,
           flash[Ring[i]].store = "EMPTY", flash[Ring[j]].store # "EMPTY"
    PROVE  j < i
<1> DEFINE o == db.oldest
           s == Ring[i]
           t == Ring[j]
           e == Before(o)
<1>1. NSectors \in Nat /\ NSectors >= 2 /\ Sectors = 1..NSectors
      /\ o \in 1..NSectors /\ i \in 1..NSectors /\ j \in 1..NSectors
  BY SectorsFacts
<1>2. /\ s \in 1..NSectors /\ s = IF o + i - 1 <= NSectors THEN o + i - 1 ELSE o + i - 1 - NSectors
      /\ t \in 1..NSectors /\ t = IF o + j - 1 <= NSectors THEN o + j - 1 ELSE o + j - 1 - NSectors
  BY <1>1, RingFacts
<1>3. c \in 1..NSectors /\ e \in 1..NSectors /\ c <= e
  BY <1>1 DEF Good
<1>4. (s = c \/ (c < s /\ s <= e)) /\ ~(c < t /\ t <= e) /\ s # t
  <2>1. \A r \in Sectors : r # c => flash[r].store = (IF c < r /\ r <= e THEN "EMPTY" ELSE "FULL")
    BY DEF Good
  <2>2. s # c => (c < s /\ s <= e)
    BY <1>1, <1>2, <2>1
  <2>3. t # c => ~(c < t /\ t <= e)
    BY <1>1, <1>2, <2>1
  <2>4. s # t
    OBVIOUS
  <2> HIDE DEF s, t, e
  <2> QED
    BY <1>2, <1>3, <2>2, <2>3, <2>4
<1>5. (o = 1 /\ e = NSectors) \/ (o > 1 /\ e = o - 1)
  BY <1>1 DEF Before
<1> HIDE DEF o, s, t, e
<1>6. CASE o = 1 /\ e = NSectors
  <2>1. s = i /\ t = j
    BY <1>1, <1>2, <1>6
  <2>2. s >= c /\ t <= c
    BY <1>2, <1>3, <1>4, <1>6
  <2> QED
    BY <1>1, <1>3, <1>4, <2>1, <2>2
<1>7. CASE o > 1 /\ e = o - 1
  <2>1. s < o /\ c <= s /\ (t <= c \/ t >= o)
    BY <1>1, <1>2, <1>3, <1>4, <1>7
  <2>2. s = o + i - 1 - NSectors
    BY <1>1, <1>2, <2>1
  <2>3. CASE t >= o
    <3>1. t = o + j - 1
      BY <1>1, <1>2, <2>3
    <3> QED
      BY <1>1, <1>2, <2>2, <3>1
  <2>4. CASE t < o
    <3>1. t = o + j - 1 - NSectors
      BY <1>1, <1>2, <2>4
    <3>2. t < s
      BY <1>1, <1>2, <1>3, <1>4, <2>1, <2>4
    <3> QED
      BY <1>1, <2>2, <3>1, <3>2
  <2> QED
    BY <1>1, <1>2, <2>3, <2>4
<1> QED
  BY <1>5, <1>6, <1>7

(* Of two sectors in use the first one in the ring is FULL.                *)
LEMMA FullBefore ==
    ASSUME NEW c, Good(flash, c, Before(db.oldest)), db.oldest \in Sectors, NEW i \in Sectors, NEW j \in Sectors, i < j,
           flash[Ring[i]].store # "EMPTY", flash[Ring[j]].store # "EMPTY"
    PROVE  flash[Ring[i]].store = "FULL"
<1>1. Ahead(c, Ring[i], Ring[j]) /\ Ring[i] \in Sectors /\ Ring[j] \in Sectors
  BY RingOrder, RingFacts
<1>2. Ring[i] # c
  <2> DEFINE s == Ring[i]
             t == Ring[j]
  <2>1. s \in Nat /\ t \in Nat
    BY <1>1, SectorsFacts
  <2>2. Ahead(c, s, t)
    BY <1>1
  <2> HIDE DEF s, t
  <2>3. s # c
    BY <2>1, <2>2 DEF Ahead
  <2> QED
    BY <2>3 DEF s
<1> QED
  BY <1>1, <1>2 DEF Good

StartSeen(s) == IF s \in Using THEN db.cur.start ELSE flash[s].start
EndSeen(s) == IF s \in Using THEN db.cur.endTime ELSE EndInfo(s).time

(* What is known of a sector without torn logs: cur_sec and the headers    *)
(* say when it begins, or earlier, and when it ends.                       *)
LEMMA SeenTimes ==
    ASSUME Inv, RingInv, TimeInv, pc = "ready", NEW s \in Sectors, flash[s].log # <<>>,
           \A i \in DOMAIN flash[s].log : ~Torn(flash[s].log[i])
    PROVE  /\ flash[s].store # "EMPTY" /\ StartSeen(s) \in Int /\ EndSeen(s) \in Int
           /\ Len(flash[s].log) \in DOMAIN flash[s].log /\ flash[s].log \in Seq(Node)
           /\ \A i \in DOMAIN flash[s].log : /\ StartSeen(s) <= flash[s].log[i].time
                                             /\ flash[s].log[i].time <= EndSeen(s)
           /\ EndSeen(s) = flash[s].log[Len(flash[s].log)].time
           /\ Last(flash[s].log).time = EndSeen(s) /\ Head(flash[s].log) = flash[s].log[1]
<1> DEFINE log == flash[s].log
           n == Len(log)
<1>1. /\ log \in Seq(Node) /\ n \in Nat /\ DOMAIN log = 1..n /\ n >= 1
      /\ \A i \in 1..n : log[i] \in Node /\ log[i].time \in Nat /\ log[i].id \in Nat
  <2>1. log \in Seq(Node) /\ \A i \in DOMAIN log : log[i] \in Node /\ log[i].time \in Nat /\ log[i].id \in Nat
    BY NodeTypes DEF Inv
  <2> QED
    BY <2>1, EmptySeq, LenProperties
<1>2. Good(flash, Cur, Before(db.oldest)) /\ Cur \in Sectors
  BY DEF RingInv, RingOK, Calm, Good
<1>3. \A i \in 1..n : log[i].time <= log[n].time
  <2>1. Ordered(flash, Cur)
    BY <1>2 DEF Good
  <2>2. \A i \in 1..n : i < n => log[i].id < log[n].id
    BY <1>1, <2>1 DEF Ordered
  <2>3. \A i \in 1..n : i < n => log[i].time <= log[n].time
    BY <1>1, <2>2, SMTT(40) DEF TimeInv, Monotone
  <2> QED
    BY <1>1, <2>3
<1>4. LastTime(log) = log[n].time
  <2>1. ~Torn(log[n])
    BY <1>1
  <2> QED
    BY <2>1 DEF LastTime, TimeOf
<1>5. flash[s].store # "EMPTY"
  BY BlankSectors DEF Inv, FlashOK, SectorOK
<1>6. CASE flash[s].store = "USING"
  <2>1. s = Cur /\ s \in Using
    BY <1>2, <1>6 DEF Good, Using
  <2>2. StartSeen(s) = db.cur.start /\ EndSeen(s) = db.cur.endTime
    BY <2>1 DEF StartSeen, EndSeen
  <2>3. db.cur.endTime = LastTime(log) /\ StartsBefore(db.cur.start, log)
    BY <2>1 DEF TimeInv, CurTimes, Settled
  <2>4. db.cur.start \in Int /\ db.cur.endTime \in Int
    BY CurType_ DEF Inv, CurType
  <2> QED
    BY <1>1, <1>3, <1>4, <1>5, <2>2, <2>3, <2>4 DEF StartsBefore, Last
<1>7. CASE flash[s].store = "FULL"
  <2>1. s \notin Using
    BY <1>7 DEF Using
  <2>2. StartSeen(s) = flash[s].start /\ EndSeen(s) = EndOf(flash[s]).time
    BY <2>1 DEF StartSeen, EndSeen, EndInfo, EndOf
  <2>3. EndTimes(flash[s]) /\ SecTimes(flash[s], clock)
    BY <1>7 DEF TimeInv
  <2>4. flash[s].start \in Int
    BY NodeTypes DEF Inv
  <2> QED
    BY <1>1, <1>3, <1>4, <1>5, <2>2, <2>3, <2>4 DEF EndTimes, SecTimes, Last
<1> QED
  BY <1>2, <1>5, <1>6, <1>7 DEF Good

LEMMA MayHoldSeen ==
    ASSUME NEW s, NEW from
    PROVE  MayHold(s, from) <=> \/ StartSeen(s) <= from /\ from <= EndSeen(s)
                                \/ s = db.oldest /\ from <= StartSeen(s)
BY DEF MayHold, StartSeen, EndSeen

(* The oldest sector holds logs when the database does.                    *)
LEMMA OldestHolds ==
    ASSUME Inv, RingInv, TimeInv, pc = "ready", NEW s \in Sectors, flash[s].log # <<>>
    PROVE  /\ db.oldest \in Sectors /\ 1 \in Sectors /\ Ring[1] = db.oldest
           /\ flash[db.oldest].log # <<>>
<1>1. Good(flash, Cur, Before(db.oldest)) /\ Cur \in Sectors /\ db.oldest \in Sectors
  BY DEF RingInv, RingOK, Calm, Good
<1> DEFINE o == db.oldest
           c == Cur
           e == Before(o)
<1>2. NSectors \in Nat /\ NSectors >= 2 /\ Sectors = 1..NSectors /\ o \in 1..NSectors /\ c \in 1..NSectors
  BY <1>1, SectorsFacts
<1>3. (o = 1 /\ e = NSectors) \/ (o > 1 /\ e = o - 1)
  BY <1>2 DEF Before
<1>4. Ring[1] = o
  BY <1>1, <1>2, RingFacts
<1>5. CASE o # c
  <2>1. ~(c < o /\ o <= e)
    <3> HIDE DEF o, c, e
    <3> QED
      BY <1>2, <1>3
  <2>2. flash[o].store = "FULL"
    BY <1>1, <1>5, <2>1 DEF Good
  <2> QED
    BY <1>1, <1>2, <1>4, <2>2 DEF TimeInv, EndTimes
<1>6. CASE o = c
  <2>1. c <= e
    BY <1>1 DEF Good
  <2>2. c = 1 /\ e = NSectors
    <3> HIDE DEF o, c, e
    <3> QED
      BY <1>2, <1>3, <1>6, <2>1
  <2>3. \A r \in Sectors : r # c => flash[r].store = "EMPTY"
    <3>1. \A r \in Sectors : r # c => flash[r].store = (IF c < r /\ r <= e THEN "EMPTY" ELSE "FULL")
      BY <1>1 DEF Good
    <3> HIDE DEF c, e, o
    <3> QED
      BY <1>2, <2>2, <3>1
  <2>4. s = c
    BY <2>3, BlankSectors DEF Inv, FlashOK, SectorOK
  <2> QED
    BY <1>1, <1>2, <1>4, <1>6, <2>4
<1> QED
  BY <1>5, <1>6

First(from) == {i \in Sectors : Ring[i] \notin Empty /\ MayHold(Ring[i], from)}
Visited(from) == {i \in Sectors : (\E j \in First(from) : j <= i)
                                  /\ \A j \in {k \in Sectors : Ring[k] \in Empty} : i < j}

(* In the ring the logs of a sector are not after those of a later one.    *)
LEMMA RingTimes ==
    ASSUME Inv, RingInv, TimeInv, pc = "ready", NEW i \in Sectors, NEW j \in Sectors, i < j,
           NEW log \in LogsOn(Ring[i]), NEW other \in LogsOn(Ring[j])
    PROVE  log.time <= other.time /\ log.time \in Nat /\ other.time \in Nat
<1> DEFINE s == Ring[i]
           t == Ring[j]
<1>1. s \in Sectors /\ t \in Sectors /\ Precedes(flash[s].log, flash[t].log, ById)
  BY RingLogs
<1> HIDE DEF s, t
<1>2. log \in LogsOn(s) /\ other \in LogsOn(t)
  BY DEF s, t
<1>3. PICK a \in DOMAIN flash[s].log : log = flash[s].log[a]
  BY <1>2 DEF LogsOn
<1>4. PICK b \in DOMAIN flash[t].log : other = flash[t].log[b]
  BY <1>2 DEF LogsOn
<1>5. <<log, other>> \in ById
  BY <1>1, <1>3, <1>4 DEF Precedes, Elems
<1>6. log.id < other.id /\ log.time \in Nat /\ other.time \in Nat
  BY <1>5 DEF ById, Node
<1> QED
  BY <1>1, <1>3, <1>4, <1>6 DEF TimeInv, Monotone

(* No log of the time or after it is passed by, and no sector that is read *)
(* before another one ends without such a log, if the time is covered.     *)
LEMMA VisitedFacts ==
    ASSUME Inv, RingInv, TimeInv, pc = "ready", Stored # <<>>, NEW from \in Int, Covered(from),
           \A s \in Sectors : \A i \in DOMAIN flash[s].log : ~Torn(flash[s].log[i])
    PROVE  /\ \A i \in Visited(from) : flash[Ring[i]].store # "EMPTY"
           /\ \A i, j \in Visited(from) : i < j => \E log \in LogsOn(Ring[i]) : from <= log.time
           /\ \A i \in Sectors : \A log \in LogsOn(Ring[i]) : from <= log.time => i \in Visited(from)
<1>1. Good(flash, Cur, Before(db.oldest)) /\ db.oldest \in Sectors
  BY DEF RingInv, RingOK, Calm
<1>2. \A i \in Sectors : Ring[i] \in Sectors /\ i \in Nat
  BY <1>1, RingFacts, SectorsFacts
<1>3. ASSUME NEW i \in Visited(from)
      PROVE  i \in Sectors /\ flash[Ring[i]].store # "EMPTY" /\ \E f \in First(from) : f <= i
  <2>1. i \in Sectors /\ \E f \in First(from) : f <= i
    BY DEF Visited
  <2>2. ASSUME flash[Ring[i]].store = "EMPTY" PROVE FALSE
    <3>1. Ring[i] \in Empty
      BY <1>2, <2>1, <2>2 DEF Empty
    <3>2. i < i /\ i \in Nat
      BY <1>2, <2>1, <3>1 DEF Visited
    <3> QED
      BY <3>2
  <2> QED
    BY <2>1, <2>2
<1>4. ASSUME NEW i \in Sectors, flash[Ring[i]].store = "FULL"
      PROVE  /\ flash[Ring[i]].log # <<>>
             /\ \E log \in LogsOn(Ring[i]) : log.time = EndSeen(Ring[i])
             /\ \A log \in LogsOn(Ring[i]) : /\ StartSeen(Ring[i]) <= log.time /\ log.time <= EndSeen(Ring[i])
                                             /\ log.time \in Nat
             /\ StartSeen(Ring[i]) \in Int /\ EndSeen(Ring[i]) \in Int
  <2> DEFINE s == Ring[i]
  <2>1. s \in Sectors /\ flash[s].log # <<>>
    BY <1>2, <1>4 DEF TimeInv, EndTimes
  <2> HIDE DEF s
  <2>2. /\ StartSeen(s) \in Int /\ EndSeen(s) \in Int /\ Len(flash[s].log) \in DOMAIN flash[s].log
        /\ EndSeen(s) = flash[s].log[Len(flash[s].log)].time
        /\ \A a \in DOMAIN flash[s].log : /\ StartSeen(s) <= flash[s].log[a].time
                                          /\ flash[s].log[a].time <= EndSeen(s)
    BY <2>1, SeenTimes
  <2>3. \A a \in DOMAIN flash[s].log : flash[s].log[a].time \in Nat
    BY <2>1, NodeTypes DEF Inv
  <2>4. /\ \E log \in LogsOn(s) : log.time = EndSeen(s)
        /\ \A log \in LogsOn(s) : StartSeen(s) <= log.time /\ log.time <= EndSeen(s) /\ log.time \in Nat
    BY <2>2, <2>3 DEF LogsOn
  <2> QED
    BY <2>1, <2>2, <2>4 DEF s
<1>5. ASSUME NEW i \in Visited(from), NEW j \in Visited(from), i < j
      PROVE  \E log \in LogsOn(Ring[i]) : from <= log.time
  <2>1. i \in Sectors /\ j \in Sectors /\ flash[Ring[i]].store = "FULL"
    BY <1>1, <1>3, <1>5, FullBefore
  <2>2. PICK f \in First(from) : f <= i
    BY <1>3
  <2>3. f \in Sectors /\ Ring[f] \notin Empty /\ MayHold(Ring[f], from)
    BY <2>2 DEF First
  <2>4. flash[Ring[f]].store = "FULL"
    <3>1. flash[Ring[f]].store # "EMPTY"
      BY <1>2, <2>3 DEF Empty
    <3>2. f < j
      <4>1. f \in Nat /\ i \in Nat /\ j \in Nat
        BY <2>1, <2>3, SectorsFacts
      <4> QED
        BY <1>5, <2>2, <4>1
    <3> QED
      BY <1>1, <1>3, <2>1, <2>3, <3>1, <3>2, FullBefore
  <2>5. PICK log \in LogsOn(Ring[f]) : log.time = EndSeen(Ring[f])
    BY <1>4, <2>3, <2>4
  <2>6. from <= log.time
    <3>1. (StartSeen(Ring[f]) <= from /\ from <= EndSeen(Ring[f])) \/ from <= StartSeen(Ring[f])
      BY <2>3, MayHoldSeen
    <3>2. StartSeen(Ring[f]) <= EndSeen(Ring[f]) /\ StartSeen(Ring[f]) \in Int /\ EndSeen(Ring[f]) \in Int
      BY <1>4, <2>3, <2>4, <2>5
    <3> QED
      BY <2>5, <3>1, <3>2
  <2>7. CASE f = i
    BY <2>5, <2>6, <2>7
  <2>8. CASE f < i
    <3>1. PICK last \in LogsOn(Ring[i]) : last.time = EndSeen(Ring[i])
      BY <1>4, <2>1
    <3>2. log.time <= last.time /\ log.time \in Nat /\ last.time \in Nat
      BY <2>1, <2>3, <2>5, <2>8, <3>1, RingTimes
    <3>3. from <= last.time
      BY <2>6, <3>2
    <3> QED
      BY <3>1, <3>3
  <2> QED
    BY <1>2, <2>1, <2>2, <2>3, <2>7, <2>8
<1>6. ASSUME NEW i \in Sectors, NEW log \in LogsOn(Ring[i]), from <= log.time
      PROVE  i \in Visited(from)
  <2>1. /\ Ring[i] \in Sectors /\ flash[Ring[i]].store # "EMPTY" /\ flash[Ring[i]].log # <<>>
        /\ flash[Ring[i]].log \in Seq(Node)
    <3> DEFINE s == Ring[i]
    <3>1. s \in Sectors /\ log \in LogsOn(s)
      BY <1>2
    <3> HIDE DEF s
    <3>2. flash[s].log # <<>>
      BY <3>1 DEF LogsOn
    <3>3. flash[s].store # "EMPTY" /\ flash[s].log \in Seq(Node)
      BY <3>1, <3>2, SeenTimes
    <3> QED
      BY <3>1, <3>2, <3>3 DEF s
  <2>2. \A k \in Sectors : Ring[k] \in Empty => i < k
    BY <1>1, <1>2, <2>1, EmptyLast DEF Empty
  <2>3. ASSUME NEW k \in Sectors, flash[Ring[k]].log # <<>>,
               MayHold(Ring[k], from), k <= i
        PROVE  i \in Visited(from)
    <3>1. Ring[k] \in Sectors /\ flash[Ring[k]].store # "EMPTY"
      BY <1>2, <2>3, SeenTimes
    <3>2. k \in First(from)
      BY <2>3, <3>1 DEF First, Empty
    <3> QED
      BY <2>2, <2>3, <3>2 DEF Visited
  <2>4. ASSUME NEW s \in Sectors, Bounds(LogsIn(s), from) PROVE i \in Visited(from)
    <3>1. LogsIn(s) = flash[s].log /\ flash[s].log # <<>>
      BY <2>4, LogsInAll DEF Bounds
    <3>2. Head(flash[s].log).time <= from /\ from <= Last(flash[s].log).time
      BY <2>4, <3>1 DEF Bounds
    <3>3. /\ StartSeen(s) \in Int /\ EndSeen(s) \in Int
          /\ Last(flash[s].log).time = EndSeen(s) /\ Head(flash[s].log) = flash[s].log[1]
          /\ Len(flash[s].log) \in DOMAIN flash[s].log /\ flash[s].log \in Seq(Node)
          /\ \A a \in DOMAIN flash[s].log : StartSeen(s) <= flash[s].log[a].time
      BY <3>1, SeenTimes
    <3>4. 1 \in DOMAIN flash[s].log /\ flash[s].log[1].time \in Nat
      <4>1. 1 \in DOMAIN flash[s].log
        BY <3>3, LenProperties
      <4> QED
        BY <4>1, NodeTypes DEF Inv
    <3>5. StartSeen(s) <= from /\ from <= EndSeen(s)
      BY <3>2, <3>3, <3>4
    <3>6. MayHold(s, from)
      BY <3>5, MayHoldSeen
    <3>7. PICK k \in Sectors : Ring[k] = s
      BY <1>1, RingCovers
    <3>8. CASE k <= i
      BY <2>3, <3>1, <3>6, <3>7, <3>8
    <3>9. CASE i < k
      <4>1. flash[s].log[1] \in LogsOn(Ring[k])
        BY <3>4, <3>7 DEF LogsOn
      <4>2. log.time <= flash[s].log[1].time /\ log.time \in Nat
        BY <3>9, <4>1, RingTimes
      <4>3. log.time = from
        BY <1>6, <3>2, <3>3, <3>4, <4>2
      <4>4. flash[Ring[i]].store = "FULL"
        <5>1. flash[Ring[k]].store # "EMPTY"
          BY <3>1, <3>7, SeenTimes
        <5> QED
          BY <1>1, <2>1, <3>9, <5>1, FullBefore
      <4>5. StartSeen(Ring[i]) <= from /\ from <= EndSeen(Ring[i])
        BY <1>4, <4>3, <4>4
      <4>6. MayHold(Ring[i], from)
        BY <4>5, MayHoldSeen
      <4> QED
        BY <1>2, <2>1, <2>3, <4>6
    <3> QED
      <4>1. i \in Nat /\ k \in Nat
        BY SectorsFacts
      <4> QED
        BY <3>8, <3>9, <4>1
  <2>5. ASSUME from <= Head(Stored).time PROVE i \in Visited(from)
    <3> DEFINE o == db.oldest
    <3>1. 1 \in Sectors /\ Ring[1] = o /\ o \in Sectors /\ flash[o].log # <<>>
      BY <2>1, OldestHolds
    <3>2. /\ StartSeen(o) \in Int /\ EndSeen(o) \in Int /\ Len(flash[o].log) \in DOMAIN flash[o].log
          /\ EndSeen(o) = flash[o].log[Len(flash[o].log)].time
      <4> HIDE DEF o
      <4> QED
        BY <3>1, SeenTimes
    <3>3. from <= EndSeen(o)
      <4> DEFINE log1 == flash[o].log[Len(flash[o].log)]
                 stored == Stored
      <4>1. log1 \in UNION {LogsOn(s) : s \in Sectors} /\ log1.time \in Nat
        <5>1. log1 \in LogsOn(o)
          BY <3>2 DEF LogsOn
        <5>2. log1.time \in Nat
          BY <3>1, <3>2, NodeTypes DEF Inv
        <5> HIDE DEF log1, o
        <5> QED
          BY <3>1, <5>1, <5>2
      <4>2. stored \in Seq(Node) /\ Sorted(stored, ById) /\ Elems(stored) = UNION {LogsOn(s) : s \in Sectors}
        BY StoredSorted
      <4> HIDE DEF log1, stored
      <4>3. PICK b \in DOMAIN stored : log1 = stored[b]
        BY <4>1, <4>2 DEF Elems
      <4>4. stored # <<>> /\ DOMAIN stored = 1..Len(stored) /\ Len(stored) \in Nat /\ Head(stored) = stored[1]
        BY <4>2, <4>3, LenProperties DEF stored
      <4>5. 1 \in DOMAIN stored /\ b \in Nat
        BY <4>3, <4>4
      <4>6. stored[1].time <= log1.time /\ stored[1].time \in Nat
        <5>1. stored[1] \in Node
          BY <4>2, <4>5, ElementOfSeq, <4>4
        <5>2. stored[1].time \in Nat
          BY <5>1 DEF Node
        <5>3. CASE b = 1
          BY <4>3, <5>2, <5>3
        <5>4. CASE b # 1
          <6>1. 1 < b
            BY <4>3, <4>4, <5>4
          <6>2. stored[1].id < log1.id
            BY <4>2, <4>3, <4>5, <6>1 DEF Sorted, ById
          <6>3. stored[1] \in Elems(stored) /\ log1 \in Elems(stored)
            BY <4>3, <4>5 DEF Elems
          <6>4. PICK s \in Sectors : stored[1] \in LogsOn(s)
            BY <4>2, <6>3
          <6>5. PICK t \in Sectors : log1 \in LogsOn(t)
            BY <4>2, <6>3
          <6> QED
            BY <5>2, <6>2, <6>4, <6>5 DEF TimeInv, Monotone, LogsOn
        <5> QED
          BY <5>3, <5>4
      <4>7. from <= stored[1].time
        BY <2>5, <4>4 DEF stored
      <4> QED
        BY <3>2, <4>1, <4>6, <4>7 DEF log1
    <3>4. MayHold(o, from)
      BY <3>1, <3>2, <3>3, MayHoldSeen
    <3> QED
      <4>1. 1 <= i
        BY SectorsFacts
      <4> QED
        BY <2>3, <3>1, <3>4, <4>1
  <2> QED
    BY <2>4, <2>5 DEF Covered
<1> QED
  BY <1>3, <1>5, <1>6

ReadFrom(from) == FlattenSeq([i \in Sectors |-> IF i \in Visited(from) THEN TailFrom(Ring[i], from) ELSE <<>>])
Upto(read, from, to) ==
    LET out == {i \in DOMAIN read : TimeOf(read[i]) < from \/ TimeOf(read[i]) > to}
    IN  IF out = {} THEN read ELSE SubSeq(read, 1, Lowest(out) - 1)

LEMMA ByTimeReads ==
    ASSUME NEW from, NEW to
    PROVE  ByTime(from, to) = Upto(ReadFrom(from), from, to)
BY DEF ByTime, Upto, ReadFrom, Visited, First, TailFrom

(* What is read: every log of the time or after it, in the order of the    *)
(* ids, and at most one NoLog, at the end.                                 *)
LEMMA ReadFacts ==
    ASSUME Inv, RingInv, TimeInv, pc = "ready", Stored # <<>>, NEW from \in Int, Covered(from),
           \A s \in Sectors : \A i \in DOMAIN flash[s].log : ~Torn(flash[s].log[i])
    PROVE  /\ ReadFrom(from) \in Seq(Returned) /\ Sorted(ReadFrom(from), InOrder)
           /\ \A x : x \in Elems(ReadFrom(from)) /\ x # NoLog
                         <=> (\E s \in Sectors : x \in LogsOn(s)) /\ from <= x.time
<1> DEFINE seqs == [i \in Sectors |-> IF i \in Visited(from) THEN TailFrom(Ring[i], from) ELSE <<>>]
<1>1. db.oldest \in Sectors
  BY DEF RingInv, RingOK, Calm
<1>2. NSectors \in Nat \ {0} /\ Sectors = 1..NSectors
  BY SectorsFacts
<1>3. /\ \A i \in Visited(from) : flash[Ring[i]].store # "EMPTY"
      /\ \A i, j \in Visited(from) : i < j => \E log \in LogsOn(Ring[i]) : from <= log.time
      /\ \A i \in Sectors : \A log \in LogsOn(Ring[i]) : from <= log.time => i \in Visited(from)
  BY VisitedFacts
<1>4. \A i \in Sectors : Ring[i] \in Sectors
  BY <1>1, RingFacts
<1>5. ASSUME NEW i \in Sectors, i \in Visited(from)
      PROVE  /\ seqs[i] \in Seq(Returned) /\ Sorted(seqs[i], InOrder)
             /\ \A x : x \in Elems(seqs[i]) /\ x # NoLog <=> x \in LogsOn(Ring[i]) /\ from <= x.time
             /\ (\E log \in LogsOn(Ring[i]) : from <= log.time) => NoLog \notin Elems(seqs[i])
  <2> DEFINE s == Ring[i]
  <2>1. s \in Sectors /\ flash[s].store # "EMPTY" /\ \A a \in DOMAIN flash[s].log : ~Torn(flash[s].log[a])
    BY <1>3, <1>4, <1>5
  <2>2. seqs[i] = TailFrom(s, from)
    BY <1>5
  <2> HIDE DEF s, seqs
  <2>3. /\ seqs[i] \in Seq(Returned) /\ Sorted(seqs[i], InOrder)
        /\ \A x : x \in Elems(seqs[i]) /\ x # NoLog <=> x \in LogsOn(s) /\ from <= x.time
        /\ (\E log \in LogsOn(s) : from <= log.time) => NoLog \notin Elems(seqs[i])
    BY <2>1, <2>2, TailFacts
  <2> QED
    BY <2>3 DEF s
<1>6. ASSUME NEW i \in Sectors, i \notin Visited(from)
      PROVE  seqs[i] \in Seq(Returned) /\ Sorted(seqs[i], InOrder) /\ Elems(seqs[i]) = {}
  <2>1. seqs[i] = <<>>
    BY <1>6
  <2> HIDE DEF seqs
  <2> QED
    BY <2>1 DEF Sorted, Elems
<1>7. seqs \in [1..NSectors -> Seq(Returned)] /\ ReadFrom(from) = FlattenSeq(seqs)
  <2>1. \A i \in Sectors : seqs[i] \in Seq(Returned)
    BY <1>5, <1>6
  <2>2. ReadFrom(from) = FlattenSeq(seqs)
    BY DEF ReadFrom
  <2>3. seqs \in [Sectors -> Seq(Returned)]
    BY <2>1
  <2> HIDE DEF seqs
  <2> QED
    BY <1>2, <2>2, <2>3
<1> HIDE DEF seqs
<1>8. \A i \in 1..NSectors : Sorted(seqs[i], InOrder)
  BY <1>2, <1>5, <1>6
<1>9. ASSUME NEW i \in Sectors, NEW j \in Sectors, i < j PROVE Precedes(seqs[i], seqs[j], InOrder)
  <2>1. CASE i \notin Visited(from) \/ j \notin Visited(from)
    BY <1>6, <2>1 DEF Precedes
  <2>2. CASE i \in Visited(from) /\ j \in Visited(from)
    <3>1. NoLog \notin Elems(seqs[i])
      BY <1>3, <1>5, <1>9, <2>2
    <3>2. Precedes(flash[Ring[i]].log, flash[Ring[j]].log, ById)
      BY <1>9, RingLogs
    <3>3. ASSUME NEW x \in Elems(seqs[i]), NEW y \in Elems(seqs[j]) PROVE <<x, y>> \in InOrder
      <4>1. x # NoLog /\ x \in LogsOn(Ring[i])
        BY <1>5, <2>2, <3>1
      <4>2. y = NoLog \/ y \in LogsOn(Ring[j])
        BY <1>5, <2>2
      <4>3. x \in Node
        BY <1>4, <4>1, NodeTypes DEF LogsOn, Inv
      <4>4. CASE y = NoLog
        BY <4>3, <4>4, NoLogFacts DEF InOrder, Returned
      <4>5. CASE y \in LogsOn(Ring[j])
        <5>1. <<x, y>> \in ById
          BY <3>2, <4>1, <4>5 DEF Precedes, Elems, LogsOn
        <5> QED
          BY <5>1 DEF ById, InOrder, Returned
      <4> QED
        BY <4>2, <4>4, <4>5
    <3> QED
      BY <3>3 DEF Precedes
  <2> QED
    BY <2>1, <2>2
<1>10. /\ FlattenSeq(seqs) \in Seq(Returned) /\ Sorted(FlattenSeq(seqs), InOrder)
       /\ Elems(FlattenSeq(seqs)) = AllIn(seqs, NSectors)
  <2>1. \A i, j \in 1..NSectors : i < j => Precedes(seqs[i], seqs[j], InOrder)
    BY <1>2, <1>9
  <2>2. NSectors \in Nat \ {0} /\ seqs \in [1..NSectors -> Seq(Returned)]
    BY <1>2, <1>7
  <2> QED
    BY <1>8, <2>1, <2>2, FlattenSorted, Zenon
<1>11. \A x : x \in AllIn(seqs, NSectors) <=> \E i \in Sectors : x \in Elems(seqs[i])
  BY <1>2 DEF AllIn
<1>12. ASSUME NEW x, \E i \in Sectors : x \in Elems(seqs[i]), x # NoLog
       PROVE  (\E s \in Sectors : x \in LogsOn(s)) /\ from <= x.time
  <2>1. PICK i \in Sectors : x \in Elems(seqs[i])
    BY <1>12
  <2>2. i \in Visited(from)
    BY <1>6, <2>1
  <2> QED
    BY <1>4, <1>5, <1>12, <2>1, <2>2
<1>13. ASSUME NEW x, NEW s \in Sectors, x \in LogsOn(s), from <= x.time
       PROVE  (\E i \in Sectors : x \in Elems(seqs[i])) /\ x # NoLog
  <2>1. PICK i \in Sectors : Ring[i] = s
    BY <1>1, RingCovers
  <2>2. i \in Visited(from)
    BY <1>3, <1>13, <2>1
  <2> QED
    BY <1>5, <1>13, <2>1, <2>2
<1> QED
  BY <1>7, <1>10, <1>11, <1>12, <1>13

(* The reader stops at the first log out of the range.                     *)
LEMMA UptoFacts ==
    ASSUME NEW read \in Seq(Returned), Sorted(read, InOrder), NEW from \in Nat, NEW to \in Int,
           \A i \in DOMAIN read : read[i] # NoLog => ~Torn(read[i]) /\ from <= read[i].time,
           \A i, j \in DOMAIN read : read[i] # NoLog /\ read[j] # NoLog /\ read[i].id < read[j].id
                                         => read[i].time <= read[j].time
    PROVE  LET found == Upto(read, from, to)
           IN  /\ Elems(found) = {x \in Elems(read) : x # NoLog /\ x.time <= to}
               /\ \A i \in 2..Len(found) : found[i - 1].id < found[i].id
<1> DEFINE n == Len(read)
           out == {i \in DOMAIN read : TimeOf(read[i]) < from \/ TimeOf(read[i]) > to}
           found == Upto(read, from, to)
<1>1. n \in Nat /\ DOMAIN read = 1..n /\ \A i \in 1..n : read[i] \in Returned
  BY LenProperties, ElementOfSeq
<1>2. \A i \in 1..n : read[i] # NoLog => read[i] \in Node /\ read[i].time \in Nat /\ read[i].id \in Nat
  BY <1>1 DEF Returned, Node
<1>3. \A i \in 1..n : i \in out <=> read[i] = NoLog \/ read[i].time > to
  <2> SUFFICES ASSUME NEW i \in 1..n PROVE i \in out <=> read[i] = NoLog \/ read[i].time > to
    OBVIOUS
  <2>1. CASE read[i] = NoLog
    BY <1>1, <2>1, NoLogFacts
  <2>2. CASE read[i] # NoLog
    <3>1. TimeOf(read[i]) = read[i].time /\ from <= read[i].time /\ read[i].time \in Nat
      BY <1>1, <1>2, <2>2 DEF TimeOf
    <3> QED
      BY <1>1, <2>2, <3>1
  <2> QED
    BY <2>1, <2>2
<1>4. out \subseteq 1..n
  BY <1>1
<1>5. found = IF out = {} THEN read ELSE SubSeq(read, 1, Lowest(out) - 1)
  BY DEF Upto
<1> HIDE DEF n, out, found
<1>6. \A i, j \in 1..n : i < j => read[i] # NoLog /\ (read[j] # NoLog => read[i].id < read[j].id)
  <2> SUFFICES ASSUME NEW i \in 1..n, NEW j \in 1..n, i < j
               PROVE  read[i] # NoLog /\ (read[j] # NoLog => read[i].id < read[j].id)
    OBVIOUS
  <2>1. <<read[i], read[j]>> \in InOrder
    BY <1>1 DEF Sorted
  <2> QED
    BY <2>1, NoLogFacts DEF InOrder
<1>7. \A i, j \in 1..n : i < j /\ i \in out => j \in out
  <2> SUFFICES ASSUME NEW i \in 1..n, NEW j \in 1..n, i < j, i \in out, read[j] # NoLog PROVE read[j].time > to
    BY <1>3
  <2>1. read[i] # NoLog /\ read[i].id < read[j].id /\ read[i].time > to
    BY <1>3, <1>6
  <2>2. read[i].time <= read[j].time /\ read[i].time \in Nat /\ read[j].time \in Nat
    BY <1>1, <1>2, <2>1
  <2> QED
    BY <2>1, <2>2
<1>8. PICK m \in 0..n : \A i \in 1..n : i \in out <=> i > m
  <2>1. CASE out = {}
    <3>1. n \in 0..n /\ \A i \in 1..n : i \in out <=> i > n
      BY <1>1, <2>1
    <3> QED
      BY <3>1
  <2>2. CASE out # {}
    <3> DEFINE l == Lowest(out)
    <3>1. l \in out /\ \A i \in out : l <= i
      <4>1. out \subseteq Nat
        BY <1>1, <1>4
      <4> QED
        BY <2>2, <4>1, LowestIn
    <3> HIDE DEF l
    <3>2. l \in 1..n /\ l - 1 \in 0..n
      BY <1>1, <1>4, <3>1
    <3>3. \A i \in 1..n : i \in out <=> i > l - 1
      <4> SUFFICES ASSUME NEW i \in 1..n PROVE i \in out <=> i > l - 1
        OBVIOUS
      <4>1. i \in out => i > l - 1
        BY <3>1, <3>2
      <4>2. i = l => i \in out
        BY <3>1
      <4>3. i > l => i \in out
        BY <1>7, <3>1, <3>2
      <4> QED
        BY <3>2, <4>1, <4>2, <4>3
    <3> QED
      BY <3>2, <3>3
  <2> QED
    BY <2>1, <2>2
<1>9. Len(found) = m /\ DOMAIN found = 1..m /\ \A i \in 1..m : found[i] = read[i]
  <2>1. CASE out = {}
    <3>1. found = read
      BY <1>5, <2>1
    <3>2. m = n
      BY <1>1, <1>8, <2>1
    <3> QED
      BY <1>1, <3>1, <3>2 DEF n
  <2>2. CASE out # {}
    <3> DEFINE l == Lowest(out)
    <3>1. l \in out /\ \A i \in out : l <= i
      <4>1. out \subseteq Nat
        BY <1>1, <1>4
      <4> QED
        BY <2>2, <4>1, LowestIn
    <3>2. found = SubSeq(read, 1, l - 1)
      BY <1>5, <2>2
    <3> HIDE DEF l
    <3>3. l \in 1..n /\ l > m
      BY <1>1, <1>4, <1>8, <3>1
    <3>4. m + 1 \in 1..n /\ m + 1 \in out
      BY <1>1, <1>8, <3>3
    <3>5. l - 1 = m
      BY <1>1, <1>8, <3>1, <3>3, <3>4
    <3> DEFINE cut == SubSeq(read, 1, m)
    <3>6. cut \in Seq(Returned) /\ Len(cut) = m /\ \A i \in 1..m : cut[i] = read[i]
      <4>1. 1 \in Int /\ m \in Int /\ \A i \in 1..m : read[i] \in Returned
        BY <1>1, <1>8
      <4>2. cut \in Seq(Returned) /\ Len(cut) = (IF 1 <= m THEN m - 1 + 1 ELSE 0)
            /\ \A i \in 1..(m - 1 + 1) : cut[i] = read[1 + i - 1]
        BY <4>1, SubSeqProperties
      <4> HIDE DEF cut
      <4>3. Len(cut) = m
        BY <1>8, <4>2
      <4>4. ASSUME NEW i \in 1..m PROVE cut[i] = read[i]
        <5>1. i \in 1..(m - 1 + 1) /\ 1 + i - 1 = i
          BY <1>8
        <5> QED
          BY <4>2, <5>1
      <4> QED
        BY <4>2, <4>3, <4>4
    <3>7. found = cut
      BY <3>2, <3>5
    <3> HIDE DEF cut
    <3> QED
      BY <3>6, <3>7, LenProperties
  <2> QED
    BY <2>1, <2>2
<1>10. \A x : x \in Elems(found) <=> x \in Elems(read) /\ x # NoLog /\ x.time <= to
  <2>1. \A i \in 1..n : i <= m <=> read[i] # NoLog /\ read[i].time <= to
    <3> SUFFICES ASSUME NEW i \in 1..n PROVE i <= m <=> read[i] # NoLog /\ read[i].time <= to
      OBVIOUS
    <3>1. i <= m <=> i \notin out
      BY <1>1, <1>8
    <3>2. read[i] # NoLog => read[i].time \in Nat
      BY <1>2
    <3> QED
      BY <1>3, <3>1, <3>2
  <2>2. \A x : x \in Elems(found) <=> \E i \in 1..m : x = read[i]
    BY <1>9 DEF Elems
  <2>3. \A x : x \in Elems(read) <=> \E i \in 1..n : x = read[i]
    BY <1>1 DEF Elems
  <2>4. \A i : i \in 1..m <=> i \in 1..n /\ i <= m
    BY <1>1, <1>8
  <2> QED
    BY <2>1, <2>2, <2>3, <2>4
<1>11. ASSUME NEW i \in 2..Len(found) PROVE found[i - 1].id < found[i].id
  <2>1. i \in 1..m /\ i - 1 \in 1..m /\ i \in 1..n /\ i - 1 \in 1..n /\ i - 1 < i
    BY <1>1, <1>8, <1>9
  <2>2. found[i] = read[i] /\ found[i - 1] = read[i - 1]
    BY <1>9, <2>1
  <2>3. read[i] # NoLog
    <3>1. i \notin out
      BY <1>1, <1>8, <2>1
    <3> QED
      BY <1>3, <2>1, <3>1
  <2> QED
    BY <1>6, <2>1, <2>2, <2>3
<1> QED
  BY <1>10, <1>11 DEF found

(* Without torn logs, a query by time returns the logs of the range, once  *)
(* and in the order of the appends, whatever its bounds: neither cur_sec,  *)
(* the end nodes, the binary search nor the end at the first log out of    *)
(* the range loses or repeats one.                                         *)
LEMMA RangeReturns ==
    ASSUME Inv, RingInv, TimeInv, pc = "ready", Stored # <<>>, \A i \in DOMAIN Stored : ~Torn(Stored[i]),
           NEW from \in Nat, NEW to \in Int, Covered(from)
    PROVE  Returns({Stored[i] : i \in DOMAIN Stored}, from, to)
<1> DEFINE stored == Stored
           all == UNION {LogsOn(s) : s \in Sectors}
           read == ReadFrom(from)
           found == ByTime(from, to)
<1>1. stored \in Seq(Node) /\ Elems(stored) = all
  BY StoredSorted
<1>2. \A x : x \in all <=> \E s \in Sectors : x \in LogsOn(s)
  OBVIOUS
<1> HIDE DEF stored, all
<1>3. ASSUME NEW s \in Sectors, NEW i \in DOMAIN flash[s].log PROVE ~Torn(flash[s].log[i])
  <2>1. flash[s].log[i] \in Elems(stored)
    BY <1>1, <1>2 DEF LogsOn
  <2> QED
    BY <2>1 DEF Elems, stored
<1>4. /\ read \in Seq(Returned) /\ Sorted(read, InOrder)
      /\ \A x : x \in Elems(read) /\ x # NoLog <=> (\E s \in Sectors : x \in LogsOn(s)) /\ from <= x.time
  <2>1. from \in Int
    OBVIOUS
  <2> QED
    BY <1>3, <2>1, ReadFacts
<1>5. found = Upto(read, from, to)
  BY ByTimeReads
<1> HIDE DEF read, found
<1>6. \A i \in DOMAIN read : read[i] # NoLog => /\ \E s \in Sectors : read[i] \in LogsOn(s)
                                                /\ ~Torn(read[i]) /\ from <= read[i].time
  <2> SUFFICES ASSUME NEW i \in DOMAIN read, read[i] # NoLog
               PROVE  /\ \E s \in Sectors : read[i] \in LogsOn(s)
                      /\ ~Torn(read[i]) /\ from <= read[i].time
    OBVIOUS
  <2>1. read[i] \in Elems(read)
    BY DEF Elems
  <2>2. (\E s \in Sectors : read[i] \in LogsOn(s)) /\ from <= read[i].time
    BY <1>4, <2>1
  <2> QED
    BY <1>3, <2>2 DEF LogsOn
<1>7. \A i, j \in DOMAIN read : read[i] # NoLog /\ read[j] # NoLog /\ read[i].id < read[j].id
                                    => read[i].time <= read[j].time
  BY <1>6 DEF TimeInv, Monotone, LogsOn
<1>8. /\ Elems(found) = {x \in Elems(read) : x # NoLog /\ x.time <= to}
      /\ \A i \in 2..Len(found) : found[i - 1].id < found[i].id
  BY <1>4, <1>5, <1>6, <1>7, UptoFacts
<1>9. \A x : x \in Elems(found) <=> x \in Elems(stored) /\ from <= x.time /\ x.time <= to
  BY <1>1, <1>2, <1>4, <1>8
<1>10. Elems(found) = {log \in Elems(stored) : from <= log.time /\ log.time <= to}
  BY <1>9
<1> QED
  BY <1>8, <1>10 DEF Returns, Elems, found, stored

(* A query by time, whatever its bounds, returns the logs of the range,    *)
(* once and in the order of the appends, if there is no torn log and the   *)
(* time it begins at is one at or between two logs of one sector, or not   *)
(* after the oldest log; the three power failures of CalmCrashes apart.    *)
AnyRange ==
    pc = "ready" /\ Stored # <<>> /\ (\A i \in DOMAIN Stored : ~Torn(Stored[i])) =>
        \A from \in Nat, to \in Int : Covered(from) => Returns({Stored[i] : i \in DOMAIN Stored}, from, to)

THEOREM AnyRangeAlways ==
    ASSUME CalmCrashes
    PROVE  Spec => []AnyRange
<1>1. Inv /\ RingInv /\ TimeInv => AnyRange
  BY RangeReturns DEF AnyRange
<1> QED
  BY <1>1, Invariant, RingInvariant, TimeInvariant, PTL

(* The same of the bounds the run tries.                                   *)
THEOREM RangeExactAlways ==
    ASSUME CalmCrashes
    PROVE  Spec => []RangeExact
<1>1. Inv /\ AnyRange => RangeExact
  <2> SUFFICES ASSUME Inv, AnyRange, pc = "ready", Stored # <<>>,
                      \A log \in {Stored[i] : i \in DOMAIN Stored} : ~Torn(log),
                      NEW from \in 0..(clock + 1), Covered(from), NEW to \in {from, clock}
               PROVE  Returns({Stored[i] : i \in DOMAIN Stored}, from, to)
    BY Zenon DEF RangeExact
  <2>1. from \in Nat /\ to \in Int
    <3>1. clock \in Nat
      BY DEF Inv, MemoryOK
    <3> QED
      BY <3>1
  <2>2. \A i \in DOMAIN Stored : ~Torn(Stored[i])
    OBVIOUS
  <2> QED
    BY <2>1, <2>2 DEF AnyRange
<1> QED
  BY <1>1, Invariant, AnyRangeAlways, PTL
=============================================================================
