------------------------------ MODULE CoProofs ------------------------------
(***************************************************************************)
(* Proofs about Co, for any set of coroutines and any threads that stop    *)
(* the scheduler: cur_ never dangles, and the coroutines take their turns  *)
(* in the order of the list.                                               *)
(*                                                                         *)
(* Turn is the place of the list whose coroutine is next; one place behind *)
(* the last means the first.  TurnInv says that whoever was resumed since  *)
(* c was, or since c was added, comes after c in the ring that starts      *)
(* there.  Adding, returning and resuming a coroutine all keep that.       *)
(***************************************************************************)
EXTENDS Co, TLAPS

USE DEF coroutines, flags

\* Each coroutine has one place in the list.
ListInv == \A i, j \in 1..Len(cos) : cos[i] = cos[j] => i = j

\* Who has the thread, and what entry holds in node
NodeInv == /\ running # Null <=> pc = "running"
           /\ \A c \in Coroutines : st[c] = "running" <=> running = c
           /\ pc = "running" => node = running
           /\ pc \in {"running", "resume"} => node = cur
           /\ pc \in {"running", "resume", "switch"} => node # Null
           /\ \A c \in Coroutines : \A d \in served[c] : st[d] # "none"

Turn == IF cur = Null THEN 1
        ELSE IF pc \in {"running", "switch"} /\ node = cur THEN Position(cur) + 1
        ELSE Position(cur)

\* The i-th of the list comes before the j-th in the ring that starts at k.
Before(i, j, k) == \/ i >= k /\ j < k
                   \/ (i >= k <=> j >= k) /\ i < j

TurnInv == \A i, j \in 1..Len(cos) : cos[j] \in served[cos[i]] => Before(i, j, Turn)

StateInv == TypeOK /\ CurLives /\ ListInv /\ NodeInv

IInv == StateInv /\ TurnInv

-----------------------------------------------------------------------------
(* Places in the list.                                                     *)

\* The place of what is in a list without repetition.
LEMMA PlaceIn ==
  ASSUME NEW s \in Seq(Coroutines), \A i, j \in 1..Len(s) : s[i] = s[j] => i = j,
         NEW p \in 1..Len(s)
  PROVE  (CHOOSE i \in DOMAIN s : s[i] = s[p]) = p
<1> DEFINE q == CHOOSE i \in DOMAIN s : s[i] = s[p]
<1>1. DOMAIN s = 1..Len(s)
  OBVIOUS
<1>2. \E j \in DOMAIN s : s[j] = s[p]
  BY <1>1
<1>3. q \in DOMAIN s /\ s[q] = s[p]
  BY <1>2
<1> HIDE DEF q
<1>4. q = p
  BY <1>1, <1>3
<1> QED BY <1>4 DEF q

\* cur_ has a place, and the one behind it a place too.
LEMMA CurPlace ==
  ASSUME StateInv, cur # Null
  PROVE  /\ Position(cur) \in 1..Len(cos) /\ cos[Position(cur)] = cur
         /\ NextOf(cur) = IF Position(cur) = Len(cos) THEN cos[1] ELSE cos[Position(cur) + 1]
         /\ Len(cos) \in Nat /\ Len(cos) >= 1
<1> USE DEF StateInv, TypeOK, CurLives
<1>1. cos \in Seq(Coroutines) /\ cur \in ToSet(cos)
  OBVIOUS
<1>2. DOMAIN cos = 1..Len(cos) /\ Len(cos) \in Nat
  BY <1>1
<1>3. PICK i \in 1..Len(cos) : cos[i] = cur
  BY <1>1, <1>2 DEF ToSet
<1>4. Position(cur) = i
  BY <1>1, <1>3, PlaceIn DEF Position, ListInv
<1>5. Len(cos) >= 1 /\ Head(cos) = cos[1]
  BY <1>1, <1>2, <1>3
<1> QED BY <1>2, <1>3, <1>4, <1>5 DEF NextOf

\* Taking out the p-th of a list.
LEMMA TakeOut ==
  ASSUME NEW S, NEW s \in Seq(S), NEW p \in 1..Len(s)
  PROVE  /\ RemoveAt(s, p) \in Seq(S)
         /\ Len(RemoveAt(s, p)) = Len(s) - 1
         /\ \A i \in 1..(Len(s) - 1) : RemoveAt(s, p)[i] = IF i < p THEN s[i] ELSE s[i + 1]
<1> DEFINE a == SubSeq(s, 1, p - 1)
           b == SubSeq(s, p + 1, Len(s))
<1>1. Len(s) \in Nat /\ p \in Nat /\ p >= 1 /\ p <= Len(s)
  OBVIOUS
<1>2. a \in Seq(S) /\ Len(a) = p - 1 /\ \A i \in 1..(p - 1) : a[i] = s[i]
  BY <1>1
<1>3. b \in Seq(S) /\ Len(b) = Len(s) - p /\ \A i \in 1..(Len(s) - p) : b[i] = s[i + p]
  BY <1>1
<1> HIDE DEF a, b
<1>4. a \in Seq(S) /\ b \in Seq(S)
  BY <1>2, <1>3
<1>5. a \o b \in Seq(S) /\ Len(a \o b) = Len(a) + Len(b)
  BY <1>4
<1>6. \A i \in 1..(Len(a) + Len(b)) : (a \o b)[i] = IF i <= Len(a) THEN a[i] ELSE b[i - Len(a)]
  BY <1>4
<1>7. RemoveAt(s, p) = a \o b
  BY DEF RemoveAt, a, b
<1>8. Len(a) + Len(b) = Len(s) - 1 /\ Len(a) = p - 1
  BY <1>1, <1>2, <1>3
<1>9. ASSUME NEW i \in 1..(Len(s) - 1)
      PROVE  (a \o b)[i] = IF i < p THEN s[i] ELSE s[i + 1]
  <2>1. i \in Int /\ (a \o b)[i] = IF i <= p - 1 THEN a[i] ELSE b[i - (p - 1)]
    BY <1>6, <1>8
  <2>2. CASE i < p
    <3>1. i \in 1..(p - 1)
      BY <1>1, <2>2
    <3> QED BY <1>1, <1>2, <2>1, <2>2, <3>1
  <2>3. CASE i >= p
    <3>1. i - (p - 1) \in 1..(Len(s) - p) /\ (i - (p - 1)) + p = i + 1
      BY <1>1, <2>3
    <3>2. b[i - (p - 1)] = s[i + 1]
      BY <1>3, <3>1
    <3> QED BY <1>1, <2>1, <2>3, <3>2
  <2> QED BY <1>1, <2>1, <2>2, <2>3
<1> QED BY <1>5, <1>7, <1>8, <1>9

\* What ToSet says of a list.
LEMMA InList ==
  ASSUME NEW s \in Seq(Coroutines)
  PROVE  \A x : x \in ToSet(s) <=> \E i \in 1..Len(s) : s[i] = x
<1>1. DOMAIN s = 1..Len(s)
  OBVIOUS
<1> QED BY <1>1 DEF ToSet

\* The list without the coroutine at cur_, and the node behind it.
LEMMA LeaveList ==
  ASSUME StateInv, cur # Null, cos' = RemoveAt(cos, Position(cur))
  PROVE  LET p == Position(cur) IN
         /\ p \in 1..Len(cos) /\ cos[p] = cur /\ Len(cos) \in Nat
         /\ cos' \in Seq(Coroutines) /\ Len(cos') = Len(cos) - 1
         /\ \A i \in 1..Len(cos') : cos'[i] = IF i < p THEN cos[i] ELSE cos[i + 1]
         /\ ListInv' /\ ToSet(cos') = ToSet(cos) \ {cur}
         /\ Len(cos) # 1 => /\ NextOf(cur) = cos'[IF p = Len(cos) THEN 1 ELSE p]
                            /\ NextOf(cur) \in ToSet(cos')
<1> DEFINE p == Position(cur)
<1>1. /\ p \in 1..Len(cos) /\ cos[p] = cur /\ Len(cos) \in Nat
      /\ NextOf(cur) = IF p = Len(cos) THEN cos[1] ELSE cos[p + 1]
  BY CurPlace
<1>2. cos \in Seq(Coroutines) /\ cos' = RemoveAt(cos, p)
  BY DEF StateInv, TypeOK
<1> HIDE DEF p
<1>3. /\ cos' \in Seq(Coroutines) /\ Len(cos') = Len(cos) - 1
      /\ \A i \in 1..Len(cos') : cos'[i] = IF i < p THEN cos[i] ELSE cos[i + 1]
  BY <1>1, <1>2, TakeOut, ZenonT(60)
<1>4. \A i, j \in 1..Len(cos) : cos[i] = cos[j] => i = j
  BY DEF StateInv, ListInv
<1>5. ListInv'
  <2> SUFFICES ASSUME NEW i \in 1..Len(cos'), NEW j \in 1..Len(cos'), cos'[i] = cos'[j]
               PROVE  i = j
    BY DEF ListInv
  <2> QED BY <1>1, <1>3, <1>4
<1>6. ToSet(cos') = ToSet(cos) \ {cur}
  <2>1. ASSUME NEW x \in ToSet(cos')
        PROVE  x \in ToSet(cos) /\ x # cur
    <3>1. PICK i \in 1..Len(cos') : cos'[i] = x
      BY <1>3, <2>1, InList
    <3>2. \E j \in 1..Len(cos) : cos[j] = x /\ j # p
      <4>1. CASE i < p
        <5>1. i \in 1..Len(cos) /\ cos[i] = x /\ i # p
          BY <1>1, <1>3, <3>1, <4>1
        <5> QED BY <5>1
      <4>2. CASE ~(i < p)
        <5>1. i + 1 \in 1..Len(cos) /\ cos[i + 1] = x /\ i + 1 # p
          BY <1>1, <1>3, <3>1, <4>2
        <5> QED BY <5>1
      <4> QED BY <4>1, <4>2
    <3>3. PICK j \in 1..Len(cos) : cos[j] = x /\ j # p
      BY <3>2
    <3> QED BY <1>1, <1>2, <1>4, <3>3, InList
  <2>2. ASSUME NEW x \in ToSet(cos), x # cur
        PROVE  x \in ToSet(cos')
    <3>1. PICK j \in 1..Len(cos) : cos[j] = x
      BY <1>2, <2>2, InList
    <3>2. j # p
      BY <1>1, <2>2, <3>1
    <3>3. CASE j < p
      <4>1. j \in 1..Len(cos') /\ cos'[j] = x
        BY <1>1, <1>3, <3>1, <3>3
      <4> QED BY <1>3, <4>1, InList
    <3>4. CASE j > p
      <4>1. j - 1 \in 1..Len(cos') /\ cos'[j - 1] = x
        BY <1>1, <1>3, <3>1, <3>4
      <4> QED BY <1>3, <4>1, InList
    <3> QED BY <1>1, <3>2, <3>3, <3>4
  <2> QED BY <2>1, <2>2
<1>7. ASSUME Len(cos) # 1
      PROVE  /\ NextOf(cur) = cos'[IF p = Len(cos) THEN 1 ELSE p]
             /\ NextOf(cur) \in ToSet(cos')
  <2> DEFINE k == IF p = Len(cos) THEN 1 ELSE p
  <2>1. k \in 1..Len(cos') /\ NextOf(cur) = cos'[k]
    BY <1>1, <1>3, <1>7
  <2> QED BY <1>3, <2>1, InList
<1> QED BY <1>1, <1>3, <1>5, <1>6, <1>7 DEF p

-----------------------------------------------------------------------------
(* Every step keeps the list and the cursor.                               *)

\* A new coroutine in the list.
LEMMA StateAdd ==
  ASSUME StateInv, NEW c \in Coroutines, Add(c)
  PROVE  StateInv'
<1> USE CoAssumption DEF StateInv, TypeOK, CurLives, ListInv, NodeInv, Add
<1>1. /\ cos' \in Seq(Coroutines) /\ Len(cos') = Len(cos) + 1 /\ Len(cos) \in Nat
      /\ cos'[Len(cos) + 1] = c /\ \A i \in 1..Len(cos) : cos'[i] = cos[i]
  OBVIOUS
<1>2. c \notin ToSet(cos)
  OBVIOUS
<1>3. \A i \in 1..Len(cos) : cos[i] # c
  BY <1>2, InList
<1>4. ListInv'
  BY <1>1, <1>3
<1>5. ToSet(cos') = ToSet(cos) \union {c}
  <2>1. \A x : x \in ToSet(cos) <=> \E i \in 1..Len(cos) : cos[i] = x
    BY InList
  <2>2. \A x : x \in ToSet(cos') <=> \E i \in 1..Len(cos') : cos'[i] = x
    BY <1>1, InList, ZenonT(60)
  <2>3. ASSUME NEW x \in ToSet(cos)
        PROVE  x \in ToSet(cos')
    <3>1. PICK i \in 1..Len(cos) : cos[i] = x
      BY <2>1
    <3>2. i \in 1..Len(cos') /\ cos'[i] = x
      BY <1>1, <3>1
    <3> QED BY <2>2, <3>2
  <2>4. c \in ToSet(cos')
    <3>1. Len(cos) + 1 \in 1..Len(cos')
      BY <1>1
    <3> QED BY <1>1, <2>2, <3>1
  <2>5. ASSUME NEW x \in ToSet(cos'), x # c
        PROVE  x \in ToSet(cos)
    <3>1. PICK i \in 1..Len(cos') : cos'[i] = x
      BY <2>2, <2>5
    <3>2. i \in 1..Len(cos) /\ cos[i] = x
      BY <1>1, <2>5, <3>1
    <3> QED BY <2>1, <3>2
  <2> QED BY <2>3, <2>4, <2>5
<1>6. TypeOK'
  BY <1>1
<1>7. CurLives'
  <2>1. cos' # <<>>
    BY <1>1
  <2>2. cur' # Null /\ cur' \in ToSet(cos')
    BY <1>5
  <2>3. ToSet(cos') = {d \in Coroutines : st'[d] \notin {"none", "dead"}}
    BY <1>5
  <2>4. ns' = Len(cos')
    BY <1>1
  <2> QED BY <2>1, <2>2, <2>3, <2>4
<1>8. NodeInv'
  BY <1>1
<1> QED BY <1>4, <1>6, <1>7, <1>8

\* A coroutine that returns.
LEMMA StateReturn ==
  ASSUME StateInv, Return
  PROVE  StateInv'
<1>1. /\ running # Null /\ running \in Coroutines /\ node = running /\ cur = running
      /\ pc = "running"
  BY DEF StateInv, TypeOK, NodeInv, Return
<1>2. /\ cos' \in Seq(Coroutines) /\ Len(cos') = Len(cos) - 1 /\ Len(cos) \in Nat
      /\ ListInv' /\ ToSet(cos') = ToSet(cos) \ {cur}
      /\ Len(cos) # 1 => NextOf(cur) \in ToSet(cos')
      /\ Len(cos) >= 1
  BY <1>1, LeaveList, CurPlace DEF Return
<1> USE CoAssumption DEF StateInv, TypeOK, CurLives, NodeInv, Return
<1>3. cos' = <<>> <=> Len(cos) = 1
  BY <1>2
<1>4. ToSet(cos') \subseteq Coroutines
  BY <1>2
<1>5. TypeOK'
  BY <1>1, <1>2, <1>4
<1>6. CurLives'
  BY <1>1, <1>2, <1>3, <1>4
<1>7. NodeInv'
  BY <1>1
<1> QED BY <1>2, <1>5, <1>6, <1>7

\* The other steps leave the list alone.
LEMMA StateRest ==
  ASSUME StateInv,
         \/ Yield \/ Run \/ Entry \/ UNCHANGED vars
         \/ \E s \in Stoppers : Stop(s) \/ Wake(s) \/ Spurious(s)
  PROVE  StateInv'
<1> USE CoAssumption DEF StateInv, TypeOK, CurLives, ListInv, NodeInv
<1>1. CASE Yield
  BY <1>1 DEF Yield
<1>2. CASE Run
  <2>1. /\ UNCHANGED <<cos, cur, st, ns, running, served, node, spc>>
        /\ pc' = "outer" /\ pc = "idle" /\ stop' \in BOOLEAN /\ stoped' \in BOOLEAN
    BY <1>2 DEF Run
  <2> QED BY <2>1
<1>3. CASE TestOuter \/ TestInner \/ Fetch
  BY <1>3 DEF TestOuter, TestInner, Fetch
<1>4. CASE Resume
  BY <1>4 DEF Resume
<1>5. CASE Switch
  <2>1. CASE cos = <<>>
    BY <1>5, <2>1 DEF Switch
  <2>2. CASE cos # <<>>
    <3>1. cur # Null /\ Len(cos) \in Nat /\ Len(cos) >= 1
      BY <2>2, CurPlace
    <3>2. NextOf(cur) \in ToSet(cos) /\ NextOf(cur) \in Coroutines
      <4> DEFINE k == IF Position(cur) = Len(cos) THEN 1 ELSE Position(cur) + 1
      <4>1. k \in 1..Len(cos) /\ NextOf(cur) = cos[k]
        BY <3>1, CurPlace
      <4> QED BY <4>1, InList
    <3>3. cur' \in ToSet(cos) /\ cur' \in Coroutines
      BY <1>5, <2>2, <3>1, <3>2 DEF Switch
    <3> QED BY <1>5, <2>2, <3>3 DEF Switch
  <2> QED BY <2>1, <2>2
<1>6. CASE End
  <2>1. /\ UNCHANGED <<cos, cur, st, ns, running, served, node>>
        /\ pc' = "idle" /\ pc = "end" /\ stop' \in BOOLEAN /\ stoped' \in BOOLEAN
    BY <1>6 DEF End
  <2>2. spc' \in [Stoppers -> {"idle", "wait", "notified"}]
    BY <1>6 DEF End
  <2> QED BY <2>1, <2>2
<1>7. ASSUME NEW s \in Stoppers, Stop(s) \/ Wake(s) \/ Spurious(s)
      PROVE  StateInv'
  <2>1. UNCHANGED <<cos, cur, st, ns, running, served, node, pc>>
    BY <1>7 DEF Stop, Wake, Spurious
  <2>2. spc' \in [Stoppers -> {"idle", "wait", "notified"}]
    BY <1>7 DEF Stop, Wake, Spurious
  <2>3. stop' \in BOOLEAN /\ stoped' \in BOOLEAN
    BY <1>7 DEF Stop, Wake, Spurious
  <2> QED BY <2>1, <2>2, <2>3
<1>8. CASE UNCHANGED vars
  BY <1>8 DEF vars
<1> QED BY <1>1, <1>2, <1>3, <1>4, <1>5, <1>6, <1>7, <1>8 DEF Entry

-----------------------------------------------------------------------------
(* Every step keeps the order of the turns.                                *)

\* The steps that leave the list and the turns alone.
LEMMA TurnSame ==
  ASSUME StateInv, TurnInv, UNCHANGED <<cos, served>>, Turn' = Turn
  PROVE  TurnInv'
BY DEF TurnInv

\* A new coroutine comes last in the list, and nobody was resumed before it.
LEMMA TurnAdd ==
  ASSUME StateInv, TurnInv, NEW c \in Coroutines, Add(c), StateInv'
  PROVE  TurnInv'
<1> USE DEF StateInv, TypeOK
<1>1. /\ cos' \in Seq(Coroutines) /\ Len(cos') = Len(cos) + 1 /\ Len(cos) \in Nat
      /\ cos'[Len(cos) + 1] = c /\ \A i \in 1..Len(cos) : cos'[i] = cos[i]
      /\ served' = [served EXCEPT ![c] = {}]
      /\ UNCHANGED <<node, pc>> /\ st[c] = "none"
  BY DEF Add
<1>2. \A d \in Coroutines : c \notin served[d]
  BY <1>1 DEF NodeInv
<1>3. CASE cur = Null
  <2>1. Len(cos) = 0
    BY <1>3 DEF CurLives
  <2>2. SUFFICES ASSUME NEW i \in 1..Len(cos'), NEW j \in 1..Len(cos')
                 PROVE  cos'[j] \notin served'[cos'[i]]
    BY DEF TurnInv
  <2> QED BY <1>1, <2>1
<1>4. CASE cur # Null
  <2>1. Position(cur) \in 1..Len(cos) /\ cos[Position(cur)] = cur
    BY <1>4, CurPlace
  <2>2. cur' = cur /\ Position(cur) \in 1..Len(cos') /\ cos'[Position(cur)] = cur
    BY <1>1, <1>4, <2>1 DEF Add
  <2>3. Position(cur)' = Position(cur)
    BY <1>1, <2>2, PlaceIn DEF Position, ListInv
  <2>4. Turn' = Turn
    BY <1>1, <2>2, <2>3 DEF Turn
  <2>5. SUFFICES ASSUME NEW i \in 1..Len(cos'), NEW j \in 1..Len(cos'),
                        cos'[j] \in served'[cos'[i]]
                 PROVE  Before(i, j, Turn)
    BY <2>4 DEF TurnInv, Before
  <2>6. i # Len(cos) + 1 /\ cos'[i] \in Coroutines
    BY <1>1, <2>5
  <2>7. cos'[j] \in served[cos'[i]]
    BY <1>1, <2>5, <2>6
  <2>8. j # Len(cos) + 1
    BY <1>1, <1>2, <2>6, <2>7
  <2>9. i \in 1..Len(cos) /\ j \in 1..Len(cos) /\ cos[j] \in served[cos[i]]
    BY <1>1, <2>6, <2>7, <2>8
  <2> QED BY <2>9 DEF TurnInv
<1> QED BY <1>3, <1>4

\* Whoever is resumed goes to the end of the ring.
LEMMA TurnResume ==
  ASSUME StateInv, TurnInv, Resume, StateInv'
  PROVE  TurnInv'
<1> USE DEF StateInv, TypeOK
<1>1. /\ UNCHANGED <<cos, cur, node>> /\ pc' = "running" /\ pc = "resume"
      /\ served' = [c \in Coroutines |-> IF c = node THEN {} ELSE served[c] \union {node}]
      /\ node = cur /\ cur # Null
  BY DEF Resume, NodeInv
<1> DEFINE p == Position(cur)
<1>2. p \in 1..Len(cos) /\ cos[p] = cur /\ Len(cos) \in Nat
  BY <1>1, CurPlace
<1>3. Position(cur)' = p
  BY <1>1 DEF Position
<1>4. Turn = p /\ Turn' = p + 1
  BY <1>1, <1>3 DEF Turn
<1> HIDE DEF p
<1>5. SUFFICES ASSUME NEW i \in 1..Len(cos), NEW j \in 1..Len(cos),
                      cos[j] \in served'[cos[i]]
               PROVE  Before(i, j, p + 1)
  BY <1>1, <1>4 DEF TurnInv
<1>6. cos[i] \in Coroutines /\ cos[i] # node
  BY <1>1, <1>5
<1>7. cos[j] \in served[cos[i]] \/ cos[j] = node
  BY <1>1, <1>5, <1>6
<1>8. i # p
  BY <1>1, <1>2, <1>6
<1>9. CASE j = p
  BY <1>2, <1>8, <1>9 DEF Before
<1>10. CASE j # p
  <2>1. cos[j] # node
    BY <1>1, <1>2, <1>10 DEF ListInv
  <2>2. Before(i, j, p)
    BY <1>4, <1>7, <2>1 DEF TurnInv
  <2> QED BY <1>2, <1>8, <1>10, <2>2 DEF Before
<1> QED BY <1>9, <1>10

\* The ring closes up where a coroutine returns.
LEMMA TurnReturn ==
  ASSUME StateInv, TurnInv, Return, StateInv'
  PROVE  TurnInv'
<1>1. /\ running # Null /\ running \in Coroutines /\ node = running /\ cur = running
      /\ pc = "running"
  BY DEF StateInv, TypeOK, NodeInv, Return
<1> DEFINE p == Position(cur)
<1>2. /\ p \in 1..Len(cos) /\ cos[p] = cur /\ Len(cos) \in Nat
      /\ cos' \in Seq(Coroutines) /\ Len(cos') = Len(cos) - 1
      /\ \A i \in 1..Len(cos') : cos'[i] = IF i < p THEN cos[i] ELSE cos[i + 1]
      /\ ListInv' /\ ToSet(cos') = ToSet(cos) \ {cur}
      /\ Len(cos) # 1 => /\ NextOf(cur) = cos'[IF p = Len(cos) THEN 1 ELSE p]
                         /\ NextOf(cur) \in ToSet(cos')
  BY <1>1, LeaveList DEF Return
<1>3. Turn = p + 1
  BY <1>1 DEF Turn
<1> HIDE DEF p
<1>4. CASE Len(cos) = 1
  BY <1>2, <1>4 DEF TurnInv
<1>5. CASE Len(cos) # 1
  <2> DEFINE k == IF p = Len(cos) THEN 1 ELSE p
  <2>1. k \in 1..Len(cos') /\ cur' = cos'[k] /\ cur' # cur /\ cur' # Null
    BY <1>1, <1>2, <1>5, CoAssumption DEF Return
  <2>2. Position(cur)' = k
    BY <1>2, <2>1, PlaceIn DEF Position, ListInv
  <2>3. node' = node /\ served' = served
    BY DEF Return
  <2>4. Turn' = k
    BY <1>1, <2>1, <2>2, <2>3 DEF Turn
  <2>5. SUFFICES ASSUME NEW i \in 1..Len(cos'), NEW j \in 1..Len(cos'),
                        cos'[j] \in served[cos'[i]]
                 PROVE  Before(i, j, k)
    BY <2>3, <2>4 DEF TurnInv
  <2> DEFINE m(n) == IF n < p THEN n ELSE n + 1
  <2>6. /\ m(i) \in 1..Len(cos) /\ m(j) \in 1..Len(cos)
        /\ cos'[i] = cos[m(i)] /\ cos'[j] = cos[m(j)]
    BY <1>2
  <2>7. Before(m(i), m(j), p + 1)
    BY <1>3, <2>5, <2>6 DEF TurnInv
  <2> QED BY <1>2, <1>5, <2>7 DEF Before
<1> QED BY <1>4, <1>5

\* The scheduler moves on.
LEMMA TurnSwitch ==
  ASSUME StateInv, TurnInv, Switch, StateInv'
  PROVE  TurnInv'
<1>1. UNCHANGED <<cos, node, served>> /\ pc = "switch" /\ pc' \in {"outer", "inner"}
  BY DEF Switch
<1>2. CASE cos = <<>>
  BY <1>1, <1>2 DEF TurnInv
<1>3. CASE cos # <<>>
  <2>1. cur # Null
    BY <1>3 DEF StateInv, CurLives
  <2> DEFINE p == Position(cur)
  <2>2. /\ p \in 1..Len(cos) /\ cos[p] = cur /\ Len(cos) \in Nat
        /\ NextOf(cur) = IF p = Len(cos) THEN cos[1] ELSE cos[p + 1]
    BY <2>1, CurPlace
  <2>3. CASE node = cur
    <3> DEFINE k == IF p = Len(cos) THEN 1 ELSE p + 1
    <3>1. Turn = p + 1
      BY <1>1, <2>1, <2>3 DEF Turn
    <3> HIDE DEF p
    <3>2. k \in 1..Len(cos) /\ cur' = cos[k] /\ cur' # Null
      BY <1>3, <2>2, <2>3, CoAssumption DEF Switch, StateInv, TypeOK
    <3>3. Position(cur)' = k
      BY <1>1, <3>2, PlaceIn DEF Position, ListInv, StateInv, TypeOK
    <3>4. Turn' = k
      BY <1>1, <3>2, <3>3 DEF Turn
    <3>5. \A i, j \in 1..Len(cos) : Before(i, j, p + 1) => Before(i, j, k)
      BY <2>2 DEF Before
    <3> QED BY <1>1, <3>1, <3>4, <3>5 DEF TurnInv
  <2>4. CASE node # cur
    <3>1. cur' = cur
      BY <1>3, <2>4 DEF Switch
    <3>2. Turn' = Turn
      BY <1>1, <2>1, <2>4, <3>1 DEF Turn, Position
    <3> QED BY <1>1, <3>2, TurnSame
  <2> QED BY <2>3, <2>4
<1> QED BY <1>2, <1>3

-----------------------------------------------------------------------------
\* IInv holds in every state of the scheduler (co.cpp, _co.cpp).
THEOREM Invariant == Spec => []IInv
<1>1. Init => IInv
  <2> SUFFICES ASSUME Init
               PROVE  IInv
    OBVIOUS
  <2> USE CoAssumption DEF Init
  <2>1. cos \in Seq(Coroutines) /\ Len(cos) = 0 /\ ToSet(cos) = {}
    BY DEF ToSet
  <2>2. TypeOK
    BY <2>1 DEF TypeOK
  <2>3. CurLives
    BY <2>1 DEF CurLives
  <2>4. ListInv /\ NodeInv /\ TurnInv
    BY <2>1 DEF ListInv, NodeInv, TurnInv
  <2> QED BY <2>2, <2>3, <2>4 DEF IInv, StateInv
<1>2. IInv /\ [Next]_vars => IInv'
  <2> SUFFICES ASSUME IInv, [Next]_vars
               PROVE  IInv'
    OBVIOUS
  <2>1. StateInv /\ TurnInv
    BY DEF IInv
  <2>2. StateInv'
    BY <2>1, StateAdd, StateReturn, StateRest DEF Next, LetGo
  <2>3. ASSUME NEW c \in Coroutines, Add(c)
        PROVE  TurnInv'
    BY <2>1, <2>2, <2>3, TurnAdd
  <2>4. ASSUME Return \/ Resume \/ Switch
        PROVE  TurnInv'
    BY <2>1, <2>2, <2>4, TurnReturn, TurnResume, TurnSwitch
  <2>5. ASSUME Yield
        PROVE  TurnInv'
    <3>1. Turn' = Turn
      BY <2>5 DEF Yield, Turn, Position
    <3> QED BY <2>1, <2>5, <3>1, TurnSame DEF Yield
  <2>6. ASSUME Run \/ TestOuter \/ TestInner \/ Fetch \/ End
        PROVE  TurnInv'
    <3>1. /\ UNCHANGED <<cos, cur, served>> /\ pc \notin {"running", "switch"}
          /\ pc' \notin {"running", "switch"}
      BY <2>6 DEF Run, TestOuter, TestInner, Fetch, End
    <3>2. Turn' = Turn
      BY <3>1 DEF Turn, Position
    <3> QED BY <2>1, <3>1, <3>2, TurnSame
  <2>7. ASSUME UNCHANGED vars \/ \E s \in Stoppers : Stop(s) \/ Wake(s) \/ Spurious(s)
        PROVE  TurnInv'
    <3>1. UNCHANGED <<cos, cur, served, pc, node>>
      BY <2>7 DEF Stop, Wake, Spurious, vars
    <3>2. Turn' = Turn
      BY <3>1 DEF Turn, Position
    <3> QED BY <2>1, <3>1, <3>2, TurnSame
  <2>8. TurnInv'
    BY <2>3, <2>4, <2>5, <2>6, <2>7 DEF Next, Entry, LetGo
  <2> QED BY <2>2, <2>8 DEF IInv
<1> QED BY <1>1, <1>2, PTL DEF Spec

\* cur_ is null exactly when no coroutine is left, else a node of the list, and
\* what is about to be resumed may be resumed.
THEOREM ConsistentAlways == Spec => []Consistent
<1>1. IInv => Consistent
  BY DEF IInv, StateInv, Consistent
<1> QED BY <1>1, Invariant, PTL

\* Nobody is resumed twice while a coroutine that is in the list waits.
THEOREM TurnsInOrder == Spec => TakesTurns
<1>1. IInv /\ [Next]_vars =>
         [running' # Null /\ running = Null
            => \A c \in ToSet(cos) \ {running'} : running' \notin served[c]]_vars
  <2> SUFFICES ASSUME IInv, [Next]_vars, running' # Null, running = Null,
                      NEW c \in ToSet(cos), c # running', running' \in served[c]
               PROVE  FALSE
    OBVIOUS
  <2>1. Resume
    BY DEF Next, Add, Run, Entry, TestOuter, TestInner, Fetch, Switch, End, LetGo, Yield,
           Return, Stop, Wake, Spurious, vars
  <2>2. running' = cur /\ cur # Null /\ pc = "resume"
    BY <2>1 DEF Resume, IInv, StateInv, NodeInv
  <2>3. Position(cur) \in 1..Len(cos) /\ cos[Position(cur)] = cur /\ Len(cos) \in Nat
    BY <2>2, CurPlace DEF IInv
  <2>4. PICK i \in 1..Len(cos) : cos[i] = c
    BY InList DEF IInv, StateInv, TypeOK
  <2>5. Turn = Position(cur)
    BY <2>2 DEF Turn
  <2>6. Before(i, Position(cur), Position(cur))
    BY <2>2, <2>3, <2>4, <2>5 DEF IInv, TurnInv
  <2>7. i # Position(cur)
    BY <2>2, <2>3, <2>4
  <2> QED BY <2>3, <2>6, <2>7 DEF Before
<1> QED BY <1>1, Invariant, PTL DEF Spec, TakesTurns
=============================================================================
