----------------------------- MODULE KvdbProofs -----------------------------
(***************************************************************************)
(* Proofs about the key/value database, for every number of sectors, of    *)
(* nodes in a sector, of names and of values, as long as the names leave   *)
(* room in the flash (FewNames) and the power holds: between calls every   *)
(* name is read as what it was last set to, and whatever step the first    *)
(* power failure comes after, the flash has a value of every name.         *)
(*                                                                         *)
(* What the program has still to do is the stack todo.  The invariant is a *)
(* list of forms: each says how the stack looks at one place of the code,  *)
(* and what holds of the flash there.                                      *)
(***************************************************************************)
EXTENDS Kvdb, SequenceTheorems, FiniteSetTheorems, WellFoundedInduction, TLAPS

\* The names do not fill all sectors but one.
FewNames == IsFiniteSet(Keys) /\ Cardinality(Keys) < (NSectors - 1) * Slots

-----------------------------------------------------------------------------
(* Stacks of tasks.                                                        *)
Tags == {"new_kv", "find_kv", "gc_after", "return", "formatted", "pre_delete", "delete", "dirty",
         "sec_status", "pre_write", "header", "body", "commit", "erase", "format", "gc_collect",
         "gc_sector", "gc_kv", "move", "gc_end", "check_hdr", "check_all", "check_gc",
         "check_kv", "checked"}
Tasks == [t : Tags, s : Nat, i : Nat, d : Nat]
Push(t, X) == <<t>> \o X
From(F, m) == [j \in 1..(Len(F) - m + 1) |-> F[j + m - 1]]

AfterSet == Push(Task("gc_after", 0, 0, 0), <<Task("return", 0, 0, 0)>>)
Done == <<Task("return", 0, 0, 0)>>

\* Sectors s and on are still to be collected, or in s the nodes i and on.
GcScript    == EachSector("gc_sector") \o <<Task("gc_end", 0, 0, 0)>> \o Done
GcFrom(s)   == From(GcScript, s)
ToFormat(s, X) == Push(Task("format", s, 0, 0), X)
ToErase(s, X)  == Push(Task("erase", s, 0, 0), ToFormat(s, X))
InSector(s, i) == Push(Task("gc_kv", s, i, 0), ToErase(s, GcFrom(s + 1)))

\* The node at a is to be prepared for deletion, is to be deleted.
ToDirty(a, X)  == Push(Task("dirty", a[1], 0, 0), X)
ToMark(a, X)   == Push(Task("pre_delete", a[1], a[2], 0), ToDirty(a, X))
ToDelete(a, X) == Push(Task("delete", a[1], a[2], 0), ToDirty(a, X))
Replacing(a, X) == IF a = NoAddr THEN X ELSE ToDelete(a, X)

\* Of the five writes that make a node in d, the n-th is next.
ToCommit(d, from, X) == Push(Task("commit", from[1], from[2], d), X)
ToBody(d, from, X)   == Push(Task("body", 0, 0, d), ToCommit(d, from, X))
ToHeader(d, from, X) == Push(Task("header", 0, 0, d), ToBody(d, from, X))
ToWrite(d, from, X)  == Push(Task("pre_write", from[1], from[2], d), ToHeader(d, from, X))
ToMake(d, from, X)   == Push(Task("sec_status", from[1], from[2], d), ToWrite(d, from, X))

FormatFrom(m, X) == From(FormatAll, m) \o X
ToFormatted == <<Task("formatted", 0, 0, 0)>>
BootScript == EachSector("check_hdr") \o <<Task("check_all", 0, 0, 0)>>
                \o EachSector("check_gc") \o KvCheck
BootFrom(m) == From(BootScript, m)
Checking(s) == <<Task("check_kv", s, 1, 0), Task("checked", 0, 0, 0)>>
ToFinish == <<Task("checked", 0, 0, 0)>>

-----------------------------------------------------------------------------
(* The flash.                                                              *)
Node == [key : Keys, val : Vals, status : {"PRE_WRITE", "WRITE", "PRE_DELETE", "DELETED"},
         data : {"none", "hdr", "full"}]
Sector == [ok : BOOLEAN, store : {"UNUSED", "EMPTY", "USING", "FULL"},
           dirty : {"UNUSED", "FALSE", "TRUE", "GC"}, kv : Seq(Node)]
DbType == [gc_request : BOOLEAN, in_recovery_check : BOOLEAN, last_is_complete_del : BOOLEAN,
           cur_sector : Nat, failed : Nat, cache : [Keys -> Nat \X Nat]]
TypeOK == /\ flash \in [Sectors -> Sector]
          /\ db \in DbType
          /\ want \in [Keys -> SUBSET (Vals \union {None})]

Used(s) == Len(flash[s].kv)
StoreFor(n) == IF n = 0 THEN "EMPTY" ELSE IF n = Slots THEN "FULL" ELSE "USING"

\* Each sector's header says how full it is; that of p is one node ahead, and e
\* is erased.
Shape(p, e) ==
    \A s \in Sectors :
        /\ Used(s) <= Slots
        /\ IF s = e THEN flash[s] = Erased
           ELSE /\ flash[s].ok
                /\ flash[s].store = StoreFor(IF s = p THEN Used(s) + 1 ELSE Used(s))
                /\ flash[s].dirty \in {"FALSE", "TRUE", "GC"}
                /\ Used(s) = 0 => flash[s].dirty = "FALSE"

Full(a)   == CrcOk(NodeAt(a))
State(a)  == NodeAt(a).status
KeyOf(a)  == NodeAt(a).key
ValOf(a)  == NodeAt(a).val
Holder(a) == Full(a) /\ State(a) \in {"WRITE", "PRE_DELETE"}

\* The node at old is prepared for deletion, the one at fresh is being written.
NodesOK(old, fresh) ==
    \A a \in Addrs :
        IF a = fresh THEN State(a) = "PRE_WRITE"
        ELSE Full(a) /\ IF a = old THEN State(a) = "PRE_DELETE"
                        ELSE State(a) \in {"WRITE", "DELETED"}

\* Each name has one holder, with the value that E expects; the node at gone
\* does not count.
HoldersOK(E, gone) ==
    /\ \A a, b \in Addrs \ {gone} :
          Holder(a) /\ Holder(b) /\ KeyOf(a) = KeyOf(b) => a = b
    /\ \A a \in Addrs \ {gone} : Holder(a) => E[KeyOf(a)] = {ValOf(a)}
    /\ \A k \in Keys : E[k] = {None} \/ \E a \in Addrs \ {gone} : Holder(a) /\ KeyOf(a) = k

\* What the cache is believed to say is true.
CacheOK(fresh, gone) ==
    \A k \in Keys : CacheHit(k) => \/ db.cache[k] = fresh
                                   \/ Holder(db.cache[k]) /\ db.cache[k] # gone

\* A sector that is not dirty has no deleted node, but for the one at last.
CleanOK(fresh, last) ==
    \A a \in Addrs : flash[a[1]].dirty = "FALSE" /\ a # fresh /\ a # last => State(a) = "WRITE"

Data(E, old, fresh, gone, last) ==
    NodesOK(old, fresh) /\ HoldersOK(E, gone) /\ CacheOK(fresh, gone) /\ CleanOK(fresh, last)

Steady(E) == /\ Shape(0, 0) /\ Data(E, NoAddr, NoAddr, NoAddr, NoAddr)
             /\ ~db.last_is_complete_del

Bare(s) == Used(s) = 0
\* A sector other than x is empty.
Spare(x) == \E e \in Sectors \ {x} : Bare(e)
TwoSpare == \E r, s \in Sectors : r # s /\ Bare(r) /\ Bare(s)
HasRoom == TwoSpare \/ (\E s \in Sectors : ~Bare(s) /\ Used(s) < Slots)
CleanBelow(s) == \A r \in Sectors : r < s => flash[r].dirty = "FALSE"
\* No sector is being collected but x.
Calm(x) == \A s \in Sectors \ {x} : flash[s].dirty # "GC"

-----------------------------------------------------------------------------
(* The calls.  What is expected of the flash before and after the change.  *)
OldValues == [k \in Keys |-> IF k = op.key THEN op.before ELSE want[k]]
NewValues == [k \in Keys |-> IF k = op.key THEN {op.val} ELSE want[k]]
One(S) == \E v \in Vals \union {None} : S = {v}
InCall == /\ op.key \in Keys /\ op.val \in Vals \union {None}
          /\ One(op.before) /\ want[op.key] = op.before \union {op.val}
          /\ \A k \in Keys : k # op.key => One(want[k])
Setting == InCall /\ op.val \in Vals /\ Calm(0)

Idle == /\ todo = <<>> /\ op = NoOp /\ ~db.gc_request
        /\ \A k \in Keys : One(want[k])
        /\ Steady(want) /\ Calm(0) /\ Spare(0) /\ HasRoom

IsNew == /\ todo = <<Task("new_kv", 0, 0, 0)>> /\ Setting /\ ~db.gc_request
         /\ Steady(OldValues) /\ Spare(0) /\ HasRoom

Target(d) == d \in Sectors /\ Used(d) < Slots /\ Spare(d)
IsFind == /\ todo = <<Task("find_kv", 0, 0, 0)>> /\ Setting /\ ~db.gc_request
          /\ Steady(OldValues) /\ Target(db.cur_sector)

Settled == HasRoom \/ db.gc_request
IsAfterSet == todo = AfterSet /\ Setting /\ Steady(NewValues) /\ Spare(0) /\ Settled
IsDone == /\ todo = Done /\ InCall /\ ~db.gc_request
          /\ Steady(NewValues) /\ Calm(0) /\ Spare(0) /\ HasRoom

-----------------------------------------------------------------------------
(* The life of a node: E is expected.                                      *)
Live(a) == a \in Addrs /\ State(a) = "WRITE"
Marked(a, E) == /\ Shape(0, 0) /\ Data(E, a, NoAddr, NoAddr, a)
                /\ db.last_is_complete_del /\ a \in Addrs

\* The name k has no holder but the node at old.
OnlyOld(old, k) == /\ \A b \in Addrs : Holder(b) /\ KeyOf(b) = k => b = old
                   /\ IF old = NoAddr THEN ~db.last_is_complete_del
                      ELSE old \in Addrs /\ KeyOf(old) = k /\ db.last_is_complete_del
Allotted(old, d, k, E, p) == /\ d \in Sectors /\ Used(d) < Slots
                             /\ Shape(p, 0) /\ Data(E, old, NoAddr, NoAddr, NoAddr)
                             /\ OnlyOld(old, k)
Fresh(d) == <<d, Used(d)>>
Making(old, d, k, v, E, data) ==
    /\ d \in Sectors /\ Used(d) >= 1
    /\ Shape(0, 0) /\ Data(E, old, Fresh(d), NoAddr, NoAddr)
    /\ OnlyOld(old, k) /\ old # Fresh(d)
    /\ NodeAt(Fresh(d)) = [key |-> k, val |-> v, status |-> "PRE_WRITE", data |-> data]
    /\ data = "full" => db.cache[k] = Fresh(d)
Replaced(old, E) == /\ Shape(0, 0) /\ Data(E, old, NoAddr, old, NoAddr)
                    /\ db.last_is_complete_del /\ old \in Addrs
Deleted(a, E) == /\ Shape(0, 0) /\ Data(E, NoAddr, NoAddr, NoAddr, a)
                 /\ ~db.last_is_complete_del /\ a \in Addrs

-----------------------------------------------------------------------------
(* Setting and deleting a name.                                            *)
MakeFor(a, d) == ToMake(d, NoAddr, Replacing(a, AfterSet))
IsSetMark == \E a \in Addrs, d \in Sectors :
    /\ todo = ToMark(a, MakeFor(a, d)) /\ Setting /\ ~db.gc_request
    /\ Target(d) /\ Steady(OldValues) /\ Live(a) /\ KeyOf(a) = op.key
IsSetMarked == \E a \in Addrs, d \in Sectors :
    /\ todo = ToDirty(a, MakeFor(a, d)) /\ Setting /\ ~db.gc_request
    /\ Target(d) /\ Marked(a, OldValues) /\ KeyOf(a) = op.key

Olds == Addrs \union {NoAddr}
SetMake(a, d, p) == /\ Setting /\ ~db.gc_request /\ Spare(d)
                    /\ Allotted(a, d, op.key, OldValues, p)
SetWrite(a, d, data) == /\ Setting /\ ~db.gc_request /\ Spare(d)
                        /\ Making(a, d, op.key, op.val, OldValues, data)
IsSetMake == \E a \in Olds, d \in Sectors :
    todo = ToMake(d, NoAddr, Replacing(a, AfterSet)) /\ SetMake(a, d, 0)
IsSetPre == \E a \in Olds, d \in Sectors :
    todo = ToWrite(d, NoAddr, Replacing(a, AfterSet)) /\ SetMake(a, d, d)
IsSetHeader == \E a \in Olds, d \in Sectors :
    todo = ToHeader(d, NoAddr, Replacing(a, AfterSet)) /\ SetWrite(a, d, "none")
IsSetBody == \E a \in Olds, d \in Sectors :
    todo = ToBody(d, NoAddr, Replacing(a, AfterSet)) /\ SetWrite(a, d, "hdr")
IsSetCommit == \E a \in Olds, d \in Sectors :
    todo = ToCommit(d, NoAddr, Replacing(a, AfterSet)) /\ SetWrite(a, d, "full")
IsSetDelete == \E a \in Addrs :
    todo = ToDelete(a, AfterSet) /\ Setting /\ Replaced(a, NewValues) /\ Spare(0) /\ Settled
IsSetDeleted == \E a \in Addrs :
    todo = ToDirty(a, AfterSet) /\ Setting /\ Deleted(a, NewValues) /\ Spare(0) /\ Settled

Deleting == InCall /\ op.val = None /\ ~db.gc_request /\ Calm(0) /\ Spare(0) /\ HasRoom
IsDelDelete == \E a \in Addrs :
    todo = ToDelete(a, Done) /\ Deleting /\ Steady(OldValues) /\ Live(a) /\ KeyOf(a) = op.key
IsDelDeleted == \E a \in Addrs : todo = ToDirty(a, Done) /\ Deleting /\ Deleted(a, NewValues)

-----------------------------------------------------------------------------
(* Garbage collection, always behind a set.                                *)
InGc == InCall /\ db.gc_request
IsCollect == /\ todo = Push(Task("gc_collect", 0, 0, 0), Done)
             /\ InGc /\ Steady(NewValues) /\ Calm(0) /\ Spare(0)
IsWalk == \E s \in 1..(NSectors + 1) :
    /\ todo = GcFrom(s) /\ InGc /\ Steady(NewValues) /\ Calm(0) /\ Spare(0)
    /\ CleanBelow(s) \/ (s = NSectors + 1 /\ HasRoom)

\* The nodes of sector s before i are deleted.
Gone(s, i) == /\ InGc /\ s \in Sectors /\ flash[s].dirty = "GC" /\ Calm(s) /\ CleanBelow(s)
              /\ \A j \in 1..Used(s) : j < i => State(<<s, j>>) = "DELETED"
\* The nodes of sector s from i on have room elsewhere.
Room(s, i) == \E e \in Sectors : e # s /\ flash[e].dirty = "FALSE" /\ Used(e) < i

IsGcKv == \E s \in Sectors, i \in 1..(Slots + 1) :
    todo = InSector(s, i) /\ Gone(s, i) /\ Room(s, i) /\ Steady(NewValues)
IsMoveMark == \E s \in Sectors, i \in 1..Slots :
    /\ todo = ToMark(<<s, i>>, Push(Task("move", s, i, 0), InSector(s, i + 1)))
    /\ Gone(s, i) /\ Room(s, i) /\ Steady(NewValues) /\ Live(<<s, i>>)
IsMoveMarked == \E s \in Sectors, i \in 1..Slots :
    /\ todo = ToDirty(<<s, i>>, Push(Task("move", s, i, 0), InSector(s, i + 1)))
    /\ Gone(s, i) /\ Room(s, i) /\ Marked(<<s, i>>, NewValues)
IsMove == \E s \in Sectors, i \in 1..Slots :
    /\ todo = Push(Task("move", s, i, 0), InSector(s, i + 1))
    /\ Gone(s, i) /\ Room(s, i) /\ <<s, i>> \in Addrs
    /\ Shape(0, 0) /\ Data(NewValues, <<s, i>>, NoAddr, NoAddr, NoAddr)
    /\ OnlyOld(<<s, i>>, KeyOf(<<s, i>>))

AfterMove(s, i) == ToDelete(<<s, i>>, InSector(s, i + 1))
MoveMake(s, i, d, p) == /\ Gone(s, i) /\ Room(s, i) /\ d # s /\ <<s, i>> \in Addrs
                        /\ Allotted(<<s, i>>, d, KeyOf(<<s, i>>), NewValues, p)
MoveWrite(s, i, d, data) ==
    /\ Gone(s, i) /\ Room(s, i + 1) /\ d # s /\ <<s, i>> \in Addrs
    /\ Making(<<s, i>>, d, KeyOf(<<s, i>>), ValOf(<<s, i>>), NewValues, data)
IsMoveMake == \E s \in Sectors, i \in 1..Slots, d \in Sectors :
    todo = ToMake(d, <<s, i>>, AfterMove(s, i)) /\ MoveMake(s, i, d, 0)
IsMovePre == \E s \in Sectors, i \in 1..Slots, d \in Sectors :
    todo = ToWrite(d, <<s, i>>, AfterMove(s, i)) /\ MoveMake(s, i, d, d)
IsMoveHeader == \E s \in Sectors, i \in 1..Slots, d \in Sectors :
    todo = ToHeader(d, <<s, i>>, AfterMove(s, i)) /\ MoveWrite(s, i, d, "none")
IsMoveBody == \E s \in Sectors, i \in 1..Slots, d \in Sectors :
    todo = ToBody(d, <<s, i>>, AfterMove(s, i)) /\ MoveWrite(s, i, d, "hdr")
IsMoveCommit == \E s \in Sectors, i \in 1..Slots, d \in Sectors :
    todo = ToCommit(d, <<s, i>>, AfterMove(s, i)) /\ MoveWrite(s, i, d, "full")
IsMoveDelete == \E s \in Sectors, i \in 1..Slots :
    /\ todo = AfterMove(s, i) /\ Gone(s, i) /\ Room(s, i + 1)
    /\ Replaced(<<s, i>>, NewValues)
IsMoveDeleted == \E s \in Sectors, i \in 1..Slots :
    /\ todo = ToDirty(<<s, i>>, InSector(s, i + 1)) /\ Gone(s, i + 1) /\ Room(s, i + 1)
    /\ Deleted(<<s, i>>, NewValues)

IsErase == \E s \in Sectors :
    todo = ToErase(s, GcFrom(s + 1)) /\ Gone(s, Slots + 1) /\ Steady(NewValues)
IsFormat == \E s \in Sectors :
    /\ todo = ToFormat(s, GcFrom(s + 1)) /\ InGc /\ Calm(0) /\ CleanBelow(s)
    /\ Shape(0, s) /\ Data(NewValues, NoAddr, NoAddr, NoAddr, NoAddr)
    /\ ~db.last_is_complete_del

-----------------------------------------------------------------------------
(* Formatting all sectors, and the first start.                            *)
AllClean == \A s \in Sectors : flash[s] = Clean
FormattedTo(m) == \A s \in Sectors : /\ 2 * s < m => flash[s] = Clean
                                     /\ 2 * s = m => flash[s] = Erased
InDefault == /\ op = NoOp /\ ~db.gc_request /\ ~db.last_is_complete_del
             /\ \A k \in Keys : None \in want[k]
IsDefault == \E m \in 1..(2 * NSectors) :
    todo = FormatFrom(m, ToFormatted) /\ FormattedTo(m) /\ InDefault
IsFormatted == todo = ToFormatted /\ AllClean /\ InDefault

New == /\ op = NoOp /\ \A k \in Keys : want[k] = {None}
       /\ \A s \in Sectors : flash[s] \in {Erased, Clean}
       /\ ~db.gc_request /\ ~db.last_is_complete_del
CleanTo(s) == \A r \in Sectors : flash[r] = IF r <= s THEN Clean ELSE Erased
IsOff == phase = "off" /\ New /\ todo = <<>> /\ CleanTo(0)
IsHdr == \E m \in 1..(NSectors + 1) : todo = BootFrom(m) /\ CleanTo(m - 1) /\ db.failed = m - 1
IsHdrErase == \E s \in Sectors :
    todo = ToErase(s, BootFrom(s + 1)) /\ CleanTo(s - 1) /\ db.failed = s
IsHdrFormat == \E s \in Sectors :
    todo = ToFormat(s, BootFrom(s + 1)) /\ CleanTo(s - 1) /\ db.failed = s
IsBootFormat == \E m \in 1..(2 * NSectors) :
    todo = FormatFrom(m, BootFrom(NSectors + 2)) /\ FormattedTo(m)
IsCheckGc == \E s \in Sectors : todo = BootFrom(NSectors + 1 + s) /\ AllClean
IsCheckKv == \E s \in 1..(NSectors + 1) : todo = Checking(s) /\ AllClean
IsChecked == todo = ToFinish /\ AllClean

Booting == /\ phase = "boot" /\ New
           /\ \/ IsHdr \/ IsHdrErase \/ IsHdrFormat \/ IsBootFormat
              \/ IsCheckGc \/ IsCheckKv \/ IsChecked

Up == phase = "ready" /\ ~db.in_recovery_check
Running == /\ Up
           /\ \/ Idle \/ IsNew \/ IsFind \/ IsAfterSet \/ IsDone
              \/ IsSetMark \/ IsSetMarked
              \/ IsSetMake \/ IsSetPre \/ IsSetHeader \/ IsSetBody \/ IsSetCommit
              \/ IsSetDelete \/ IsSetDeleted \/ IsDelDelete \/ IsDelDeleted
              \/ IsCollect \/ IsWalk \/ IsGcKv \/ IsMoveMark \/ IsMoveMarked \/ IsMove
              \/ IsMoveMake \/ IsMovePre \/ IsMoveHeader \/ IsMoveBody \/ IsMoveCommit
              \/ IsMoveDelete \/ IsMoveDeleted \/ IsErase \/ IsFormat \/ IsDefault \/ IsFormatted

\* What holds until the first power failure.
Forms == IsOff \/ Booting \/ Running
IInv == crashes \in Nat /\ (crashes = 0 => TypeOK /\ Forms)

-----------------------------------------------------------------------------
(* The tasks of the stacks.                                                *)
Stack == Seq(Tasks)

LEMMA PushFacts ==
    ASSUME NEW t \in Tasks, NEW X \in Stack
    PROVE  /\ Push(t, X) \in Stack /\ Push(t, X) # <<>>
           /\ Push(t, X)[1] = t /\ Tail(Push(t, X)) = X
<1>1. <<t>> \in Seq(Tasks) /\ Len(<<t>>) = 1 /\ <<t>>[1] = t
  OBVIOUS
<1>2. /\ Push(t, X) \in Seq(Tasks)
      /\ Len(Push(t, X)) = 1 + Len(X)
      /\ \A i \in 1..(1 + Len(X)) : Push(t, X)[i] = IF i <= 1 THEN t ELSE X[i - 1]
  BY <1>1, ConcatProperties DEF Push, Stack
<1>3. Len(X) \in Nat /\ 1 \in 1..(1 + Len(X))
  BY DEF Stack
<1>4. Push(t, X)[1] = t /\ Push(t, X) # <<>>
  BY <1>2, <1>3
<1>5. /\ Tail(Push(t, X)) \in Seq(Tasks) /\ Len(Tail(Push(t, X))) = Len(X)
      /\ \A i \in 1..Len(X) : Tail(Push(t, X))[i] = Push(t, X)[i + 1]
  BY <1>2, <1>3, <1>4, HeadTailProperties
<1>6. \A i \in 1..Len(X) : Tail(Push(t, X))[i] = X[i]
  BY <1>2, <1>3, <1>5
<1>7. Tail(Push(t, X)) = X
  BY <1>5, <1>6, SeqEqual DEF Stack
<1> QED
  BY <1>2, <1>4, <1>7 DEF Stack

LEMMA PushConcat ==
    ASSUME NEW t \in Tasks, NEW X \in Stack, NEW Y \in Stack
    PROVE  Push(t, X) \o Y = Push(t, X \o Y)
BY ConcatAssociative DEF Push, Stack

\* Concatenation as a name, which the provers need not look into.
Cat(A, B) == A \o B

LEMMA TwoStacks ==
    ASSUME NEW A \in Stack, NEW B \in Stack
    PROVE  Cat(A, B) \in Stack
BY ConcatProperties DEF Cat, Stack

LEMMA ThreeStacks ==
    ASSUME NEW A \in Stack, NEW B \in Stack, NEW C \in Stack
    PROVE  Cat(Cat(A, B), C) = Cat(A, Cat(B, C))
BY ConcatAssociative DEF Cat, Stack

LEMMA FourStacks ==
    ASSUME NEW A \in Stack, NEW B \in Stack, NEW C \in Stack, NEW D \in Stack
    PROVE  Cat(Cat(Cat(A, B), C), D) = Cat(A, Cat(B, Cat(C, D)))
<1>1. PICK P, Q : P = Cat(A, B) /\ Q = Cat(C, D)
  OBVIOUS
<1>2. P \in Stack /\ Q \in Stack
  BY <1>1, TwoStacks
<1>3. Cat(Cat(P, C), D) = Cat(P, Cat(C, D))
  BY <1>2, ThreeStacks
<1>4. Cat(Cat(A, B), Q) = Cat(A, Cat(B, Q))
  BY <1>2, ThreeStacks
<1> QED
  BY <1>1, <1>3, <1>4

LEMMA EmptyConcat ==
    ASSUME NEW X \in Stack
    PROVE  <<>> \o X = X
BY ConcatEmptySeq DEF Stack

(* Tuples of tasks, put together.                                          *)
LEMMA TupleConcat ==
    ASSUME NEW a \in Tasks, NEW b \in Tasks, NEW c \in Tasks, NEW d \in Tasks, NEW e \in Tasks
    PROVE  /\ <<a>> \o <<b>> = <<a, b>>
           /\ <<a, b>> \o <<c>> = <<a, b, c>>
           /\ <<a, b, c>> \o <<d>> = <<a, b, c, d>>
           /\ <<a, b, c, d>> \o <<e>> = <<a, b, c, d, e>>
<1>1. <<a>> \o <<b>> = <<a, b>>
  <2> DEFINE X == <<a>> \o <<b>>
  <2>1. /\ <<a>> \in Seq(Tasks) /\ Len(<<a>>) = 1
        /\ <<a>>[1] = a
    OBVIOUS
  <2>2. X = Append(<<a>>, b)
    BY <2>1, AppendIsConcat
  <2>3. X \in Seq(Tasks) /\ Len(X) = 2
    BY <2>1, <2>2, AppendProperties
  <2>4. X[1] = a /\ X[2] = b
    BY <2>1, <2>2, AppendProperties
  <2> HIDE DEF X
  <2>5. X = <<a, b>>
    BY <2>3, <2>4
  <2> QED
    BY <2>5 DEF X
<1>2. <<a, b>> \o <<c>> = <<a, b, c>>
  <2> DEFINE X == <<a, b>> \o <<c>>
  <2>1. /\ <<a, b>> \in Seq(Tasks) /\ Len(<<a, b>>) = 2
        /\ <<a, b>>[1] = a /\ <<a, b>>[2] = b
    OBVIOUS
  <2>2. X = Append(<<a, b>>, c)
    BY <2>1, AppendIsConcat
  <2>3. X \in Seq(Tasks) /\ Len(X) = 3
    BY <2>1, <2>2, AppendProperties
  <2>4. X[1] = a /\ X[2] = b /\ X[3] = c
    BY <2>1, <2>2, AppendProperties
  <2> HIDE DEF X
  <2>5. X = <<a, b, c>>
    BY <2>3, <2>4
  <2> QED
    BY <2>5 DEF X
<1>3. <<a, b, c>> \o <<d>> = <<a, b, c, d>>
  <2> DEFINE X == <<a, b, c>> \o <<d>>
  <2>1. /\ <<a, b, c>> \in Seq(Tasks) /\ Len(<<a, b, c>>) = 3
        /\ <<a, b, c>>[1] = a /\ <<a, b, c>>[2] = b /\ <<a, b, c>>[3] = c
    OBVIOUS
  <2>2. X = Append(<<a, b, c>>, d)
    BY <2>1, AppendIsConcat
  <2>3. X \in Seq(Tasks) /\ Len(X) = 4
    BY <2>1, <2>2, AppendProperties
  <2>4. X[1] = a /\ X[2] = b /\ X[3] = c /\ X[4] = d
    BY <2>1, <2>2, AppendProperties
  <2> HIDE DEF X
  <2>5. X = <<a, b, c, d>>
    BY <2>3, <2>4
  <2> QED
    BY <2>5 DEF X
<1>4. <<a, b, c, d>> \o <<e>> = <<a, b, c, d, e>>
  <2> DEFINE X == <<a, b, c, d>> \o <<e>>
  <2>1. /\ <<a, b, c, d>> \in Seq(Tasks) /\ Len(<<a, b, c, d>>) = 4
        /\ <<a, b, c, d>>[1] = a /\ <<a, b, c, d>>[2] = b /\ <<a, b, c, d>>[3] = c /\ <<a, b, c, d>>[4] = d
    OBVIOUS
  <2>2. X = Append(<<a, b, c, d>>, e)
    BY <2>1, AppendIsConcat
  <2>3. X \in Seq(Tasks) /\ Len(X) = 5
    BY <2>1, <2>2, AppendProperties
  <2>4. X[1] = a /\ X[2] = b /\ X[3] = c /\ X[4] = d /\ X[5] = e
    BY <2>1, <2>2, AppendProperties
  <2> HIDE DEF X
  <2>5. X = <<a, b, c, d, e>>
    BY <2>3, <2>4
  <2> QED
    BY <2>5 DEF X
<1> QED
  BY <1>1, <1>2, <1>3, <1>4

LEMMA FromFacts ==
    ASSUME NEW F \in Stack, NEW m \in 1..Len(F)
    PROVE  /\ From(F, m) \in Stack /\ From(F, m) # <<>>
           /\ From(F, m)[1] = F[m] /\ Tail(From(F, m)) = From(F, m + 1)
<1>1. /\ Len(F) \in Nat /\ Len(F) - m + 1 \in Nat \ {0} /\ m \in Nat
      /\ \A j \in 1..(Len(F) - m + 1) : j + m - 1 \in 1..Len(F)
      /\ \A i \in 1..Len(F) : F[i] \in Tasks
  BY DEF Stack
<1>2. /\ From(F, m) \in Seq(Tasks) /\ Len(From(F, m)) = Len(F) - m + 1
      /\ \A j \in 1..(Len(F) - m + 1) : From(F, m)[j] = F[j + m - 1]
  BY <1>1 DEF From
<1>3. From(F, m) # <<>> /\ From(F, m)[1] = F[m]
  BY <1>1, <1>2
<1>4. /\ Tail(From(F, m)) \in Seq(Tasks) /\ Len(Tail(From(F, m))) = Len(F) - m
      /\ \A j \in 1..(Len(F) - m) : Tail(From(F, m))[j] = From(F, m)[j + 1]
  BY <1>1, <1>2, <1>3, HeadTailProperties
<1>5. \A j \in 1..(Len(F) - m) : From(F, m)[j + 1] = F[j + m]
  BY <1>1, <1>2
<1>6. /\ From(F, m + 1) \in Seq(Tasks) /\ Len(From(F, m + 1)) = Len(F) - m
      /\ \A j \in 1..(Len(F) - m) : From(F, m + 1)[j] = F[j + m]
  <2>1. Len(F) - (m + 1) + 1 = Len(F) - m /\ \A j \in 1..(Len(F) - m) : j + (m + 1) - 1 = j + m
    BY <1>1
  <2>2. /\ From(F, m + 1) = [j \in 1..(Len(F) - m) |-> F[j + m]]
        /\ \A j \in 1..(Len(F) - m) : F[j + m] \in Tasks
        /\ Len(F) - m \in Nat
    BY <1>1, <2>1 DEF From
  <2> DEFINE n == Len(F) - m
             G == [j \in 1..n |-> F[j + m]]
  <2>3. G \in Seq(Tasks) /\ Len(G) = n /\ \A j \in 1..n : G[j] = F[j + m]
    BY <2>2
  <2> QED
    BY <2>2, <2>3
<1>7. Tail(From(F, m)) = From(F, m + 1)
  BY <1>4, <1>5, <1>6, SeqEqual
<1> QED
  BY <1>2, <1>3, <1>7 DEF Stack

LEMMA FromAll ==
    ASSUME NEW F \in Stack
    PROVE  From(F, 1) = F /\ From(F, Len(F) + 1) = <<>>
<1>1. Len(F) \in Nat /\ F = [j \in 1..Len(F) |-> F[j]]
  BY DEF Stack
<1>2. /\ From(F, 1) = [j \in 1..Len(F) |-> F[j]]
      /\ From(F, Len(F) + 1) = [j \in 1..0 |-> F[j + Len(F)]]
  <2>1. /\ Len(F) - 1 + 1 = Len(F) /\ \A j \in 1..Len(F) : j + 1 - 1 = j
        /\ Len(F) - (Len(F) + 1) + 1 = 0
        /\ \A j \in 1..0 : FALSE
    BY <1>1
  <2> QED
    BY <2>1 DEF From
<1> QED
  BY <1>1, <1>2

(* What each constructor of stacks puts on top.                            *)
LEMMA NodeStacks ==
    ASSUME NEW s \in Nat, NEW i \in Nat, NEW X \in Stack
    PROVE  /\ /\ ToDirty(<<s, i>>, X) \in Stack /\ ToDirty(<<s, i>>, X) # <<>>
              /\ ToDirty(<<s, i>>, X)[1] = Task("dirty", s, 0, 0)
              /\ Tail(ToDirty(<<s, i>>, X)) = X
           /\ /\ ToMark(<<s, i>>, X) \in Stack /\ ToMark(<<s, i>>, X) # <<>>
              /\ ToMark(<<s, i>>, X)[1] = Task("pre_delete", s, i, 0)
              /\ Tail(ToMark(<<s, i>>, X)) = ToDirty(<<s, i>>, X)
           /\ /\ ToDelete(<<s, i>>, X) \in Stack /\ ToDelete(<<s, i>>, X) # <<>>
              /\ ToDelete(<<s, i>>, X)[1] = Task("delete", s, i, 0)
              /\ Tail(ToDelete(<<s, i>>, X)) = ToDirty(<<s, i>>, X)
           /\ Replacing(<<s, i>>, X) \in Stack
<1>1. /\ Task("dirty", s, 0, 0) \in Tasks /\ Task("pre_delete", s, i, 0) \in Tasks
      /\ Task("delete", s, i, 0) \in Tasks
  BY DEF Task, Tasks, Tags
<1>2. <<s, i>>[1] = s /\ <<s, i>>[2] = i
  OBVIOUS
<1>3. /\ ToDirty(<<s, i>>, X) \in Stack /\ ToDirty(<<s, i>>, X) # <<>>
      /\ ToDirty(<<s, i>>, X)[1] = Task("dirty", s, 0, 0)
      /\ Tail(ToDirty(<<s, i>>, X)) = X
  BY <1>1, <1>2, PushFacts DEF ToDirty
<1>4. /\ ToMark(<<s, i>>, X) \in Stack /\ ToMark(<<s, i>>, X) # <<>>
      /\ ToMark(<<s, i>>, X)[1] = Task("pre_delete", s, i, 0)
      /\ Tail(ToMark(<<s, i>>, X)) = ToDirty(<<s, i>>, X)
  BY <1>1, <1>2, <1>3, PushFacts DEF ToMark
<1>5. /\ ToDelete(<<s, i>>, X) \in Stack /\ ToDelete(<<s, i>>, X) # <<>>
      /\ ToDelete(<<s, i>>, X)[1] = Task("delete", s, i, 0)
      /\ Tail(ToDelete(<<s, i>>, X)) = ToDirty(<<s, i>>, X)
  BY <1>1, <1>2, <1>3, PushFacts DEF ToDelete
<1> QED
  BY <1>3, <1>4, <1>5 DEF Replacing

LEMMA SectorStacks ==
    ASSUME NEW s \in Nat, NEW X \in Stack
    PROVE  /\ /\ ToFormat(s, X) \in Stack /\ ToFormat(s, X) # <<>>
              /\ ToFormat(s, X)[1] = Task("format", s, 0, 0)
              /\ Tail(ToFormat(s, X)) = X
           /\ /\ ToErase(s, X) \in Stack /\ ToErase(s, X) # <<>>
              /\ ToErase(s, X)[1] = Task("erase", s, 0, 0)
              /\ Tail(ToErase(s, X)) = ToFormat(s, X)
           /\ FormatTasks(s) \o X = ToErase(s, X)
<1>1. Task("erase", s, 0, 0) \in Tasks /\ Task("format", s, 0, 0) \in Tasks
  BY DEF Task, Tasks, Tags
<1>2. /\ ToFormat(s, X) \in Stack /\ ToFormat(s, X) # <<>>
      /\ ToFormat(s, X)[1] = Task("format", s, 0, 0)
      /\ Tail(ToFormat(s, X)) = X
  BY <1>1, PushFacts DEF ToFormat
<1>3. /\ ToErase(s, X) \in Stack /\ ToErase(s, X) # <<>>
      /\ ToErase(s, X)[1] = Task("erase", s, 0, 0)
      /\ Tail(ToErase(s, X)) = ToFormat(s, X)
  BY <1>1, <1>2, PushFacts DEF ToErase
<1>4. FormatTasks(s) \o X = ToErase(s, X)
  <2>1. FormatTasks(s) = <<Task("erase", s, 0, 0)>> \o <<Task("format", s, 0, 0)>>
    BY <1>1 DEF FormatTasks
  <2> QED
    BY <1>1, <2>1, ConcatAssociative DEF ToErase, ToFormat, Push, Stack
<1> QED
  BY <1>2, <1>3, <1>4

LEMMA MakeStacks ==
    ASSUME NEW d \in Nat, NEW s \in Nat, NEW i \in Nat, NEW X \in Stack
    PROVE  /\ /\ ToCommit(d, <<s, i>>, X) \in Stack /\ ToCommit(d, <<s, i>>, X) # <<>>
              /\ ToCommit(d, <<s, i>>, X)[1] = Task("commit", s, i, d)
              /\ Tail(ToCommit(d, <<s, i>>, X)) = X
           /\ /\ ToBody(d, <<s, i>>, X) \in Stack /\ ToBody(d, <<s, i>>, X) # <<>>
              /\ ToBody(d, <<s, i>>, X)[1] = Task("body", 0, 0, d)
              /\ Tail(ToBody(d, <<s, i>>, X)) = ToCommit(d, <<s, i>>, X)
           /\ /\ ToHeader(d, <<s, i>>, X) \in Stack /\ ToHeader(d, <<s, i>>, X) # <<>>
              /\ ToHeader(d, <<s, i>>, X)[1] = Task("header", 0, 0, d)
              /\ Tail(ToHeader(d, <<s, i>>, X)) = ToBody(d, <<s, i>>, X)
           /\ /\ ToWrite(d, <<s, i>>, X) \in Stack /\ ToWrite(d, <<s, i>>, X) # <<>>
              /\ ToWrite(d, <<s, i>>, X)[1] = Task("pre_write", s, i, d)
              /\ Tail(ToWrite(d, <<s, i>>, X)) = ToHeader(d, <<s, i>>, X)
           /\ /\ ToMake(d, <<s, i>>, X) \in Stack /\ ToMake(d, <<s, i>>, X) # <<>>
              /\ ToMake(d, <<s, i>>, X)[1] = Task("sec_status", s, i, d)
              /\ Tail(ToMake(d, <<s, i>>, X)) = ToWrite(d, <<s, i>>, X)
<1> DEFINE a == <<s, i>>
<1>1. /\ Task("commit", s, i, d) \in Tasks /\ Task("body", 0, 0, d) \in Tasks
      /\ Task("header", 0, 0, d) \in Tasks /\ Task("pre_write", s, i, d) \in Tasks
      /\ Task("sec_status", s, i, d) \in Tasks
  BY DEF Task, Tasks, Tags
<1>2. a[1] = s /\ a[2] = i
  OBVIOUS
<1>3. /\ ToCommit(d, a, X) \in Stack /\ ToCommit(d, a, X) # <<>>
      /\ ToCommit(d, a, X)[1] = Task("commit", s, i, d) /\ Tail(ToCommit(d, a, X)) = X
  BY <1>1, <1>2, PushFacts DEF ToCommit
<1>4. /\ ToBody(d, a, X) \in Stack /\ ToBody(d, a, X) # <<>>
      /\ ToBody(d, a, X)[1] = Task("body", 0, 0, d)
      /\ Tail(ToBody(d, a, X)) = ToCommit(d, a, X)
  BY <1>1, <1>3, PushFacts DEF ToBody
<1>5. /\ ToHeader(d, a, X) \in Stack /\ ToHeader(d, a, X) # <<>>
      /\ ToHeader(d, a, X)[1] = Task("header", 0, 0, d)
      /\ Tail(ToHeader(d, a, X)) = ToBody(d, a, X)
  BY <1>1, <1>4, PushFacts DEF ToHeader
<1>6. /\ ToWrite(d, a, X) \in Stack /\ ToWrite(d, a, X) # <<>>
      /\ ToWrite(d, a, X)[1] = Task("pre_write", s, i, d)
      /\ Tail(ToWrite(d, a, X)) = ToHeader(d, a, X)
  BY <1>1, <1>2, <1>5, PushFacts DEF ToWrite
<1>7. /\ ToMake(d, a, X) \in Stack /\ ToMake(d, a, X) # <<>>
      /\ ToMake(d, a, X)[1] = Task("sec_status", s, i, d)
      /\ Tail(ToMake(d, a, X)) = ToWrite(d, a, X)
  BY <1>1, <1>2, <1>6, PushFacts DEF ToMake
<1> QED
  BY <1>3, <1>4, <1>5, <1>6, <1>7

LEMMA CreateStacks ==
    ASSUME NEW d \in Nat, NEW s \in Nat, NEW i \in Nat, NEW X \in Stack
    PROVE  CreateTasks(d, <<s, i>>) \o X = ToMake(d, <<s, i>>, X)
<1> DEFINE a == <<s, i>>
<1>1. /\ Task("commit", s, i, d) \in Tasks /\ Task("body", 0, 0, d) \in Tasks
      /\ Task("header", 0, 0, d) \in Tasks /\ Task("pre_write", s, i, d) \in Tasks
      /\ Task("sec_status", s, i, d) \in Tasks
  BY DEF Task, Tasks, Tags
<1>2. a[1] = s /\ a[2] = i
  OBVIOUS
<1>3. CreateTasks(d, a) \o X = ToMake(d, a, X)
  <2> DEFINE c1 == Task("sec_status", s, i, d)
             c2 == Task("pre_write", s, i, d)
             c3 == Task("header", 0, 0, d)
             c4 == Task("body", 0, 0, d)
             c5 == Task("commit", s, i, d)
             U == <<c5>> \o X
             V == <<c4>> \o U
             W == <<c3>> \o V
  <2>1. CreateTasks(d, a) = <<c1, c2, c3, c4, c5>>
    BY <1>2 DEF CreateTasks
  <2>2. ToMake(d, a, X) = <<c1>> \o (<<c2>> \o W)
    BY <1>2 DEF ToMake, ToWrite, ToHeader, ToBody, ToCommit, Push
  <2>3. c1 \in Tasks /\ c2 \in Tasks /\ c3 \in Tasks /\ c4 \in Tasks /\ c5 \in Tasks
    BY <1>1
  <2> HIDE DEF c1, c2, c3, c4, c5
  <2>4. /\ U \in Seq(Tasks) /\ V \in Seq(Tasks) /\ W \in Seq(Tasks)
        /\ X \in Seq(Tasks) /\ <<c1>> \in Seq(Tasks) /\ <<c2>> \in Seq(Tasks) /\ <<c1, c2>> \in Seq(Tasks)
        /\ <<c3>> \in Seq(Tasks) /\ <<c4>> \in Seq(Tasks) /\ <<c5>> \in Seq(Tasks)
        /\ <<c1, c2, c3>> \in Seq(Tasks) /\ <<c1, c2, c3, c4>> \in Seq(Tasks)
    BY <2>3 DEF Stack
  <2>0. /\ <<c1>> \o <<c2>> = <<c1, c2>>
        /\ <<c1, c2>> \o <<c3>> = <<c1, c2, c3>>
        /\ <<c1, c2, c3>> \o <<c4>> = <<c1, c2, c3, c4>>
        /\ <<c1, c2, c3, c4>> \o <<c5>> = <<c1, c2, c3, c4, c5>>
    BY <2>3, TupleConcat
  <2>5. <<c1>> \o (<<c2>> \o W) = <<c1, c2>> \o W
    <3> HIDE DEF W
    <3>1. <<c1>> \o (<<c2>> \o W) = (<<c1>> \o <<c2>>) \o W
      BY <2>4, ConcatAssociative
    <3> QED
      BY <2>0, <3>1
  <2>6. <<c1, c2>> \o W = <<c1, c2, c3>> \o V
    <3> HIDE DEF V
    <3>1. <<c1, c2>> \o (<<c3>> \o V) = (<<c1, c2>> \o <<c3>>) \o V
      BY <2>4, ConcatAssociative
    <3> QED
      BY <2>0, <3>1
  <2>7. <<c1, c2, c3>> \o V = <<c1, c2, c3, c4>> \o U
    <3> HIDE DEF U
    <3>1. <<c1, c2, c3>> \o (<<c4>> \o U) = (<<c1, c2, c3>> \o <<c4>>) \o U
      BY <2>4, ConcatAssociative
    <3> QED
      BY <2>0, <3>1
  <2>8. <<c1, c2, c3, c4>> \o U = <<c1, c2, c3, c4, c5>> \o X
    <3>1. <<c1, c2, c3, c4>> \o (<<c5>> \o X) = (<<c1, c2, c3, c4>> \o <<c5>>) \o X
      BY <2>4, ConcatAssociative
    <3> QED
      BY <2>0, <3>1
  <2> QED
    BY <2>1, <2>2, <2>5, <2>6, <2>7, <2>8
<1> QED
  BY <1>3
(* The stacks the code puts together are the ones of the forms.            *)
LEMMA FromConcat ==
    ASSUME NEW A \in Stack, NEW B \in Stack
    PROVE  From(A \o B, Len(A) + 1) = B
<1>1. /\ Len(A) \in Nat /\ Len(B) \in Nat
      /\ A \o B \in Seq(Tasks) /\ Len(A \o B) = Len(A) + Len(B)
      /\ \A i \in 1..(Len(A) + Len(B)) : (A \o B)[i] = IF i <= Len(A) THEN A[i] ELSE B[i - Len(A)]
  BY ConcatProperties DEF Stack
<1> DEFINE F == A \o B
           n == Len(A)
           p == Len(B)
<1>2. /\ n \in Nat /\ p \in Nat /\ F \in Seq(Tasks) /\ Len(F) = n + p
      /\ \A i \in 1..(n + p) : F[i] = IF i <= n THEN A[i] ELSE B[i - n]
  BY <1>1
<1>3. p = Len(B)
  OBVIOUS
<1> HIDE DEF F, n, p
<1>4. Len(F) - (n + 1) + 1 = p /\ \A j \in 1..p : j + (n + 1) - 1 = j + n /\ j + n \in 1..(n + p)
  BY <1>2
<1>5. From(F, n + 1) = [j \in 1..p |-> F[j + n]]
  BY <1>4 DEF From
<1>6. \A j \in 1..p : F[j + n] = B[j] /\ B[j] \in Tasks
  BY <1>2, <1>3, <1>4 DEF Stack
<1>7. From(F, n + 1) \in Seq(Tasks) /\ Len(From(F, n + 1)) = p
  BY <1>2, <1>5, <1>6
<1>8. \A j \in 1..p : From(F, n + 1)[j] = B[j]
  BY <1>5, <1>6
<1> QED
  BY <1>3, <1>7, <1>8, SeqEqual DEF F, n, Stack

LEMMA TailConcat ==
    ASSUME NEW A \in Stack, A # <<>>, NEW X \in Stack
    PROVE  /\ A \o X \in Stack /\ A \o X # <<>>
           /\ (A \o X)[1] = A[1] /\ Tail(A \o X) = Tail(A) \o X
<1>1. /\ Len(A) \in Nat /\ Len(A) # 0 /\ 1 \in 1..Len(A) /\ Len(A) \in 1..Len(A)
      /\ Tail(A) \in Stack /\ A[1] \in Tasks
  BY EmptySeq, HeadTailProperties DEF Stack
<1>2. A = <<A[1]>> \o SubSeq(A, 1 + 1, Len(A))
  <2>1. SubSeq(A, 1, Len(A)) = <<A[1]>> \o SubSeq(A, 1 + 1, Len(A))
    BY <1>1, SubSeqRecursiveFirst DEF Stack
  <2>2. SubSeq(A, 1, Len(A)) = A
    BY SubSeqFull DEF Stack
  <2> QED
    BY <2>1, <2>2
<1>3. A = Push(A[1], Tail(A))
  BY <1>2, TailIsSubSeq DEF Push, Stack
<1>4. PICK t, R : t = A[1] /\ R = Tail(A)
  OBVIOUS
<1>5. t \in Tasks /\ R \in Stack /\ A = Push(t, R)
  BY <1>1, <1>3, <1>4
<1>6. PICK Y : Y = R \o X
  OBVIOUS
<1>7. Y \in Stack
  BY <1>5, <1>6, TwoStacks DEF Cat
<1>8. A \o X = Push(t, Y)
  <2>1. Push(t, R) \o X = Push(t, R \o X)
    BY <1>5, PushConcat
  <2> QED
    BY <1>5, <1>6, <2>1
<1>9. Push(t, Y) \in Stack /\ Push(t, Y) # <<>> /\ Push(t, Y)[1] = t /\ Tail(Push(t, Y)) = Y
  BY <1>5, <1>7, PushFacts
<1> QED
  BY <1>4, <1>6, <1>8, <1>9

LEMMA EachStack ==
    ASSUME NEW t \in Tags
    PROVE  /\ EachSector(t) \in Stack /\ Len(EachSector(t)) = NSectors
           /\ \A s \in Sectors : EachSector(t)[s] = Task(t, s, 0, 0)
<1>1. NSectors \in Nat /\ \A s \in 1..NSectors : Task(t, s, 0, 0) \in Tasks
  BY KvdbAssumption DEF Task, Tasks
<1>2. EachSector(t) = [s \in 1..NSectors |-> Task(t, s, 0, 0)]
  BY DEF EachSector, Sectors
<1> QED
  BY <1>1, <1>2 DEF Stack, Sectors

LEMMA SetStacks ==
    /\ Done \in Stack /\ Done # <<>> /\ Done[1] = Task("return", 0, 0, 0)
    /\ AfterSet \in Stack /\ AfterSet # <<>> /\ AfterSet[1] = Task("gc_after", 0, 0, 0)
    /\ Tail(AfterSet) = Done
    /\ AfterSet = <<Task("gc_after", 0, 0, 0), Task("return", 0, 0, 0)>>
<1>1. Task("return", 0, 0, 0) \in Tasks /\ Task("gc_after", 0, 0, 0) \in Tasks
  BY DEF Task, Tasks, Tags
<1>2. Done \in Stack /\ Done # <<>> /\ Done[1] = Task("return", 0, 0, 0)
  BY <1>1 DEF Done, Stack
<1>3. AfterSet = Push(Task("gc_after", 0, 0, 0), Done)
  BY DEF AfterSet, Done
<1>4. AfterSet = <<Task("gc_after", 0, 0, 0), Task("return", 0, 0, 0)>>
  BY <1>1, TupleConcat DEF AfterSet, Push
<1> QED
  BY <1>1, <1>2, <1>3, <1>4, PushFacts

LEMMA DelStacks ==
    ASSUME NEW s \in Nat, NEW i \in Nat, NEW X \in Stack
    PROVE  /\ DelTasks(<<s, i>>, TRUE) \o X = ToDelete(<<s, i>>, X)
           /\ DelTasks(<<s, i>>, FALSE) \o X = ToMark(<<s, i>>, X)
<1>1. /\ Task("dirty", s, 0, 0) \in Tasks /\ Task("pre_delete", s, i, 0) \in Tasks
      /\ Task("delete", s, i, 0) \in Tasks
  BY DEF Task, Tasks, Tags
<1>2. <<s, i>>[1] = s /\ <<s, i>>[2] = i
  OBVIOUS
<1>3. DelTasks(<<s, i>>, TRUE) = <<Task("delete", s, i, 0)>> \o <<Task("dirty", s, 0, 0)>>
  BY <1>1, <1>2, TupleConcat DEF DelTasks
<1>4. DelTasks(<<s, i>>, FALSE) = <<Task("pre_delete", s, i, 0)>> \o <<Task("dirty", s, 0, 0)>>
  BY <1>1, <1>2, TupleConcat DEF DelTasks
<1>5. \A t \in Tasks : (<<t>> \o <<Task("dirty", s, 0, 0)>>) \o X
                          = <<t>> \o (<<Task("dirty", s, 0, 0)>> \o X)
  BY <1>1, ConcatAssociative DEF Stack
<1> QED
  BY <1>1, <1>2, <1>3, <1>4, <1>5 DEF ToDelete, ToMark, ToDirty, Push

LEMMA GcStacks ==
    /\ \A s \in Sectors : /\ GcFrom(s) \in Stack /\ GcFrom(s) # <<>>
                          /\ GcFrom(s)[1] = Task("gc_sector", s, 0, 0)
                          /\ Tail(GcFrom(s)) = GcFrom(s + 1)
    /\ GcFrom(NSectors + 1) \in Stack /\ GcFrom(NSectors + 1) # <<>>
    /\ GcFrom(NSectors + 1)[1] = Task("gc_end", 0, 0, 0)
    /\ Tail(GcFrom(NSectors + 1)) = Done
    /\ EachSector("gc_sector") \o <<Task("gc_end", 0, 0, 0)>> \o Done = GcFrom(1)
    /\ <<>> \o <<Task("gc_end", 0, 0, 0)>> \o Done = GcFrom(NSectors + 1)
<1> DEFINE A == EachSector("gc_sector")
           g == Task("gc_end", 0, 0, 0)
           G == <<g>> \o Done
<1>1. g \in Tasks /\ <<g>> \in Stack /\ Done \in Stack /\ NSectors \in Nat
  BY SetStacks, KvdbAssumption DEF Task, Tasks, Tags, Stack
<1>2. /\ A \in Stack /\ Len(A) = NSectors
      /\ \A s \in Sectors : A[s] = Task("gc_sector", s, 0, 0)
  BY EachStack DEF Tags
<1>3. G \in Stack /\ G # <<>> /\ G[1] = g /\ Tail(G) = Done /\ Len(G) \in Nat \ {0}
  BY <1>1, PushFacts, EmptySeq DEF Push, Stack
<1>4. GcScript = A \o G /\ (<<>> \o <<g>>) \o Done = G
  BY <1>1, <1>2, ConcatAssociative, ConcatEmptySeq DEF GcScript, Stack
<1> HIDE DEF A, G, g
<1>5. /\ A \o G \in Stack /\ Len(A \o G) = NSectors + Len(G)
      /\ \A s \in Sectors : (A \o G)[s] = A[s]
  <2>1. /\ A \o G \in Stack /\ Len(A \o G) = Len(A) + Len(G)
        /\ \A s \in 1..(Len(A) + Len(G)) : (A \o G)[s] = IF s <= Len(A) THEN A[s] ELSE G[s - Len(A)]
    BY <1>2, <1>3, ConcatProperties DEF Stack
  <2>2. ASSUME NEW s \in Sectors PROVE (A \o G)[s] = A[s]
    <3>1. s \in 1..(Len(A) + Len(G)) /\ s <= Len(A)
      BY <1>1, <1>2, <1>3 DEF Sectors
    <3> QED
      BY <2>1, <3>1
  <2> QED
    BY <1>2, <2>1, <2>2
<1>6. From(A \o G, NSectors + 1) = G
  BY <1>2, <1>3, FromConcat
<1>7. ASSUME NEW s \in Sectors
      PROVE  /\ GcFrom(s) \in Stack /\ GcFrom(s) # <<>>
             /\ GcFrom(s)[1] = Task("gc_sector", s, 0, 0)
             /\ Tail(GcFrom(s)) = GcFrom(s + 1)
  <2>1. s \in 1..Len(A \o G)
    BY <1>1, <1>3, <1>5 DEF Sectors
  <2>2. PICK F : F = A \o G
    OBVIOUS
  <2>3. F \in Stack /\ s \in 1..Len(F) /\ F[s] = Task("gc_sector", s, 0, 0)
    BY <1>2, <1>5, <2>1, <2>2
  <2>4. /\ From(F, s) \in Stack /\ From(F, s) # <<>>
        /\ From(F, s)[1] = F[s] /\ Tail(From(F, s)) = From(F, s + 1)
    BY <2>3, FromFacts
  <2> QED
    BY <1>4, <2>2, <2>3, <2>4 DEF GcFrom
<1>8. GcFrom(1) = A \o G
  BY <1>4, <1>5, FromAll DEF GcFrom
<1>9. GcFrom(NSectors + 1) = G
  BY <1>4, <1>6 DEF GcFrom
<1>10. (A \o <<g>>) \o Done = GcFrom(1)
  BY <1>4, <1>8 DEF GcScript, A, g
<1> QED
  BY <1>3, <1>4, <1>7, <1>9, <1>10 DEF A, g

LEMMA SectorGcStacks ==
    ASSUME NEW s \in Sectors, NEW i \in Nat
    PROVE  /\ GcFrom(s + 1) \in Stack
           /\ InSector(s, i) \in Stack /\ InSector(s, i) # <<>>
           /\ InSector(s, i)[1] = Task("gc_kv", s, i, 0)
           /\ Tail(InSector(s, i)) = ToErase(s, GcFrom(s + 1))
           /\ InSector(s, i) = <<Task("gc_kv", s, i, 0)>> \o ToErase(s, GcFrom(s + 1))
           /\ <<Task("gc_kv", s, i, 0)>> \o FormatTasks(s) \o GcFrom(s + 1) = InSector(s, i)
<1>1. s \in Nat /\ NSectors \in Nat /\ (s + 1 \in Sectors \/ s + 1 = NSectors + 1)
  BY KvdbAssumption DEF Sectors
<1>2. GcFrom(s + 1) \in Stack
  BY <1>1, GcStacks
<1>3. Task("gc_kv", s, i, 0) \in Tasks
  BY <1>1 DEF Task, Tasks, Tags
<1>4. /\ ToErase(s, GcFrom(s + 1)) \in Stack
      /\ FormatTasks(s) \o GcFrom(s + 1) = ToErase(s, GcFrom(s + 1))
  BY <1>1, <1>2, SectorStacks
<1>5. FormatTasks(s) \in Stack /\ <<Task("gc_kv", s, i, 0)>> \in Stack
  BY <1>1, <1>3 DEF FormatTasks, Stack, Task, Tasks, Tags
<1>6. (<<Task("gc_kv", s, i, 0)>> \o FormatTasks(s)) \o GcFrom(s + 1)
        = <<Task("gc_kv", s, i, 0)>> \o (FormatTasks(s) \o GcFrom(s + 1))
  BY <1>2, <1>5, ConcatAssociative DEF Stack
<1> QED
  BY <1>2, <1>3, <1>4, <1>6, PushFacts DEF InSector, Push

LEMMA FormatAllStack ==
    /\ FormatAll \in Stack /\ Len(FormatAll) = 2 * NSectors
    /\ \A s \in Sectors : /\ FormatAll[2 * s - 1] = Task("erase", s, 0, 0)
                          /\ FormatAll[2 * s] = Task("format", s, 0, 0)
<1>1. NSectors \in Nat /\ NSectors > 1
  BY KvdbAssumption DEF GcEmptySecThreshold
<1>2. \A s \in Nat : /\ FormatTasks(s)[1] = Task("erase", s, 0, 0)
                     /\ FormatTasks(s)[2] = Task("format", s, 0, 0)
                     /\ FormatTasks(s)[1] \in Tasks /\ FormatTasks(s)[2] \in Tasks
  BY DEF FormatTasks, Task, Tasks, Tags
<1>3. \A m \in 1..2*NSectors : (m + 1) \div 2 \in Nat /\ 2 - (m % 2) \in {1, 2}
  BY <1>1
<1>4. \A m \in 1..2*NSectors : FormatTasks((m + 1) \div 2)[2 - (m % 2)] \in Tasks
  BY <1>2, <1>3
<1>5. FormatAll \in Seq(Tasks) /\ Len(FormatAll) = 2 * NSectors
  BY <1>1, <1>4 DEF FormatAll
<1>6. ASSUME NEW s \in Sectors
      PROVE  /\ FormatAll[2 * s - 1] = Task("erase", s, 0, 0)
             /\ FormatAll[2 * s] = Task("format", s, 0, 0)
  <2>1. /\ s \in Nat /\ 2 * s - 1 \in 1..2*NSectors /\ 2 * s \in 1..2*NSectors
        /\ (2 * s - 1 + 1) \div 2 = s /\ (2 * s + 1) \div 2 = s
        /\ 2 - ((2 * s - 1) % 2) = 1 /\ 2 - ((2 * s) % 2) = 2
    BY <1>1 DEF Sectors
  <2> QED
    BY <1>2, <2>1 DEF FormatAll
<1> QED
  BY <1>5, <1>6 DEF Stack

LEMMA FormatStacks ==
    ASSUME NEW X \in Stack
    PROVE  /\ \A m \in 1..(2 * NSectors) :
                 /\ FormatFrom(m, X) \in Stack /\ FormatFrom(m, X) # <<>>
                 /\ FormatFrom(m, X)[1] = FormatAll[m]
                 /\ Tail(FormatFrom(m, X)) = FormatFrom(m + 1, X)
           /\ FormatFrom(2 * NSectors + 1, X) = X
           /\ FormatAll \o X = FormatFrom(1, X)
<1>1. FormatAll \in Stack /\ Len(FormatAll) = 2 * NSectors
  BY FormatAllStack
<1>2. ASSUME NEW m \in 1..(2 * NSectors)
      PROVE  /\ FormatFrom(m, X) \in Stack /\ FormatFrom(m, X) # <<>>
             /\ FormatFrom(m, X)[1] = FormatAll[m]
             /\ Tail(FormatFrom(m, X)) = FormatFrom(m + 1, X)
  <2>1. /\ From(FormatAll, m) \in Stack /\ From(FormatAll, m) # <<>>
        /\ From(FormatAll, m)[1] = FormatAll[m]
        /\ Tail(From(FormatAll, m)) = From(FormatAll, m + 1)
    BY <1>1, FromFacts
  <2> DEFINE A == From(FormatAll, m)
  <2>2. A \in Stack /\ A # <<>>
    BY <2>1
  <2> HIDE DEF A
  <2>3. /\ A \o X \in Stack /\ A \o X # <<>>
        /\ (A \o X)[1] = A[1] /\ Tail(A \o X) = Tail(A) \o X
    BY <2>2, TailConcat
  <2> QED
    BY <2>1, <2>3 DEF FormatFrom, A
<1>3. From(FormatAll, 1) = FormatAll /\ From(FormatAll, 2 * NSectors + 1) = <<>>
  BY <1>1, FromAll
<1> QED
  BY <1>2, <1>3, EmptyConcat DEF FormatFrom

\* The m-th of the writes that format all sectors.
LEMMA FormatParts ==
    ASSUME NEW m \in 1..(2 * NSectors)
    PROVE  \E s \in Sectors : \/ m = 2 * s - 1 /\ FormatAll[m] = Task("erase", s, 0, 0)
                              \/ m = 2 * s /\ FormatAll[m] = Task("format", s, 0, 0)
<1>1. NSectors \in Nat
  BY KvdbAssumption
<1>2. \E s \in Sectors : m = 2 * s - 1 \/ m = 2 * s
  <2>1. CASE m % 2 = 0
    <3>1. m \div 2 \in 1..NSectors /\ m = 2 * (m \div 2)
      BY <1>1, <2>1
    <3> QED
      BY <3>1 DEF Sectors
  <2>2. CASE m % 2 = 1
    <3>1. (m + 1) \div 2 \in 1..NSectors /\ m = 2 * ((m + 1) \div 2) - 1
      BY <1>1, <2>2
    <3> QED
      BY <3>1 DEF Sectors
  <2> QED
    BY <1>1, <2>1, <2>2
<1> QED
  BY <1>2, FormatAllStack

LEMMA CheckStacks ==
    /\ ToFinish \in Stack /\ ToFinish # <<>> /\ ToFinish[1] = Task("checked", 0, 0, 0)
    /\ Tail(ToFinish) = <<>>
    /\ KvCheck = Checking(1)
    /\ \A s \in Nat : /\ Checking(s) \in Stack /\ Checking(s) # <<>>
                      /\ Checking(s)[1] = Task("check_kv", s, 1, 0)
                      /\ Tail(Checking(s)) = ToFinish
                      /\ <<Task("check_kv", s, 1, 0)>> \o ToFinish = Checking(s)
    /\ ToFormatted \in Stack /\ ToFormatted # <<>>
    /\ ToFormatted[1] = Task("formatted", 0, 0, 0)
<1>1. /\ Task("checked", 0, 0, 0) \in Tasks /\ Task("formatted", 0, 0, 0) \in Tasks
      /\ \A s \in Nat : Task("check_kv", s, 1, 0) \in Tasks
  BY DEF Task, Tasks, Tags
<1>2. ToFinish \in Stack /\ ToFinish # <<>> /\ ToFinish[1] = Task("checked", 0, 0, 0)
  BY <1>1 DEF ToFinish, Stack
<1>3. Tail(ToFinish) = <<>>
  <2>1. ToFinish = Push(Task("checked", 0, 0, 0), <<>>)
    BY <1>1, <1>2, ConcatEmptySeq DEF Push, ToFinish, Stack
  <2>2. <<>> \in Stack
    BY EmptySeq DEF Stack
  <2> QED
    BY <1>1, <2>1, <2>2, PushFacts
<1>4. ASSUME NEW s \in Nat
      PROVE  /\ Checking(s) \in Stack /\ Checking(s) # <<>>
             /\ Checking(s)[1] = Task("check_kv", s, 1, 0)
             /\ Tail(Checking(s)) = ToFinish
             /\ <<Task("check_kv", s, 1, 0)>> \o ToFinish = Checking(s)
  <2>1. Checking(s) = Push(Task("check_kv", s, 1, 0), ToFinish)
    BY <1>1, TupleConcat DEF Push, Checking, ToFinish
  <2> QED
    BY <1>1, <1>2, <2>1, PushFacts DEF Push
<1>5. KvCheck = Checking(1)
  BY DEF KvCheck, Checking
<1>6. /\ ToFormatted \in Stack /\ ToFormatted # <<>>
      /\ ToFormatted[1] = Task("formatted", 0, 0, 0)
  BY <1>1 DEF ToFormatted, Stack
<1> QED
  BY <1>2, <1>3, <1>4, <1>5, <1>6

LEMMA BootStacks ==
    /\ \A m \in 1..(2 * NSectors + 1) :
          /\ BootFrom(m) \in Stack /\ BootFrom(m) # <<>>
          /\ Tail(BootFrom(m)) = BootFrom(m + 1)
          /\ BootFrom(m)[1] = IF m <= NSectors THEN Task("check_hdr", m, 0, 0)
                              ELSE IF m = NSectors + 1 THEN Task("check_all", 0, 0, 0)
                              ELSE Task("check_gc", m - NSectors - 1, 0, 0)
    /\ BootFrom(1) = BootScript
    /\ BootFrom(2 * NSectors + 2) = Checking(1)
<1> DEFINE A == EachSector("check_hdr")
           c == Task("check_all", 0, 0, 0)
           B == EachSector("check_gc")
           AC == A \o <<c>>
           ACB == AC \o B
           F == ACB \o KvCheck
<1>1. NSectors \in Nat /\ c \in Tasks /\ <<c>> \in Stack /\ Len(<<c>>) = 1 /\ <<c>>[1] = c
  BY KvdbAssumption DEF Task, Tasks, Tags, Stack
<1>2. /\ A \in Stack /\ Len(A) = NSectors
      /\ \A s \in Sectors : A[s] = Task("check_hdr", s, 0, 0)
      /\ B \in Stack /\ Len(B) = NSectors
      /\ \A s \in Sectors : B[s] = Task("check_gc", s, 0, 0)
  BY EachStack DEF Tags
<1>3. KvCheck \in Stack /\ Len(KvCheck) \in Nat
  <2>1. KvCheck \in Stack
    <3>1. 1 \in Nat
      OBVIOUS
    <3> QED
      BY <3>1, CheckStacks
  <2> QED
    BY <2>1 DEF Stack
<1>4. F = BootScript
  BY DEF BootScript
<1>5. /\ AC \in Stack /\ Len(AC) = NSectors + 1
      /\ \A m \in 1..(NSectors + 1) : AC[m] = IF m <= NSectors THEN A[m] ELSE <<c>>[m - NSectors]
  <2> HIDE DEF A, c
  <2> QED
    BY <1>1, <1>2, ConcatProperties DEF Stack
<1>6. /\ ACB \in Stack /\ Len(ACB) = 2 * NSectors + 1
      /\ \A m \in 1..(2 * NSectors + 1) :
            ACB[m] = IF m <= NSectors + 1 THEN AC[m] ELSE B[m - NSectors - 1]
  <2> HIDE DEF AC, B
  <2>1. /\ ACB \in Stack /\ Len(ACB) = Len(AC) + Len(B)
        /\ \A m \in 1..(Len(AC) + Len(B)) : ACB[m] = IF m <= Len(AC) THEN AC[m] ELSE B[m - Len(AC)]
    BY <1>2, <1>5, ConcatProperties DEF Stack
  <2>2. Len(AC) + Len(B) = 2 * NSectors + 1 /\ \A m \in Int : m - (NSectors + 1) = m - NSectors - 1
    BY <1>1, <1>2, <1>5
  <2> HIDE DEF ACB
  <2> QED
    BY <1>1, <1>5, <2>1, <2>2
<1>7. /\ F \in Stack /\ Len(F) \in Nat /\ Len(F) >= 2 * NSectors + 1
      /\ \A m \in 1..(2 * NSectors + 1) : F[m] = ACB[m]
  <2> HIDE DEF ACB
  <2>1. /\ F \in Stack /\ Len(F) = Len(ACB) + Len(KvCheck)
        /\ \A m \in 1..(Len(ACB) + Len(KvCheck)) :
              F[m] = IF m <= Len(ACB) THEN ACB[m] ELSE KvCheck[m - Len(ACB)]
    BY <1>3, <1>6, ConcatProperties DEF Stack
  <2> HIDE DEF F
  <2> QED
    BY <1>1, <1>3, <1>6, <2>1
<1>8. ASSUME NEW m \in 1..(2 * NSectors + 1)
      PROVE  F[m] = IF m <= NSectors THEN Task("check_hdr", m, 0, 0)
                    ELSE IF m = NSectors + 1 THEN c
                    ELSE Task("check_gc", m - NSectors - 1, 0, 0)
  <2> HIDE DEF A, B, c, AC, ACB, F
  <2>1. CASE m <= NSectors
    BY <1>1, <1>2, <1>5, <1>6, <1>7, <2>1 DEF Sectors
  <2>2. CASE m = NSectors + 1
    <3>1. /\ m \in 1..(NSectors + 1) /\ m \in 1..(2 * NSectors + 1)
          /\ m - NSectors = 1 /\ ~(m <= NSectors) /\ m <= NSectors + 1
      BY <1>1, <2>2
    <3>2. F[m] = ACB[m] /\ ACB[m] = AC[m]
      BY <1>6, <1>7, <3>1
    <3>3. AC[m] = <<c>>[m - NSectors]
      BY <1>5, <3>1
    <3> QED
      BY <1>1, <2>2, <3>1, <3>2, <3>3
  <2>3. CASE m > NSectors + 1
    <3>1. m - NSectors - 1 \in Sectors
      BY <1>1, <2>3 DEF Sectors
    <3> QED
      BY <1>1, <1>2, <1>6, <1>7, <2>3, <3>1
  <2> QED
    BY <1>1, <2>1, <2>2, <2>3
<1>9. From(F, 2 * NSectors + 2) = KvCheck
  <2> HIDE DEF ACB
  <2>1. From(ACB \o KvCheck, Len(ACB) + 1) = KvCheck
    BY <1>3, <1>6, FromConcat
  <2> QED
    BY <1>1, <1>6, <2>1
<1> HIDE DEF F, c
<1>10. ASSUME NEW m \in 1..(2 * NSectors + 1)
       PROVE  /\ From(F, m) \in Stack /\ From(F, m) # <<>>
              /\ Tail(From(F, m)) = From(F, m + 1)
              /\ From(F, m)[1] = F[m]
  <2>1. m \in 1..Len(F)
    BY <1>1, <1>7
  <2> QED
    BY <1>7, <2>1, FromFacts
<1>11. From(F, 1) = F
  BY <1>7, FromAll
<1> QED
  BY <1>4, <1>8, <1>9, <1>10, <1>11, CheckStacks DEF BootFrom, c

-----------------------------------------------------------------------------
(* The addresses, and what the writes to the flash leave as it is.         *)
LEMMA AddrsFacts ==
    ASSUME TypeOK
    PROVE  /\ \A a \in Addrs : /\ a[1] \in Sectors /\ a[1] \in Nat /\ a[2] \in 1..Slots /\ a[2] \in Nat
                               /\ a[2] <= Used(a[1]) /\ a = <<a[1], a[2]>> /\ a # NoAddr
                               /\ NodeAt(a) \in Node
           /\ \A s \in Sectors, i \in 1..Slots : i <= Used(s) =>
                 <<s, i>> \in Addrs /\ <<s, i>>[1] = s /\ <<s, i>>[2] = i
           /\ \A s \in Sectors : s \in Nat /\ s # 0 /\ Used(s) \in Nat /\ flash[s] \in Sector
           /\ NoAddr \notin Addrs
<1>1. NSectors \in Nat /\ Slots \in Nat
  BY KvdbAssumption
<1>2. \A s \in Sectors : /\ s \in Nat /\ s # 0 /\ flash[s] \in Sector /\ flash[s].kv \in Seq(Node)
                         /\ Used(s) \in Nat
  BY <1>1 DEF TypeOK, Sectors, Sector, Used
<1>3. ASSUME NEW a \in Addrs
      PROVE  /\ a[1] \in Sectors /\ a[1] \in Nat /\ a[2] \in 1..Slots /\ a[2] \in Nat
             /\ a[2] <= Used(a[1]) /\ a = <<a[1], a[2]>> /\ a # NoAddr
             /\ NodeAt(a) \in Node
  <2>1. a[1] \in Sectors /\ a[2] \in 1..Slots /\ a[2] <= Used(a[1]) /\ a = <<a[1], a[2]>>
    BY DEF Addrs, Used
  <2>2. a[1] # 0 /\ a[1] \in Nat /\ a[2] \in Nat /\ a[2] \in 1..Len(flash[a[1]].kv)
    BY <1>1, <1>2, <2>1 DEF Used
  <2>3. a # NoAddr
    BY <2>1, <2>2 DEF NoAddr
  <2> QED
    BY <1>2, <2>1, <2>2, <2>3 DEF NodeAt
<1>4. \A s \in Sectors, i \in 1..Slots : i <= Used(s) =>
         <<s, i>> \in Addrs /\ <<s, i>>[1] = s /\ <<s, i>>[2] = i
  BY DEF Addrs, Used
<1> QED
  BY <1>2, <1>3, <1>4

SameHeader(s) == /\ Used(s)' = Used(s) /\ flash'[s].ok = flash[s].ok
                 /\ flash'[s].store = flash[s].store /\ flash'[s].dirty = flash[s].dirty

LEMMA NodeWrite ==
    ASSUME TypeOK, NEW a \in Addrs, NEW n \in Node,
           flash' = [flash EXCEPT ![a[1]].kv[a[2]] = n]
    PROVE  /\ flash' \in [Sectors -> Sector] /\ Addrs' = Addrs
           /\ NodeAt(a)' = n /\ \A b \in Addrs : b # a => NodeAt(b)' = NodeAt(b)
           /\ \A s \in Sectors : SameHeader(s)
<1>1. /\ a[1] \in Sectors /\ a[2] \in 1..Len(flash[a[1]].kv) /\ a = <<a[1], a[2]>>
      /\ flash[a[1]] \in Sector /\ flash[a[1]].kv \in Seq(Node) /\ flash \in [Sectors -> Sector]
  BY AddrsFacts DEF Used, TypeOK, Sector
<1> DEFINE S == a[1]
           K == [flash[S].kv EXCEPT ![a[2]] = n]
<1>2. /\ K \in Seq(Node) /\ Len(K) = Len(flash[S].kv)
      /\ \A j \in 1..Len(flash[S].kv) : K[j] = IF j = a[2] THEN n ELSE flash[S].kv[j]
  BY <1>1, ExceptSeq
<1>3. flash' = [flash EXCEPT ![S] = [flash[S] EXCEPT !.kv = K]]
  BY <1>1
<1> HIDE DEF K
<1>4. /\ flash'[S] = [flash[S] EXCEPT !.kv = K]
      /\ \A s \in Sectors : s # S => flash'[s] = flash[s]
  BY <1>1, <1>3
<1>5. /\ flash'[S].kv = K /\ flash'[S].ok = flash[S].ok
      /\ flash'[S].store = flash[S].store /\ flash'[S].dirty = flash[S].dirty
      /\ flash'[S] \in Sector
  BY <1>1, <1>2, <1>4 DEF Sector
<1>6. flash' \in [Sectors -> Sector]
  BY <1>1, <1>3, <1>4, <1>5
<1>7. \A s \in Sectors : SameHeader(s)
  BY <1>2, <1>4, <1>5 DEF SameHeader, Used
<1>8. Addrs' = Addrs
  BY <1>7 DEF Addrs, SameHeader, Used
<1>9. NodeAt(a)' = n
  BY <1>1, <1>2, <1>5 DEF NodeAt
<1>10. ASSUME NEW b \in Addrs, b # a PROVE NodeAt(b)' = NodeAt(b)
  <2>1. b[1] \in Sectors /\ b[2] \in 1..Len(flash[b[1]].kv) /\ b = <<b[1], b[2]>>
    BY AddrsFacts DEF Used
  <2>2. CASE b[1] = S
    BY <1>1, <1>2, <1>5, <1>10, <2>1, <2>2 DEF NodeAt
  <2>3. CASE b[1] # S
    BY <1>4, <2>1, <2>3 DEF NodeAt
  <2> QED
    BY <2>2, <2>3
<1> QED
  BY <1>6, <1>7, <1>8, <1>9, <1>10

LEMMA StatusWrite ==
    ASSUME TypeOK, NEW a \in Addrs, NEW st \in {"PRE_WRITE", "WRITE", "PRE_DELETE", "DELETED"},
           flash' = [flash EXCEPT ![a[1]].kv[a[2]].status = st]
    PROVE  /\ flash' \in [Sectors -> Sector] /\ Addrs' = Addrs
           /\ NodeAt(a)' = [NodeAt(a) EXCEPT !.status = st]
           /\ \A b \in Addrs : b # a => NodeAt(b)' = NodeAt(b)
           /\ \A s \in Sectors : SameHeader(s)
<1> DEFINE n == [NodeAt(a) EXCEPT !.status = st]
<1>1. n \in Node
  BY AddrsFacts DEF Node
<1>2. flash' = [flash EXCEPT ![a[1]].kv[a[2]] = n]
  BY DEF NodeAt
<1> QED
  BY <1>1, <1>2, NodeWrite

\* The flash after the data of the node at a is given the mark w.
DataPut(a, w) == [flash EXCEPT ![a[1]].kv[a[2]].data = w]

LEMMA DataWrite ==
    ASSUME TypeOK, NEW a \in Addrs, NEW w \in {"none", "hdr", "full"}, flash' = DataPut(a, w)
    PROVE  /\ flash' \in [Sectors -> Sector] /\ Addrs' = Addrs
           /\ NodeAt(a)' = [NodeAt(a) EXCEPT !.data = w]
           /\ \A b \in Addrs : b # a => NodeAt(b)' = NodeAt(b)
           /\ \A s \in Sectors : SameHeader(s)
<1> DEFINE n == [NodeAt(a) EXCEPT !.data = w]
<1>1. n \in Node
  BY AddrsFacts DEF Node
<1>2. flash' = [flash EXCEPT ![a[1]].kv[a[2]] = n]
  BY DEF DataPut, NodeAt
<1> QED
  BY <1>1, <1>2, NodeWrite

\* One node more in sector d.
LEMMA AppendWrite ==
    ASSUME TypeOK, NEW d \in Sectors, NEW n \in Node, Used(d) < Slots,
           flash' = [flash EXCEPT ![d].kv = Append(@, n)]
    PROVE  /\ flash' \in [Sectors -> Sector]
           /\ Fresh(d)' = <<d, Used(d) + 1>>
           /\ Addrs' = Addrs \union {Fresh(d)'} /\ Fresh(d)' \notin Addrs
           /\ NodeAt(Fresh(d))' = n
           /\ \A b \in Addrs : NodeAt(b)' = NodeAt(b)
           /\ Used(d)' = Used(d) + 1 /\ \A s \in Sectors : s # d => Used(s)' = Used(s)
           /\ \A s \in Sectors : /\ flash'[s].ok = flash[s].ok /\ flash'[s].store = flash[s].store
                                 /\ flash'[s].dirty = flash[s].dirty
<1>1. flash[d] \in Sector /\ flash[d].kv \in Seq(Node) /\ flash \in [Sectors -> Sector]
  BY DEF TypeOK, Sector
<1> DEFINE K == Append(flash[d].kv, n)
           u == Len(flash[d].kv)
<1>2. /\ K \in Seq(Node) /\ Len(K) = u + 1 /\ u \in Nat
      /\ \A j \in 1..u : K[j] = flash[d].kv[j]
      /\ K[u + 1] = n
  BY <1>1, AppendProperties
<1>3. flash' = [flash EXCEPT ![d] = [flash[d] EXCEPT !.kv = K]]
  OBVIOUS
<1> HIDE DEF K
<1>4. /\ flash'[d] = [flash[d] EXCEPT !.kv = K]
      /\ \A s \in Sectors : s # d => flash'[s] = flash[s]
  BY <1>1, <1>3
<1>5. /\ flash'[d].kv = K /\ flash'[d].ok = flash[d].ok
      /\ flash'[d].store = flash[d].store /\ flash'[d].dirty = flash[d].dirty
      /\ flash'[d] \in Sector
  BY <1>1, <1>2, <1>4 DEF Sector
<1>6. flash' \in [Sectors -> Sector]
  BY <1>1, <1>3, <1>4, <1>5
<1>7. u + 1 \in 1..Slots /\ u = Used(d) /\ Used(d)' = u + 1
  BY <1>2, <1>5, KvdbAssumption DEF Used
<1>8. Addrs' = Addrs \union {<<d, u + 1>>}
  <2>1. ASSUME NEW x \in Sectors \X (1..Slots)
        PROVE  x[2] <= Len(flash'[x[1]].kv) <=> (x[2] <= Len(flash[x[1]].kv) \/ x = <<d, u + 1>>)
    <3>1. x = <<x[1], x[2]>> /\ x[1] \in Sectors /\ x[2] \in Nat
      BY KvdbAssumption
    <3>2. CASE x[1] = d
      <4>1. Len(flash'[x[1]].kv) = u + 1 /\ Len(flash[x[1]].kv) = u
        BY <1>2, <1>5, <3>2
      <4> QED
        BY <1>2, <3>1, <3>2, <4>1
    <3>3. CASE x[1] # d
      BY <1>4, <3>1, <3>3
    <3> QED
      BY <3>2, <3>3
  <2>2. <<d, u + 1>> \in Sectors \X (1..Slots)
    BY <1>7
  <2> QED
    BY <2>1, <2>2 DEF Addrs
<1>9. <<d, u + 1>> \notin Addrs
  BY <1>2 DEF Addrs
<1>10. Fresh(d)' = <<d, u + 1>> /\ NodeAt(Fresh(d))' = n
  <2>1. Fresh(d)' = <<d, u + 1>>
    BY <1>7 DEF Fresh
  <2>2. Fresh(d)'[1] = d /\ Fresh(d)'[2] = u + 1
    BY <2>1
  <2>3. NodeAt(Fresh(d))' = flash'[d].kv[u + 1]
    BY <2>2 DEF NodeAt
  <2> QED
    BY <1>2, <1>5, <2>1, <2>3
<1>11. ASSUME NEW b \in Addrs PROVE NodeAt(b)' = NodeAt(b)
  <2>1. b[1] \in Sectors /\ b[2] \in 1..Len(flash[b[1]].kv)
    BY AddrsFacts DEF Used
  <2> QED
    BY <1>2, <1>4, <1>5, <2>1 DEF NodeAt
<1>12. \A s \in Sectors : /\ flash'[s].ok = flash[s].ok /\ flash'[s].store = flash[s].store
                          /\ flash'[s].dirty = flash[s].dirty
  BY <1>4, <1>5
<1>13. \A s \in Sectors : s # d => Used(s)' = Used(s)
  BY <1>4 DEF Used
<1> QED
  BY <1>6, <1>7, <1>8, <1>9, <1>10, <1>11, <1>12, <1>13

\* The nodes are the same when only the header of a sector is written.
LEMMA SectorPut ==
    ASSUME NEW f \in [Sectors -> Sector], NEW s \in Sectors, NEW h \in Sector
    PROVE  /\ [f EXCEPT ![s] = h] \in [Sectors -> Sector]
           /\ [f EXCEPT ![s] = h][s] = h
           /\ \A r \in Sectors : r # s => [f EXCEPT ![s] = h][r] = f[r]
OBVIOUS

LEMMA HeaderWrite ==
    ASSUME TypeOK, \A s \in Sectors : flash'[s].kv = flash[s].kv
    PROVE  /\ Addrs' = Addrs /\ \A b \in Addrs : NodeAt(b)' = NodeAt(b)
           /\ \A s \in Sectors : Used(s)' = Used(s)
<1>1. Addrs' = Addrs
  BY DEF Addrs
<1> QED
  BY <1>1, AddrsFacts DEF NodeAt, Used

\* Sector s loses its nodes.
LEMMA EmptyWrite ==
    ASSUME TypeOK, NEW s \in Sectors, NEW h \in {Erased, Clean}, flash' = [flash EXCEPT ![s] = h]
    PROVE  /\ flash' \in [Sectors -> Sector] /\ flash'[s] = h
           /\ \A r \in Sectors : r # s => flash'[r] = flash[r] /\ Used(r)' = Used(r)
           /\ Used(s)' = 0
           /\ Addrs' = {a \in Addrs : a[1] # s}
           /\ \A b \in Addrs : b[1] # s => NodeAt(b)' = NodeAt(b)
<1>1. flash \in [Sectors -> Sector] /\ <<>> \in Seq(Node) /\ Len(<<>>) = 0
  BY EmptySeq DEF TypeOK
<1>2. h \in Sector /\ h.kv = <<>>
  <2>1. Erased \in Sector /\ Erased.kv = <<>>
    BY <1>1 DEF Erased, Sector
  <2>2. Clean \in Sector /\ Clean.kv = <<>>
    BY <1>1 DEF Clean, Sector
  <2> QED
    BY <2>1, <2>2
<1>3. flash'[s] = h /\ \A r \in Sectors : r # s => flash'[r] = flash[r]
  BY <1>1
<1>4. flash' \in [Sectors -> Sector]
  BY <1>1, <1>2
<1>5. Used(s)' = 0 /\ \A r \in Sectors : r # s => Used(r)' = Used(r)
  BY <1>1, <1>2, <1>3 DEF Used
<1>6. Addrs' = {a \in Addrs : a[1] # s}
  <2>1. ASSUME NEW x \in Sectors \X (1..Slots)
        PROVE  x[2] <= Len(flash'[x[1]].kv) <=> x[2] <= Len(flash[x[1]].kv) /\ x[1] # s
    <3>1. x[1] \in Sectors /\ x[2] \in Nat /\ x[2] > 0
      BY KvdbAssumption
    <3> QED
      BY <1>3, <1>5, <3>1 DEF Used
  <2> QED
    BY <2>1 DEF Addrs
<1>7. \A b \in Addrs : b[1] # s => NodeAt(b)' = NodeAt(b)
  BY <1>3, AddrsFacts DEF NodeAt
<1> QED
  BY <1>3, <1>4, <1>5, <1>6, <1>7

-----------------------------------------------------------------------------
(* What the forms say of the flash, when the nodes or the headers stay.    *)
LEMMA SpaceKept ==
    ASSUME \A s \in Sectors : Used(s)' = Used(s)
    PROVE  /\ \A x : Spare(x) => Spare(x)'
           /\ HasRoom => HasRoom'
           /\ \A d \in Sectors : Used(d) < Slots => (Used(d) < Slots)'
           /\ \A d : Target(d) => Target(d)'
BY DEF Spare, HasRoom, TwoSpare, Bare, Target

LEMMA HeaderKept ==
    ASSUME \A s \in Sectors : SameHeader(s)
    PROVE  /\ \A p : Shape(p, 0) => Shape(p, 0)'
           /\ \A x : Calm(x) => Calm(x)'
           /\ \A x : CleanBelow(x) => CleanBelow(x)'
           /\ \A s, i : Room(s, i) => Room(s, i)'
<1>1. ASSUME NEW p, Shape(p, 0) PROVE Shape(p, 0)'
  <2>1. \A s \in Sectors : s # 0
    BY KvdbAssumption DEF Sectors
  <2> QED
    BY <1>1, <2>1 DEF Shape, SameHeader
<1> QED
  BY <1>1 DEF Calm, CleanBelow, Room, SameHeader

LEMMA DataKept ==
    ASSUME TypeOK, NEW E, NEW old, NEW fresh, NEW gone, NEW last, Data(E, old, fresh, gone, last),
           Addrs' = Addrs, \A b \in Addrs : NodeAt(b)' = NodeAt(b), db'.cache = db.cache,
           \A s \in Sectors : flash'[s].dirty = "FALSE" => flash[s].dirty = "FALSE"
    PROVE  Data(E, old, fresh, gone, last)'
<1>1. \A b \in Addrs : /\ Full(b)' <=> Full(b)
                       /\ State(b)' = State(b) /\ KeyOf(b)' = KeyOf(b) /\ ValOf(b)' = ValOf(b)
                       /\ Holder(b)' <=> Holder(b)
  BY DEF Full, State, KeyOf, ValOf, Holder, CrcOk
<1>2. NodesOK(old, fresh)'
  BY <1>1 DEF Data, NodesOK
<1>3. HoldersOK(E, gone)'
  BY <1>1 DEF Data, HoldersOK
<1>4. \A k \in Keys : CacheHit(k)' => CacheHit(k)
  BY DEF CacheHit
<1>5. CacheOK(fresh, gone)'
  <2> SUFFICES ASSUME NEW k \in Keys, CacheHit(k)'
               PROVE  db'.cache[k] = fresh \/ (Holder(db.cache[k])' /\ db'.cache[k] # gone)
    BY DEF CacheOK
  <2>1. db.cache[k] \in Addrs /\ (db.cache[k] = fresh \/ (Holder(db.cache[k]) /\ db.cache[k] # gone))
    <3>1. CacheHit(k)
      BY <1>4
    <3>2. db.cache[k] \in Addrs
      BY <3>1 DEF CacheHit
    <3>3. CacheOK(fresh, gone)
      BY DEF Data
    <3> QED
      BY <3>1, <3>2, <3>3 DEF CacheOK
  <2>2. Holder(db.cache[k])' <=> Holder(db.cache[k])
    BY <2>1 DEF Holder, Full, State, CrcOk
  <2> QED
    BY <2>1, <2>2
<1>6. CleanOK(fresh, last)'
  <2>1. \A a \in Addrs : a[1] \in Sectors
    BY AddrsFacts
  <2> QED
    BY <1>1, <2>1 DEF Data, CleanOK
<1> QED
  BY <1>2, <1>3, <1>5, <1>6 DEF Data

(* What is known of a node from its fields.                                *)
LEMMA SameNode ==
    ASSUME NEW b, NodeAt(b)' = NodeAt(b)
    PROVE  /\ Full(b)' <=> Full(b)
           /\ State(b)' = State(b) /\ KeyOf(b)' = KeyOf(b) /\ ValOf(b)' = ValOf(b)
           /\ Holder(b)' <=> Holder(b)
BY DEF Full, State, KeyOf, ValOf, Holder, CrcOk

LEMMA NewStatus ==
    ASSUME TypeOK, NEW b \in Addrs, NEW st, NodeAt(b)' = [NodeAt(b) EXCEPT !.status = st]
    PROVE  /\ Full(b)' <=> Full(b)
           /\ State(b)' = st /\ KeyOf(b)' = KeyOf(b) /\ ValOf(b)' = ValOf(b)
           /\ Holder(b)' <=> Full(b) /\ st \in {"WRITE", "PRE_DELETE"}
BY AddrsFacts DEF Full, State, KeyOf, ValOf, Holder, CrcOk, Node

(* The node at a, a live one, is prepared for deletion.                    *)
LEMMA MarkStep ==
    ASSUME TypeOK, NEW E, NEW a \in Addrs, Steady(E), Live(a),
           flash' = [flash EXCEPT ![a[1]].kv[a[2]].status = "PRE_DELETE"],
           db' = [db EXCEPT !.last_is_complete_del = TRUE]
    PROVE  /\ flash' \in [Sectors -> Sector] /\ db' \in DbType
           /\ Marked(a, E)' /\ KeyOf(a)' = KeyOf(a)
           /\ \A s \in Sectors : SameHeader(s)
<1>1. /\ flash' \in [Sectors -> Sector] /\ Addrs' = Addrs
      /\ NodeAt(a)' = [NodeAt(a) EXCEPT !.status = "PRE_DELETE"]
      /\ \A b \in Addrs : b # a => NodeAt(b)' = NodeAt(b)
      /\ \A s \in Sectors : SameHeader(s)
  BY StatusWrite
<1>2. /\ db' \in DbType /\ db'.cache = db.cache /\ db'.last_is_complete_del
      /\ NoAddr \notin Addrs /\ \A b \in Addrs : b[1] \in Sectors
  BY AddrsFacts DEF TypeOK, DbType
<1>3. \A b \in Addrs : b # a => /\ Full(b)' <=> Full(b)
                                /\ State(b)' = State(b) /\ KeyOf(b)' = KeyOf(b) /\ ValOf(b)' = ValOf(b)
                                /\ Holder(b)' <=> Holder(b)
  BY <1>1, SameNode
<1>4. /\ Full(a)' <=> Full(a)
      /\ State(a)' = "PRE_DELETE" /\ KeyOf(a)' = KeyOf(a) /\ ValOf(a)' = ValOf(a)
      /\ Holder(a)' <=> Full(a)
  BY <1>1, NewStatus
<1>5. Data(E, NoAddr, NoAddr, NoAddr, NoAddr) /\ Shape(0, 0) /\ State(a) = "WRITE" /\ Full(a)
  BY <1>2 DEF Steady, Live, Data, NodesOK
<1>6. Holder(a) /\ Holder(a)'
  BY <1>4, <1>5 DEF Holder
<1>7. NodesOK(a, NoAddr)'
  BY <1>1, <1>2, <1>3, <1>4, <1>5 DEF Data, NodesOK
<1>8. HoldersOK(E, NoAddr)'
  BY <1>1, <1>3, <1>4, <1>5, <1>6 DEF Data, HoldersOK
<1>9. CacheOK(NoAddr, NoAddr)'
  <2> SUFFICES ASSUME NEW k \in Keys, CacheHit(k)'
               PROVE  Holder(db.cache[k])' /\ db'.cache[k] # NoAddr
    BY DEF CacheOK
  <2>1. db.cache[k] \in Addrs /\ (CacheHit(k)' => CacheHit(k))
    BY <1>1, <1>2, AddrsFacts DEF CacheHit, CrcOk, Node
  <2>2. Holder(db.cache[k])
    BY <1>2, <1>5, <2>1 DEF Data, CacheOK
  <2>3. Holder(db.cache[k])'
    BY <1>3, <1>6, <2>1, <2>2
  <2> QED
    BY <1>2, <2>1, <2>3
<1>10. CleanOK(NoAddr, a)'
  BY <1>1, <1>2, <1>3, <1>5 DEF Data, CleanOK, SameHeader
<1>11. Shape(0, 0)'
  BY <1>1, <1>5, HeaderKept
<1> QED
  BY <1>1, <1>2, <1>4, <1>7, <1>8, <1>9, <1>10, <1>11 DEF Marked, Data

(* The header of a sector is written: it turns dirty, or is filled by one  *)
(* node more.                                                              *)
LEMMA DirtyStep ==
    ASSUME TypeOK, NEW s \in Sectors, NEW E, NEW old, NEW last, Shape(0, 0),
           last = NoAddr \/ last[1] = s, NEW a \in Addrs, a[1] = s,
           Data(E, old, NoAddr, NoAddr, last),
           flash' = [flash EXCEPT ![s].dirty = IF @ = "FALSE" THEN "TRUE" ELSE @],
           UNCHANGED db
    PROVE  /\ flash' \in [Sectors -> Sector] /\ Shape(0, 0)'
           /\ Data(E, old, NoAddr, NoAddr, NoAddr)'
           /\ Addrs' = Addrs /\ \A b \in Addrs : NodeAt(b)' = NodeAt(b)
           /\ \A r \in Sectors : Used(r)' = Used(r)
           /\ \A x : Calm(x) => Calm(x)'
           /\ flash[s].dirty = "GC" => flash' = flash
<1>1. /\ flash \in [Sectors -> Sector] /\ flash[s] \in Sector
      /\ s # 0 /\ flash[s].dirty \in {"FALSE", "TRUE", "GC"}
  BY AddrsFacts DEF TypeOK, Shape
<1> DEFINE w == IF flash[s].dirty = "FALSE" THEN "TRUE" ELSE flash[s].dirty
<1>2. w \in {"TRUE", "GC"} /\ (w = "GC" => flash[s].dirty = "GC")
  BY <1>1
<1>3. flash' = [flash EXCEPT ![s] = [flash[s] EXCEPT !.dirty = w]]
  BY <1>1
<1>4. flash[s].dirty = "GC" => flash' = flash
  BY <1>1, <1>3 DEF Sector
<1> HIDE DEF w
<1>5. /\ flash' \in [Sectors -> Sector] /\ \A r \in Sectors : r # s => flash'[r] = flash[r]
      /\ flash'[s].dirty = w /\ flash'[s].kv = flash[s].kv /\ flash'[s].ok = flash[s].ok
      /\ flash'[s].store = flash[s].store
  <2>1. PICK h : h = [flash[s] EXCEPT !.dirty = w]
    OBVIOUS
  <2>2. /\ h \in Sector /\ h.dirty = w /\ h.kv = flash[s].kv /\ h.ok = flash[s].ok
        /\ h.store = flash[s].store
    BY <1>1, <1>2, <2>1 DEF Sector
  <2>3. flash' = [flash EXCEPT ![s] = h]
    BY <1>3, <2>1
  <2>4. /\ flash' \in [Sectors -> Sector] /\ flash'[s] = h
        /\ \A r \in Sectors : r # s => flash'[r] = flash[r]
    BY <1>1, <2>2, <2>3, SectorPut
  <2> QED
    BY <2>2, <2>4
<1>6. /\ Addrs' = Addrs /\ \A b \in Addrs : NodeAt(b)' = NodeAt(b)
      /\ \A r \in Sectors : Used(r)' = Used(r)
  <2>1. \A r \in Sectors : flash'[r].kv = flash[r].kv
    BY <1>5
  <2> QED
    BY <2>1, HeaderWrite
<1>7. Used(s) # 0
  BY AddrsFacts, KvdbAssumption
<1>8. Shape(0, 0)'
  BY <1>1, <1>2, <1>5, <1>6, <1>7, AddrsFacts DEF Shape
<1>9. Data(E, old, NoAddr, NoAddr, last)'
  <2>1. \A r \in Sectors : flash'[r].dirty = "FALSE" => flash[r].dirty = "FALSE"
    BY <1>2, <1>5
  <2> QED
    BY <1>6, <2>1, DataKept
<1>10. CleanOK(NoAddr, NoAddr)'
  <2>1. CleanOK(NoAddr, last)'
    BY <1>9 DEF Data
  <2>2. NoAddr \notin Addrs
    BY AddrsFacts
  <2> QED
    BY <1>2, <1>5, <1>6, <2>1, <2>2 DEF CleanOK
<1>11. Data(E, old, NoAddr, NoAddr, NoAddr)'
  BY <1>9, <1>10 DEF Data
<1>12. \A x : Calm(x) => Calm(x)'
  BY <1>2, <1>5 DEF Calm
<1> QED
  BY <1>4, <1>5, <1>6, <1>8, <1>11, <1>12

LEMMA SecStatusStep ==
    ASSUME TypeOK, NEW E, NEW old, NEW d, NEW k, Allotted(old, d, k, E, 0),
           flash' = [flash EXCEPT ![d].store = IF @ = "EMPTY" THEN "USING"
                        ELSE IF Len(flash[d].kv) + 1 = Slots THEN "FULL" ELSE @],
           UNCHANGED db
    PROVE  /\ flash' \in [Sectors -> Sector] /\ Allotted(old, d, k, E, d)'
           /\ Addrs' = Addrs /\ \A b \in Addrs : NodeAt(b)' = NodeAt(b)
           /\ \A r \in Sectors : Used(r)' = Used(r) /\ flash'[r].dirty = flash[r].dirty
<1>1. /\ flash \in [Sectors -> Sector] /\ d \in Sectors /\ flash[d] \in Sector /\ d # 0
      /\ Used(d) \in Nat /\ Used(d) < Slots /\ flash[d].store = StoreFor(Used(d))
      /\ Slots \in Nat /\ Slots >= 2 /\ Used(d) = Len(flash[d].kv)
  BY AddrsFacts, KvdbAssumption DEF Allotted, TypeOK, Shape, Used
<1> DEFINE w == IF flash[d].store = "EMPTY" THEN "USING"
                ELSE IF Len(flash[d].kv) + 1 = Slots THEN "FULL" ELSE flash[d].store
<1>2. w = StoreFor(Used(d) + 1) /\ w \in {"USING", "FULL"}
  BY <1>1 DEF StoreFor
<1>3. flash' = [flash EXCEPT ![d] = [flash[d] EXCEPT !.store = w]]
  BY <1>1
<1> HIDE DEF w
<1>4. /\ flash' \in [Sectors -> Sector] /\ \A r \in Sectors : r # d => flash'[r] = flash[r]
      /\ flash'[d].dirty = flash[d].dirty /\ flash'[d].kv = flash[d].kv
      /\ flash'[d].ok = flash[d].ok /\ flash'[d].store = w
  <2>1. PICK h : h = [flash[d] EXCEPT !.store = w]
    OBVIOUS
  <2>2. /\ h \in Sector /\ h.dirty = flash[d].dirty /\ h.kv = flash[d].kv
        /\ h.ok = flash[d].ok /\ h.store = w
    BY <1>1, <1>2, <2>1 DEF Sector
  <2>3. flash' = [flash EXCEPT ![d] = h]
    BY <1>3, <2>1
  <2>4. /\ flash' \in [Sectors -> Sector] /\ flash'[d] = h
        /\ \A r \in Sectors : r # d => flash'[r] = flash[r]
    BY <1>1, <2>2, <2>3, SectorPut
  <2> QED
    BY <2>2, <2>4
<1>5. /\ Addrs' = Addrs /\ \A b \in Addrs : NodeAt(b)' = NodeAt(b)
      /\ \A r \in Sectors : Used(r)' = Used(r) /\ flash'[r].dirty = flash[r].dirty
  <2>1. \A r \in Sectors : flash'[r].kv = flash[r].kv
    BY <1>4
  <2> QED
    BY <1>4, <2>1, HeaderWrite
<1>6. Shape(d, 0)'
  BY <1>1, <1>2, <1>4, <1>5, AddrsFacts DEF Shape, Allotted
<1>7. Data(E, old, NoAddr, NoAddr, NoAddr)'
  BY <1>5, DataKept DEF Allotted
<1>8. OnlyOld(old, k)'
  <2>1. \A b \in Addrs : (Holder(b)' <=> Holder(b)) /\ KeyOf(b)' = KeyOf(b)
    BY <1>5, SameNode
  <2> QED
    BY <1>5, <2>1 DEF OnlyOld, Allotted
<1> QED
  BY <1>1, <1>4, <1>5, <1>6, <1>7, <1>8 DEF Allotted

(* The five writes that make a node: the magic word of it.                 *)
LEMMA PreWriteStep ==
    ASSUME TypeOK, NEW E, NEW old, NEW d, NEW k \in Keys, NEW v \in Vals, Allotted(old, d, k, E, d),
           flash' = [flash EXCEPT ![d].kv = Append(@, [key |-> k, val |-> v,
                                                       status |-> "PRE_WRITE", data |-> "none"])],
           UNCHANGED db
    PROVE  /\ flash' \in [Sectors -> Sector] /\ Making(old, d, k, v, E, "none")'
           /\ Addrs \subseteq Addrs' /\ \A b \in Addrs : NodeAt(b)' = NodeAt(b)
           /\ Used(d)' = Used(d) + 1 /\ \A s \in Sectors : s # d => Used(s)' = Used(s)
           /\ \A s \in Sectors : flash'[s].dirty = flash[s].dirty
<1> DEFINE n == [key |-> k, val |-> v, status |-> "PRE_WRITE", data |-> "none"]
<1>1. /\ d \in Sectors /\ Used(d) < Slots /\ d # 0 /\ Used(d) \in Nat /\ n \in Node
      /\ Shape(d, 0) /\ Data(E, old, NoAddr, NoAddr, NoAddr) /\ OnlyOld(old, k)
  BY AddrsFacts DEF Allotted, Node
<1> PICK x : x = Fresh(d)'
  OBVIOUS
<1>2. /\ flash' \in [Sectors -> Sector]
      /\ x = <<d, Used(d) + 1>> /\ Addrs' = Addrs \union {x} /\ x \notin Addrs
      /\ NodeAt(Fresh(d))' = n /\ \A b \in Addrs : NodeAt(b)' = NodeAt(b)
      /\ Used(d)' = Used(d) + 1 /\ \A s \in Sectors : s # d => Used(s)' = Used(s)
      /\ \A s \in Sectors : /\ flash'[s].ok = flash[s].ok /\ flash'[s].store = flash[s].store
                            /\ flash'[s].dirty = flash[s].dirty
  <2> HIDE DEF n
  <2> QED
    BY <1>1, AppendWrite DEF n
<1>3. NodeAt(x)' = n /\ x # NoAddr /\ NoAddr \notin Addrs
  BY <1>1, <1>2, AddrsFacts DEF NoAddr
<1>4. /\ ~Holder(x)' /\ State(x)' = "PRE_WRITE"
      /\ \A b \in Addrs : /\ Full(b)' <=> Full(b)
                          /\ State(b)' = State(b) /\ KeyOf(b)' = KeyOf(b) /\ ValOf(b)' = ValOf(b)
                          /\ Holder(b)' <=> Holder(b)
  <2>1. ~Holder(x)' /\ State(x)' = "PRE_WRITE"
    BY <1>3 DEF Holder, Full, CrcOk, State
  <2> QED
    BY <1>2, <2>1, SameNode
<1>5. old # x
  BY <1>1, <1>2, <1>3 DEF OnlyOld
<1>6. NodesOK(old, Fresh(d))'
  BY <1>1, <1>2, <1>3, <1>4 DEF Data, NodesOK
<1>7. HoldersOK(E, NoAddr)'
  BY <1>1, <1>2, <1>3, <1>4 DEF Data, HoldersOK
<1>8. CacheOK(Fresh(d), NoAddr)'
  <2> SUFFICES ASSUME NEW c \in Keys, CacheHit(c)', db.cache[c] # x
               PROVE  Holder(db.cache[c])' /\ db'.cache[c] # NoAddr
    BY DEF CacheOK
  <2>1. db.cache[c] \in Addrs /\ (CacheHit(c)' => CacheHit(c))
    BY <1>2 DEF CacheHit, CrcOk
  <2>2. Holder(db.cache[c]) /\ db.cache[c] # NoAddr
    BY <1>1, <1>3, <2>1 DEF Data, CacheOK
  <2> QED
    BY <1>4, <2>1, <2>2
<1>9. CleanOK(Fresh(d), NoAddr)'
  <2>1. \A a \in Addrs : a[1] \in Sectors
    BY AddrsFacts
  <2> QED
    BY <1>1, <1>2, <1>3, <1>4, <2>1 DEF Data, CleanOK
<1>10. Shape(0, 0)'
  BY <1>1, <1>2, AddrsFacts, KvdbAssumption DEF Shape
<1>11. OnlyOld(old, k)'
  BY <1>1, <1>2, <1>4 DEF OnlyOld
<1> QED
  BY <1>1, <1>2, <1>3, <1>5, <1>6, <1>7, <1>8, <1>9, <1>10, <1>11 DEF Making, Data

(* The header of it, and the name and the value.                           *)
LEMMA FillStep ==
    ASSUME TypeOK, NEW E, NEW old, NEW d, NEW k \in Keys, NEW v \in Vals, NEW w, w # "full",
           NEW u \in {"hdr", "full"}, Making(old, d, k, v, E, w),
           flash' = [flash EXCEPT ![d].kv[Used(d)].data = u],
           db' \in DbType, db'.last_is_complete_del = db.last_is_complete_del,
           db'.cache = IF u = "full" THEN [db.cache EXCEPT ![k] = Fresh(d)] ELSE db.cache
    PROVE  /\ flash' \in [Sectors -> Sector] /\ Making(old, d, k, v, E, u)'
           /\ Addrs' = Addrs /\ \A b \in Addrs : b # Fresh(d) => NodeAt(b)' = NodeAt(b)
           /\ \A s \in Sectors : SameHeader(s)
<1> PICK x : x = Fresh(d)
  OBVIOUS
<1>1. /\ d \in Sectors /\ Used(d) >= 1 /\ x[1] = d /\ x[2] = Used(d) /\ x \in Addrs /\ old # x
      /\ Shape(0, 0) /\ Data(E, old, x, NoAddr, NoAddr) /\ OnlyOld(old, k)
      /\ NodeAt(x) = [key |-> k, val |-> v, status |-> "PRE_WRITE", data |-> w]
  <2>1. /\ d \in Sectors /\ Used(d) >= 1 /\ Used(d) <= Slots /\ Used(d) \in Nat
    BY AddrsFacts DEF Making, Shape
  <2>2. x \in Addrs /\ x[1] = d /\ x[2] = Used(d)
    BY <2>1, AddrsFacts, KvdbAssumption DEF Fresh
  <2> QED
    BY <2>1, <2>2 DEF Making
<1>2. flash' = [flash EXCEPT ![x[1]].kv[x[2]].data = u]
  BY <1>1
<1>3. /\ flash' \in [Sectors -> Sector] /\ Addrs' = Addrs
      /\ NodeAt(x)' = [NodeAt(x) EXCEPT !.data = u]
      /\ \A b \in Addrs : b # x => NodeAt(b)' = NodeAt(b)
      /\ \A s \in Sectors : SameHeader(s)
  <2>1. x \in Addrs /\ flash' = DataPut(x, u) /\ u \in {"none", "hdr", "full"}
    BY <1>1, <1>2 DEF DataPut
  <2> QED
    BY <2>1, DataWrite
<1>4. Fresh(d)' = x
  BY <1>1, <1>3 DEF Fresh, SameHeader
<1>5. NodeAt(x)' = [key |-> k, val |-> v, status |-> "PRE_WRITE", data |-> u]
  BY <1>1, <1>3
<1>6. /\ ~Holder(x)' /\ ~Holder(x) /\ State(x)' = "PRE_WRITE" /\ NoAddr \notin Addrs
      /\ \A b \in Addrs : b # x =>
            /\ Full(b)' <=> Full(b)
            /\ State(b)' = State(b) /\ KeyOf(b)' = KeyOf(b) /\ ValOf(b)' = ValOf(b)
            /\ Holder(b)' <=> Holder(b)
  <2>1. ~Holder(x)' /\ State(x)' = "PRE_WRITE" /\ ~Holder(x)
    BY <1>1, <1>5 DEF Holder, Full, CrcOk, State
  <2> QED
    BY <1>3, <2>1, SameNode, AddrsFacts
<1>7. NodesOK(old, Fresh(d))'
  BY <1>1, <1>3, <1>4, <1>6 DEF Data, NodesOK
<1>8. HoldersOK(E, NoAddr)'
  BY <1>1, <1>3, <1>6 DEF Data, HoldersOK
<1>9. CacheOK(Fresh(d), NoAddr)'
  <2> SUFFICES ASSUME NEW c \in Keys, CacheHit(c)', db'.cache[c] # x
               PROVE  Holder(db.cache[c])' /\ db'.cache[c] # NoAddr
    BY <1>4 DEF CacheOK
  <2>1. db'.cache[c] = db.cache[c]
    BY DEF TypeOK, DbType
  <2>2. db.cache[c] \in Addrs /\ (CacheHit(c)' => CacheHit(c))
    BY <1>3, <2>1 DEF CacheHit, CrcOk
  <2>3. Holder(db.cache[c]) /\ db.cache[c] # NoAddr
    BY <1>1, <1>6, <2>1, <2>2 DEF Data, CacheOK
  <2> QED
    BY <1>6, <2>1, <2>2, <2>3
<1>10. CleanOK(Fresh(d), NoAddr)'
  <2>1. \A a \in Addrs : a[1] \in Sectors
    BY AddrsFacts
  <2> QED
    BY <1>1, <1>3, <1>4, <1>6, <2>1 DEF Data, CleanOK, SameHeader
<1>11. OnlyOld(old, k)'
  BY <1>1, <1>3, <1>6 DEF OnlyOld
<1>12. u = "full" => db'.cache[k] = x
  BY DEF TypeOK, DbType
<1>13. Shape(0, 0)' /\ Used(d)' = Used(d)
  BY <1>1, <1>3, HeaderKept DEF SameHeader
<1> QED
  BY <1>1, <1>3, <1>4, <1>5, <1>7, <1>8, <1>9, <1>10, <1>11, <1>12, <1>13 DEF Making, Data


\* What is expected of the flash changes for one name.
Changed(E, E2, k, S) == E2[k] = S /\ \A c \in Keys \ {k} : E2[c] = E[c]

(* Its last write: the name has its new value.                             *)
LEMMA CommitStep ==
    ASSUME TypeOK, NEW E, NEW E2, NEW old, NEW d, NEW k \in Keys, NEW v \in Vals,
           Making(old, d, k, v, E, "full"),
           Changed(E, E2, k, {v}),
           flash' = [flash EXCEPT ![d].kv[Used(d)].status = "WRITE"],
           db' \in DbType, db'.last_is_complete_del = db.last_is_complete_del,
           db'.cache = db.cache
    PROVE  /\ flash' \in [Sectors -> Sector]
           /\ old = NoAddr => Steady(E2)'
           /\ old # NoAddr => Replaced(old, E2)'
           /\ Addrs' = Addrs /\ \A b \in Addrs : b # Fresh(d) => NodeAt(b)' = NodeAt(b)
           /\ \A s \in Sectors : SameHeader(s)
<1> E2[k] = {v} /\ \A c \in Keys \ {k} : E2[c] = E[c]
  BY DEF Changed
<1> PICK x : x = Fresh(d)
  OBVIOUS
<1>1. /\ d \in Sectors /\ Used(d) >= 1 /\ x[1] = d /\ x[2] = Used(d) /\ x \in Addrs /\ old # x
      /\ Shape(0, 0) /\ Data(E, old, x, NoAddr, NoAddr) /\ OnlyOld(old, k) /\ db.cache[k] = x
      /\ NodeAt(x) = [key |-> k, val |-> v, status |-> "PRE_WRITE", data |-> "full"]
  <2>1. /\ d \in Sectors /\ Used(d) >= 1 /\ Used(d) <= Slots /\ Used(d) \in Nat
    BY AddrsFacts DEF Making, Shape
  <2>2. x \in Addrs /\ x[1] = d /\ x[2] = Used(d)
    BY <2>1, AddrsFacts, KvdbAssumption DEF Fresh
  <2> QED
    BY <2>1, <2>2 DEF Making
<1>2. flash' = [flash EXCEPT ![x[1]].kv[x[2]].status = "WRITE"]
  BY <1>1
<1>3. /\ flash' \in [Sectors -> Sector] /\ Addrs' = Addrs
      /\ NodeAt(x)' = [NodeAt(x) EXCEPT !.status = "WRITE"]
      /\ \A b \in Addrs : b # x => NodeAt(b)' = NodeAt(b)
      /\ \A s \in Sectors : SameHeader(s)
  BY <1>1, <1>2, StatusWrite
<1>4. NodeAt(x)' = [key |-> k, val |-> v, status |-> "WRITE", data |-> "full"]
  BY <1>1, <1>3
<1>5. /\ Holder(x)' /\ ~Holder(x) /\ State(x)' = "WRITE" /\ Full(x)' /\ KeyOf(x)' = k /\ ValOf(x)' = v
      /\ KeyOf(x) = k
      /\ \A b \in Addrs : b # x =>
            /\ Full(b)' <=> Full(b)
            /\ State(b)' = State(b) /\ KeyOf(b)' = KeyOf(b) /\ ValOf(b)' = ValOf(b)
            /\ Holder(b)' <=> Holder(b)
  <2>1. /\ Holder(x)' /\ ~Holder(x) /\ State(x)' = "WRITE" /\ Full(x)' /\ KeyOf(x)' = k
        /\ ValOf(x)' = v /\ KeyOf(x) = k
    BY <1>1, <1>4 DEF Holder, Full, CrcOk, State, KeyOf, ValOf
  <2> QED
    BY <1>3, <2>1, SameNode
<1>6. \A b \in Addrs : KeyOf(b) \in Keys /\ b[1] \in Sectors
  BY AddrsFacts DEF KeyOf, Node
<1>7. NoAddr \notin Addrs /\ \A b \in Addrs : Holder(b) /\ KeyOf(b) = k => b = old
  BY <1>1, AddrsFacts DEF OnlyOld
<1>8. NodesOK(old, NoAddr)'
  BY <1>1, <1>3, <1>5, <1>7 DEF Data, NodesOK
<1>9. HoldersOK(E2, old)'
  <2>1. ASSUME NEW a \in Addrs \ {old}, NEW b \in Addrs \ {old},
               Holder(a)', Holder(b)', KeyOf(a)' = KeyOf(b)'
        PROVE  a = b
    BY <1>1, <1>5, <1>7, <2>1 DEF Data, HoldersOK
  <2>2. ASSUME NEW a \in Addrs \ {old}, Holder(a)'
        PROVE  E2[KeyOf(a)'] = {ValOf(a)'}
    BY <1>1, <1>5, <1>6, <1>7, <2>2 DEF Data, HoldersOK
  <2>3. ASSUME NEW c \in Keys, E2[c] # {None}
        PROVE  \E a \in Addrs \ {old} : Holder(a)' /\ KeyOf(a)' = c
    <3>1. CASE c = k
      BY <1>1, <1>5, <3>1
    <3>2. CASE c # k
      <4>1. PICK a \in Addrs \ {NoAddr} : Holder(a) /\ KeyOf(a) = c
        BY <1>1, <2>3, <3>2 DEF Data, HoldersOK
      <4>2. a # x /\ a # old
        BY <1>5, <1>7, <1>1, <3>2, <4>1 DEF OnlyOld
      <4> QED
        BY <1>5, <4>1, <4>2
    <3> QED
      BY <3>1, <3>2
  <2> QED
    BY <1>3, <2>1, <2>2, <2>3 DEF HoldersOK
<1>10. CacheOK(NoAddr, old)'
  <2> SUFFICES ASSUME NEW c \in Keys, CacheHit(c)'
               PROVE  Holder(db.cache[c])' /\ db'.cache[c] # old
    BY DEF CacheOK
  <2>1. db.cache[c] \in Addrs /\ KeyOf(db.cache[c])' = c
    BY <1>3 DEF CacheHit, KeyOf
  <2>2. CASE db.cache[c] = x
    BY <1>1, <1>5, <2>2
  <2>3. CASE db.cache[c] # x
    <3>1. CacheHit(c)
      BY <1>3, <2>1, <2>3 DEF CacheHit, CrcOk
    <3>2. Holder(db.cache[c]) /\ KeyOf(db.cache[c]) = c
      BY <1>1, <1>5, <2>1, <2>3, <3>1 DEF Data, CacheOK
    <3>3. c # k
      BY <1>1, <2>3
    <3>4. db.cache[c] # old
      BY <1>1, <1>7, <2>1, <3>2, <3>3 DEF OnlyOld
    <3> QED
      BY <1>5, <2>1, <2>3, <3>2, <3>4
  <2> QED
    BY <2>2, <2>3
<1>11. CleanOK(NoAddr, NoAddr)'
  BY <1>1, <1>3, <1>5, <1>6 DEF Data, CleanOK, SameHeader
<1>12. Shape(0, 0)'
  BY <1>1, <1>3, HeaderKept
<1>13. Data(E2, old, NoAddr, old, NoAddr)'
  BY <1>8, <1>9, <1>10, <1>11 DEF Data
<1>14. IF old = NoAddr THEN ~db'.last_is_complete_del
       ELSE old \in Addrs /\ db'.last_is_complete_del
  BY <1>1 DEF OnlyOld
<1> QED
  BY <1>3, <1>12, <1>13, <1>14 DEF Steady, Replaced

(* The node at a is deleted: what stays of the others.                     *)
LEMMA DeleteWrite ==
    ASSUME TypeOK, NEW a \in Addrs,
           flash' = [flash EXCEPT ![a[1]].kv[a[2]].status = "DELETED"]
    PROVE  /\ flash' \in [Sectors -> Sector] /\ Addrs' = Addrs
           /\ \A s \in Sectors : SameHeader(s)
           /\ \A b \in Addrs : /\ Full(b)' <=> Full(b)
                               /\ KeyOf(b)' = KeyOf(b) /\ ValOf(b)' = ValOf(b)
           /\ ~Holder(a)' /\ State(a)' = "DELETED"
           /\ \A b \in Addrs : b # a => /\ State(b)' = State(b) /\ NodeAt(b)' = NodeAt(b)
                                        /\ Holder(b)' <=> Holder(b)
           /\ \A c \in Keys : CacheHit(c)' /\ db'.cache[c] = db.cache[c] => CacheHit(c)
<1>1. /\ flash' \in [Sectors -> Sector] /\ Addrs' = Addrs
      /\ NodeAt(a)' = [NodeAt(a) EXCEPT !.status = "DELETED"]
      /\ \A b \in Addrs : b # a => NodeAt(b)' = NodeAt(b)
      /\ \A s \in Sectors : SameHeader(s)
  BY StatusWrite
<1>2. /\ Full(a)' <=> Full(a)
      /\ State(a)' = "DELETED" /\ KeyOf(a)' = KeyOf(a) /\ ValOf(a)' = ValOf(a) /\ ~Holder(a)'
  BY <1>1, NewStatus
<1>3. \A b \in Addrs : b # a => /\ Full(b)' <=> Full(b)
                                /\ State(b)' = State(b) /\ KeyOf(b)' = KeyOf(b) /\ ValOf(b)' = ValOf(b)
                                /\ Holder(b)' <=> Holder(b)
  BY <1>1, SameNode
<1>4. ASSUME NEW c \in Keys, CacheHit(c)', db'.cache[c] = db.cache[c] PROVE CacheHit(c)
  <2>1. db.cache[c] \in Addrs /\ KeyOf(db.cache[c])' = c /\ Full(db.cache[c])'
    BY <1>1, <1>4 DEF CacheHit, KeyOf, Full
  <2>2. KeyOf(db.cache[c]) = c /\ Full(db.cache[c])
    BY <1>2, <1>3, <1>4, <2>1
  <2> QED
    BY <2>1, <2>2 DEF CacheHit, KeyOf, Full
<1> QED
  BY <1>1, <1>2, <1>3, <1>4

(* The second half of an update.                                           *)
LEMMA ReplacedStep ==
    ASSUME TypeOK, NEW E, NEW a \in Addrs, Replaced(a, E),
           flash' = [flash EXCEPT ![a[1]].kv[a[2]].status = "DELETED"],
           db'.cache = db.cache, ~db'.last_is_complete_del
    PROVE  Deleted(a, E)'
<1>1. /\ Shape(0, 0) /\ Data(E, a, NoAddr, a, NoAddr) /\ NoAddr \notin Addrs
      /\ \A b \in Addrs : b[1] \in Sectors
  BY AddrsFacts DEF Replaced
<1>2. /\ Addrs' = Addrs /\ \A s \in Sectors : SameHeader(s)
      /\ \A b \in Addrs : /\ Full(b)' <=> Full(b)
                          /\ KeyOf(b)' = KeyOf(b) /\ ValOf(b)' = ValOf(b)
      /\ ~Holder(a)' /\ State(a)' = "DELETED"
      /\ \A b \in Addrs : b # a => /\ State(b)' = State(b)
                                   /\ Holder(b)' <=> Holder(b)
      /\ \A c \in Keys : CacheHit(c)' => CacheHit(c)
  BY DeleteWrite
<1>3. NodesOK(NoAddr, NoAddr)'
  BY <1>1, <1>2 DEF Data, NodesOK
<1>4. HoldersOK(E, NoAddr)'
  <2>1. HoldersOK(E, a)
    BY <1>1 DEF Data
  <2>2. \A b, c \in Addrs \ {NoAddr} :
           Holder(b)' /\ Holder(c)' /\ KeyOf(b)' = KeyOf(c)' => b = c
    BY <1>2, <2>1 DEF HoldersOK
  <2>3. \A b \in Addrs \ {NoAddr} : Holder(b)' => E[KeyOf(b)'] = {ValOf(b)'}
    BY <1>2, <2>1 DEF HoldersOK
  <2>4. \A k \in Keys : E[k] = {None} \/ \E b \in Addrs \ {NoAddr} : Holder(b)' /\ KeyOf(b)' = k
    BY <1>1, <1>2, <2>1 DEF HoldersOK
  <2> QED
    BY <1>2, <2>2, <2>3, <2>4 DEF HoldersOK
<1>5. CacheOK(NoAddr, NoAddr)'
  <2> SUFFICES ASSUME NEW c \in Keys, CacheHit(c)'
               PROVE  Holder(db.cache[c])' /\ db'.cache[c] # NoAddr
    BY DEF CacheOK
  <2>1. CacheHit(c) /\ db.cache[c] \in Addrs
    BY <1>2 DEF CacheHit
  <2>2. Holder(db.cache[c]) /\ db.cache[c] # a
    <3>1. CacheOK(NoAddr, a)
      BY <1>1 DEF Data
    <3> QED
      BY <1>1, <2>1, <3>1 DEF CacheOK
  <2> QED
    BY <1>1, <1>2, <2>1, <2>2
<1>6. CleanOK(NoAddr, a)'
  <2>1. CleanOK(NoAddr, NoAddr)
    BY <1>1 DEF Data
  <2> QED
    BY <1>1, <1>2, <2>1 DEF CleanOK, SameHeader
<1>7. Shape(0, 0)'
  BY <1>1, <1>2, HeaderKept
<1> QED
  BY <1>2, <1>3, <1>4, <1>5, <1>6, <1>7 DEF Deleted, Data

(* The deletion of a name: the entry of the cache goes with the node.      *)
LEMMA DeletedStep ==
    ASSUME TypeOK, NEW E, NEW E2, NEW a \in Addrs, NEW k \in Keys, Steady(E), Live(a), KeyOf(a) = k,
           Changed(E, E2, k, {None}),
           flash' = [flash EXCEPT ![a[1]].kv[a[2]].status = "DELETED"],
           db'.cache = [db.cache EXCEPT ![k] = NoAddr], ~db'.last_is_complete_del
    PROVE  Deleted(a, E2)'
<1> E2[k] = {None} /\ \A c \in Keys \ {k} : E2[c] = E[c]
  BY DEF Changed
<1>1. /\ Shape(0, 0) /\ Data(E, NoAddr, NoAddr, NoAddr, NoAddr) /\ NoAddr \notin Addrs
      /\ \A b \in Addrs : b[1] \in Sectors /\ KeyOf(b) \in Keys
  BY AddrsFacts DEF Steady, KeyOf, Node
<1>2. /\ Addrs' = Addrs /\ \A s \in Sectors : SameHeader(s)
      /\ \A b \in Addrs : /\ Full(b)' <=> Full(b)
                          /\ KeyOf(b)' = KeyOf(b) /\ ValOf(b)' = ValOf(b)
      /\ ~Holder(a)' /\ State(a)' = "DELETED"
      /\ \A b \in Addrs : b # a => /\ State(b)' = State(b)
                                   /\ Holder(b)' <=> Holder(b)
      /\ \A c \in Keys : CacheHit(c)' /\ db'.cache[c] = db.cache[c] => CacheHit(c)
  BY DeleteWrite
<1>3. Holder(a) /\ \A b \in Addrs : Holder(b) /\ KeyOf(b) = k => b = a
  <2>1. Holder(a)
    BY <1>1 DEF Data, NodesOK, Live, Holder
  <2> QED
    BY <1>1, <2>1 DEF Data, HoldersOK
<1>4. NodesOK(NoAddr, NoAddr)'
  BY <1>1, <1>2 DEF Data, NodesOK
<1>5. HoldersOK(E2, NoAddr)'
  <2>1. HoldersOK(E, NoAddr)
    BY <1>1 DEF Data
  <2>2. \A b, c \in Addrs \ {NoAddr} :
           Holder(b)' /\ Holder(c)' /\ KeyOf(b)' = KeyOf(c)' => b = c
    BY <1>2, <2>1 DEF HoldersOK
  <2>3. \A b \in Addrs \ {NoAddr} : Holder(b)' => E2[KeyOf(b)'] = {ValOf(b)'}
    <3> SUFFICES ASSUME NEW b \in Addrs, Holder(b)' PROVE E2[KeyOf(b)] = {ValOf(b)}
      BY <1>2
    <3>1. b # a /\ Holder(b)
      BY <1>2
    <3>2. KeyOf(b) \in Keys \ {k}
      BY <1>1, <1>3, <3>1
    <3> QED
      BY <1>1, <2>1, <3>1, <3>2 DEF HoldersOK
  <2>4. \A c \in Keys : E2[c] = {None} \/ \E b \in Addrs \ {NoAddr} : Holder(b)' /\ KeyOf(b)' = c
    BY <1>1, <1>2, <2>1 DEF HoldersOK
  <2> QED
    BY <1>2, <2>2, <2>3, <2>4 DEF HoldersOK
<1>6. CacheOK(NoAddr, NoAddr)'
  <2> SUFFICES ASSUME NEW c \in Keys, CacheHit(c)'
               PROVE  Holder(db.cache[c])' /\ db'.cache[c] = db.cache[c] /\ db.cache[c] # NoAddr
    BY DEF CacheOK
  <2>1. db'.cache[c] \in Addrs
    BY <1>2 DEF CacheHit
  <2>2. c # k
    BY <1>1, <2>1 DEF TypeOK, DbType
  <2>3. db'.cache[c] = db.cache[c]
    BY <2>2 DEF TypeOK, DbType
  <2>4. CacheHit(c)
    BY <1>2, <2>3
  <2>5. Holder(db.cache[c]) /\ KeyOf(db.cache[c]) = c
    BY <1>1, <2>1, <2>3, <2>4 DEF Data, CacheOK, CacheHit, KeyOf
  <2> QED
    BY <1>1, <1>2, <2>1, <2>2, <2>3, <2>5
<1>7. CleanOK(NoAddr, a)'
  <2>1. CleanOK(NoAddr, NoAddr)
    BY <1>1 DEF Data
  <2> QED
    BY <1>1, <1>2, <2>1 DEF CleanOK, SameHeader
<1>8. Shape(0, 0)'
  BY <1>1, <1>2, HeaderKept
<1> QED
  BY <1>2, <1>4, <1>5, <1>6, <1>7, <1>8 DEF Deleted, Data

(* Finding a name.                                                         *)
LEMMA FindFacts ==
    ASSUME TypeOK, NEW E, NEW k \in Keys, Steady(E)
    PROVE  /\ Find(k) = NoAddr \/ (/\ Find(k) \in Addrs /\ Live(Find(k)) /\ KeyOf(Find(k)) = k
                                   /\ Holder(Find(k)))
           /\ \A b \in Addrs : Holder(b) /\ KeyOf(b) = k => b = Find(k)
           /\ Copies(k, {"WRITE"}) = {b \in Addrs : Holder(b) /\ KeyOf(b) = k}
<1>1. /\ Data(E, NoAddr, NoAddr, NoAddr, NoAddr) /\ NoAddr \notin Addrs
  BY AddrsFacts DEF Steady
<1>2. \A b \in Addrs : /\ Full(b) /\ State(b) \in {"WRITE", "DELETED"}
                       /\ Holder(b) <=> State(b) = "WRITE"
  BY <1>1 DEF Data, NodesOK, Holder
<1>3. \A b, c \in Addrs : Holder(b) /\ Holder(c) /\ KeyOf(b) = KeyOf(c) => b = c
  BY <1>1 DEF Data, HoldersOK
<1>4. Copies(k, {"WRITE"}) = {b \in Addrs : Holder(b) /\ KeyOf(b) = k}
  BY <1>2 DEF Copies, State, Full, KeyOf
<1>5. CASE CacheHit(k)
  <2>1. Find(k) = db.cache[k] /\ db.cache[k] \in Addrs /\ KeyOf(db.cache[k]) = k
    BY <1>5 DEF Find, CacheHit, KeyOf
  <2>2. Holder(db.cache[k])
    BY <1>1, <1>5, <2>1 DEF Data, CacheOK
  <2> QED
    BY <1>2, <1>3, <1>4, <2>1, <2>2 DEF Live
<1>6. CASE ~CacheHit(k)
  <2> DEFINE hits == Copies(k, {"WRITE"})
  <2>0. hits = {b \in Addrs : Holder(b) /\ KeyOf(b) = k}
    BY <1>4
  <2>1. Find(k) = IF hits = {} THEN NoAddr
                  ELSE CHOOSE a \in hits : \A b \in hits \ {a} : Before(a, b)
    BY <1>6 DEF Find, FindNoCache
  <2> HIDE DEF hits
  <2>2. CASE hits = {}
    BY <1>4, <2>0, <2>1, <2>2
  <2>3. CASE hits # {}
    <3>1. PICK a \in hits : TRUE
      BY <2>3
    <3>2. \A b \in hits : b = a
      BY <1>3, <2>0
    <3>3. \A b \in hits \ {a} : Before(a, b)
      BY <3>2
    <3>4. Find(k) \in hits
      BY <2>1, <2>3, <3>1, <3>3
    <3>5. Find(k) = a
      BY <3>2, <3>4
    <3> QED
      BY <1>2, <1>4, <2>0, <3>1, <3>2, <3>5 DEF Live
  <2> QED
    BY <2>2, <2>3
<1> QED
  BY <1>5, <1>6

(* The cache is told where a name is.                                      *)
LEMMA CacheStep ==
    ASSUME TypeOK, NEW E, NEW k \in Keys, NEW a \in Addrs, Steady(E), Holder(a),
           UNCHANGED flash, db'.cache = [db.cache EXCEPT ![k] = a],
           ~db'.last_is_complete_del
    PROVE  Steady(E)'
<1>1. /\ Shape(0, 0) /\ NodesOK(NoAddr, NoAddr) /\ HoldersOK(E, NoAddr)
      /\ CacheOK(NoAddr, NoAddr) /\ CleanOK(NoAddr, NoAddr) /\ NoAddr \notin Addrs
  BY AddrsFacts DEF Steady, Data
<1>2. Addrs' = Addrs /\ \A b : NodeAt(b)' = NodeAt(b)
  BY DEF Addrs, NodeAt
<1>3. \A b : /\ Full(b)' <=> Full(b)
             /\ State(b)' = State(b) /\ KeyOf(b)' = KeyOf(b) /\ ValOf(b)' = ValOf(b)
             /\ Holder(b)' <=> Holder(b)
  BY <1>2, SameNode
<1>4. NodesOK(NoAddr, NoAddr)' /\ HoldersOK(E, NoAddr)' /\ CleanOK(NoAddr, NoAddr)'
  BY <1>1, <1>2, <1>3 DEF NodesOK, HoldersOK, CleanOK
<1>5. Shape(0, 0)'
  BY <1>1 DEF Shape, Used
<1>6. CacheOK(NoAddr, NoAddr)'
  <2> SUFFICES ASSUME NEW c \in Keys, CacheHit(c)'
               PROVE  Holder(db.cache[c])' /\ db'.cache[c] # NoAddr
    BY DEF CacheOK
  <2>1. CASE c = k
    <3>1. db'.cache[c] = a
      BY <2>1 DEF TypeOK, DbType
    <3> QED
      BY <1>1, <1>3, <3>1
  <2>2. CASE c # k
    <3>1. db'.cache[c] = db.cache[c]
      BY <2>2 DEF TypeOK, DbType
    <3>2. CacheHit(c) /\ db.cache[c] \in Addrs
      BY <1>2, <3>1 DEF CacheHit
    <3>3. Holder(db.cache[c]) /\ db.cache[c] # NoAddr
      BY <1>1, <3>2 DEF CacheOK
    <3> QED
      BY <1>3, <3>1, <3>3
  <2> QED
    BY <2>1, <2>2
<1> QED
  BY <1>4, <1>5, <1>6 DEF Steady, Data

(* A sector whose nodes are all deleted is erased, and formatted.          *)
LEMMA EraseStep ==
    ASSUME TypeOK, NEW E, NEW s \in Sectors, Steady(E),
           \A j \in 1..Used(s) : State(<<s, j>>) = "DELETED",
           flash' = [flash EXCEPT ![s] = Erased], UNCHANGED db
    PROVE  /\ Shape(0, s)' /\ Data(E, NoAddr, NoAddr, NoAddr, NoAddr)'
<1>1. /\ flash'[s] = Erased
      /\ \A r \in Sectors : r # s => flash'[r] = flash[r] /\ Used(r)' = Used(r)
      /\ Used(s)' = 0
      /\ Addrs' = {a \in Addrs : a[1] # s}
      /\ \A b \in Addrs : b[1] # s => NodeAt(b)' = NodeAt(b)
  BY EmptyWrite
<1>2. /\ Shape(0, 0) /\ NodesOK(NoAddr, NoAddr) /\ HoldersOK(E, NoAddr)
      /\ CacheOK(NoAddr, NoAddr) /\ CleanOK(NoAddr, NoAddr) /\ NoAddr \notin Addrs
      /\ \A b \in Addrs : b[1] \in Sectors
  BY AddrsFacts DEF Steady, Data
<1>3. \A b \in Addrs' : b \in Addrs /\ b[1] # s
  BY <1>1
<1>4. \A b \in Addrs' :
             /\ Full(b)' <=> Full(b)
             /\ State(b)' = State(b) /\ KeyOf(b)' = KeyOf(b) /\ ValOf(b)' = ValOf(b)
             /\ Holder(b)' <=> Holder(b)
  BY <1>1, <1>3, SameNode
<1>5. \A b \in Addrs : Holder(b) => b \in Addrs'
  <2> SUFFICES ASSUME NEW b \in Addrs, Holder(b), b[1] = s PROVE FALSE
    BY <1>1
  <2>1. b = <<s, b[2]>> /\ b[2] \in 1..Used(s)
    BY AddrsFacts
  <2>2. State(b) = "DELETED"
    BY <2>1
  <2> QED
    BY <2>2 DEF Holder
<1>6. NodesOK(NoAddr, NoAddr)'
  BY <1>2, <1>3, <1>4 DEF NodesOK
<1>7. HoldersOK(E, NoAddr)'
  <2>1. \A b, c \in Addrs' : Holder(b)' /\ Holder(c)' /\ KeyOf(b)' = KeyOf(c)' => b = c
    BY <1>2, <1>3, <1>4 DEF HoldersOK
  <2>2. \A b \in Addrs' : Holder(b)' => E[KeyOf(b)'] = {ValOf(b)'}
    BY <1>2, <1>3, <1>4 DEF HoldersOK
  <2>3. \A c \in Keys : E[c] = {None} \/ \E b \in Addrs' : Holder(b)' /\ KeyOf(b)' = c
    BY <1>2, <1>4, <1>5 DEF HoldersOK
  <2>4. NoAddr \notin Addrs'
    BY <1>2, <1>3
  <2> QED
    BY <2>1, <2>2, <2>3, <2>4 DEF HoldersOK
<1>8. CacheOK(NoAddr, NoAddr)'
  <2> SUFFICES ASSUME NEW c \in Keys, CacheHit(c)'
               PROVE  Holder(db.cache[c])' /\ db.cache[c] # NoAddr
    BY DEF CacheOK
  <2>1. db.cache[c] \in Addrs'
    BY DEF CacheHit
  <2>2. CacheHit(c) /\ db.cache[c] \in Addrs
    BY <1>1, <1>3, <2>1 DEF CacheHit
  <2>3. Holder(db.cache[c]) /\ db.cache[c] # NoAddr
    BY <1>2, <2>2 DEF CacheOK
  <2> QED
    BY <1>4, <2>1, <2>3
<1>9. CleanOK(NoAddr, NoAddr)'
  BY <1>1, <1>2, <1>3, <1>4 DEF CleanOK
<1>10. Shape(0, s)'
  BY <1>1, <1>2, KvdbAssumption, AddrsFacts DEF Shape
<1> QED
  BY <1>6, <1>7, <1>8, <1>9, <1>10 DEF Data

LEMMA FormatStep ==
    ASSUME TypeOK, NEW E, NEW s \in Sectors, Shape(0, s), Data(E, NoAddr, NoAddr, NoAddr, NoAddr),
           flash' = [flash EXCEPT ![s] = Clean], UNCHANGED db
    PROVE  /\ Shape(0, 0)' /\ Data(E, NoAddr, NoAddr, NoAddr, NoAddr)'
<1>1. /\ flash'[s] = Clean
      /\ \A r \in Sectors : r # s => flash'[r] = flash[r] /\ Used(r)' = Used(r)
      /\ Used(s)' = 0
      /\ Addrs' = {a \in Addrs : a[1] # s}
      /\ \A b \in Addrs : b[1] # s => NodeAt(b)' = NodeAt(b)
  BY EmptyWrite
<1>2. \A b \in Addrs : b[1] # s /\ b[1] \in Sectors
  <2> SUFFICES ASSUME NEW b \in Addrs, b[1] = s PROVE FALSE
    BY AddrsFacts
  <2>1. Used(s) = 0
    BY EmptySeq DEF Shape, Used, Erased
  <2>2. b[2] <= Used(s) /\ b[2] > 0 /\ b[2] \in Nat
    BY AddrsFacts, KvdbAssumption
  <2> QED
    BY <2>1, <2>2
<1>3. Addrs' = Addrs /\ \A b \in Addrs : NodeAt(b)' = NodeAt(b)
  BY <1>1, <1>2
<1>4. CleanOK(NoAddr, NoAddr)'
  BY <1>1, <1>2, <1>3, SameNode DEF Data, CleanOK
<1>5. /\ NodesOK(NoAddr, NoAddr)' /\ HoldersOK(E, NoAddr)' /\ CacheOK(NoAddr, NoAddr)'
  <2>1. \A b \in Addrs : /\ Full(b)' <=> Full(b)
                         /\ State(b)' = State(b) /\ KeyOf(b)' = KeyOf(b) /\ ValOf(b)' = ValOf(b)
                         /\ Holder(b)' <=> Holder(b)
    BY <1>3, SameNode
  <2>2. NodesOK(NoAddr, NoAddr)' /\ HoldersOK(E, NoAddr)'
    BY <1>3, <2>1 DEF Data, NodesOK, HoldersOK
  <2>3. \A c \in Keys : CacheHit(c)' => CacheHit(c) /\ db.cache[c] \in Addrs
    BY <1>3 DEF CacheHit
  <2>4. CacheOK(NoAddr, NoAddr)
    BY DEF Data
  <2>5. CacheOK(NoAddr, NoAddr)'
    BY <2>1, <2>3, <2>4 DEF CacheOK
  <2> QED
    BY <2>2, <2>5
<1>6. Shape(0, 0)'
  <2>1. 0 \notin Sectors /\ Clean.ok /\ Clean.store = "EMPTY" /\ Clean.dirty = "FALSE" /\ 0 <= Slots
    BY KvdbAssumption DEF Clean, Sectors
  <2> QED
    BY <1>1, <2>1 DEF Shape, StoreFor
<1> QED
  BY <1>4, <1>5, <1>6 DEF Data

-----------------------------------------------------------------------------
(* Numbers: the least of a set, and how many there are.                    *)
LEMMA LeastNat ==
    ASSUME NEW T, T \subseteq Nat, T # {}
    PROVE  \E x \in T : \A y \in T : x <= y
<1> DEFINE R == OpToRel(<, Nat)
<1>1. IsWellFoundedOn(R, Nat)
  BY NatLessThanWellFounded DEF OpToRel
<1>2. \A x, y \in Nat : <<x, y>> \in R <=> x < y
  BY DEF OpToRel
<1>3. \E x \in T : \A y \in T : ~(<<y, x>> \in R)
  <2> HIDE DEF R
  <2> QED
    BY <1>1, WFMin
<1>4. PICK x \in T : \A y \in T : ~(<<y, x>> \in R)
  BY <1>3
<1>5. \A y \in T : ~(y < x)
  <2> HIDE DEF R
  <2> QED
    BY <1>2, <1>4
<1> QED
  BY <1>5

LEMMA LeastIn ==
    ASSUME NEW S, S \subseteq Nat, S # {}
    PROVE  Least(S) \in S /\ \A r \in S : Least(S) <= r
BY LeastNat DEF Least

LEMMA SectorsFinite ==
    /\ IsFiniteSet(Sectors) /\ Cardinality(Sectors) = NSectors
    /\ \A S : S \subseteq Sectors => IsFiniteSet(S) /\ Cardinality(S) \in Nat
<1>1. IsFiniteSet(Sectors) /\ Cardinality(Sectors) = NSectors
  BY FS_Interval, KvdbAssumption DEF Sectors
<1> QED
  BY <1>1, FS_Subset, FS_CardinalityType

\* More than one is two.
LEMMA TwoOf ==
    ASSUME NEW S, S \subseteq Sectors
    PROVE  Cardinality(S) > 1 <=> \E r, s \in S : r # s
<1>1. IsFiniteSet(S) /\ Cardinality(S) \in Nat
  BY SectorsFinite
<1>2. ASSUME NEW r \in S, NEW s \in S, r # s PROVE Cardinality(S) > 1
  <2>1. IsFiniteSet({r, s}) /\ Cardinality({r, s}) = 2
    <3>1. IsFiniteSet({r}) /\ Cardinality({r}) = 1
      BY FS_Singleton
    <3>2. IsFiniteSet({r} \union {s}) /\ Cardinality({r} \union {s}) = 1 + 1
      BY <1>2, <3>1, FS_AddElement
    <3>3. {r} \union {s} = {r, s}
      OBVIOUS
    <3> QED
      BY <3>2, <3>3
  <2>2. {r, s} \subseteq S
    OBVIOUS
  <2>3. Cardinality({r, s}) <= Cardinality(S)
    BY <1>1, <2>2, FS_Subset
  <2> QED
    BY <1>1, <2>1, <2>3
<1>3. ASSUME Cardinality(S) > 1 PROVE \E r, s \in S : r # s
  <2>1. S # {}
    BY <1>3, FS_EmptySet
  <2>2. PICK r \in S : TRUE
    BY <2>1
  <2>3. S # {r}
    <3>1. Cardinality({r}) = 1
      BY FS_Singleton
    <3> QED
      BY <1>3, <3>1
  <2> QED
    BY <2>2, <2>3
<1> QED
  BY <1>2, <1>3

-----------------------------------------------------------------------------
(* Allocation.                                                             *)
\* No sector is open without a node in it: reading the flash changes nothing.
LEMMA NotTouched ==
    ASSUME TypeOK, Shape(0, 0)
    PROVE  /\ \A S : Touched(flash, S) = flash
           /\ \A s \in Sectors : /\ flash[s].store = "EMPTY" <=> Bare(s)
                                 /\ flash[s].store = "USING" /\ Roomy(flash, s)
                                      <=> ~Bare(s) /\ Used(s) < Slots
                                 /\ flash[s].ok
<1>1. \A s \in Sectors : /\ flash[s].ok /\ flash[s].store = StoreFor(Used(s)) /\ Used(s) \in Nat
                         /\ Used(s) <= Slots
  BY AddrsFacts DEF Shape
<1>2. \A s \in Sectors : ~Opened(flash, s)
  <2>1. Len(<<>>) = 0
    OBVIOUS
  <2> QED
    BY <1>1, <2>1 DEF Opened, StoreFor, Used
<1>3. \A S : Touched(flash, S) = flash
  <2>1. flash = [s \in Sectors |-> flash[s]]
    BY DEF TypeOK
  <2> QED
    BY <1>2, <2>1 DEF Touched
<1>4. ASSUME NEW s \in Sectors
      PROVE  /\ flash[s].store = "EMPTY" <=> Bare(s)
             /\ (flash[s].store = "USING" /\ Roomy(flash, s)) <=> (~Bare(s) /\ Used(s) < Slots)
  BY <1>1, KvdbAssumption DEF StoreFor, Bare, Roomy, Used
<1> QED
  BY <1>1, <1>3, <1>4

\* What a set finds.
LEMMA AllocSet ==
    ASSUME TypeOK, Shape(0, 0), Calm(0), Spare(0), HasRoom
    PROVE  /\ Alloc(FALSE).flash = flash /\ ~Alloc(FALSE).gc /\ Alloc(FALSE).gc \in BOOLEAN
           /\ Alloc(FALSE).sector \in Sectors /\ Target(Alloc(FALSE).sector)
<1> DEFINE all == Touched(flash, Sectors)
           using == {s \in Sectors : /\ all[s].ok /\ all[s].store = "USING"
                                     /\ Roomy(all, s)
                                     /\ \/ all[s].dirty = "FALSE"
                                        \/ all[s].dirty = "TRUE" /\ ~FALSE}
           empty == {s \in Sectors : flash[s].ok /\ flash[s].store = "EMPTY"}
           open == empty # {} /\ (Cardinality(empty) > GcEmptySecThreshold \/ FALSE)
           s1 == IF using # {} THEN Least(using) ELSE IF open THEN Least(empty) ELSE 0
<1>1. \A S : Touched(flash, S) = flash
  BY NotTouched
<1>2. /\ Alloc(FALSE).sector = s1
      /\ Alloc(FALSE).gc = (FALSE \/ (s1 = 0 /\ empty # {}))
      /\ Alloc(FALSE).flash = flash
  <2> DEFINE asks == FALSE \/ (s1 = 0 /\ empty # {})
             read == Touched(flash, IF using # {} THEN 1..s1 ELSE Sectors)
  <2>1. Alloc(FALSE) = [sector |-> s1, gc |-> asks, flash |-> read]
    BY DEF Alloc
  <2>0. read = flash
    BY <1>1
  <2> HIDE DEF s1, using, empty, asks, read
  <2>2. Alloc(FALSE).sector = s1 /\ Alloc(FALSE).gc = asks /\ Alloc(FALSE).flash = flash
    <3> DEFINE R == Alloc(FALSE)
    <3>1. R = [sector |-> s1, gc |-> asks, flash |-> read]
      BY <2>1
    <3> HIDE DEF R
    <3>2. R.sector = s1 /\ R.gc = asks /\ R.flash = flash
      BY <2>0, <3>1
    <3> QED
      BY <3>2 DEF R
  <2> QED
    BY <2>2 DEF asks
<1>3. using = {s \in Sectors : ~Bare(s) /\ Used(s) < Slots}
  <2>1. \A s \in Sectors : flash[s].dirty \in {"FALSE", "TRUE"}
    BY KvdbAssumption DEF Shape, Calm, Sectors
  <2> QED
    BY <1>1, <2>1, NotTouched
<1>4. empty = {s \in Sectors : Bare(s)}
  BY NotTouched
<1> HIDE DEF all, using, empty
<1>5. Sectors \subseteq Nat /\ 0 \notin Sectors
  BY AddrsFacts
<1>6. CASE using # {}
  <2>1. s1 \in using
    BY <1>3, <1>5, <1>6, LeastIn
  <2>2. s1 \in Sectors /\ ~Bare(s1) /\ Used(s1) < Slots /\ s1 # 0
    BY <1>3, <1>5, <2>1
  <2>3. Spare(s1)
    BY <2>2 DEF Spare
  <2> HIDE DEF s1
  <2> QED
    BY <1>2, <2>2, <2>3 DEF Target
<1>7. CASE using = {}
  <2>1. TwoSpare
    BY <1>3, <1>7 DEF HasRoom
  <2>2. Cardinality(empty) > GcEmptySecThreshold
    BY <1>4, <2>1, TwoOf DEF TwoSpare, GcEmptySecThreshold
  <2>3. empty # {}
    BY <1>4, <2>1 DEF TwoSpare
  <2>4. s1 = Least(empty)
    BY <1>7, <2>2, <2>3
  <2>5. s1 \in Sectors /\ Bare(s1) /\ s1 # 0
    BY <1>4, <1>5, <2>3, <2>4, LeastIn
  <2>6. Used(s1) < Slots
    BY <2>5, KvdbAssumption DEF Bare
  <2>7. Spare(s1)
    BY <2>1 DEF TwoSpare, Spare
  <2> HIDE DEF s1
  <2> QED
    BY <1>2, <2>5, <2>6, <2>7 DEF Target
<1> QED
  BY <1>6, <1>7

\* What the garbage collection finds.
LEMMA AllocMove ==
    ASSUME TypeOK, Shape(0, 0), NEW s \in Sectors, NEW i \in 1..Slots, Room(s, i),
           flash[s].dirty = "GC"
    PROVE  /\ Alloc(TRUE).flash = flash /\ Alloc(TRUE).gc
           /\ Alloc(TRUE).sector \in Sectors /\ Alloc(TRUE).sector # 0 /\ Alloc(TRUE).sector # s
           /\ Used(Alloc(TRUE).sector) < Slots
<1> DEFINE all == Touched(flash, Sectors)
           using == {r \in Sectors : /\ all[r].ok /\ all[r].store = "USING"
                                     /\ Roomy(all, r)
                                     /\ \/ all[r].dirty = "FALSE"
                                        \/ all[r].dirty = "TRUE" /\ ~TRUE}
           empty == {r \in Sectors : flash[r].ok /\ flash[r].store = "EMPTY"}
           open == empty # {} /\ (Cardinality(empty) > GcEmptySecThreshold \/ TRUE)
           s1 == IF using # {} THEN Least(using) ELSE IF open THEN Least(empty) ELSE 0
<1>1. \A S : Touched(flash, S) = flash
  BY NotTouched
<1>2. /\ Alloc(TRUE).sector = s1
      /\ Alloc(TRUE).gc = (TRUE \/ (s1 = 0 /\ empty # {}))
      /\ Alloc(TRUE).flash = flash
  <2> DEFINE asks == TRUE \/ (s1 = 0 /\ empty # {})
             read == Touched(flash, IF using # {} THEN 1..s1 ELSE Sectors)
  <2>1. Alloc(TRUE) = [sector |-> s1, gc |-> asks, flash |-> read]
    BY DEF Alloc
  <2>0. read = flash
    BY <1>1
  <2> HIDE DEF s1, using, empty, asks, read
  <2>2. Alloc(TRUE).sector = s1 /\ Alloc(TRUE).gc = asks /\ Alloc(TRUE).flash = flash
    <3> DEFINE R == Alloc(TRUE)
    <3>1. R = [sector |-> s1, gc |-> asks, flash |-> read]
      BY <2>1
    <3> HIDE DEF R
    <3>2. R.sector = s1 /\ R.gc = asks /\ R.flash = flash
      BY <2>0, <3>1
    <3> QED
      BY <3>2 DEF R
  <2> QED
    BY <2>2 DEF asks
<1>3. using = {r \in Sectors : ~Bare(r) /\ Used(r) < Slots /\ flash[r].dirty = "FALSE"}
  BY <1>1, NotTouched
<1>4. empty = {r \in Sectors : Bare(r)}
  BY NotTouched
<1> HIDE DEF all, using, empty
<1>5. Sectors \subseteq Nat /\ 0 \notin Sectors
  BY AddrsFacts
<1>6. \A r \in Sectors : Bare(r) => flash[r].dirty = "FALSE" /\ Used(r) < Slots
  BY <1>5, KvdbAssumption DEF Shape, Bare
<1>7. CASE using # {}
  <2>1. s1 \in using
    BY <1>3, <1>5, <1>7, LeastIn
  <2>2. s1 \in Sectors /\ Used(s1) < Slots /\ s1 # 0 /\ s1 # s
    BY <1>3, <1>5, <2>1
  <2> HIDE DEF s1
  <2> QED
    BY <1>2, <2>2
<1>8. CASE using = {}
  <2>1. empty # {}
    <3>1. PICK e \in Sectors : e # s /\ flash[e].dirty = "FALSE" /\ Used(e) < i
      BY DEF Room
    <3>2. Used(e) < Slots
      BY <3>1, AddrsFacts, KvdbAssumption
    <3>3. Bare(e)
      BY <1>3, <1>8, <3>1, <3>2
    <3> QED
      BY <1>4, <3>3
  <2>2. s1 = Least(empty)
    BY <1>8, <2>1
  <2>3. s1 \in Sectors /\ Bare(s1) /\ s1 # 0
    BY <1>4, <1>5, <2>1, <2>2, LeastIn
  <2>4. Used(s1) < Slots /\ s1 # s
    BY <1>6, <2>3
  <2> HIDE DEF s1
  <2> QED
    BY <1>2, <2>3, <2>4
<1> QED
  BY <1>7, <1>8

(* When every sector is clean a set finds room: a node in a clean sector   *)
(* is the only one of its name, and the names are too few to fill all      *)
(* sectors but one.                                                        *)
LEMMA RoomLeft ==
    ASSUME FewNames, TypeOK, NEW E, Steady(E), CleanBelow(NSectors + 1)
    PROVE  HasRoom
<1> SUFFICES ASSUME ~HasRoom PROVE FALSE
  OBVIOUS
<1>1. /\ NodesOK(NoAddr, NoAddr) /\ HoldersOK(E, NoAddr) /\ CleanOK(NoAddr, NoAddr)
      /\ NoAddr \notin Addrs /\ Shape(0, 0)
  BY AddrsFacts DEF Steady, Data
<1>2. NSectors \in Nat /\ NSectors > 1 /\ Slots \in Nat /\ Sectors = 1..NSectors
  BY KvdbAssumption DEF Sectors, GcEmptySecThreshold
<1>3. \A a \in Addrs : Holder(a) /\ KeyOf(a) \in Keys
  <2> SUFFICES ASSUME NEW a \in Addrs PROVE Holder(a) /\ KeyOf(a) \in Keys
    OBVIOUS
  <2>1. flash[a[1]].dirty = "FALSE"
    <3>1. a[1] \in Sectors
      BY AddrsFacts
    <3>2. a[1] < NSectors + 1
      BY <1>2, <3>1
    <3> QED
      BY <3>1, <3>2 DEF CleanBelow
  <2>2. State(a) = "WRITE" /\ Full(a)
    BY <1>1, <2>1 DEF CleanOK, NodesOK
  <2> QED
    BY <2>2, AddrsFacts DEF Holder, KeyOf, Node
<1>4. PICK e \in Sectors : \A s \in Sectors \ {e} : ~Bare(s)
  <2>1. CASE \E e \in Sectors : Bare(e)
    BY <2>1 DEF HasRoom, TwoSpare
  <2>2. CASE ~\E e \in Sectors : Bare(e)
    <3>1. 1 \in Sectors
      BY <1>2
    <3> QED
      BY <2>2, <3>1
  <2> QED
    BY <2>1, <2>2
<1>5. \A s \in Sectors \ {e} : Used(s) = Slots
  BY <1>1, <1>2, <1>4, AddrsFacts DEF HasRoom, Shape
<1> DEFINE S == Sectors \ {e}
           P == S \X (1..Slots)
           f == [a \in P |-> KeyOf(a)]
<1>6. ASSUME NEW a \in P PROVE a \in Addrs
  <2>1. a = <<a[1], a[2]>> /\ a[1] \in Sectors \ {e} /\ a[2] \in 1..Slots
    OBVIOUS
  <2>2. a[2] <= Used(a[1])
    BY <1>2, <1>5, <2>1
  <2>3. <<a[1], a[2]>> \in Addrs
    BY <2>1, <2>2, AddrsFacts
  <2> QED
    BY <2>1, <2>3
<1>7. IsFiniteSet(P) /\ Cardinality(P) = (NSectors - 1) * Slots
  <2>1. IsFiniteSet(S) /\ Cardinality(S) = NSectors - 1
    BY SectorsFinite, FS_RemoveElement
  <2>2. IsFiniteSet(1..Slots) /\ Cardinality(1..Slots) = Slots
    <3>1. 1 \in Int /\ Slots \in Int /\ ~(1 > Slots) /\ Slots - 1 + 1 = Slots
      BY KvdbAssumption
    <3> QED
      BY <3>1, FS_Interval
  <2> HIDE DEF S
  <2>3. IsFiniteSet(P) /\ Cardinality(P) = Cardinality(S) * Cardinality(1..Slots)
    BY <2>1, <2>2, FS_Product
  <2> QED
    BY <2>1, <2>2, <2>3
<1>8. f \in Injection(P, Keys)
  <2> HIDE DEF P
  <2>1. f \in [P -> Keys]
    BY <1>3, <1>6
  <2>2. \A a, b \in P : f[a] = f[b] => a = b
    <3> SUFFICES ASSUME NEW a \in P, NEW b \in P, KeyOf(a) = KeyOf(b) PROVE a = b
      OBVIOUS
    <3>1. a \in Addrs \ {NoAddr} /\ b \in Addrs \ {NoAddr} /\ Holder(a) /\ Holder(b)
      BY <1>1, <1>3, <1>6
    <3> QED
      BY <1>1, <3>1 DEF HoldersOK
  <2> HIDE DEF f
  <2> QED
    BY <2>1, <2>2 DEF Injection, IsInjective
<1>9. Cardinality(P) <= Cardinality(Keys)
  <2> HIDE DEF f, P
  <2> QED
    BY <1>8, FS_Injection DEF FewNames
<1>10. Cardinality(Keys) \in Nat /\ Cardinality(P) \in Nat
  <2> HIDE DEF P
  <2> QED
    BY <1>7, FS_CardinalityType DEF FewNames
<1>11. Cardinality(Keys) < Cardinality(P)
  <2> HIDE DEF P
  <2> QED
    BY <1>7 DEF FewNames
<1> HIDE DEF P
<1> QED
  BY <1>9, <1>10, <1>11

-----------------------------------------------------------------------------
(* Which form it is can be told from the task on top.                      *)
LEMMA SetTails ==
    ASSUME TypeOK, NEW a \in Olds, NEW d \in Sectors
    PROVE  /\ a = <<a[1], a[2]>> /\ a[1] \in Nat /\ a[2] \in Nat
           /\ Replacing(a, AfterSet) \in Stack /\ MakeFor(a, d) \in Stack
<1>1. a = <<a[1], a[2]>> /\ a[1] \in Nat /\ a[2] \in Nat
  BY AddrsFacts DEF NoAddr, Olds
<1>2. Replacing(a, AfterSet) \in Stack
  BY <1>1, SetStacks, NodeStacks
<1>3. MakeFor(a, d) \in Stack
  <2>1. d \in Nat
    BY AddrsFacts
  <2> QED
    BY <1>2, <2>1, MakeStacks DEF MakeFor, NoAddr
<1> QED
  BY <1>1, <1>2, <1>3

LEMMA MoveTails ==
    ASSUME TypeOK, NEW s \in Sectors, NEW i \in 1..Slots
    PROVE  /\ s \in Nat /\ i \in Nat /\ i + 1 \in Nat
           /\ InSector(s, i + 1) \in Stack
           /\ Push(Task("move", s, i, 0), InSector(s, i + 1)) \in Stack
           /\ Push(Task("move", s, i, 0), InSector(s, i + 1)) # <<>>
           /\ Push(Task("move", s, i, 0), InSector(s, i + 1))[1] = Task("move", s, i, 0)
           /\ Tail(Push(Task("move", s, i, 0), InSector(s, i + 1))) = InSector(s, i + 1)
           /\ AfterMove(s, i) \in Stack
<1>1. s \in Nat /\ i \in Nat /\ i + 1 \in Nat
  BY AddrsFacts, KvdbAssumption
<1>2. Task("move", s, i, 0) \in Tasks
  BY <1>1 DEF Task, Tasks, Tags
<1>3. InSector(s, i + 1) \in Stack
  BY <1>1, SectorGcStacks
<1> QED
  BY <1>1, <1>2, <1>3, PushFacts, NodeStacks DEF AfterMove

LEMMA Tops ==
    ASSUME TypeOK
    PROVE  /\ IsNew => Doing("new_kv")
           /\ IsFind => Doing("find_kv")
           /\ IsAfterSet => Doing("gc_after")
           /\ IsDone => Doing("return")
           /\ IsSetMark => Doing("pre_delete")
           /\ IsMoveMark => Doing("pre_delete")
           /\ IsSetMarked => Doing("dirty")
           /\ IsMoveMarked => Doing("dirty")
           /\ IsSetDeleted => Doing("dirty")
           /\ IsDelDeleted => Doing("dirty")
           /\ IsMoveDeleted => Doing("dirty")
           /\ IsSetMake => Doing("sec_status")
           /\ IsSetPre => Doing("pre_write")
           /\ IsSetHeader => Doing("header")
           /\ IsSetBody => Doing("body")
           /\ IsSetCommit => Doing("commit")
           /\ IsMoveMake => Doing("sec_status")
           /\ IsMovePre => Doing("pre_write")
           /\ IsMoveHeader => Doing("header")
           /\ IsMoveBody => Doing("body")
           /\ IsMoveCommit => Doing("commit")
           /\ IsSetDelete => Doing("delete")
           /\ IsDelDelete => Doing("delete")
           /\ IsMoveDelete => Doing("delete")
           /\ IsCollect => Doing("gc_collect")
           /\ IsWalk => (Doing("gc_sector") \/ Doing("gc_end"))
           /\ IsGcKv => Doing("gc_kv")
           /\ IsMove => Doing("move")
           /\ IsErase => Doing("erase")
           /\ IsHdrErase => Doing("erase")
           /\ IsFormat => Doing("format")
           /\ IsHdrFormat => Doing("format")
           /\ IsDefault => (Doing("erase") \/ Doing("format"))
           /\ IsBootFormat => (Doing("erase") \/ Doing("format"))
           /\ IsFormatted => Doing("formatted")
           /\ IsHdr => (Doing("check_hdr") \/ Doing("check_all"))
           /\ IsCheckGc => Doing("check_gc")
           /\ IsCheckKv => Doing("check_kv")
           /\ IsChecked => Doing("checked")
<1>0. NSectors \in Nat /\ Slots \in Nat /\ \A s \in Sectors : s \in Nat
  BY AddrsFacts, KvdbAssumption
<1>2. \A a \in Olds, d \in Sectors :
         /\ a = <<a[1], a[2]>> /\ a[1] \in Nat /\ a[2] \in Nat
         /\ Replacing(a, AfterSet) \in Stack /\ MakeFor(a, d) \in Stack
  BY SetTails
<1>3. \A s \in Sectors, i \in 1..Slots :
         /\ s \in Nat /\ i \in Nat /\ i + 1 \in Nat
         /\ InSector(s, i + 1) \in Stack
         /\ Push(Task("move", s, i, 0), InSector(s, i + 1)) \in Stack
         /\ Push(Task("move", s, i, 0), InSector(s, i + 1)) # <<>>
         /\ Push(Task("move", s, i, 0), InSector(s, i + 1))[1] = Task("move", s, i, 0)
         /\ AfterMove(s, i) \in Stack
  BY MoveTails
<1>4. ASSUME IsNew PROVE Doing("new_kv")
  <2>1. todo = <<Task("new_kv", 0, 0, 0)>>
    BY <1>4 DEF IsNew
  <2> QED
    BY <2>1, <1>0 DEF Doing, Top, Task
<1>5. ASSUME IsFind PROVE Doing("find_kv")
  <2>1. todo = <<Task("find_kv", 0, 0, 0)>>
    BY <1>5 DEF IsFind
  <2> QED
    BY <2>1, <1>0 DEF Doing, Top, Task
<1>6. ASSUME IsAfterSet PROVE Doing("gc_after")
  <2>1. todo = AfterSet
    BY <1>6 DEF IsAfterSet
  <2> QED
    BY <2>1, SetStacks DEF Doing, Top, Task
<1>7. ASSUME IsDone PROVE Doing("return")
  <2>1. todo = Done
    BY <1>7 DEF IsDone
  <2> QED
    BY <2>1, SetStacks DEF Doing, Top, Task
<1>8. ASSUME IsSetMark PROVE Doing("pre_delete")
  <2>1. PICK a \in Addrs, d \in Sectors : todo = ToMark(a, MakeFor(a, d))
    BY <1>8 DEF IsSetMark
  <2>2. /\ a = <<a[1], a[2]>> /\ a[1] \in Nat /\ a[2] \in Nat
        /\ MakeFor(a, d) \in Stack
    BY <1>2, SetStacks, AddrsFacts DEF Olds
  <2>3. ToMark(<<a[1], a[2]>>, MakeFor(a, d)) # <<>> /\ ToMark(<<a[1], a[2]>>, MakeFor(a, d))[1] = Task("pre_delete", a[1], a[2], 0)
    BY <2>2, NodeStacks
  <2> QED
    BY <2>1, <2>2, <2>3 DEF Doing, Top, Task
<1>9. ASSUME IsMoveMark PROVE Doing("pre_delete")
  <2>1. PICK s \in Sectors, i \in 1..Slots : todo = ToMark(<<s, i>>, Push(Task("move", s, i, 0), InSector(s, i + 1)))
    BY <1>9 DEF IsMoveMark
  <2>2. s \in Nat /\ i \in Nat /\ Push(Task("move", s, i, 0), InSector(s, i + 1)) \in Stack
    BY <1>3
  <2>3. ToMark(<<s, i>>, Push(Task("move", s, i, 0), InSector(s, i + 1))) # <<>> /\ ToMark(<<s, i>>, Push(Task("move", s, i, 0), InSector(s, i + 1)))[1] = Task("pre_delete", s, i, 0)
    BY <2>2, NodeStacks
  <2> QED
    BY <2>1, <2>3 DEF Doing, Top, Task
<1>10. ASSUME IsSetMarked PROVE Doing("dirty")
  <2>1. PICK a \in Addrs, d \in Sectors : todo = ToDirty(a, MakeFor(a, d))
    BY <1>10 DEF IsSetMarked
  <2>2. /\ a = <<a[1], a[2]>> /\ a[1] \in Nat /\ a[2] \in Nat
        /\ MakeFor(a, d) \in Stack
    BY <1>2, SetStacks, AddrsFacts DEF Olds
  <2>3. ToDirty(<<a[1], a[2]>>, MakeFor(a, d)) # <<>> /\ ToDirty(<<a[1], a[2]>>, MakeFor(a, d))[1] = Task("dirty", a[1], 0, 0)
    BY <2>2, NodeStacks
  <2> QED
    BY <2>1, <2>2, <2>3 DEF Doing, Top, Task
<1>11. ASSUME IsMoveMarked PROVE Doing("dirty")
  <2>1. PICK s \in Sectors, i \in 1..Slots : todo = ToDirty(<<s, i>>, Push(Task("move", s, i, 0), InSector(s, i + 1)))
    BY <1>11 DEF IsMoveMarked
  <2>2. s \in Nat /\ i \in Nat /\ Push(Task("move", s, i, 0), InSector(s, i + 1)) \in Stack
    BY <1>3
  <2>3. ToDirty(<<s, i>>, Push(Task("move", s, i, 0), InSector(s, i + 1))) # <<>> /\ ToDirty(<<s, i>>, Push(Task("move", s, i, 0), InSector(s, i + 1)))[1] = Task("dirty", s, 0, 0)
    BY <2>2, NodeStacks
  <2> QED
    BY <2>1, <2>3 DEF Doing, Top, Task
<1>12. ASSUME IsSetDeleted PROVE Doing("dirty")
  <2>1. PICK a \in Addrs : todo = ToDirty(a, AfterSet)
    BY <1>12 DEF IsSetDeleted
  <2>2. /\ a = <<a[1], a[2]>> /\ a[1] \in Nat /\ a[2] \in Nat
        /\ AfterSet \in Stack
    BY <1>2, SetStacks, AddrsFacts DEF Olds
  <2>3. ToDirty(<<a[1], a[2]>>, AfterSet) # <<>> /\ ToDirty(<<a[1], a[2]>>, AfterSet)[1] = Task("dirty", a[1], 0, 0)
    BY <2>2, NodeStacks
  <2> QED
    BY <2>1, <2>2, <2>3 DEF Doing, Top, Task
<1>13. ASSUME IsDelDeleted PROVE Doing("dirty")
  <2>1. PICK a \in Addrs : todo = ToDirty(a, Done)
    BY <1>13 DEF IsDelDeleted
  <2>2. /\ a = <<a[1], a[2]>> /\ a[1] \in Nat /\ a[2] \in Nat
        /\ Done \in Stack
    BY <1>2, SetStacks, AddrsFacts DEF Olds
  <2>3. ToDirty(<<a[1], a[2]>>, Done) # <<>> /\ ToDirty(<<a[1], a[2]>>, Done)[1] = Task("dirty", a[1], 0, 0)
    BY <2>2, NodeStacks
  <2> QED
    BY <2>1, <2>2, <2>3 DEF Doing, Top, Task
<1>14. ASSUME IsMoveDeleted PROVE Doing("dirty")
  <2>1. PICK s \in Sectors, i \in 1..Slots : todo = ToDirty(<<s, i>>, InSector(s, i + 1))
    BY <1>14 DEF IsMoveDeleted
  <2>2. s \in Nat /\ i \in Nat /\ InSector(s, i + 1) \in Stack
    BY <1>3
  <2>3. ToDirty(<<s, i>>, InSector(s, i + 1)) # <<>> /\ ToDirty(<<s, i>>, InSector(s, i + 1))[1] = Task("dirty", s, 0, 0)
    BY <2>2, NodeStacks
  <2> QED
    BY <2>1, <2>3 DEF Doing, Top, Task
<1>15. ASSUME IsSetMake PROVE Doing("sec_status")
  <2>1. PICK a \in Olds, d \in Sectors : todo = ToMake(d, NoAddr, Replacing(a, AfterSet))
    BY <1>15 DEF IsSetMake
  <2>2. d \in Nat /\ 0 \in Nat /\ Replacing(a, AfterSet) \in Stack
    BY <1>0, <1>2
  <2>3. ToMake(d, <<0, 0>>, Replacing(a, AfterSet)) # <<>> /\ ToMake(d, <<0, 0>>, Replacing(a, AfterSet))[1] = Task("sec_status", 0, 0, d)
    BY <2>2, MakeStacks
  <2> QED
    BY <2>1, <2>3 DEF Doing, Top, Task, NoAddr
<1>16. ASSUME IsSetPre PROVE Doing("pre_write")
  <2>1. PICK a \in Olds, d \in Sectors : todo = ToWrite(d, NoAddr, Replacing(a, AfterSet))
    BY <1>16 DEF IsSetPre
  <2>2. d \in Nat /\ 0 \in Nat /\ Replacing(a, AfterSet) \in Stack
    BY <1>0, <1>2
  <2>3. ToWrite(d, <<0, 0>>, Replacing(a, AfterSet)) # <<>> /\ ToWrite(d, <<0, 0>>, Replacing(a, AfterSet))[1] = Task("pre_write", 0, 0, d)
    BY <2>2, MakeStacks
  <2> QED
    BY <2>1, <2>3 DEF Doing, Top, Task, NoAddr
<1>17. ASSUME IsSetHeader PROVE Doing("header")
  <2>1. PICK a \in Olds, d \in Sectors : todo = ToHeader(d, NoAddr, Replacing(a, AfterSet))
    BY <1>17 DEF IsSetHeader
  <2>2. d \in Nat /\ 0 \in Nat /\ Replacing(a, AfterSet) \in Stack
    BY <1>0, <1>2
  <2>3. ToHeader(d, <<0, 0>>, Replacing(a, AfterSet)) # <<>> /\ ToHeader(d, <<0, 0>>, Replacing(a, AfterSet))[1] = Task("header", 0, 0, d)
    BY <2>2, MakeStacks
  <2> QED
    BY <2>1, <2>3 DEF Doing, Top, Task, NoAddr
<1>18. ASSUME IsSetBody PROVE Doing("body")
  <2>1. PICK a \in Olds, d \in Sectors : todo = ToBody(d, NoAddr, Replacing(a, AfterSet))
    BY <1>18 DEF IsSetBody
  <2>2. d \in Nat /\ 0 \in Nat /\ Replacing(a, AfterSet) \in Stack
    BY <1>0, <1>2
  <2>3. ToBody(d, <<0, 0>>, Replacing(a, AfterSet)) # <<>> /\ ToBody(d, <<0, 0>>, Replacing(a, AfterSet))[1] = Task("body", 0, 0, d)
    BY <2>2, MakeStacks
  <2> QED
    BY <2>1, <2>3 DEF Doing, Top, Task, NoAddr
<1>19. ASSUME IsSetCommit PROVE Doing("commit")
  <2>1. PICK a \in Olds, d \in Sectors : todo = ToCommit(d, NoAddr, Replacing(a, AfterSet))
    BY <1>19 DEF IsSetCommit
  <2>2. d \in Nat /\ 0 \in Nat /\ Replacing(a, AfterSet) \in Stack
    BY <1>0, <1>2
  <2>3. ToCommit(d, <<0, 0>>, Replacing(a, AfterSet)) # <<>> /\ ToCommit(d, <<0, 0>>, Replacing(a, AfterSet))[1] = Task("commit", 0, 0, d)
    BY <2>2, MakeStacks
  <2> QED
    BY <2>1, <2>3 DEF Doing, Top, Task, NoAddr
<1>20. ASSUME IsMoveMake PROVE Doing("sec_status")
  <2>1. PICK s \in Sectors, i \in 1..Slots, d \in Sectors : todo = ToMake(d, <<s, i>>, AfterMove(s, i))
    BY <1>20 DEF IsMoveMake
  <2>2. d \in Nat /\ s \in Nat /\ i \in Nat /\ AfterMove(s, i) \in Stack
    BY <1>0, <1>3
  <2>3. ToMake(d, <<s, i>>, AfterMove(s, i)) # <<>> /\ ToMake(d, <<s, i>>, AfterMove(s, i))[1] = Task("sec_status", s, i, d)
    BY <2>2, MakeStacks
  <2> QED
    BY <2>1, <2>3 DEF Doing, Top, Task
<1>21. ASSUME IsMovePre PROVE Doing("pre_write")
  <2>1. PICK s \in Sectors, i \in 1..Slots, d \in Sectors : todo = ToWrite(d, <<s, i>>, AfterMove(s, i))
    BY <1>21 DEF IsMovePre
  <2>2. d \in Nat /\ s \in Nat /\ i \in Nat /\ AfterMove(s, i) \in Stack
    BY <1>0, <1>3
  <2>3. ToWrite(d, <<s, i>>, AfterMove(s, i)) # <<>> /\ ToWrite(d, <<s, i>>, AfterMove(s, i))[1] = Task("pre_write", s, i, d)
    BY <2>2, MakeStacks
  <2> QED
    BY <2>1, <2>3 DEF Doing, Top, Task
<1>22. ASSUME IsMoveHeader PROVE Doing("header")
  <2>1. PICK s \in Sectors, i \in 1..Slots, d \in Sectors : todo = ToHeader(d, <<s, i>>, AfterMove(s, i))
    BY <1>22 DEF IsMoveHeader
  <2>2. d \in Nat /\ s \in Nat /\ i \in Nat /\ AfterMove(s, i) \in Stack
    BY <1>0, <1>3
  <2>3. ToHeader(d, <<s, i>>, AfterMove(s, i)) # <<>> /\ ToHeader(d, <<s, i>>, AfterMove(s, i))[1] = Task("header", 0, 0, d)
    BY <2>2, MakeStacks
  <2> QED
    BY <2>1, <2>3 DEF Doing, Top, Task
<1>23. ASSUME IsMoveBody PROVE Doing("body")
  <2>1. PICK s \in Sectors, i \in 1..Slots, d \in Sectors : todo = ToBody(d, <<s, i>>, AfterMove(s, i))
    BY <1>23 DEF IsMoveBody
  <2>2. d \in Nat /\ s \in Nat /\ i \in Nat /\ AfterMove(s, i) \in Stack
    BY <1>0, <1>3
  <2>3. ToBody(d, <<s, i>>, AfterMove(s, i)) # <<>> /\ ToBody(d, <<s, i>>, AfterMove(s, i))[1] = Task("body", 0, 0, d)
    BY <2>2, MakeStacks
  <2> QED
    BY <2>1, <2>3 DEF Doing, Top, Task
<1>24. ASSUME IsMoveCommit PROVE Doing("commit")
  <2>1. PICK s \in Sectors, i \in 1..Slots, d \in Sectors : todo = ToCommit(d, <<s, i>>, AfterMove(s, i))
    BY <1>24 DEF IsMoveCommit
  <2>2. d \in Nat /\ s \in Nat /\ i \in Nat /\ AfterMove(s, i) \in Stack
    BY <1>0, <1>3
  <2>3. ToCommit(d, <<s, i>>, AfterMove(s, i)) # <<>> /\ ToCommit(d, <<s, i>>, AfterMove(s, i))[1] = Task("commit", s, i, d)
    BY <2>2, MakeStacks
  <2> QED
    BY <2>1, <2>3 DEF Doing, Top, Task
<1>25. ASSUME IsSetDelete PROVE Doing("delete")
  <2>1. PICK a \in Addrs : todo = ToDelete(a, AfterSet)
    BY <1>25 DEF IsSetDelete
  <2>2. /\ a = <<a[1], a[2]>> /\ a[1] \in Nat /\ a[2] \in Nat
        /\ AfterSet \in Stack
    BY <1>2, SetStacks, AddrsFacts DEF Olds
  <2>3. ToDelete(<<a[1], a[2]>>, AfterSet) # <<>> /\ ToDelete(<<a[1], a[2]>>, AfterSet)[1] = Task("delete", a[1], a[2], 0)
    BY <2>2, NodeStacks
  <2> QED
    BY <2>1, <2>2, <2>3 DEF Doing, Top, Task
<1>26. ASSUME IsDelDelete PROVE Doing("delete")
  <2>1. PICK a \in Addrs : todo = ToDelete(a, Done)
    BY <1>26 DEF IsDelDelete
  <2>2. /\ a = <<a[1], a[2]>> /\ a[1] \in Nat /\ a[2] \in Nat
        /\ Done \in Stack
    BY <1>2, SetStacks, AddrsFacts DEF Olds
  <2>3. ToDelete(<<a[1], a[2]>>, Done) # <<>> /\ ToDelete(<<a[1], a[2]>>, Done)[1] = Task("delete", a[1], a[2], 0)
    BY <2>2, NodeStacks
  <2> QED
    BY <2>1, <2>2, <2>3 DEF Doing, Top, Task
<1>27. ASSUME IsMoveDelete PROVE Doing("delete")
  <2>1. PICK s \in Sectors, i \in 1..Slots : todo = AfterMove(s, i)
    BY <1>27 DEF IsMoveDelete
  <2>2. s \in Nat /\ i \in Nat /\ InSector(s, i + 1) \in Stack
    BY <1>3
  <2>3. ToDelete(<<s, i>>, InSector(s, i + 1)) # <<>> /\ ToDelete(<<s, i>>, InSector(s, i + 1))[1] = Task("delete", s, i, 0)
    BY <2>2, NodeStacks
  <2> QED
    BY <2>1, <2>3 DEF Doing, Top, Task, AfterMove
<1>28. ASSUME IsCollect PROVE Doing("gc_collect")
  <2>1. todo = Push(Task("gc_collect", 0, 0, 0), Done)
    BY <1>28 DEF IsCollect
  <2>2. Task("gc_collect", 0, 0, 0) \in Tasks
    BY DEF Task, Tasks, Tags
  <2> QED
    BY <2>1, <2>2, SetStacks, PushFacts DEF Doing, Top, Task
<1>29. ASSUME IsWalk PROVE (Doing("gc_sector") \/ Doing("gc_end"))
  <2>1. PICK s \in 1..(NSectors + 1) : todo = GcFrom(s)
    BY <1>29 DEF IsWalk
  <2>2. s \in Sectors \/ s = NSectors + 1
    BY <1>0 DEF Sectors
  <2>3. /\ GcFrom(s) # <<>>
        /\ GcFrom(s)[1] = Task("gc_sector", s, 0, 0) \/ GcFrom(s)[1] = Task("gc_end", 0, 0, 0)
    BY <2>2, GcStacks
  <2> QED
    BY <2>1, <2>3 DEF Doing, Top, Task
<1>30. ASSUME IsGcKv PROVE Doing("gc_kv")
  <2>1. PICK s \in Sectors, i \in 1..(Slots + 1) : todo = InSector(s, i)
    BY <1>30 DEF IsGcKv
  <2>2. i \in Nat
    BY <1>0
  <2>3. InSector(s, i) # <<>> /\ InSector(s, i)[1] = Task("gc_kv", s, i, 0)
    BY <2>2, SectorGcStacks
  <2> QED
    BY <2>1, <2>3 DEF Doing, Top, Task
<1>31. ASSUME IsMove PROVE Doing("move")
  <2>1. PICK s \in Sectors, i \in 1..Slots : todo = Push(Task("move", s, i, 0), InSector(s, i + 1))
    BY <1>31 DEF IsMove
  <2> QED
    BY <2>1, <1>3 DEF Doing, Top, Task
<1>32. \A s \in Sectors : GcFrom(s + 1) \in Stack /\ BootFrom(s + 1) \in Stack /\ s \in Nat
  <2>1. \A s \in Sectors : /\ (s + 1 \in Sectors \/ s + 1 = NSectors + 1)
                           /\ s + 1 \in 1..(2 * NSectors + 1)
    BY <1>0 DEF Sectors
  <2> QED
    BY <1>0, <2>1, GcStacks, BootStacks
<1>33. ASSUME IsErase PROVE Doing("erase")
  <2>1. PICK s \in Sectors : todo = ToErase(s, GcFrom(s + 1))
    BY <1>33 DEF IsErase
  <2>2. s \in Nat /\ GcFrom(s + 1) \in Stack
    BY <1>32
  <2>3. ToErase(s, GcFrom(s + 1)) # <<>> /\ ToErase(s, GcFrom(s + 1))[1] = Task("erase", s, 0, 0)
    BY <2>2, SectorStacks
  <2> QED
    BY <2>1, <2>3 DEF Doing, Top, Task
<1>34. ASSUME IsHdrErase PROVE Doing("erase")
  <2>1. PICK s \in Sectors : todo = ToErase(s, BootFrom(s + 1))
    BY <1>34 DEF IsHdrErase
  <2>2. s \in Nat /\ BootFrom(s + 1) \in Stack
    BY <1>32
  <2>3. ToErase(s, BootFrom(s + 1)) # <<>> /\ ToErase(s, BootFrom(s + 1))[1] = Task("erase", s, 0, 0)
    BY <2>2, SectorStacks
  <2> QED
    BY <2>1, <2>3 DEF Doing, Top, Task
<1>35. ASSUME IsFormat PROVE Doing("format")
  <2>1. PICK s \in Sectors : todo = ToFormat(s, GcFrom(s + 1))
    BY <1>35 DEF IsFormat
  <2>2. s \in Nat /\ GcFrom(s + 1) \in Stack
    BY <1>32
  <2>3. ToFormat(s, GcFrom(s + 1)) # <<>> /\ ToFormat(s, GcFrom(s + 1))[1] = Task("format", s, 0, 0)
    BY <2>2, SectorStacks
  <2> QED
    BY <2>1, <2>3 DEF Doing, Top, Task
<1>36. ASSUME IsHdrFormat PROVE Doing("format")
  <2>1. PICK s \in Sectors : todo = ToFormat(s, BootFrom(s + 1))
    BY <1>36 DEF IsHdrFormat
  <2>2. s \in Nat /\ BootFrom(s + 1) \in Stack
    BY <1>32
  <2>3. ToFormat(s, BootFrom(s + 1)) # <<>> /\ ToFormat(s, BootFrom(s + 1))[1] = Task("format", s, 0, 0)
    BY <2>2, SectorStacks
  <2> QED
    BY <2>1, <2>3 DEF Doing, Top, Task
<1>37. ASSUME IsDefault PROVE (Doing("erase") \/ Doing("format"))
  <2>1. PICK m \in 1..(2 * NSectors) : todo = FormatFrom(m, ToFormatted)
    BY <1>37 DEF IsDefault
  <2>2. ToFormatted \in Stack
    BY CheckStacks
  <2>3. FormatAll[m].t \in {"erase", "format"}
    <3>1. PICK s \in Sectors : FormatAll[m] = Task("erase", s, 0, 0) \/ FormatAll[m] = Task("format", s, 0, 0)
      BY FormatParts
    <3> QED
      BY <3>1 DEF Task
  <2>4. FormatFrom(m, ToFormatted) # <<>> /\ FormatFrom(m, ToFormatted)[1] = FormatAll[m]
    BY <2>2, FormatStacks
  <2> QED
    BY <2>1, <2>3, <2>4 DEF Doing, Top, Task
<1>38. ASSUME IsBootFormat PROVE (Doing("erase") \/ Doing("format"))
  <2>1. PICK m \in 1..(2 * NSectors) : todo = FormatFrom(m, BootFrom(NSectors + 2))
    BY <1>38 DEF IsBootFormat
  <2>2. BootFrom(NSectors + 2) \in Stack
    <3>1. NSectors + 2 \in 1..(2 * NSectors + 1)
      BY KvdbAssumption DEF GcEmptySecThreshold
    <3> QED
      BY <3>1, BootStacks
  <2>3. FormatAll[m].t \in {"erase", "format"}
    <3>1. PICK s \in Sectors : FormatAll[m] = Task("erase", s, 0, 0) \/ FormatAll[m] = Task("format", s, 0, 0)
      BY FormatParts
    <3> QED
      BY <3>1 DEF Task
  <2>4. FormatFrom(m, BootFrom(NSectors + 2)) # <<>> /\ FormatFrom(m, BootFrom(NSectors + 2))[1] = FormatAll[m]
    BY <2>2, FormatStacks
  <2> QED
    BY <2>1, <2>3, <2>4 DEF Doing, Top, Task
<1>39. ASSUME IsFormatted PROVE Doing("formatted")
  <2>1. todo = ToFormatted
    BY <1>39 DEF IsFormatted
  <2> QED
    BY <2>1, CheckStacks DEF Doing, Top, Task
<1>40. ASSUME IsHdr PROVE (Doing("check_hdr") \/ Doing("check_all"))
  <2>1. PICK m \in 1..(NSectors + 1) : todo = BootFrom(m)
    BY <1>40 DEF IsHdr
  <2>2. m \in 1..(2 * NSectors + 1) /\ (m <= NSectors \/ m = NSectors + 1)
    BY <1>0, KvdbAssumption DEF GcEmptySecThreshold
  <2>3. /\ BootFrom(m) # <<>>
        /\ BootFrom(m)[1] = Task("check_hdr", m, 0, 0) \/ BootFrom(m)[1] = Task("check_all", 0, 0, 0)
    BY <2>2, BootStacks
  <2> QED
    BY <2>1, <2>3 DEF Doing, Top, Task
<1>41. ASSUME IsCheckGc PROVE Doing("check_gc")
  <2>1. PICK s \in Sectors : todo = BootFrom(NSectors + 1 + s)
    BY <1>41 DEF IsCheckGc
  <2>2. /\ NSectors + 1 + s \in 1..(2 * NSectors + 1)
        /\ ~(NSectors + 1 + s <= NSectors) /\ NSectors + 1 + s # NSectors + 1
    BY <1>0 DEF Sectors
  <2>3. LET m == NSectors + 1 + s
        IN  BootFrom(m) # <<>> /\ BootFrom(m)[1] = Task("check_gc", m - NSectors - 1, 0, 0)
    BY <2>2, BootStacks
  <2> QED
    BY <2>1, <2>3 DEF Doing, Top, Task
<1>42. ASSUME IsCheckKv PROVE Doing("check_kv")
  <2>1. PICK s \in 1..(NSectors + 1) : todo = Checking(s)
    BY <1>42 DEF IsCheckKv
  <2>2. s \in Nat
    BY <1>0
  <2>3. Checking(s) # <<>> /\ Checking(s)[1] = Task("check_kv", s, 1, 0)
    BY <2>2, CheckStacks
  <2> QED
    BY <2>1, <2>3 DEF Doing, Top, Task
<1>43. ASSUME IsChecked PROVE Doing("checked")
  <2>1. todo = ToFinish
    BY <1>43 DEF IsChecked
  <2> QED
    BY <2>1, CheckStacks DEF Doing, Top, Task
<1> QED
  BY <1>4, <1>5, <1>6, <1>7, <1>8, <1>9, <1>10, <1>11, <1>12, <1>13, <1>14, <1>15, <1>16,
     <1>17, <1>18, <1>19, <1>20, <1>21, <1>22, <1>23, <1>24, <1>25, <1>26, <1>27, <1>28,
     <1>29, <1>30, <1>31, <1>33, <1>34, <1>35, <1>36, <1>37, <1>38, <1>39, <1>40, <1>41,
     <1>42, <1>43

LEMMA OneTop ==
    ASSUME NEW t, Doing(t)
    PROVE  todo # <<>> /\ \A u : u # t => ~Doing(u)
BY DEF Doing

(* What holds before a step is known from its task.                        *)
LEMMA Places ==
    ASSUME TypeOK, Forms
    PROVE  /\ Doing("new_kv") => Up /\ IsNew
           /\ Doing("find_kv") => Up /\ IsFind
           /\ Doing("gc_after") => Up /\ IsAfterSet
           /\ Doing("return") => Up /\ IsDone
           /\ Doing("formatted") => Up /\ IsFormatted
           /\ Doing("pre_delete") => Up /\ (IsSetMark \/ IsMoveMark)
           /\ Doing("delete") => Up /\ (IsSetDelete \/ IsDelDelete \/ IsMoveDelete)
           /\ Doing("dirty") => 
                  Up /\ (IsSetMarked \/ IsSetDeleted \/ IsDelDeleted \/ IsMoveMarked \/ IsMoveDeleted)
           /\ Doing("sec_status") => Up /\ (IsSetMake \/ IsMoveMake)
           /\ Doing("pre_write") => Up /\ (IsSetPre \/ IsMovePre)
           /\ Doing("header") => Up /\ (IsSetHeader \/ IsMoveHeader)
           /\ Doing("body") => Up /\ (IsSetBody \/ IsMoveBody)
           /\ Doing("commit") => Up /\ (IsSetCommit \/ IsMoveCommit)
           /\ Doing("gc_collect") => Up /\ IsCollect
           /\ Doing("gc_sector") => Up /\ IsWalk
           /\ Doing("gc_kv") => Up /\ IsGcKv
           /\ Doing("move") => Up /\ IsMove
           /\ Doing("gc_end") => Up /\ IsWalk
           /\ Doing("check_hdr") => phase = "boot" /\ New /\ IsHdr
           /\ Doing("check_all") => phase = "boot" /\ New /\ IsHdr
           /\ Doing("check_gc") => phase = "boot" /\ New /\ IsCheckGc
           /\ Doing("check_kv") => phase = "boot" /\ New /\ IsCheckKv
           /\ Doing("checked") => phase = "boot" /\ New /\ IsChecked
           /\ Doing("erase") => 
                  \/ (Up /\ (IsErase \/ IsDefault))
                  \/ (phase = "boot" /\ New /\ (IsHdrErase \/ IsBootFormat))
           /\ Doing("format") => 
                  \/ (Up /\ (IsFormat \/ IsDefault))
                  \/ (phase = "boot" /\ New /\ (IsHdrFormat \/ IsBootFormat))
           /\ Ready => Up /\ Idle
           /\ phase = "off" => IsOff
<1>1. /\ IsOff => todo = <<>> /\ phase = "off"
      /\ Idle => todo = <<>>
      /\ ~(todo = <<>> /\ todo # <<>>)
  BY DEF IsOff, Idle
<1>2. /\ Booting => phase = "boot"
      /\ Up => phase = "ready"
  BY DEF Booting, Up
<1>3. ASSUME Doing("new_kv") PROVE Up /\ IsNew
  <2>1. todo # <<>> /\ \A u : u # "new_kv" => ~Doing(u)
    BY <1>3, OneTop
  <2>2. /\ ~Doing("find_kv") /\ ~Doing("gc_after") /\ ~Doing("return") /\ ~Doing("formatted")
        /\ ~Doing("pre_delete") /\ ~Doing("delete") /\ ~Doing("dirty") /\ ~Doing("sec_status")
        /\ ~Doing("pre_write") /\ ~Doing("header") /\ ~Doing("body") /\ ~Doing("commit")
        /\ ~Doing("erase") /\ ~Doing("format") /\ ~Doing("gc_collect") /\ ~Doing("gc_sector")
        /\ ~Doing("gc_kv") /\ ~Doing("move") /\ ~Doing("gc_end") /\ ~Doing("check_hdr")
        /\ ~Doing("check_all") /\ ~Doing("check_gc") /\ ~Doing("check_kv") /\ ~Doing("checked")
    BY <2>1
  <2> QED
    BY <1>1, <1>2, <1>3, <2>1, <2>2, Tops DEF Forms, Booting, Running
<1>4. ASSUME Doing("find_kv") PROVE Up /\ IsFind
  <2>1. todo # <<>> /\ \A u : u # "find_kv" => ~Doing(u)
    BY <1>4, OneTop
  <2>2. /\ ~Doing("new_kv") /\ ~Doing("gc_after") /\ ~Doing("return") /\ ~Doing("formatted")
        /\ ~Doing("pre_delete") /\ ~Doing("delete") /\ ~Doing("dirty") /\ ~Doing("sec_status")
        /\ ~Doing("pre_write") /\ ~Doing("header") /\ ~Doing("body") /\ ~Doing("commit")
        /\ ~Doing("erase") /\ ~Doing("format") /\ ~Doing("gc_collect") /\ ~Doing("gc_sector")
        /\ ~Doing("gc_kv") /\ ~Doing("move") /\ ~Doing("gc_end") /\ ~Doing("check_hdr")
        /\ ~Doing("check_all") /\ ~Doing("check_gc") /\ ~Doing("check_kv") /\ ~Doing("checked")
    BY <2>1
  <2> QED
    BY <1>1, <1>2, <1>4, <2>1, <2>2, Tops DEF Forms, Booting, Running
<1>5. ASSUME Doing("gc_after") PROVE Up /\ IsAfterSet
  <2>1. todo # <<>> /\ \A u : u # "gc_after" => ~Doing(u)
    BY <1>5, OneTop
  <2>2. /\ ~Doing("new_kv") /\ ~Doing("find_kv") /\ ~Doing("return") /\ ~Doing("formatted")
        /\ ~Doing("pre_delete") /\ ~Doing("delete") /\ ~Doing("dirty") /\ ~Doing("sec_status")
        /\ ~Doing("pre_write") /\ ~Doing("header") /\ ~Doing("body") /\ ~Doing("commit")
        /\ ~Doing("erase") /\ ~Doing("format") /\ ~Doing("gc_collect") /\ ~Doing("gc_sector")
        /\ ~Doing("gc_kv") /\ ~Doing("move") /\ ~Doing("gc_end") /\ ~Doing("check_hdr")
        /\ ~Doing("check_all") /\ ~Doing("check_gc") /\ ~Doing("check_kv") /\ ~Doing("checked")
    BY <2>1
  <2> QED
    BY <1>1, <1>2, <1>5, <2>1, <2>2, Tops DEF Forms, Booting, Running
<1>6. ASSUME Doing("return") PROVE Up /\ IsDone
  <2>1. todo # <<>> /\ \A u : u # "return" => ~Doing(u)
    BY <1>6, OneTop
  <2>2. /\ ~Doing("new_kv") /\ ~Doing("find_kv") /\ ~Doing("gc_after") /\ ~Doing("formatted")
        /\ ~Doing("pre_delete") /\ ~Doing("delete") /\ ~Doing("dirty") /\ ~Doing("sec_status")
        /\ ~Doing("pre_write") /\ ~Doing("header") /\ ~Doing("body") /\ ~Doing("commit")
        /\ ~Doing("erase") /\ ~Doing("format") /\ ~Doing("gc_collect") /\ ~Doing("gc_sector")
        /\ ~Doing("gc_kv") /\ ~Doing("move") /\ ~Doing("gc_end") /\ ~Doing("check_hdr")
        /\ ~Doing("check_all") /\ ~Doing("check_gc") /\ ~Doing("check_kv") /\ ~Doing("checked")
    BY <2>1
  <2> QED
    BY <1>1, <1>2, <1>6, <2>1, <2>2, Tops DEF Forms, Booting, Running
<1>7. ASSUME Doing("formatted") PROVE Up /\ IsFormatted
  <2>1. todo # <<>> /\ \A u : u # "formatted" => ~Doing(u)
    BY <1>7, OneTop
  <2>2. /\ ~Doing("new_kv") /\ ~Doing("find_kv") /\ ~Doing("gc_after") /\ ~Doing("return")
        /\ ~Doing("pre_delete") /\ ~Doing("delete") /\ ~Doing("dirty") /\ ~Doing("sec_status")
        /\ ~Doing("pre_write") /\ ~Doing("header") /\ ~Doing("body") /\ ~Doing("commit")
        /\ ~Doing("erase") /\ ~Doing("format") /\ ~Doing("gc_collect") /\ ~Doing("gc_sector")
        /\ ~Doing("gc_kv") /\ ~Doing("move") /\ ~Doing("gc_end") /\ ~Doing("check_hdr")
        /\ ~Doing("check_all") /\ ~Doing("check_gc") /\ ~Doing("check_kv") /\ ~Doing("checked")
    BY <2>1
  <2> QED
    BY <1>1, <1>2, <1>7, <2>1, <2>2, Tops DEF Forms, Booting, Running
<1>8. ASSUME Doing("pre_delete") PROVE Up /\ (IsSetMark \/ IsMoveMark)
  <2>1. todo # <<>> /\ \A u : u # "pre_delete" => ~Doing(u)
    BY <1>8, OneTop
  <2>2. /\ ~Doing("new_kv") /\ ~Doing("find_kv") /\ ~Doing("gc_after") /\ ~Doing("return")
        /\ ~Doing("formatted") /\ ~Doing("delete") /\ ~Doing("dirty") /\ ~Doing("sec_status")
        /\ ~Doing("pre_write") /\ ~Doing("header") /\ ~Doing("body") /\ ~Doing("commit")
        /\ ~Doing("erase") /\ ~Doing("format") /\ ~Doing("gc_collect") /\ ~Doing("gc_sector")
        /\ ~Doing("gc_kv") /\ ~Doing("move") /\ ~Doing("gc_end") /\ ~Doing("check_hdr")
        /\ ~Doing("check_all") /\ ~Doing("check_gc") /\ ~Doing("check_kv") /\ ~Doing("checked")
    BY <2>1
  <2> QED
    BY <1>1, <1>2, <1>8, <2>1, <2>2, Tops DEF Forms, Booting, Running
<1>9. ASSUME Doing("delete") PROVE Up /\ (IsSetDelete \/ IsDelDelete \/ IsMoveDelete)
  <2>1. todo # <<>> /\ \A u : u # "delete" => ~Doing(u)
    BY <1>9, OneTop
  <2>2. /\ ~Doing("new_kv") /\ ~Doing("find_kv") /\ ~Doing("gc_after") /\ ~Doing("return")
        /\ ~Doing("formatted") /\ ~Doing("pre_delete") /\ ~Doing("dirty") /\ ~Doing("sec_status")
        /\ ~Doing("pre_write") /\ ~Doing("header") /\ ~Doing("body") /\ ~Doing("commit")
        /\ ~Doing("erase") /\ ~Doing("format") /\ ~Doing("gc_collect") /\ ~Doing("gc_sector")
        /\ ~Doing("gc_kv") /\ ~Doing("move") /\ ~Doing("gc_end") /\ ~Doing("check_hdr")
        /\ ~Doing("check_all") /\ ~Doing("check_gc") /\ ~Doing("check_kv") /\ ~Doing("checked")
    BY <2>1
  <2> QED
    BY <1>1, <1>2, <1>9, <2>1, <2>2, Tops DEF Forms, Booting, Running
<1>10. ASSUME Doing("dirty") PROVE Up /\ (IsSetMarked \/ IsSetDeleted \/ IsDelDeleted \/ IsMoveMarked \/ IsMoveDeleted)
  <2>1. todo # <<>> /\ \A u : u # "dirty" => ~Doing(u)
    BY <1>10, OneTop
  <2>2. /\ ~Doing("new_kv") /\ ~Doing("find_kv") /\ ~Doing("gc_after") /\ ~Doing("return")
        /\ ~Doing("formatted") /\ ~Doing("pre_delete") /\ ~Doing("delete") /\ ~Doing("sec_status")
        /\ ~Doing("pre_write") /\ ~Doing("header") /\ ~Doing("body") /\ ~Doing("commit")
        /\ ~Doing("erase") /\ ~Doing("format") /\ ~Doing("gc_collect") /\ ~Doing("gc_sector")
        /\ ~Doing("gc_kv") /\ ~Doing("move") /\ ~Doing("gc_end") /\ ~Doing("check_hdr")
        /\ ~Doing("check_all") /\ ~Doing("check_gc") /\ ~Doing("check_kv") /\ ~Doing("checked")
    BY <2>1
  <2> QED
    BY <1>1, <1>2, <1>10, <2>1, <2>2, Tops DEF Forms, Booting, Running
<1>11. ASSUME Doing("sec_status") PROVE Up /\ (IsSetMake \/ IsMoveMake)
  <2>1. todo # <<>> /\ \A u : u # "sec_status" => ~Doing(u)
    BY <1>11, OneTop
  <2>2. /\ ~Doing("new_kv") /\ ~Doing("find_kv") /\ ~Doing("gc_after") /\ ~Doing("return")
        /\ ~Doing("formatted") /\ ~Doing("pre_delete") /\ ~Doing("delete") /\ ~Doing("dirty")
        /\ ~Doing("pre_write") /\ ~Doing("header") /\ ~Doing("body") /\ ~Doing("commit")
        /\ ~Doing("erase") /\ ~Doing("format") /\ ~Doing("gc_collect") /\ ~Doing("gc_sector")
        /\ ~Doing("gc_kv") /\ ~Doing("move") /\ ~Doing("gc_end") /\ ~Doing("check_hdr")
        /\ ~Doing("check_all") /\ ~Doing("check_gc") /\ ~Doing("check_kv") /\ ~Doing("checked")
    BY <2>1
  <2> QED
    BY <1>1, <1>2, <1>11, <2>1, <2>2, Tops DEF Forms, Booting, Running
<1>12. ASSUME Doing("pre_write") PROVE Up /\ (IsSetPre \/ IsMovePre)
  <2>1. todo # <<>> /\ \A u : u # "pre_write" => ~Doing(u)
    BY <1>12, OneTop
  <2>2. /\ ~Doing("new_kv") /\ ~Doing("find_kv") /\ ~Doing("gc_after") /\ ~Doing("return")
        /\ ~Doing("formatted") /\ ~Doing("pre_delete") /\ ~Doing("delete") /\ ~Doing("dirty")
        /\ ~Doing("sec_status") /\ ~Doing("header") /\ ~Doing("body") /\ ~Doing("commit")
        /\ ~Doing("erase") /\ ~Doing("format") /\ ~Doing("gc_collect") /\ ~Doing("gc_sector")
        /\ ~Doing("gc_kv") /\ ~Doing("move") /\ ~Doing("gc_end") /\ ~Doing("check_hdr")
        /\ ~Doing("check_all") /\ ~Doing("check_gc") /\ ~Doing("check_kv") /\ ~Doing("checked")
    BY <2>1
  <2> QED
    BY <1>1, <1>2, <1>12, <2>1, <2>2, Tops DEF Forms, Booting, Running
<1>13. ASSUME Doing("header") PROVE Up /\ (IsSetHeader \/ IsMoveHeader)
  <2>1. todo # <<>> /\ \A u : u # "header" => ~Doing(u)
    BY <1>13, OneTop
  <2>2. /\ ~Doing("new_kv") /\ ~Doing("find_kv") /\ ~Doing("gc_after") /\ ~Doing("return")
        /\ ~Doing("formatted") /\ ~Doing("pre_delete") /\ ~Doing("delete") /\ ~Doing("dirty")
        /\ ~Doing("sec_status") /\ ~Doing("pre_write") /\ ~Doing("body") /\ ~Doing("commit")
        /\ ~Doing("erase") /\ ~Doing("format") /\ ~Doing("gc_collect") /\ ~Doing("gc_sector")
        /\ ~Doing("gc_kv") /\ ~Doing("move") /\ ~Doing("gc_end") /\ ~Doing("check_hdr")
        /\ ~Doing("check_all") /\ ~Doing("check_gc") /\ ~Doing("check_kv") /\ ~Doing("checked")
    BY <2>1
  <2> QED
    BY <1>1, <1>2, <1>13, <2>1, <2>2, Tops DEF Forms, Booting, Running
<1>14. ASSUME Doing("body") PROVE Up /\ (IsSetBody \/ IsMoveBody)
  <2>1. todo # <<>> /\ \A u : u # "body" => ~Doing(u)
    BY <1>14, OneTop
  <2>2. /\ ~Doing("new_kv") /\ ~Doing("find_kv") /\ ~Doing("gc_after") /\ ~Doing("return")
        /\ ~Doing("formatted") /\ ~Doing("pre_delete") /\ ~Doing("delete") /\ ~Doing("dirty")
        /\ ~Doing("sec_status") /\ ~Doing("pre_write") /\ ~Doing("header") /\ ~Doing("commit")
        /\ ~Doing("erase") /\ ~Doing("format") /\ ~Doing("gc_collect") /\ ~Doing("gc_sector")
        /\ ~Doing("gc_kv") /\ ~Doing("move") /\ ~Doing("gc_end") /\ ~Doing("check_hdr")
        /\ ~Doing("check_all") /\ ~Doing("check_gc") /\ ~Doing("check_kv") /\ ~Doing("checked")
    BY <2>1
  <2> QED
    BY <1>1, <1>2, <1>14, <2>1, <2>2, Tops DEF Forms, Booting, Running
<1>15. ASSUME Doing("commit") PROVE Up /\ (IsSetCommit \/ IsMoveCommit)
  <2>1. todo # <<>> /\ \A u : u # "commit" => ~Doing(u)
    BY <1>15, OneTop
  <2>2. /\ ~Doing("new_kv") /\ ~Doing("find_kv") /\ ~Doing("gc_after") /\ ~Doing("return")
        /\ ~Doing("formatted") /\ ~Doing("pre_delete") /\ ~Doing("delete") /\ ~Doing("dirty")
        /\ ~Doing("sec_status") /\ ~Doing("pre_write") /\ ~Doing("header") /\ ~Doing("body")
        /\ ~Doing("erase") /\ ~Doing("format") /\ ~Doing("gc_collect") /\ ~Doing("gc_sector")
        /\ ~Doing("gc_kv") /\ ~Doing("move") /\ ~Doing("gc_end") /\ ~Doing("check_hdr")
        /\ ~Doing("check_all") /\ ~Doing("check_gc") /\ ~Doing("check_kv") /\ ~Doing("checked")
    BY <2>1
  <2> QED
    BY <1>1, <1>2, <1>15, <2>1, <2>2, Tops DEF Forms, Booting, Running
<1>16. ASSUME Doing("gc_collect") PROVE Up /\ IsCollect
  <2>1. todo # <<>> /\ \A u : u # "gc_collect" => ~Doing(u)
    BY <1>16, OneTop
  <2>2. /\ ~Doing("new_kv") /\ ~Doing("find_kv") /\ ~Doing("gc_after") /\ ~Doing("return")
        /\ ~Doing("formatted") /\ ~Doing("pre_delete") /\ ~Doing("delete") /\ ~Doing("dirty")
        /\ ~Doing("sec_status") /\ ~Doing("pre_write") /\ ~Doing("header") /\ ~Doing("body")
        /\ ~Doing("commit") /\ ~Doing("erase") /\ ~Doing("format") /\ ~Doing("gc_sector")
        /\ ~Doing("gc_kv") /\ ~Doing("move") /\ ~Doing("gc_end") /\ ~Doing("check_hdr")
        /\ ~Doing("check_all") /\ ~Doing("check_gc") /\ ~Doing("check_kv") /\ ~Doing("checked")
    BY <2>1
  <2> QED
    BY <1>1, <1>2, <1>16, <2>1, <2>2, Tops DEF Forms, Booting, Running
<1>17. ASSUME Doing("gc_sector") PROVE Up /\ IsWalk
  <2>1. todo # <<>> /\ \A u : u # "gc_sector" => ~Doing(u)
    BY <1>17, OneTop
  <2>2. /\ ~Doing("new_kv") /\ ~Doing("find_kv") /\ ~Doing("gc_after") /\ ~Doing("return")
        /\ ~Doing("formatted") /\ ~Doing("pre_delete") /\ ~Doing("delete") /\ ~Doing("dirty")
        /\ ~Doing("sec_status") /\ ~Doing("pre_write") /\ ~Doing("header") /\ ~Doing("body")
        /\ ~Doing("commit") /\ ~Doing("erase") /\ ~Doing("format") /\ ~Doing("gc_collect")
        /\ ~Doing("gc_kv") /\ ~Doing("move") /\ ~Doing("gc_end") /\ ~Doing("check_hdr")
        /\ ~Doing("check_all") /\ ~Doing("check_gc") /\ ~Doing("check_kv") /\ ~Doing("checked")
    BY <2>1
  <2> QED
    BY <1>1, <1>2, <1>17, <2>1, <2>2, Tops DEF Forms, Booting, Running
<1>18. ASSUME Doing("gc_kv") PROVE Up /\ IsGcKv
  <2>1. todo # <<>> /\ \A u : u # "gc_kv" => ~Doing(u)
    BY <1>18, OneTop
  <2>2. /\ ~Doing("new_kv") /\ ~Doing("find_kv") /\ ~Doing("gc_after") /\ ~Doing("return")
        /\ ~Doing("formatted") /\ ~Doing("pre_delete") /\ ~Doing("delete") /\ ~Doing("dirty")
        /\ ~Doing("sec_status") /\ ~Doing("pre_write") /\ ~Doing("header") /\ ~Doing("body")
        /\ ~Doing("commit") /\ ~Doing("erase") /\ ~Doing("format") /\ ~Doing("gc_collect")
        /\ ~Doing("gc_sector") /\ ~Doing("move") /\ ~Doing("gc_end") /\ ~Doing("check_hdr")
        /\ ~Doing("check_all") /\ ~Doing("check_gc") /\ ~Doing("check_kv") /\ ~Doing("checked")
    BY <2>1
  <2> QED
    BY <1>1, <1>2, <1>18, <2>1, <2>2, Tops DEF Forms, Booting, Running
<1>19. ASSUME Doing("move") PROVE Up /\ IsMove
  <2>1. todo # <<>> /\ \A u : u # "move" => ~Doing(u)
    BY <1>19, OneTop
  <2>2. /\ ~Doing("new_kv") /\ ~Doing("find_kv") /\ ~Doing("gc_after") /\ ~Doing("return")
        /\ ~Doing("formatted") /\ ~Doing("pre_delete") /\ ~Doing("delete") /\ ~Doing("dirty")
        /\ ~Doing("sec_status") /\ ~Doing("pre_write") /\ ~Doing("header") /\ ~Doing("body")
        /\ ~Doing("commit") /\ ~Doing("erase") /\ ~Doing("format") /\ ~Doing("gc_collect")
        /\ ~Doing("gc_sector") /\ ~Doing("gc_kv") /\ ~Doing("gc_end") /\ ~Doing("check_hdr")
        /\ ~Doing("check_all") /\ ~Doing("check_gc") /\ ~Doing("check_kv") /\ ~Doing("checked")
    BY <2>1
  <2> QED
    BY <1>1, <1>2, <1>19, <2>1, <2>2, Tops DEF Forms, Booting, Running
<1>20. ASSUME Doing("gc_end") PROVE Up /\ IsWalk
  <2>1. todo # <<>> /\ \A u : u # "gc_end" => ~Doing(u)
    BY <1>20, OneTop
  <2>2. /\ ~Doing("new_kv") /\ ~Doing("find_kv") /\ ~Doing("gc_after") /\ ~Doing("return")
        /\ ~Doing("formatted") /\ ~Doing("pre_delete") /\ ~Doing("delete") /\ ~Doing("dirty")
        /\ ~Doing("sec_status") /\ ~Doing("pre_write") /\ ~Doing("header") /\ ~Doing("body")
        /\ ~Doing("commit") /\ ~Doing("erase") /\ ~Doing("format") /\ ~Doing("gc_collect")
        /\ ~Doing("gc_sector") /\ ~Doing("gc_kv") /\ ~Doing("move") /\ ~Doing("check_hdr")
        /\ ~Doing("check_all") /\ ~Doing("check_gc") /\ ~Doing("check_kv") /\ ~Doing("checked")
    BY <2>1
  <2> QED
    BY <1>1, <1>2, <1>20, <2>1, <2>2, Tops DEF Forms, Booting, Running
<1>21. ASSUME Doing("check_hdr") PROVE phase = "boot" /\ New /\ IsHdr
  <2>1. todo # <<>> /\ \A u : u # "check_hdr" => ~Doing(u)
    BY <1>21, OneTop
  <2>2. /\ ~Doing("new_kv") /\ ~Doing("find_kv") /\ ~Doing("gc_after") /\ ~Doing("return")
        /\ ~Doing("formatted") /\ ~Doing("pre_delete") /\ ~Doing("delete") /\ ~Doing("dirty")
        /\ ~Doing("sec_status") /\ ~Doing("pre_write") /\ ~Doing("header") /\ ~Doing("body")
        /\ ~Doing("commit") /\ ~Doing("erase") /\ ~Doing("format") /\ ~Doing("gc_collect")
        /\ ~Doing("gc_sector") /\ ~Doing("gc_kv") /\ ~Doing("move") /\ ~Doing("gc_end")
        /\ ~Doing("check_all") /\ ~Doing("check_gc") /\ ~Doing("check_kv") /\ ~Doing("checked")
    BY <2>1
  <2> QED
    BY <1>1, <1>2, <1>21, <2>1, <2>2, Tops DEF Forms, Booting, Running
<1>22. ASSUME Doing("check_all") PROVE phase = "boot" /\ New /\ IsHdr
  <2>1. todo # <<>> /\ \A u : u # "check_all" => ~Doing(u)
    BY <1>22, OneTop
  <2>2. /\ ~Doing("new_kv") /\ ~Doing("find_kv") /\ ~Doing("gc_after") /\ ~Doing("return")
        /\ ~Doing("formatted") /\ ~Doing("pre_delete") /\ ~Doing("delete") /\ ~Doing("dirty")
        /\ ~Doing("sec_status") /\ ~Doing("pre_write") /\ ~Doing("header") /\ ~Doing("body")
        /\ ~Doing("commit") /\ ~Doing("erase") /\ ~Doing("format") /\ ~Doing("gc_collect")
        /\ ~Doing("gc_sector") /\ ~Doing("gc_kv") /\ ~Doing("move") /\ ~Doing("gc_end")
        /\ ~Doing("check_hdr") /\ ~Doing("check_gc") /\ ~Doing("check_kv") /\ ~Doing("checked")
    BY <2>1
  <2> QED
    BY <1>1, <1>2, <1>22, <2>1, <2>2, Tops DEF Forms, Booting, Running
<1>23. ASSUME Doing("check_gc") PROVE phase = "boot" /\ New /\ IsCheckGc
  <2>1. todo # <<>> /\ \A u : u # "check_gc" => ~Doing(u)
    BY <1>23, OneTop
  <2>2. /\ ~Doing("new_kv") /\ ~Doing("find_kv") /\ ~Doing("gc_after") /\ ~Doing("return")
        /\ ~Doing("formatted") /\ ~Doing("pre_delete") /\ ~Doing("delete") /\ ~Doing("dirty")
        /\ ~Doing("sec_status") /\ ~Doing("pre_write") /\ ~Doing("header") /\ ~Doing("body")
        /\ ~Doing("commit") /\ ~Doing("erase") /\ ~Doing("format") /\ ~Doing("gc_collect")
        /\ ~Doing("gc_sector") /\ ~Doing("gc_kv") /\ ~Doing("move") /\ ~Doing("gc_end")
        /\ ~Doing("check_hdr") /\ ~Doing("check_all") /\ ~Doing("check_kv") /\ ~Doing("checked")
    BY <2>1
  <2> QED
    BY <1>1, <1>2, <1>23, <2>1, <2>2, Tops DEF Forms, Booting, Running
<1>24. ASSUME Doing("check_kv") PROVE phase = "boot" /\ New /\ IsCheckKv
  <2>1. todo # <<>> /\ \A u : u # "check_kv" => ~Doing(u)
    BY <1>24, OneTop
  <2>2. /\ ~Doing("new_kv") /\ ~Doing("find_kv") /\ ~Doing("gc_after") /\ ~Doing("return")
        /\ ~Doing("formatted") /\ ~Doing("pre_delete") /\ ~Doing("delete") /\ ~Doing("dirty")
        /\ ~Doing("sec_status") /\ ~Doing("pre_write") /\ ~Doing("header") /\ ~Doing("body")
        /\ ~Doing("commit") /\ ~Doing("erase") /\ ~Doing("format") /\ ~Doing("gc_collect")
        /\ ~Doing("gc_sector") /\ ~Doing("gc_kv") /\ ~Doing("move") /\ ~Doing("gc_end")
        /\ ~Doing("check_hdr") /\ ~Doing("check_all") /\ ~Doing("check_gc") /\ ~Doing("checked")
    BY <2>1
  <2> QED
    BY <1>1, <1>2, <1>24, <2>1, <2>2, Tops DEF Forms, Booting, Running
<1>25. ASSUME Doing("checked") PROVE phase = "boot" /\ New /\ IsChecked
  <2>1. todo # <<>> /\ \A u : u # "checked" => ~Doing(u)
    BY <1>25, OneTop
  <2>2. /\ ~Doing("new_kv") /\ ~Doing("find_kv") /\ ~Doing("gc_after") /\ ~Doing("return")
        /\ ~Doing("formatted") /\ ~Doing("pre_delete") /\ ~Doing("delete") /\ ~Doing("dirty")
        /\ ~Doing("sec_status") /\ ~Doing("pre_write") /\ ~Doing("header") /\ ~Doing("body")
        /\ ~Doing("commit") /\ ~Doing("erase") /\ ~Doing("format") /\ ~Doing("gc_collect")
        /\ ~Doing("gc_sector") /\ ~Doing("gc_kv") /\ ~Doing("move") /\ ~Doing("gc_end")
        /\ ~Doing("check_hdr") /\ ~Doing("check_all") /\ ~Doing("check_gc") /\ ~Doing("check_kv")
    BY <2>1
  <2> QED
    BY <1>1, <1>2, <1>25, <2>1, <2>2, Tops DEF Forms, Booting, Running
<1>26. ASSUME Doing("erase") PROVE (Up /\ (IsErase \/ IsDefault)) \/ (phase = "boot" /\ New /\ (IsHdrErase \/ IsBootFormat))
  <2>1. todo # <<>> /\ \A u : u # "erase" => ~Doing(u)
    BY <1>26, OneTop
  <2>2. /\ ~Doing("new_kv") /\ ~Doing("find_kv") /\ ~Doing("gc_after") /\ ~Doing("return")
        /\ ~Doing("formatted") /\ ~Doing("pre_delete") /\ ~Doing("delete") /\ ~Doing("dirty")
        /\ ~Doing("sec_status") /\ ~Doing("pre_write") /\ ~Doing("header") /\ ~Doing("body")
        /\ ~Doing("commit") /\ ~Doing("format") /\ ~Doing("gc_collect") /\ ~Doing("gc_sector")
        /\ ~Doing("gc_kv") /\ ~Doing("move") /\ ~Doing("gc_end") /\ ~Doing("check_hdr")
        /\ ~Doing("check_all") /\ ~Doing("check_gc") /\ ~Doing("check_kv") /\ ~Doing("checked")
    BY <2>1
  <2> QED
    BY <1>1, <1>2, <1>26, <2>1, <2>2, Tops DEF Forms, Booting, Running
<1>27. ASSUME Doing("format") PROVE (Up /\ (IsFormat \/ IsDefault)) \/ (phase = "boot" /\ New /\ (IsHdrFormat \/ IsBootFormat))
  <2>1. todo # <<>> /\ \A u : u # "format" => ~Doing(u)
    BY <1>27, OneTop
  <2>2. /\ ~Doing("new_kv") /\ ~Doing("find_kv") /\ ~Doing("gc_after") /\ ~Doing("return")
        /\ ~Doing("formatted") /\ ~Doing("pre_delete") /\ ~Doing("delete") /\ ~Doing("dirty")
        /\ ~Doing("sec_status") /\ ~Doing("pre_write") /\ ~Doing("header") /\ ~Doing("body")
        /\ ~Doing("commit") /\ ~Doing("erase") /\ ~Doing("gc_collect") /\ ~Doing("gc_sector")
        /\ ~Doing("gc_kv") /\ ~Doing("move") /\ ~Doing("gc_end") /\ ~Doing("check_hdr")
        /\ ~Doing("check_all") /\ ~Doing("check_gc") /\ ~Doing("check_kv") /\ ~Doing("checked")
    BY <2>1
  <2> QED
    BY <1>1, <1>2, <1>27, <2>1, <2>2, Tops DEF Forms, Booting, Running
<1>28. ASSUME Ready PROVE Up /\ Idle
  <2>1. todo = <<>> /\ phase = "ready" /\ \A u : ~Doing(u)
    BY <1>28 DEF Ready, Doing
  <2>2. ~IsOff /\ ~Booting
    BY <1>1, <1>2, <2>1
  <2>3. Running
    BY <2>2 DEF Forms
  <2> QED
    BY <2>1, <2>3, Tops DEF Running
<1>29. ASSUME phase = "off" PROVE IsOff
  BY <1>2, <1>29 DEF Forms, Running
<1> QED
  BY <1>3, <1>4, <1>5, <1>6, <1>7, <1>8, <1>9, <1>10, <1>11, <1>12, <1>13, <1>14, <1>15,
     <1>16, <1>17, <1>18, <1>19, <1>20, <1>21, <1>22, <1>23, <1>24, <1>25, <1>26, <1>27,
     <1>28, <1>29

-----------------------------------------------------------------------------
(* What a step leaves alone.                                               *)
LEMMA FlashKept ==
    ASSUME UNCHANGED flash
    PROVE  /\ Addrs' = Addrs /\ \A a : NodeAt(a)' = NodeAt(a)
           /\ \A s \in Sectors : Used(s)' = Used(s) /\ SameHeader(s)
           /\ \A x : Spare(x) => Spare(x)'
           /\ HasRoom => HasRoom'
           /\ \A x : Calm(x) => Calm(x)'
           /\ \A x : CleanBelow(x) => CleanBelow(x)'
           /\ \A s, i : Room(s, i) => Room(s, i)'
           /\ \A d : Target(d) => Target(d)'
           /\ \A p, e : Shape(p, e) => Shape(p, e)'
           /\ AllClean => AllClean'
<1>1. Addrs' = Addrs /\ \A a : NodeAt(a)' = NodeAt(a)
  BY DEF Addrs, NodeAt
<1>2. \A s \in Sectors : Used(s)' = Used(s) /\ SameHeader(s)
  BY DEF Used, SameHeader
<1>3. \A p, e : Shape(p, e) => Shape(p, e)'
  BY DEF Shape, Used
<1>4. AllClean => AllClean'
  BY DEF AllClean
<1> QED
  BY <1>1, <1>2, <1>3, <1>4, SpaceKept, HeaderKept

LEMMA SteadyKept ==
    ASSUME TypeOK, UNCHANGED flash, db'.cache = db.cache,
           db'.last_is_complete_del = db.last_is_complete_del
    PROVE  /\ \A E, old, fresh, gone, last :
                 Data(E, old, fresh, gone, last) => Data(E, old, fresh, gone, last)'
           /\ \A E : Steady(E) => Steady(E)'
           /\ \A old, k : OnlyOld(old, k) => OnlyOld(old, k)'
<1>1. /\ Addrs' = Addrs /\ \A b \in Addrs : NodeAt(b)' = NodeAt(b)
      /\ \A s \in Sectors : flash'[s].dirty = flash[s].dirty
      /\ \A p, e : Shape(p, e) => Shape(p, e)'
  BY FlashKept DEF SameHeader
<1>2. ASSUME NEW E, NEW old, NEW fresh, NEW gone, NEW last, Data(E, old, fresh, gone, last)
      PROVE  Data(E, old, fresh, gone, last)'
  BY <1>1, <1>2, DataKept
<1>3. ASSUME NEW E, Steady(E) PROVE Steady(E)'
  BY <1>1, <1>2, <1>3 DEF Steady, NoAddr
<1>4. ASSUME NEW old, NEW k, OnlyOld(old, k) PROVE OnlyOld(old, k)'
  <2>1. \A b \in Addrs : (Holder(b)' <=> Holder(b)) /\ KeyOf(b)' = KeyOf(b)
    BY <1>1, SameNode
  <2> QED
    BY <1>1, <1>4, <2>1 DEF OnlyOld, NoAddr
<1> QED
  BY <1>2, <1>3, <1>4

LEMMA CallKept ==
    ASSUME UNCHANGED <<op, want>>
    PROVE  /\ OldValues' = OldValues /\ NewValues' = NewValues
           /\ InCall => InCall'
           /\ Setting /\ Calm(0)' => Setting'
           /\ TypeOK /\ flash' \in [Sectors -> Sector] /\ db' \in DbType => TypeOK'
BY DEF OldValues, NewValues, InCall, Setting, TypeOK, One

LEMMA UpKept ==
    ASSUME Up, UNCHANGED phase, db'.in_recovery_check = db.in_recovery_check
    PROVE  Up'
BY DEF Up

\* What the values are while a call is under way.
LEMMA Values ==
    ASSUME TypeOK, InCall
    PROVE  /\ op.key \in Keys /\ op.val \in Vals \union {None}
           /\ NewValues[op.key] = {op.val}
           /\ \A c \in Keys \ {op.key} : NewValues[c] = OldValues[c]
BY DEF InCall, NewValues, OldValues

(* The calls.                                                              *)
LEMMA KvSetStep ==
    ASSUME TypeOK, Up, Idle, NEW k \in Keys, NEW v \in Vals, KvSet(k, v)
    PROVE  TypeOK' /\ Up' /\ IsNew'
<1>1. /\ UNCHANGED <<flash, db, phase>>
      /\ op' = [key |-> k, before |-> want[k], val |-> v]
      /\ want' = [want EXCEPT ![k] = @ \union {v}]
      /\ todo' = <<Task("new_kv", 0, 0, 0)>>
  BY DEF KvSet, Begin
<1>2. want \in [Keys -> SUBSET (Vals \union {None})] /\ \A c \in Keys : One(want[c])
  BY DEF TypeOK, Idle
<1>3. want' \in [Keys -> SUBSET (Vals \union {None})] /\ TypeOK'
  BY <1>1, <1>2 DEF TypeOK
<1>4. OldValues' = want
  <2>1. \A c \in Keys : (IF c = op'.key THEN op'.before ELSE want'[c]) = want[c]
    BY <1>1, <1>2
  <2>2. OldValues' = [c \in Keys |-> want[c]]
    BY <2>1 DEF OldValues
  <2> QED
    BY <1>2, <2>2
<1>5. InCall'
  <2>1. op'.key = k /\ op'.val = v /\ op'.before = want[k]
    BY <1>1
  <2>2. want'[k] = want[k] \union {v} /\ \A c \in Keys : c # k => want'[c] = want[c]
    BY <1>1, <1>2
  <2> QED
    BY <1>2, <2>1, <2>2 DEF InCall, One
<1>6. Steady(want) /\ Calm(0) /\ Spare(0) /\ HasRoom /\ ~db.gc_request
  BY DEF Idle
<1>7. Steady(OldValues)' /\ Calm(0)' /\ Spare(0)' /\ HasRoom'
  BY <1>1, <1>4, <1>6, FlashKept, SteadyKept
<1>8. op'.val \in Vals
  BY <1>1
<1> QED
  BY <1>1, <1>3, <1>5, <1>6, <1>7, <1>8, UpKept DEF IsNew, Setting

LEMMA KvDelStep ==
    ASSUME TypeOK, Up, Idle, NEW k \in Keys, KvDel(k)
    PROVE  TypeOK' /\ Up' /\ IsDelDelete'
<1>0. PICK a : a = Find(k)
  OBVIOUS
<1>1. /\ UNCHANGED <<flash, phase>> /\ a # NoAddr
      /\ op' = [key |-> k, before |-> want[k], val |-> None]
      /\ want' = [want EXCEPT ![k] = @ \union {None}]
      /\ todo' = DelTasks(a, TRUE) \o <<Task("return", 0, 0, 0)>>
      /\ db' = [db EXCEPT !.cache[k] = a]
  BY <1>0 DEF KvDel, Begin
<1>2. want \in [Keys -> SUBSET (Vals \union {None})] /\ \A c \in Keys : One(want[c])
  BY DEF TypeOK, Idle
<1>3. Steady(want) /\ Calm(0) /\ Spare(0) /\ HasRoom /\ ~db.gc_request /\ db \in DbType
  BY DEF Idle, TypeOK
<1>4. a \in Addrs /\ Live(a) /\ KeyOf(a) = k /\ Holder(a)
  BY <1>0, <1>1, <1>3, FindFacts
<1>5. a = <<a[1], a[2]>> /\ a[1] \in Nat /\ a[2] \in Nat
  BY <1>4, AddrsFacts
<1>6. /\ db' \in DbType /\ db'.cache = [db.cache EXCEPT ![k] = a]
      /\ db'.gc_request = db.gc_request /\ db'.in_recovery_check = db.in_recovery_check
      /\ db'.last_is_complete_del = db.last_is_complete_del
  BY <1>1, <1>3, <1>5 DEF DbType
<1>7. want' \in [Keys -> SUBSET (Vals \union {None})] /\ TypeOK'
  BY <1>1, <1>2, <1>6 DEF TypeOK
<1>8. OldValues' = want
  <2>1. \A c \in Keys : (IF c = op'.key THEN op'.before ELSE want'[c]) = want[c]
    BY <1>1, <1>2
  <2>2. OldValues' = [c \in Keys |-> want[c]]
    BY <2>1 DEF OldValues
  <2> QED
    BY <1>2, <2>2
<1>9. InCall'
  <2>1. op'.key = k /\ op'.val = None /\ op'.before = want[k]
    BY <1>1
  <2>2. want'[k] = want[k] \union {None} /\ \A c \in Keys : c # k => want'[c] = want[c]
    BY <1>1, <1>2
  <2> QED
    BY <1>2, <2>1, <2>2 DEF InCall, One
<1>10. ~db'.last_is_complete_del
  BY <1>3, <1>6 DEF Steady
<1>11. Steady(OldValues)'
  BY <1>1, <1>3, <1>4, <1>6, <1>8, <1>10, CacheStep
<1>12. Calm(0)' /\ Spare(0)' /\ HasRoom' /\ Addrs' = Addrs /\ NodeAt(a)' = NodeAt(a)
  BY <1>1, <1>3, FlashKept
<1>13. Live(a)' /\ KeyOf(a)' = op'.key /\ a \in Addrs'
  BY <1>1, <1>4, <1>12, SameNode DEF Live
<1>14. todo' = ToDelete(a, Done)
  <2>1. DelTasks(<<a[1], a[2]>>, TRUE) \o Done = ToDelete(<<a[1], a[2]>>, Done)
    BY <1>5, SetStacks, DelStacks
  <2>2. todo' = DelTasks(a, TRUE) \o Done
    BY <1>1 DEF Done
  <2> QED
    BY <1>5, <2>1, <2>2
<1>15. Deleting'
  BY <1>1, <1>3, <1>6, <1>9, <1>12 DEF Deleting
<1>16. IsDelDelete'
  BY <1>11, <1>13, <1>14, <1>15 DEF IsDelDelete
<1> QED
  BY <1>1, <1>6, <1>7, <1>16, UpKept

LEMMA KvGetStep ==
    ASSUME TypeOK, Up, Idle, NEW k \in Keys, KvGet(k)
    PROVE  TypeOK' /\ Up' /\ Idle'
<1>0. PICK a : a = Find(k)
  OBVIOUS
<1>1. /\ UNCHANGED <<flash, todo, phase, op, want>> /\ a # NoAddr
      /\ db' = [db EXCEPT !.cache[k] = a]
  BY <1>0 DEF KvGet
<1>2. Steady(want) /\ Calm(0) /\ Spare(0) /\ HasRoom /\ ~db.gc_request /\ db \in DbType
  BY DEF Idle, TypeOK
<1>3. a \in Addrs /\ Holder(a) /\ a[1] \in Nat /\ a[2] \in Nat /\ a = <<a[1], a[2]>>
  BY <1>0, <1>1, <1>2, FindFacts, AddrsFacts
<1>4. /\ db' \in DbType /\ db'.cache = [db.cache EXCEPT ![k] = a]
      /\ db'.gc_request = db.gc_request /\ db'.in_recovery_check = db.in_recovery_check
      /\ db'.last_is_complete_del = db.last_is_complete_del
  BY <1>1, <1>2, <1>3 DEF DbType
<1>5. ~db'.last_is_complete_del
  BY <1>2, <1>4 DEF Steady
<1>6. Steady(want)'
  BY <1>1, <1>2, <1>3, <1>4, <1>5, CacheStep
<1>7. Calm(0)' /\ Spare(0)' /\ HasRoom'
  BY <1>1, <1>2, FlashKept
<1> QED
  BY <1>1, <1>2, <1>4, <1>6, <1>7, UpKept DEF Idle, TypeOK

LEMMA KvSetDefaultStep ==
    ASSUME TypeOK, Up, Idle, KvSetDefault
    PROVE  TypeOK' /\ Up' /\ IsDefault'
<1>1. /\ UNCHANGED <<flash, db, phase, op>> /\ op = NoOp
      /\ want' = [k \in Keys |-> want[k] \union {None}]
      /\ todo' = FormatAll \o ToFormatted
  BY DEF KvSetDefault, Idle, ToFormatted
<1>2. todo' = FormatFrom(1, ToFormatted) /\ 1 \in 1..(2 * NSectors)
  <2>1. ToFormatted \in Stack /\ 1 \in 1..(2 * NSectors)
    BY CheckStacks, KvdbAssumption DEF GcEmptySecThreshold
  <2>2. FormatAll \o ToFormatted = FormatFrom(1, ToFormatted)
    BY <2>1, FormatStacks
  <2> QED
    BY <1>1, <2>1, <2>2
<1>3. TypeOK' /\ \A k \in Keys : None \in want'[k]
  BY <1>1 DEF TypeOK
<1>4. ~db.gc_request /\ ~db.last_is_complete_del
  BY DEF Idle, Steady
<1>5. InDefault'
  BY <1>1, <1>3, <1>4 DEF InDefault
<1>6. FormattedTo(1)'
  <2>1. \A s \in Sectors : ~(2 * s < 1) /\ 2 * s # 1
    BY AddrsFacts
  <2> QED
    BY <2>1 DEF FormattedTo
<1> QED
  BY <1>1, <1>2, <1>3, <1>5, <1>6, UpKept DEF IsDefault

\* A formatted flash has no name.
LEMMA CleanIdle ==
    ASSUME AllClean', todo' = <<>>, op' = NoOp, ~db'.gc_request, ~db'.last_is_complete_del,
           want' = [k \in Keys |-> {None}], Slots \in Nat
    PROVE  Idle'
<1>1. \A k \in Keys : One(want'[k])
  BY DEF One
<1>2. /\ \A s \in Sectors : flash'[s] = Clean
      /\ \A s \in Sectors : Used(s)' = 0
  BY DEF AllClean, Used, Clean
<1>3. Addrs' = {}
  BY <1>2 DEF Addrs, Used
<1>4. Clean.ok /\ Clean.store = "EMPTY" /\ Clean.dirty = "FALSE"
  BY DEF Clean
<1>5. Shape(0, 0)' /\ Calm(0)'
  <2>1. \A s \in Sectors : s # 0
    BY KvdbAssumption DEF Sectors
  <2> QED
    BY <1>2, <1>4, <2>1 DEF Shape, StoreFor, Calm
<1>6. Data(want, NoAddr, NoAddr, NoAddr, NoAddr)'
  <2>1. NodesOK(NoAddr, NoAddr)' /\ CleanOK(NoAddr, NoAddr)' /\ CacheOK(NoAddr, NoAddr)'
    BY <1>3 DEF NodesOK, CleanOK, CacheOK, CacheHit
  <2>2. HoldersOK(want, NoAddr)'
    BY <1>3 DEF HoldersOK
  <2> QED
    BY <2>1, <2>2 DEF Data, NoAddr
<1>7. Spare(0)' /\ HasRoom'
  <2>1. 1 \in Sectors /\ 2 \in Sectors /\ 1 # 2 /\ 1 # 0
    BY KvdbAssumption DEF Sectors, GcEmptySecThreshold
  <2> QED
    BY <1>2, <2>1 DEF Spare, HasRoom, TwoSpare, Bare
<1> QED
  BY <1>1, <1>5, <1>6, <1>7 DEF Idle, Steady, NoAddr

LEMMA FormattedStep ==
    ASSUME TypeOK, Up, IsFormatted, Formatted
    PROVE  TypeOK' /\ Up' /\ Idle'
<1>1. /\ UNCHANGED <<flash, db, phase, op>> /\ todo' = <<>> /\ want' = [k \in Keys |-> {None}]
  BY DEF Formatted
<1>2. /\ AllClean /\ op = NoOp /\ ~db.gc_request /\ ~db.last_is_complete_del
  BY DEF IsFormatted, InDefault
<1>3. TypeOK'
  BY <1>1 DEF TypeOK
<1>4. AllClean'
  BY <1>1, <1>2, FlashKept
<1>5. Idle'
  BY <1>1, <1>2, <1>4, CleanIdle, KvdbAssumption
<1> QED
  BY <1>1, <1>3, <1>5, UpKept

(* The parts of a call that do not write.                                  *)
LEMMA NewKvStep ==
    ASSUME TypeOK, Up, IsNew, NewKv
    PROVE  TypeOK' /\ Up' /\ IsFind'
<1>1. /\ todo = <<Task("new_kv", 0, 0, 0)>> /\ Setting /\ ~db.gc_request
      /\ Steady(OldValues) /\ Spare(0) /\ HasRoom /\ db \in DbType
  BY DEF IsNew, TypeOK
<1>2. db.gc_request = FALSE /\ Shape(0, 0) /\ Calm(0)
  BY <1>1 DEF DbType, Steady, Setting
<1> DEFINE A == Alloc(FALSE)
<1>3. /\ A.flash = flash /\ ~A.gc /\ A.gc \in BOOLEAN
      /\ A.sector \in Sectors /\ Target(A.sector)
  BY <1>1, <1>2, AllocSet
<1>4. /\ flash' = A.flash
      /\ db' = [db EXCEPT !.gc_request = A.gc, !.cur_sector = A.sector]
      /\ A.sector # 0 => (todo' = <<Task("find_kv", 0, 0, 0)>> /\ UNCHANGED <<op, want>>)
      /\ UNCHANGED phase
  <2>1. Alloc(db.gc_request) = A
    BY <1>2
  <2> HIDE DEF A
  <2> QED
    BY <2>1 DEF NewKv
<1> HIDE DEF A
<1>5. A.sector # 0 /\ A.sector \in Nat
  BY <1>3, AddrsFacts
<1>6. /\ UNCHANGED <<flash, phase, op, want>> /\ todo' = <<Task("find_kv", 0, 0, 0)>>
  BY <1>3, <1>4, <1>5
<1>7. /\ db' \in DbType /\ db'.cur_sector = A.sector /\ ~db'.gc_request
      /\ db'.cache = db.cache /\ db'.last_is_complete_del = db.last_is_complete_del
      /\ db'.in_recovery_check = db.in_recovery_check
  BY <1>1, <1>3, <1>4, <1>5 DEF DbType
<1>8. TypeOK' /\ Setting' /\ OldValues' = OldValues
  BY <1>1, <1>2, <1>6, <1>7, FlashKept, CallKept DEF TypeOK
<1>9. Steady(OldValues)'
  BY <1>1, <1>6, <1>7, <1>8, SteadyKept
<1>10. Target(db.cur_sector)'
  <2>1. PICK d : d = A.sector
    OBVIOUS
  <2>2. Target(d)'
    BY <1>3, <1>6, <2>1, FlashKept
  <2> QED
    BY <1>7, <2>1, <2>2
<1> QED
  BY <1>6, <1>7, <1>8, <1>9, <1>10, UpKept DEF IsFind

LEMMA OldStack ==
    ASSUME TypeOK, NEW a \in Addrs \union {NoAddr}
    PROVE  a[1] \in Nat /\ a[2] \in Nat /\ a = <<a[1], a[2]>>
BY AddrsFacts DEF NoAddr

LEMMA CreateStack ==
    ASSUME NEW d \in Nat, NEW X \in Stack
    PROVE  /\ CreateTasks(d, NoAddr) \o X = ToMake(d, NoAddr, X)
           /\ ToMake(d, NoAddr, X) \in Stack
<1>1. PICK z \in Nat : z = 0
  OBVIOUS
<1>2. CreateTasks(d, <<z, z>>) \o X = ToMake(d, <<z, z>>, X) /\ ToMake(d, <<z, z>>, X) \in Stack
  <2>1. CreateTasks(d, <<z, z>>) \o X = ToMake(d, <<z, z>>, X)
    BY CreateStacks
  <2>2. ToMake(d, <<z, z>>, X) \in Stack
    BY MakeStacks
  <2> QED
    BY <2>1, <2>2
<1> QED
  BY <1>1, <1>2 DEF NoAddr

LEMMA FindKvStep ==
    ASSUME TypeOK, Up, IsFind, FindKv
    PROVE  TypeOK' /\ Up' /\ (IsSetMake' \/ IsSetMark')
<1>0. PICK a, d : a = Find(op.key) /\ d = db.cur_sector
  OBVIOUS
<1>1. /\ Setting /\ ~db.gc_request /\ Steady(OldValues) /\ Target(d) /\ db \in DbType
  BY <1>0 DEF IsFind, TypeOK
<1>2. /\ UNCHANGED <<flash, phase, op, want>>
      /\ todo' = (IF a = NoAddr THEN CreateTasks(d, NoAddr)
                  ELSE DelTasks(a, FALSE) \o CreateTasks(d, NoAddr) \o DelTasks(a, TRUE)) \o AfterSet
      /\ db' = [db EXCEPT !.cache[op.key] = IF a = NoAddr THEN @ ELSE a]
  BY <1>0, SetStacks DEF FindKv
<1>3. op.key \in Keys /\ d \in Sectors /\ Spare(d) /\ Used(d) < Slots
  BY <1>1 DEF Setting, InCall, Target
<1>4. /\ a = NoAddr \/ (a \in Addrs /\ Live(a) /\ KeyOf(a) = op.key /\ Holder(a))
      /\ \A b \in Addrs : Holder(b) /\ KeyOf(b) = op.key => b = a
  BY <1>0, <1>1, <1>3, FindFacts
<1>5. a[1] \in Nat /\ a[2] \in Nat /\ a = <<a[1], a[2]>>
  BY <1>4, OldStack
<1>6. /\ db' \in DbType /\ db'.gc_request = db.gc_request
      /\ db'.cache = IF a = NoAddr THEN db.cache ELSE [db.cache EXCEPT ![op.key] = a]
      /\ db'.last_is_complete_del = db.last_is_complete_del
      /\ db'.in_recovery_check = db.in_recovery_check
  BY <1>1, <1>2, <1>3, <1>5 DEF DbType
<1>7. ~db'.last_is_complete_del /\ ~db'.gc_request
  BY <1>1, <1>6 DEF Steady
<1>8. TypeOK' /\ Setting' /\ OldValues' = OldValues
  BY <1>1, <1>2, <1>6, FlashKept, CallKept DEF TypeOK, Setting
<1>9. Up'
  BY <1>2, <1>6, UpKept
<1>10. /\ Addrs' = Addrs /\ \A b : NodeAt(b)' = NodeAt(b)
       /\ Target(d)' /\ Spare(d)' /\ Used(d)' = Used(d)
  BY <1>1, <1>2, <1>3, FlashKept
<1>11. CreateTasks(d, NoAddr) \in Stack /\ DelTasks(a, TRUE) \in Stack /\ DelTasks(a, FALSE) \in Stack
  <2>1. d \in Nat
    BY <1>3, AddrsFacts
  <2> QED
    BY <1>5, <2>1 DEF CreateTasks, DelTasks, NoAddr, Stack, Task, Tasks, Tags
<1>12. CASE a = NoAddr
  <2>1. todo' = ToMake(d, NoAddr, Replacing(NoAddr, AfterSet))
    <3>1. CreateTasks(d, NoAddr) \o AfterSet = ToMake(d, NoAddr, AfterSet)
      BY <1>3, AddrsFacts, SetStacks, CreateStack
    <3> QED
      BY <1>2, <1>12, <3>1 DEF Replacing
  <2>2. Steady(OldValues)'
    BY <1>2, <1>6, <1>8, <1>12, <1>1, SteadyKept
  <2>3. OnlyOld(NoAddr, op.key)'
    <3>1. \A b \in Addrs : ~(Holder(b) /\ KeyOf(b) = op.key)
      BY <1>4, <1>12, AddrsFacts
    <3>2. \A b \in Addrs : (Holder(b)' <=> Holder(b)) /\ KeyOf(b)' = KeyOf(b)
      BY <1>10, SameNode
    <3> QED
      BY <1>2, <1>7, <1>10, <3>1, <3>2 DEF OnlyOld, NoAddr
  <2>4. Allotted(NoAddr, d, op.key, OldValues, 0)'
    BY <1>3, <1>10, <2>2, <2>3 DEF Allotted, Steady
  <2>5. SetMake(NoAddr, d, 0)'
    BY <1>7, <1>8, <1>10, <2>4 DEF SetMake
  <2> QED
    BY <1>3, <1>8, <1>9, <2>1, <2>5 DEF IsSetMake, Olds, NoAddr
<1>13. CASE a # NoAddr
  <2>1. todo' = ToMark(a, MakeFor(a, d))
    <3> DEFINE C == CreateTasks(d, NoAddr)
               D == DelTasks(a, TRUE)
               M == DelTasks(a, FALSE)
    <3>1. C \in Stack /\ D \in Stack /\ M \in Stack /\ AfterSet \in Stack
      BY <1>11, SetStacks
    <3>2. /\ D \o AfterSet = ToDelete(a, AfterSet) /\ ToDelete(a, AfterSet) \in Stack
      <4>1. /\ DelTasks(<<a[1], a[2]>>, TRUE) \o AfterSet = ToDelete(<<a[1], a[2]>>, AfterSet)
            /\ ToDelete(<<a[1], a[2]>>, AfterSet) \in Stack
        <5>1. a[1] \in Nat /\ a[2] \in Nat /\ AfterSet \in Stack
          BY <1>5, SetStacks
        <5>2. DelTasks(<<a[1], a[2]>>, TRUE) \o AfterSet = ToDelete(<<a[1], a[2]>>, AfterSet)
          BY <5>1, DelStacks
        <5> QED
          BY <5>1, <5>2, NodeStacks
      <4> QED
        BY <1>5, <4>1
    <3>3. /\ C \o ToDelete(a, AfterSet) = ToMake(d, NoAddr, ToDelete(a, AfterSet))
          /\ ToMake(d, NoAddr, ToDelete(a, AfterSet)) \in Stack
      <4>1. d \in Nat
        BY <1>3, AddrsFacts
      <4> QED
        BY <3>2, <4>1, CreateStack
    <3>4. ToMake(d, NoAddr, ToDelete(a, AfterSet)) = MakeFor(a, d)
      BY <1>13 DEF MakeFor, Replacing
    <3>5. M \o MakeFor(a, d) = ToMark(a, MakeFor(a, d))
      <4>1. DelTasks(<<a[1], a[2]>>, FALSE) \o MakeFor(a, d) = ToMark(<<a[1], a[2]>>, MakeFor(a, d))
        <5>1. a[1] \in Nat /\ a[2] \in Nat /\ MakeFor(a, d) \in Stack
          BY <1>5, <3>3, <3>4
        <5> QED
          BY <5>1, DelStacks
      <4> QED
        BY <1>5, <4>1
    <3>6. todo' = ((M \o C) \o D) \o AfterSet
      BY <1>2, <1>13
    <3> HIDE DEF C, D, M
    <3>7. ((M \o C) \o D) \o AfterSet = M \o (C \o (D \o AfterSet))
      <4>1. Cat(Cat(Cat(M, C), D), AfterSet) = Cat(M, Cat(C, Cat(D, AfterSet)))
        BY <3>1, FourStacks
      <4> QED
        BY <4>1 DEF Cat
    <3> QED
      BY <3>2, <3>3, <3>4, <3>5, <3>6, <3>7
  <2>2. Steady(OldValues)'
    BY <1>1, <1>2, <1>3, <1>4, <1>6, <1>7, <1>8, <1>13, CacheStep
  <2>3. Live(a)' /\ KeyOf(a)' = op'.key /\ a \in Addrs'
    BY <1>2, <1>4, <1>10, <1>13, SameNode DEF Live
  <2> QED
    BY <1>3, <1>7, <1>8, <1>9, <1>10, <2>1, <2>2, <2>3 DEF IsSetMark
<1> QED
  BY <1>12, <1>13

LEMMA GcAfterStep ==
    ASSUME TypeOK, Up, IsAfterSet, GcAfter
    PROVE  TypeOK' /\ Up' /\ (IsDone' \/ IsCollect')
<1>1. /\ todo = AfterSet /\ Setting /\ Steady(NewValues) /\ Spare(0) /\ Settled
  BY DEF IsAfterSet
<1>2. /\ UNCHANGED <<flash, db, phase, op, want>>
      /\ todo' = (IF db.gc_request THEN <<Task("gc_collect", 0, 0, 0)>> ELSE <<>>) \o Done
  BY <1>1, SetStacks DEF GcAfter, Rest
<1>3. TypeOK' /\ InCall' /\ NewValues' = NewValues /\ Up'
  BY <1>1, <1>2, CallKept, UpKept DEF TypeOK, Setting
<1>4. Steady(NewValues)' /\ Spare(0)' /\ Calm(0)'
  BY <1>1, <1>2, <1>3, FlashKept, SteadyKept DEF Setting
<1>5. CASE db.gc_request
  BY <1>2, <1>3, <1>4, <1>5 DEF IsCollect, InGc, Push
<1>6. CASE ~db.gc_request
  <2>1. HasRoom'
    BY <1>1, <1>2, <1>6, FlashKept DEF Settled
  <2>2. todo' = Done
    BY <1>2, <1>6, SetStacks, EmptyConcat
  <2> QED
    BY <1>2, <1>3, <1>4, <1>6, <2>1, <2>2 DEF IsDone
<1> QED
  BY <1>5, <1>6

LEMMA ReturnStep ==
    ASSUME TypeOK, Up, IsDone, Return
    PROVE  TypeOK' /\ Up' /\ Idle'
<1>1. /\ InCall /\ ~db.gc_request /\ Steady(NewValues) /\ Calm(0) /\ Spare(0) /\ HasRoom
  BY DEF IsDone
<1>2. /\ UNCHANGED <<flash, db, phase>> /\ todo' = <<>> /\ op' = NoOp
      /\ want' = [want EXCEPT ![op.key] = {op.val}]
  BY DEF Return, End
<1>3. want \in [Keys -> SUBSET (Vals \union {None})] /\ op.key \in Keys /\ op.val \in Vals \union {None}
  BY <1>1 DEF TypeOK, InCall
<1>4. want' = NewValues
  <2>1. \A c \in Keys : want'[c] = IF c = op.key THEN {op.val} ELSE want[c]
    BY <1>2, <1>3
  <2>2. want' = [c \in Keys |-> want'[c]]
    BY <1>2, <1>3
  <2> QED
    BY <2>1, <2>2 DEF NewValues
<1>5. TypeOK' /\ \A c \in Keys : One(want'[c])
  <2>1. \A c \in Keys : c # op.key => One(want[c])
    BY <1>1 DEF InCall
  <2> QED
    BY <1>2, <1>3, <2>1 DEF One, TypeOK
<1>6. Steady(want)' /\ Calm(0)' /\ Spare(0)' /\ HasRoom'
  BY <1>1, <1>2, <1>4, FlashKept, SteadyKept
<1> QED
  BY <1>1, <1>2, <1>5, <1>6, UpKept DEF Idle


-----------------------------------------------------------------------------
(* The task on top and the rest, for each constructor.                     *)
LEMMA PushTop ==
    ASSUME NEW t \in Tasks, NEW X \in Stack, todo = Push(t, X)
    PROVE  Top = t /\ Rest = X
BY PushFacts DEF Top, Rest

LEMMA NodeTops ==
    ASSUME TypeOK, NEW a \in Addrs, NEW X \in Stack
    PROVE  /\ todo = ToMark(a, X) => Top.s = a[1] /\ Top.i = a[2] /\ Rest = ToDirty(a, X)
           /\ todo = ToDelete(a, X) => Top.s = a[1] /\ Top.i = a[2] /\ Rest = ToDirty(a, X)
           /\ todo = ToDirty(a, X) => Top.s = a[1] /\ Rest = X
<1>1. a = <<a[1], a[2]>> /\ a[1] \in Nat /\ a[2] \in Nat
  BY AddrsFacts
<1>2. PICK s \in Nat, i \in Nat : s = a[1] /\ i = a[2]
  BY <1>1
<1>3. a = <<s, i>>
  BY <1>1, <1>2
<1>4. ToDirty(a, X) \in Stack
  BY <1>3, NodeStacks
<1>5. /\ Task("dirty", s, 0, 0) \in Tasks /\ Task("pre_delete", s, i, 0) \in Tasks
      /\ Task("delete", s, i, 0) \in Tasks
  BY DEF Task, Tasks, Tags
<1>6. ASSUME todo = ToMark(a, X) PROVE Top = Task("pre_delete", s, i, 0) /\ Rest = ToDirty(a, X)
  BY <1>2, <1>4, <1>5, <1>6, PushTop DEF ToMark
<1>7. ASSUME todo = ToDelete(a, X) PROVE Top = Task("delete", s, i, 0) /\ Rest = ToDirty(a, X)
  BY <1>2, <1>4, <1>5, <1>7, PushTop DEF ToDelete
<1>8. ASSUME todo = ToDirty(a, X) PROVE Top = Task("dirty", s, 0, 0) /\ Rest = X
  BY <1>2, <1>5, <1>8, PushTop DEF ToDirty
<1>9. \A t : Task(t, s, i, 0).s = s /\ Task(t, s, i, 0).i = i /\ Task(t, s, 0, 0).s = s
  BY DEF Task
<1> QED
  BY <1>2, <1>6, <1>7, <1>8, <1>9

LEMMA MakeTops ==
    ASSUME NEW d \in Nat, NEW s \in Nat, NEW i \in Nat, NEW X \in Stack
    PROVE  /\ todo = ToMake(d, <<s, i>>, X) =>
                 Top.s = s /\ Top.i = i /\ Top.d = d /\ Rest = ToWrite(d, <<s, i>>, X)
           /\ todo = ToWrite(d, <<s, i>>, X) =>
                 Top.s = s /\ Top.i = i /\ Top.d = d /\ Rest = ToHeader(d, <<s, i>>, X)
           /\ todo = ToHeader(d, <<s, i>>, X) => Top.d = d /\ Rest = ToBody(d, <<s, i>>, X)
           /\ todo = ToBody(d, <<s, i>>, X) => Top.d = d /\ Rest = ToCommit(d, <<s, i>>, X)
           /\ todo = ToCommit(d, <<s, i>>, X) => Top.s = s /\ Top.i = i /\ Top.d = d /\ Rest = X
<1>1. /\ ToWrite(d, <<s, i>>, X) \in Stack /\ ToHeader(d, <<s, i>>, X) \in Stack
      /\ ToBody(d, <<s, i>>, X) \in Stack /\ ToCommit(d, <<s, i>>, X) \in Stack
  BY MakeStacks
<1>2. /\ Task("commit", s, i, d) \in Tasks /\ Task("body", 0, 0, d) \in Tasks
      /\ Task("header", 0, 0, d) \in Tasks /\ Task("pre_write", s, i, d) \in Tasks
      /\ Task("sec_status", s, i, d) \in Tasks
  BY DEF Task, Tasks, Tags
<1>3. <<s, i>>[1] = s /\ <<s, i>>[2] = i
  OBVIOUS
<1>4. /\ ToMake(d, <<s, i>>, X) = Push(Task("sec_status", s, i, d), ToWrite(d, <<s, i>>, X))
      /\ ToWrite(d, <<s, i>>, X) = Push(Task("pre_write", s, i, d), ToHeader(d, <<s, i>>, X))
      /\ ToHeader(d, <<s, i>>, X) = Push(Task("header", 0, 0, d), ToBody(d, <<s, i>>, X))
      /\ ToBody(d, <<s, i>>, X) = Push(Task("body", 0, 0, d), ToCommit(d, <<s, i>>, X))
      /\ ToCommit(d, <<s, i>>, X) = Push(Task("commit", s, i, d), X)
  <2>1. ToMake(d, <<s, i>>, X) = Push(Task("sec_status", s, i, d), ToWrite(d, <<s, i>>, X))
    BY <1>3 DEF ToMake
  <2>2. ToWrite(d, <<s, i>>, X) = Push(Task("pre_write", s, i, d), ToHeader(d, <<s, i>>, X))
    BY <1>3 DEF ToWrite
  <2>3. ToHeader(d, <<s, i>>, X) = Push(Task("header", 0, 0, d), ToBody(d, <<s, i>>, X))
    BY DEF ToHeader
  <2>4. ToBody(d, <<s, i>>, X) = Push(Task("body", 0, 0, d), ToCommit(d, <<s, i>>, X))
    BY DEF ToBody
  <2>5. ToCommit(d, <<s, i>>, X) = Push(Task("commit", s, i, d), X)
    BY <1>3 DEF ToCommit
  <2> QED
    BY <2>1, <2>2, <2>3, <2>4, <2>5
<1>5. \A t : Task(t, s, i, d).s = s /\ Task(t, s, i, d).i = i /\ Task(t, s, i, d).d = d
            /\ Task(t, 0, 0, d).d = d
  BY DEF Task
<1>6. ASSUME todo = ToMake(d, <<s, i>>, X)
      PROVE  Top = Task("sec_status", s, i, d) /\ Rest = ToWrite(d, <<s, i>>, X)
  BY <1>1, <1>2, <1>4, <1>6, PushTop
<1>7. ASSUME todo = ToWrite(d, <<s, i>>, X)
      PROVE  Top = Task("pre_write", s, i, d) /\ Rest = ToHeader(d, <<s, i>>, X)
  BY <1>1, <1>2, <1>4, <1>7, PushTop
<1>8. ASSUME todo = ToHeader(d, <<s, i>>, X)
      PROVE  Top = Task("header", 0, 0, d) /\ Rest = ToBody(d, <<s, i>>, X)
  BY <1>1, <1>2, <1>4, <1>8, PushTop
<1>9. ASSUME todo = ToBody(d, <<s, i>>, X)
      PROVE  Top = Task("body", 0, 0, d) /\ Rest = ToCommit(d, <<s, i>>, X)
  BY <1>1, <1>2, <1>4, <1>9, PushTop
<1>10. ASSUME todo = ToCommit(d, <<s, i>>, X)
       PROVE  Top = Task("commit", s, i, d) /\ Rest = X
  BY <1>2, <1>4, <1>10, PushTop
<1> QED
  BY <1>5, <1>6, <1>7, <1>8, <1>9, <1>10

\* A call's own value comes from no address.
LEMMA SetMakeTops ==
    ASSUME NEW d \in Nat, NEW X \in Stack
    PROVE  /\ todo = ToMake(d, NoAddr, X) => Top.d = d /\ Rest = ToWrite(d, NoAddr, X)
           /\ todo = ToWrite(d, NoAddr, X) => Top.s = 0 /\ Top.d = d /\ Rest = ToHeader(d, NoAddr, X)
           /\ todo = ToHeader(d, NoAddr, X) => Top.d = d /\ Rest = ToBody(d, NoAddr, X)
           /\ todo = ToBody(d, NoAddr, X) => Top.d = d /\ Rest = ToCommit(d, NoAddr, X)
           /\ todo = ToCommit(d, NoAddr, X) => Top.s = 0 /\ Top.d = d /\ Rest = X
<1>1. PICK z \in Nat : z = 0
  OBVIOUS
<1>2. NoAddr = <<z, z>>
  BY <1>1 DEF NoAddr
<1>3. /\ todo = ToMake(d, <<z, z>>, X) => Top.d = d /\ Rest = ToWrite(d, <<z, z>>, X)
      /\ todo = ToWrite(d, <<z, z>>, X) => Top.s = z /\ Top.d = d /\ Rest = ToHeader(d, <<z, z>>, X)
  BY MakeTops
<1>4. /\ todo = ToHeader(d, <<z, z>>, X) => Top.d = d /\ Rest = ToBody(d, <<z, z>>, X)
      /\ todo = ToBody(d, <<z, z>>, X) => Top.d = d /\ Rest = ToCommit(d, <<z, z>>, X)
      /\ todo = ToCommit(d, <<z, z>>, X) => Top.s = z /\ Top.d = d /\ Rest = X
  BY MakeTops
<1> QED
  BY <1>1, <1>2, <1>3, <1>4

(* Only a finite part of the memory changes.                               *)
LEMMA SpaceOfHeaders ==
    ASSUME \A s \in Sectors : SameHeader(s)
    PROVE  \A s \in Sectors : Used(s)' = Used(s)
BY DEF SameHeader

LEMMA OnlyMarked ==
    ASSUME TypeOK, NEW E, NEW a \in Addrs, NEW last, Data(E, a, NoAddr, NoAddr, last),
           db.last_is_complete_del
    PROVE  OnlyOld(a, KeyOf(a))
<1>1. NoAddr \notin Addrs
  BY AddrsFacts
<1>2. Full(a) /\ State(a) = "PRE_DELETE"
  BY <1>1 DEF Data, NodesOK
<1>3. Holder(a)
  BY <1>2 DEF Holder
<1>4. \A b \in Addrs : Holder(b) /\ KeyOf(b) = KeyOf(a) => b = a
  BY <1>1, <1>3 DEF Data, HoldersOK
<1> QED
  BY <1>1, <1>4 DEF OnlyOld

LEMMA OnlyOldKept ==
    ASSUME Addrs' = Addrs, \A b \in Addrs : NodeAt(b)' = NodeAt(b),
           db'.last_is_complete_del = db.last_is_complete_del,
           NEW old, NEW k, OnlyOld(old, k)
    PROVE  OnlyOld(old, k)'
<1>1. \A b \in Addrs : (Holder(b)' <=> Holder(b)) /\ KeyOf(b)' = KeyOf(b)
  BY SameNode
<1> QED
  BY <1>1 DEF OnlyOld, NoAddr

(* A set marks the old node first.                                         *)
LEMMA SetMarkStep ==
    ASSUME TypeOK, Up, IsSetMark, PreDelete
    PROVE  TypeOK' /\ Up' /\ IsSetMarked'
<1>1. PICK a \in Addrs, d \in Sectors :
         /\ todo = ToMark(a, MakeFor(a, d)) /\ Setting /\ ~db.gc_request
         /\ Target(d) /\ Steady(OldValues) /\ Live(a) /\ KeyOf(a) = op.key
  BY DEF IsSetMark
<1>2. MakeFor(a, d) \in Stack
  BY SetTails DEF Olds
<1>3. Top.s = a[1] /\ Top.i = a[2] /\ Rest = ToDirty(a, MakeFor(a, d))
  BY <1>1, <1>2, NodeTops
<1>4. /\ flash' = [flash EXCEPT ![a[1]].kv[a[2]].status = "PRE_DELETE"]
      /\ db' = [db EXCEPT !.last_is_complete_del = TRUE]
      /\ todo' = ToDirty(a, MakeFor(a, d)) /\ UNCHANGED <<phase, op, want>>
  BY <1>3 DEF PreDelete, Steps
<1>5. /\ flash' \in [Sectors -> Sector] /\ db' \in DbType
      /\ Marked(a, OldValues)' /\ KeyOf(a)' = KeyOf(a)
      /\ \A s \in Sectors : SameHeader(s)
  <2>1. PICK E : E = OldValues
    OBVIOUS
  <2>2. /\ flash' \in [Sectors -> Sector] /\ db' \in DbType
        /\ Marked(a, E)' /\ KeyOf(a)' = KeyOf(a)
        /\ \A s \in Sectors : SameHeader(s)
    BY <1>1, <1>4, <2>1, MarkStep
  <2>3. OldValues' = E
    BY <1>4, <2>1, CallKept
  <2> QED
    BY <2>2, <2>3
<1>6. Target(d)' /\ Calm(0)'
  BY <1>1, <1>5, HeaderKept, SpaceKept, SpaceOfHeaders DEF Setting
<1>7. TypeOK' /\ Setting'
  BY <1>1, <1>4, <1>5, <1>6, CallKept
<1>8. db'.gc_request = db.gc_request /\ db'.in_recovery_check = db.in_recovery_check /\ db \in DbType
  BY <1>4 DEF TypeOK, DbType
<1>9. a \in Addrs'
  BY <1>5 DEF Marked
<1> QED
  BY <1>1, <1>4, <1>5, <1>6, <1>7, <1>8, <1>9, UpKept DEF IsSetMarked

LEMMA SetMarkedStep ==
    ASSUME TypeOK, Up, IsSetMarked, Dirty
    PROVE  TypeOK' /\ Up' /\ IsSetMake'
<1>1. PICK a \in Addrs, d \in Sectors :
         /\ todo = ToDirty(a, MakeFor(a, d)) /\ Setting /\ ~db.gc_request
         /\ Target(d) /\ Marked(a, OldValues) /\ KeyOf(a) = op.key
  BY DEF IsSetMarked
<1>2. MakeFor(a, d) \in Stack
  BY SetTails DEF Olds
<1>3. Top.s = a[1] /\ Rest = MakeFor(a, d) /\ a[1] \in Sectors
  BY <1>1, <1>2, NodeTops, AddrsFacts
<1>4. /\ flash' = [flash EXCEPT ![a[1]].dirty = IF @ = "FALSE" THEN "TRUE" ELSE @]
      /\ UNCHANGED db /\ todo' = MakeFor(a, d) /\ UNCHANGED <<phase, op, want>>
  BY <1>3 DEF Dirty, Steps
<1>5. PICK E : E = OldValues
  OBVIOUS
<1>6. E = OldValues'
  BY <1>4, <1>5, CallKept
<1>7. /\ Shape(0, 0) /\ Data(E, a, NoAddr, NoAddr, a) /\ db.last_is_complete_del
  BY <1>1, <1>5 DEF Marked
<1>8. /\ flash' \in [Sectors -> Sector] /\ Shape(0, 0)'
      /\ Data(E, a, NoAddr, NoAddr, NoAddr)'
      /\ Addrs' = Addrs /\ \A b \in Addrs : NodeAt(b)' = NodeAt(b)
      /\ \A r \in Sectors : Used(r)' = Used(r)
      /\ \A x : Calm(x) => Calm(x)'
  BY <1>3, <1>4, <1>7, DirtyStep
<1>9. TypeOK' /\ Setting'
  BY <1>1, <1>4, <1>8, CallKept DEF TypeOK, Setting
<1>10. Spare(d)' /\ (Used(d) < Slots)'
  BY <1>1, <1>8, SpaceKept DEF Target
<1>11. OnlyOld(a, op.key)'
  <2>1. OnlyOld(a, KeyOf(a))
    BY <1>7, OnlyMarked
  <2>2. PICK k : k = KeyOf(a) /\ k = op'.key
    BY <1>1, <1>4
  <2>3. OnlyOld(a, k)'
    BY <1>4, <1>8, <2>1, <2>2, OnlyOldKept
  <2> QED
    BY <2>2, <2>3
<1>12. Data(OldValues, a, NoAddr, NoAddr, NoAddr)'
  BY <1>6, <1>8 DEF NoAddr
<1>13. Allotted(a, d, op.key, OldValues, 0)'
  BY <1>8, <1>10, <1>11, <1>12 DEF Allotted, NoAddr
<1>14. SetMake(a, d, 0)'
  BY <1>1, <1>4, <1>9, <1>10, <1>13 DEF SetMake
<1>15. a \in Olds'
  BY <1>8 DEF Olds
<1> QED
  BY <1>4, <1>9, <1>14, <1>15, UpKept DEF IsSetMake, MakeFor, NoAddr

LEMMA SetDeletedStep ==
    ASSUME TypeOK, Up, IsSetDeleted, Dirty
    PROVE  TypeOK' /\ Up' /\ IsAfterSet'
<1>1. PICK a \in Addrs :
         todo = ToDirty(a, AfterSet) /\ Setting /\ Deleted(a, NewValues) /\ Spare(0) /\ Settled
  BY DEF IsSetDeleted
<1>2. Top.s = a[1] /\ Rest = AfterSet /\ a[1] \in Sectors
  BY <1>1, SetStacks, NodeTops, AddrsFacts
<1>3. /\ flash' = [flash EXCEPT ![a[1]].dirty = IF @ = "FALSE" THEN "TRUE" ELSE @]
      /\ UNCHANGED db /\ todo' = AfterSet /\ UNCHANGED <<phase, op, want>>
  BY <1>2 DEF Dirty, Steps
<1>4. PICK E : E = NewValues
  OBVIOUS
<1>5. E = NewValues'
  BY <1>3, <1>4, CallKept
<1>6. /\ Shape(0, 0) /\ Data(E, NoAddr, NoAddr, NoAddr, a) /\ ~db.last_is_complete_del
  BY <1>1, <1>4 DEF Deleted
<1>7. /\ flash' \in [Sectors -> Sector] /\ Shape(0, 0)'
      /\ Data(E, NoAddr, NoAddr, NoAddr, NoAddr)'
      /\ \A r \in Sectors : Used(r)' = Used(r)
      /\ \A x : Calm(x) => Calm(x)'
  BY <1>2, <1>3, <1>6, DirtyStep
<1>8. TypeOK' /\ Setting'
  BY <1>1, <1>3, <1>7, CallKept DEF TypeOK, Setting
<1>9. Spare(0)' /\ (HasRoom => HasRoom')
  BY <1>1, <1>7, SpaceKept
<1>10. Settled'
  BY <1>1, <1>3, <1>9 DEF Settled
<1>11. Steady(NewValues)'
  BY <1>3, <1>5, <1>6, <1>7 DEF Steady, NoAddr
<1> QED
  BY <1>3, <1>8, <1>9, <1>10, <1>11, UpKept DEF IsAfterSet

LEMMA DelDeletedStep ==
    ASSUME TypeOK, Up, IsDelDeleted, Dirty
    PROVE  TypeOK' /\ Up' /\ IsDone'
<1>1. PICK a \in Addrs : todo = ToDirty(a, Done) /\ Deleting /\ Deleted(a, NewValues)
  BY DEF IsDelDeleted
<1>2. Top.s = a[1] /\ Rest = Done /\ a[1] \in Sectors
  BY <1>1, SetStacks, NodeTops, AddrsFacts
<1>3. /\ flash' = [flash EXCEPT ![a[1]].dirty = IF @ = "FALSE" THEN "TRUE" ELSE @]
      /\ UNCHANGED db /\ todo' = Done /\ UNCHANGED <<phase, op, want>>
  BY <1>2 DEF Dirty, Steps
<1>4. PICK E : E = NewValues
  OBVIOUS
<1>5. E = NewValues'
  BY <1>3, <1>4, CallKept
<1>6. /\ Shape(0, 0) /\ Data(E, NoAddr, NoAddr, NoAddr, a) /\ ~db.last_is_complete_del
  BY <1>1, <1>4 DEF Deleted
<1>7. /\ flash' \in [Sectors -> Sector] /\ Shape(0, 0)'
      /\ Data(E, NoAddr, NoAddr, NoAddr, NoAddr)'
      /\ \A r \in Sectors : Used(r)' = Used(r)
      /\ \A x : Calm(x) => Calm(x)'
  BY <1>2, <1>3, <1>6, DirtyStep
<1>8. TypeOK' /\ InCall'
  BY <1>1, <1>3, <1>7, CallKept DEF TypeOK, Deleting
<1>9. Spare(0)' /\ HasRoom' /\ Calm(0)'
  BY <1>1, <1>7, SpaceKept DEF Deleting
<1>10. Steady(NewValues)'
  BY <1>3, <1>5, <1>6, <1>7 DEF Steady, NoAddr
<1> QED
  BY <1>1, <1>3, <1>8, <1>9, <1>10, UpKept DEF IsDone, Deleting

(* It makes the new node.                                                  *)
LEMMA SetMakeStep ==
    ASSUME TypeOK, Up, IsSetMake, UpdateSecStatus
    PROVE  TypeOK' /\ Up' /\ IsSetPre'
<1>1. PICK a \in Olds, d \in Sectors :
         todo = ToMake(d, NoAddr, Replacing(a, AfterSet)) /\ SetMake(a, d, 0)
  BY DEF IsSetMake
<1>2. Replacing(a, AfterSet) \in Stack /\ d \in Nat
  BY SetTails, AddrsFacts
<1>3. Top.d = d /\ Rest = ToWrite(d, NoAddr, Replacing(a, AfterSet))
  BY <1>1, <1>2, SetMakeTops
<1>4. /\ flash' = [flash EXCEPT ![d].store = IF @ = "EMPTY" THEN "USING"
                       ELSE IF Len(flash[d].kv) + 1 = Slots THEN "FULL" ELSE @]
      /\ UNCHANGED db /\ todo' = ToWrite(d, NoAddr, Replacing(a, AfterSet))
      /\ UNCHANGED <<phase, op, want>>
  BY <1>3 DEF UpdateSecStatus, Steps
<1>5. PICK E, k : E = OldValues /\ k = op.key
  OBVIOUS
<1>6. E = OldValues' /\ k = op'.key
  BY <1>4, <1>5, CallKept
<1>7. /\ Setting /\ ~db.gc_request /\ Spare(d) /\ Allotted(a, d, k, E, 0)
  BY <1>1, <1>5 DEF SetMake
<1>8. /\ flash' \in [Sectors -> Sector] /\ Allotted(a, d, k, E, d)'
      /\ Addrs' = Addrs
      /\ \A r \in Sectors : Used(r)' = Used(r) /\ flash'[r].dirty = flash[r].dirty
  BY <1>4, <1>7, SecStatusStep
<1>9. Calm(0)' /\ Spare(d)'
  BY <1>7, <1>8, SpaceKept DEF Calm, Setting
<1>10. TypeOK' /\ Setting'
  BY <1>4, <1>7, <1>8, <1>9, CallKept DEF TypeOK
<1>11. SetMake(a, d, d)'
  BY <1>4, <1>6, <1>7, <1>8, <1>9, <1>10 DEF SetMake
<1>12. a \in Olds'
  BY <1>8 DEF Olds, NoAddr
<1> QED
  BY <1>4, <1>10, <1>11, <1>12, UpKept DEF IsSetPre, NoAddr

LEMMA SetPreStep ==
    ASSUME TypeOK, Up, IsSetPre, PreWrite
    PROVE  TypeOK' /\ Up' /\ IsSetHeader'
<1>1. PICK a \in Olds, d \in Sectors :
         todo = ToWrite(d, NoAddr, Replacing(a, AfterSet)) /\ SetMake(a, d, d)
  BY DEF IsSetPre
<1>2. Replacing(a, AfterSet) \in Stack /\ d \in Nat
  BY SetTails, AddrsFacts
<1>3. Top.s = 0 /\ Top.d = d /\ Rest = ToHeader(d, NoAddr, Replacing(a, AfterSet))
  BY <1>1, <1>2, SetMakeTops
<1>4. PICK E, k, v : E = OldValues /\ k = op.key /\ v = op.val
  OBVIOUS
<1>5. /\ flash' = [flash EXCEPT ![d].kv = Append(@, [key |-> k, val |-> v,
                                                     status |-> "PRE_WRITE", data |-> "none"])]
      /\ UNCHANGED db /\ todo' = ToHeader(d, NoAddr, Replacing(a, AfterSet))
      /\ UNCHANGED <<phase, op, want>>
  BY <1>3, <1>4 DEF PreWrite, Steps
<1>6. E = OldValues' /\ k = op'.key /\ v = op'.val
  BY <1>4, <1>5, CallKept
<1>7. /\ Setting /\ ~db.gc_request /\ Spare(d) /\ Allotted(a, d, k, E, d)
  BY <1>1, <1>4 DEF SetMake
<1>8. k \in Keys /\ v \in Vals
  BY <1>4, <1>7 DEF Setting, InCall
<1>9. /\ flash' \in [Sectors -> Sector] /\ Making(a, d, k, v, E, "none")'
      /\ Addrs \subseteq Addrs' /\ \A b \in Addrs : NodeAt(b)' = NodeAt(b)
      /\ Used(d)' = Used(d) + 1 /\ \A s \in Sectors : s # d => Used(s)' = Used(s)
      /\ \A s \in Sectors : flash'[s].dirty = flash[s].dirty
  <2>1. Allotted(a, d, k, E, d)
    BY <1>7
  <2>2. /\ flash' = [flash EXCEPT ![d].kv = Append(@, [key |-> k, val |-> v,
                                                      status |-> "PRE_WRITE", data |-> "none"])]
        /\ UNCHANGED db
    BY <1>5
  <2> QED
    BY <1>8, <2>1, <2>2, PreWriteStep, ZenonT(30)
<1>10. Calm(0)' /\ Spare(d)'
  BY <1>7, <1>9 DEF Calm, Setting, Spare, Bare
<1>11. TypeOK' /\ Setting'
  BY <1>5, <1>7, <1>9, <1>10, CallKept DEF TypeOK
<1>12. SetWrite(a, d, "none")'
  BY <1>5, <1>6, <1>7, <1>9, <1>10, <1>11 DEF SetWrite
<1>13. a \in Olds'
  BY <1>9 DEF Olds, NoAddr
<1> QED
  BY <1>5, <1>11, <1>12, <1>13, UpKept DEF IsSetHeader, NoAddr

LEMMA SetHeaderStep ==
    ASSUME TypeOK, Up, IsSetHeader, Header
    PROVE  TypeOK' /\ Up' /\ IsSetBody'
<1>1. PICK a \in Olds, d \in Sectors :
         todo = ToHeader(d, NoAddr, Replacing(a, AfterSet)) /\ SetWrite(a, d, "none")
  BY DEF IsSetHeader
<1>2. Replacing(a, AfterSet) \in Stack /\ d \in Nat
  BY SetTails, AddrsFacts
<1>3. Top.d = d /\ Rest = ToBody(d, NoAddr, Replacing(a, AfterSet))
  BY <1>1, <1>2, SetMakeTops
<1>4. /\ flash' = [flash EXCEPT ![d].kv[Used(d)].data = "hdr"]
      /\ UNCHANGED db /\ todo' = ToBody(d, NoAddr, Replacing(a, AfterSet))
      /\ UNCHANGED <<phase, op, want>>
  BY <1>3 DEF Header, Steps, Used
<1>5. PICK E, k, v : E = OldValues /\ k = op.key /\ v = op.val
  OBVIOUS
<1>6. E = OldValues' /\ k = op'.key /\ v = op'.val
  BY <1>4, <1>5, CallKept
<1>7. /\ Setting /\ ~db.gc_request /\ Spare(d) /\ Making(a, d, k, v, E, "none")
  BY <1>1, <1>5 DEF SetWrite
<1>8. k \in Keys /\ v \in Vals /\ db' \in DbType
  BY <1>4, <1>5, <1>7 DEF Setting, InCall, TypeOK
<1>9. /\ flash' \in [Sectors -> Sector] /\ Making(a, d, k, v, E, "hdr")'
      /\ Addrs' = Addrs /\ \A s \in Sectors : SameHeader(s)
  BY <1>4, <1>7, <1>8, FillStep
<1>10. Calm(0)' /\ Spare(d)'
  BY <1>7, <1>9, HeaderKept, SpaceKept, SpaceOfHeaders DEF Setting
<1>11. TypeOK' /\ Setting'
  BY <1>4, <1>7, <1>8, <1>9, <1>10, CallKept
<1>12. SetWrite(a, d, "hdr")'
  BY <1>4, <1>6, <1>7, <1>9, <1>10, <1>11 DEF SetWrite
<1>13. a \in Olds'
  BY <1>9 DEF Olds, NoAddr
<1> QED
  BY <1>4, <1>11, <1>12, <1>13, UpKept DEF IsSetBody, NoAddr

LEMMA SetBodyStep ==
    ASSUME TypeOK, Up, IsSetBody, Body
    PROVE  TypeOK' /\ Up' /\ IsSetCommit'
<1>1. PICK a \in Olds, d \in Sectors :
         todo = ToBody(d, NoAddr, Replacing(a, AfterSet)) /\ SetWrite(a, d, "hdr")
  BY DEF IsSetBody
<1>2. Replacing(a, AfterSet) \in Stack /\ d \in Nat
  BY SetTails, AddrsFacts
<1>3. Top.d = d /\ Rest = ToCommit(d, NoAddr, Replacing(a, AfterSet))
  BY <1>1, <1>2, SetMakeTops
<1>4. PICK E, k, v : E = OldValues /\ k = op.key /\ v = op.val
  OBVIOUS
<1>5. /\ Setting /\ ~db.gc_request /\ Spare(d) /\ Making(a, d, k, v, E, "hdr")
  BY <1>1, <1>4 DEF SetWrite
<1>6. k \in Keys /\ v \in Vals /\ flash[d].kv[Used(d)].key = k /\ Used(d) \in Nat
  <2>1. flash[d].kv[Used(d)] = NodeAt(Fresh(d))
    BY DEF NodeAt, Fresh
  <2> QED
    BY <1>4, <1>5, <2>1, AddrsFacts DEF Setting, InCall, Making
<1>7. /\ flash' = [flash EXCEPT ![d].kv[Used(d)].data = "full"]
      /\ db' = [db EXCEPT !.cache[k] = Fresh(d)]
      /\ todo' = ToCommit(d, NoAddr, Replacing(a, AfterSet))
      /\ UNCHANGED <<phase, op, want>>
  BY <1>3, <1>6 DEF Body, Steps, Used, Fresh
<1>8. E = OldValues' /\ k = op'.key /\ v = op'.val
  BY <1>4, <1>7, CallKept
<1>9. /\ db' \in DbType /\ db'.last_is_complete_del = db.last_is_complete_del
      /\ db'.cache = [db.cache EXCEPT ![k] = Fresh(d)] /\ db'.gc_request = db.gc_request
      /\ db'.in_recovery_check = db.in_recovery_check
  <2>1. Fresh(d) \in Nat \X Nat
    BY <1>2, <1>6 DEF Fresh
  <2> QED
    BY <1>6, <1>7, <2>1 DEF TypeOK, DbType
<1>10. /\ flash' \in [Sectors -> Sector] /\ Making(a, d, k, v, E, "full")'
       /\ Addrs' = Addrs /\ \A s \in Sectors : SameHeader(s)
  BY <1>5, <1>6, <1>7, <1>9, FillStep
<1>11. Calm(0)' /\ Spare(d)'
  BY <1>5, <1>10, HeaderKept, SpaceKept, SpaceOfHeaders DEF Setting
<1>12. TypeOK' /\ Setting'
  BY <1>5, <1>7, <1>9, <1>10, <1>11, CallKept
<1>13. SetWrite(a, d, "full")'
  BY <1>5, <1>8, <1>9, <1>10, <1>11, <1>12 DEF SetWrite
<1>14. a \in Olds'
  BY <1>10 DEF Olds, NoAddr
<1> QED
  BY <1>7, <1>9, <1>12, <1>13, <1>14, UpKept DEF IsSetCommit, NoAddr

LEMMA SetCommitStep ==
    ASSUME TypeOK, Up, IsSetCommit, Commit
    PROVE  TypeOK' /\ Up' /\ (IsAfterSet' \/ IsSetDelete')
<1>1. PICK a \in Olds, d \in Sectors :
         todo = ToCommit(d, NoAddr, Replacing(a, AfterSet)) /\ SetWrite(a, d, "full")
  BY DEF IsSetCommit
<1>2. Replacing(a, AfterSet) \in Stack /\ d \in Nat
  BY SetTails, AddrsFacts
<1>3. Top.s = 0 /\ Top.d = d /\ Rest = Replacing(a, AfterSet)
  BY <1>1, <1>2, SetMakeTops
<1>4. PICK g : g = (db.gc_request \/ flash[d].store = "FULL")
  OBVIOUS
<1>5. /\ flash' = [flash EXCEPT ![d].kv[Used(d)].status = "WRITE"]
      /\ db' = [db EXCEPT !.gc_request = g]
      /\ todo' = Replacing(a, AfterSet)
      /\ UNCHANGED <<phase, op, want>>
  BY <1>3, <1>4 DEF Commit, Steps, Used
<1>6. PICK E, E2, k, v : E = OldValues /\ E2 = NewValues /\ k = op.key /\ v = op.val
  OBVIOUS
<1>7. E2 = NewValues'
  BY <1>5, <1>6, CallKept
<1>8. /\ Setting /\ Spare(d) /\ Making(a, d, k, v, E, "full")
  BY <1>1, <1>6 DEF SetWrite
<1>9. k \in Keys /\ v \in Vals /\ Changed(E, E2, k, {v})
  BY <1>6, <1>8, Values DEF Setting, Changed
<1>10. /\ db' \in DbType /\ db'.last_is_complete_del = db.last_is_complete_del
       /\ db'.cache = db.cache /\ db'.gc_request = g
       /\ db'.in_recovery_check = db.in_recovery_check
  BY <1>4, <1>5 DEF TypeOK, DbType
<1>11. /\ flash' \in [Sectors -> Sector]
       /\ a = NoAddr => Steady(E2)'
       /\ a # NoAddr => Replaced(a, E2)'
       /\ Addrs' = Addrs /\ \A b \in Addrs : b # Fresh(d) => NodeAt(b)' = NodeAt(b)
       /\ \A s \in Sectors : SameHeader(s)
  <2>1. Making(a, d, k, v, E, "full")
    BY <1>8
  <2>2. flash' = [flash EXCEPT ![d].kv[Used(d)].status = "WRITE"]
    BY <1>5
  <2> QED
    BY <1>9, <1>10, <2>1, <2>2, CommitStep
<1>12. Calm(0)' /\ Spare(0)'
  <2>1. Spare(0)
    BY <1>8, AddrsFacts DEF Spare
  <2> QED
    BY <1>8, <1>11, <2>1, HeaderKept, SpaceKept, SpaceOfHeaders DEF Setting
<1>13. TypeOK' /\ Setting'
  BY <1>5, <1>8, <1>10, <1>11, <1>12, CallKept
<1>14. Settled'
  <2>1. CASE flash[d].store = "FULL"
    BY <1>4, <1>10, <2>1 DEF Settled
  <2>2. CASE flash[d].store # "FULL"
    <3>1. /\ Used(d) >= 1 /\ Used(d) <= Slots /\ flash[d].store = StoreFor(Used(d)) /\ Used(d) \in Nat
      BY <1>8, AddrsFacts DEF Making, Shape
    <3>2. Used(d) # 0 /\ Used(d) < Slots
      BY <2>2, <3>1, KvdbAssumption DEF StoreFor
    <3>3. HasRoom
      BY <3>2 DEF HasRoom, Bare
    <3> QED
      BY <1>11, <3>3, SpaceKept, SpaceOfHeaders DEF Settled
  <2> QED
    BY <2>1, <2>2
<1>15. CASE a = NoAddr
  <2>1. Steady(NewValues)'
    BY <1>7, <1>11, <1>15
  <2>2. todo' = AfterSet
    BY <1>5, <1>15 DEF Replacing
  <2> QED
    BY <1>5, <1>10, <1>12, <1>13, <1>14, <2>1, <2>2, UpKept DEF IsAfterSet
<1>16. CASE a # NoAddr
  <2>1. Replaced(a, NewValues)'
    BY <1>7, <1>11, <1>16
  <2>2. todo' = ToDelete(a, AfterSet)
    BY <1>5, <1>16 DEF Replacing
  <2>3. a \in Addrs'
    BY <1>11, <1>16 DEF Olds
  <2> QED
    BY <1>5, <1>10, <1>12, <1>13, <1>14, <2>1, <2>2, <2>3, UpKept DEF IsSetDelete
<1> QED
  BY <1>15, <1>16

(* It deletes the old node, a deletion the only one.                       *)
LEMMA SetDeleteStep ==
    ASSUME TypeOK, Up, IsSetDelete, Delete
    PROVE  TypeOK' /\ Up' /\ IsSetDeleted'
<1>1. PICK a \in Addrs :
         todo = ToDelete(a, AfterSet) /\ Setting /\ Replaced(a, NewValues) /\ Spare(0) /\ Settled
  BY DEF IsSetDelete
<1>2. Top.s = a[1] /\ Top.i = a[2] /\ Rest = ToDirty(a, AfterSet) /\ <<a[1], a[2]>> = a
  BY <1>1, SetStacks, NodeTops, AddrsFacts
<1>3. PICK k : k = NodeAt(a).key
  OBVIOUS
<1>4. k \in Keys /\ db \in DbType /\ db.last_is_complete_del
  BY <1>1, <1>3, AddrsFacts DEF Node, Replaced, TypeOK
<1>5. /\ flash' = [flash EXCEPT ![a[1]].kv[a[2]].status = "DELETED"]
      /\ db' = [db EXCEPT !.last_is_complete_del = FALSE, !.cache[k] = @]
      /\ todo' = ToDirty(a, AfterSet) /\ UNCHANGED <<phase, op, want>>
  BY <1>2, <1>3, <1>4 DEF Delete, Steps
<1>6. /\ db' \in DbType /\ ~db'.last_is_complete_del /\ db'.cache = db.cache
      /\ db'.gc_request = db.gc_request /\ db'.in_recovery_check = db.in_recovery_check
  BY <1>4, <1>5 DEF DbType
<1>7. PICK E : E = NewValues
  OBVIOUS
<1>8. E = NewValues'
  BY <1>5, <1>7, CallKept
<1>9. Deleted(a, E)'
  BY <1>1, <1>5, <1>6, <1>7, ReplacedStep
<1>10. /\ flash' \in [Sectors -> Sector] /\ Addrs' = Addrs
       /\ \A s \in Sectors : SameHeader(s)
  BY <1>5, DeleteWrite
<1>11. Calm(0)' /\ Spare(0)' /\ Settled'
  BY <1>1, <1>6, <1>10, HeaderKept, SpaceKept, SpaceOfHeaders DEF Setting, Settled
<1>12. TypeOK' /\ Setting'
  BY <1>1, <1>5, <1>6, <1>10, <1>11, CallKept
<1> QED
  BY <1>5, <1>6, <1>8, <1>9, <1>10, <1>11, <1>12, UpKept DEF IsSetDeleted

LEMMA DelDeleteStep ==
    ASSUME TypeOK, Up, IsDelDelete, Delete
    PROVE  TypeOK' /\ Up' /\ IsDelDeleted'
<1>1. PICK a \in Addrs : /\ todo = ToDelete(a, Done) /\ Deleting /\ Steady(OldValues)
                         /\ Live(a) /\ KeyOf(a) = op.key
  BY DEF IsDelDelete
<1>2. Top.s = a[1] /\ Top.i = a[2] /\ Rest = ToDirty(a, Done) /\ <<a[1], a[2]>> = a
  BY <1>1, SetStacks, NodeTops, AddrsFacts
<1>3. PICK E, E2, k : E = OldValues /\ E2 = NewValues /\ k = op.key
  OBVIOUS
<1>4. /\ k \in Keys /\ db \in DbType /\ ~db.last_is_complete_del /\ NodeAt(a).key = k
      /\ InCall /\ op.val = None
  BY <1>1, <1>3 DEF Deleting, InCall, TypeOK, Steady, KeyOf
<1>5. /\ flash' = [flash EXCEPT ![a[1]].kv[a[2]].status = "DELETED"]
      /\ db' = [db EXCEPT !.last_is_complete_del = FALSE, !.cache[k] = NoAddr]
      /\ todo' = ToDirty(a, Done) /\ UNCHANGED <<phase, op, want>>
  BY <1>2, <1>4 DEF Delete, Steps
<1>6. /\ db' \in DbType /\ ~db'.last_is_complete_del /\ db'.cache = [db.cache EXCEPT ![k] = NoAddr]
      /\ db'.gc_request = db.gc_request /\ db'.in_recovery_check = db.in_recovery_check
  <2>1. NoAddr \in Nat \X Nat
    BY DEF NoAddr
  <2> QED
    BY <1>4, <1>5, <2>1 DEF DbType
<1>7. E2 = NewValues'
  BY <1>3, <1>5, CallKept
<1>8. Changed(E, E2, k, {None})
  BY <1>3, <1>4, Values DEF Changed
<1>9. Deleted(a, E2)'
  BY <1>1, <1>3, <1>4, <1>5, <1>6, <1>8, DeletedStep
<1>10. /\ flash' \in [Sectors -> Sector] /\ Addrs' = Addrs
       /\ \A s \in Sectors : SameHeader(s)
  BY <1>5, DeleteWrite
<1>11. Calm(0)' /\ Spare(0)' /\ HasRoom'
  BY <1>1, <1>10, HeaderKept, SpaceKept, SpaceOfHeaders DEF Deleting
<1>12. TypeOK' /\ InCall'
  BY <1>4, <1>5, <1>6, <1>10, CallKept
<1>13. Deleting'
  BY <1>1, <1>5, <1>6, <1>11, <1>12 DEF Deleting
<1> QED
  BY <1>5, <1>6, <1>7, <1>9, <1>10, <1>12, <1>13, UpKept DEF IsDelDeleted

-----------------------------------------------------------------------------
(* Garbage collection.  A step that writes no earlier node of the sector.  *)
LEMMA GoneKept ==
    ASSUME TypeOK, NEW s \in Sectors, NEW i, Gone(s, i), UNCHANGED <<op, want>>,
           db'.gc_request = db.gc_request,
           \A r \in Sectors : flash'[r].dirty = flash[r].dirty, Used(s)' = Used(s),
           \A j \in 1..Used(s) : j < i => NodeAt(<<s, j>>)' = NodeAt(<<s, j>>)
    PROVE  Gone(s, i)'
<1>1. InGc'
  BY CallKept DEF Gone, InGc
<1>2. Calm(s)' /\ CleanBelow(s)' /\ flash'[s].dirty = "GC"
  BY DEF Gone, Calm, CleanBelow
<1>3. \A j \in 1..Used(s) : j < i => State(<<s, j>>)' = State(<<s, j>>)
  BY DEF State
<1> QED
  BY <1>1, <1>2, <1>3 DEF Gone

LEMMA RoomKept ==
    ASSUME NEW s, NEW i, Room(s, i), \A r \in Sectors : flash'[r].dirty = flash[r].dirty,
           \A r \in Sectors : Used(r)' = Used(r)
    PROVE  Room(s, i)'
BY DEF Room

LEMMA MoveMarkStep ==
    ASSUME TypeOK, Up, IsMoveMark, PreDelete
    PROVE  TypeOK' /\ Up' /\ IsMoveMarked'
<1>1. PICK s \in Sectors, i \in 1..Slots :
         /\ todo = ToMark(<<s, i>>, Push(Task("move", s, i, 0), InSector(s, i + 1)))
         /\ Gone(s, i) /\ Room(s, i) /\ Steady(NewValues) /\ Live(<<s, i>>)
  BY DEF IsMoveMark
<1>2. PICK a, X : a = <<s, i>> /\ X = Push(Task("move", s, i, 0), InSector(s, i + 1))
  OBVIOUS
<1>3. X \in Stack /\ a \in Addrs /\ a[1] = s /\ a[2] = i /\ i \in Nat
  BY <1>1, <1>2, MoveTails DEF Live
<1>4. Top.s = a[1] /\ Top.i = a[2] /\ Rest = ToDirty(a, X)
  BY <1>1, <1>2, <1>3, NodeTops
<1>5. /\ flash' = [flash EXCEPT ![a[1]].kv[a[2]].status = "PRE_DELETE"]
      /\ db' = [db EXCEPT !.last_is_complete_del = TRUE]
      /\ todo' = ToDirty(a, X) /\ UNCHANGED <<phase, op, want>>
  BY <1>4 DEF PreDelete, Steps
<1>6. PICK E : E = NewValues
  OBVIOUS
<1>7. E = NewValues'
  BY <1>5, <1>6, CallKept
<1>8. /\ flash' \in [Sectors -> Sector] /\ db' \in DbType
      /\ Marked(a, E)' /\ KeyOf(a)' = KeyOf(a)
      /\ \A r \in Sectors : SameHeader(r)
  BY <1>1, <1>2, <1>3, <1>5, <1>6, MarkStep
<1>9. /\ \A b \in Addrs : b # a => NodeAt(b)' = NodeAt(b)
  BY <1>3, <1>5, StatusWrite
<1>10. db'.gc_request = db.gc_request /\ db'.in_recovery_check = db.in_recovery_check
  BY <1>5 DEF TypeOK, DbType
<1>11. Gone(s, i)'
  <2>1. \A j \in 1..Used(s) : j < i => NodeAt(<<s, j>>)' = NodeAt(<<s, j>>)
    <3> SUFFICES ASSUME NEW j \in 1..Used(s), j < i PROVE NodeAt(<<s, j>>)' = NodeAt(<<s, j>>)
      OBVIOUS
    <3>1. j \in 1..Slots /\ j <= Used(s) /\ j # i
      BY <1>3, AddrsFacts, KvdbAssumption
    <3>2. <<s, j>> \in Addrs /\ <<s, j>> # a
      BY <1>2, <3>1, AddrsFacts
    <3> QED
      BY <1>9, <3>2
  <2> QED
    BY <1>1, <1>5, <1>8, <1>10, <2>1, GoneKept DEF SameHeader
<1>12. Room(s, i)'
  BY <1>1, <1>8, RoomKept DEF SameHeader
<1>13. TypeOK'
  BY <1>5, <1>8, CallKept
<1> QED
  BY <1>2, <1>5, <1>7, <1>8, <1>10, <1>11, <1>12, <1>13, UpKept DEF IsMoveMarked

LEMMA EarlierNodes ==
    ASSUME TypeOK, NEW s \in Sectors, Used(s) <= Slots, NEW i \in Nat,
           NEW x, x[1] # s \/ x = <<s, i>>,
           \A b \in Addrs : b # x => NodeAt(b)' = NodeAt(b)
    PROVE  \A j \in 1..Used(s) : j < i => NodeAt(<<s, j>>)' = NodeAt(<<s, j>>)
<1> SUFFICES ASSUME NEW j \in 1..Used(s), j < i PROVE NodeAt(<<s, j>>)' = NodeAt(<<s, j>>)
  OBVIOUS
<1>1. j \in 1..Slots /\ j <= Used(s) /\ j # i
  BY AddrsFacts, KvdbAssumption
<1>2. <<s, j>> \in Addrs /\ <<s, j>>[1] = s /\ <<s, j>>[2] = j
  BY <1>1, AddrsFacts
<1>3. <<s, j>> # x
  BY <1>1, <1>2
<1> QED
  BY <1>2, <1>3

LEMMA MoveMarkedStep ==
    ASSUME TypeOK, Up, IsMoveMarked, Dirty
    PROVE  TypeOK' /\ Up' /\ IsMove'
<1>1. PICK s \in Sectors, i \in 1..Slots :
         /\ todo = ToDirty(<<s, i>>, Push(Task("move", s, i, 0), InSector(s, i + 1)))
         /\ Gone(s, i) /\ Room(s, i) /\ Marked(<<s, i>>, NewValues)
  BY DEF IsMoveMarked
<1>2. PICK a, X : a = <<s, i>> /\ X = Push(Task("move", s, i, 0), InSector(s, i + 1))
  OBVIOUS
<1>3. X \in Stack /\ a \in Addrs /\ a[1] = s
  BY <1>1, <1>2, MoveTails DEF Marked
<1>4. Top.s = s /\ Rest = X
  BY <1>1, <1>2, <1>3, NodeTops
<1>5. /\ flash' = [flash EXCEPT ![s].dirty = IF @ = "FALSE" THEN "TRUE" ELSE @]
      /\ UNCHANGED db /\ todo' = X /\ UNCHANGED <<phase, op, want>>
  BY <1>4 DEF Dirty, Steps
<1>6. PICK E : E = NewValues
  OBVIOUS
<1>7. E = NewValues'
  BY <1>5, <1>6, CallKept
<1>8. Shape(0, 0) /\ Data(E, a, NoAddr, NoAddr, a) /\ db.last_is_complete_del
  BY <1>1, <1>2, <1>6 DEF Marked
<1>9. /\ Data(E, a, NoAddr, NoAddr, NoAddr)'
      /\ flash[s].dirty = "GC" => flash' = flash
  BY <1>3, <1>5, <1>8, DirtyStep
<1>10. UNCHANGED flash
  BY <1>1, <1>9 DEF Gone
<1>11. TypeOK'
  BY <1>5, <1>10, CallKept DEF TypeOK
<1>12. Addrs' = Addrs /\ (\A b \in Addrs : NodeAt(b)' = NodeAt(b)) /\ Shape(0, 0)' /\ Room(s, i)'
  BY <1>1, <1>8, <1>10, FlashKept
<1>13. Gone(s, i)'
  <2>1. /\ \A r \in Sectors : flash'[r].dirty = flash[r].dirty
        /\ Used(s)' = Used(s) /\ \A j \in 1..Used(s) : NodeAt(<<s, j>>)' = NodeAt(<<s, j>>)
    BY <1>10 DEF Used, NodeAt
  <2> QED
    BY <1>1, <1>5, <2>1, GoneKept
<1>14. OnlyOld(a, KeyOf(a))'
  <2>1. OnlyOld(a, KeyOf(a))
    BY <1>3, <1>8, OnlyMarked
  <2>2. PICK k : k = KeyOf(a)
    OBVIOUS
  <2>3. OnlyOld(a, k)'
    BY <1>5, <1>12, <2>1, <2>2, OnlyOldKept
  <2>4. k = KeyOf(a)'
    BY <1>3, <1>12, <2>2 DEF KeyOf
  <2> QED
    BY <2>3, <2>4
<1>15. Data(NewValues, a, NoAddr, NoAddr, NoAddr)'
  BY <1>7, <1>9 DEF NoAddr
<1> QED
  BY <1>2, <1>3, <1>5, <1>11, <1>12, <1>13, <1>14, <1>15, UpKept DEF IsMove, NoAddr

LEMMA MoveDeletedStep ==
    ASSUME TypeOK, Up, IsMoveDeleted, Dirty
    PROVE  TypeOK' /\ Up' /\ IsGcKv'
<1>1. PICK s \in Sectors, i \in 1..Slots :
         /\ todo = ToDirty(<<s, i>>, InSector(s, i + 1)) /\ Gone(s, i + 1) /\ Room(s, i + 1)
         /\ Deleted(<<s, i>>, NewValues)
  BY DEF IsMoveDeleted
<1>2. PICK a, X : a = <<s, i>> /\ X = InSector(s, i + 1)
  OBVIOUS
<1>3. X \in Stack /\ a \in Addrs /\ a[1] = s
  BY <1>1, <1>2, MoveTails DEF Deleted
<1>4. Top.s = s /\ Rest = X
  BY <1>1, <1>2, <1>3, NodeTops
<1>5. /\ flash' = [flash EXCEPT ![s].dirty = IF @ = "FALSE" THEN "TRUE" ELSE @]
      /\ UNCHANGED db /\ todo' = X /\ UNCHANGED <<phase, op, want>>
  BY <1>4 DEF Dirty, Steps
<1>6. PICK E : E = NewValues
  OBVIOUS
<1>7. E = NewValues'
  BY <1>5, <1>6, CallKept
<1>8. Shape(0, 0) /\ Data(E, NoAddr, NoAddr, NoAddr, a) /\ ~db.last_is_complete_del
  BY <1>1, <1>2, <1>6 DEF Deleted
<1>9. /\ Shape(0, 0)' /\ Data(E, NoAddr, NoAddr, NoAddr, NoAddr)'
      /\ flash[s].dirty = "GC" => flash' = flash
  BY <1>3, <1>5, <1>8, DirtyStep
<1>10. UNCHANGED flash
  BY <1>1, <1>9 DEF Gone
<1>11. TypeOK'
  BY <1>5, <1>10, CallKept DEF TypeOK
<1>12. Room(s, i + 1)'
  BY <1>1, <1>10, FlashKept
<1>13. Gone(s, i + 1)'
  <2>1. /\ \A r \in Sectors : flash'[r].dirty = flash[r].dirty
        /\ Used(s)' = Used(s) /\ \A j \in 1..Used(s) : NodeAt(<<s, j>>)' = NodeAt(<<s, j>>)
    BY <1>10 DEF Used, NodeAt
  <2> QED
    BY <1>1, <1>5, <2>1, GoneKept
<1>14. Steady(NewValues)'
  BY <1>5, <1>7, <1>8, <1>9 DEF Steady, NoAddr
<1>15. i + 1 \in 1..(Slots + 1)
  BY KvdbAssumption
<1> QED
  BY <1>2, <1>5, <1>11, <1>12, <1>13, <1>14, <1>15, UpKept DEF IsGcKv

(* A node is copied to another sector.                                     *)
LEMMA MoveStack ==
    ASSUME TypeOK, NEW s \in Sectors, NEW i \in 1..Slots, NEW d \in Sectors
    PROVE  (CreateTasks(d, <<s, i>>) \o DelTasks(<<s, i>>, TRUE)) \o InSector(s, i + 1)
             = ToMake(d, <<s, i>>, AfterMove(s, i))
<1>1. PICK X : X = InSector(s, i + 1)
  OBVIOUS
<1>2. s \in Nat /\ i \in Nat /\ d \in Nat /\ X \in Stack /\ AfterMove(s, i) \in Stack
  BY <1>1, MoveTails, AddrsFacts
<1>3. PICK C, D : C = CreateTasks(d, <<s, i>>) /\ D = DelTasks(<<s, i>>, TRUE)
  OBVIOUS
<1>4. C \in Stack /\ D \in Stack
  BY <1>2, <1>3 DEF CreateTasks, DelTasks, Stack, Task, Tasks, Tags
<1>5. (C \o D) \o X = C \o (D \o X)
  <2>1. Cat(Cat(C, D), X) = Cat(C, Cat(D, X))
    BY <1>2, <1>4, ThreeStacks
  <2> QED
    BY <2>1 DEF Cat
<1>6. D \o X = AfterMove(s, i)
  BY <1>1, <1>2, <1>3, DelStacks DEF AfterMove
<1>7. C \o AfterMove(s, i) = ToMake(d, <<s, i>>, AfterMove(s, i))
  BY <1>2, <1>3, CreateStacks
<1> QED
  BY <1>1, <1>3, <1>5, <1>6, <1>7

LEMMA MoveStep ==
    ASSUME TypeOK, Up, IsMove, MoveKv
    PROVE  TypeOK' /\ Up' /\ IsMoveMake'
<1>1. PICK s \in Sectors, i \in 1..Slots :
         /\ todo = Push(Task("move", s, i, 0), InSector(s, i + 1))
         /\ Gone(s, i) /\ Room(s, i) /\ <<s, i>> \in Addrs
         /\ Shape(0, 0) /\ Data(NewValues, <<s, i>>, NoAddr, NoAddr, NoAddr)
         /\ OnlyOld(<<s, i>>, KeyOf(<<s, i>>))
  BY DEF IsMove
<1>2. Top.s = s /\ Top.i = i /\ Rest = InSector(s, i + 1)
  <2>1. /\ Push(Task("move", s, i, 0), InSector(s, i + 1))[1] = Task("move", s, i, 0)
        /\ Tail(Push(Task("move", s, i, 0), InSector(s, i + 1))) = InSector(s, i + 1)
    BY MoveTails
  <2> QED
    BY <1>1, <2>1 DEF Top, Rest, Task
<1>3. db.gc_request = TRUE /\ ~db.in_recovery_check /\ flash[s].dirty = "GC" /\ db \in DbType
  BY <1>1 DEF Gone, InGc, Up, TypeOK, DbType
<1> DEFINE A == Alloc(TRUE)
<1>4. /\ A.flash = flash /\ A.gc /\ A.sector \in Sectors /\ A.sector # 0 /\ A.sector # s
      /\ Used(A.sector) < Slots
  BY <1>1, <1>3, AllocMove
<1>5. /\ flash' = A.flash /\ db' = [db EXCEPT !.gc_request = A.gc]
      /\ A.sector # 0 =>
           todo' = (CreateTasks(A.sector, <<s, i>>) \o DelTasks(<<s, i>>, TRUE)) \o InSector(s, i + 1)
      /\ UNCHANGED <<phase, op, want>>
  <2>1. Alloc(db.gc_request) = A
    BY <1>3
  <2> HIDE DEF A
  <2> QED
    BY <1>2, <1>3, <2>1 DEF MoveKv
<1> HIDE DEF A
<1>6. PICK d \in Sectors : d = A.sector
  BY <1>4
<1>7. /\ UNCHANGED flash /\ d # s /\ Used(d) < Slots
      /\ todo' = ToMake(d, <<s, i>>, AfterMove(s, i))
  BY <1>4, <1>5, <1>6, MoveStack
<1>8. /\ db' \in DbType /\ db'.gc_request = db.gc_request /\ db'.cache = db.cache
      /\ db'.last_is_complete_del = db.last_is_complete_del
      /\ db'.in_recovery_check = db.in_recovery_check
  <2>1. PICK g : g = A.gc
    OBVIOUS
  <2>2. db' = [db EXCEPT !.gc_request = g] /\ db'.gc_request = g
    BY <1>3, <1>5, <2>1 DEF DbType
  <2>3. db.gc_request /\ g
    BY <1>3, <1>4, <2>1
  <2> QED
    BY <1>3, <1>4, <1>5 DEF DbType
<1>9. TypeOK' /\ NewValues' = NewValues
  BY <1>5, <1>7, <1>8, CallKept DEF TypeOK
<1>10. PICK E, a, k : E = NewValues /\ a = <<s, i>> /\ k = KeyOf(a)
  OBVIOUS
<1>11. /\ Shape(0, 0)' /\ Room(s, i)' /\ Addrs' = Addrs /\ \A b \in Addrs : NodeAt(b)' = NodeAt(b)
       /\ Used(d)' = Used(d)
  BY <1>1, <1>7, FlashKept
<1>12. Gone(s, i)'
  <2>1. /\ \A r \in Sectors : flash'[r].dirty = flash[r].dirty
        /\ Used(s)' = Used(s) /\ \A j \in 1..Used(s) : NodeAt(<<s, j>>)' = NodeAt(<<s, j>>)
    BY <1>7 DEF Used, NodeAt
  <2> QED
    BY <1>1, <1>5, <1>8, <2>1, GoneKept
<1>13. Data(E, a, NoAddr, NoAddr, NoAddr)' /\ OnlyOld(a, k)'
  BY <1>1, <1>7, <1>8, <1>10, SteadyKept
<1>14. KeyOf(a)' = k /\ a \in Addrs'
  BY <1>1, <1>10, <1>11 DEF KeyOf
<1>15. Allotted(a, d, KeyOf(a), NewValues, 0)'
  <2>1. Data(NewValues, a, NoAddr, NoAddr, NoAddr)'
    BY <1>9, <1>10, <1>13 DEF NoAddr
  <2>2. OnlyOld(a, KeyOf(a))'
    BY <1>13, <1>14
  <2> QED
    BY <1>7, <1>11, <2>1, <2>2 DEF Allotted, NoAddr
<1>16. MoveMake(s, i, d, 0)'
  BY <1>7, <1>10, <1>11, <1>12, <1>14, <1>15 DEF MoveMake
<1> QED
  BY <1>5, <1>7, <1>8, <1>9, <1>16, UpKept DEF IsMoveMake

LEMMA MoveMakeStep ==
    ASSUME TypeOK, Up, IsMoveMake, UpdateSecStatus
    PROVE  TypeOK' /\ Up' /\ IsMovePre'
<1>1. PICK s \in Sectors, i \in 1..Slots, d \in Sectors :
         todo = ToMake(d, <<s, i>>, AfterMove(s, i)) /\ MoveMake(s, i, d, 0)
  BY DEF IsMoveMake
<1>2. d \in Nat /\ s \in Nat /\ i \in Nat /\ AfterMove(s, i) \in Stack
  BY MoveTails, AddrsFacts
<1>3. Top.d = d /\ Rest = ToWrite(d, <<s, i>>, AfterMove(s, i))
  BY <1>1, <1>2, MakeTops
<1>4. /\ flash' = [flash EXCEPT ![d].store = IF @ = "EMPTY" THEN "USING"
                       ELSE IF Len(flash[d].kv) + 1 = Slots THEN "FULL" ELSE @]
      /\ UNCHANGED db /\ todo' = ToWrite(d, <<s, i>>, AfterMove(s, i))
      /\ UNCHANGED <<phase, op, want>>
  BY <1>3 DEF UpdateSecStatus, Steps
<1>5. PICK E, a, k : E = NewValues /\ a = <<s, i>> /\ k = KeyOf(a)
  OBVIOUS
<1>6. E = NewValues'
  BY <1>4, <1>5, CallKept
<1>7. Gone(s, i) /\ Room(s, i) /\ d # s /\ a \in Addrs /\ Allotted(a, d, k, E, 0)
  BY <1>1, <1>5 DEF MoveMake
<1>8. /\ flash' \in [Sectors -> Sector] /\ Allotted(a, d, k, E, d)'
      /\ Addrs' = Addrs /\ \A b \in Addrs : NodeAt(b)' = NodeAt(b)
      /\ \A r \in Sectors : Used(r)' = Used(r) /\ flash'[r].dirty = flash[r].dirty
  BY <1>4, <1>7, SecStatusStep
<1>9. Gone(s, i)' /\ Room(s, i)'
  <2>1. Used(s) <= Slots
    BY <1>7 DEF Allotted, Shape
  <2>2. \A j \in 1..Used(s) : j < i => NodeAt(<<s, j>>)' = NodeAt(<<s, j>>)
    BY <1>2, <1>8, <2>1, EarlierNodes
  <2> QED
    BY <1>4, <1>7, <1>8, <2>2, GoneKept, RoomKept
<1>10. TypeOK'
  BY <1>4, <1>8, CallKept DEF TypeOK
<1>11. KeyOf(a)' = k /\ a \in Addrs'
  BY <1>5, <1>7, <1>8 DEF KeyOf
<1>12. MoveMake(s, i, d, d)'
  BY <1>5, <1>6, <1>7, <1>8, <1>9, <1>11 DEF MoveMake
<1> QED
  BY <1>4, <1>10, <1>12, UpKept DEF IsMovePre

LEMMA MovePreStep ==
    ASSUME TypeOK, Up, IsMovePre, PreWrite
    PROVE  TypeOK' /\ Up' /\ IsMoveHeader'
<1>1. PICK s \in Sectors, i \in 1..Slots, d \in Sectors :
         todo = ToWrite(d, <<s, i>>, AfterMove(s, i)) /\ MoveMake(s, i, d, d)
  BY DEF IsMovePre
<1>2. d \in Nat /\ s \in Nat /\ s # 0 /\ i \in Nat /\ AfterMove(s, i) \in Stack
  BY MoveTails, AddrsFacts
<1>3. Top.s = s /\ Top.i = i /\ Top.d = d /\ Rest = ToHeader(d, <<s, i>>, AfterMove(s, i))
  BY <1>1, <1>2, MakeTops
<1>4. PICK E, a, k, v : E = NewValues /\ a = <<s, i>> /\ k = KeyOf(a) /\ v = ValOf(a)
  OBVIOUS
<1>5. /\ flash' = [flash EXCEPT ![d].kv = Append(@, [key |-> k, val |-> v,
                                                     status |-> "PRE_WRITE", data |-> "none"])]
      /\ UNCHANGED db /\ todo' = ToHeader(d, <<s, i>>, AfterMove(s, i))
      /\ UNCHANGED <<phase, op, want>>
  BY <1>2, <1>3, <1>4 DEF PreWrite, Steps, KeyOf, ValOf
<1>6. E = NewValues'
  BY <1>4, <1>5, CallKept
<1>7. Gone(s, i) /\ Room(s, i) /\ d # s /\ a \in Addrs /\ Allotted(a, d, k, E, d)
  BY <1>1, <1>4 DEF MoveMake
<1>8. k \in Keys /\ v \in Vals
  BY <1>4, <1>7, AddrsFacts DEF Node, KeyOf, ValOf
<1>9. /\ flash' \in [Sectors -> Sector] /\ Making(a, d, k, v, E, "none")'
      /\ Addrs \subseteq Addrs' /\ \A b \in Addrs : NodeAt(b)' = NodeAt(b)
      /\ Used(d)' = Used(d) + 1 /\ \A r \in Sectors : r # d => Used(r)' = Used(r)
      /\ \A r \in Sectors : flash'[r].dirty = flash[r].dirty
  <2>1. Allotted(a, d, k, E, d)
    BY <1>7
  <2>2. /\ flash' = [flash EXCEPT ![d].kv = Append(@, [key |-> k, val |-> v,
                                                      status |-> "PRE_WRITE", data |-> "none"])]
        /\ UNCHANGED db
    BY <1>5
  <2> QED
    BY <1>8, <2>1, <2>2, PreWriteStep, ZenonT(30)
<1>10. Gone(s, i)'
  <2>1. Used(s) <= Slots
    BY <1>7 DEF Allotted, Shape
  <2>2. \A j \in 1..Used(s) : j < i => NodeAt(<<s, j>>)' = NodeAt(<<s, j>>)
    BY <1>2, <1>9, <2>1, EarlierNodes
  <2> QED
    BY <1>5, <1>7, <1>9, <2>2, GoneKept
<1>11. Room(s, i + 1)'
  <2>1. PICK e \in Sectors : e # s /\ flash[e].dirty = "FALSE" /\ Used(e) < i
    BY <1>7 DEF Room
  <2>2. Used(e)' < i + 1
    BY <1>2, <1>9, <2>1, AddrsFacts
  <2> QED
    BY <1>9, <2>1, <2>2 DEF Room
<1>12. TypeOK'
  BY <1>5, <1>9, CallKept DEF TypeOK
<1>13. KeyOf(a)' = k /\ ValOf(a)' = v /\ a \in Addrs'
  BY <1>4, <1>7, <1>9 DEF KeyOf, ValOf
<1>14. MoveWrite(s, i, d, "none")'
  BY <1>4, <1>6, <1>7, <1>9, <1>10, <1>11, <1>13 DEF MoveWrite
<1> QED
  BY <1>5, <1>12, <1>14, UpKept DEF IsMoveHeader

LEMMA MoveHeaderStep ==
    ASSUME TypeOK, Up, IsMoveHeader, Header
    PROVE  TypeOK' /\ Up' /\ IsMoveBody'
<1>1. PICK s \in Sectors, i \in 1..Slots, d \in Sectors :
         todo = ToHeader(d, <<s, i>>, AfterMove(s, i)) /\ MoveWrite(s, i, d, "none")
  BY DEF IsMoveHeader
<1>2. d \in Nat /\ s \in Nat /\ i \in Nat /\ AfterMove(s, i) \in Stack
  BY MoveTails, AddrsFacts
<1>3. Top.d = d /\ Rest = ToBody(d, <<s, i>>, AfterMove(s, i))
  BY <1>1, <1>2, MakeTops
<1>4. /\ flash' = [flash EXCEPT ![d].kv[Used(d)].data = "hdr"]
      /\ UNCHANGED db /\ todo' = ToBody(d, <<s, i>>, AfterMove(s, i))
      /\ UNCHANGED <<phase, op, want>>
  BY <1>3 DEF Header, Steps, Used
<1>5. PICK E, a, k, v : E = NewValues /\ a = <<s, i>> /\ k = KeyOf(a) /\ v = ValOf(a)
  OBVIOUS
<1>6. E = NewValues'
  BY <1>4, <1>5, CallKept
<1>7. Gone(s, i) /\ Room(s, i + 1) /\ d # s /\ a \in Addrs /\ Making(a, d, k, v, E, "none")
  BY <1>1, <1>5 DEF MoveWrite
<1>8. k \in Keys /\ v \in Vals /\ db' \in DbType /\ a # Fresh(d) /\ Fresh(d)[1] # s
  BY <1>4, <1>5, <1>7, AddrsFacts DEF Node, KeyOf, ValOf, TypeOK, Fresh, Making
<1>9. PICK x : x = Fresh(d)
  OBVIOUS
<1>10. /\ flash' \in [Sectors -> Sector] /\ Making(a, d, k, v, E, "hdr")'
       /\ Addrs' = Addrs /\ \A b \in Addrs : b # x => NodeAt(b)' = NodeAt(b)
       /\ \A r \in Sectors : SameHeader(r)
  BY <1>4, <1>7, <1>8, <1>9, FillStep
<1>11. Gone(s, i)' /\ Room(s, i + 1)'
  <2>1. Used(s) <= Slots
    BY <1>7 DEF Making, Shape
  <2>2. \A j \in 1..Used(s) : j < i => NodeAt(<<s, j>>)' = NodeAt(<<s, j>>)
    BY <1>2, <1>8, <1>9, <1>10, <2>1, EarlierNodes
  <2> QED
    BY <1>4, <1>7, <1>10, <2>2, GoneKept, RoomKept DEF SameHeader
<1>12. TypeOK'
  BY <1>4, <1>8, <1>10, CallKept
<1>13. KeyOf(a)' = k /\ ValOf(a)' = v /\ a \in Addrs'
  BY <1>5, <1>7, <1>8, <1>9, <1>10 DEF KeyOf, ValOf
<1>14. MoveWrite(s, i, d, "hdr")'
  BY <1>5, <1>6, <1>7, <1>10, <1>11, <1>13 DEF MoveWrite
<1> QED
  BY <1>4, <1>12, <1>14, UpKept DEF IsMoveBody

LEMMA MoveBodyStep ==
    ASSUME TypeOK, Up, IsMoveBody, Body
    PROVE  TypeOK' /\ Up' /\ IsMoveCommit'
<1>1. PICK s \in Sectors, i \in 1..Slots, d \in Sectors :
         todo = ToBody(d, <<s, i>>, AfterMove(s, i)) /\ MoveWrite(s, i, d, "hdr")
  BY DEF IsMoveBody
<1>2. d \in Nat /\ s \in Nat /\ i \in Nat /\ AfterMove(s, i) \in Stack
  BY MoveTails, AddrsFacts
<1>3. Top.d = d /\ Rest = ToCommit(d, <<s, i>>, AfterMove(s, i))
  BY <1>1, <1>2, MakeTops
<1>4. PICK E, a, k, v : E = NewValues /\ a = <<s, i>> /\ k = KeyOf(a) /\ v = ValOf(a)
  OBVIOUS
<1>5. Gone(s, i) /\ Room(s, i + 1) /\ d # s /\ a \in Addrs /\ Making(a, d, k, v, E, "hdr")
  BY <1>1, <1>4 DEF MoveWrite
<1>6. /\ k \in Keys /\ v \in Vals /\ flash[d].kv[Used(d)].key = k /\ Used(d) \in Nat
      /\ a # Fresh(d) /\ Fresh(d)[1] # s
  <2>1. flash[d].kv[Used(d)] = NodeAt(Fresh(d))
    BY DEF NodeAt, Fresh
  <2> QED
    BY <1>4, <1>5, <2>1, AddrsFacts DEF Node, KeyOf, ValOf, Making, Fresh
<1>7. /\ flash' = [flash EXCEPT ![d].kv[Used(d)].data = "full"]
      /\ db' = [db EXCEPT !.cache[k] = Fresh(d)]
      /\ todo' = ToCommit(d, <<s, i>>, AfterMove(s, i))
      /\ UNCHANGED <<phase, op, want>>
  BY <1>3, <1>6 DEF Body, Steps, Used, Fresh
<1>8. E = NewValues'
  BY <1>4, <1>7, CallKept
<1>9. /\ db' \in DbType /\ db'.last_is_complete_del = db.last_is_complete_del
      /\ db'.cache = [db.cache EXCEPT ![k] = Fresh(d)] /\ db'.gc_request = db.gc_request
      /\ db'.in_recovery_check = db.in_recovery_check
  <2>1. Fresh(d) \in Nat \X Nat
    BY <1>2, <1>6 DEF Fresh
  <2> QED
    BY <1>6, <1>7, <2>1 DEF TypeOK, DbType
<1>10. PICK x : x = Fresh(d)
  OBVIOUS
<1>11. /\ flash' \in [Sectors -> Sector] /\ Making(a, d, k, v, E, "full")'
       /\ Addrs' = Addrs /\ \A b \in Addrs : b # x => NodeAt(b)' = NodeAt(b)
       /\ \A r \in Sectors : SameHeader(r)
  <2>1. Making(a, d, k, v, E, "hdr")
    BY <1>5
  <2>2. flash' = [flash EXCEPT ![d].kv[Used(d)].data = "full"]
    BY <1>7
  <2>3. /\ flash' \in [Sectors -> Sector] /\ Making(a, d, k, v, E, "full")'
        /\ Addrs' = Addrs /\ \A r \in Sectors : SameHeader(r)
    BY <1>6, <1>9, <2>1, <2>2, FillStep
  <2>4. x \in Addrs /\ x[1] = d /\ x[2] = Used(d)
    BY <1>10, <2>1, AddrsFacts DEF Making, Shape, Fresh
  <2>5. \A b \in Addrs : b # x => NodeAt(b)' = NodeAt(b)
    <3>1. flash' = DataPut(x, "full")
      BY <2>2, <2>4 DEF DataPut
    <3> QED
      BY <2>4, <3>1, DataWrite
  <2> QED
    BY <2>3, <2>5
<1>12. Gone(s, i)' /\ Room(s, i + 1)'
  <2>1. Used(s) <= Slots
    BY <1>5 DEF Making, Shape
  <2>2. \A j \in 1..Used(s) : j < i => NodeAt(<<s, j>>)' = NodeAt(<<s, j>>)
    BY <1>2, <1>6, <1>10, <1>11, <2>1, EarlierNodes
  <2> QED
    BY <1>5, <1>7, <1>9, <1>11, <2>2, GoneKept, RoomKept DEF SameHeader
<1>13. TypeOK'
  BY <1>7, <1>9, <1>11, CallKept
<1>14. KeyOf(a)' = k /\ ValOf(a)' = v /\ a \in Addrs'
  BY <1>4, <1>5, <1>6, <1>10, <1>11 DEF KeyOf, ValOf
<1>15. MoveWrite(s, i, d, "full")'
  BY <1>4, <1>5, <1>8, <1>11, <1>12, <1>14 DEF MoveWrite
<1> QED
  BY <1>7, <1>9, <1>13, <1>15, UpKept DEF IsMoveCommit

LEMMA MoveCommitStep ==
    ASSUME TypeOK, Up, IsMoveCommit, Commit
    PROVE  TypeOK' /\ Up' /\ IsMoveDelete'
<1>1. PICK s \in Sectors, i \in 1..Slots, d \in Sectors :
         todo = ToCommit(d, <<s, i>>, AfterMove(s, i)) /\ MoveWrite(s, i, d, "full")
  BY DEF IsMoveCommit
<1>2. d \in Nat /\ s \in Nat /\ s # 0 /\ i \in Nat /\ AfterMove(s, i) \in Stack
  BY MoveTails, AddrsFacts
<1>3. Top.s = s /\ Top.d = d /\ Rest = AfterMove(s, i)
  BY <1>1, <1>2, MakeTops
<1>4. PICK E, a, k, v : E = NewValues /\ a = <<s, i>> /\ k = KeyOf(a) /\ v = ValOf(a)
  OBVIOUS
<1>5. Gone(s, i) /\ Room(s, i + 1) /\ d # s /\ a \in Addrs /\ Making(a, d, k, v, E, "full")
  BY <1>1, <1>4 DEF MoveWrite
<1>6. k \in Keys /\ v \in Vals /\ a # Fresh(d) /\ Fresh(d)[1] # s /\ a # NoAddr
  BY <1>4, <1>5, AddrsFacts DEF Node, KeyOf, ValOf, Making, Fresh
<1>7. db.gc_request = TRUE /\ db \in DbType
  BY <1>5 DEF Gone, InGc, TypeOK, DbType
<1>8. /\ flash' = [flash EXCEPT ![d].kv[Used(d)].status = "WRITE"]
      /\ db' = [db EXCEPT !.gc_request = TRUE]
      /\ todo' = AfterMove(s, i)
      /\ UNCHANGED <<phase, op, want>>
  BY <1>3, <1>7 DEF Commit, Steps, Used
<1>9. E = NewValues'
  BY <1>4, <1>8, CallKept
<1>10. /\ db' \in DbType /\ db'.last_is_complete_del = db.last_is_complete_del
       /\ db'.cache = db.cache /\ db'.gc_request = db.gc_request
       /\ db'.in_recovery_check = db.in_recovery_check
  BY <1>7, <1>8 DEF DbType
<1>11. Changed(E, E, k, {v})
  <2>1. Data(E, a, Fresh(d), NoAddr, NoAddr) /\ a \notin {NoAddr}
    BY <1>5, <1>6 DEF Making
  <2>2. Full(a) /\ State(a) = "PRE_DELETE"
    BY <1>5, <1>6, <2>1 DEF Data, NodesOK
  <2>3. Holder(a)
    BY <2>2 DEF Holder
  <2>4. E[KeyOf(a)] = {ValOf(a)}
    BY <1>5, <2>1, <2>3 DEF Data, HoldersOK
  <2> QED
    BY <1>4, <2>4 DEF Changed
<1>12. PICK x : x = Fresh(d)
  OBVIOUS
<1>13. /\ flash' \in [Sectors -> Sector]
       /\ a = NoAddr => Steady(E)'
       /\ a # NoAddr => Replaced(a, E)'
       /\ Addrs' = Addrs /\ \A b \in Addrs : b # x => NodeAt(b)' = NodeAt(b)
       /\ \A r \in Sectors : SameHeader(r)
  <2>1. Making(a, d, k, v, E, "full")
    BY <1>5
  <2>2. flash' = [flash EXCEPT ![d].kv[Used(d)].status = "WRITE"]
    BY <1>8
  <2> QED
    BY <1>6, <1>10, <1>11, <1>12, <2>1, <2>2, CommitStep
<1>14. Gone(s, i)' /\ Room(s, i + 1)'
  <2>1. Used(s) <= Slots
    BY <1>5 DEF Making, Shape
  <2>2. \A j \in 1..Used(s) : j < i => NodeAt(<<s, j>>)' = NodeAt(<<s, j>>)
    BY <1>2, <1>6, <1>12, <1>13, <2>1, EarlierNodes
  <2> QED
    BY <1>5, <1>8, <1>10, <1>13, <2>2, GoneKept, RoomKept DEF SameHeader
<1>15. TypeOK'
  BY <1>8, <1>10, <1>13, CallKept
<1> QED
  BY <1>4, <1>6, <1>8, <1>9, <1>10, <1>13, <1>14, <1>15, UpKept DEF IsMoveDelete

LEMMA MoveDeleteStep ==
    ASSUME TypeOK, Up, IsMoveDelete, Delete
    PROVE  TypeOK' /\ Up' /\ IsMoveDeleted'
<1>1. PICK s \in Sectors, i \in 1..Slots :
         /\ todo = AfterMove(s, i) /\ Gone(s, i) /\ Room(s, i + 1)
         /\ Replaced(<<s, i>>, NewValues)
  BY DEF IsMoveDelete
<1>2. PICK a, X, E, k : a = <<s, i>> /\ X = InSector(s, i + 1) /\ E = NewValues /\ k = NodeAt(a).key
  OBVIOUS
<1>3. /\ X \in Stack /\ a \in Addrs /\ a[1] = s /\ a[2] = i /\ i \in Nat /\ i + 1 \in Nat
      /\ k \in Keys /\ db \in DbType /\ db.last_is_complete_del
  BY <1>1, <1>2, MoveTails, AddrsFacts DEF Replaced, Node, TypeOK
<1>4. Top.s = s /\ Top.i = i /\ Rest = ToDirty(a, X)
  BY <1>1, <1>2, <1>3, NodeTops DEF AfterMove
<1>5. /\ flash' = [flash EXCEPT ![a[1]].kv[a[2]].status = "DELETED"]
      /\ db' = [db EXCEPT !.last_is_complete_del = FALSE, !.cache[k] = @]
      /\ todo' = ToDirty(a, X) /\ UNCHANGED <<phase, op, want>>
  BY <1>2, <1>3, <1>4 DEF Delete, Steps
<1>6. /\ db' \in DbType /\ ~db'.last_is_complete_del /\ db'.cache = db.cache
      /\ db'.gc_request = db.gc_request /\ db'.in_recovery_check = db.in_recovery_check
  BY <1>3, <1>5 DEF DbType
<1>7. E = NewValues'
  BY <1>2, <1>5, CallKept
<1>8. Deleted(a, E)'
  BY <1>1, <1>2, <1>3, <1>5, <1>6, ReplacedStep
<1>9. /\ flash' \in [Sectors -> Sector] /\ Addrs' = Addrs
      /\ \A r \in Sectors : SameHeader(r)
      /\ State(a)' = "DELETED" /\ \A b \in Addrs : b # a => NodeAt(b)' = NodeAt(b)
  BY <1>3, <1>5, DeleteWrite
<1>10. Gone(s, i)' /\ Room(s, i + 1)' /\ Used(s) <= Slots
  <2>1. Used(s) <= Slots
    BY <1>1 DEF Replaced, Shape
  <2>2. \A j \in 1..Used(s) : j < i => NodeAt(<<s, j>>)' = NodeAt(<<s, j>>)
    BY <1>2, <1>3, <1>9, <2>1, EarlierNodes
  <2> QED
    BY <1>1, <1>5, <1>6, <1>9, <2>1, <2>2, GoneKept, RoomKept DEF SameHeader
<1>11. Gone(s, i + 1)'
  <2>1. \A j \in 1..Used(s) : j < i + 1 => j < i \/ j = i
    BY <1>3, AddrsFacts
  <2>2. State(<<s, i>>)' = "DELETED" /\ Used(s)' = Used(s)
    BY <1>2, <1>9 DEF SameHeader
  <2> QED
    BY <1>10, <2>1, <2>2 DEF Gone
<1>12. TypeOK'
  BY <1>5, <1>6, <1>9, CallKept
<1> QED
  BY <1>2, <1>5, <1>6, <1>7, <1>8, <1>10, <1>11, <1>12, UpKept DEF IsMoveDeleted

(* The collection goes from sector to sector.                              *)
LEMMA WalkTop ==
    ASSUME TypeOK, NEW s \in 1..(NSectors + 1), todo = GcFrom(s)
    PROVE  /\ Doing("gc_sector") => s \in Sectors /\ Top.s = s /\ Rest = GcFrom(s + 1)
           /\ Doing("gc_end") => s = NSectors + 1 /\ Rest = Done
<1>1. s \in Sectors \/ s = NSectors + 1
  BY KvdbAssumption DEF Sectors
<1>2. CASE s \in Sectors
  <2>1. GcFrom(s)[1] = Task("gc_sector", s, 0, 0) /\ Tail(GcFrom(s)) = GcFrom(s + 1)
    BY <1>2, GcStacks
  <2> QED
    BY <1>2, <2>1 DEF Top, Rest, Doing, Task
<1>3. CASE s = NSectors + 1
  <2>1. GcFrom(s)[1] = Task("gc_end", 0, 0, 0) /\ Tail(GcFrom(s)) = Done
    BY <1>3, GcStacks
  <2> QED
    BY <1>3, <2>1 DEF Top, Rest, Doing, Task
<1> QED
  BY <1>1, <1>2, <1>3

LEMMA GcCollectStep ==
    ASSUME TypeOK, Up, IsCollect, GcCollect
    PROVE  TypeOK' /\ Up' /\ IsWalk'
<1>1. /\ todo = Push(Task("gc_collect", 0, 0, 0), Done)
      /\ InGc /\ Steady(NewValues) /\ Calm(0) /\ Spare(0)
  BY DEF IsCollect
<1>2. Rest = Done
  <2>1. Task("gc_collect", 0, 0, 0) \in Tasks
    BY DEF Task, Tasks, Tags
  <2> QED
    BY <1>1, <2>1, SetStacks, PushTop
<1>3. PICK S : S = {s \in Sectors : flash[s].ok /\ flash[s].store = "EMPTY"}
  OBVIOUS
<1>4. /\ UNCHANGED <<flash, db, phase, op, want>>
      /\ todo' = (IF Cardinality(S) <= 1 THEN EachSector("gc_sector") ELSE <<>>)
                   \o <<Task("gc_end", 0, 0, 0)>> \o Done
  BY <1>2, <1>3 DEF GcCollect, GcEmptySecThreshold
<1>5. TypeOK' /\ NewValues' = NewValues /\ InGc'
  BY <1>1, <1>4, CallKept DEF TypeOK, InGc
<1>6. Steady(NewValues)' /\ Calm(0)' /\ Spare(0)'
  BY <1>1, <1>4, <1>5, FlashKept, SteadyKept
<1>7. S \subseteq Sectors /\ \A s \in S : Bare(s)
  BY <1>1, <1>3, NotTouched DEF Steady
<1>8. 1 \in 1..(NSectors + 1) /\ NSectors + 1 \in 1..(NSectors + 1)
  BY KvdbAssumption
<1>9. CASE Cardinality(S) <= 1
  <2>1. todo' = GcFrom(1)
    BY <1>4, <1>9, GcStacks
  <2>2. CleanBelow(1)'
    BY AddrsFacts DEF CleanBelow, Sectors
  <2> QED
    BY <1>4, <1>5, <1>6, <1>8, <2>1, <2>2, UpKept DEF IsWalk
<1>10. CASE ~(Cardinality(S) <= 1)
  <2>1. todo' = GcFrom(NSectors + 1)
    BY <1>4, <1>10, GcStacks
  <2>2. Cardinality(S) > 1
    BY <1>7, <1>10, SectorsFinite
  <2>3. HasRoom
    BY <1>7, <2>2, TwoOf DEF HasRoom, TwoSpare
  <2>4. HasRoom'
    BY <1>4, <2>3, FlashKept
  <2> QED
    BY <1>4, <1>5, <1>6, <1>8, <2>1, <2>4, UpKept DEF IsWalk
<1> QED
  BY <1>9, <1>10

LEMMA DoGcStep ==
    ASSUME TypeOK, Up, IsWalk, DoGc
    PROVE  TypeOK' /\ Up' /\ (IsWalk' \/ IsGcKv')
<1>1. PICK s \in 1..(NSectors + 1) :
         /\ todo = GcFrom(s) /\ InGc /\ Steady(NewValues) /\ Calm(0) /\ Spare(0)
         /\ (CleanBelow(s) \/ (s = NSectors + 1 /\ HasRoom))
  BY DEF IsWalk
<1>2. s \in Sectors /\ Top.s = s /\ Rest = GcFrom(s + 1) /\ s # NSectors + 1 /\ s \in Nat /\ s # 0
  <2>1. s \in Sectors /\ Top.s = s /\ Rest = GcFrom(s + 1)
    BY <1>1, WalkTop DEF DoGc
  <2> QED
    BY <2>1, AddrsFacts, KvdbAssumption DEF Sectors
<1>3. CleanBelow(s) /\ Shape(0, 0) /\ flash[s].ok /\ flash[s].dirty # "GC"
  BY <1>1, <1>2 DEF Steady, Calm, Shape
<1>4. PICK E : E = NewValues
  OBVIOUS
<1>5. CASE flash[s].dirty = "TRUE"
  <2>1. /\ flash' = [flash EXCEPT ![s].dirty = "GC"]
        /\ todo' = <<Task("gc_kv", s, 1, 0)>> \o FormatTasks(s) \o GcFrom(s + 1)
        /\ UNCHANGED <<db, phase, op, want>>
    BY <1>2, <1>3, <1>5 DEF DoGc
  <2>2. /\ flash' \in [Sectors -> Sector] /\ flash'[s].dirty = "GC"
        /\ \A r \in Sectors : r # s => flash'[r] = flash[r]
        /\ \A r \in Sectors : /\ flash'[r].ok = flash[r].ok /\ flash'[r].store = flash[r].store
                              /\ flash'[r].kv = flash[r].kv
    <3>1. PICK h : h = [flash[s] EXCEPT !.dirty = "GC"]
      OBVIOUS
    <3>2. flash \in [Sectors -> Sector] /\ flash[s] \in Sector
      BY <1>2 DEF TypeOK
    <3>3. /\ h \in Sector /\ h.dirty = "GC" /\ h.kv = flash[s].kv /\ h.ok = flash[s].ok
          /\ h.store = flash[s].store
      BY <3>1, <3>2 DEF Sector
    <3>4. flash' = [flash EXCEPT ![s] = h]
      BY <2>1, <3>1
    <3>5. /\ flash' \in [Sectors -> Sector] /\ flash'[s] = h
          /\ \A r \in Sectors : r # s => flash'[r] = flash[r]
      BY <1>2, <3>2, <3>3, <3>4, SectorPut
    <3> QED
      BY <3>3, <3>5
  <2>3. /\ Addrs' = Addrs /\ \A b \in Addrs : NodeAt(b)' = NodeAt(b)
        /\ \A r \in Sectors : Used(r)' = Used(r)
    BY <2>2, HeaderWrite
  <2>4. Used(s) # 0 /\ s # 0
    BY <1>2, <1>3, <1>5 DEF Shape
  <2>5. Shape(0, 0)'
    BY <1>3, <2>2, <2>3, <2>4 DEF Shape
  <2>6. Data(E, NoAddr, NoAddr, NoAddr, NoAddr)'
    BY <1>1, <1>4, <2>1, <2>2, <2>3, DataKept DEF Steady
  <2>7. NewValues' = E /\ TypeOK' /\ InGc'
    BY <1>1, <1>4, <2>1, <2>2, CallKept DEF TypeOK, InGc
  <2>8. Steady(NewValues)'
    BY <1>1, <2>1, <2>5, <2>6, <2>7 DEF Steady, NoAddr
  <2>9. Calm(s)' /\ CleanBelow(s)'
    BY <1>1, <1>2, <1>3, <2>2 DEF Calm, CleanBelow
  <2>10. Gone(s, 1)'
    <3>1. \A j \in 1..Used(s)' : ~(j < 1)
      BY <1>2, <2>3, AddrsFacts
    <3> QED
      BY <1>2, <2>2, <2>7, <2>9, <3>1 DEF Gone
  <2>11. Room(s, 1)'
    <3>1. PICK e \in Sectors : Bare(e)
      BY <1>1 DEF Spare
    <3>2. Used(e) = 0 /\ flash[e].dirty = "FALSE"
      BY <1>3, <3>1, AddrsFacts DEF Bare, Shape
    <3>3. e # s
      BY <1>5, <3>2
    <3>4. Used(e)' < 1
      BY <2>3, <3>2
    <3> QED
      BY <2>2, <3>2, <3>3, <3>4 DEF Room
  <2>12. todo' = InSector(s, 1)
    BY <1>2, <2>1, SectorGcStacks
  <2>13. 1 \in 1..(Slots + 1)
    BY KvdbAssumption
  <2> QED
    BY <1>2, <2>1, <2>7, <2>8, <2>10, <2>11, <2>12, <2>13, UpKept DEF IsGcKv
<1>6. CASE flash[s].dirty # "TRUE"
  <2>1. UNCHANGED <<flash, db, phase, op, want>> /\ todo' = GcFrom(s + 1)
    BY <1>2, <1>3, <1>6 DEF DoGc
  <2>2. TypeOK' /\ NewValues' = NewValues /\ InGc'
    BY <1>1, <2>1, CallKept DEF TypeOK, InGc
  <2>3. Steady(NewValues)' /\ Calm(0)' /\ Spare(0)'
    BY <1>1, <2>1, <2>2, FlashKept, SteadyKept
  <2>4. flash[s].dirty = "FALSE"
    BY <1>2, <1>3, <1>6 DEF Shape
  <2>5. CleanBelow(s + 1)
    <3>1. \A r \in Sectors : r < s + 1 => r < s \/ r = s
      BY <1>2, AddrsFacts
    <3> QED
      BY <1>3, <2>4, <3>1 DEF CleanBelow
  <2>6. CleanBelow(s + 1)' /\ s + 1 \in 1..(NSectors + 1)
    BY <1>2, <2>1, <2>5, FlashKept, KvdbAssumption DEF Sectors
  <2> QED
    BY <2>1, <2>2, <2>3, <2>6, UpKept DEF IsWalk
<1> QED
  BY <1>5, <1>6

LEMMA GcEndStep ==
    ASSUME FewNames, TypeOK, Up, IsWalk, GcEnd
    PROVE  TypeOK' /\ Up' /\ IsDone'
<1>1. PICK s \in 1..(NSectors + 1) :
         /\ todo = GcFrom(s) /\ InGc /\ Steady(NewValues) /\ Calm(0) /\ Spare(0)
         /\ (CleanBelow(s) \/ (s = NSectors + 1 /\ HasRoom))
  BY DEF IsWalk
<1>2. s = NSectors + 1 /\ Rest = Done
  BY <1>1, WalkTop DEF GcEnd
<1>3. HasRoom
  <2>1. PICK E : E = NewValues
    OBVIOUS
  <2> QED
    BY <1>1, <1>2, <2>1, RoomLeft
<1>4. /\ db' = [db EXCEPT !.gc_request = FALSE] /\ todo' = Done
      /\ UNCHANGED <<flash, phase, op, want>>
  BY <1>2 DEF GcEnd, Steps
<1>5. /\ db' \in DbType /\ ~db'.gc_request /\ db'.cache = db.cache
      /\ db'.last_is_complete_del = db.last_is_complete_del
      /\ db'.in_recovery_check = db.in_recovery_check
  BY <1>4 DEF TypeOK, DbType
<1>6. TypeOK' /\ NewValues' = NewValues /\ InCall'
  BY <1>1, <1>4, <1>5, CallKept DEF TypeOK, InGc
<1>7. Steady(NewValues)' /\ Calm(0)' /\ Spare(0)' /\ HasRoom'
  BY <1>1, <1>3, <1>4, <1>5, <1>6, FlashKept, SteadyKept
<1> QED
  BY <1>4, <1>5, <1>6, <1>7, UpKept DEF IsDone

LEMMA GcKvStack ==
    ASSUME TypeOK, NEW s \in Sectors, NEW j \in 1..Slots, NEW A, A = <<s, j>>, NEW X,
           X = ToErase(s, GcFrom(s + 1))
    PROVE  (DelTasks(A, FALSE) \o <<Task("move", s, j, 0)>>) \o <<Task("gc_kv", s, j + 1, 0)>> \o X
             = ToMark(A, Push(Task("move", s, j, 0), InSector(s, j + 1)))
<1>1. s \in Nat /\ j \in Nat /\ j + 1 \in Nat
  BY MoveTails
<1>2. /\ X \in Stack /\ InSector(s, j + 1) \in Stack
      /\ InSector(s, j + 1) = <<Task("gc_kv", s, j + 1, 0)>> \o X
  <2>1. /\ GcFrom(s + 1) \in Stack /\ InSector(s, j + 1) \in Stack
        /\ InSector(s, j + 1) = <<Task("gc_kv", s, j + 1, 0)>> \o ToErase(s, GcFrom(s + 1))
    BY <1>1, SectorGcStacks
  <2> QED
    BY <1>1, <2>1, SectorStacks
<1>3. PICK D, m, g, I : /\ D = DelTasks(<<s, j>>, FALSE) /\ m = Task("move", s, j, 0)
                        /\ g = Task("gc_kv", s, j + 1, 0) /\ I = InSector(s, j + 1)
  OBVIOUS
<1>4. D \in Stack /\ <<m>> \in Stack /\ <<g>> \in Stack
  BY <1>1, <1>3 DEF DelTasks, Stack, Task, Tasks, Tags
<1>5. D \o <<m>> \in Stack /\ <<m>> \o I \in Stack
  BY <1>2, <1>3, <1>4, TwoStacks DEF Cat
<1>6. ((D \o <<m>>) \o <<g>>) \o X = (D \o <<m>>) \o (<<g>> \o X)
  <2>1. PICK R, G : R = D \o <<m>> /\ G = <<g>>
    OBVIOUS
  <2>2. R \in Stack /\ G \in Stack /\ X \in Stack
    BY <1>2, <1>4, <1>5, <2>1
  <2>3. (R \o G) \o X = R \o (G \o X)
    <3>1. Cat(Cat(R, G), X) = Cat(R, Cat(G, X))
      BY <2>2, ThreeStacks
    <3> QED
      BY <3>1 DEF Cat
  <2> QED
    BY <2>1, <2>3
<1>7. (D \o <<m>>) \o I = D \o (<<m>> \o I)
  <2>1. PICK M : M = <<m>>
    OBVIOUS
  <2>2. I \in Stack /\ M \in Stack /\ D \in Stack
    BY <1>2, <1>3, <1>4, <2>1
  <2>3. (D \o M) \o I = D \o (M \o I)
    <3>1. Cat(Cat(D, M), I) = Cat(D, Cat(M, I))
      BY <2>2, ThreeStacks
    <3> QED
      BY <3>1 DEF Cat
  <2> QED
    BY <2>1, <2>3
<1>8. D \o (<<m>> \o I) = ToMark(<<s, j>>, <<m>> \o I)
  BY <1>1, <1>3, <1>5, DelStacks
<1> QED
  BY <1>2, <1>3, <1>6, <1>7, <1>8 DEF Push

LEMMA GcKvStep ==
    ASSUME TypeOK, Up, IsGcKv, GcKv
    PROVE  TypeOK' /\ Up' /\ (IsErase' \/ IsMoveMark')
<1>1. PICK s \in Sectors, i \in 1..(Slots + 1) :
         todo = InSector(s, i) /\ Gone(s, i) /\ Room(s, i) /\ Steady(NewValues)
  BY DEF IsGcKv
<1>2. i \in Nat /\ s \in Nat /\ Slots \in Nat /\ Used(s) \in Nat /\ Used(s) <= Slots
  BY <1>1, KvdbAssumption, AddrsFacts DEF Steady, Shape
<1>3. Top.s = s /\ Top.i = i /\ Rest = ToErase(s, GcFrom(s + 1))
  <2>1. /\ InSector(s, i)[1] = Task("gc_kv", s, i, 0)
        /\ Tail(InSector(s, i)) = ToErase(s, GcFrom(s + 1))
    BY <1>2, SectorGcStacks
  <2> QED
    BY <1>1, <2>1 DEF Top, Rest, Task
<1>4. PICK L : L = {j \in i..Len(flash[s].kv) :
                       /\ CrcOk(flash[s].kv[j])
                       /\ flash[s].kv[j].status \in {"WRITE", "PRE_DELETE"}}
  OBVIOUS
<1>5. PICK X : X = ToErase(s, GcFrom(s + 1))
  OBVIOUS
<1>6. /\ todo' = IF L = {} THEN X
                 ELSE MoveTasks(<<s, Least(L)>>) \o <<Task("gc_kv", s, Least(L) + 1, 0)>> \o X
      /\ UNCHANGED <<flash, db, phase, op, want>>
  BY <1>3, <1>4, <1>5 DEF GcKv
<1>7. TypeOK' /\ NewValues' = NewValues /\ InCall'
  BY <1>1, <1>6, CallKept DEF TypeOK, Gone, InGc
<1>8. Steady(NewValues)'
  BY <1>1, <1>6, <1>7, FlashKept, SteadyKept
<1>9. \A j \in i..Used(s) : /\ j \in Nat /\ j \in 1..Slots /\ <<s, j>> \in Addrs
                            /\ j \in L <=> State(<<s, j>>) = "WRITE"
                            /\ State(<<s, j>>) \in {"WRITE", "DELETED"}
  <2> SUFFICES ASSUME NEW j \in i..Used(s)
               PROVE  /\ j \in Nat /\ j \in 1..Slots /\ <<s, j>> \in Addrs
                      /\ j \in L <=> State(<<s, j>>) = "WRITE"
                      /\ State(<<s, j>>) \in {"WRITE", "DELETED"}
    OBVIOUS
  <2>1. j \in Nat /\ j \in 1..Slots /\ j <= Used(s)
    BY <1>2
  <2>2. <<s, j>> \in Addrs
    BY <2>1, AddrsFacts
  <2>3. Full(<<s, j>>) /\ State(<<s, j>>) \in {"WRITE", "DELETED"}
    BY <1>1, <2>2, AddrsFacts DEF Steady, Data, NodesOK
  <2>4. j \in L <=> Full(<<s, j>>) /\ State(<<s, j>>) \in {"WRITE", "PRE_DELETE"}
    BY <1>4 DEF Full, State, NodeAt, Used
  <2> QED
    BY <2>1, <2>2, <2>3, <2>4
<1>10. L \subseteq i..Used(s) /\ L \subseteq Nat
  BY <1>2, <1>4 DEF Used
<1>11. ASSUME NEW n \in Nat, n >= i, \A j \in L : n <= j
       PROVE  Gone(s, n)'
  <2>1. \A j \in 1..Used(s) : j < n => State(<<s, j>>) = "DELETED"
    <3> SUFFICES ASSUME NEW j \in 1..Used(s), j < n PROVE State(<<s, j>>) = "DELETED"
      OBVIOUS
    <3>1. CASE j < i
      BY <1>1, <3>1 DEF Gone
    <3>2. CASE ~(j < i)
      <4>1. j \in i..Used(s)
        BY <1>2, <3>2
      <4>2. j \notin L
        BY <1>2, <1>11
      <4> QED
        BY <1>9, <4>1, <4>2
    <3> QED
      BY <3>1, <3>2
  <2>2. Gone(s, n)
    BY <1>1, <2>1 DEF Gone
  <2>3. /\ \A r \in Sectors : flash'[r].dirty = flash[r].dirty
        /\ Used(s)' = Used(s) /\ \A j \in 1..Used(s) : NodeAt(<<s, j>>)' = NodeAt(<<s, j>>)
    BY <1>6 DEF Used, NodeAt
  <2> QED
    BY <1>6, <2>2, <2>3, GoneKept
<1>12. CASE L = {}
  <2>1. todo' = ToErase(s, GcFrom(s + 1))
    BY <1>5, <1>6, <1>12
  <2>2. Slots + 1 \in Nat /\ Slots + 1 >= i
    BY <1>2
  <2>3. Gone(s, Slots + 1)'
    BY <1>11, <1>12, <2>2
  <2> QED
    BY <1>6, <1>7, <1>8, <2>1, <2>3, UpKept DEF IsErase
<1>13. CASE L # {}
  <2>1. PICK j : j = Least(L)
    OBVIOUS
  <2>2. j \in L /\ \A r \in L : j <= r
    BY <1>10, <1>13, <2>1, LeastIn
  <2>3. /\ j \in i..Used(s) /\ j \in Nat /\ j \in 1..Slots /\ <<s, j>> \in Addrs
        /\ State(<<s, j>>) = "WRITE" /\ j >= i
    BY <1>2, <1>9, <1>10, <2>2
  <2>4. Gone(s, j)'
    BY <1>11, <2>2, <2>3
  <2>5. Room(s, j)'
    <3>1. Room(s, j)
      <4>1. \A e \in Sectors : Used(e) \in Nat
        BY AddrsFacts
      <4>2. \A e \in Sectors : Used(e) < i => Used(e) < j
        BY <1>2, <2>3, <4>1
      <4> QED
        BY <1>1, <4>2 DEF Room
    <3> QED
      BY <1>6, <3>1, FlashKept
  <2>6. todo' = ToMark(<<s, j>>, Push(Task("move", s, j, 0), InSector(s, j + 1)))
    <3>1. PICK a : a = <<s, j>>
      OBVIOUS
    <3>2. MoveTasks(a) = DelTasks(a, FALSE) \o <<Task("move", s, j, 0)>>
      BY <2>3, <3>1 DEF MoveTasks, State
    <3>3. todo' = MoveTasks(a) \o <<Task("gc_kv", s, j + 1, 0)>> \o X
      BY <1>6, <1>13, <2>1, <3>1
    <3> QED
      BY <1>5, <2>3, <3>1, <3>2, <3>3, GcKvStack
  <2>7. Live(<<s, j>>)'
    <3>1. State(<<s, j>>)' = State(<<s, j>>) /\ Addrs' = Addrs
      BY <1>6, FlashKept DEF State
    <3> QED
      BY <2>3, <3>1 DEF Live
  <2> QED
    BY <1>6, <1>7, <1>8, <2>3, <2>4, <2>5, <2>6, <2>7, UpKept DEF IsMoveMark
<1> QED
  BY <1>12, <1>13

LEMMA GcEraseStep ==
    ASSUME TypeOK, Up, IsErase, Erase
    PROVE  TypeOK' /\ Up' /\ IsFormat'
<1>1. PICK s \in Sectors :
         todo = ToErase(s, GcFrom(s + 1)) /\ Gone(s, Slots + 1) /\ Steady(NewValues)
  BY DEF IsErase
<1>2. s \in Nat /\ Slots \in Nat /\ Used(s) \in Nat /\ Used(s) <= Slots /\ GcFrom(s + 1) \in Stack
  <2>1. 1 \in Nat
    OBVIOUS
  <2> QED
    BY <1>1, <2>1, KvdbAssumption, AddrsFacts, SectorGcStacks DEF Steady, Shape
<1>3. Top.s = s /\ Rest = ToFormat(s, GcFrom(s + 1))
  <2>1. /\ ToErase(s, GcFrom(s + 1))[1] = Task("erase", s, 0, 0)
        /\ Tail(ToErase(s, GcFrom(s + 1))) = ToFormat(s, GcFrom(s + 1))
    BY <1>2, SectorStacks
  <2> QED
    BY <1>1, <2>1 DEF Top, Rest, Task
<1>4. /\ flash' = [flash EXCEPT ![s] = Erased] /\ UNCHANGED db
      /\ todo' = ToFormat(s, GcFrom(s + 1)) /\ UNCHANGED <<phase, op, want>>
  BY <1>3 DEF Erase, Steps
<1>5. PICK E : E = NewValues
  OBVIOUS
<1>6. E = NewValues'
  BY <1>4, <1>5, CallKept
<1>7. \A j \in 1..Used(s) : State(<<s, j>>) = "DELETED"
  <2>1. \A j \in 1..Used(s) : j < Slots + 1
    BY <1>2
  <2> QED
    BY <1>1, <2>1 DEF Gone
<1>8. Shape(0, s)' /\ Data(E, NoAddr, NoAddr, NoAddr, NoAddr)'
  BY <1>1, <1>4, <1>5, <1>7, EraseStep
<1>9. /\ flash' \in [Sectors -> Sector] /\ flash'[s] = Erased
      /\ \A r \in Sectors : r # s => flash'[r] = flash[r]
  BY <1>4, EmptyWrite
<1>10. Calm(0)'
  <2>1. Erased.dirty # "GC"
    BY DEF Erased
  <2> QED
    BY <1>1, <1>9, <2>1 DEF Gone, Calm
<1>11. CleanBelow(s)'
  <2>1. \A r \in Sectors : r < s => r # s
    BY <1>2
  <2> QED
    BY <1>1, <1>9, <2>1 DEF Gone, CleanBelow
<1>12. TypeOK' /\ InGc' /\ ~db'.last_is_complete_del
  BY <1>1, <1>4, <1>9, CallKept DEF TypeOK, Gone, InGc, Steady
<1>13. Data(NewValues, NoAddr, NoAddr, NoAddr, NoAddr)'
  BY <1>6, <1>8 DEF NoAddr
<1> QED
  BY <1>4, <1>8, <1>10, <1>11, <1>12, <1>13, UpKept DEF IsFormat

LEMMA GcFormatStep ==
    ASSUME TypeOK, Up, IsFormat, Format
    PROVE  TypeOK' /\ Up' /\ IsWalk'
<1>1. PICK s \in Sectors :
         /\ todo = ToFormat(s, GcFrom(s + 1)) /\ InGc /\ Calm(0) /\ CleanBelow(s)
         /\ Shape(0, s) /\ Data(NewValues, NoAddr, NoAddr, NoAddr, NoAddr)
         /\ ~db.last_is_complete_del
  BY DEF IsFormat
<1>2. s \in Nat /\ s # 0 /\ GcFrom(s + 1) \in Stack
  <2>1. 1 \in Nat
    OBVIOUS
  <2> QED
    BY <2>1, AddrsFacts, SectorGcStacks
<1>3. Top.s = s /\ Rest = GcFrom(s + 1)
  <2>1. /\ ToFormat(s, GcFrom(s + 1))[1] = Task("format", s, 0, 0)
        /\ Tail(ToFormat(s, GcFrom(s + 1))) = GcFrom(s + 1)
    BY <1>2, SectorStacks
  <2> QED
    BY <1>1, <2>1 DEF Top, Rest, Task
<1>4. /\ flash' = [flash EXCEPT ![s] = Clean] /\ UNCHANGED db
      /\ todo' = GcFrom(s + 1) /\ UNCHANGED <<phase, op, want>>
  BY <1>3 DEF Format, Steps
<1>5. PICK E : E = NewValues
  OBVIOUS
<1>6. E = NewValues'
  BY <1>4, <1>5, CallKept
<1>7. Shape(0, 0)' /\ Data(E, NoAddr, NoAddr, NoAddr, NoAddr)'
  BY <1>1, <1>4, <1>5, FormatStep
<1>8. /\ flash' \in [Sectors -> Sector] /\ flash'[s] = Clean /\ Used(s)' = 0
      /\ \A r \in Sectors : r # s => flash'[r] = flash[r]
  BY <1>4, EmptyWrite
<1>9. Clean.dirty = "FALSE"
  BY DEF Clean
<1>10. Calm(0)' /\ Spare(0)'
  BY <1>1, <1>2, <1>8, <1>9 DEF Calm, Spare, Bare
<1>11. CleanBelow(s + 1)'
  <2>1. \A r \in Sectors : r < s + 1 => r < s \/ r = s
    BY <1>2, AddrsFacts
  <2> QED
    BY <1>1, <1>8, <1>9, <2>1 DEF CleanBelow
<1>12. TypeOK' /\ InGc' /\ ~db'.last_is_complete_del
  BY <1>1, <1>4, <1>8, CallKept DEF TypeOK, InGc
<1>13. Steady(NewValues)'
  BY <1>6, <1>7, <1>12 DEF Steady, NoAddr
<1>14. s + 1 \in 1..(NSectors + 1)
  BY <1>2, KvdbAssumption DEF Sectors
<1> QED
  BY <1>4, <1>10, <1>11, <1>12, <1>13, <1>14, UpKept DEF IsWalk

-----------------------------------------------------------------------------
(* Formatting all sectors: a set to the defaults, and the first start.     *)
LEMMA FormatOnward ==
    ASSUME TypeOK, NEW m \in 1..(2 * NSectors), NEW X \in Stack, todo = FormatFrom(m, X),
           FormattedTo(m), Erase \/ Format
    PROVE  /\ flash' \in [Sectors -> Sector]
           /\ UNCHANGED <<db, phase, op, want>>
           /\ \A s \in Sectors : flash'[s] \in {flash[s], Erased, Clean}
           /\ \/ m + 1 \in 1..(2 * NSectors) /\ todo' = FormatFrom(m + 1, X) /\ FormattedTo(m + 1)'
              \/ todo' = X /\ AllClean'
<1>1. NSectors \in Nat /\ m \in Nat /\ Sectors = 1..NSectors
  BY KvdbAssumption DEF Sectors
<1>2. Top = FormatAll[m] /\ Rest = FormatFrom(m + 1, X) /\ FormatFrom(2 * NSectors + 1, X) = X
  BY FormatStacks DEF Top, Rest
<1>3. PICK s \in Sectors : \/ m = 2 * s - 1 /\ FormatAll[m] = Task("erase", s, 0, 0)
                           \/ m = 2 * s /\ FormatAll[m] = Task("format", s, 0, 0)
  BY FormatParts
<1>4. s \in Nat /\ s >= 1 /\ s <= NSectors /\ Top.s = s
  BY <1>1, <1>2, <1>3 DEF Task
<1>5. todo' = FormatFrom(m + 1, X) /\ UNCHANGED <<db, phase, op, want>>
  BY <1>2 DEF Erase, Format, Steps
<1>6. \A r \in Sectors : /\ 2 * r < m => flash[r] = Clean
                         /\ 2 * r = m => flash[r] = Erased
  BY DEF FormattedTo
<1>7. CASE m = 2 * s - 1 /\ Top = Task("erase", s, 0, 0)
  <2>1. Doing("erase") /\ ~Doing("format")
    BY <1>7 DEF Doing, Task, Erase, Format
  <2>2. flash' = [flash EXCEPT ![s] = Erased]
    BY <1>4, <2>1 DEF Erase, Format
  <2>3. /\ flash' \in [Sectors -> Sector] /\ flash'[s] = Erased
        /\ \A r \in Sectors : r # s => flash'[r] = flash[r]
    BY <2>2, EmptyWrite
  <2>4. m + 1 \in 1..(2 * NSectors) /\ m + 1 = 2 * s
    BY <1>1, <1>4, <1>7
  <2>5. \A r \in Sectors : /\ 2 * r < m + 1 => flash'[r] = Clean
                           /\ 2 * r = m + 1 => flash'[r] = Erased
    <3> SUFFICES ASSUME NEW r \in Sectors PROVE /\ 2 * r < m + 1 => flash'[r] = Clean
                                                /\ 2 * r = m + 1 => flash'[r] = Erased
      OBVIOUS
    <3>1. r \in Nat
      BY <1>1
    <3>2. (2 * r < m + 1 => r # s /\ 2 * r < m) /\ (2 * r = m + 1 => r = s)
      BY <1>4, <1>7, <2>4, <3>1
    <3> QED
      BY <1>6, <2>3, <3>2
  <2>6. FormattedTo(m + 1)'
    BY <2>5 DEF FormattedTo
  <2> QED
    BY <1>5, <2>3, <2>4, <2>6
<1>8. CASE m = 2 * s /\ Top = Task("format", s, 0, 0)
  <2>1. Doing("format") /\ ~Doing("erase")
    BY <1>8 DEF Doing, Task, Erase, Format
  <2>2. flash' = [flash EXCEPT ![s] = Clean]
    BY <1>4, <2>1 DEF Erase, Format
  <2>3. /\ flash' \in [Sectors -> Sector] /\ flash'[s] = Clean
        /\ \A r \in Sectors : r # s => flash'[r] = flash[r]
    BY <2>2, EmptyWrite
  <2>4. \A r \in Sectors : /\ 2 * r < m + 1 => flash'[r] = Clean
                           /\ 2 * r # m + 1
    <3> SUFFICES ASSUME NEW r \in Sectors PROVE /\ 2 * r < m + 1 => flash'[r] = Clean
                                                /\ 2 * r # m + 1
      OBVIOUS
    <3>1. r \in Nat
      BY <1>1
    <3>2. (2 * r < m + 1 => r = s \/ 2 * r < m) /\ 2 * r # m + 1
      BY <1>4, <1>8, <3>1
    <3>3. 2 * r < m => flash[r] = Clean /\ r # s
      BY <1>6, <1>8, <3>1, <1>4
    <3> QED
      BY <2>3, <3>2, <3>3
  <2>5. CASE s = NSectors
    <3>1. todo' = X
      BY <1>2, <1>5, <1>8, <2>5
    <3>2. \A r \in Sectors : 2 * r < m + 1
      BY <1>1, <1>4, <1>8, <2>5
    <3>3. AllClean'
      BY <2>4, <3>2 DEF AllClean
    <3> QED
      BY <1>5, <2>3, <3>1, <3>3
  <2>6. CASE s # NSectors
    <3>1. m + 1 \in 1..(2 * NSectors)
      BY <1>1, <1>4, <1>8, <2>6
    <3>2. FormattedTo(m + 1)'
      BY <2>4 DEF FormattedTo
    <3> QED
      BY <1>5, <2>3, <3>1, <3>2
  <2> QED
    BY <2>5, <2>6
<1> QED
  BY <1>2, <1>3, <1>7, <1>8

LEMMA DefaultStep ==
    ASSUME TypeOK, Up, IsDefault, Erase \/ Format
    PROVE  TypeOK' /\ Up' /\ (IsDefault' \/ IsFormatted')
<1>1. PICK m \in 1..(2 * NSectors) :
         todo = FormatFrom(m, ToFormatted) /\ FormattedTo(m) /\ InDefault
  BY DEF IsDefault
<1>2. ToFormatted \in Stack
  BY CheckStacks
<1>3. /\ flash' \in [Sectors -> Sector]
      /\ UNCHANGED <<db, phase, op, want>>
      /\ \/ /\ m + 1 \in 1..(2 * NSectors) /\ todo' = FormatFrom(m + 1, ToFormatted)
            /\ FormattedTo(m + 1)'
         \/ todo' = ToFormatted /\ AllClean'
  BY <1>1, <1>2, FormatOnward
<1>4. TypeOK' /\ InDefault'
  BY <1>1, <1>3 DEF TypeOK, InDefault
<1> QED
  BY <1>3, <1>4, UpKept DEF IsDefault, IsFormatted

\* What the first start leaves alone.
LEMMA NewKept ==
    ASSUME TypeOK, New, flash' \in [Sectors -> Sector], db' \in DbType, UNCHANGED <<op, want>>,
           \A s \in Sectors : flash'[s] \in {flash[s], Erased, Clean},
           ~db'.gc_request, ~db'.last_is_complete_del
    PROVE  TypeOK' /\ New'
<1>1. TypeOK'
  BY DEF TypeOK
<1>2. \A s \in Sectors : flash'[s] \in {Erased, Clean}
  BY DEF New
<1> QED
  BY <1>1, <1>2 DEF New

LEMMA BootFormatStep ==
    ASSUME TypeOK, phase = "boot", New, IsBootFormat, Erase \/ Format
    PROVE  TypeOK' /\ phase' = "boot" /\ New' /\ (IsBootFormat' \/ IsCheckGc')
<1>1. PICK m \in 1..(2 * NSectors) :
         todo = FormatFrom(m, BootFrom(NSectors + 2)) /\ FormattedTo(m)
  BY DEF IsBootFormat
<1>2. NSectors + 2 \in 1..(2 * NSectors + 1) /\ 1 \in Sectors /\ NSectors + 1 + 1 = NSectors + 2
  BY KvdbAssumption DEF Sectors, GcEmptySecThreshold
<1>3. PICK X : X = BootFrom(NSectors + 2)
  OBVIOUS
<1>4. X \in Stack
  BY <1>2, <1>3, BootStacks
<1>5. /\ flash' \in [Sectors -> Sector]
      /\ UNCHANGED <<db, phase, op, want>>
      /\ \A s \in Sectors : flash'[s] \in {flash[s], Erased, Clean}
      /\ \/ m + 1 \in 1..(2 * NSectors) /\ todo' = FormatFrom(m + 1, X) /\ FormattedTo(m + 1)'
         \/ todo' = X /\ AllClean'
  BY <1>1, <1>3, <1>4, FormatOnward
<1>6. TypeOK' /\ New'
  BY <1>5, NewKept DEF TypeOK, New
<1> QED
  BY <1>2, <1>3, <1>5, <1>6 DEF IsBootFormat, IsCheckGc

LEMMA BootStep ==
    ASSUME TypeOK, IsOff, Boot
    PROVE  TypeOK' /\ phase' = "boot" /\ New' /\ IsHdr'
<1>1. New /\ CleanTo(0)
  BY DEF IsOff
<1>2. /\ phase' = "boot" /\ db' = [Memory EXCEPT !.in_recovery_check = TRUE]
      /\ todo' = BootScript /\ UNCHANGED <<flash, op, want>>
  BY DEF Boot, BootScript
<1>3. /\ db' \in DbType /\ ~db'.gc_request /\ ~db'.last_is_complete_del /\ db'.failed = 0
  BY <1>2 DEF Memory, DbType, NoAddr
<1>4. TypeOK' /\ New'
  BY <1>1, <1>2, <1>3, NewKept DEF TypeOK
<1>5. todo' = BootFrom(1) /\ 1 \in 1..(NSectors + 1) /\ 1 - 1 = 0
  BY <1>2, BootStacks, KvdbAssumption
<1>6. CleanTo(0)'
  BY <1>1, <1>2 DEF CleanTo
<1> QED
  BY <1>2, <1>3, <1>4, <1>5, <1>6 DEF IsHdr

\* Until all sectors are formatted, those ahead are erased.
LEMMA HdrTop ==
    ASSUME TypeOK, NEW m \in 1..(NSectors + 1), todo = BootFrom(m), CleanTo(m - 1)
    PROVE  /\ Doing("check_hdr") => /\ m \in Sectors /\ Top.s = m /\ Rest = BootFrom(m + 1)
                                    /\ ~flash[m].ok
           /\ Doing("check_all") => m = NSectors + 1 /\ Rest = BootFrom(NSectors + 2)
<1>1. /\ NSectors \in Nat /\ m \in Nat /\ m >= 1 /\ m \in 1..(2 * NSectors + 1)
      /\ (m <= NSectors \/ m = NSectors + 1)
  BY KvdbAssumption
<1>2. /\ Rest = BootFrom(m + 1)
      /\ Top = IF m <= NSectors THEN Task("check_hdr", m, 0, 0)
               ELSE IF m = NSectors + 1 THEN Task("check_all", 0, 0, 0)
               ELSE Task("check_gc", m - NSectors - 1, 0, 0)
  BY <1>1, BootStacks DEF Top, Rest
<1>3. CASE m <= NSectors
  <2>1. Top = Task("check_hdr", m, 0, 0) /\ m \in Sectors /\ ~(m <= m - 1)
    BY <1>1, <1>2, <1>3 DEF Sectors
  <2>2. flash[m] = Erased
    BY <2>1 DEF CleanTo
  <2> QED
    BY <1>2, <2>1, <2>2 DEF Doing, Task, Erased
<1>4. CASE m = NSectors + 1
  <2>1. Top = Task("check_all", 0, 0, 0) /\ m + 1 = NSectors + 2
    BY <1>1, <1>2, <1>4
  <2> QED
    BY <1>2, <1>4, <2>1 DEF Doing, Task
<1> QED
  BY <1>1, <1>3, <1>4

LEMMA CheckHdrStep ==
    ASSUME TypeOK, phase = "boot", New, IsHdr, CheckHdr
    PROVE  TypeOK' /\ phase' = "boot" /\ New' /\ IsHdrErase'
<1>1. PICK m \in 1..(NSectors + 1) : todo = BootFrom(m) /\ CleanTo(m - 1) /\ db.failed = m - 1
  BY DEF IsHdr
<1>2. m \in Sectors /\ Top.s = m /\ Rest = BootFrom(m + 1) /\ ~flash[m].ok
  BY <1>1, HdrTop DEF CheckHdr
<1>3. m \in Nat /\ m + 1 \in 1..(2 * NSectors + 1)
  BY <1>2, KvdbAssumption DEF Sectors
<1>4. /\ db' = [db EXCEPT !.failed = @ + 1]
      /\ todo' = FormatTasks(m) \o BootFrom(m + 1)
      /\ UNCHANGED <<flash, phase, op, want>>
  BY <1>2 DEF CheckHdr
<1>5. todo' = ToErase(m, BootFrom(m + 1))
  <2>1. BootFrom(m + 1) \in Stack
    BY <1>3, BootStacks
  <2>2. FormatTasks(m) \o BootFrom(m + 1) = ToErase(m, BootFrom(m + 1))
    BY <1>3, <2>1, SectorStacks
  <2> QED
    BY <1>4, <2>2
<1>6. /\ db' \in DbType /\ ~db'.gc_request /\ ~db'.last_is_complete_del /\ db'.failed = m
  <2>1. db.failed + 1 = m /\ db.failed \in Nat /\ m \in Nat
    BY <1>1, <1>3 DEF TypeOK, DbType
  <2>2. db' = [db EXCEPT !.failed = m]
    BY <1>4, <2>1
  <2> QED
    BY <2>1, <2>2 DEF New, TypeOK, DbType
<1>7. TypeOK' /\ New'
  BY <1>4, <1>6, NewKept DEF TypeOK
<1>8. CleanTo(m - 1)'
  BY <1>1, <1>4 DEF CleanTo
<1> QED
  BY <1>2, <1>4, <1>5, <1>6, <1>7, <1>8 DEF IsHdrErase

LEMMA HdrEraseStep ==
    ASSUME TypeOK, phase = "boot", New, IsHdrErase, Erase
    PROVE  TypeOK' /\ phase' = "boot" /\ New' /\ IsHdrFormat'
<1>1. PICK s \in Sectors :
         todo = ToErase(s, BootFrom(s + 1)) /\ CleanTo(s - 1) /\ db.failed = s
  BY DEF IsHdrErase
<1>2. s \in Nat /\ s + 1 \in 1..(2 * NSectors + 1) /\ ~(s <= s - 1)
  BY KvdbAssumption DEF Sectors
<1>3. BootFrom(s + 1) \in Stack
  BY <1>2, BootStacks
<1>4. Top.s = s /\ Rest = ToFormat(s, BootFrom(s + 1))
  <2>1. /\ ToErase(s, BootFrom(s + 1))[1] = Task("erase", s, 0, 0)
        /\ Tail(ToErase(s, BootFrom(s + 1))) = ToFormat(s, BootFrom(s + 1))
    BY <1>2, <1>3, SectorStacks
  <2> QED
    BY <1>1, <2>1 DEF Top, Rest, Task
<1>5. /\ flash' = [flash EXCEPT ![s] = Erased] /\ UNCHANGED db
      /\ todo' = ToFormat(s, BootFrom(s + 1)) /\ UNCHANGED <<phase, op, want>>
  BY <1>4 DEF Erase, Steps
<1>6. /\ flash' \in [Sectors -> Sector] /\ flash'[s] = Erased
      /\ \A r \in Sectors : r # s => flash'[r] = flash[r]
  BY <1>5, EmptyWrite
<1>7. TypeOK' /\ New'
  BY <1>5, <1>6, NewKept DEF TypeOK, New
<1>8. CleanTo(s - 1)'
  BY <1>1, <1>2, <1>6 DEF CleanTo
<1> QED
  BY <1>1, <1>5, <1>7, <1>8 DEF IsHdrFormat

LEMMA HdrFormatStep ==
    ASSUME TypeOK, phase = "boot", New, IsHdrFormat, Format
    PROVE  TypeOK' /\ phase' = "boot" /\ New' /\ IsHdr'
<1>1. PICK s \in Sectors :
         todo = ToFormat(s, BootFrom(s + 1)) /\ CleanTo(s - 1) /\ db.failed = s
  BY DEF IsHdrFormat
<1>2. /\ s \in Nat /\ s + 1 \in 1..(2 * NSectors + 1) /\ s + 1 \in 1..(NSectors + 1)
      /\ s + 1 - 1 = s
  BY KvdbAssumption DEF Sectors
<1>3. BootFrom(s + 1) \in Stack
  BY <1>2, BootStacks
<1>4. Top.s = s /\ Rest = BootFrom(s + 1)
  <2>1. /\ ToFormat(s, BootFrom(s + 1))[1] = Task("format", s, 0, 0)
        /\ Tail(ToFormat(s, BootFrom(s + 1))) = BootFrom(s + 1)
    BY <1>2, <1>3, SectorStacks
  <2> QED
    BY <1>1, <2>1 DEF Top, Rest, Task
<1>5. /\ flash' = [flash EXCEPT ![s] = Clean] /\ UNCHANGED db
      /\ todo' = BootFrom(s + 1) /\ UNCHANGED <<phase, op, want>>
  BY <1>4 DEF Format, Steps
<1>6. /\ flash' \in [Sectors -> Sector] /\ flash'[s] = Clean
      /\ \A r \in Sectors : r # s => flash'[r] = flash[r]
  BY <1>5, EmptyWrite
<1>7. TypeOK' /\ New'
  BY <1>5, <1>6, NewKept DEF TypeOK, New
<1>8. CleanTo(s)'
  <2>1. \A r \in Sectors : r # s => (r <= s <=> r <= s - 1)
    BY <1>2, KvdbAssumption DEF Sectors
  <2>2. \A r \in Sectors : flash'[r] = IF r <= s THEN Clean ELSE Erased
    BY <1>1, <1>2, <1>6, <2>1 DEF CleanTo
  <2> QED
    BY <2>2 DEF CleanTo
<1> QED
  BY <1>1, <1>2, <1>5, <1>7, <1>8 DEF IsHdr

LEMMA CheckAllStep ==
    ASSUME TypeOK, phase = "boot", New, IsHdr, CheckAll
    PROVE  TypeOK' /\ phase' = "boot" /\ New' /\ IsBootFormat'
<1>1. PICK m \in 1..(NSectors + 1) : todo = BootFrom(m) /\ CleanTo(m - 1) /\ db.failed = m - 1
  BY DEF IsHdr
<1>2. m = NSectors + 1 /\ Rest = BootFrom(NSectors + 2)
  BY <1>1, HdrTop DEF CheckAll
<1>3. db.failed = NSectors /\ NSectors \in Nat /\ 1 \in 1..(2 * NSectors)
  BY <1>1, <1>2, KvdbAssumption DEF GcEmptySecThreshold
<1>4. todo' = FormatAll \o BootFrom(NSectors + 2) /\ UNCHANGED <<flash, db, phase, op, want>>
  <2>1. ~(db.failed < NSectors)
    BY <1>3
  <2> QED
    BY <1>2, <2>1 DEF CheckAll
<1>5. todo' = FormatFrom(1, BootFrom(NSectors + 2))
  <2>1. NSectors + 2 \in 1..(2 * NSectors + 1)
    BY KvdbAssumption DEF GcEmptySecThreshold
  <2>2. BootFrom(NSectors + 2) \in Stack
    BY <2>1, BootStacks
  <2>3. FormatAll \o BootFrom(NSectors + 2) = FormatFrom(1, BootFrom(NSectors + 2))
    BY <2>2, FormatStacks
  <2> QED
    BY <1>4, <2>3
<1>6. FormattedTo(1)'
  <2>1. \A s \in Sectors : ~(2 * s < 1) /\ 2 * s # 1
    BY AddrsFacts
  <2> QED
    BY <2>1 DEF FormattedTo
<1>7. TypeOK' /\ New'
  BY <1>4, NewKept DEF TypeOK, New
<1> QED
  BY <1>3, <1>4, <1>5, <1>6, <1>7 DEF IsBootFormat

LEMMA CheckGcStep ==
    ASSUME TypeOK, phase = "boot", New, IsCheckGc, CheckGc
    PROVE  TypeOK' /\ phase' = "boot" /\ New' /\ (IsCheckGc' \/ IsCheckKv')
<1>1. PICK s \in Sectors : todo = BootFrom(NSectors + 1 + s) /\ AllClean
  BY DEF IsCheckGc
<1>2. PICK m : m = NSectors + 1 + s
  OBVIOUS
<1>3. /\ NSectors \in Nat /\ s \in Nat /\ s <= NSectors /\ m \in 1..(2 * NSectors + 1)
      /\ ~(m <= NSectors) /\ m # NSectors + 1 /\ m - NSectors - 1 = s
      /\ 1 \in 1..(NSectors + 1)
      /\ s # NSectors => s + 1 \in Sectors /\ m + 1 = NSectors + 1 + (s + 1)
      /\ s = NSectors => m + 1 = 2 * NSectors + 2
  BY <1>2, KvdbAssumption DEF Sectors
<1>4. Top = Task("check_gc", s, 0, 0) /\ Rest = BootFrom(m + 1)
  BY <1>1, <1>2, <1>3, BootStacks DEF Top, Rest
<1>5. Top.s = s /\ flash[s].dirty # "GC"
  BY <1>1, <1>4 DEF Task, AllClean, Clean
<1>6. todo' = BootFrom(m + 1) /\ UNCHANGED <<flash, db, phase, op, want>>
  BY <1>4, <1>5 DEF CheckGc
<1>7. TypeOK' /\ New' /\ AllClean'
  <2>1. AllClean'
    BY <1>1, <1>6, FlashKept
  <2> QED
    BY <1>6, <2>1, NewKept DEF TypeOK, New
<1>8. CASE s = NSectors
  <2>1. todo' = Checking(1)
    BY <1>3, <1>6, <1>8, BootStacks
  <2> QED
    BY <1>3, <1>6, <1>7, <2>1 DEF IsCheckKv
<1>9. CASE s # NSectors
  BY <1>3, <1>6, <1>7, <1>9 DEF IsCheckGc
<1> QED
  BY <1>8, <1>9

LEMMA CheckKvStep ==
    ASSUME TypeOK, phase = "boot", New, IsCheckKv, CheckKv
    PROVE  TypeOK' /\ phase' = "boot" /\ New' /\ (IsCheckKv' \/ IsChecked')
<1>1. PICK s \in 1..(NSectors + 1) : todo = Checking(s) /\ AllClean
  BY DEF IsCheckKv
<1>2. /\ NSectors \in Nat /\ s \in Nat /\ s + 1 \in Nat
      /\ (s > NSectors \/ (~(s > NSectors) /\ s \in Sectors /\ s + 1 \in 1..(NSectors + 1)))
  BY KvdbAssumption DEF Sectors
<1>3. Top.s = s /\ Top.i = 1 /\ Rest = ToFinish
  <2>1. Checking(s)[1] = Task("check_kv", s, 1, 0) /\ Tail(Checking(s)) = ToFinish
    BY <1>2, CheckStacks
  <2> QED
    BY <1>1, <2>1 DEF Top, Rest, Task
<1>4. UNCHANGED <<phase, op, want>>
  BY DEF CheckKv
<1>5. CASE s > NSectors
  <2>1. todo' = ToFinish /\ UNCHANGED <<flash, db>>
    BY <1>3, <1>5 DEF CheckKv
  <2>2. AllClean'
    BY <1>1, <2>1, FlashKept
  <2>3. TypeOK' /\ New'
    BY <1>4, <2>1, NewKept DEF TypeOK, New
  <2> QED
    BY <1>4, <2>1, <2>2, <2>3 DEF IsChecked
<1>6. CASE ~(s > NSectors)
  <2>1. s \in Sectors /\ s + 1 \in 1..(NSectors + 1)
    BY <1>2, <1>6
  <2>2. PICK f : f = Touched(flash, {s} \intersect Sectors)
    OBVIOUS
  <2>3. f[s].kv = <<>>
    <3>1. flash[s] = Clean /\ Clean.store # "USING" /\ Clean.kv = <<>>
      BY <1>1, <2>1 DEF AllClean, Clean
    <3>2. ~Opened(flash, s)
      BY <3>1 DEF Opened
    <3>3. f[s] = flash[s]
      BY <2>1, <2>2, <3>2 DEF Touched
    <3> QED
      BY <3>1, <3>3
  <2>4. 1 > Len(f[s].kv)
    BY <2>3
  <2>5. todo' = <<Task("check_kv", s + 1, 1, 0)>> \o ToFinish /\ UNCHANGED <<flash, db>>
    BY <1>3, <1>6, <2>2, <2>4 DEF CheckKv
  <2>6. todo' = Checking(s + 1)
    BY <1>2, <2>5, CheckStacks
  <2>7. AllClean'
    BY <1>1, <2>5, FlashKept
  <2>8. TypeOK' /\ New'
    BY <1>4, <2>5, NewKept DEF TypeOK, New
  <2> QED
    BY <1>4, <2>1, <2>6, <2>7, <2>8 DEF IsCheckKv
<1> QED
  BY <1>5, <1>6

LEMMA CheckedStep ==
    ASSUME TypeOK, phase = "boot", New, IsChecked, Checked
    PROVE  TypeOK' /\ Up' /\ Idle'
<1>1. AllClean /\ ~db.gc_request /\ ~db.last_is_complete_del /\ op = NoOp /\ db \in DbType
  BY DEF IsChecked, New, TypeOK
<1>2. /\ todo' = <<>> /\ phase' = "ready" /\ db' = [db EXCEPT !.in_recovery_check = FALSE]
      /\ want' = [k \in Keys |-> IF Visible(k) \in want[k] THEN {Visible(k)} ELSE want[k]]
      /\ UNCHANGED <<flash, op>>
  BY <1>1 DEF Checked
<1>3. Addrs = {}
  <2>1. \A s \in Sectors : Used(s) = 0
    BY <1>1 DEF AllClean, Used, Clean
  <2> QED
    BY <2>1 DEF Addrs, Used
<1>4. \A k \in Keys : Visible(k) = None /\ want[k] = {None}
  <2> SUFFICES ASSUME NEW k \in Keys PROVE Visible(k) = None /\ want[k] = {None}
    OBVIOUS
  <2>1. ~CacheHit(k) /\ Copies(k, {"WRITE"}) = {}
    BY <1>3 DEF CacheHit, Copies
  <2>2. Find(k) = NoAddr
    BY <2>1 DEF Find, FindNoCache
  <2> QED
    BY <2>2 DEF Visible, New
<1>5. want' = [k \in Keys |-> {None}]
  BY <1>2, <1>4
<1>6. /\ db' \in DbType /\ ~db'.gc_request /\ ~db'.last_is_complete_del
      /\ ~db'.in_recovery_check
  BY <1>1, <1>2 DEF DbType
<1>7. TypeOK'
  BY <1>2, <1>5, <1>6 DEF TypeOK
<1>8. AllClean'
  BY <1>1, <1>2, FlashKept
<1>9. Idle'
  BY <1>1, <1>2, <1>5, <1>6, <1>8, CleanIdle, KvdbAssumption
<1> QED
  BY <1>2, <1>6, <1>7, <1>9 DEF Up

-----------------------------------------------------------------------------
(* A step keeps the forms.                                                 *)
LEMMA UpForms ==
    ASSUME Up'
    PROVE  /\ Idle' \/ IsNew' \/ IsFind' \/ IsAfterSet' \/ IsDone' => Forms'
           /\ IsSetMark' \/ IsSetMarked' \/ IsSetMake' \/ IsSetPre' \/ IsSetHeader' \/ IsSetBody'
                \/ IsSetCommit' \/ IsSetDelete' \/ IsSetDeleted' => Forms'
           /\ IsDelDelete' \/ IsDelDeleted' \/ IsCollect' \/ IsWalk' \/ IsGcKv' => Forms'
           /\ IsMoveMark' \/ IsMoveMarked' \/ IsMove' \/ IsMoveMake' \/ IsMovePre' \/ IsMoveHeader'
                \/ IsMoveBody' \/ IsMoveCommit' \/ IsMoveDelete' \/ IsMoveDeleted' => Forms'
           /\ IsErase' \/ IsFormat' \/ IsDefault' \/ IsFormatted' => Forms'
BY DEF Running, Forms

LEMMA BootForms ==
    ASSUME phase' = "boot", New'
    PROVE  IsHdr' \/ IsHdrErase' \/ IsHdrFormat' \/ IsBootFormat' \/ IsCheckGc' \/ IsCheckKv'
             \/ IsChecked' => Forms'
BY DEF Booting, Forms

LEMMA SetWork ==
    ASSUME TypeOK, Forms, \/ NewKv \/ FindKv \/ GcAfter \/ Return \/ Formatted
    PROVE  TypeOK' /\ Forms'
<1>1. CASE NewKv
  <2>1. Up /\ IsNew
    BY <1>1, Places DEF NewKv
  <2> QED
    BY <1>1, <2>1, NewKvStep, UpForms
<1>2. CASE FindKv
  <2>1. Up /\ IsFind
    BY <1>2, Places DEF FindKv
  <2> QED
    BY <1>2, <2>1, FindKvStep, UpForms
<1>3. CASE GcAfter
  <2>1. Up /\ IsAfterSet
    BY <1>3, Places DEF GcAfter
  <2> QED
    BY <1>3, <2>1, GcAfterStep, UpForms
<1>4. CASE Return
  <2>1. Up /\ IsDone
    BY <1>4, Places DEF Return
  <2> QED
    BY <1>4, <2>1, ReturnStep, UpForms
<1>5. CASE Formatted
  <2>1. Up /\ IsFormatted
    BY <1>5, Places DEF Formatted
  <2> QED
    BY <1>5, <2>1, FormattedStep, UpForms
<1> QED
  BY <1>1, <1>2, <1>3, <1>4, <1>5

LEMMA WriteWork ==
    ASSUME TypeOK, Forms,
           \/ PreDelete \/ Delete \/ Dirty \/ UpdateSecStatus \/ PreWrite \/ Header \/ Body \/ Commit
    PROVE  TypeOK' /\ Forms'
<1>1. CASE PreDelete
  <2>1. Up /\ (IsSetMark \/ IsMoveMark)
    BY <1>1, Places DEF PreDelete
  <2> QED
    BY <1>1, <2>1, SetMarkStep, MoveMarkStep, UpForms
<1>2. CASE Delete
  <2>1. Up /\ (IsSetDelete \/ IsDelDelete \/ IsMoveDelete)
    BY <1>2, Places DEF Delete
  <2> QED
    BY <1>2, <2>1, SetDeleteStep, DelDeleteStep, MoveDeleteStep, UpForms
<1>3. CASE Dirty
  <2>1. Up /\ (IsSetMarked \/ IsSetDeleted \/ IsDelDeleted \/ IsMoveMarked \/ IsMoveDeleted)
    BY <1>3, Places DEF Dirty
  <2> QED
    BY <1>3, <2>1, SetMarkedStep, SetDeletedStep, DelDeletedStep, MoveMarkedStep, MoveDeletedStep,
       UpForms
<1>4. CASE UpdateSecStatus
  <2>1. Up /\ (IsSetMake \/ IsMoveMake)
    BY <1>4, Places DEF UpdateSecStatus
  <2> QED
    BY <1>4, <2>1, SetMakeStep, MoveMakeStep, UpForms
<1>5. CASE PreWrite
  <2>1. Up /\ (IsSetPre \/ IsMovePre)
    BY <1>5, Places DEF PreWrite
  <2> QED
    BY <1>5, <2>1, SetPreStep, MovePreStep, UpForms
<1>6. CASE Header
  <2>1. Up /\ (IsSetHeader \/ IsMoveHeader)
    BY <1>6, Places DEF Header
  <2> QED
    BY <1>6, <2>1, SetHeaderStep, MoveHeaderStep, UpForms
<1>7. CASE Body
  <2>1. Up /\ (IsSetBody \/ IsMoveBody)
    BY <1>7, Places DEF Body
  <2> QED
    BY <1>7, <2>1, SetBodyStep, MoveBodyStep, UpForms
<1>8. CASE Commit
  <2>1. Up /\ (IsSetCommit \/ IsMoveCommit)
    BY <1>8, Places DEF Commit
  <2> QED
    BY <1>8, <2>1, SetCommitStep, MoveCommitStep, UpForms
<1> QED
  BY <1>1, <1>2, <1>3, <1>4, <1>5, <1>6, <1>7, <1>8

LEMMA GcWork ==
    ASSUME FewNames, TypeOK, Forms, \/ GcCollect \/ DoGc \/ GcKv \/ MoveKv \/ GcEnd
    PROVE  TypeOK' /\ Forms'
<1>1. CASE GcCollect
  <2>1. Up /\ IsCollect
    BY <1>1, Places DEF GcCollect
  <2> QED
    BY <1>1, <2>1, GcCollectStep, UpForms
<1>2. CASE DoGc
  <2>1. Up /\ IsWalk
    BY <1>2, Places DEF DoGc
  <2> QED
    BY <1>2, <2>1, DoGcStep, UpForms
<1>3. CASE GcKv
  <2>1. Up /\ IsGcKv
    BY <1>3, Places DEF GcKv
  <2> QED
    BY <1>3, <2>1, GcKvStep, UpForms
<1>4. CASE MoveKv
  <2>1. Up /\ IsMove
    BY <1>4, Places DEF MoveKv
  <2> QED
    BY <1>4, <2>1, MoveStep, UpForms
<1>5. CASE GcEnd
  <2>1. Up /\ IsWalk
    BY <1>5, Places DEF GcEnd
  <2> QED
    BY <1>5, <2>1, GcEndStep, UpForms
<1> QED
  BY <1>1, <1>2, <1>3, <1>4, <1>5

LEMMA FormatWork ==
    ASSUME TypeOK, Forms, Erase \/ Format
    PROVE  TypeOK' /\ Forms'
<1>1. CASE Erase
  <2>1. \/ (Up /\ (IsErase \/ IsDefault))
        \/ (phase = "boot" /\ New /\ (IsHdrErase \/ IsBootFormat))
    BY <1>1, Places DEF Erase
  <2>2. CASE Up /\ IsErase
    BY <1>1, <2>2, GcEraseStep, UpForms
  <2>3. CASE Up /\ IsDefault
    BY <1>1, <2>3, DefaultStep, UpForms
  <2>4. CASE phase = "boot" /\ New /\ IsHdrErase
    BY <1>1, <2>4, HdrEraseStep, BootForms
  <2>5. CASE phase = "boot" /\ New /\ IsBootFormat
    BY <1>1, <2>5, BootFormatStep, BootForms
  <2> QED
    BY <2>1, <2>2, <2>3, <2>4, <2>5
<1>2. CASE Format
  <2>1. \/ (Up /\ (IsFormat \/ IsDefault))
        \/ (phase = "boot" /\ New /\ (IsHdrFormat \/ IsBootFormat))
    BY <1>2, Places DEF Format
  <2>2. CASE Up /\ IsFormat
    BY <1>2, <2>2, GcFormatStep, UpForms
  <2>3. CASE Up /\ IsDefault
    BY <1>2, <2>3, DefaultStep, UpForms
  <2>4. CASE phase = "boot" /\ New /\ IsHdrFormat
    BY <1>2, <2>4, HdrFormatStep, BootForms
  <2>5. CASE phase = "boot" /\ New /\ IsBootFormat
    BY <1>2, <2>5, BootFormatStep, BootForms
  <2> QED
    BY <2>1, <2>2, <2>3, <2>4, <2>5
<1> QED
  BY <1>1, <1>2

LEMMA BootWork ==
    ASSUME TypeOK, Forms, \/ Boot \/ CheckHdr \/ CheckAll \/ CheckGc \/ CheckKv \/ Checked
    PROVE  TypeOK' /\ Forms'
<1>1. CASE Boot
  <2>1. IsOff
    BY <1>1, Places DEF Boot
  <2> QED
    BY <1>1, <2>1, BootStep, BootForms
<1>2. CASE CheckHdr
  <2>1. phase = "boot" /\ New /\ IsHdr
    BY <1>2, Places DEF CheckHdr
  <2> QED
    BY <1>2, <2>1, CheckHdrStep, BootForms
<1>3. CASE CheckAll
  <2>1. phase = "boot" /\ New /\ IsHdr
    BY <1>3, Places DEF CheckAll
  <2> QED
    BY <1>3, <2>1, CheckAllStep, BootForms
<1>4. CASE CheckGc
  <2>1. phase = "boot" /\ New /\ IsCheckGc
    BY <1>4, Places DEF CheckGc
  <2> QED
    BY <1>4, <2>1, CheckGcStep, BootForms
<1>5. CASE CheckKv
  <2>1. phase = "boot" /\ New /\ IsCheckKv
    BY <1>5, Places DEF CheckKv
  <2> QED
    BY <1>5, <2>1, CheckKvStep, BootForms
<1>6. CASE Checked
  <2>1. phase = "boot" /\ New /\ IsChecked
    BY <1>6, Places DEF Checked
  <2> QED
    BY <1>6, <2>1, CheckedStep, UpForms
<1> QED
  BY <1>1, <1>2, <1>3, <1>4, <1>5, <1>6

LEMMA CallWork ==
    ASSUME TypeOK, Forms,
           \/ \E k \in Keys : KvDel(k) \/ KvGet(k) \/ \E v \in Vals : KvSet(k, v)
           \/ KvSetDefault
    PROVE  TypeOK' /\ Forms'
<1>1. Ready
  BY DEF KvDel, KvGet, KvSet, KvSetDefault
<1>2. Up /\ Idle
  BY <1>1, Places
<1>3. CASE KvSetDefault
  BY <1>2, <1>3, KvSetDefaultStep, UpForms
<1>4. ASSUME NEW k \in Keys, KvDel(k) PROVE TypeOK' /\ Forms'
  BY <1>2, <1>4, KvDelStep, UpForms
<1>5. ASSUME NEW k \in Keys, KvGet(k) PROVE TypeOK' /\ Forms'
  BY <1>2, <1>5, KvGetStep, UpForms
<1>6. ASSUME NEW k \in Keys, NEW v \in Vals, KvSet(k, v) PROVE TypeOK' /\ Forms'
  BY <1>2, <1>6, KvSetStep, UpForms
<1> QED
  BY <1>3, <1>4, <1>5, <1>6

LEMMA InitForms ==
    ASSUME Init
    PROVE  TypeOK /\ Forms /\ crashes = 0
<1>1. TypeOK
  BY DEF Init, TypeOK, Sector, Erased, Memory, DbType, NoAddr, Node
<1>2. New
  BY DEF Init, New, Memory
<1>3. CleanTo(0)
  <2>1. \A r \in Sectors : ~(r <= 0)
    BY KvdbAssumption DEF Sectors
  <2> QED
    BY <2>1 DEF Init, CleanTo
<1> QED
  BY <1>1, <1>2, <1>3 DEF Init, Forms, IsOff

\* Nothing but a power failure counts one, or drops the stack.
LEMMA CountKept ==
    ASSUME Next, ~Crash
    PROVE  crashes' = crashes
BY DEF Next, Work, NewKv, FindKv, GcAfter, Return, Formatted, PreDelete, Delete, Dirty,
       UpdateSecStatus, PreWrite, Header, Body, Commit, Erase, Format, Steps, GcCollect, DoGc,
       GcKv, MoveKv, GcEnd, Boot, CheckHdr, CheckAll, CheckGc, CheckKv, Checked, KvDel, KvGet,
       KvSet, KvSetDefault

(* A step that changes nothing.                                            *)
LEMMA KeptParts ==
    ASSUME vars' = vars, TypeOK
    PROVE  /\ Addrs' = Addrs /\ \A a : NodeAt(a)' = NodeAt(a) /\ KeyOf(a)' = KeyOf(a) /\ ValOf(a)' = ValOf(a)
           /\ \A d : Fresh(d)' = Fresh(d)
           /\ OldValues' = OldValues /\ NewValues' = NewValues
           /\ InCall => InCall'
           /\ Setting => Setting'
           /\ InGc => InGc'
           /\ Settled => Settled'
           /\ Deleting => Deleting'
           /\ Up => Up'
           /\ New => New'
           /\ InDefault => InDefault'
           /\ AllClean => AllClean'
           /\ \A m : FormattedTo(m) => FormattedTo(m)'
           /\ \A m : CleanTo(m) => CleanTo(m)'
           /\ \A a : Live(a) => Live(a)'
           /\ \A a, E : Marked(a, E) => Marked(a, E)'
           /\ \A a, E : Replaced(a, E) => Replaced(a, E)'
           /\ \A a, E : Deleted(a, E) => Deleted(a, E)'
           /\ \A a, d, k, E, p : Allotted(a, d, k, E, p) => Allotted(a, d, k, E, p)'
           /\ \A a, d, k, v, E, w : Making(a, d, k, v, E, w) => Making(a, d, k, v, E, w)'
           /\ \A s, i : Gone(s, i) => Gone(s, i)'
<1>1. UNCHANGED <<flash, db, todo, phase, op, want>>
  BY DEF vars
<1>2. /\ Addrs' = Addrs /\ \A a : NodeAt(a)' = NodeAt(a) /\ KeyOf(a)' = KeyOf(a) /\ ValOf(a)' = ValOf(a)
      /\ \A d : Fresh(d)' = Fresh(d) /\ Used(d)' = Used(d)
  BY <1>1 DEF Addrs, NodeAt, KeyOf, ValOf, Fresh, Used
<1>3. /\ OldValues' = OldValues /\ NewValues' = NewValues
      /\ InCall => InCall'
      /\ Setting => Setting'
  BY <1>1, CallKept, FlashKept DEF Setting
<1>4. (InGc => InGc') /\ (Settled => Settled') /\ (Deleting => Deleting')
  BY <1>1, <1>3, FlashKept DEF InGc, Settled, Deleting
<1>5. (Up => Up') /\ (New => New') /\ (InDefault => InDefault') /\ (AllClean => AllClean')
  BY <1>1 DEF Up, New, InDefault, AllClean
<1>6. (\A m : FormattedTo(m) => FormattedTo(m)') /\ (\A m : CleanTo(m) => CleanTo(m)')
  BY <1>1 DEF FormattedTo, CleanTo
<1>7. \A a : Live(a) => Live(a)'
  BY <1>2 DEF Live, State
<1>8. /\ \A a, E : Marked(a, E) => Marked(a, E)'
      /\ \A a, E : Replaced(a, E) => Replaced(a, E)'
      /\ \A a, E : Deleted(a, E) => Deleted(a, E)'
  BY <1>1, <1>2, FlashKept, SteadyKept DEF Marked, Replaced, Deleted, NoAddr
<1>9. \A a, d, k, E, p : Allotted(a, d, k, E, p) => Allotted(a, d, k, E, p)'
  BY <1>1, <1>2, FlashKept, SteadyKept DEF Allotted, NoAddr
<1>10. \A a, d, k, v, E, w : Making(a, d, k, v, E, w) => Making(a, d, k, v, E, w)'
  BY <1>1, <1>2, FlashKept, SteadyKept DEF Making, NoAddr
<1>11. \A s, i : Gone(s, i) => Gone(s, i)'
  BY <1>1, <1>2, <1>4, FlashKept DEF Gone, State
<1> QED
  BY <1>2, <1>3, <1>4, <1>5, <1>6, <1>7, <1>8, <1>9, <1>10, <1>11

LEMMA KeptForms ==
    ASSUME vars' = vars, TypeOK, Forms
    PROVE  TypeOK' /\ Forms'
<1>1. UNCHANGED <<flash, db, todo, phase, op, want>>
  BY DEF vars
<1>2. TypeOK'
  BY <1>1 DEF TypeOK
<1>3. ASSUME Idle PROVE Idle'
  BY <1>1, <1>3, KeptParts, FlashKept, SteadyKept DEF Idle
<1>4. ASSUME IsNew PROVE IsNew'
  BY <1>1, <1>4, KeptParts, FlashKept, SteadyKept DEF IsNew
<1>5. ASSUME IsFind PROVE IsFind'
  BY <1>1, <1>5, KeptParts, FlashKept, SteadyKept DEF IsFind
<1>6. ASSUME IsAfterSet PROVE IsAfterSet'
  BY <1>1, <1>6, KeptParts, FlashKept, SteadyKept DEF IsAfterSet
<1>7. ASSUME IsDone PROVE IsDone'
  BY <1>1, <1>7, KeptParts, FlashKept, SteadyKept DEF IsDone
<1>8. ASSUME IsSetMark PROVE IsSetMark'
  BY <1>1, <1>8, KeptParts, FlashKept, SteadyKept DEF IsSetMark
<1>9. ASSUME IsSetMarked PROVE IsSetMarked'
  BY <1>1, <1>9, KeptParts, FlashKept, SteadyKept DEF IsSetMarked
<1>10. ASSUME IsSetMake PROVE IsSetMake'
  BY <1>1, <1>10, KeptParts, FlashKept, SteadyKept DEF IsSetMake, SetMake, Olds
<1>11. ASSUME IsSetPre PROVE IsSetPre'
  BY <1>1, <1>11, KeptParts, FlashKept, SteadyKept DEF IsSetPre, SetMake, Olds
<1>12. ASSUME IsSetHeader PROVE IsSetHeader'
  BY <1>1, <1>12, KeptParts, FlashKept, SteadyKept DEF IsSetHeader, SetWrite, Olds
<1>13. ASSUME IsSetBody PROVE IsSetBody'
  BY <1>1, <1>13, KeptParts, FlashKept, SteadyKept DEF IsSetBody, SetWrite, Olds
<1>14. ASSUME IsSetCommit PROVE IsSetCommit'
  BY <1>1, <1>14, KeptParts, FlashKept, SteadyKept DEF IsSetCommit, SetWrite, Olds
<1>15. ASSUME IsSetDelete PROVE IsSetDelete'
  BY <1>1, <1>15, KeptParts, FlashKept, SteadyKept DEF IsSetDelete
<1>16. ASSUME IsSetDeleted PROVE IsSetDeleted'
  BY <1>1, <1>16, KeptParts, FlashKept, SteadyKept DEF IsSetDeleted
<1>17. ASSUME IsDelDelete PROVE IsDelDelete'
  BY <1>1, <1>17, KeptParts, FlashKept, SteadyKept DEF IsDelDelete
<1>18. ASSUME IsDelDeleted PROVE IsDelDeleted'
  BY <1>1, <1>18, KeptParts, FlashKept, SteadyKept DEF IsDelDeleted
<1>19. ASSUME IsCollect PROVE IsCollect'
  BY <1>1, <1>19, KeptParts, FlashKept, SteadyKept DEF IsCollect
<1>20. ASSUME IsWalk PROVE IsWalk'
  BY <1>1, <1>20, KeptParts, FlashKept, SteadyKept DEF IsWalk
<1>21. ASSUME IsGcKv PROVE IsGcKv'
  BY <1>1, <1>21, KeptParts, FlashKept, SteadyKept DEF IsGcKv
<1>22. ASSUME IsMoveMark PROVE IsMoveMark'
  BY <1>1, <1>22, KeptParts, FlashKept, SteadyKept DEF IsMoveMark
<1>23. ASSUME IsMoveMarked PROVE IsMoveMarked'
  BY <1>1, <1>23, KeptParts, FlashKept, SteadyKept DEF IsMoveMarked
<1>24. ASSUME IsMove PROVE IsMove'
  BY <1>1, <1>24, KeptParts, FlashKept, SteadyKept DEF IsMove, NoAddr
<1>25. ASSUME IsMoveMake PROVE IsMoveMake'
  BY <1>1, <1>25, KeptParts, FlashKept, SteadyKept DEF IsMoveMake, MoveMake
<1>26. ASSUME IsMovePre PROVE IsMovePre'
  BY <1>1, <1>26, KeptParts, FlashKept, SteadyKept DEF IsMovePre, MoveMake
<1>27. ASSUME IsMoveHeader PROVE IsMoveHeader'
  BY <1>1, <1>27, KeptParts, FlashKept, SteadyKept DEF IsMoveHeader, MoveWrite
<1>28. ASSUME IsMoveBody PROVE IsMoveBody'
  BY <1>1, <1>28, KeptParts, FlashKept, SteadyKept DEF IsMoveBody, MoveWrite
<1>29. ASSUME IsMoveCommit PROVE IsMoveCommit'
  BY <1>1, <1>29, KeptParts, FlashKept, SteadyKept DEF IsMoveCommit, MoveWrite
<1>30. ASSUME IsMoveDelete PROVE IsMoveDelete'
  BY <1>1, <1>30, KeptParts, FlashKept, SteadyKept DEF IsMoveDelete
<1>31. ASSUME IsMoveDeleted PROVE IsMoveDeleted'
  BY <1>1, <1>31, KeptParts, FlashKept, SteadyKept DEF IsMoveDeleted
<1>32. ASSUME IsErase PROVE IsErase'
  BY <1>1, <1>32, KeptParts, FlashKept, SteadyKept DEF IsErase
<1>33. ASSUME IsFormat PROVE IsFormat'
  BY <1>1, <1>33, KeptParts, FlashKept, SteadyKept DEF IsFormat, NoAddr
<1>34. ASSUME IsDefault PROVE IsDefault'
  BY <1>1, <1>34, KeptParts, FlashKept, SteadyKept DEF IsDefault
<1>35. ASSUME IsFormatted PROVE IsFormatted'
  BY <1>1, <1>35, KeptParts, FlashKept, SteadyKept DEF IsFormatted
<1>36. ASSUME IsOff PROVE IsOff'
  BY <1>1, <1>36, KeptParts, FlashKept, SteadyKept DEF IsOff
<1>37. ASSUME IsHdr PROVE IsHdr'
  BY <1>1, <1>37, KeptParts, FlashKept, SteadyKept DEF IsHdr
<1>38. ASSUME IsHdrErase PROVE IsHdrErase'
  BY <1>1, <1>38, KeptParts, FlashKept, SteadyKept DEF IsHdrErase
<1>39. ASSUME IsHdrFormat PROVE IsHdrFormat'
  BY <1>1, <1>39, KeptParts, FlashKept, SteadyKept DEF IsHdrFormat
<1>40. ASSUME IsBootFormat PROVE IsBootFormat'
  BY <1>1, <1>40, KeptParts, FlashKept, SteadyKept DEF IsBootFormat
<1>41. ASSUME IsCheckGc PROVE IsCheckGc'
  BY <1>1, <1>41, KeptParts, FlashKept, SteadyKept DEF IsCheckGc
<1>42. ASSUME IsCheckKv PROVE IsCheckKv'
  BY <1>1, <1>42, KeptParts, FlashKept, SteadyKept DEF IsCheckKv
<1>43. ASSUME IsChecked PROVE IsChecked'
  BY <1>1, <1>43, KeptParts, FlashKept, SteadyKept DEF IsChecked
<1>44. CASE Running
  <2>1. Up /\ Up'
    BY <1>44, KeptParts DEF Running
  <2> QED
    BY <1>2, <1>44, <2>1, <1>3, <1>4, <1>5, <1>6, <1>7, <1>8, <1>9, <1>10, <1>11, <1>12, <1>13, <1>14,
       <1>15, <1>16, <1>17, <1>18, <1>19, <1>20, <1>21, <1>22, <1>23, <1>24, <1>25, <1>26,
       <1>27, <1>28, <1>29, <1>30, <1>31, <1>32, <1>33, <1>34, <1>35,
       UpForms DEF Running
<1>45. CASE Booting
  <2>1. phase' = "boot" /\ New'
    BY <1>1, <1>45, KeptParts DEF Booting
  <2> QED
    BY <1>2, <1>45, <2>1, <1>37, <1>38, <1>39, <1>40, <1>41, <1>42, <1>43,
       BootForms DEF Booting
<1> QED
  BY <1>2, <1>36, <1>44, <1>45 DEF Forms

-----------------------------------------------------------------------------
LEMMA StepForms ==
    ASSUME FewNames, TypeOK, Forms, Next, ~Crash
    PROVE  TypeOK' /\ Forms'
<1>1. CASE Work
  BY <1>1, SetWork, WriteWork, GcWork, FormatWork, BootWork DEF Work
<1>2. CASE \/ \E k \in Keys : KvDel(k) \/ KvGet(k) \/ \E v \in Vals : KvSet(k, v)
           \/ KvSetDefault
  BY <1>2, CallWork
<1> QED
  BY <1>1, <1>2 DEF Next

LEMMA StepInv ==
    ASSUME FewNames, IInv, [Next]_vars
    PROVE  IInv'
<1>1. crashes \in Nat /\ (crashes = 0 => TypeOK /\ Forms)
  BY DEF IInv
<1>2. CASE Crash
  <2>1. crashes' \in Nat /\ crashes' # 0
    BY <1>1, <1>2 DEF Crash
  <2> QED
    BY <2>1 DEF IInv
<1>3. CASE Next /\ ~Crash
  <2>1. crashes' = crashes
    BY <1>3, CountKept
  <2> QED
    BY <1>1, <1>3, <2>1, StepForms DEF IInv
<1>4. CASE vars' = vars
  <2>1. crashes' = crashes
    BY <1>4 DEF vars
  <2> QED
    BY <1>1, <1>4, <2>1, KeptForms DEF IInv
<1> QED
  BY <1>2, <1>3, <1>4

(* As long as the power holds, the stack of what is left to do is one of   *)
(* the forms above, and the flash, the cache and the values expected are   *)
(* what the form says: every name has one whole node, with its value, from *)
(* fdb_kvdb_init through the calls, the moves and the collections.         *)
THEOREM Invariant ==
    ASSUME FewNames
    PROVE  Spec => []IInv
<1>1. Init => IInv
  BY InitForms DEF IInv
<1>2. IInv /\ [Next]_vars => IInv'
  BY StepInv
<1> QED
  BY <1>1, <1>2, PTL DEF Spec

-----------------------------------------------------------------------------
(* What a user reads between two calls.                                    *)
LEMMA ReadsOne ==
    ASSUME TypeOK, Idle, NEW k \in Keys
    PROVE  /\ want[k] = {Visible(k)}
           /\ Copies(k, {"WRITE"}) = IF Visible(k) = None THEN {} ELSE {Find(k)}
<1>1. PICK E : E = want
  OBVIOUS
<1>2. Steady(E) /\ HoldersOK(E, NoAddr) /\ NoAddr \notin Addrs
  BY <1>1, AddrsFacts DEF Idle, Steady, Data
<1>3. PICK f : f = Find(k)
  OBVIOUS
<1>4. /\ f = NoAddr \/ (f \in Addrs /\ KeyOf(f) = k /\ Holder(f))
      /\ \A b \in Addrs : Holder(b) /\ KeyOf(b) = k => b = f
      /\ Copies(k, {"WRITE"}) = {b \in Addrs : Holder(b) /\ KeyOf(b) = k}
  BY <1>2, <1>3, FindFacts
<1>5. CASE f = NoAddr
  <2>1. Visible(k) = None
    BY <1>3, <1>5 DEF Visible
  <2>2. Copies(k, {"WRITE"}) = {}
    BY <1>2, <1>4, <1>5
  <2>3. E[k] = {None}
    BY <1>2, <1>4, <1>5 DEF HoldersOK
  <2> QED
    BY <1>1, <2>1, <2>2, <2>3
<1>6. CASE f # NoAddr
  <2>1. f \in Addrs /\ KeyOf(f) = k /\ Holder(f)
    BY <1>4, <1>6
  <2>2. Visible(k) = ValOf(f)
    BY <1>3, <1>6 DEF Visible, ValOf
  <2>3. ValOf(f) # None
    <3>1. NodeAt(f) \in Node
      BY <2>1, AddrsFacts
    <3> QED
      BY <3>1, KvdbAssumption DEF ValOf, Node
  <2>4. E[k] = {ValOf(f)}
    BY <1>2, <1>6, <2>1 DEF HoldersOK
  <2>5. Copies(k, {"WRITE"}) = {f}
    BY <1>4, <2>1
  <2> QED
    BY <1>1, <1>3, <2>2, <2>3, <2>4, <2>5
<1> QED
  BY <1>5, <1>6

(* Between two calls the cache, a walk over the flash and the iterator     *)
(* agree on one node for each name, the one with the value it was last set *)
(* to, and on none for a deleted name (find_kv, get_kv_from_cache,         *)
(* fdb_kv_iterate), as long as the power holds.                            *)
THEOREM ReadsLatestAlways ==
    ASSUME FewNames
    PROVE  Spec => []ReadsLatest
<1>1. IInv => ReadsLatest
  <2> SUFFICES ASSUME IInv, Ready, crashes = 0, NEW k \in Keys
               PROVE  /\ want[k] = {Visible(k)}
                      /\ LET live == Copies(k, {"WRITE"})
                         IN  IF Visible(k) = None THEN live = {} ELSE live = {Find(k)}
    BY DEF ReadsLatest
  <2>1. TypeOK /\ Idle
    BY Places DEF IInv
  <2> QED
    BY <2>1, ReadsOne
<1> QED
  BY <1>1, Invariant, PTL

(* Between two calls a sector is empty, for the next garbage collection to *)
(* move live nodes to, as the comment in fdb_kvdb_init says, as long as    *)
(* the power holds.                                                        *)
THEOREM RoomForGcUntilFailure ==
    ASSUME FewNames
    PROVE  Spec => [](crashes = 0 => RoomForGc)
<1>1. IInv => (crashes = 0 => RoomForGc)
  <2> SUFFICES ASSUME IInv, crashes = 0, Ready PROVE \E s \in Sectors : flash[s].store = "EMPTY"
    BY DEF RoomForGc
  <2>1. TypeOK /\ Idle
    BY Places DEF IInv
  <2>2. Shape(0, 0) /\ \E s \in Sectors : Bare(s)
    BY <2>1 DEF Idle, Steady, Spare
  <2> QED
    BY <2>1, <2>2, NotTouched
<1> QED
  BY <1>1, Invariant, PTL

-----------------------------------------------------------------------------
(* The values on the flash.                                                *)
Held(E) == \A k \in Keys : \/ None \in E[k]
                           \/ \E a \in Copies(k, {"WRITE", "PRE_DELETE"}) : NodeAt(a).val \in E[k]

LEMMA HeldIn ==
    ASSUME NEW E, NEW old, NEW fresh, NEW gone, NEW last, Data(E, old, fresh, gone, last)
    PROVE  Held(E)
<1> SUFFICES ASSUME NEW k \in Keys, None \notin E[k]
             PROVE  \E a \in Copies(k, {"WRITE", "PRE_DELETE"}) : NodeAt(a).val \in E[k]
  BY DEF Held
<1>1. HoldersOK(E, gone)
  BY DEF Data
<1>2. PICK a \in Addrs \ {gone} : Holder(a) /\ KeyOf(a) = k
  BY <1>1 DEF HoldersOK
<1>3. E[k] = {ValOf(a)}
  BY <1>1, <1>2 DEF HoldersOK
<1>4. a \in Copies(k, {"WRITE", "PRE_DELETE"})
  BY <1>2 DEF Copies, Holder, Full, State, KeyOf
<1> QED
  BY <1>3, <1>4 DEF ValOf

LEMMA HeldWants ==
    /\ Held(want) => NoValueLost
    /\ (\A k \in Keys : None \in want[k]) => NoValueLost
    /\ InCall /\ (Held(OldValues) \/ Held(NewValues)) => NoValueLost
<1>1. Held(want) => NoValueLost
  BY DEF Held, NoValueLost
<1>2. (\A k \in Keys : None \in want[k]) => NoValueLost
  BY DEF NoValueLost
<1>3. ASSUME InCall, Held(OldValues) PROVE NoValueLost
  <2>1. \A k \in Keys : OldValues[k] \subseteq want[k]
    BY <1>3 DEF InCall, OldValues
  <2> QED
    BY <1>3, <2>1 DEF Held, NoValueLost
<1>4. ASSUME InCall, Held(NewValues) PROVE NoValueLost
  <2>1. \A k \in Keys : NewValues[k] \subseteq want[k]
    BY <1>4 DEF InCall, NewValues
  <2> QED
    BY <1>4, <2>1 DEF Held, NoValueLost
<1> QED
  BY <1>1, <1>2, <1>3, <1>4

LEMMA FormsHold ==
    ASSUME Forms
    PROVE  NoValueLost
<1>1. CASE IsOff \/ Booting
  <2>1. \A k \in Keys : None \in want[k]
    BY <1>1 DEF IsOff, Booting, New
  <2> QED
    BY <2>1, HeldWants
<1>2. CASE IsDefault \/ IsFormatted
  <2>1. \A k \in Keys : None \in want[k]
    BY <1>2 DEF IsDefault, IsFormatted, InDefault
  <2> QED
    BY <2>1, HeldWants
<1>3. CASE Idle
  <2>1. Held(want)
    BY <1>3, HeldIn DEF Idle, Steady
  <2> QED
    BY <2>1, HeldWants
<1>4. CASE IsNew \/ IsFind \/ IsSetMark \/ IsSetMarked
  <2>1. InCall /\ Held(OldValues)
    BY <1>4, HeldIn DEF IsNew, IsFind, IsSetMark, IsSetMarked, Setting, Steady, Marked
  <2> QED
    BY <2>1, HeldWants
<1>5. CASE IsSetMake \/ IsSetPre \/ IsSetHeader \/ IsSetBody \/ IsSetCommit
  <2>1. InCall /\ Held(OldValues)
    BY <1>5, HeldIn DEF IsSetMake, IsSetPre, IsSetHeader, IsSetBody, IsSetCommit, SetMake, SetWrite,
       Setting, Allotted, Making
  <2> QED
    BY <2>1, HeldWants
<1>6. CASE IsAfterSet \/ IsDone \/ IsSetDelete \/ IsSetDeleted
  <2>1. InCall /\ Held(NewValues)
    BY <1>6, HeldIn DEF IsAfterSet, IsDone, IsSetDelete, IsSetDeleted, Setting, Steady, Replaced,
       Deleted
  <2> QED
    BY <2>1, HeldWants
<1>7. CASE IsDelDelete
  <2>1. InCall /\ Held(OldValues)
    BY <1>7, HeldIn DEF IsDelDelete, Deleting, Steady
  <2> QED
    BY <2>1, HeldWants
<1>8. CASE IsDelDeleted
  <2>1. InCall /\ Held(NewValues)
    BY <1>8, HeldIn DEF IsDelDeleted, Deleting, Deleted
  <2> QED
    BY <2>1, HeldWants
<1>9. CASE IsCollect \/ IsWalk \/ IsGcKv \/ IsMoveMark \/ IsMoveMarked \/ IsMove
  <2>1. InCall /\ Held(NewValues)
    BY <1>9, HeldIn DEF IsCollect, IsWalk, IsGcKv, IsMoveMark, IsMoveMarked, IsMove, InGc, Gone,
       Steady, Marked
  <2> QED
    BY <2>1, HeldWants
<1>10. CASE IsMoveMake \/ IsMovePre \/ IsMoveHeader \/ IsMoveBody \/ IsMoveCommit
  <2>1. (\E s, i, d, p : MoveMake(s, i, d, p)) \/ (\E s, i, d, w : MoveWrite(s, i, d, w))
    BY <1>10 DEF IsMoveMake, IsMovePre, IsMoveHeader, IsMoveBody, IsMoveCommit
  <2>2. ASSUME NEW s, NEW i, NEW d, NEW p, MoveMake(s, i, d, p) PROVE InCall /\ Held(NewValues)
    BY <2>2, HeldIn DEF MoveMake, Gone, InGc, Allotted
  <2>3. ASSUME NEW s, NEW i, NEW d, NEW w, MoveWrite(s, i, d, w) PROVE InCall /\ Held(NewValues)
    BY <2>3, HeldIn DEF MoveWrite, Gone, InGc, Making
  <2> QED
    BY <2>1, <2>2, <2>3, HeldWants
<1>11. CASE IsMoveDelete \/ IsMoveDeleted \/ IsErase \/ IsFormat
  <2>1. InCall /\ Held(NewValues)
    BY <1>11, HeldIn DEF IsMoveDelete, IsMoveDeleted, IsErase, IsFormat, InGc, Gone, Steady,
       Replaced, Deleted
  <2> QED
    BY <2>1, HeldWants
<1> QED
  BY <1>1, <1>2, <1>3, <1>4, <1>5, <1>6, <1>7, <1>8, <1>9, <1>10, <1>11 DEF Forms, Running

\* The node a power failure may hide is not whole.
LEMMA CrashHolds ==
    ASSUME TypeOK, Forms, Crash
    PROVE  NoValueLost'
<1>1. NoValueLost /\ UNCHANGED want
  BY FormsHold DEF Crash
<1>2. CASE UNCHANGED flash
  <2>1. Addrs' = Addrs /\ \A a : NodeAt(a)' = NodeAt(a)
    BY <1>2, FlashKept
  <2>2. \A k \in Keys : Copies(k, {"WRITE", "PRE_DELETE"})' = Copies(k, {"WRITE", "PRE_DELETE"})
    BY <2>1 DEF Copies
  <2> QED
    BY <1>1, <2>1, <2>2 DEF NoValueLost
<1>3. CASE /\ Doing("header")
           /\ Len(flash[Top.d].kv) > 1
           /\ flash' = [flash EXCEPT ![Top.d].kv = SubSeq(@, 1, Len(@) - 1)]
  <2>1. PICK d \in Sectors : /\ Top.d = d /\ Used(d) >= 1 /\ Used(d) <= Slots
                             /\ NodeAt(Fresh(d)).data = "none"
    <3>1. Up /\ (IsSetHeader \/ IsMoveHeader)
      BY <1>3, Places
    <3>2. CASE IsSetHeader
      <4>1. PICK a \in Olds, d \in Sectors :
               todo = ToHeader(d, NoAddr, Replacing(a, AfterSet)) /\ SetWrite(a, d, "none")
        BY <3>2 DEF IsSetHeader
      <4>2. Top.d = d
        <5>1. d \in Nat /\ Replacing(a, AfterSet) \in Stack
          BY SetTails, AddrsFacts
        <5> QED
          BY <4>1, <5>1, SetMakeTops
      <4>3. /\ Used(d) >= 1 /\ Used(d) <= Slots /\ NodeAt(Fresh(d)).data = "none"
        BY <4>1 DEF SetWrite, Making, Shape
      <4> QED
        BY <4>2, <4>3
    <3>3. CASE IsMoveHeader
      <4>1. PICK s \in Sectors, i \in 1..Slots, d \in Sectors :
               todo = ToHeader(d, <<s, i>>, AfterMove(s, i)) /\ MoveWrite(s, i, d, "none")
        BY <3>3 DEF IsMoveHeader
      <4>2. Top.d = d
        <5>1. d \in Nat /\ s \in Nat /\ i \in Nat /\ AfterMove(s, i) \in Stack
          BY MoveTails, AddrsFacts
        <5> QED
          BY <4>1, <5>1, MakeTops
      <4>3. /\ Used(d) >= 1 /\ Used(d) <= Slots /\ NodeAt(Fresh(d)).data = "none"
        BY <4>1 DEF MoveWrite, Making, Shape
      <4> QED
        BY <4>2, <4>3
    <3> QED
      BY <3>1, <3>2, <3>3
  <2>2. PICK n : n = Used(d)
    OBVIOUS
  <2>3. n \in Nat /\ n > 1 /\ n - 1 \in Nat /\ n <= Slots /\ flash[d].kv \in Seq(Node) /\ d \in Nat
    BY <1>3, <2>1, <2>2, AddrsFacts, KvdbAssumption DEF Used, TypeOK, Sector
  <2>4. flash' = [flash EXCEPT ![d].kv = SubSeq(flash[d].kv, 1, n - 1)]
    BY <1>3, <2>1, <2>2 DEF Used
  <2>5. PICK q : q = SubSeq(flash[d].kv, 1, n - 1)
    OBVIOUS
  <2>6. Len(q) = n - 1 /\ \A j \in 1..(n - 1) : q[j] = flash[d].kv[j]
    BY <2>2, <2>3, <2>5, SubSeqProperties DEF Used
  <2>7. flash'[d].kv = q /\ \A r \in Sectors : r # d => flash'[r] = flash[r]
    BY <2>4, <2>5 DEF TypeOK, Sector
  <2>8. ASSUME NEW a \in Addrs, a # Fresh(d)
        PROVE  a \in Addrs' /\ NodeAt(a)' = NodeAt(a)
    <3>1. /\ a[1] \in Sectors /\ a[2] \in 1..Slots /\ a[2] \in Nat /\ a[2] <= Used(a[1])
          /\ a = <<a[1], a[2]>> /\ Slots \in Nat
      BY AddrsFacts, KvdbAssumption
    <3>2. CASE a[1] # d
      <4>1. flash'[a[1]] = flash[a[1]]
        BY <2>7, <3>1, <3>2
      <4> QED
        BY <3>1, <4>1 DEF Addrs, NodeAt, Used
    <3>3. CASE a[1] = d
      <4>1. a[2] # n
        BY <2>2, <2>8, <3>1, <3>3 DEF Fresh
      <4>2. a[2] \in 1..(n - 1) /\ a[2] <= n - 1
        BY <2>2, <2>3, <3>1, <3>3, <4>1
      <4>3. a[2] <= Len(flash'[a[1]].kv)
        BY <2>6, <2>7, <3>3, <4>2
      <4> QED
        BY <2>6, <2>7, <3>1, <3>3, <4>2, <4>3 DEF Addrs, NodeAt
    <3> QED
      BY <3>2, <3>3
  <2>9. ASSUME NEW k \in Keys, NEW a \in Copies(k, {"WRITE", "PRE_DELETE"})
        PROVE  a \in Copies(k, {"WRITE", "PRE_DELETE"})' /\ NodeAt(a)' = NodeAt(a)
    <3>1. a \in Addrs /\ CrcOk(NodeAt(a)) /\ a # Fresh(d)
      BY <2>1, <2>9 DEF Copies, CrcOk
    <3>2. a \in Addrs' /\ NodeAt(a)' = NodeAt(a)
      BY <2>8, <3>1
    <3> QED
      BY <2>9, <3>2 DEF Copies
  <2> QED
    BY <1>1, <2>9 DEF NoValueLost
<1> QED
  BY <1>2, <1>3 DEF Crash

\* A power failure leaves nothing to do.
Stopped == phase = "off" => todo = <<>>

LEMMA OnlyBoot ==
    ASSUME Stopped, Next, ~Crash
    PROVE  phase' # "off"
<1>1. phase = "off" => Boot
  BY DEF Stopped, Next, Work, Doing, Ready, NewKv, FindKv, GcAfter, Return, Formatted,
     PreDelete, Delete, Dirty, UpdateSecStatus, PreWrite, Header, Body, Commit, Erase, Format,
     GcCollect, DoGc, GcKv, MoveKv, GcEnd, CheckHdr, CheckAll, CheckGc, CheckKv, Checked, KvDel,
     KvGet, KvSet, KvSetDefault
<1>2. phase' = phase \/ phase' \in {"boot", "ready"}
  BY DEF Next, Work, NewKv, FindKv, GcAfter, Return, Formatted, PreDelete, Delete, Dirty,
     UpdateSecStatus, PreWrite, Header, Body, Commit, Erase, Format, Steps, GcCollect, DoGc,
     GcKv, MoveKv, GcEnd, Boot, CheckHdr, CheckAll, CheckGc, CheckKv, Checked, KvDel, KvGet,
     KvSet, KvSetDefault
<1> QED
  BY <1>1, <1>2 DEF Boot

LEMMA StoppedStep ==
    ASSUME Stopped, [Next]_vars
    PROVE  Stopped'
<1>1. CASE Crash
  BY <1>1 DEF Crash, Stopped
<1>2. CASE Next /\ ~Crash
  BY <1>2, OnlyBoot DEF Stopped
<1>3. CASE vars' = vars
  BY <1>3 DEF vars, Stopped
<1> QED
  BY <1>1, <1>2, <1>3

\* The flash that the first start after a power failure is given.
FirstFailure == crashes = 1 /\ phase = "off" => NoValueLost

LEMMA FailureStep ==
    ASSUME IInv, Stopped, FirstFailure, [Next]_vars
    PROVE  FirstFailure'
<1> SUFFICES ASSUME crashes' = 1, phase' = "off" PROVE NoValueLost'
  BY DEF FirstFailure
<1>1. CASE Crash
  <2>1. crashes = 0
    BY <1>1 DEF Crash, IInv
  <2> QED
    BY <1>1, <2>1, CrashHolds DEF IInv
<1>2. CASE Next /\ ~Crash
  BY <1>2, OnlyBoot
<1>3. CASE vars' = vars
  <2>1. crashes = 1 /\ phase = "off" /\ UNCHANGED <<flash, want>>
    BY <1>3 DEF vars
  <2>2. Addrs' = Addrs /\ \A a : NodeAt(a)' = NodeAt(a)
    BY <2>1, FlashKept
  <2>3. \A k \in Keys : Copies(k, {"WRITE", "PRE_DELETE"})' = Copies(k, {"WRITE", "PRE_DELETE"})
    BY <2>2 DEF Copies
  <2> QED
    BY <2>1, <2>2, <2>3 DEF FirstFailure, NoValueLost
<1> QED
  BY <1>1, <1>2, <1>3

(* In every state before the first power failure, and in the flash that it *)
(* leaves behind whatever write it comes after, a whole node holds a value *)
(* that each name may have, the old one or the new one while a call is     *)
(* under way: no set, delete, move or collection deletes a node before its *)
(* successor is written (set_kv, move_kv, do_gc).                          *)
THEOREM NoValueLostToFirstFailure ==
    ASSUME FewNames
    PROVE  Spec => [](crashes = 0 \/ (crashes = 1 /\ phase = "off") => NoValueLost)
<1>1. Init => Stopped /\ FirstFailure
  BY DEF Init, Stopped, FirstFailure
<1>2. IInv /\ Stopped /\ FirstFailure /\ [Next]_vars => Stopped' /\ FirstFailure'
  BY StoppedStep, FailureStep
<1>3. IInv /\ FirstFailure => (crashes = 0 \/ (crashes = 1 /\ phase = "off") => NoValueLost)
  BY FormsHold DEF IInv, FirstFailure
<1> QED
  BY <1>1, <1>2, <1>3, Invariant, PTL DEF Spec
=============================================================================
