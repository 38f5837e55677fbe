-------------------------------- MODULE Kvdb --------------------------------
(***************************************************************************)
(* The key/value database of FlashDB (flashdb/fdb_kvdb.cpp) over sectors   *)
(* of flash, with power failures between any two writes to the flash.      *)
(*                                                                         *)
(* The program is sequential (every call holds the user's lock), so what   *)
(* it still has to do is a stack: todo is the list of the writes, reads    *)
(* and returns that lie ahead, each step takes the first one, makes at     *)
(* most one write to the flash and may push what it leads to.  A power     *)
(* failure drops the stack and all the memory (db), never the flash.       *)
(*                                                                         *)
(* A sector is its header and the sequence of the KV nodes the magic words *)
(* in it let a reader find.  All nodes have one length L and a sector has  *)
(* room for Slots of them and less than FDB_SEC_REMAIN_THRESHOLD more, so  *)
(* that it turns FULL with its last node.  CRC32 is taken to tell a whole  *)
(* node from a torn one, and the statuses are those of the file mode that  *)
(* is compiled in (fdb_cfg.h), where a status write replaces the byte.     *)
(***************************************************************************)
EXTENDS Integers, Sequences, FiniteSets

CONSTANTS Keys,       \* the names
          Vals,       \* the values a name is set to
          None,       \* no value
          NSectors,   \* SECTOR_NUM
          Slots,      \* nodes that fit in a sector
          MaxCrashes  \* bound: how many power failures

Sectors == 1..NSectors
GcEmptySecThreshold == 1

ASSUME KvdbAssumption ==
    /\ Keys # {} /\ Vals # {} /\ None \notin Vals \union Keys
    /\ NSectors \in Nat /\ GcEmptySecThreshold < NSectors
    /\ Slots \in Nat /\ Slots >= 2
    /\ MaxCrashes \in Nat

VARIABLES flash,   \* the sectors: header status and nodes
          db,      \* struct fdb_kvdb: everything a power failure takes
          todo,    \* what the running call (or the start) has yet to do
          phase,   \* "off", "boot" or "ready" (init_ok)
          op,      \* the call under way, for want
          want,    \* history: the values each name may have for its user
          crashes  \* how many power failures so far

vars == <<flash, db, todo, phase, op, want, crashes>>

NoAddr == <<0, 0>>
NoOp == [key |-> None, before |-> {}, val |-> None]
Memory == [gc_request |-> FALSE, in_recovery_check |-> FALSE,
           last_is_complete_del |-> FALSE, cur_sector |-> 0, failed |-> 0,
           cache |-> [k \in Keys |-> NoAddr]]

Erased == [ok |-> FALSE, store |-> "UNUSED", dirty |-> "UNUSED", kv |-> <<>>]
Clean == [ok |-> TRUE, store |-> "EMPTY", dirty |-> "FALSE", kv |-> <<>>]

Task(t, s, i, d) == [t |-> t, s |-> s, i |-> i, d |-> d]
EachSector(t) == [s \in Sectors |-> Task(t, s, 0, 0)]
Top == todo[1]
Rest == Tail(todo)
Doing(t) == todo # <<>> /\ Top.t = t
-----------------------------------------------------------------------------
(* Reading the flash.  data says how much of a node has been written: only *)
(* its status ("none"), its header too ("hdr"), or all of it ("full").     *)
NodeAt(a) == flash[a[1]].kv[a[2]]
CrcOk(n) == n.data = "full"
Status(n) == IF n.data = "none" THEN "ERR_HDR" ELSE n.status
Blank == [key |-> None, val |-> None, status |-> "ERR_HDR", data |-> "none"]

\* The addresses of the nodes, in the order kv_iterator visits them.
Addrs == {a \in Sectors \X (1..Slots) : a[2] <= Len(flash[a[1]].kv)}
Before(a, b) == a[1] < b[1] \/ (a[1] = b[1] /\ a[2] < b[2])
Copies(k, statuses) == {a \in Addrs : /\ CrcOk(NodeAt(a))
                                      /\ NodeAt(a).key = k
                                      /\ NodeAt(a).status \in statuses}
FindNoCache(k) ==
    LET hits == Copies(k, {"WRITE"})
    IN  IF hits = {} THEN NoAddr
        ELSE CHOOSE a \in hits : \A b \in hits \ {a} : Before(a, b)

\* A hit in the cache is believed when the node there has the name: its
\* status is not looked at.
CacheHit(k) == /\ db.cache[k] \in Addrs
               /\ NodeAt(db.cache[k]).key = k
               /\ CrcOk(NodeAt(db.cache[k]))
Find(k) == IF CacheHit(k) THEN db.cache[k] ELSE FindNoCache(k)
Visible(k) == IF Find(k) = NoAddr THEN None ELSE NodeAt(Find(k)).val

\* read_kv takes the clean start of a USING sector for a node without a
\* length and marks it: a sector that was opened and never written to.
Opened(f, s) == f[s].ok /\ f[s].store = "USING" /\ f[s].kv = <<>>
Touched(f, S) == [s \in Sectors |-> IF s \in S /\ Opened(f, s)
                                    THEN [f[s] EXCEPT !.kv = <<Blank>>]
                                    ELSE f[s]]
-----------------------------------------------------------------------------
(* Finding room.  sector is 0 when there is none; the sectors it read are  *)
(* the USING ones up to the one it takes.                                  *)
Roomy(f, s) == Len(f[s].kv) < Slots
Least(S) == CHOOSE s \in S : \A r \in S : s <= r
Alloc(gc) ==
    LET all   == Touched(flash, Sectors)
        using == {s \in Sectors : /\ all[s].ok /\ all[s].store = "USING"
                                  /\ Roomy(all, s)
                                  /\ \/ all[s].dirty = "FALSE"
                                     \/ all[s].dirty = "TRUE" /\ ~gc}
        empty == {s \in Sectors : flash[s].ok /\ flash[s].store = "EMPTY"}
        open  == empty # {} /\ (Cardinality(empty) > GcEmptySecThreshold \/ gc)
        s1    == IF using # {} THEN Least(using)
                 ELSE IF open THEN Least(empty) ELSE 0
    IN  [sector |-> s1,
         gc     |-> gc \/ (s1 = 0 /\ empty # {}),
         flash  |-> Touched(flash, IF using # {} THEN 1..s1 ELSE Sectors)]

\* The writes that make a node in sector d: of the call's own value when from
\* is NoAddr, else a copy of the node at from.
CreateTasks(d, from) == <<Task("sec_status", from[1], from[2], d),
                          Task("pre_write", from[1], from[2], d),
                          Task("header", 0, 0, d),
                          Task("body", 0, 0, d),
                          Task("commit", from[1], from[2], d)>>
DelTasks(a, complete) ==
    <<Task(IF complete THEN "delete" ELSE "pre_delete", a[1], a[2], 0),
      Task("dirty", a[1], 0, 0)>>
MoveTasks(a) ==
    (IF NodeAt(a).status = "WRITE" THEN DelTasks(a, FALSE) ELSE <<>>)
      \o <<Task("move", a[1], a[2], 0)>>
FormatTasks(s) == <<Task("erase", s, 0, 0), Task("format", s, 0, 0)>>
FormatAll == [i \in 1..2*NSectors |-> FormatTasks((i + 1) \div 2)[2 - (i % 2)]]
KvCheck == <<Task("check_kv", 1, 1, 0), Task("checked", 0, 0, 0)>>
-----------------------------------------------------------------------------
(* The calls of the user.                                                  *)
Ready == phase = "ready" /\ todo = <<>>
Begin(k, v) == /\ op' = [key |-> k, before |-> want[k], val |-> v]
               /\ want' = [want EXCEPT ![k] = @ \union {v}]
End(S) == /\ todo' = <<>>
          /\ op' = NoOp
          /\ want' = [want EXCEPT ![op.key] = S]

KvSet(k, v) == /\ Ready
               /\ Begin(k, v)
               /\ todo' = <<Task("new_kv", 0, 0, 0)>>
               /\ UNCHANGED <<flash, db, phase, crashes>>

KvDel(k) ==
    /\ Ready
    /\ Find(k) # NoAddr
    /\ Begin(k, None)
    /\ todo' = DelTasks(Find(k), TRUE) \o <<Task("return", 0, 0, 0)>>
    /\ db' = [db EXCEPT !.cache[k] = Find(k)]
    /\ UNCHANGED <<flash, phase, crashes>>

KvGet(k) == /\ Ready
            /\ Find(k) # NoAddr
            /\ db' = [db EXCEPT !.cache[k] = Find(k)]
            /\ UNCHANGED <<flash, todo, phase, op, want, crashes>>

\* fdb_kv_set_default with no default nodes: the cache keeps its entries.
KvSetDefault == /\ Ready
                /\ want' = [k \in Keys |-> want[k] \union {None}]
                /\ todo' = FormatAll \o <<Task("formatted", 0, 0, 0)>>
                /\ UNCHANGED <<flash, db, phase, op, crashes>>

Formatted == /\ Doing("formatted")
             /\ todo' = <<>>
             /\ want' = [k \in Keys |-> {None}]
             /\ UNCHANGED <<flash, db, phase, op, crashes>>

\* set_kv makes sure of the room first, with one garbage collection at most.
NewKv ==
    /\ Doing("new_kv")
    /\ LET a == Alloc(db.gc_request)
       IN  /\ flash' = a.flash
           /\ db' = [db EXCEPT !.gc_request = a.gc, !.cur_sector = a.sector]
           /\ IF a.sector # 0
              THEN /\ todo' = <<Task("find_kv", 0, 0, 0)>>
                   /\ UNCHANGED <<op, want>>
              ELSE IF a.gc /\ Top.d = 0
              THEN /\ todo' = <<Task("gc_collect", 0, 0, 0),
                                Task("new_kv", 0, 0, 1)>>
                   /\ UNCHANGED <<op, want>>
              ELSE End(op.before)          \* FDB_SAVED_FULL
    /\ UNCHANGED <<phase, crashes>>

\* A bug: the old node is gone before the new one is written.
FindKvDeleteFirst ==
    /\ Doing("find_kv")
    /\ LET a == Find(op.key)
           create == CreateTasks(db.cur_sector, NoAddr)
       IN  /\ todo' = (IF a = NoAddr THEN <<>> ELSE DelTasks(a, TRUE)) \o create
                        \o <<Task("gc_after", 0, 0, 0), Task("return", 0, 0, 0)>>
           /\ db' = [db EXCEPT !.cache[op.key] = IF a = NoAddr THEN @ ELSE a]
    /\ UNCHANGED <<flash, phase, op, want, crashes>>

\* The old node is prepared for deletion before the new one is written.
FindKv ==
    /\ Doing("find_kv")
    /\ LET a == Find(op.key)
           create == CreateTasks(db.cur_sector, NoAddr)
       IN  /\ todo' = (IF a = NoAddr THEN create
                       ELSE DelTasks(a, FALSE) \o create \o DelTasks(a, TRUE))
                        \o <<Task("gc_after", 0, 0, 0), Task("return", 0, 0, 0)>>
           /\ db' = [db EXCEPT !.cache[op.key] = IF a = NoAddr THEN @ ELSE a]
    /\ UNCHANGED <<flash, phase, op, want, crashes>>

GcAfter == /\ Doing("gc_after")
           /\ todo' = (IF db.gc_request THEN <<Task("gc_collect", 0, 0, 0)>>
                       ELSE <<>>) \o Rest
           /\ UNCHANGED <<flash, db, phase, op, want, crashes>>

Return == /\ Doing("return")
          /\ End({op.val})
          /\ UNCHANGED <<flash, db, phase, crashes>>
-----------------------------------------------------------------------------
(* The writes to the flash.                                                *)
Steps == /\ todo' = Rest
         /\ UNCHANGED <<phase, op, want, crashes>>

PreDelete == /\ Doing("pre_delete")
             /\ flash' = [flash EXCEPT ![Top.s].kv[Top.i].status = "PRE_DELETE"]
             /\ db' = [db EXCEPT !.last_is_complete_del = TRUE]
             /\ Steps

\* A bug: the entry of a deleted name stays in the cache.
DeleteKeepCache ==
    /\ Doing("delete")
    /\ flash' = [flash EXCEPT ![Top.s].kv[Top.i].status = "DELETED"]
    /\ db' = [db EXCEPT !.last_is_complete_del = FALSE]
    /\ Steps

\* The second half of an update leaves the cache alone: the name is there
\* with the address of its new node.
Delete ==
    /\ Doing("delete")
    /\ flash' = [flash EXCEPT ![Top.s].kv[Top.i].status = "DELETED"]
    /\ LET k == NodeAt(<<Top.s, Top.i>>).key
       IN  db' = [db EXCEPT !.last_is_complete_del = FALSE,
                            !.cache[k] = IF db.last_is_complete_del
                                         THEN @ ELSE NoAddr]
    /\ Steps

Dirty == /\ Doing("dirty")
         /\ flash' = [flash EXCEPT ![Top.s].dirty = IF @ = "FALSE" THEN "TRUE"
                                                    ELSE @]
         /\ Steps
         /\ UNCHANGED db

UpdateSecStatus ==
    /\ Doing("sec_status")
    /\ flash' = [flash EXCEPT ![Top.d].store =
                    IF @ = "EMPTY" THEN "USING"
                    ELSE IF Len(flash[Top.d].kv) + 1 = Slots THEN "FULL" ELSE @]
    /\ Steps
    /\ UNCHANGED db

PreWrite ==
    /\ Doing("pre_write")
    /\ LET src == IF Top.s = 0 THEN op ELSE NodeAt(<<Top.s, Top.i>>)
           n   == [key |-> src.key, val |-> src.val,
                   status |-> "PRE_WRITE", data |-> "none"]
       IN  flash' = [flash EXCEPT ![Top.d].kv = Append(@, n)]
    /\ Steps
    /\ UNCHANGED db

Header == /\ Doing("header")
          /\ flash' = [flash EXCEPT ![Top.d].kv[Len(flash[Top.d].kv)].data = "hdr"]
          /\ Steps
          /\ UNCHANGED db

\* The name and the value, and the entry of the cache that goes with them.
Body == /\ Doing("body")
        /\ LET i == Len(flash[Top.d].kv)
           IN  /\ flash' = [flash EXCEPT ![Top.d].kv[i].data = "full"]
               /\ db' = [db EXCEPT !.cache[flash[Top.d].kv[i].key] = <<Top.d, i>>]
        /\ Steps

\* A set that filled its sector asks for a garbage collection, a move not.
Commit ==
    /\ Doing("commit")
    /\ flash' = [flash EXCEPT ![Top.d].kv[Len(flash[Top.d].kv)].status = "WRITE"]
    /\ db' = [db EXCEPT !.gc_request =
                 @ \/ (Top.s = 0 /\ flash[Top.d].store = "FULL")]
    /\ Steps

Erase == /\ Doing("erase")
         /\ flash' = [flash EXCEPT ![Top.s] = Erased]
         /\ Steps
         /\ UNCHANGED db

Format == /\ Doing("format")
          /\ flash' = [flash EXCEPT ![Top.s] = Clean]
          /\ Steps
          /\ UNCHANGED db
-----------------------------------------------------------------------------
(* Garbage collection: the live nodes of every dirty sector are moved and  *)
(* the sector is formatted, whether or not they found a place.             *)
GcCollect ==
    /\ Doing("gc_collect")
    /\ LET empty == {s \in Sectors : flash[s].ok /\ flash[s].store = "EMPTY"}
       IN  todo' = (IF Cardinality(empty) <= GcEmptySecThreshold
                    THEN EachSector("gc_sector") ELSE <<>>)
                     \o <<Task("gc_end", 0, 0, 0)>> \o Rest
    /\ UNCHANGED <<flash, db, phase, op, want, crashes>>

DoGc ==
    /\ Doing("gc_sector")
    /\ IF flash[Top.s].ok /\ flash[Top.s].dirty \in {"TRUE", "GC"}
       THEN /\ flash' = [flash EXCEPT ![Top.s].dirty = "GC"]
            /\ todo' = <<Task("gc_kv", Top.s, 1, 0)>> \o FormatTasks(Top.s) \o Rest
       ELSE todo' = Rest /\ UNCHANGED flash
    /\ UNCHANGED <<db, phase, op, want, crashes>>

\* A bug: the collection does not look at the status of a node.
GcKvAnyStatus ==
    /\ Doing("gc_kv")
    /\ LET live == {i \in Top.i..Len(flash[Top.s].kv) :
                       CrcOk(flash[Top.s].kv[i])}
       IN  todo' = IF live = {} THEN Rest
                   ELSE MoveTasks(<<Top.s, Least(live)>>)
                          \o <<Task("gc_kv", Top.s, Least(live) + 1, 0)>> \o Rest
    /\ UNCHANGED <<flash, db, phase, op, want, crashes>>

GcKv ==
    /\ Doing("gc_kv")
    /\ LET live == {i \in Top.i..Len(flash[Top.s].kv) :
                       /\ CrcOk(flash[Top.s].kv[i])
                       /\ flash[Top.s].kv[i].status \in {"WRITE", "PRE_DELETE"}}
       IN  todo' = IF live = {} THEN Rest
                   ELSE MoveTasks(<<Top.s, Least(live)>>)
                          \o <<Task("gc_kv", Top.s, Least(live) + 1, 0)>> \o Rest
    /\ UNCHANGED <<flash, db, phase, op, want, crashes>>

\* During a start the name may have its new node already; then, and when the
\* copy is made, the old node goes.  Without room a start gives up its walk
\* and a garbage collection takes the next node.
MoveKv ==
    /\ Doing("move")
    /\ LET a   == Alloc(db.gc_request)
           src == <<Top.s, Top.i>>
       IN  /\ flash' = a.flash
           /\ db' = [db EXCEPT !.gc_request = a.gc]
           /\ todo' = IF a.sector = 0
                      THEN IF Rest[1].t = "check_kv" THEN Tail(Rest) ELSE Rest
                      ELSE (IF /\ db.in_recovery_check
                               /\ FindNoCache(NodeAt(src).key) # NoAddr
                            THEN <<>> ELSE CreateTasks(a.sector, src))
                             \o DelTasks(src, TRUE) \o Rest
    /\ UNCHANGED <<phase, op, want, crashes>>

\* A bug: the request outlives the collection.
GcEndKeepRequest == /\ Doing("gc_end")
                    /\ Steps
                    /\ UNCHANGED <<flash, db>>

GcEnd == /\ Doing("gc_end")
         /\ db' = [db EXCEPT !.gc_request = FALSE]
         /\ Steps
         /\ UNCHANGED flash
-----------------------------------------------------------------------------
(* The start, fdb_kvdb_init, and the recovery in it.                       *)
Boot ==
    /\ phase = "off"
    /\ phase' = "boot"
    /\ db' = [Memory EXCEPT !.in_recovery_check = TRUE]
    /\ todo' = EachSector("check_hdr") \o <<Task("check_all", 0, 0, 0)>>
                 \o EachSector("check_gc") \o KvCheck
    /\ UNCHANGED <<flash, op, want, crashes>>

CheckHdr ==
    /\ Doing("check_hdr")
    /\ IF flash[Top.s].ok THEN todo' = Rest /\ UNCHANGED db
       ELSE /\ db' = [db EXCEPT !.failed = @ + 1]
            /\ todo' = FormatTasks(Top.s) \o Rest
    /\ UNCHANGED <<flash, phase, op, want, crashes>>

\* fdb_kv_set_default, without default nodes, when no sector was formatted.
CheckAll ==
    /\ Doing("check_all")
    /\ todo' = (IF db.failed < NSectors THEN <<>>
                ELSE FormatAll) \o Rest
    /\ UNCHANGED <<flash, db, phase, op, want, crashes>>

CheckGc ==
    /\ Doing("check_gc")
    /\ IF flash[Top.s].ok /\ flash[Top.s].dirty = "GC"
       THEN /\ db' = [db EXCEPT !.gc_request = TRUE]
            /\ todo' = <<Task("gc_collect", 0, 0, 0)>> \o Rest
       ELSE todo' = Rest /\ UNCHANGED db
    /\ UNCHANGED <<flash, phase, op, want, crashes>>

\* One node of the walk over all of them.  A node that was never finished is
\* marked, and ends the walk.
CheckKv ==
    /\ Doing("check_kv")
    /\ LET f == Touched(flash, {Top.s} \intersect Sectors)
           s == Top.s
           i == Top.i
           more == <<Task("check_kv", s, i + 1, 0)>> \o Rest
       IN  IF s > NSectors
           THEN todo' = Rest /\ UNCHANGED <<flash, db>>
           ELSE IF i > Len(f[s].kv)
           THEN /\ todo' = <<Task("check_kv", s + 1, 1, 0)>> \o Rest
                /\ UNCHANGED <<flash, db>>
           ELSE LET n == f[s].kv[i] IN
                \/ /\ CrcOk(n) /\ n.status = "PRE_DELETE"
                   /\ todo' = <<Task("move", s, i, 0)>> \o more
                   /\ UNCHANGED <<flash, db>>
                \/ /\ Status(n) = "PRE_WRITE"
                   /\ flash' = [f EXCEPT ![s].kv[i].status = "ERR_HDR"]
                   /\ todo' = Rest
                   /\ UNCHANGED db
                \/ /\ CrcOk(n) /\ n.status = "WRITE"
                   /\ db' = [db EXCEPT !.cache[n.key] = <<s, i>>]
                   /\ todo' = more
                   /\ UNCHANGED flash
                \/ /\ ~(CrcOk(n) /\ n.status \in {"WRITE", "PRE_DELETE"})
                   /\ Status(n) # "PRE_WRITE"
                   /\ flash' = f
                   /\ todo' = more
                   /\ UNCHANGED db
    /\ UNCHANGED <<phase, op, want, crashes>>

\* What the recovery shows of a name is what its user goes on with, when it
\* is one of the values the name may have.
Checked ==
    /\ Doing("checked")
    /\ IF db.gc_request
       THEN /\ todo' = <<Task("gc_collect", 0, 0, 0)>> \o KvCheck
            /\ UNCHANGED <<db, phase, want>>
       ELSE /\ todo' = <<>>
            /\ phase' = "ready"
            /\ db' = [db EXCEPT !.in_recovery_check = FALSE]
            /\ want' = [k \in Keys |-> IF Visible(k) \in want[k]
                                       THEN {Visible(k)} ELSE want[k]]
    /\ UNCHANGED <<flash, op, crashes>>

\* A power failure (or a restart).  Of a node whose header was not written
\* the magic word may be missing: behind another node nobody finds it then.
Crash ==
    /\ phase # "off"
    /\ crashes < MaxCrashes
    /\ crashes' = crashes + 1
    /\ phase' = "off"
    /\ db' = Memory
    /\ todo' = <<>>
    /\ op' = NoOp
    /\ \/ UNCHANGED flash
       \/ /\ Doing("header")
          /\ Len(flash[Top.d].kv) > 1
          /\ flash' = [flash EXCEPT ![Top.d].kv = SubSeq(@, 1, Len(@) - 1)]
    /\ UNCHANGED want
-----------------------------------------------------------------------------
Init == /\ flash = [s \in Sectors |-> Erased]
        /\ db = Memory
        /\ todo = <<>>
        /\ phase = "off"
        /\ op = NoOp
        /\ want = [k \in Keys |-> {None}]
        /\ crashes = 0

Work == \/ NewKv \/ FindKv \/ GcAfter \/ Return \/ Formatted
        \/ PreDelete \/ Delete \/ Dirty \/ UpdateSecStatus
        \/ PreWrite \/ Header \/ Body \/ Commit \/ Erase \/ Format
        \/ GcCollect \/ DoGc \/ GcKv \/ MoveKv \/ GcEnd
        \/ Boot \/ CheckHdr \/ CheckAll \/ CheckGc \/ CheckKv \/ Checked

Next == \/ Work
        \/ \E k \in Keys : KvDel(k) \/ KvGet(k) \/ \E v \in Vals : KvSet(k, v)
        \/ KvSetDefault
        \/ Crash

Spec == Init /\ [][Next]_vars /\ WF_vars(Work)
-----------------------------------------------------------------------------
\* What a name was last set to is never off the flash: at every moment, power
\* failures, recovery and garbage collections included, a whole node holds a
\* value the name may have (the old one or the new one while a call is under
\* way), as WRITE or as PRE_DELETE, from which a start can bring it back
\* (set_kv, move_kv, do_gc).
NoValueLost ==
    \A k \in Keys : \/ None \in want[k]
                    \/ \E a \in Copies(k, {"WRITE", "PRE_DELETE"}) :
                           NodeAt(a).val \in want[k]

\* As long as the power holds, between two calls the cache, a walk over the
\* flash and the iterator (which takes every WRITE node) agree on one node for
\* each name, the one with the value it was last set to, and on none for a
\* deleted name (find_kv, get_kv_from_cache, fdb_kv_iterate).
ReadsLatest ==
    (Ready /\ crashes = 0) =>
        \A k \in Keys : /\ want[k] = {Visible(k)}
                        /\ LET live == Copies(k, {"WRITE"})
                           IN  IF Visible(k) = None THEN live = {}
                               ELSE live = {Find(k)}

\* Between two calls a sector is empty, for the next garbage collection to
\* move live nodes to: the comment in fdb_kvdb_init says so.
RoomForGc == Ready => \E s \in Sectors : flash[s].store = "EMPTY"

\* No name is still being changed when a start is over: the comments in
\* check_and_recovery_kv_cb say that the old node is recovered.
PreDeletedRecovered ==
    [][(phase = "boot" /\ phase' = "ready") =>
          \A k \in Keys : Copies(k, {"PRE_DELETE"}) = {}]_vars

\* After a power failure a start shows of every name a value it may have, the
\* old one or the new one and never a deleted or torn one; at worst it shows
\* nothing while the old node is on the flash as PRE_DELETE (_fdb_kv_load).
RecoveryKeeps ==
    [][(phase = "boot" /\ phase' = "ready") =>
          \A k \in Keys :
             \/ Visible(k) \in want[k]
             \/ Visible(k) = None /\ Copies(k, {"PRE_DELETE"}) # {}]_vars

\* A start comes to its end, though it walks over the nodes again after every
\* garbage collection it asks for (the __retry of _fdb_kv_load).
RecoveryEnds == (phase = "boot") ~> (phase # "boot")
=============================================================================
