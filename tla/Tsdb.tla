-------------------------------- MODULE Tsdb --------------------------------
(***************************************************************************)
(* The time-series database of FlashDB (flashdb/fdb_tsdb.cpp): a log kept  *)
(* in a ring of flash sectors, each of which is filled from both ends: the *)
(* index nodes (struct log_idx_data) from the top, the blobs from the      *)
(* bottom.  One call runs at a time and a power failure may come between   *)
(* any two writes whose order a later start can tell apart; pc names the   *)
(* write that comes next.                                                  *)
(*                                                                         *)
(* Sizes are counted in index nodes: a node takes 1 and the blob of a log  *)
(* its size.  The data of a log is not kept, only the place it takes.  A   *)
(* flash cell that was never written reads as Unwritten, which as a        *)
(* fdb_time_t is -1.                                                       *)
(*                                                                         *)
(* Left out: fdb_tsl_set_status, which changes one status byte no other    *)
(* operation depends on; the options that have to be set before the        *)
(* initialization; and writes that fail.                                   *)
(***************************************************************************)
EXTENDS Integers, Sequences, SequencesExt

CONSTANTS NSectors,    \* max_size / sec_size
          Room,        \* what a sector has besides its header
          Sizes,       \* sizes of a log's blob
          Steps,       \* how far get_time may advance between two logs
          MaxLogs,     \* bound: logs appended
          MaxCrashes,  \* bound: power failures
          CrashPoints, \* the values of pc at which the power may fail
          SplitCrashes \* whether it may fail while a clean has left the state Split

Sectors == 1..NSectors
MaxLen == CHOOSE n \in Sizes : \A m \in Sizes : m <= n
Unwritten == -1
NoSector == 0

ASSUME TsdbAssumption ==
    /\ NSectors \in Nat /\ NSectors >= 2
    /\ Room \in Nat /\ Sizes # {} /\ Sizes \subseteq 1..(Room - 1)
    /\ Steps \subseteq Nat /\ MaxLogs \in Nat /\ MaxCrashes \in Nat
    /\ SplitCrashes \in BOOLEAN

VARIABLES flash,   \* the sectors
          db,      \* struct fdb_tsdb: cur_sec, oldest_addr, last_time, rollover
          pc,      \* the write that comes next, or "ready", "off", ...
          blob,    \* the log the running fdb_tsl_append writes
          at,      \* the sector tsl_format_all has come to
          clock,   \* what get_time returned last
          count,   \* how many logs were appended
          crashes, \* how many power failures so far
          cleaning \* history: the user asked for an empty database

vars == <<flash, db, pc, blob, at, clock, count, crashes, cleaning>>

NoInfo == [st |-> "UNUSED", time |-> Unwritten, idx |-> 0]
Erased == [ok |-> FALSE, store |-> "UNUSED", start |-> Unwritten,
           end |-> <<NoInfo, NoInfo>>, log |-> <<>>]
Formatted == [Erased EXCEPT !.ok = TRUE, !.store = "EMPTY"]
NoBlob == [id |-> 0, time |-> 0, size |-> 0]

After(s) == IF s < NSectors THEN s + 1 ELSE 1
Before(s) == IF s > 1 THEN s - 1 ELSE NSectors

(* read_tsl: a node whose status stayed PRE_WRITE counts as the longest    *)
(* log there may be, of time 0.                                            *)
Torn(log) == log.st = "PRE_WRITE"
(* Faulty variant: a torn log takes no room.                               *)
LenOfUnlessTorn(log) == IF Torn(log) THEN 0 ELSE log.size
LenOf(log) == IF Torn(log) THEN MaxLen ELSE log.size
TimeOf(log) == IF Torn(log) THEN 0 ELSE log.time

(* What the traversal leaves of the room below the nodes of a sector: a    *)
(* log that does not fit takes all of it.                                  *)
RemainAfter(logs) ==
    LET remain[i \in 0..Len(logs)] ==
            IF i = 0 THEN Room
            ELSE IF remain[i - 1] > 1 + LenOf(logs[i]) THEN remain[i - 1] - 1 - LenOf(logs[i]) ELSE 0
    IN  remain[Len(logs)]
DataAfter(logs) ==
    LET data[i \in 0..Len(logs)] == IF i = 0 THEN Room ELSE data[i - 1] - LenOf(logs[i])
    IN  data[Len(logs)]

(* The end node a reader takes from the header: the first of the two that  *)
(* was finished.                                                           *)
EndInfo(s) == IF flash[s].end[1].st = "WRITE" THEN flash[s].end[1] ELSE flash[s].end[2]
NoEndNode(s) == \A i \in {1, 2} : flash[s].end[i].st = "PRE_WRITE"

(* read_sector_info, with the traversal that only a USING sector gets; n   *)
(* is the count of its nodes (empty_idx), endTime what is known of the     *)
(* last one, or old when nothing is.                                       *)
SectorInfo(s, traversal, old) ==
    LET sec == flash[s]
        logs == IF sec.store = "USING" /\ traversal THEN sec.log ELSE <<>>
    IN  [addr |-> s, store |-> sec.store, start |-> sec.start,
         endStat |-> <<sec.end[1].st, sec.end[2].st>>,
         endTime |-> IF logs # <<>> THEN TimeOf(Last(logs))
                     ELSE IF EndInfo(s).st = "WRITE" THEN EndInfo(s).time ELSE old,
         n |-> Len(logs), data |-> DataAfter(logs), remain |-> RemainAfter(logs)]

Using == {s \in Sectors : flash[s].store = "USING"}
Empty == {s \in Sectors : flash[s].store = "EMPTY"}
Lowest(S) == CHOOSE s \in S : \A t \in S : s <= t
Highest(S) == CHOOSE s \in S : \A t \in S : s >= t

-----------------------------------------------------------------------------
(* The memory of a new process.                                            *)
Memory == [cur |-> [addr |-> NoSector, store |-> "UNUSED", start |-> 0, endStat |-> <<"UNUSED", "UNUSED">>,
                    endTime |-> 0, n |-> 0, data |-> 0, remain |-> 0],
           oldest |-> NoSector, last |-> 0, rollover |-> TRUE]

Init == /\ flash = [s \in Sectors |-> Erased]
        /\ db = Memory
        /\ pc = "off"
        /\ blob = NoBlob
        /\ at = NoSector
        /\ clock = 1
        /\ count = 0
        /\ crashes = 0
        /\ cleaning = FALSE

Cur == db.cur.addr

(* A write to the sector s, after which comes the write next.              *)
Put(s, sec, next) == /\ flash' = [flash EXCEPT ![s] = sec]
                     /\ pc' = next

-----------------------------------------------------------------------------
(* fdb_tsl_append: update_sec_status, then write_tsl, then cur_sec.        *)
Fits(size) == db.cur.remain >= 1 + size
FreeEnd == {i \in {1, 2} : db.cur.endStat[i] = "UNUSED"}

FirstWrite(size) ==
    CASE db.cur.store = "EMPTY" -> "using"
      [] db.cur.store = "USING" /\ Fits(size) -> "pre"
      [] OTHER -> IF FreeEnd # {} THEN "endpre" ELSE "full"

Append_(size, step) ==
    /\ pc = "ready" /\ count < MaxLogs
    /\ db.cur.store = "USING" /\ ~Fits(size) => db.rollover
    /\ clock' = clock + step
    /\ count' = count + 1
    /\ blob' = [id |-> count', time |-> clock', size |-> size]
    /\ pc' = FirstWrite(size)
    /\ UNCHANGED <<flash, db, at, crashes, cleaning>>

(* The index and the time of the last node go to the first end node of the *)
(* header that cur_sec knows to be unused.                                 *)
EndPreWrite ==
    /\ pc = "endpre"
    /\ Put(Cur, [flash[Cur] EXCEPT !.end[Lowest(FreeEnd)].st = "PRE_WRITE"], "endwrite")
    /\ UNCHANGED <<db, blob, at, clock, count, crashes, cleaning>>

(* Faulty variant: the index of the node before the last one.              *)
EndWriteOneShort ==
    /\ pc = "endwrite"
    /\ Put(Cur, [flash[Cur] EXCEPT !.end[Lowest(FreeEnd)] =
                    [st |-> "WRITE", time |-> db.last, idx |-> db.cur.n - 1]], "full")
    /\ UNCHANGED <<db, blob, at, clock, count, crashes, cleaning>>

EndWrite ==
    /\ pc = "endwrite"
    /\ Put(Cur, [flash[Cur] EXCEPT !.end[Lowest(FreeEnd)] =
                    [st |-> "WRITE", time |-> db.last, idx |-> db.cur.n]], "full")
    /\ UNCHANGED <<db, blob, at, clock, count, crashes, cleaning>>

(* The sector is FULL; the next one becomes the current one, and the one   *)
(* after it the oldest when the next holds logs and has to be formatted.   *)
SectorFull ==
    LET next == SectorInfo(After(Cur), FALSE, db.cur.endTime)
        empty == next.store = "EMPTY"
    IN  /\ pc = "full"
        /\ Put(Cur, [flash[Cur] EXCEPT !.store = "FULL"], IF empty THEN "using" ELSE "erase")
        /\ db' = [db EXCEPT !.cur = next,
                            !.oldest = IF empty THEN @ ELSE After(next.addr)]
        /\ UNCHANGED <<blob, at, clock, count, crashes, cleaning>>

EraseNext ==
    /\ pc = "erase"
    /\ Put(Cur, Erased, "magic")
    /\ UNCHANGED <<db, blob, at, clock, count, crashes, cleaning>>

(* The magic word, and read_sector_info of what format_sector made.        *)
FormatNext ==
    /\ pc = "magic"
    /\ Put(Cur, Formatted, "using")
    /\ db' = [db EXCEPT !.cur = [@ EXCEPT !.store = "EMPTY", !.start = Unwritten, !.n = 0,
                                          !.endStat = <<"UNUSED", "UNUSED">>,
                                          !.data = Room, !.remain = Room]]
    /\ UNCHANGED <<blob, at, clock, count, crashes, cleaning>>

SectorUsing ==
    /\ pc = "using"
    /\ Put(Cur, [flash[Cur] EXCEPT !.store = "USING"], "start")
    /\ db' = [db EXCEPT !.cur.store = "USING", !.cur.start = blob.time]
    /\ UNCHANGED <<blob, at, clock, count, crashes, cleaning>>

StartTime ==
    /\ pc = "start"
    /\ Put(Cur, [flash[Cur] EXCEPT !.start = blob.time], "pre")
    /\ UNCHANGED <<db, blob, at, clock, count, crashes, cleaning>>

(* write_tsl takes the next index node and the room above the lowest blob. *)
PreWrite ==
    LET log == flash[Cur].log
        node == [st |-> "PRE_WRITE", id |-> blob.id, time |-> blob.time,
                 size |-> blob.size, addr |-> db.cur.data - blob.size]
    IN  /\ pc = "pre"
        /\ Put(Cur, [flash[Cur] EXCEPT !.log = IF db.cur.n < Len(@) THEN ReplaceAt(@, db.cur.n + 1, node)
                                               ELSE Append(@, node)], "write")
        /\ UNCHANGED <<db, blob, at, clock, count, crashes, cleaning>>

Write ==
    /\ pc = "write"
    /\ Put(Cur, [flash[Cur] EXCEPT !.log[db.cur.n + 1].st = "WRITE"], "ready")
    /\ db' = [db EXCEPT !.cur.endTime = blob.time,
                        !.cur.n = @ + 1,
                        !.cur.data = @ - blob.size,
                        !.cur.remain = @ - (1 + blob.size),
                        !.last = IF blob.time >= @ THEN blob.time ELSE @]
    /\ blob' = NoBlob
    /\ UNCHANGED <<at, clock, count, crashes, cleaning>>

-----------------------------------------------------------------------------
(* tsl_format_all, sector by sector.                                       *)
Clean ==
    /\ pc = "ready"
    /\ pc' = "format" /\ at' = 1 /\ cleaning' = TRUE
    /\ UNCHANGED <<flash, db, blob, clock, count, crashes>>

FormatErase ==
    /\ pc = "format"
    /\ Put(at, Erased, "formatmagic")
    /\ UNCHANGED <<db, blob, at, clock, count, crashes, cleaning>>

FormatMagic ==
    /\ pc = "formatmagic"
    /\ Put(at, Formatted, IF at < NSectors THEN "format" ELSE "ready")
    /\ IF at < NSectors
       THEN at' = at + 1 /\ UNCHANGED <<db, cleaning>>
       ELSE /\ at' = NoSector /\ cleaning' = FALSE
            /\ db' = [db EXCEPT !.cur = [Memory.cur EXCEPT !.addr = 1, !.store = "EMPTY", !.start = Unwritten,
                                                           !.data = Room, !.remain = Room],
                                !.oldest = 1, !.last = 0]
    /\ UNCHANGED <<blob, clock, count, crashes>>

SetRollover ==
    /\ pc = "ready"
    /\ db' = [db EXCEPT !.rollover = ~@]
    /\ UNCHANGED <<flash, pc, blob, at, clock, count, crashes, cleaning>>

-----------------------------------------------------------------------------
(* fdb_tsdb_init.  check_sec_hdr_cb fails at a bad header and at a USING   *)
(* sector behind another USING or an EMPTY one.                            *)
(* Faulty variant: no EMPTY sector may lie on either side of a USING one.  *)
CheckFailedAnyEmpty(s) == ~flash[s].ok \/ (s \in Using /\ \E t \in Using \union Empty : t # s)
CheckFailed(s) == ~flash[s].ok \/ (s \in Using /\ \E t \in Using \union Empty : t < s)
Failed == {s \in Sectors : CheckFailed(s)}
Reached(s) == \A t \in Failed : s <= t

CurSec == IF Using # {} THEN Lowest(Using) ELSE Lowest(Empty)
Latest == IF Empty # {} THEN Highest(Empty) ELSE Lowest(Using)

(* read_sector_info asserts that a header holds an end node.               *)
StartAsserts ==
    /\ pc = "off" /\ \E s \in Sectors : Reached(s) /\ NoEndNode(s)
    /\ pc' = "assert"
    /\ UNCHANGED <<flash, db, blob, at, clock, count, crashes, cleaning>>

StartFormats ==
    /\ pc = "off" /\ Failed # {} /\ \A s \in Sectors : Reached(s) => ~NoEndNode(s)
    /\ pc' = "format" /\ at' = 1
    /\ UNCHANGED <<flash, db, blob, clock, count, crashes, cleaning>>

(* Every sector is FULL: cur_sec.addr stays FDB_DATA_UNUSED.               *)
StartFindsNone ==
    /\ pc = "off" /\ Failed = {} /\ Using \union Empty = {}
    /\ pc' = "nosector"
    /\ UNCHANGED <<flash, db, blob, at, clock, count, crashes, cleaning>>

(* The end time of a USING sector without a node is what the last sector   *)
(* that was read left in the variable, or what the stack held.             *)
Start(old) ==
    /\ pc = "off" /\ Failed = {} /\ Using \union Empty # {}
    /\ \A s \in Sectors : ~NoEndNode(s)
    /\ LET cur == SectorInfo(CurSec, TRUE, old)
           before == SectorInfo(Before(CurSec), FALSE, old)
       IN  db' = [cur |-> cur, oldest |-> After(Latest), rollover |-> TRUE,
                  last |-> CASE cur.store = "USING" -> cur.endTime
                             [] cur.store = "EMPTY" /\ After(Latest) # CurSec -> before.endTime
                             [] OTHER -> db.last]
    /\ pc' = "ready" /\ cleaning' = FALSE
    /\ UNCHANGED <<flash, blob, at, clock, count, crashes>>

(* fdb_tsdb_deinit; the struct stays, and with it last_time, which the     *)
(* next start need not set.                                                *)
Deinit ==
    /\ pc = "ready"
    /\ pc' = "off" /\ db' = [Memory EXCEPT !.last = db.last]
    /\ UNCHANGED <<flash, blob, at, clock, count, crashes, cleaning>>

(* A clean that has come past the first of several FULL sectors, with room *)
(* left behind the last: the next start finds nothing wrong with it and    *)
(* takes the lowest EMPTY sector for the current and for the oldest one.   *)
Split == /\ \A s \in Sectors : flash[s].ok
         /\ Using = {}
         /\ \E s, u \in Empty, t \in Sectors : s < t /\ t < u /\ flash[t].store = "FULL"

(* A power failure.                                                        *)
Crash ==
    /\ pc \in CrashPoints /\ crashes < MaxCrashes
    /\ pc = "format" /\ Split => SplitCrashes
    /\ pc' = "off" /\ db' = Memory /\ blob' = NoBlob /\ at' = NoSector
    /\ crashes' = crashes + 1
    /\ UNCHANGED <<flash, clock, count, cleaning>>

Next ==
    \/ \E size \in Sizes, step \in Steps : Append_(size, step)
    \/ EndPreWrite \/ EndWrite \/ SectorFull \/ EraseNext \/ FormatNext
    \/ SectorUsing \/ StartTime \/ PreWrite \/ Write
    \/ Clean \/ FormatErase \/ FormatMagic \/ SetRollover
    \/ StartAsserts \/ StartFormats \/ StartFindsNone
    \/ \E old \in {0} \union {EndInfo(s).time : s \in Sectors} : Start(old)
    \/ Deinit \/ Crash

Spec == Init /\ [][Next]_vars

-----------------------------------------------------------------------------
(* What the readers return.  fdb_tsl_iter goes round the ring from the     *)
(* oldest sector; of the USING sector it believes cur_sec, of a FULL one   *)
(* the end node of its header.  LogsIn and Stored are the nodes up to that *)
(* end.                                                                    *)
Ring == [i \in Sectors |-> ((db.oldest + i - 2) % NSectors) + 1]
Nodes(s) == IF s \in Using THEN db.cur.n ELSE EndInfo(s).idx
LogsIn(s) == IF flash[s].store \in {"USING", "FULL"} THEN SubSeq(flash[s].log, 1, Nodes(s)) ELSE <<>>
Stored == FlattenSeq([i \in Sectors |-> LogsIn(Ring[i])])

(* A node that was never written.                                          *)
NoLog == [st |-> "UNUSED", id |-> 0, time |-> Unwritten, size |-> 0, addr |-> 0]

(* The first node of a USING or FULL sector is read and called back before *)
(* the end is looked at.  In a sector without a node that end is what      *)
(* end_idx held before: an address in a sector read earlier, below this    *)
(* one, or, in the first sector, whatever the stack held, which names its  *)
(* node stale (an end behind the sector itself is left out).               *)
ReadIn(s, stale) ==
    CASE flash[s].store \notin {"USING", "FULL"} -> <<>>
      [] flash[s].store \in {"USING", "FULL"} /\ flash[s].log = <<>> ->
            [i \in 1..(IF s = 1 /\ stale > 1 THEN stale ELSE 1) |-> NoLog]
      [] OTHER -> SubSeq(flash[s].log, 1, IF Nodes(s) > 1 THEN Nodes(s) ELSE 1)
Iter(stale) == FlattenSeq([i \in Sectors |-> ReadIn(Ring[i], stale)])

(* fdb_tsl_iter_by_time: in the first sector that may hold the time from,  *)
(* a binary search over its nodes, then every log up to the first one out  *)
(* of the range or, what later sectors add, up to the first EMPTY sector.  *)
NodeTime(s, i) == IF i <= Len(flash[s].log) THEN TimeOf(flash[s].log[i]) ELSE Unwritten

(* Faulty variant: the search goes on behind a node of the time it seeks.  *)
SearchStartAfterEqual(s, from) ==
    LET n == Nodes(s)
        search[bounds \in (1..(n + 1)) \X (0..n)] ==
            LET i == bounds[1]
                j == bounds[2]
                mid == i + (j - i) \div 2
            IN  IF i > j THEN i
                ELSE IF NodeTime(s, mid) <= from THEN search[<<mid + 1, j>>] ELSE search[<<i, mid - 1>>]
    IN  search[<<1, n>>]

SearchStart(s, from) ==
    LET n == Nodes(s)
        search[bounds \in (1..(n + 1)) \X (0..n)] ==
            LET i == bounds[1]
                j == bounds[2]
                mid == i + (j - i) \div 2
            IN  IF i > j THEN i
                ELSE IF NodeTime(s, mid) < from THEN search[<<mid + 1, j>>] ELSE search[<<i, mid - 1>>]
    IN  search[<<1, n>>]

MayHold(s, from) ==
    LET start == IF s \in Using THEN db.cur.start ELSE flash[s].start
        end == IF s \in Using THEN db.cur.endTime ELSE EndInfo(s).time
    IN  (start <= from /\ from <= end) \/ (s = db.oldest /\ from <= start)

ByTime(from, to) ==
    LET first == {i \in Sectors : Ring[i] \notin Empty /\ MayHold(Ring[i], from)}
        stop == {i \in Sectors : Ring[i] \in Empty}
        visited == {i \in Sectors : (\E j \in first : j <= i) /\ \A j \in stop : i < j}
        tail(s) == LET start == SearchStart(s, from)
                   IN  IF start > Nodes(s) THEN <<NoLog>> ELSE SubSeq(LogsIn(s), start, Nodes(s))
        read == FlattenSeq([i \in Sectors |-> IF i \in visited THEN tail(Ring[i]) ELSE <<>>])
        out == {i \in DOMAIN read : TimeOf(read[i]) < from \/ TimeOf(read[i]) > to}
    IN  IF out = {} THEN read ELSE SubSeq(read, 1, Lowest(out) - 1)

-----------------------------------------------------------------------------
Node == [st : {"PRE_WRITE", "WRITE"}, id : Nat, time : Nat, size : Sizes, addr : Int]

TypeOK ==
    /\ \A s \in Sectors : /\ flash[s].ok \in BOOLEAN
                          /\ flash[s].store \in {"UNUSED", "EMPTY", "USING", "FULL"}
                          /\ flash[s].log \in Seq(Node)
    /\ db.cur.addr \in Sectors \union {NoSector}
    /\ db.cur.remain \in 0..Room /\ db.cur.n \in 0..Room
    /\ pc \in {"off", "ready", "endpre", "endwrite", "full", "erase", "magic", "using", "start",
              "pre", "write", "format", "formatmagic", "assert", "nosector"}

LogsOn(s) == {flash[s].log[i] : i \in DOMAIN flash[s].log}
Written == {log \in UNION {LogsOn(s) : s \in Sectors} : ~Torn(log)}

(* fdb_tsl_iter calls back for every log the flash holds, the torn ones    *)
(* included, once and in the order of the appends, wherever the ring       *)
(* begins and whatever cur_sec was rebuilt from after a power failure; for *)
(* an unwritten node only while the USING sector has no log.               *)
EachTSL ==
    pc = "ready" => \A stale \in 0..Room :
        LET iter == Iter(stale)
            logs == {i \in DOMAIN iter : iter[i] # NoLog}
        IN  /\ {iter[i] : i \in logs} = UNION {LogsOn(s) : s \in Sectors}
            /\ \A i, j \in logs : i < j => iter[i].id < iter[j].id
            /\ logs # DOMAIN iter => \E s \in Using : flash[s].log = <<>>

(* Without torn logs, a query by time returns the logs of the range, once  *)
(* and in the order of the appends, if the range begins before the oldest  *)
(* log or between the first and the last log of some sector.               *)
Bounds(logs, t) == logs # <<>> /\ Head(logs).time <= t /\ t <= Last(logs).time
Covered(t) == \/ \E s \in Sectors : Bounds(LogsIn(s), t)
              \/ t <= Head(Stored).time

Returns(logs, from, to) ==
    LET found == ByTime(from, to)
    IN  /\ {found[i] : i \in DOMAIN found} = {log \in logs : from <= log.time /\ log.time <= to}
        /\ \A i \in 2..Len(found) : found[i - 1].id < found[i].id

RangeExact ==
    LET stored == Stored
        logs == {stored[i] : i \in DOMAIN stored}
    IN  pc = "ready" /\ stored # <<>> /\ (\A log \in logs : ~Torn(log)) =>
            \A from \in 0..(clock + 1) :
                Covered(from) => \A to \in {from, clock} : Returns(logs, from, to)

(* No blob is written over another one, a torn one included, nor over the  *)
(* index, although a start takes a torn log for the longest there may be.  *)
DataApart ==
    \A s \in Sectors :
        LET log == flash[s].log
        IN  \A i \in DOMAIN log : /\ log[i].addr >= Len(log)
                                  /\ i > 1 => log[i].addr + log[i].size <= log[i - 1].addr

(* What holds in every state: the types, and blobs apart.                  *)
Consistent == TypeOK /\ DataApart

(* A log leaves the flash only when the user cleans the database or when   *)
(* there is no room anywhere and it is among the oldest: no start formats  *)
(* a database that a power failure left in order.                          *)
Gone == Written \ Written'
DropsOldest ==
    [][Gone # {} => \/ cleaning
                    \/ /\ \A s \in Sectors : s # Cur => flash[s].store = "FULL"
                       /\ \A log \in Gone, rest \in Written \ Gone : log.id < rest.id]_vars
=============================================================================
