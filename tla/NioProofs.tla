------------------------------ MODULE NioProofs ------------------------------
(***************************************************************************)
(* Proofs about Nio, for any threads, buffers, connections and timers,     *)
(* under the one assumption that no io_write of another thread overlaps    *)
(* the end of its connection (Overlap is FALSE): the stream is intact,     *)
(* what is queued is watched, close_cb comes once, and a single close      *)
(* waits for the queue.                                                    *)
(*                                                                         *)
(* The invariant says how the flags of the io_t go together with epoll     *)
(* (EpollInv), with the thread that closes it (LifeInv), with what users   *)
(* asked for (CloseInv) and with the data (StreamInv).                     *)
(***************************************************************************)
EXTENDS Nio, SequenceTheorems, TLAPS

USE DEF kernel, loopVars, threadVars, data, closing

Pieces == Messages \X {1, 2}

\* epoll watches what the io waits for, only a ready io waits for anything, and it
\* waits for the write event while something is queued.
EpollInv == /\ watched = io.events
            /\ WriteWatched
            /\ io.events # {} => io.active
            /\ io.active => io.ready

\* Nothing has happened yet to a descriptor before its first connection.
Untouched == /\ phase = "poll" /\ ~pending
             /\ \A n \in 1..MaxTimers : live[n] = 0
             /\ posted = <<>>
             /\ \A t \in Threads : pc[t] = "idle"

\* A ready io has an open descriptor and no close_cb yet, a closed one has no queue
\* once io_done is through; threads and the loop write to ready ones only.
LifeInv == /\ io.ready => ~io.closed /\ fdOpen /\ closeCbs = 0 /\ io.id >= 1
           /\ io.closed => io.id >= 1
           /\ ~io.ready /\ phase # "done" => queue = <<>>
           /\ ~io.ready /\ ~io.closed => Untouched
           /\ \A t \in Threads : pc[t] = "write" => io.ready
           /\ phase \in {"connect", "nio_write", "drained"} => io.ready
           /\ phase \in {"done", "closecb"} => io.closed /\ closeCbs = 0
           /\ closeCbs <= 1

\* A close that waits for the queue was asked for, and the next one is the second.
CloseInv == /\ io.ready => /\ io.close => asked >= 1 \/ io.error
                           /\ phase = "close" => asked >= 1 \/ io.error
                           /\ phase = "close" /\ io.close => asked = 2 \/ io.error
            /\ phase \in {"done", "closecb"} => wire = accepted \/ asked = 2 \/ io.error

StreamInv == /\ IsPrefix(wire, accepted)
             /\ io.ready => accepted = wire \o queue

IInv == TypeOK /\ EpollInv /\ LifeInv /\ CloseInv /\ StreamInv

-----------------------------------------------------------------------------
(* Pieces of buffers.                                                      *)

\* A sequence cut in two.
LEMMA CutInTwo ==
  ASSUME NEW S, NEW s \in Seq(S), NEW k \in 0..Len(s)
  PROVE  /\ SubSeq(s, 1, k) \in Seq(S) /\ SubSeq(s, k + 1, Len(s)) \in Seq(S)
         /\ SubSeq(s, 1, k) \o SubSeq(s, k + 1, Len(s)) = s
<1>1. Len(s) \in Nat /\ k \in Nat /\ k <= Len(s)
  OBVIOUS
<1>2. SubSeq(s, 1, k) \in Seq(S) /\ SubSeq(s, k + 1, Len(s)) \in Seq(S)
  BY <1>1
<1>3. 1 \in 1..Len(s)+1 /\ k \in 1-1..Len(s) /\ Len(s) \in k..Len(s)
  BY <1>1
<1>4. SubSeq(s, 1, k) \o SubSeq(s, k + 1, Len(s)) = SubSeq(s, 1, Len(s))
  BY <1>3, ConcatAdjacentSubSeq
<1> QED BY <1>2, <1>4, SubSeqFull

\* What is sent of a sequence is a prefix of it.
LEMMA PrefixOf ==
  ASSUME NEW S, NEW s \in Seq(S), NEW t \in Seq(S)
  PROVE  IsPrefix(s, s \o t)
<1>1. Len(s) \in Nat /\ Len(t) \in Nat /\ Len(s \o t) = Len(s) + Len(t)
  OBVIOUS
<1>2. SubSeq(s, 1, Len(s)) = SubSeq(s \o t, 1, Len(s))
  <2>1. CASE Len(s) = 0
    BY <2>1, SubSeqEmpty
  <2>2. CASE Len(s) # 0
    <3>1. 1 \in 1..Len(s) /\ Len(s) \in 1..Len(s)
      BY <1>1, <2>2
    <3> QED BY <3>1, SubSeqOfConcat1
  <2> QED BY <2>1, <2>2
<1> QED BY <1>1, <1>2 DEF IsPrefix

\* What follows w in two parts.
LEMMA Glue ==
  ASSUME NEW w \in Seq(Pieces), NEW a \in Seq(Pieces), NEW b \in Seq(Pieces)
  PROVE  /\ w \o a \in Seq(Pieces) /\ (w \o a) \o b = w \o (a \o b)
         /\ IsPrefix(w \o a, w \o (a \o b))
<1>1. (w \o a) \o b = w \o (a \o b)
  BY ConcatAssociative
<1>2. w \o a \in Seq(Pieces)
  OBVIOUS
<1>3. IsPrefix(w \o a, (w \o a) \o b)
  BY <1>2, PrefixOf
<1> QED BY <1>1, <1>2, <1>3

\* Nothing is lost when a sequence is sent in part and the rest is queued.
LEMMA SendPart ==
  ASSUME NEW w \in Seq(Pieces), NEW s \in Seq(Pieces), NEW k \in 0..Len(s)
  PROVE  /\ w \o SubSeq(s, 1, k) \in Seq(Pieces) /\ SubSeq(s, k + 1, Len(s)) \in Seq(Pieces)
         /\ (w \o SubSeq(s, 1, k)) \o SubSeq(s, k + 1, Len(s)) = w \o s
         /\ IsPrefix(w \o SubSeq(s, 1, k), w \o s)
<1> DEFINE a == SubSeq(s, 1, k)
           b == SubSeq(s, k + 1, Len(s))
<1>1. a \in Seq(Pieces) /\ b \in Seq(Pieces) /\ a \o b = s
  BY CutInTwo
<1>2. /\ w \o a \in Seq(Pieces) /\ (w \o a) \o b = w \o (a \o b)
      /\ IsPrefix(w \o a, w \o (a \o b))
  <2> HIDE DEF a, b
  <2> QED BY <1>1, Glue
<1> QED BY <1>1, <1>2

\* The two halves of a buffer
LEMMA HalvesType == ASSUME NEW m \in Messages
                    PROVE  Halves(m) \in Seq(Pieces) /\ Len(Halves(m)) = 2
BY DEF Halves, Pieces

-----------------------------------------------------------------------------
(* io_write and io_add of a ready io.                                      *)

\* io_add of a ready io sets active and the events, and epoll follows.
LEMMA AddReady ==
  ASSUME TypeOK, EpollInv, io.ready, NEW evs \in SUBSET {"R", "W"}, evs # {}
  PROVE  /\ Add(io, evs) = [io EXCEPT !.active = TRUE, !.events = @ \union evs]
         /\ Watch(io, evs) = io.events \union evs
BY DEF Add, Get, Watch, TypeOK, EpollInv

\* The values of an io_t, and updates that stay within them.
IoValues == [ready : BOOLEAN, closed : BOOLEAN, close : BOOLEAN, error : BOOLEAN,
             connect : BOOLEAN, active : BOOLEAN, id : 0..MaxConns,
             events : SUBSET {"R", "W"}, closeTimer : 0..MaxTimers]

LEMMA IoUpdates ==
  ASSUME TypeOK
  PROVE  /\ \A e \in BOOLEAN : [io EXCEPT !.error = @ \/ e] \in IoValues
         /\ \A evs \in SUBSET {"R", "W"} :
               /\ [io EXCEPT !.active = TRUE, !.events = @ \union evs] \in IoValues
               /\ \A c \in BOOLEAN : [io EXCEPT !.events = @ \ evs, !.connect = c] \in IoValues
         /\ \A n \in 1..MaxTimers : [io EXCEPT !.close = TRUE, !.closeTimer = n] \in IoValues
         /\ [io EXCEPT !.closeTimer = 0] \in IoValues
<1>1. /\ io \in IoValues
  BY DEF TypeOK, IoValues
<1>2. ASSUME NEW e \in BOOLEAN
      PROVE  [io EXCEPT !.error = @ \/ e] \in IoValues
  <2>1. (io.error \/ e) \in BOOLEAN
    OBVIOUS
  <2> DEFINE x == io.error \/ e
  <2>2. [io EXCEPT !.error = x] \in IoValues
    <3> HIDE DEF x
    <3>1. x \in BOOLEAN
      BY <2>1 DEF x
    <3> QED BY <1>1, <3>1 DEF IoValues
  <2> QED BY <2>2
<1>3. ASSUME NEW evs \in SUBSET {"R", "W"}
      PROVE  [io EXCEPT !.active = TRUE, !.events = @ \union evs] \in IoValues
  BY <1>1 DEF IoValues
<1>4. ASSUME NEW evs \in SUBSET {"R", "W"}, NEW c \in BOOLEAN
      PROVE  [io EXCEPT !.events = @ \ evs, !.connect = c] \in IoValues
  BY <1>1 DEF IoValues
<1>5. ASSUME NEW n \in 0..MaxTimers
      PROVE  /\ [io EXCEPT !.close = TRUE, !.closeTimer = n] \in IoValues
             /\ [io EXCEPT !.closeTimer = n] \in IoValues
  BY <1>1 DEF IoValues
<1>6. 0 \in 0..MaxTimers /\ 1..MaxTimers \subseteq 0..MaxTimers
  BY NioAssumption
<1> QED BY <1>2, <1>3, <1>4, <1>5, <1>6

\* What io_write does under write_mutex when the kernel does not refuse.
LEMMA WriteReady ==
  ASSUME IInv, io.ready, NEW m \in Messages, WriteTry(m) \/ WriteBehind(m)
  PROVE  /\ queue' \in Seq(Pieces) /\ wire' \in Seq(Pieces) /\ accepted' \in Seq(Pieces)
         /\ StreamInv' /\ WriteWatched'
         /\ \/ io' = io /\ watched' = watched
            \/ /\ io' = [io EXCEPT !.active = TRUE, !.events = @ \union {"W"}]
               /\ watched' = io.events \union {"W"}
<1> DEFINE H == Halves(m)
<1>1. H \in Seq(Pieces) /\ Len(H) = 2
  BY HalvesType
<1>2. /\ queue \in Seq(Pieces) /\ wire \in Seq(Pieces) /\ accepted \in Seq(Pieces)
      /\ accepted = wire \o queue
  BY DEF IInv, TypeOK, StreamInv, Pieces
<1>3. accepted' = accepted \o H
  BY DEF WriteTry, WriteBehind, Accept
<1>4. \/ io' = io /\ watched' = watched
      \/ /\ io' = [io EXCEPT !.active = TRUE, !.events = @ \union {"W"}]
         /\ watched' = io.events \union {"W"}
  <2>1. Add(io, {"W"}) = [io EXCEPT !.active = TRUE, !.events = @ \union {"W"}]
        /\ Watch(io, {"W"}) = io.events \union {"W"}
    BY AddReady DEF IInv
  <2> QED BY <2>1 DEF WriteTry, WriteBehind
<1>5. io'.ready
  BY <1>4 DEF IInv, TypeOK
<1>8. WriteWatched'
  <2>1. CASE WriteBehind(m)
    BY <1>2, <2>1 DEF WriteBehind, WriteWatched, IInv, EpollInv
  <2>2. CASE WriteTry(m)
    <3>1. PICK k \in 0..2 : /\ queue' = IF k = 2 THEN SubSeq(H, 3, 2) ELSE SubSeq(H, k + 1, 2)
                            /\ k # 2 => watched' = Watch(io, {"W"})
      BY <2>2 DEF WriteTry
    <3>2. k = 2 => queue' = <<>>
      BY <3>1, SubSeqEmpty
    <3>3. Watch(io, {"W"}) = io.events \union {"W"}
      BY AddReady DEF IInv
    <3> QED BY <3>1, <3>2, <3>3 DEF WriteWatched
  <2> QED BY <2>1, <2>2
<1>6. CASE WriteTry(m)
  <2>1. PICK k \in 0..2 : /\ wire' = wire \o SubSeq(H, 1, k)
                          /\ queue' = SubSeq(H, k + 1, 2)
    BY <1>6 DEF WriteTry
  <2>2. queue = <<>> /\ accepted = wire
    BY <1>2, <1>6, ConcatEmptySeq DEF WriteTry
  <2> HIDE DEF H
  <2>3. /\ wire' \in Seq(Pieces) /\ queue' \in Seq(Pieces)
        /\ wire' \o queue' = wire \o H /\ IsPrefix(wire', wire \o H)
    <3>1. k \in 0..Len(H) /\ queue' = SubSeq(H, k + 1, Len(H))
      BY <1>1, <2>1
    <3>2. H \in Seq(Pieces) /\ wire \in Seq(Pieces)
      BY <1>1, <1>2
    <3>3. /\ wire \o SubSeq(H, 1, k) \in Seq(Pieces) /\ SubSeq(H, k + 1, Len(H)) \in Seq(Pieces)
          /\ (wire \o SubSeq(H, 1, k)) \o SubSeq(H, k + 1, Len(H)) = wire \o H
          /\ IsPrefix(wire \o SubSeq(H, 1, k), wire \o H)
      BY <3>1, <3>2, SendPart
    <3> QED BY <2>1, <3>1, <3>3
  <2>4. accepted' = wire' \o queue' /\ accepted' \in Seq(Pieces)
    BY <1>1, <1>2, <1>3, <2>2, <2>3
  <2> QED BY <1>4, <1>3, <1>8, <2>2, <2>3, <2>4 DEF StreamInv
<1>7. CASE WriteBehind(m)
  <2>1. queue' = queue \o H /\ wire' = wire
    BY <1>7 DEF WriteBehind
  <2> HIDE DEF H
  <2>2. queue' \in Seq(Pieces) /\ accepted' \in Seq(Pieces)
    BY <1>1, <1>2, <1>3, <2>1
  <2>3. accepted' = wire' \o queue'
    BY <1>1, <1>2, <1>3, <2>1, ConcatAssociative
  <2>4. IsPrefix(wire', accepted')
    BY <1>2, <2>1, <2>2, <2>3, PrefixOf
  <2> QED BY <1>2, <1>4, <1>8, <2>1, <2>2, <2>3, <2>4 DEF StreamInv
<1> QED BY <1>6, <1>7, <1>8

-----------------------------------------------------------------------------
(* Every step preserves the invariant.                                     *)

\* The steps that leave the io_t, epoll and the data alone.
LEMMA QuietStep ==
  ASSUME IInv,
         \/ Poll \/ Handle \/ ReadCbReturn \/ PostedClose \/ CloseAgain \/ LoopClose
         \/ \E t \in Threads : ThreadClose(t) \/ \E m \in Messages : ThreadTest(t, m)
         \/ UNCHANGED vars
  PROVE  IInv'
<1>1. UNCHANGED <<io, kernel, data, live, closeCbs>>
  BY DEF Poll, Handle, ReadCbReturn, PostedClose, CloseAgain, LoopClose, ThreadClose,
         ThreadTest, CallClose, Goto, vars
<1>2. EpollInv' /\ StreamInv'
  BY <1>1 DEF IInv, EpollInv, WriteWatched, StreamInv
<1> USE NioAssumption DEF IInv, TypeOK, LifeInv, CloseInv, Untouched, UserPhases, Conns
<1>3. CASE Poll
  <2> HIDE DEF Conns, LifeInv, CloseInv
  <2>1. /\ revents' \subseteq {"R", "W"} /\ pending' \in BOOLEAN
        /\ phase' = phase /\ ret' = ret /\ watched # {}
        /\ UNCHANGED <<posted, asked, threadVars>>
    BY <1>3 DEF Poll
  <2>2. io.ready
    BY <2>1 DEF EpollInv
  <2>3. TypeOK'
    <3> HIDE DEF TypeOK
    <3> QED BY <1>1, <2>1 DEF TypeOK
  <2>4. LifeInv'
    BY <1>1, <2>1, <2>2 DEF LifeInv
  <2>5. CloseInv'
    BY <1>1, <2>1 DEF CloseInv
  <2> QED BY <1>2, <2>3, <2>4, <2>5
<1>4. CASE Handle
  <2> HIDE DEF Conns, LifeInv, CloseInv
  <2>1. /\ pending /\ pending' \in BOOLEAN /\ phase' \in {"poll", "read", "write"}
        /\ ret' = ret /\ revents' = revents
        /\ UNCHANGED <<posted, asked, threadVars>>
    BY <1>4 DEF Handle
  <2>2. phase = "poll"
    BY <1>4 DEF Handle
  <2>3. io.ready \/ io.closed
    BY <2>1 DEF LifeInv
  <2>4. TypeOK'
    <3> HIDE DEF TypeOK
    <3> QED BY <1>1, <2>1 DEF TypeOK
  <2>5. LifeInv'
    BY <1>1, <2>1, <2>2, <2>3 DEF LifeInv
  <2>6. CloseInv'
    BY <1>1, <2>1 DEF CloseInv
  <2> QED BY <1>2, <2>4, <2>5, <2>6
<1>5. CASE ReadCbReturn
  <2> HIDE DEF Conns, LifeInv, CloseInv
  <2>1. /\ phase = "readcb" /\ phase' \in {"read", "write"}
        /\ ret' = ret /\ revents' = revents /\ pending' = pending
        /\ UNCHANGED <<posted, asked, threadVars>>
    BY <1>5 DEF ReadCbReturn, Goto
  <2>2. io.ready \/ io.closed
    BY <2>1 DEF LifeInv
  <2>3. TypeOK'
    <3> HIDE DEF TypeOK
    <3> QED BY <1>1, <2>1 DEF TypeOK
  <2>4. LifeInv'
    BY <1>1, <2>1, <2>2 DEF LifeInv
  <2>5. CloseInv'
    BY <1>1, <2>1 DEF CloseInv
  <2> QED BY <1>2, <2>3, <2>4, <2>5
<1>6. CASE PostedClose
  <2> HIDE DEF Conns, LifeInv, CloseInv
  <2>1. posted \in Seq(Conns) /\ posted # <<>> /\ posted' = Tail(posted)
    BY <1>6 DEF PostedClose
  <2>2. posted' \in Seq(Conns)
    BY ONLY <2>1
  <2>3. io.ready \/ io.closed
    BY <2>1 DEF LifeInv
  <2>4. /\ asked' \in 0..2 /\ asked' >= asked
        /\ phase' # phase => asked' >= 1 /\ (asked >= 1 => asked' = 2)
    BY <1>6, SMTT(40) DEF PostedClose
  <2>5. /\ UNCHANGED <<revents, pending, threadVars>>
        /\ phase = "poll" /\ phase' \in {"poll", "close"} /\ ret' \in {"poll", ret}
    BY <1>6 DEF PostedClose
  <2>6. TypeOK'
    BY <1>1, <2>2, <2>4, <2>5
  <2>7. LifeInv'
    BY <1>1, <2>3, <2>5 DEF LifeInv
  <2>8. CloseInv'
    BY <1>1, <2>4, <2>5 DEF CloseInv
  <2> QED BY <1>2, <2>6, <2>7, <2>8
<1>7. CASE CloseAgain
  BY <1>1, <1>2, <1>7 DEF CloseAgain, Goto
<1>8. CASE LoopClose
  <2>1. /\ asked' \in 1..2 /\ (asked >= 1 => asked' = 2)
        /\ phase' = "close" /\ ret' = phase /\ phase \in UserPhases /\ io.ready
        /\ UNCHANGED <<revents, pending, posted, threadVars>>
    BY <1>8 DEF LoopClose, CallClose
  <2> QED BY <1>1, <1>2, <2>1
<1>9. ASSUME NEW t \in Threads, ThreadClose(t)
      PROVE  IInv'
  <2>1. io.ready \/ io.closed
    BY <1>9 DEF ThreadClose
  <2>2. io.id \in Conns
    BY <2>1
  <2> HIDE DEF Conns, LifeInv, CloseInv
  <2>3. posted \in Seq(Conns) /\ (posted' = posted \/ posted' = Append(posted, io.id))
    BY <1>9 DEF ThreadClose
  <2>4. posted' \in Seq(Conns)
    BY ONLY <2>2, <2>3
  <2>5. UNCHANGED <<loopVars, asked>> /\ pc' = [pc EXCEPT ![t] = "idle"]
    BY <1>9 DEF ThreadClose
  <2>6. TypeOK'
    BY <1>1, <2>4, <2>5
  <2>7. LifeInv' /\ CloseInv'
    BY <1>1, <2>1, <2>5 DEF LifeInv, CloseInv
  <2> QED BY <1>2, <2>6, <2>7
<1>10. ASSUME NEW t \in Threads, NEW m \in Messages, ThreadTest(t, m)
       PROVE  IInv'
  <2>1. /\ io.ready /\ pc' = [pc EXCEPT ![t] = "write"]
        /\ UNCHANGED <<loopVars, posted, asked>>
    BY <1>10 DEF ThreadTest
  <2> QED BY <1>1, <1>2, <2>1
<1>11. CASE UNCHANGED vars
  BY <1>1, <1>2, <1>11, SMTT(40) DEF vars
<1> QED BY <1>3, <1>4, <1>5, <1>6, <1>7, <1>8, <1>9, <1>10, <1>11

\* io_write, from the loop and from other threads.
LEMMA WriteStep ==
  ASSUME IInv,
         \E m \in Messages : LoopWrite(m) \/ \E t \in Threads : ThreadWrite(t, m)
  PROVE  IInv'
<1> USE NioAssumption DEF IInv, TypeOK, EpollInv, WriteWatched, LifeInv, CloseInv, Untouched,
        UserPhases, Conns, Pieces
<1>1. PICK m \in Messages : LoopWrite(m) \/ \E t \in Threads : ThreadWrite(t, m)
  OBVIOUS
<1>2. io.ready
  BY <1>1 DEF LoopWrite, ThreadWrite
<1>3. ASSUME WriteTry(m) \/ WriteBehind(m), UNCHANGED <<fdOpen, loopVars, closing>>,
             \/ UNCHANGED pc
             \/ \E t \in Threads : pc' = [pc EXCEPT ![t] = "idle"]
      PROVE  IInv'
  <2>1. /\ queue' \in Seq(Pieces) /\ wire' \in Seq(Pieces) /\ accepted' \in Seq(Pieces)
        /\ StreamInv' /\ WriteWatched'
        /\ \/ io' = io /\ watched' = watched
           \/ /\ io' = [io EXCEPT !.active = TRUE, !.events = @ \union {"W"}]
              /\ watched' = io.events \union {"W"}
    BY <1>2, <1>3, WriteReady
  <2> HIDE DEF EpollInv, LifeInv, CloseInv
  <2>2. pc' \in [Threads -> {"idle", "write", "close"}]
    BY <1>3
  <2>3. TypeOK'
    <3>1. io \in IoValues /\ watched \in SUBSET {"R", "W"} /\ io.events \in SUBSET {"R", "W"}
      BY DEF IoValues
    <3>2. [io EXCEPT !.active = TRUE, !.events = @ \union {"W"}] \in IoValues
      BY IoUpdates
    <3>3. io' \in IoValues /\ watched' \in SUBSET {"R", "W"}
      BY <2>1, <3>1, <3>2
    <3>4. /\ \A s \in {queue', accepted', wire'} : s \in Seq(Messages \X {1, 2})
          /\ UNCHANGED <<fdOpen, loopVars, closing>>
      BY <1>3, <2>1
    <3> QED BY <2>2, <3>3, <3>4 DEF IoValues
  <2>4. EpollInv'
    BY <1>2, <2>1 DEF EpollInv
  <2>5. LifeInv'
    BY <1>2, <1>3, <2>1 DEF LifeInv
  <2>6. CloseInv'
    BY <1>2, <1>3, <2>1 DEF CloseInv, LifeInv
  <2> QED BY <2>1, <2>3, <2>4, <2>5, <2>6
<1>4. ASSUME WriteRefused, UNCHANGED fdOpen,
             \/ phase \in UserPhases /\ CallClose(phase) /\ UNCHANGED pc
             \/ /\ UNCHANGED <<loopVars, closing>>
                /\ \E t \in Threads : pc' = [pc EXCEPT ![t] = "close"]
      PROVE  IInv'
  <2>1. PICK e \in BOOLEAN : io' = [io EXCEPT !.error = @ \/ e]
    BY <1>4 DEF WriteRefused
  <2>2. UNCHANGED <<watched, data>>
    BY <1>4 DEF WriteRefused
  <2>3. CASE phase \in UserPhases /\ CallClose(phase) /\ UNCHANGED pc
    <3> HIDE DEF EpollInv, LifeInv, CloseInv
    <3>1. /\ asked' \in 1..2 /\ (asked >= 1 => asked' = 2)
          /\ phase' = "close" /\ ret' = phase
          /\ UNCHANGED <<revents, pending, live, posted, closeCbs>>
      BY <2>3 DEF CallClose
    <3>2. TypeOK'
      <4>1. io' \in IoValues
        BY <2>1, IoUpdates
      <4> QED BY <1>4, <2>2, <2>3, <3>1, <4>1 DEF IoValues
    <3>3. EpollInv' /\ StreamInv'
      BY <2>1, <2>2 DEF EpollInv, StreamInv
    <3>4. LifeInv'
      BY <1>2, <1>4, <2>1, <2>2, <2>3, <3>1 DEF LifeInv
    <3>5. CloseInv'
      BY <1>2, <2>1, <3>1 DEF CloseInv
    <3> QED BY <3>2, <3>3, <3>4, <3>5
  <2>4. CASE /\ UNCHANGED <<loopVars, closing>>
             /\ \E t \in Threads : pc' = [pc EXCEPT ![t] = "close"]
    <3>1. TypeOK'
      <4>1. io' \in IoValues
        BY <2>1, IoUpdates
      <4> QED BY <1>4, <2>2, <2>4, <4>1, ZenonT(60) DEF IoValues
    <3> HIDE DEF EpollInv, LifeInv, CloseInv
    <3>2. EpollInv' /\ StreamInv'
      BY <2>1, <2>2 DEF EpollInv, StreamInv
    <3>3. LifeInv' /\ CloseInv'
      BY <1>2, <1>4, <2>1, <2>2, <2>4 DEF LifeInv, CloseInv
    <3> QED BY <3>1, <3>2, <3>3
  <2> QED BY <1>4, <2>3, <2>4
<1>5. CASE LoopWrite(m)
  BY <1>3, <1>4, <1>5 DEF LoopWrite
<1>6. CASE \E t \in Threads : ThreadWrite(t, m)
  BY <1>3, <1>4, <1>6 DEF ThreadWrite
<1> QED BY <1>1, <1>5, <1>6

\* The first half of a round: reading, the write event, connecting, and the timers
\* that end a connection.
LEMMA ErrorStep ==
  ASSUME IInv, Read \/ Timeout \/ \E n \in 1..MaxTimers : CloseTimeout(n)
  PROVE  IInv'
<1> USE NioAssumption DEF IInv, TypeOK, UserPhases, WriteWatched
<1>1. ASSUME Goto("write") \/ Goto("readcb"), phase = "read",
             UNCHANGED <<io, kernel, threadVars, data, closing>>
      PROVE  IInv'
  <2>1. phase' \in {"write", "readcb"} /\ UNCHANGED <<ret, revents, pending>>
    BY <1>1 DEF Goto
  <2>2. TypeOK'
    BY <1>1, <2>1
  <2>3. EpollInv' /\ StreamInv'
    BY <1>1 DEF EpollInv, StreamInv
  <2>4. LifeInv'
    BY <1>1, <2>1 DEF LifeInv, Untouched
  <2>5. CloseInv'
    BY <1>1, <2>1 DEF CloseInv
  <2> QED BY <2>2, <2>3, <2>4, <2>5
<1>2. ASSUME NEW e \in BOOLEAN, NEW r \in {"poll", "write"},
             io' = [io EXCEPT !.error = @ \/ e], CallClose(r), io.ready \/ io.closed,
             UNCHANGED <<kernel, threadVars, data>>,
             phase \in {"poll", "read"}
      PROVE  IInv'
  <2>1. /\ asked' \in 1..2 /\ (asked >= 1 => asked' = 2)
        /\ phase' = "close" /\ ret' = r
        /\ UNCHANGED <<revents, pending, live, posted, closeCbs>>
    BY <1>2 DEF CallClose
  <2>2. TypeOK'
    <3>1. io' \in IoValues
      BY <1>2, IoUpdates
    <3>2. UNCHANGED <<kernel, threadVars, data>> /\ ret' \in {"poll", "write"}
      BY <1>2, <2>1
    <3> QED BY <2>1, <3>1, <3>2, SMTT(40) DEF IoValues
  <2>3. EpollInv' /\ StreamInv'
    BY <1>2 DEF EpollInv, StreamInv
  <2>4. LifeInv'
    BY <1>2, <2>1 DEF LifeInv
  <2>5. CloseInv'
    BY <1>2, <2>1 DEF CloseInv
  <2> QED BY <2>2, <2>3, <2>4, <2>5
<1>3. CASE Read
  <2>1. phase = "read" /\ UNCHANGED <<kernel, threadVars, data>> /\ (io.ready \/ io.closed)
    BY <1>3 DEF Read, LifeInv, Untouched
  <2>2. \/ (Goto("write") \/ Goto("readcb")) /\ UNCHANGED <<io, closing>>
        \/ (\E e \in BOOLEAN : io' = [io EXCEPT !.error = @ \/ e]) /\ CallClose("write")
    BY <1>3 DEF Read
  <2> QED BY <1>1, <1>2, <2>1, <2>2
<1>4. CASE Timeout
  <2>1. TRUE \in BOOLEAN /\ io' = [io EXCEPT !.error = @ \/ TRUE]
    BY <1>4 DEF Timeout
  <2> QED BY <1>2, <1>4, <2>1 DEF Timeout
<1>5. ASSUME NEW n \in 1..MaxTimers, CloseTimeout(n)
      PROVE  IInv'
  <2>1. TRUE \in BOOLEAN /\ io' = [io EXCEPT !.error = @ \/ TRUE]
    BY <1>5 DEF CloseTimeout
  <2>2. /\ phase = "poll" /\ phase' = "close" /\ ret' = "poll" /\ live[n] # 0
        /\ live' = [live EXCEPT ![n] = 0]
        /\ UNCHANGED <<kernel, revents, pending, threadVars, data, posted, asked, closeCbs>>
    BY <1>5 DEF CloseTimeout
  <2>3. io.ready \/ io.closed
    BY <2>2 DEF LifeInv, Untouched
  <2>4. TypeOK'
    <3>1. io' \in IoValues
      BY <2>1, IoUpdates
    <3>2. live' \in [1..MaxTimers -> 0..MaxConns]
      BY <2>2
    <3> QED BY <2>2, <3>1, <3>2 DEF IoValues
  <2>5. EpollInv' /\ StreamInv'
    BY <2>1, <2>2 DEF EpollInv, StreamInv
  <2>6. LifeInv'
    BY <2>1, <2>2, <2>3 DEF LifeInv
  <2>7. CloseInv'
    BY <2>1, <2>2 DEF CloseInv
  <2> QED BY <2>4, <2>5, <2>6, <2>7
<1> QED BY <1>3, <1>4, <1>5

\* The write event, connecting and writing.
LEMMA SendStep ==
  ASSUME IInv, HandleWrite \/ Connect \/ NioWrite
  PROVE  IInv'
<1> USE NioAssumption DEF IInv, TypeOK, UserPhases, WriteWatched
<1>1. CASE HandleWrite
  <2>1. phase = "write" /\ revents' = {} /\ (io.ready \/ io.closed)
        /\ UNCHANGED <<fdOpen, ret, pending, threadVars, data, closing>>
    BY <1>1 DEF HandleWrite, LifeInv, Untouched
  <2>2. CASE "W" \in io.events \intersect revents
    <3>1. io.ready
      BY <2>2 DEF EpollInv
    <3>2. phase' \in {"connect", "nio_write"}
      BY <1>1, <2>2 DEF HandleWrite
    <3>3. \/ /\ io' = [io EXCEPT !.events = @ \ {"W"}, !.connect = FALSE]
             /\ watched' = watched \ {"W"} /\ queue = <<>>
          \/ io' = [io EXCEPT !.connect = FALSE] /\ UNCHANGED watched
      BY <1>1, <2>2 DEF HandleWrite
    <3>4. TypeOK'
      <4>1. ASSUME io' = [io EXCEPT !.events = @ \ {"W"}, !.connect = FALSE]
            PROVE  io' \in IoValues
        BY <4>1, IoUpdates
      <4>2. ASSUME io' = [io EXCEPT !.connect = FALSE]
            PROVE  io' \in IoValues
        BY <4>2 DEF IoValues
      <4>3. io' \in IoValues /\ watched' \in SUBSET {"R", "W"}
        BY <3>3, <4>1, <4>2
      <4> QED BY <2>1, <3>2, <4>3 DEF IoValues
    <3>5. EpollInv' /\ StreamInv'
      <4>1. StreamInv'
        BY <2>1, <3>3 DEF StreamInv
      <4>2. CASE /\ io' = [io EXCEPT !.events = @ \ {"W"}, !.connect = FALSE]
                 /\ watched' = watched \ {"W"} /\ queue = <<>>
        <5>1. io'.events = io.events \ {"W"} /\ io'.active = io.active /\ io'.ready = io.ready
          BY <4>2
        <5> QED BY <2>1, <4>1, <4>2, <5>1 DEF EpollInv
      <4>3. CASE io' = [io EXCEPT !.connect = FALSE] /\ UNCHANGED watched
        <5>1. io'.events = io.events /\ io'.active = io.active /\ io'.ready = io.ready
          BY <4>3
        <5> QED BY <2>1, <4>1, <4>3, <5>1 DEF EpollInv
      <4> QED BY <3>3, <4>2, <4>3
    <3>6. LifeInv'
      BY <2>1, <3>1, <3>2, <3>3, ZenonT(60) DEF LifeInv
    <3>7. CloseInv'
      BY <2>1, <3>2, <3>3, ZenonT(60) DEF CloseInv
    <3> QED BY <3>4, <3>5, <3>6, <3>7
  <2>3. CASE "W" \notin io.events \intersect revents
    <3>1. phase' = "poll" /\ UNCHANGED <<io, watched>>
      BY <1>1, <2>3 DEF HandleWrite
    <3> QED BY <2>1, <3>1, SMTT(40) DEF EpollInv, LifeInv, CloseInv, StreamInv
  <2> QED BY <2>2, <2>3
<1>2. CASE Connect
  <2>1. phase = "connect" /\ io.ready /\ UNCHANGED <<fdOpen, threadVars, data>>
    BY <1>2 DEF Connect, LifeInv
  <2>2. CASE Goto("poll") /\ io' = Add(io, {"R"}) /\ watched' = Watch(io, {"R"}) /\ UNCHANGED closing
    <3>1. io' = [io EXCEPT !.active = TRUE, !.events = @ \union {"R"}]
          /\ watched' = io.events \union {"R"}
      BY <2>1, <2>2, AddReady
    <3>2. TypeOK'
      <4>1. io' \in IoValues
        BY <3>1 DEF IoValues
      <4> QED BY <2>1, <2>2, <3>1, <4>1 DEF IoValues, Goto
    <3>3. EpollInv' /\ StreamInv'
      BY <2>1, <3>1 DEF EpollInv, StreamInv
    <3>4. LifeInv'
      BY <2>1, <2>2, <3>1 DEF LifeInv, Goto
    <3>5. CloseInv'
      BY <2>1, <2>2, <3>1 DEF CloseInv, Goto
    <3> QED BY <3>2, <3>3, <3>4, <3>5
  <2>3. CASE io' = [io EXCEPT !.error = TRUE] /\ CallClose("poll") /\ UNCHANGED watched
    <3>1. /\ asked' \in 1..2 /\ (asked >= 1 => asked' = 2)
          /\ phase' = "close" /\ ret' = "poll"
          /\ UNCHANGED <<revents, pending, live, posted, closeCbs>>
      BY <2>3 DEF CallClose
    <3>2. TypeOK'
      <4>1. io' \in IoValues /\ UNCHANGED watched
        BY <2>3 DEF IoValues
      <4> QED BY <2>1, <3>1, <4>1 DEF IoValues
    <3>3. EpollInv' /\ StreamInv'
      BY <2>1, <2>3 DEF EpollInv, StreamInv
    <3>4. LifeInv'
      BY <2>1, <2>3, <3>1 DEF LifeInv
    <3>5. CloseInv'
      BY <2>3, <3>1 DEF CloseInv
    <3> QED BY <3>2, <3>3, <3>4, <3>5
  <2> QED BY <1>2, <2>2, <2>3 DEF Connect
<1>3. CASE NioWrite
  <2>1. phase = "nio_write" /\ io.ready /\ UNCHANGED <<kernel, threadVars, accepted>>
    BY <1>3 DEF NioWrite, LifeInv
  <2>2. PICK k \in 0..Len(queue) : /\ wire' = wire \o SubSeq(queue, 1, k)
                                   /\ queue' = SubSeq(queue, k + 1, Len(queue))
    BY <1>3 DEF NioWrite
  <2>3. queue \in Seq(Pieces) /\ wire \in Seq(Pieces) /\ accepted = wire \o queue
    BY <2>1 DEF StreamInv, Pieces
  <2>4. /\ wire \o SubSeq(queue, 1, k) \in Seq(Pieces)
        /\ SubSeq(queue, k + 1, Len(queue)) \in Seq(Pieces)
        /\ (wire \o SubSeq(queue, 1, k)) \o SubSeq(queue, k + 1, Len(queue)) = wire \o queue
        /\ IsPrefix(wire \o SubSeq(queue, 1, k), wire \o queue)
    BY <2>3, SendPart
  <2>5. /\ wire' \in Seq(Pieces) /\ queue' \in Seq(Pieces)
        /\ accepted' = wire' \o queue' /\ IsPrefix(wire', accepted')
    BY <2>1, <2>2, <2>3, <2>4
  <2>8. queue = <<>> => queue' = <<>>
    BY <2>2
  <2>6. CASE Goto(IF queue' = <<>> THEN "drained" ELSE "poll") /\ UNCHANGED <<io, closing>>
    <3>1. phase' \in {"drained", "poll"} /\ UNCHANGED <<ret, revents, pending>>
      BY <2>6 DEF Goto
    <3>2. TypeOK'
      BY <2>1, <2>5, <2>6, <3>1, SMTT(40) DEF Pieces
    <3>3. EpollInv' /\ StreamInv' /\ CloseInv'
      BY <2>1, <2>5, <2>6, <2>8, <3>1 DEF EpollInv, StreamInv, CloseInv
    <3>4. LifeInv'
      BY <2>1, <2>6, <3>1 DEF LifeInv
    <3> QED BY <3>2, <3>3, <3>4
  <2>7. CASE (\E e \in BOOLEAN : io' = [io EXCEPT !.error = @ \/ e]) /\ CallClose("poll")
    <3>1. /\ asked' \in 1..2 /\ (asked >= 1 => asked' = 2)
          /\ phase' = "close" /\ ret' = "poll"
          /\ UNCHANGED <<revents, pending, live, posted, closeCbs>>
      BY <2>7 DEF CallClose
    <3>2. TypeOK'
      <4>1. io' \in IoValues
        BY <2>7, IoUpdates, ZenonT(60)
      <4> QED BY <2>1, <2>5, <3>1, <4>1, SMTT(40) DEF IoValues, Pieces
    <3>3. EpollInv' /\ StreamInv'
      BY <2>1, <2>5, <2>7, <2>8 DEF EpollInv, StreamInv
    <3>4. LifeInv'
      BY <2>1, <2>7, <3>1 DEF LifeInv
    <3>5. CloseInv'
      BY <2>7, <3>1 DEF CloseInv
    <3> QED BY <3>2, <3>3, <3>4, <3>5
  <2> QED BY <1>3, <2>6, <2>7 DEF NioWrite
<1> QED BY <1>1, <1>2, <1>3

\* io_close in the loop's thread, io_done, the close callback.
LEMMA CloseStep ==
  ASSUME ~Overlap, IInv, Drained \/ CloseLater \/ CloseNow \/ Done \/ CloseCb
  PROVE  IInv'
<1> USE NioAssumption DEF IInv, TypeOK, UserPhases, WriteWatched
<1>1. CASE Drained
  <2>1. phase = "drained" /\ io.ready /\ UNCHANGED <<kernel, threadVars, data, closing>>
        /\ UNCHANGED <<revents, pending>>
    BY <1>1 DEF Drained, LifeInv, Goto
  <2>2. \/ /\ io.close /\ io' = [io EXCEPT !.close = FALSE]
           /\ phase' = "close" /\ ret' = "poll"
        \/ phase' = "poll" /\ UNCHANGED <<io, ret>>
    BY <1>1 DEF Drained, Goto
  <2>3. io' \in IoValues
    <3>1. CASE io' = [io EXCEPT !.close = FALSE]
      BY <3>1 DEF IoValues
    <3>2. CASE io' = io
      BY <3>2 DEF IoValues
    <3> QED BY <2>2, <3>1, <3>2
  <2>4. TypeOK'
    <3>1. phase' \in {"close", "poll"} /\ ret' \in {"poll", ret}
      BY <2>2
    <3> QED BY <2>1, <2>3, <3>1 DEF IoValues
  <2>5. EpollInv' /\ StreamInv'
    BY <2>1, <2>2 DEF EpollInv, StreamInv
  <2>6. LifeInv'
    BY <2>1, <2>2 DEF LifeInv
  <2>7. CloseInv'
    BY <2>1, <2>2 DEF CloseInv
  <2> QED BY <2>4, <2>5, <2>6, <2>7
<1>2. CASE CloseLater
  <2>1. phase = "close" /\ ~io.closed /\ ~io.error /\ ~io.close
        /\ phase' = ret /\ UNCHANGED <<kernel, threadVars, data, posted, asked, closeCbs>>
        /\ UNCHANGED <<ret, revents, pending>>
    BY <1>2 DEF CloseLater, Goto
  <2>2. PICK n \in 1..MaxTimers : /\ live' = [live EXCEPT ![n] = io.id]
                                  /\ io' = [io EXCEPT !.close = TRUE, !.closeTimer = n]
    BY <1>2 DEF CloseLater
  <2>3. io.ready
    BY <2>1 DEF LifeInv, Untouched
  <2>4. TypeOK'
    <3>1. io' \in IoValues
      BY <2>2, IoUpdates
    <3>2. live' \in [1..MaxTimers -> 0..MaxConns]
      BY <2>2
    <3> QED BY <2>1, <3>1, <3>2 DEF IoValues
  <2>5. EpollInv' /\ StreamInv'
    BY <2>1, <2>2 DEF EpollInv, StreamInv
  <2>6. LifeInv'
    BY <2>1, <2>2, <2>3 DEF LifeInv
  <2>7. CloseInv'
    BY <2>1, <2>2, <2>3 DEF CloseInv
  <2> QED BY <2>4, <2>5, <2>6, <2>7
<1>3. CASE CloseNow
  <2>1. /\ phase = "close" /\ ~io.closed /\ (queue = <<>> \/ io.error \/ io.close)
        /\ \A t \in Threads : pc[t] # "write"
        /\ watched' = {} /\ phase' = "done"
        /\ UNCHANGED <<ret, revents, pending, fdOpen, threadVars, data, closing>>
    BY <1>3 DEF CloseNow, Goto
  <2> DEFINE i == [io EXCEPT !.closed = TRUE, !.ready = FALSE]
  <2>2. io' = Del(i, {"R", "W"})
    BY <1>3 DEF CloseNow
  <2>3. io.ready /\ io.id >= 1 /\ closeCbs = 0
    BY <2>1 DEF LifeInv, Untouched
  <2>4. io.events \ {"R", "W"} = {}
    OBVIOUS
  <2>5. /\ i \in IoValues /\ i.closed /\ ~i.ready /\ i.events = io.events
        /\ i.active = io.active /\ i.error = io.error /\ i.close = io.close /\ i.id = io.id
    BY DEF IoValues
  <2> HIDE DEF i
  <2>6. /\ io' \in IoValues /\ io'.closed /\ ~io'.ready /\ io'.events = {} /\ ~io'.active
        /\ io'.error = io.error /\ io'.id = io.id
    <3>1. CASE io.active
      <4>1. io' = [i EXCEPT !.events = {}, !.active = FALSE]
        BY <2>2, <2>4, <2>5, <3>1 DEF Del
      <4> QED BY <2>5, <4>1 DEF IoValues
    <3>2. CASE ~io.active
      BY <2>2, <2>5, <3>2 DEF Del, EpollInv
    <3> QED BY <3>1, <3>2
  <2>7. TypeOK'
    BY <2>1, <2>6 DEF IoValues
  <2>8. EpollInv' /\ StreamInv'
    BY <2>1, <2>6 DEF EpollInv, StreamInv
  <2>9. LifeInv'
    BY <2>1, <2>3, <2>6 DEF LifeInv
  <2>10. queue = <<>> => accepted = wire
    <3>1. accepted = wire \o queue /\ wire \in Seq(Pieces)
      BY <2>3 DEF StreamInv, Pieces
    <3> QED BY <3>1, ConcatEmptySeq
  <2>11. CloseInv'
    BY <2>1, <2>3, <2>6, <2>10 DEF CloseInv
  <2> QED BY <2>7, <2>8, <2>9, <2>11
<1>4. CASE Done
  <2>1. /\ phase = "done" /\ phase' = "closecb" /\ queue' = <<>>
        /\ UNCHANGED <<ret, revents, pending, io, kernel, threadVars, accepted, wire, closing>>
    BY <1>4 DEF Done, Goto
  <2>2. io.closed /\ ~io.ready
    BY <2>1 DEF LifeInv
  <2>3. TypeOK'
    BY <2>1
  <2> QED BY <2>1, <2>2, <2>3 DEF EpollInv, StreamInv, LifeInv, CloseInv
<1>5. CASE CloseCb
  <2>1. /\ phase = "closecb" /\ phase' = ret
        /\ live' = [n \in 1..MaxTimers |-> IF n = io.closeTimer THEN 0 ELSE live[n]]
        /\ io' = [io EXCEPT !.closeTimer = 0] /\ fdOpen' = FALSE /\ watched' = {}
        /\ UNCHANGED <<ret, revents, pending, threadVars, data, posted, asked>>
    BY <1>5 DEF CloseCb, Goto
  <2>2. io.closed /\ ~io.ready /\ closeCbs = 0 /\ io.events = {}
    BY <2>1 DEF LifeInv, EpollInv
  <2>3. closeCbs' = 1
    BY <1>5, <2>2 DEF CloseCb
  <2>4. TypeOK'
    <3>1. io' \in IoValues
      BY <2>1, IoUpdates
    <3>2. live' \in [1..MaxTimers -> 0..MaxConns]
      BY <2>1
    <3>3. /\ phase' = ret /\ fdOpen' = FALSE /\ watched' = {}
          /\ UNCHANGED <<ret, revents, pending, threadVars, data, posted, asked>>
      BY <2>1
    <3> QED BY <2>3, <3>1, <3>2, <3>3 DEF IoValues
  <2>5. EpollInv' /\ StreamInv'
    BY <2>1, <2>2 DEF EpollInv, StreamInv
  <2>6. LifeInv'
    BY <2>1, <2>2, <2>3 DEF LifeInv
  <2>7. CloseInv'
    BY <2>1, <2>2 DEF CloseInv
  <2> QED BY <2>4, <2>5, <2>6, <2>7
<1> QED BY <1>1, <1>2, <1>3, <1>4, <1>5

\* The next connection on the descriptor.
LEMMA OpenStep ==
  ASSUME IInv, Open
  PROVE  IInv'
<1> USE NioAssumption DEF IInv, TypeOK, UserPhases, WriteWatched
<1>1. /\ phase = "poll" /\ ~fdOpen /\ io.id < MaxConns
      /\ fdOpen' = TRUE /\ accepted' = <<>> /\ wire' = <<>> /\ asked' = 0 /\ closeCbs' = 0
      /\ revents' \in {revents, {}}
      /\ UNCHANGED <<phase, ret, pending, threadVars, queue, live, posted>>
  BY DEF Open
<1>2. ~io.ready /\ queue = <<>> /\ \A t \in Threads : pc[t] # "write"
  BY <1>1 DEF LifeInv
<1> DEFINE r == Ready(io)
<1>3. /\ r \in IoValues /\ r.ready /\ ~r.closed /\ ~r.close /\ r.id = io.id + 1 /\ r.events = {}
  <2> DEFINE d == io.id + 1
  <2>1. d \in 0..MaxConns /\ 0 \in 0..MaxTimers
    BY <1>1
  <2>2. io \in IoValues
    BY DEF IoValues
  <2>3. r = [io EXCEPT !.ready = TRUE, !.closed = FALSE, !.close = FALSE, !.error = FALSE,
                       !.connect = FALSE, !.id = d, !.events = {}, !.closeTimer = 0]
    BY DEF Ready
  <2> HIDE DEF d, r
  <2>4. /\ r \in IoValues /\ r.ready /\ ~r.closed /\ ~r.close /\ r.id = d /\ r.events = {}
    <3> HIDE DEF TypeOK, IInv, WriteWatched
    <3> QED BY ONLY <2>1, <2>2, <2>3 DEF IoValues
  <2> QED BY <2>4 DEF d
<1>4. \A evs : Add(io, evs) = [r EXCEPT !.active = TRUE, !.events = @ \union evs]
  BY <1>2 DEF Add, Get
<1> HIDE DEF r
<1>5. PICK e \in {"R", "W"} : \/ io' = Add(io, {e}) /\ watched' = {e}
                             \/ /\ io' = [Add(io, {e}) EXCEPT !.connect = TRUE]
                                /\ watched' = {e}
  BY DEF Open
<1>6. /\ io' \in IoValues /\ io'.ready /\ ~io'.closed /\ ~io'.close /\ io'.id = io.id + 1
      /\ io'.events = {e} /\ io'.active /\ watched' = {e}
  <2> DEFINE a == [r EXCEPT !.active = TRUE, !.events = @ \union {e}]
  <2>1. Add(io, {e}) = a
    BY <1>4
  <2>2. /\ a \in IoValues /\ a.ready /\ ~a.closed /\ ~a.close /\ a.id = io.id + 1
        /\ a.events = {e} /\ a.active
    BY <1>3 DEF IoValues
  <2> HIDE DEF a
  <2>3. [a EXCEPT !.connect = TRUE] \in IoValues
    BY <2>2 DEF IoValues
  <2>4. /\ [a EXCEPT !.connect = TRUE].ready /\ ~[a EXCEPT !.connect = TRUE].closed
        /\ ~[a EXCEPT !.connect = TRUE].close /\ [a EXCEPT !.connect = TRUE].id = io.id + 1
        /\ [a EXCEPT !.connect = TRUE].events = {e} /\ [a EXCEPT !.connect = TRUE].active
    BY <2>2 DEF IoValues
  <2> QED BY <1>5, <2>1, <2>2, <2>3, <2>4
<1>7. TypeOK'
  BY <1>1, <1>6, SMTT(40) DEF IoValues
<1>8. EpollInv'
  BY <1>1, <1>2, <1>6 DEF EpollInv
<1>9. StreamInv'
  <2>1. IsPrefix(<<>>, <<>>) /\ <<>> \o <<>> = <<>>
    BY DEF IsPrefix
  <2> QED BY <1>1, <1>2, <2>1 DEF StreamInv
<1>10. LifeInv'
  <2>1. io.id >= 0 /\ io.id \in Int
    OBVIOUS
  <2> QED BY <1>1, <1>2, <1>6, <2>1 DEF LifeInv
<1>11. CloseInv'
  BY <1>1, <1>6 DEF CloseInv
<1> QED BY <1>7, <1>8, <1>9, <1>10, <1>11

-----------------------------------------------------------------------------
(* The theorems: of threads whose io_write does not overlap the end of the *)
(* connection.                                                             *)

\* IInv holds in every state of the io_t (nio.cpp).
THEOREM Invariant == ASSUME ~Overlap PROVE Spec => []IInv
<1>1. Init => IInv
  <2> SUFFICES ASSUME Init
               PROVE  IInv
    OBVIOUS
  <2> USE NioAssumption DEF Init, NewIo
  <2>1. TypeOK
    <3>1. io \in IoValues
      BY DEF IoValues
    <3>2. \A s \in {queue, accepted, wire} : s \in Seq(Messages \X {1, 2})
      <4>1. queue = <<>> /\ accepted = <<>> /\ wire = <<>>
        BY DEF Init
      <4> HIDE DEF Init
      <4>2. <<>> \in Seq(Messages \X {1, 2})
        OBVIOUS
      <4> QED BY <4>1, <4>2
    <3>3. posted \in Seq(Conns)
      OBVIOUS
    <3>4. 0 \in 0..MaxConns
      OBVIOUS
    <3>5. live \in [1..MaxTimers -> 0..MaxConns]
      BY <3>4
    <3>6. /\ fdOpen \in BOOLEAN /\ watched \subseteq {"R", "W"}
          /\ revents \subseteq {"R", "W"} /\ pending \in BOOLEAN
          /\ phase = "poll" /\ ret = "poll" /\ asked \in 0..2 /\ closeCbs \in Nat
      <4>1. /\ fdOpen = FALSE /\ watched = {} /\ revents = {} /\ pending = FALSE
            /\ phase = "poll" /\ ret = "poll" /\ asked = 0 /\ closeCbs = 0
        BY DEF Init
      <4> HIDE DEF Init
      <4>2. asked \in 0..2 /\ closeCbs \in Nat
        BY <4>1
      <4>3. fdOpen \in BOOLEAN /\ pending \in BOOLEAN
        BY ONLY <4>1, Zenon
      <4>4. watched \subseteq {"R", "W"} /\ revents \subseteq {"R", "W"}
        BY <4>1
      <4> QED BY <4>1, <4>2, <4>3, <4>4, Zenon
    <3>7. pc \in [Threads -> {"idle", "write", "close"}]
      OBVIOUS
    <3> HIDE DEF Init, NewIo
    <3> QED BY <3>1, <3>2, <3>3, <3>5, <3>6, <3>7 DEF TypeOK, IoValues, UserPhases
  <2>2. EpollInv /\ LifeInv /\ CloseInv
    BY DEF EpollInv, WriteWatched, LifeInv, CloseInv, Untouched
  <2>3. StreamInv
    BY DEF StreamInv, IsPrefix
  <2> QED BY <2>1, <2>2, <2>3 DEF IInv
<1>2. IInv /\ [Next]_vars => IInv'
  BY QuietStep, WriteStep, ErrorStep, SendStep, CloseStep, OpenStep
     DEF Next, Loop, InCallback, User, Thread
<1> QED BY <1>1, <1>2, PTL DEF Spec

\* What io_write accepted for a connection reaches the peer in order and is never
\* lost or queued twice while the connection lives.
THEOREM StreamAlways == ASSUME ~Overlap PROVE Spec => []StreamIntact
<1>1. IInv => StreamIntact
  BY DEF IInv, StreamInv, StreamIntact
<1> QED BY <1>1, Invariant, PTL

\* A queue that is not empty is watched, and close_cb is called once at most.
THEOREM ConsistentAlways == ASSUME ~Overlap PROVE Spec => []Consistent
<1>1. IInv => Consistent
  <2> SUFFICES ASSUME IInv
               PROVE  Consistent
    OBVIOUS
  <2>1. ClosedOnce
    BY DEF IInv, LifeInv, ClosedOnce, TypeOK
  <2> QED BY <2>1 DEF IInv, EpollInv, Consistent
<1> QED BY <1>1, Invariant, PTL

\* A connection closed once and without an error has sent all it accepted.
THEOREM CloseIsGraceful == ASSUME ~Overlap PROVE Spec => GracefulClose
<1>1. IInv /\ [Next]_vars =>
         [closeCbs' > closeCbs /\ ~io.error /\ asked < 2 => wire = accepted]_vars
  <2> SUFFICES ASSUME IInv, [Next]_vars, closeCbs' > closeCbs, ~io.error, asked < 2
               PROVE  wire = accepted
    OBVIOUS
  <2>1. closeCbs \in Nat /\ asked \in 0..2
    BY DEF IInv, TypeOK
  <2>2. closeCbs' # closeCbs /\ closeCbs' # 0
    BY <2>1
  <2>3. CASE Open
    BY <2>2, <2>3 DEF Open
  <2>4. CASE CloseCb
    BY <2>1, <2>4 DEF CloseCb, IInv, CloseInv
  <2>5. CASE User /\ ~Open
    BY <2>2, <2>5 DEF User, LoopWrite, LoopClose, Timeout, CallClose
  <2>6. CASE Loop /\ ~CloseCb
    BY <2>2, <2>6 DEF Loop, InCallback, Poll, Handle, Read, ReadCbReturn, HandleWrite, Connect,
       NioWrite, Drained, CloseLater, CloseNow, CloseAgain, Done, PostedClose, CloseTimeout,
       CallClose, Goto
  <2>7. CASE (\E t \in Threads : Thread(t)) \/ UNCHANGED vars
    BY <2>2, <2>7 DEF Thread, ThreadTest, ThreadWrite, ThreadClose, vars
  <2> QED BY <2>3, <2>4, <2>5, <2>6, <2>7 DEF Next
<1> QED BY <1>1, Invariant, PTL DEF Spec, GracefulClose
=============================================================================
