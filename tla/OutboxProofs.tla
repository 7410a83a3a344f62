----------------------------- MODULE OutboxProofs -----------------------------
(***************************************************************************)
(* The outbox and its writer implement the event feed, start every peer    *)
(* from the first tick, have sent all when they say so and keep their      *)
(* backlog bounded, for any ticks and any limits.                          *)
(***************************************************************************)
EXTENDS Outbox, WellFoundedInduction, FiniteSetTheorems, TLAPS

\* A tick entry carries ticks before its own.
WellMade(e) == e.kind = "tick" => \A x \in e.skipped : x < e.tick

\* Entries are told apart by their numbers, and a tick that waits to be
\* replaced stands behind the first.
Numbered ==
    /\ \A e \in queue : e.no < pushed
    /\ \A e, f \in queue : e.no = f.no => e = f
    /\ \A e, f \in queue :
          e.kind = "tick" /\ e.first /\ f.kind = "tick" /\ ~f.first
              => e.no < f.no

\* What the writer holds it is sending.
Sending ==
    /\ writer # "sending" => inflight = None
    /\ inflight # None => WellMade(inflight)
    /\ \A e \in queue : WellMade(e)

\* Ticks are on their way once: queued or in flight, they are not delivered.
Owed ==
    /\ delivered \subseteq offered
    /\ shown \subseteq offered
    /\ Flying \subseteq offered \ delivered
    /\ \A e \in queue : Carried(e) \subseteq offered \ delivered
    /\ ~ticked => offered = {}

\* Ticks stand in order, the ones in flight before all.
QueueOrder ==
    /\ \A e, f \in queue : e.no < f.no =>
          \A x \in Carried(e), y \in Carried(f) : x < y
    /\ \A f \in queue : \A x \in Flying, y \in Carried(f) : x < y

\* Until the peer is given up every tick is delivered or on its way.
NothingLost ==
    ~aborted => \A t \in offered :
        t \in delivered \/ t \in Flying \/ \E e \in queue : t \in Carried(e)

\* What is in flight are the ticks next to be delivered, also for a peer that
\* is given up meanwhile.
FlyingIsNext ==
    Flying # {} => \A t \in offered :
        t <= inflight.tick => t \in delivered \/ t \in Flying

\* The inductive invariant of the feed.
FeedInv ==
    /\ TypeOK
    /\ Numbered
    /\ Sending
    /\ Owed
    /\ QueueOrder
    /\ NothingLost
    /\ FlyingIsNext

-----------------------------------------------------------------------------
(* Types. *)

\* Whether a peer is hopeless is a truth value.
LEMMA HopelessIsBoolean ==
    ASSUME NEW entries, NEW skipped
    PROVE  Hopeless(entries, skipped) \in BOOLEAN
BY DEF Hopeless

\* What a newer tick takes over of the waiting ones are ticks.
LEMMA RideAlongAreTicks == TypeOK => RideAlong \subseteq Ticks
<1> SUFFICES ASSUME TypeOK, NEW x \in RideAlong PROVE x \in Ticks
  OBVIOUS
<1>1. PICK e \in Waiting : x \in Carried(e)
  BY DEF RideAlong
<1>2. e \in Entries /\ e.kind = "tick"
  BY <1>1 DEF Waiting, TypeOK
<1>3. e.skipped \subseteq Ticks /\ e.tick \in Ticks
  BY <1>2 DEF Entries
<1> QED
  BY <1>1, <1>2, <1>3 DEF Carried

\* A queue that is not empty has a front, which next_step pops.
LEMMA FrontIsLeast ==
    ASSUME queue \subseteq Entries, queue # {}
    PROVE  Front \in queue /\ \A f \in queue : Front.no <= f.no
<1> DEFINE R == OpToRel(<, Nat)
           T == {e.no : e \in queue}
<1>1. \A e \in queue : e.no \in Nat
  BY DEF Entries
<1>2. T # {} /\ T \subseteq Nat
  BY <1>1
<1>3. IsWellFoundedOn(R, Nat)
  BY NatLessThanWellFounded
<1>4. PICK x \in T : \A y \in T : ~(<<y, x>> \in R)
  <2> HIDE DEF R, T
  <2> QED
    BY <1>2, <1>3, WFMin
<1>5. \A y, z \in Nat : y < z => <<y, z>> \in R
  BY DEF OpToRel
<1>6. \A y \in T : x <= y
  <2> HIDE DEF R
  <2>1. \A y \in T : ~(y < x)
    BY <1>2, <1>4, <1>5
  <2> QED
    BY <1>2, <1>4, <2>1
<1>7. \E e \in queue : \A f \in queue : e.no <= f.no
  BY <1>4, <1>6
<1> QED
  BY <1>7 DEF Front

\* Every step keeps the types.
LEMMA TypesStay == TypeOK /\ [Next]_vars => TypeOK'
<1> SUFFICES ASSUME TypeOK, [Next]_vars PROVE TypeOK'
  OBVIOUS
<1> USE OutboxAssumption, NoneAssumption
<1>1. CASE \E kind \in Plain : enqueue(kind)
  <2>1. PICK kind \in Plain : enqueue(kind)
    BY <1>1
  <2> DEFINE entry == [no |-> pushed, kind |-> kind, tick |-> None,
                       skipped |-> {}, first |-> FALSE]
  <2>2. entry \in Entries
    BY DEF Entries, Plain, TypeOK
  <2>3. queue' = queue \cup {entry} /\ aborted' = Hopeless(queue', {})
    BY <2>1 DEF enqueue
  <2>4. queue' \subseteq Entries /\ aborted' \in BOOLEAN
    BY <2>2, <2>3, HopelessIsBoolean DEF TypeOK
  <2> QED
    BY <2>1, <2>4 DEF enqueue, TypeOK, threads
<1>2. CASE \E t \in Ticks : push_tick(t)
  <2>1. PICK t \in Ticks : push_tick(t)
    BY <1>2
  <2> DEFINE entry == [no |-> pushed, kind |-> "tick", tick |-> t,
                       skipped |-> RideAlong, first |-> ~ticked]
  <2>2. entry \in Entries
    BY RideAlongAreTicks DEF Entries, TypeOK
  <2>3. queue' = (queue \ Waiting) \cup {entry} /\ aborted' = Hopeless(queue', RideAlong)
    BY <2>1 DEF push_tick
  <2>4. queue' \subseteq Entries /\ aborted' \in BOOLEAN
    BY <2>2, <2>3, HopelessIsBoolean DEF TypeOK
  <2> QED
    BY <2>1, <2>4 DEF push_tick, TypeOK, threads
<1>3. CASE \E parting \in Partings : close(parting)
  BY <1>3 DEF close, TypeOK, threads, history
<1>4. CASE abort
  BY <1>4 DEF abort, TypeOK, history
<1>5. CASE Reader
  <2>1. urgent' \in Nat /\ urged' \in Nat
    BY <1>5 DEF Reader, push_urgent, reader_gives_up, reader_cut_off, TypeOK,
                history
  <2> QED
    BY <1>5, <2>1, Zenon
    DEF Reader, push_urgent, reader_gives_up, reader_cut_off, TypeOK, threads,
        history
<1>6. CASE take_ping \/ take_urgent
  <2>1. urgent' \in Nat /\ pings' \in Nat
    BY <1>6 DEF take_ping, take_urgent, TypeOK, history
  <2> QED
    BY <1>6, <2>1, Zenon DEF take_ping, take_urgent, TypeOK, Unhandled, history
<1>7. CASE take_queued
  <2>1. Front \in queue
    BY <1>7, FrontIsLeast DEF take_queued, TypeOK
  <2> QED
    BY <1>7, <2>1 DEF take_queued, TypeOK, Unhandled, history
<1>8. CASE send_succeeds
  <2>1. Flying \subseteq Ticks /\ (Flying # {} => inflight.tick \in Ticks)
    BY DEF Flying, Carried, TypeOK, Entries
  <2> QED
    BY <1>8, <2>1 DEF send_succeeds, TypeOK, Unhandled
<1>9. CASE send_fails
  BY <1>9 DEF send_fails, TypeOK, history
<1>10. CASE writer_stops \/ hang_up \/ linger_ends
  BY <1>10 DEF writer_stops, hang_up, linger_ends, TypeOK, shared, history
<1>11. CASE UNCHANGED vars
  BY <1>11 DEF vars, shared, threads, history, TypeOK
<1> QED
  BY <1>1, <1>2, <1>3, <1>4, <1>5, <1>6, <1>7, <1>8, <1>9, <1>10, <1>11
  DEF Next, Server, Writer

\* Type correctness of the outbox and its threads.
THEOREM OutboxTypeCorrect == Spec => []TypeOK
<1>1. Init => TypeOK
  <2>1. 0 \in Nat
    OBVIOUS
  <2> QED
    BY <2>1, Zenon DEF Init, TypeOK
<1> QED
  BY <1>1, TypesStay, PTL DEF Spec

-----------------------------------------------------------------------------
(* The feed. *)

\* Ticks are numbers, and only tick entries carry any: their own and those
\* they replaced.
LEMMA CarriedTicks ==
    ASSUME NEW e \in Entries
    PROVE  /\ e.no \in Nat
           /\ Carried(e) \subseteq Ticks /\ Carried(e) \subseteq Nat
           /\ Carried(e) # {} => e.kind = "tick"
           /\ e.kind = "tick" => e.tick \in Carried(e) /\ e.tick \in Nat
           /\ WellMade(e) => \A x \in Carried(e) : x <= e.tick
<1>1. e.no \in Nat /\ e.skipped \subseteq Ticks
      /\ (e.kind = "tick" => e.tick \in Ticks)
  BY DEF Entries
<1>2. Ticks \subseteq Nat
  BY OutboxAssumption
<1>3. CASE e.kind = "tick"
  <2>1. Carried(e) = e.skipped \cup {e.tick} /\ e.tick \in Nat
    BY <1>1, <1>2, <1>3 DEF Carried
  <2>2. ASSUME WellMade(e), NEW x \in Carried(e) PROVE x <= e.tick
    <3>1. x \in Nat /\ (x = e.tick \/ x < e.tick)
      BY <1>1, <1>2, <1>3, <2>1, <2>2 DEF WellMade
    <3> QED
      BY <2>1, <3>1
  <2> QED
    BY <1>1, <1>2, <1>3, <2>1, <2>2
<1>4. CASE e.kind # "tick"
  BY <1>1, <1>4 DEF Carried
<1> QED
  BY <1>3, <1>4

\* The ticks in flight are numbers, the last of them the entry's own.
LEMMA FlyingTicks ==
    ASSUME TypeOK, Sending
    PROVE  /\ Flying \subseteq Nat
           /\ Flying # {} =>
                 /\ inflight \in Entries /\ Flying = Carried(inflight)
                 /\ inflight.tick \in Flying /\ inflight.tick \in Nat
                 /\ \A x \in Flying : x <= inflight.tick
<1>1. CASE inflight = None
  BY <1>1 DEF Flying
<1>2. CASE inflight # None
  <2>1. inflight \in Entries /\ WellMade(inflight) /\ Flying = Carried(inflight)
    BY <1>2 DEF TypeOK, Sending, Flying
  <2> QED
    BY <2>1, CarriedTicks
<1> QED
  BY <1>1, <1>2

\* An entry that is no tick goes to the back and carries nothing.
LEMMA EnqueueKeepsFeed ==
    ASSUME FeedInv, TypeOK', NEW kind \in Plain, enqueue(kind)
    PROVE  FeedInv'
<1> DEFINE entry == [no |-> pushed, kind |-> kind, tick |-> None,
                     skipped |-> {}, first |-> FALSE]
<1>1. /\ queue' = queue \cup {entry} /\ pushed' = pushed + 1
      /\ UNCHANGED <<writer, inflight, ticked, offered, delivered, shown>>
      /\ ~aborted
  BY DEF enqueue, Open, threads
<1>2. entry.no = pushed /\ entry.kind # "tick" /\ Carried(entry) = {}
  BY DEF Plain, Carried
<1>3. Flying' = Flying
  BY <1>1 DEF Flying
<1>4. pushed \in Nat /\ \A e \in queue : e.no \in Nat /\ e.no < pushed
  BY CarriedTicks DEF FeedInv, TypeOK, Numbered
<1> HIDE DEF entry
<1>5. Numbered'
  BY <1>1, <1>2, <1>4 DEF FeedInv, Numbered
<1>6. Sending'
  BY <1>1, <1>2 DEF FeedInv, Sending, WellMade
<1>7. Owed'
  BY <1>1, <1>2, <1>3 DEF FeedInv, Owed
<1>8. QueueOrder'
  BY <1>1, <1>2, <1>3 DEF FeedInv, QueueOrder
<1>9. NothingLost'
  BY <1>1, <1>3 DEF FeedInv, NothingLost
<1>10. FlyingIsNext'
  BY <1>1, <1>3 DEF FeedInv, FlyingIsNext
<1> QED
  BY <1>5, <1>6, <1>7, <1>8, <1>9, <1>10 DEF FeedInv

\* A tick takes over what the waiting ones carried: all of it is after what
\* the first tick and the writer hold.
LEMMA PushKeepsFeed ==
    ASSUME FeedInv, TypeOK', NEW t \in Ticks, push_tick(t)
    PROVE  FeedInv'
<1> DEFINE entry == [no |-> pushed, kind |-> "tick", tick |-> t,
                     skipped |-> RideAlong, first |-> ~ticked]
<1>1. /\ queue' = (queue \ Waiting) \cup {entry} /\ pushed' = pushed + 1
      /\ offered' = offered \cup {t} /\ ticked' = TRUE
      /\ UNCHANGED <<writer, inflight, delivered, shown>>
      /\ ~aborted
  BY DEF push_tick, Open, threads
<1>2. /\ entry.no = pushed /\ entry.kind = "tick" /\ entry.tick = t
      /\ entry.skipped = RideAlong /\ Carried(entry) = RideAlong \cup {t}
  BY DEF Carried
<1>3. entry.first => ~ticked
  BY Zenon
<1>4. \A o \in offered : o < t
  BY DEF push_tick
<1>5. t \in Nat /\ offered \subseteq Nat
  BY OutboxAssumption DEF FeedInv, TypeOK
<1>6. Flying' = Flying
  BY <1>1 DEF Flying
<1>7. /\ pushed \in Nat
      /\ \A e \in queue : e.no \in Nat /\ e.no < pushed /\ e \in Entries
  BY CarriedTicks DEF FeedInv, TypeOK, Numbered
<1>8. \A y \in RideAlong : /\ y \in offered /\ y \notin delivered
                           /\ \E w \in Waiting : y \in Carried(w)
  BY DEF RideAlong, Waiting, FeedInv, Owed
<1>9. t \notin offered /\ t \notin delivered
  BY <1>4, <1>5 DEF FeedInv, Owed
<1>10. \A e \in queue \ Waiting : e.kind = "tick" => e.first
  BY DEF Waiting
<1>11. \A e \in queue : e.kind = "tick" => ticked
  <2> SUFFICES ASSUME NEW e \in queue, e.kind = "tick" PROVE offered # {}
    BY DEF FeedInv, Owed
  <2> QED
    BY <1>7, CarriedTicks DEF FeedInv, Owed
<1> HIDE DEF entry
<1>12. Numbered'
  BY <1>1, <1>2, <1>3, <1>7, <1>11 DEF FeedInv, Numbered
<1>13. Sending'
  <2>1. WellMade(entry)
    BY <1>2, <1>4, <1>8 DEF WellMade
  <2> QED
    BY <1>1, <2>1 DEF FeedInv, Sending
<1>14. Owed'
  BY <1>1, <1>2, <1>6, <1>8, <1>9 DEF FeedInv, Owed
<1>15. QueueOrder'
  <2>1. ASSUME NEW e \in queue \ Waiting, NEW x \in Carried(e),
               NEW y \in Carried(entry)
        PROVE  x < y
    <3>1. e.kind = "tick" /\ e.first /\ x \in offered
      BY <1>7, <1>10, <2>1, CarriedTicks DEF FeedInv, Owed
    <3>2. CASE y = t
      BY <1>4, <3>1, <3>2
    <3>3. CASE y \in RideAlong
      <4>1. PICK w \in Waiting : y \in Carried(w)
        BY <1>8, <3>3
      <4>2. w \in queue /\ w.kind = "tick" /\ ~w.first
        BY DEF Waiting
      <4>3. e.no < w.no
        BY <3>1, <4>2 DEF FeedInv, Numbered
      <4> QED
        BY <4>1, <4>2, <4>3 DEF FeedInv, QueueOrder
    <3> QED
      BY <1>2, <3>2, <3>3
  <2>2. ASSUME NEW x \in Flying, NEW y \in Carried(entry)
        PROVE  x < y
    <3>1. CASE y = t
      BY <1>4, <3>1 DEF FeedInv, Owed
    <3>2. CASE y \in RideAlong
      <4>1. PICK w \in Waiting : y \in Carried(w)
        BY <1>8, <3>2
      <4> QED
        BY <4>1 DEF Waiting, FeedInv, QueueOrder
    <3> QED
      BY <1>2, <3>1, <3>2
  <2>3. ASSUME NEW e \in queue', NEW f \in queue', e.no < f.no,
               NEW x \in Carried(e), NEW y \in Carried(f)
        PROVE  x < y
    <3>1. CASE f = entry
      <4>1. e # entry
        BY <1>2, <1>7, <2>3, <3>1
      <4> QED
        BY <1>1, <2>1, <2>3, <3>1, <4>1
    <3>2. CASE f # entry
      <4>1. f \in queue /\ e # entry
        BY <1>1, <1>2, <1>7, <2>3, <3>2
      <4> QED
        BY <1>1, <2>3, <4>1 DEF FeedInv, QueueOrder
    <3> QED
      BY <3>1, <3>2
  <2>4. ASSUME NEW f \in queue', NEW x \in Flying, NEW y \in Carried(f)
        PROVE  x < y
    BY <1>1, <2>2, <2>4 DEF FeedInv, QueueOrder
  <2> QED
    BY <1>6, <2>3, <2>4 DEF QueueOrder
<1>16. NothingLost'
  <2>1. entry \in queue' /\ t \in Carried(entry)
    BY <1>1, <1>2
  <2>2. ASSUME NEW o \in offered, o \notin delivered, o \notin Flying
        PROVE  \E e \in queue' : o \in Carried(e)
    <3>1. PICK e \in queue : o \in Carried(e)
      BY <1>1, <2>2 DEF FeedInv, NothingLost
    <3>2. CASE e \in Waiting
      BY <1>2, <2>1, <3>1, <3>2 DEF RideAlong
    <3> QED
      BY <1>1, <3>1, <3>2
  <2> QED
    BY <1>1, <1>6, <2>1, <2>2 DEF NothingLost
<1>17. FlyingIsNext'
  <2>1. Flying # {} => inflight.tick < t
    BY <1>4, FlyingTicks DEF FeedInv, Owed
  <2>2. Flying # {} => inflight.tick \in Nat
    BY FlyingTicks DEF FeedInv
  <2> QED
    BY <1>1, <1>5, <1>6, <2>1, <2>2 DEF FeedInv, FlyingIsNext
<1> QED
  BY <1>12, <1>13, <1>14, <1>15, <1>16, <1>17 DEF FeedInv

\* The writer takes the front: whatever is offered before its tick was carried
\* by no other entry.
LEMMA TakeKeepsFeed ==
    ASSUME FeedInv, TypeOK', take_queued
    PROVE  FeedInv'
<1> DEFINE front == Front
<1>1. front \in queue /\ \A f \in queue : front.no <= f.no
  BY FrontIsLeast DEF take_queued, FeedInv, TypeOK
<1>2. /\ queue' = queue \ {front} /\ ~aborted /\ ~aborted'
      /\ UNCHANGED <<pushed, ticked, offered, delivered, shown>>
      /\ inflight = None
  BY DEF take_queued, Unhandled, history, FeedInv, Sending
<1>3. front \in Entries /\ WellMade(front)
  BY <1>1 DEF FeedInv, TypeOK, Sending
<1>4. Flying = {}
  BY <1>2 DEF Flying
<1>5. /\ Flying' = Carried(front)
      /\ Flying' # {} => inflight' = front
      /\ inflight' # None => inflight' = front /\ writer' = "sending"
  <2>1. CASE front.kind = "compress"
    BY <1>2, <2>1 DEF take_queued, Flying, Carried
  <2>2. CASE front.kind # "compress"
    <3>1. inflight' = front /\ writer' = "sending"
      BY <2>2 DEF take_queued
    <3> QED
      BY <1>3, <3>1, NoneAssumption DEF Flying
  <2> QED
    BY <2>1, <2>2
<1>6. \A f \in queue' : f \in queue /\ front.no < f.no
  BY <1>1, <1>2, CarriedTicks DEF FeedInv, Numbered, TypeOK
<1> HIDE DEF front
<1>7. Numbered'
  BY <1>2, <1>6 DEF FeedInv, Numbered
<1>8. Sending'
  BY <1>3, <1>5, <1>6 DEF FeedInv, Sending
<1>9. Owed'
  BY <1>1, <1>2, <1>5, <1>6 DEF FeedInv, Owed
<1>10. QueueOrder'
  BY <1>1, <1>5, <1>6 DEF FeedInv, QueueOrder
<1>11. NothingLost'
  BY <1>2, <1>4, <1>5 DEF FeedInv, NothingLost
<1>12. FlyingIsNext'
  <2> SUFFICES ASSUME Flying' # {}, NEW o \in offered, o <= front.tick,
                      o \notin delivered
               PROVE  o \in Carried(front)
    BY <1>2, <1>5 DEF FlyingIsNext
  <2>1. PICK e \in queue : o \in Carried(e)
    BY <1>2, <1>4 DEF FeedInv, NothingLost
  <2>2. CASE e # front
    <3>1. front.tick \in Carried(front) /\ front.tick \in Nat
      BY <1>3, <1>5, CarriedTicks
    <3>2. front.tick < o
      BY <1>1, <1>2, <1>6, <2>1, <2>2, <3>1 DEF FeedInv, QueueOrder
    <3>3. o \in Nat
      BY OutboxAssumption DEF FeedInv, TypeOK
    <3> QED
      BY <3>1, <3>2, <3>3
  <2> QED
    BY <2>1, <2>2
<1> QED
  BY <1>7, <1>8, <1>9, <1>10, <1>11, <1>12 DEF FeedInv

\* What went out was next, and the rest of the queue comes after it.
LEMMA SendKeepsFeed ==
    ASSUME FeedInv, TypeOK', send_succeeds
    PROVE  FeedInv'
<1>1. /\ delivered' = delivered \cup Flying
      /\ shown' = IF Flying = {} THEN shown ELSE shown \cup {inflight.tick}
      /\ inflight' = None /\ writer' = "idle"
      /\ UNCHANGED <<queue, pushed, ticked, offered, aborted>>
  BY DEF send_succeeds, Unhandled
<1>2. Flying' = {}
  BY <1>1 DEF Flying
<1>3. shown' \subseteq offered
  BY <1>1, FlyingTicks DEF FeedInv, Owed
<1>4. \A e \in queue : Carried(e) \cap Flying = {}
  <2> SUFFICES ASSUME NEW e \in queue, NEW x \in Carried(e), x \in Flying
               PROVE  FALSE
    OBVIOUS
  <2>1. x < x
    BY DEF FeedInv, QueueOrder
  <2>2. x \in Nat
    BY FlyingTicks DEF FeedInv
  <2> QED
    BY <2>1, <2>2
<1>5. Numbered'
  BY <1>1 DEF FeedInv, Numbered
<1>6. Sending'
  BY <1>1 DEF FeedInv, Sending
<1>7. Owed'
  BY <1>1, <1>2, <1>3, <1>4 DEF FeedInv, Owed
<1>8. QueueOrder'
  BY <1>1, <1>2 DEF FeedInv, QueueOrder
<1>9. NothingLost'
  BY <1>1, <1>2 DEF FeedInv, NothingLost
<1>10. FlyingIsNext'
  BY <1>2 DEF FlyingIsNext
<1> QED
  BY <1>5, <1>6, <1>7, <1>8, <1>9, <1>10 DEF FeedInv

\* Dropping what is queued, with a peer given up, leaves nothing out of order.
LEMMA DropKeepsFeed ==
    ASSUME FeedInv, TypeOK', aborted' = TRUE, queue' = {},
           UNCHANGED <<pushed, ticked, offered, delivered, shown>>,
           \/ UNCHANGED <<writer, inflight>>
           \/ inflight' = None
    PROVE  FeedInv'
<1>1. \/ Flying' = Flying /\ inflight' = inflight
      \/ Flying' = {} /\ inflight' = None
  <2>1. CASE UNCHANGED <<writer, inflight>>
    BY <2>1 DEF Flying
  <2>2. CASE inflight' = None
    BY <2>2 DEF Flying
  <2> QED
    BY <2>1, <2>2
<1>2. Numbered' /\ NothingLost'
  <2>1. NothingLost'
    BY Zenon DEF NothingLost
  <2>2. Numbered'
    BY DEF Numbered
  <2> QED
    BY <2>1, <2>2
<1>3. Sending'
  BY DEF FeedInv, Sending
<1>4. Owed' /\ QueueOrder'
  BY <1>1 DEF FeedInv, Owed, QueueOrder
<1>5. FlyingIsNext'
  BY <1>1 DEF FeedInv, FlyingIsNext
<1> QED
  BY <1>2, <1>3, <1>4, <1>5 DEF FeedInv

\* A step that leaves the queue, the flight and the ticks alone.
LEMMA QuietKeepsFeed ==
    ASSUME FeedInv, TypeOK',
           UNCHANGED <<queue, pushed, ticked, offered, delivered, shown, inflight,
                       aborted>>,
           writer' = writer \/ inflight = None
    PROVE  FeedInv'
<1>1. Flying' = Flying
  BY DEF Flying
<1>2. Numbered' /\ Sending'
  BY DEF FeedInv, Numbered, Sending
<1>3. Owed' /\ QueueOrder'
  BY <1>1 DEF FeedInv, Owed, QueueOrder
<1>4. NothingLost' /\ FlyingIsNext'
  BY <1>1 DEF FeedInv, NothingLost, FlyingIsNext
<1> QED
  BY <1>2, <1>3, <1>4 DEF FeedInv

\* Every step of the three threads, or none, keeps the feed's invariant.
LEMMA NextKeepsFeed == FeedInv /\ [Next]_vars => FeedInv'
<1> SUFFICES ASSUME FeedInv, [Next]_vars PROVE FeedInv'
  OBVIOUS
<1>1. TypeOK'
  BY TypesStay DEF FeedInv
<1>2. CASE \E kind \in Plain : enqueue(kind)
  BY <1>1, <1>2, EnqueueKeepsFeed
<1>3. CASE \E t \in Ticks : push_tick(t)
  BY <1>1, <1>3, PushKeepsFeed
<1>4. CASE abort
  BY <1>1, <1>4, DropKeepsFeed DEF abort, history
<1>5. CASE take_queued
  BY <1>1, <1>5, TakeKeepsFeed
<1>6. CASE send_succeeds
  BY <1>1, <1>6, SendKeepsFeed
<1>7. CASE send_fails
  BY <1>1, <1>7, DropKeepsFeed DEF send_fails, history
<1>8. CASE (\E parting \in Partings : close(parting)) \/ Reader
  BY <1>1, <1>8, QuietKeepsFeed
  DEF close, Reader, push_urgent, reader_gives_up, reader_cut_off, threads, history
<1>9. CASE take_ping \/ take_urgent
  BY <1>1, <1>9, QuietKeepsFeed
  DEF take_ping, take_urgent, Unhandled, history, FeedInv, Sending
<1>10. CASE writer_stops \/ hang_up \/ linger_ends
  BY <1>1, <1>10, QuietKeepsFeed
  DEF writer_stops, hang_up, linger_ends, shared, history, FeedInv, Sending
<1>11. CASE UNCHANGED vars
  BY <1>1, <1>11, QuietKeepsFeed DEF vars, shared, threads, history
<1> QED
  BY <1>2, <1>3, <1>4, <1>5, <1>6, <1>7, <1>8, <1>9, <1>10, <1>11
  DEF Next, Server, Writer

\* The feed's invariant holds in every behaviour of the outbox.
THEOREM FeedInvariant == Spec => []FeedInv
<1>1. Init => FeedInv
  <2> SUFFICES ASSUME Init PROVE FeedInv
    OBVIOUS
  <2>1. TypeOK
    <3>1. 0 \in Nat
      OBVIOUS
    <3> QED
      BY <3>1, Zenon DEF Init, TypeOK
  <2>2. queue = {} /\ offered = {} /\ delivered = {} /\ shown = {} /\ inflight = None
    BY DEF Init
  <2> QED
    BY <2>1, <2>2 DEF FeedInv, Numbered, Sending, Owed, QueueOrder, NothingLost,
                      FlyingIsNext, Flying
<1> QED
  BY <1>1, NextKeepsFeed, PTL DEF Spec

-----------------------------------------------------------------------------
(* The outbox implements the feed. *)

\* What the writer sends is a delivery of the feed, or nothing to it.
LEMMA SendDelivers ==
    ASSUME FeedInv, send_succeeds
    PROVE  Feed!Deliver \/ UNCHANGED Feed!feedVars
<1>1. delivered' = delivered \cup Flying /\ UNCHANGED <<offered, aborted>>
  BY DEF send_succeeds, Unhandled
<1>2. CASE Flying = {}
  BY <1>1, <1>2 DEF Feed!feedVars
<1>3. CASE Flying # {}
  <2> DEFINE upto == inflight.tick
  <2>1. upto \in offered \ delivered /\ \A x \in Flying : x <= upto
    BY <1>3, FlyingTicks DEF FeedInv, Owed
  <2>2. \A x \in offered : x <= upto => x \in delivered \/ x \in Flying
    BY <1>3 DEF FeedInv, FlyingIsNext
  <2>3. Flying \subseteq offered
    BY DEF FeedInv, Owed
  <2> HIDE DEF upto
  <2>4. delivered' = delivered \cup {x \in offered : x <= upto}
    BY <1>1, <2>1, <2>2, <2>3
  <2> QED
    BY <1>1, <2>1, <2>4 DEF Feed!Deliver
<1> QED
  BY <1>2, <1>3

\* Every step of the outbox is a step of the feed, or none.
LEMMA StepsOfTheFeed ==
    FeedInv /\ [Next]_vars => [Feed!FeedNext]_(Feed!feedVars)
<1> SUFFICES ASSUME FeedInv, [Next]_vars
             PROVE  Feed!FeedNext \/ UNCHANGED Feed!feedVars
  OBVIOUS
<1>1. CASE \E kind \in Plain : enqueue(kind)
  <2>1. PICK kind \in Plain : enqueue(kind)
    BY <1>1
  <2>2. aborted' \in BOOLEAN /\ ~aborted /\ UNCHANGED <<offered, delivered>>
    BY <2>1, HopelessIsBoolean DEF enqueue, Open
  <2>3. aborted' = TRUE \/ aborted' = aborted
    BY <2>2 DEF FeedInv, TypeOK
  <2> QED
    BY <2>2, <2>3 DEF Feed!FeedNext, Feed!CutOff, Feed!feedVars
<1>2. CASE \E t \in Ticks : push_tick(t)
  <2>1. PICK t \in Ticks : push_tick(t)
    BY <1>2
  <2>2. aborted' \in BOOLEAN
    BY <2>1, HopelessIsBoolean DEF push_tick
  <2> QED
    BY <2>1, <2>2 DEF push_tick, Open, Feed!FeedNext, Feed!Offer
<1>3. CASE abort \/ send_fails
  BY <1>3 DEF abort, send_fails, history, Feed!FeedNext, Feed!CutOff
<1>4. CASE send_succeeds
  BY <1>4, SendDelivers DEF Feed!FeedNext
<1>5. CASE (\E parting \in Partings : close(parting)) \/ Reader
  BY <1>5 DEF close, Reader, push_urgent, reader_gives_up, reader_cut_off, history,
              Feed!feedVars
<1>6. CASE take_ping \/ take_urgent \/ take_queued
  BY <1>6 DEF take_ping, take_urgent, take_queued, Unhandled, history, Feed!feedVars
<1>7. CASE writer_stops \/ hang_up \/ linger_ends
  BY <1>7 DEF writer_stops, hang_up, linger_ends, shared, history, Feed!feedVars
<1>8. CASE UNCHANGED vars
  BY <1>8 DEF vars, shared, history, Feed!feedVars
<1> QED
  BY <1>1, <1>2, <1>3, <1>4, <1>5, <1>6, <1>7, <1>8 DEF Next, Server, Writer

\* The outbox and its writer implement the feed: the events of every tick
\* queued go out once and in order, coalesced, in flight or cut off.
THEOREM FeedImplemented == Spec => FeedRefined
<1>1. Init => Feed!FeedInit
  BY DEF Init, Feed!FeedInit
<1> QED
  BY <1>1, StepsOfTheFeed, FeedInvariant, PTL DEF Spec, FeedRefined, Feed!FeedSafety

-----------------------------------------------------------------------------
(* An outbox that says it is sent. *)

\* The writer says so when it stops, and not before a close is drained.
SentLast ==
    /\ sent => writer \in {"parting", "done"}
    /\ sent /\ ~aborted => closed # None /\ queue = {} /\ urgent = 0

\* No step after the writer's last word queues anything more.
LEMMA NextKeepsSent == TypeOK /\ SentLast /\ [Next]_vars => SentLast'
<1> SUFFICES ASSUME TypeOK, SentLast, [Next]_vars PROVE SentLast'
  OBVIOUS
<1> USE DEF SentLast
<1>1. CASE (\E kind \in Plain : enqueue(kind)) \/ \E t \in Ticks : push_tick(t)
  <2>1. closed = None /\ ~aborted
    BY <1>1 DEF enqueue, push_tick, Open
  <2>2. ~sent
    BY <2>1
  <2>3. UNCHANGED sent
    BY <1>1 DEF enqueue, push_tick
  <2> QED
    BY <2>2, <2>3
<1>2. CASE \E parting \in Partings : close(parting)
  <2>1. closed = None /\ UNCHANGED <<sent, writer, aborted>>
    BY <1>2 DEF close, threads
  <2> QED
    BY <2>1
<1>3. CASE abort \/ send_fails
  <2>1. aborted' = TRUE
    BY <1>3 DEF abort, send_fails
  <2>2. sent' => writer' \in {"parting", "done"}
    BY <1>3 DEF abort, send_fails
  <2> QED
    BY <2>1, <2>2
<1>4. CASE Reader
  BY <1>4 DEF Reader, push_urgent, reader_gives_up, reader_cut_off, Open, threads
<1>5. CASE take_ping \/ take_urgent \/ take_queued \/ send_succeeds
  <2>1. ~sent /\ UNCHANGED sent
    BY <1>5 DEF take_ping, take_urgent, take_queued, send_succeeds, Unhandled
  <2> QED
    BY <2>1
<1>6. CASE writer_stops
  BY <1>6 DEF writer_stops
<1>7. CASE hang_up
  BY <1>7 DEF hang_up, Drained
<1>8. CASE linger_ends
  BY <1>8 DEF linger_ends, shared
<1>9. CASE UNCHANGED vars
  BY <1>9 DEF vars, shared, threads
<1> QED
  BY <1>1, <1>2, <1>3, <1>4, <1>5, <1>6, <1>7, <1>8, <1>9 DEF Next, Server, Writer

\* Outbox::wait_sent returns, with nothing aborted, only when everything queued
\* has reached the socket.
THEOREM SentMeansAll == Spec => []SentIsAll
<1>1. Init => SentLast
  BY DEF Init, SentLast
<1>2. FeedInv /\ SentLast => SentIsAll
  <2> SUFFICES ASSUME FeedInv, SentLast, sent, ~aborted
               PROVE  queue = {} /\ urgent = 0 /\ delivered = offered
    BY DEF SentIsAll
  <2>1. queue = {} /\ urgent = 0 /\ writer # "sending"
    BY DEF SentLast
  <2>2. Flying = {}
    BY <2>1 DEF FeedInv, Sending, Flying
  <2> QED
    BY <2>1, <2>2 DEF FeedInv, NothingLost, Owed
<1>3. FeedInv => TypeOK
  BY DEF FeedInv
<1> QED
  BY <1>1, <1>2, <1>3, NextKeepsSent, FeedInvariant, PTL DEF Spec

-----------------------------------------------------------------------------
(* The first tick. *)

Least(t) == \A o \in offered : t <= o

\* A first tick is queued or in flight with no tick offered before it.
FirstIsFirst ==
    /\ \A e \in queue : e.kind = "tick" /\ e.first => Least(e.tick)
    /\ Flying # {} /\ inflight.first => Least(inflight.tick)

\* Nothing is out, nor a later tick in flight, before the first is shown.
Begun ==
    \/ \E f \in shown : Least(f)
    \/ /\ delivered = {} /\ shown = {}
       /\ Flying # {} => inflight.first

\* The first tick is shown or on its way, unless the peer is given up.
FirstComes ==
    ticked /\ ~aborted =>
        \/ \E f \in shown : Least(f)
        \/ Flying # {} /\ inflight.first
        \/ \E e \in queue : e.kind = "tick" /\ e.first

FirstInv == FirstIsFirst /\ Begun /\ FirstComes

\* A newer tick replaces no first one and comes after every other.
LEMMA PushKeepsFirst ==
    ASSUME FeedInv, FirstInv, NEW t \in Ticks, push_tick(t)
    PROVE  FirstInv'
<1> DEFINE entry == [no |-> pushed, kind |-> "tick", tick |-> t,
                     skipped |-> RideAlong, first |-> ~ticked]
<1>1. /\ queue' = (queue \ Waiting) \cup {entry}
      /\ offered' = offered \cup {t} /\ ticked' = TRUE
      /\ UNCHANGED <<inflight, delivered, shown>>
      /\ ~aborted
      /\ \A o \in offered : o < t
  BY DEF push_tick, Open, threads
<1>2. entry.kind = "tick" /\ entry.tick = t
  OBVIOUS
<1>3. entry.first <=> ~ticked
  BY Zenon
<1>4. Flying' = Flying
  BY <1>1 DEF Flying
<1>5. t \in Nat /\ offered \subseteq Nat /\ shown \subseteq offered
  BY OutboxAssumption DEF FeedInv, TypeOK, Owed
<1>6. ASSUME NEW f \in offered, Least(f) PROVE Least(f)'
  BY <1>1, <1>5, <1>6 DEF Least
<1>7. ~ticked => Least(t)'
  BY <1>1, <1>5 DEF FeedInv, Owed, Least
<1>8. \A e \in queue : e.kind = "tick" => e.tick \in offered
  BY CarriedTicks DEF FeedInv, TypeOK, Owed
<1>9. Flying # {} => inflight.tick \in offered
  BY FlyingTicks DEF FeedInv, Owed
<1>10. (\E f \in shown : Least(f)) => (\E f \in shown' : Least(f)')
  BY <1>1, <1>5, <1>6
<1> HIDE DEF entry
<1>11. FirstIsFirst'
  <2>1. ASSUME NEW e \in queue', e.kind = "tick", e.first PROVE Least(e.tick)'
    <3>1. CASE e = entry
      BY <1>2, <1>3, <1>7, <2>1, <3>1
    <3>2. CASE e \in queue
      <4>1. e.tick \in offered /\ Least(e.tick)
        BY <1>8, <2>1, <3>2 DEF FirstInv, FirstIsFirst
      <4> QED
        BY <1>6, <4>1
    <3> QED
      BY <1>1, <3>1, <3>2
  <2>2. ASSUME Flying # {}, inflight.first PROVE Least(inflight.tick)'
    <3>1. inflight.tick \in offered /\ Least(inflight.tick)
      BY <1>9, <2>2 DEF FirstInv, FirstIsFirst
    <3>2. \A f \in offered : Least(f) => (\A o \in offered' : f <= o)
      BY <1>6 DEF Least
    <3> QED
      BY <1>1, <3>1, <3>2 DEF Least
  <2> QED
    BY <1>1, <1>4, <2>1, <2>2 DEF FirstIsFirst, Least
<1>12. Begun'
  BY <1>1, <1>4, <1>10 DEF FirstInv, Begun
<1>13. FirstComes'
  <2>1. CASE ticked
    <3>1. \A e \in queue : e.kind = "tick" /\ e.first => e \in queue'
      BY <1>1 DEF Waiting
    <3> QED
      BY <1>1, <1>4, <1>10, <2>1, <3>1 DEF FirstInv, FirstComes
  <2>2. CASE ~ticked
    <3>1. entry \in queue' /\ entry.kind = "tick" /\ entry.first
      BY <1>1, <1>2, <1>3, <2>2
    <3> QED
      BY <3>1 DEF FirstComes
  <2> QED
    BY <2>1, <2>2
<1> QED
  BY <1>11, <1>12, <1>13 DEF FirstInv

\* The front is the first tick, or the first is out.
LEMMA TakeKeepsFirst ==
    ASSUME FeedInv, FirstInv, take_queued
    PROVE  FirstInv'
<1> DEFINE front == Front
<1>1. front \in queue /\ \A f \in queue : front.no <= f.no
  BY FrontIsLeast DEF take_queued, FeedInv, TypeOK
<1>2. /\ queue' = queue \ {front} /\ ~aborted
      /\ UNCHANGED <<ticked, offered, delivered, shown, aborted>>
      /\ inflight = None
  BY DEF take_queued, Unhandled, history, FeedInv, Sending
<1>3. front \in Entries
  BY <1>1 DEF FeedInv, TypeOK
<1>4. Flying = {}
  BY <1>2 DEF Flying
<1>5. Flying' = Carried(front) /\ (Flying' # {} => inflight' = front)
  <2>1. CASE front.kind = "compress"
    BY <1>2, <2>1 DEF take_queued, Flying, Carried
  <2>2. CASE front.kind # "compress"
    BY <1>3, <2>2, NoneAssumption DEF take_queued, Flying
  <2> QED
    BY <2>1, <2>2
<1>6. Flying' # {} <=> front.kind = "tick"
  BY <1>3, <1>5, CarriedTicks
<1>7. \A e \in queue : e.no \in Nat
  BY CarriedTicks DEF FeedInv, TypeOK
<1>8. ASSUME front.kind = "tick", ~front.first, NEW e \in queue
      PROVE  ~(e.kind = "tick" /\ e.first)
  <2> SUFFICES ASSUME e.kind = "tick", e.first PROVE FALSE
    OBVIOUS
  <2>1. e.no < front.no
    BY <1>1, <1>8 DEF FeedInv, Numbered
  <2> QED
    BY <1>1, <1>7, <2>1
<1>9. front.kind = "tick" => ticked
  <2> SUFFICES ASSUME front.kind = "tick" PROVE offered # {}
    BY DEF FeedInv, Owed
  <2> QED
    BY <1>1, <1>3, CarriedTicks DEF FeedInv, Owed
<1> HIDE DEF front
<1>10. \A f : Least(f)' <=> Least(f)
  BY <1>2 DEF Least
<1>11. FirstIsFirst'
  <2>1. \A e \in queue' : e.kind = "tick" /\ e.first => Least(e.tick)'
    BY <1>2, <1>10 DEF FirstInv, FirstIsFirst
  <2>2. Flying' # {} /\ inflight'.first => \A o \in offered' : inflight'.tick <= o
    BY <1>1, <1>2, <1>5, <1>6 DEF FirstInv, FirstIsFirst, Least
  <2> QED
    BY <2>1, <2>2 DEF FirstIsFirst, Least
<1>12. Begun'
  <2>1. CASE \E f \in shown : Least(f)
    BY <1>2, <1>10, <2>1 DEF Begun
  <2>2. CASE ~\E f \in shown : Least(f)
    <3>1. delivered = {} /\ shown = {}
      BY <2>2 DEF FirstInv, Begun
    <3>2. Flying' # {} => front.first
      BY <1>2, <1>4, <1>6, <1>8, <1>9, <2>2 DEF FirstInv, FirstComes
    <3> QED
      BY <1>2, <1>5, <3>1, <3>2 DEF Begun
  <2> QED
    BY <2>1, <2>2
<1>13. FirstComes'
  <2>1. (\E f \in shown : Least(f)) => \E f \in shown' : Least(f)'
    BY <1>2, <1>10
  <2>2. ASSUME NEW e \in queue, e.kind = "tick", e.first
        PROVE  \/ Flying' # {} /\ inflight'.first
               \/ \E f \in queue' : f.kind = "tick" /\ f.first
    BY <1>2, <1>5, <1>6, <2>2
  <2> QED
    BY <1>2, <1>4, <2>1, <2>2 DEF FirstInv, FirstComes
<1> QED
  BY <1>11, <1>12, <1>13 DEF FirstInv

\* What goes out is the first tick, or the first went out before.
LEMMA SendKeepsFirst ==
    ASSUME FeedInv, FirstInv, send_succeeds
    PROVE  FirstInv'
<1>1. /\ delivered' = delivered \cup Flying
      /\ shown' = IF Flying = {} THEN shown ELSE shown \cup {inflight.tick}
      /\ inflight' = None
      /\ UNCHANGED <<queue, ticked, offered, aborted>>
  BY DEF send_succeeds, Unhandled
<1>2. Flying' = {}
  BY <1>1 DEF Flying
<1>3. \A f : Least(f)' <=> Least(f)
  BY <1>1 DEF Least
<1>4. (\E f \in shown : Least(f)) => \E f \in shown' : Least(f)'
  BY <1>1, <1>3
<1>5. Flying # {} /\ inflight.first => \E f \in shown' : Least(f)'
  BY <1>1, <1>3 DEF FirstInv, FirstIsFirst
<1>6. FirstIsFirst'
  BY <1>1, <1>2, <1>3 DEF FirstInv, FirstIsFirst
<1>7. Begun'
  BY <1>1, <1>2, <1>4, <1>5 DEF FirstInv, Begun
<1>8. FirstComes'
  BY <1>1, <1>4, <1>5 DEF FirstInv, FirstComes
<1> QED
  BY <1>6, <1>7, <1>8 DEF FirstInv

\* A step that leaves the ticks where they are, or drops some with the peer.
LEMMA QuietKeepsFirst ==
    ASSUME FirstInv, UNCHANGED <<ticked, offered, delivered, shown>>,
           inflight' = inflight \/ inflight' = None,
           \A e \in queue' : e \in queue \/ e.kind # "tick",
           \/ aborted'
           \/ /\ queue \subseteq queue'
              /\ inflight' = inflight /\ ~aborted
           \/ /\ queue \subseteq queue'
              /\ inflight' = inflight /\ aborted' = aborted
    PROVE  FirstInv'
<1>1. Flying' = {} \/ (Flying' = Flying /\ inflight' = inflight)
  <2>1. CASE inflight' = inflight
    BY <2>1 DEF Flying
  <2>2. CASE inflight' = None
    BY <2>2 DEF Flying
  <2> QED
    BY <2>1, <2>2
<1>2. \A f : Least(f)' <=> Least(f)
  BY DEF Least
<1>3. FirstIsFirst'
  <2>1. \A e \in queue' : e.kind = "tick" /\ e.first => Least(e.tick)'
    BY <1>2 DEF FirstInv, FirstIsFirst
  <2>2. Flying' # {} /\ inflight'.first => \A o \in offered' : inflight'.tick <= o
    BY <1>1 DEF FirstInv, FirstIsFirst, Least
  <2> QED
    BY <2>1, <2>2 DEF FirstIsFirst, Least
<1>4. Begun'
  BY <1>1, <1>2 DEF FirstInv, Begun
<1>5. FirstComes'
  <2>1. CASE aborted'
    BY <2>1 DEF FirstComes
  <2>2. CASE /\ queue \subseteq queue' /\ inflight' = inflight
             /\ ~aborted \/ aborted' = aborted
    <3>1. Flying' = Flying
      BY <2>2 DEF Flying
    <3> QED
      BY <1>2, <2>2, <3>1 DEF FirstInv, FirstComes
  <2> QED
    BY <2>1, <2>2
<1> QED
  BY <1>3, <1>4, <1>5 DEF FirstInv

\* Every step keeps the first tick first.
LEMMA NextKeepsFirst == FeedInv /\ FirstInv /\ [Next]_vars => FirstInv'
<1> SUFFICES ASSUME FeedInv, FirstInv, [Next]_vars PROVE FirstInv'
  OBVIOUS
<1>1. CASE \E kind \in Plain : enqueue(kind)
  <2>1. PICK kind \in Plain : enqueue(kind)
    BY <1>1
  <2> DEFINE entry == [no |-> pushed, kind |-> kind, tick |-> None,
                       skipped |-> {}, first |-> FALSE]
  <2>2. /\ queue' = queue \cup {entry} /\ inflight' = inflight /\ ~aborted
        /\ UNCHANGED <<ticked, offered, delivered, shown>>
    BY <2>1 DEF enqueue, Open, threads
  <2>3. entry.kind # "tick"
    BY DEF Plain
  <2> QED
    BY <2>2, <2>3, QuietKeepsFirst
<1>2. CASE \E t \in Ticks : push_tick(t)
  BY <1>2, PushKeepsFirst
<1>3. CASE abort \/ send_fails
  BY <1>3, QuietKeepsFirst DEF abort, send_fails, history
<1>4. CASE take_queued
  BY <1>4, TakeKeepsFirst
<1>5. CASE send_succeeds
  BY <1>5, SendKeepsFirst
<1>6. CASE (\E parting \in Partings : close(parting)) \/ Reader
  BY <1>6, QuietKeepsFirst
  DEF close, Reader, push_urgent, reader_gives_up, reader_cut_off, threads, history
<1>7. CASE take_ping \/ take_urgent
  BY <1>7, QuietKeepsFirst DEF take_ping, take_urgent, Unhandled, history, FeedInv, Sending
<1>8. CASE writer_stops \/ hang_up \/ linger_ends
  BY <1>8, QuietKeepsFirst DEF writer_stops, hang_up, linger_ends, shared, history
<1>9. CASE UNCHANGED vars
  BY <1>9, QuietKeepsFirst DEF vars, shared, threads, history
<1> QED
  BY <1>1, <1>2, <1>3, <1>4, <1>5, <1>6, <1>7, <1>8, <1>9 DEF Next, Server, Writer

\* The first tick queued is never replaced: no peer is shown a later state, or
\* later events, before it.
THEOREM FirstTickFirst == Spec => []StartsFromTheFirst
<1>1. Init => FirstInv
  BY DEF Init, FirstInv, FirstIsFirst, Begun, FirstComes, Flying
<1>2. FirstInv => StartsFromTheFirst
  BY DEF FirstInv, Begun, StartsFromTheFirst, Least
<1> QED
  BY <1>1, <1>2, NextKeepsFirst, FeedInvariant, PTL DEF Spec

-----------------------------------------------------------------------------
(* The backlog. *)

\* Queue and ticks are finite, and only a tick skips others.
FiniteBacklog ==
    /\ IsFiniteSet(queue) /\ IsFiniteSet(offered)
    /\ \A e \in queue : e.kind # "tick" => e.skipped = {}

\* At most one tick waits to be replaced.
OneWaits == \A e, f \in Waiting : e = f

\* Until the peer is given up, queue and skipped ticks are within the limits.
WithinLimits ==
    ~aborted => /\ Cardinality(queue) <= QueueLimit
                /\ \A e \in queue : Cardinality(e.skipped) <= MaxSkippedTicks

BacklogInv == FiniteBacklog /\ OneWaits /\ WithinLimits

\* An entry that is no tick: the peer is given up, or the queue is short.
LEMMA EnqueueKeepsBacklog ==
    ASSUME FeedInv, BacklogInv, NEW kind \in Plain, enqueue(kind)
    PROVE  BacklogInv'
<1> DEFINE entry == [no |-> pushed, kind |-> kind, tick |-> None,
                     skipped |-> {}, first |-> FALSE]
<1>1. /\ queue' = queue \cup {entry} /\ offered' = offered /\ ~aborted
      /\ aborted' = Hopeless(queue', {})
  BY DEF enqueue, Open
<1>2. entry.kind # "tick" /\ entry.skipped = {}
  BY DEF Plain
<1> HIDE DEF entry
<1>3. IsFiniteSet(queue')
  BY <1>1, FS_AddElement DEF BacklogInv, FiniteBacklog
<1>4. FiniteBacklog'
  BY <1>1, <1>2, <1>3 DEF BacklogInv, FiniteBacklog
<1>5. OneWaits'
  BY <1>1, <1>2 DEF BacklogInv, OneWaits, Waiting
<1>6. WithinLimits'
  <2> SUFFICES ASSUME ~aborted'
               PROVE  /\ Cardinality(queue') <= QueueLimit
                      /\ \A e \in queue' : Cardinality(e.skipped) <= MaxSkippedTicks
    BY DEF WithinLimits
  <2>1. ~(Cardinality(queue') > QueueLimit)
    BY <1>1 DEF Hopeless
  <2>2. Cardinality(queue') \in Nat /\ QueueLimit \in Nat /\ MaxSkippedTicks \in Nat
    BY <1>3, FS_CardinalityType, OutboxAssumption
  <2>3. Cardinality(entry.skipped) = 0
    BY <1>2, FS_EmptySet
  <2> QED
    BY <1>1, <2>1, <2>2, <2>3 DEF BacklogInv, WithinLimits
<1> QED
  BY <1>4, <1>5, <1>6 DEF BacklogInv

\* A tick: it alone waits, and the limits judge what it carries.
LEMMA PushKeepsBacklog ==
    ASSUME FeedInv, BacklogInv, NEW t \in Ticks, push_tick(t)
    PROVE  BacklogInv'
<1> DEFINE entry == [no |-> pushed, kind |-> "tick", tick |-> t,
                     skipped |-> RideAlong, first |-> ~ticked]
<1>1. /\ queue' = (queue \ Waiting) \cup {entry} /\ offered' = offered \cup {t}
      /\ aborted' = Hopeless(queue', RideAlong) /\ ~aborted
  BY DEF push_tick, Open
<1>2. entry.kind = "tick" /\ entry.skipped = RideAlong
  OBVIOUS
<1> HIDE DEF entry
<1>3. IsFiniteSet(queue \ Waiting)
  BY FS_Subset DEF BacklogInv, FiniteBacklog
<1>4. IsFiniteSet(queue') /\ IsFiniteSet(offered')
  BY <1>1, <1>3, FS_AddElement DEF BacklogInv, FiniteBacklog
<1>5. RideAlong \subseteq offered
  BY DEF RideAlong, Waiting, FeedInv, Owed
<1>6. IsFiniteSet(RideAlong)
  BY <1>5, FS_Subset DEF BacklogInv, FiniteBacklog
<1>7. FiniteBacklog'
  BY <1>1, <1>2, <1>4 DEF BacklogInv, FiniteBacklog
<1>8. OneWaits'
  BY <1>1 DEF OneWaits, Waiting
<1>9. WithinLimits'
  <2> SUFFICES ASSUME ~aborted'
               PROVE  /\ Cardinality(queue') <= QueueLimit
                      /\ \A e \in queue' : Cardinality(e.skipped) <= MaxSkippedTicks
    BY DEF WithinLimits
  <2>1. /\ ~(Cardinality(queue') > QueueLimit)
        /\ ~(Cardinality(RideAlong) > MaxSkippedTicks)
    BY <1>1 DEF Hopeless
  <2>2. /\ Cardinality(queue') \in Nat /\ QueueLimit \in Nat
        /\ Cardinality(RideAlong) \in Nat /\ MaxSkippedTicks \in Nat
    BY <1>4, <1>6, FS_CardinalityType, OutboxAssumption
  <2> QED
    BY <1>1, <1>2, <2>1, <2>2 DEF BacklogInv, WithinLimits
<1> QED
  BY <1>7, <1>8, <1>9 DEF BacklogInv

\* A step that queues nothing and takes no peer back.
LEMMA QuietKeepsBacklog ==
    ASSUME BacklogInv, queue' \subseteq queue, UNCHANGED offered,
           aborted' = TRUE \/ aborted' = aborted
    PROVE  BacklogInv'
<1>1. IsFiniteSet(queue') /\ Cardinality(queue') <= Cardinality(queue)
      /\ Cardinality(queue') \in Nat /\ Cardinality(queue) \in Nat
  BY FS_Subset, FS_CardinalityType DEF BacklogInv, FiniteBacklog
<1>2. FiniteBacklog'
  BY <1>1 DEF BacklogInv, FiniteBacklog
<1>3. OneWaits'
  BY DEF BacklogInv, OneWaits, Waiting
<1>4. WithinLimits'
  <2>1. CASE aborted'
    BY <2>1 DEF WithinLimits
  <2>2. CASE ~aborted'
    <3>1. ~aborted
      BY <2>2
    <3> QED
      BY <1>1, <3>1, OutboxAssumption DEF BacklogInv, WithinLimits
  <2> QED
    BY <2>1, <2>2
<1> QED
  BY <1>2, <1>3, <1>4 DEF BacklogInv

\* Every step keeps the backlog bounded.
LEMMA NextKeepsBacklog == FeedInv /\ BacklogInv /\ [Next]_vars => BacklogInv'
<1> SUFFICES ASSUME FeedInv, BacklogInv, [Next]_vars PROVE BacklogInv'
  OBVIOUS
<1>1. CASE \E kind \in Plain : enqueue(kind)
  BY <1>1, EnqueueKeepsBacklog
<1>2. CASE \E t \in Ticks : push_tick(t)
  BY <1>2, PushKeepsBacklog
<1>3. CASE abort \/ send_fails
  BY <1>3, QuietKeepsBacklog DEF abort, send_fails, history
<1>4. CASE (\E parting \in Partings : close(parting)) \/ Reader
  BY <1>4, QuietKeepsBacklog
  DEF close, Reader, push_urgent, reader_gives_up, reader_cut_off, history
<1>5. CASE take_ping \/ take_urgent \/ take_queued \/ send_succeeds
  BY <1>5, QuietKeepsBacklog
  DEF take_ping, take_urgent, take_queued, send_succeeds, Unhandled, history
<1>6. CASE writer_stops \/ hang_up \/ linger_ends
  BY <1>6, QuietKeepsBacklog DEF writer_stops, hang_up, linger_ends, shared, history
<1>7. CASE UNCHANGED vars
  BY <1>7, QuietKeepsBacklog DEF vars, shared, history
<1> QED
  BY <1>1, <1>2, <1>3, <1>4, <1>5, <1>6, <1>7 DEF Next, Server, Writer

\* An outbox that has not given its peer up holds no more than the limits say,
\* and at most one tick that a later one replaces.
THEOREM BacklogStaysBounded == Spec => []BacklogBounded
<1>1. Init => BacklogInv
  <2> SUFFICES ASSUME Init PROVE BacklogInv
    OBVIOUS
  <2>1. queue = {} /\ offered = {}
    BY DEF Init
  <2>2. IsFiniteSet({}) /\ Cardinality({}) = 0
    BY FS_EmptySet
  <2> QED
    BY <2>1, <2>2, OutboxAssumption
    DEF BacklogInv, FiniteBacklog, OneWaits, WithinLimits, Waiting
<1>2. BacklogInv => BacklogBounded
  <2> SUFFICES ASSUME BacklogInv PROVE Cardinality(Waiting) <= 1
    BY DEF BacklogInv, WithinLimits, BacklogBounded
  <2>1. CASE Waiting = {}
    BY <2>1, FS_EmptySet
  <2>2. CASE Waiting # {}
    <3>1. PICK e : Waiting = {e}
      BY <2>2 DEF BacklogInv, OneWaits
    <3> QED
      BY <3>1, FS_Singleton
  <2> QED
    BY <2>1, <2>2
<1> QED
  BY <1>1, <1>2, NextKeepsBacklog, FeedInvariant, PTL DEF Spec

\* All that is promised of an outbox's state (Outbox::enqueue, next_step,
\* mark_sent), for any ticks and limits.
THEOREM OutboxIsSound == Spec => []OutboxSound
<1>1. TypeOK /\ BacklogBounded /\ StartsFromTheFirst /\ SentIsAll => OutboxSound
  BY DEF OutboxSound
<1> QED
  BY <1>1, OutboxTypeCorrect, BacklogStaysBounded, FirstTickFirst, SentMeansAll, PTL

=============================================================================
