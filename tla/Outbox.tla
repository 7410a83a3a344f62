------------------------------- MODULE Outbox -------------------------------
(***************************************************************************)
(* The outgoing side of one connection (bota_server/src/net/outbox.rs) and *)
(* the two threads that share it with the simulation (net/conn.rs).  The   *)
(* simulation pushes and never blocks, the writer takes one entry under    *)
(* the lock and sends it without, the reader answers probes and reports    *)
(* its end.                                                                *)
(*                                                                         *)
(* The queue is a VecDeque pushed at the back, so it is a set of entries   *)
(* here, each numbered by its push: the front is the least.  A frame is    *)
(* its number; a tick is its number and the ticks it replaced.             *)
(***************************************************************************)
EXTENDS Integers, FiniteSets

CONSTANTS
    Ticks,            \* bound: the ticks of the match
    QueueLimit,       \* QUEUE_LIMIT
    UrgentLimit,      \* URGENT_LIMIT
    MaxSkippedTicks,  \* MAX_SKIPPED_TICKS
    None,             \* an absent Option
    MaxEntries,       \* bound: entries ever pushed
    MaxUrgent,        \* bound: urgent frames and pings ever sent
    MaxPings

ASSUME OutboxAssumption ==
    /\ Ticks \subseteq Nat
    /\ QueueLimit \in Nat /\ UrgentLimit \in Nat /\ MaxSkippedTicks \in Nat
    /\ MaxEntries \in Nat /\ MaxUrgent \in Nat /\ MaxPings \in Nat

Plain == {"frame", "chat", "compress"}

\* Queued.  Only a tick uses the fields after `kind'.
Entries == {e \in [no : Nat, kind : Plain \cup {"tick"}, tick : Ticks \cup {None},
                   skipped : SUBSET Ticks, first : BOOLEAN] :
               e.kind = "tick" <=> e.tick # None}

ASSUME NoneAssumption == None \notin Ticks /\ None \notin Entries

Partings == {"LetGo", "MatchOver"}

VARIABLES
    queue,        \* OutboxState::queue
    urgent,       \* OutboxState::urgent: how many wait
    closed,       \* OutboxState::closed
    aborted,      \* OutboxState::aborted
    ticked,       \* OutboxState::ticked
    sent,         \* OutboxState::sent
    readerEnded,  \* OutboxState::reader_ended
    writer,       \* the writer thread: idle, sending, parting, done
    inflight,     \* the entry it took and is sending
    deflating,    \* run_writer's deflater is there
    readShut,     \* FrameSink::shut_read was called
    pushed,       \* history: entries ever pushed
    offered,      \* history: ticks ever queued
    delivered,    \* history: ticks whose events reached the sink
    shown,        \* history: ticks whose snapshot reached the sink
    urged,        \* history: urgent frames ever queued
    pings         \* history: pings ever sent

shared == <<queue, urgent, closed, aborted, ticked, sent, readerEnded>>
threads == <<writer, inflight, deflating, readShut>>
history == <<pushed, offered, delivered, shown, urged, pings>>
vars == <<shared, threads, history>>

TypeOK ==
    /\ queue \subseteq Entries
    /\ urgent \in Nat
    /\ closed \in Partings \cup {None}
    /\ aborted \in BOOLEAN /\ ticked \in BOOLEAN
    /\ sent \in BOOLEAN /\ readerEnded \in BOOLEAN
    /\ writer \in {"idle", "sending", "parting", "done"}
    /\ inflight \in Entries \cup {None}
    /\ deflating \in BOOLEAN /\ readShut \in BOOLEAN
    /\ pushed \in Nat /\ urged \in Nat /\ pings \in Nat
    /\ offered \subseteq Ticks
    /\ delivered \subseteq Ticks
    /\ shown \subseteq Ticks

Init ==
    /\ queue = {} /\ urgent = 0
    /\ closed = None /\ aborted = FALSE
    /\ ticked = FALSE /\ sent = FALSE /\ readerEnded = FALSE
    /\ writer = "idle" /\ inflight = None
    /\ deflating = FALSE /\ readShut = FALSE
    /\ pushed = 0 /\ urged = 0 /\ pings = 0
    /\ offered = {} /\ delivered = {} /\ shown = {}

-----------------------------------------------------------------------------
(* The simulation thread. *)

Open == closed = None /\ ~aborted

\* The ticks whose events an entry carries.
Carried(e) == IF e.kind = "tick" THEN e.skipped \cup {e.tick} ELSE {}

\* The tick a newer one replaces: there is at most one.
Waiting == {e \in queue : e.kind = "tick" /\ ~e.first}

\* Mutant: the replaced tick's own events are lost.
MutRideAlong == UNION {e.skipped : e \in Waiting}

\* What the newer tick carries of the ticks it replaces.
RideAlong == UNION {Carried(e) : e \in Waiting}

Hopeless(entries, skipped) ==
    \/ Cardinality(skipped) > MaxSkippedTicks
    \/ Cardinality(entries) > QueueLimit

\* push, push_chat and compress: Outbox::enqueue of anything but a tick.
enqueue(kind) ==
    LET entry == [no |-> pushed, kind |-> kind, tick |-> None, skipped |-> {},
                  first |-> FALSE]
    IN  /\ Open
        /\ pushed < MaxEntries
        /\ queue' = queue \cup {entry}
        /\ aborted' = Hopeless(queue', {})
        /\ pushed' = pushed + 1
        /\ UNCHANGED <<urgent, closed, ticked, sent, readerEnded, threads,
                       offered, delivered, shown, urged, pings>>

\* Outbox::enqueue of a tick.  The simulation queues ticks in order, though not
\* every tick: a snapshot that does not encode is never queued.
push_tick(t) ==
    LET entry == [no |-> pushed, kind |-> "tick", tick |-> t,
                  skipped |-> RideAlong, first |-> ~ticked]
    IN  /\ Open
        /\ pushed < MaxEntries
        /\ \A o \in offered : o < t
        /\ ticked' = TRUE
        /\ queue' = (queue \ Waiting) \cup {entry}
        /\ aborted' = Hopeless(queue', RideAlong)
        /\ pushed' = pushed + 1
        /\ offered' = offered \cup {t}
        /\ UNCHANGED <<urgent, closed, sent, readerEnded, threads, delivered,
                       shown, urged, pings>>

\* Outbox::close: let the peer go, or end its match.  The server lets go of a
\* connection it closes, so it closes it once.
close(parting) ==
    /\ closed = None
    /\ closed' = parting
    /\ UNCHANGED <<queue, urgent, aborted, ticked, sent, readerEnded, threads,
                   history>>

\* Connection::abort: the outbox is emptied and the socket's reading side shut.
abort ==
    /\ aborted' = TRUE
    /\ queue' = {} /\ urgent' = 0
    /\ readShut' = TRUE
    /\ UNCHANGED <<closed, ticked, sent, readerEnded, writer, inflight,
                   deflating, history>>

-----------------------------------------------------------------------------
(* The reader thread. *)

\* Outbox::push_urgent: the answer to a probe, the receipt of an order.
push_urgent ==
    /\ ~readerEnded
    /\ Open /\ urgent < UrgentLimit
    /\ urged < MaxUrgent
    /\ urgent' = urgent + 1
    /\ urged' = urged + 1
    /\ UNCHANGED <<queue, closed, aborted, ticked, sent, readerEnded, threads,
                   pushed, offered, delivered, shown, pings>>

\* The peer hangs up, breaks the protocol or falls silent: read_loop ends.
reader_gives_up ==
    /\ ~readerEnded
    /\ readerEnded' = TRUE
    /\ UNCHANGED <<queue, urgent, closed, aborted, ticked, sent, threads,
                   history>>

\* read_loop ends because its side of the connection was shut.
reader_cut_off == readShut /\ reader_gives_up

-----------------------------------------------------------------------------
(* The writer thread. *)

Front == CHOOSE e \in queue : \A f \in queue : e.no <= f.no

Unhandled == UNCHANGED <<closed, aborted, ticked, sent, readerEnded, readShut>>

\* next_step returns a ping when one is due, before anything queued.
take_ping ==
    /\ writer = "idle" /\ ~aborted
    /\ pings < MaxPings
    /\ pings' = pings + 1
    /\ writer' = "sending"
    /\ inflight' = None
    /\ Unhandled
    /\ UNCHANGED <<queue, urgent, deflating, pushed, offered, delivered, shown,
                   urged>>

take_urgent ==
    /\ writer = "idle" /\ ~aborted
    /\ urgent > 0
    /\ urgent' = urgent - 1
    /\ writer' = "sending"
    /\ inflight' = None
    /\ Unhandled
    /\ UNCHANGED <<queue, deflating, history>>

take_queued ==
    /\ writer = "idle" /\ ~aborted
    /\ urgent = 0 /\ queue # {}
    /\ queue' = queue \ {Front}
    /\ IF Front.kind = "compress"
       THEN deflating' = TRUE /\ UNCHANGED <<writer, inflight>>
       ELSE writer' = "sending" /\ inflight' = Front /\ UNCHANGED deflating
    /\ Unhandled
    /\ UNCHANGED <<urgent, history>>

Flying == IF inflight = None THEN {} ELSE Carried(inflight)

\* send_or_abort, the frames gone out.
send_succeeds ==
    /\ writer = "sending"
    /\ delivered' = delivered \cup Flying
    /\ shown' = IF Flying = {} THEN shown ELSE shown \cup {inflight.tick}
    /\ writer' = "idle"
    /\ inflight' = None
    /\ Unhandled
    /\ UNCHANGED <<queue, urgent, deflating, pushed, offered, urged, pings>>

\* send_or_abort, the frames not encoding or the sink failing: the outbox is
\* aborted.  run_writer goes back to next_step after a chat frame, which then
\* finds it aborted, and stops at once after any other.
send_fails ==
    /\ writer = "sending"
    /\ aborted' = TRUE
    /\ queue' = {} /\ urgent' = 0
    /\ inflight' = None
    /\ IF inflight # None /\ inflight.kind = "chat"
       THEN writer' = "idle" /\ UNCHANGED <<sent, readShut>>
       ELSE writer' = "done" /\ sent' = TRUE /\ readShut' = TRUE
    /\ UNCHANGED <<closed, ticked, readerEnded, deflating, history>>

\* Step::Abort: shut_read, and SentOnExit marks the writer done sending.
writer_stops ==
    /\ writer = "idle" /\ aborted
    /\ writer' = "done" /\ sent' = TRUE /\ readShut' = TRUE
    /\ UNCHANGED <<queue, urgent, closed, aborted, ticked, readerEnded,
                   inflight, deflating, history>>

\* Mutant: the writer hangs up as soon as the outbox is closed.
MutDrained == urgent = 0

Drained == urgent = 0 /\ queue = {}

\* Mutant: the queue is not waited for once the reader has ended.
MutHangUp ==
    /\ writer = "idle" /\ ~aborted
    /\ closed # None /\ (Drained \/ readerEnded)
    /\ sent' = TRUE
    /\ writer' = IF closed = "MatchOver" THEN "done" ELSE "parting"
    /\ UNCHANGED <<queue, urgent, closed, aborted, ticked, readerEnded,
                   inflight, deflating, readShut, history>>

\* Step::HangUp: the queue is drained after a close.
hang_up ==
    /\ writer = "idle" /\ ~aborted
    /\ closed # None /\ Drained
    /\ sent' = TRUE
    /\ writer' = IF closed = "MatchOver" THEN "done" ELSE "parting"
    /\ UNCHANGED <<queue, urgent, closed, aborted, ticked, readerEnded,
                   inflight, deflating, readShut, history>>

\* Mutant: the writer waits for a peer that never hangs up.
MutLingerEnds ==
    /\ writer = "parting"
    /\ readerEnded
    /\ writer' = "done"
    /\ readShut' = TRUE
    /\ UNCHANGED <<shared, inflight, deflating, history>>

\* Outbox::linger ends, with the reader or with time, and the writer shuts the
\* connection's reading side.
linger_ends ==
    /\ writer = "parting"
    /\ writer' = "done"
    /\ readShut' = TRUE
    /\ UNCHANGED <<shared, inflight, deflating, history>>

Server ==
    \/ \E kind \in Plain : enqueue(kind)
    \/ \E t \in Ticks : push_tick(t)
    \/ \E parting \in Partings : close(parting)
    \/ abort

Reader == push_urgent \/ reader_gives_up \/ reader_cut_off

Writer ==
    \/ take_ping \/ take_urgent \/ take_queued
    \/ send_succeeds \/ send_fails
    \/ writer_stops \/ hang_up \/ linger_ends

Next == Server \/ Reader \/ Writer

\* The writer runs on, a send ending one way or the other; a reader whose
\* connection was shut ends.  The peer and the simulation owe nothing.
Fairness == WF_vars(Writer) /\ WF_vars(reader_cut_off)

Spec == Init /\ [][Next]_vars /\ Fairness
-----------------------------------------------------------------------------
(* Properties. *)

Feed == INSTANCE EventFeed WITH cut <- aborted

\* A slow consumer skips states but no events: the outbox and its writer
\* implement the feed, every tick's events going out once and in order, be
\* they coalesced, in flight when the next tick comes, or overtaken by a close.
FeedRefined == Feed!FeedSafety

\* Every tick queued goes out, unless the connection is aborted.
EventsArrive == Feed!FeedLiveness

\* The first tick queued is never replaced: no peer is shown a later state
\* before it.
StartsFromTheFirst ==
    \A d \in delivered \cup shown : \E f \in shown : \A o \in offered : f <= o

\* An outbox that has not given its peer up holds no more than the limits say,
\* and at most one tick that a later one replaces.
BacklogBounded ==
    ~aborted => /\ Cardinality(queue) <= QueueLimit
                /\ \A e \in queue : Cardinality(e.skipped) <= MaxSkippedTicks
                /\ Cardinality(Waiting) <= 1

\* Outbox::wait_sent returns, with nothing aborted, only when everything queued
\* has reached the socket.
SentIsAll == sent /\ ~aborted => queue = {} /\ urgent = 0 /\ delivered = offered

\* What holds of every outbox at once: its types, its limits, the first tick
\* first, and nothing left behind when it says it is sent.
OutboxSound == TypeOK /\ BacklogBounded /\ StartsFromTheFirst /\ SentIsAll

\* A peer let go or given up costs the server its two threads for a while
\* only, though it never hangs up; and nobody waits for ever for a closed
\* outbox to be sent.
PartingEnds ==
    /\ (closed = "LetGo" \/ aborted) ~> (writer = "done" /\ readerEnded)
    /\ (closed # None) ~> sent

=============================================================================
