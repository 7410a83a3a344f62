------------------------------ MODULE OrderLine ------------------------------
(***************************************************************************)
(* A seat's orders in flight between the game loop and the simulation      *)
(* (bota_server/src/game/delay.rs).  An order is checked when it is given, *)
(* waits the seat's delay, and is checked again on the tick it is due.     *)
(*                                                                         *)
(* A line is a VecDeque pushed at the back only, so it is a set of orders  *)
(* here, each with the number `no' of its arrival: the front is the least. *)
(* What passes World::check_incoming_order, now or on the due tick, is     *)
(* the world's to say: any order may pass and any may not.                 *)
(***************************************************************************)
EXTENDS Integers, FiniteSets

CONSTANTS
    Seats,             \* the slots of the match
    Units,             \* bodies a seat may name in an order
    NoBody,            \* the key of an order that needs no body
    Connections,       \* identities of greeted connections
    Base, Jitter,      \* OrderDelay of each seat
    MaxOrderDelay,     \* MAX_ORDER_DELAY_TICKS
    MaxOrdersPerTick,  \* MAX_ORDERS_PER_TICK
    None,              \* an absent Option
    ViewLeads,         \* ticks off the present a sender may stamp
    LastGiveTick,      \* bound: orders are given up to this tick
    MaxArrivals        \* bound: orders one seat gets onto its line

Keys == Units \cup {NoBody}

\* check_order_delays: what a server starts with.
ASSUME DelaysAssumption ==
    /\ MaxOrderDelay \in Nat
    /\ MaxOrdersPerTick \in Nat \ {0}
    /\ Base \in [Seats -> Nat]
    /\ Jitter \in [Seats -> Nat]
    /\ \A s \in Seats : Base[s] + Jitter[s] <= MaxOrderDelay

ASSUME BoundsAssumption ==
    /\ LastGiveTick \in Nat
    /\ MaxArrivals \in Nat
    /\ ViewLeads \subseteq Int

VARIABLES
    tick,       \* World::tick
    finished,   \* World::map2_finished: the world steps no more
    held,       \* SeatLine::held
    burst,      \* SeatLine::burst
    measured,   \* SeatLine::measured
    settled,    \* SeatLine::settled
    arrivals    \* history: orders ever put on each line

vars == <<tick, finished, held, burst, measured, settled, arrivals>>

\* `body' is order_queues: the body carries it out.  Order::Glyph, the one order
\* with no body, is not one of those, and the others ignore the queue flag
\* (Command::queued).
Commands == {c \in [key : Keys, body : BOOLEAN, queue : BOOLEAN] :
                (c.key = NoBody => ~c.body) /\ (c.queue => c.body)}

\* HeldOrder.  `given' is history: the tick the world stood on.
HeldOrder == [no : Nat, given : Nat, due : Nat, cmd : Commands,
              seen : Nat \cup {None}, connection : Connections]

Burst == [given : Nat, due : Nat]

\* OrderSettlement; the sequence number is the arrival's.
Settlement == [no : Nat, connection : Connections, seen : Nat \cup {None},
               tick : Nat]

ASSUME NoneAssumption ==
    None \notin Nat /\ None \notin Burst /\ None \notin Settlement

TypeOK ==
    /\ tick \in Nat
    /\ finished \in BOOLEAN
    /\ held \in [Seats -> SUBSET HeldOrder]
    /\ burst \in [Seats -> Burst \cup {None}]
    /\ measured \in [Seats -> Nat \cup {None}]
    /\ settled \in [Seats -> Settlement \cup {None}]
    /\ arrivals \in [Seats -> Nat]

Init ==
    /\ tick = 0
    /\ finished = FALSE
    /\ held = [s \in Seats |-> {}]
    /\ burst = [s \in Seats |-> None]
    /\ measured = [s \in Seats |-> None]
    /\ settled = [s \in Seats |-> None]
    /\ arrivals = [s \in Seats |-> 0]

-----------------------------------------------------------------------------
(* Giving an order. *)

Back(s) == CHOOSE h \in held[s] : \A g \in held[s] : g.no <= h.no

\* Mutant: the burst of an earlier tick still names the due tick.
MutStaleBurstDue(s, jitter) ==
    IF burst[s] # None THEN burst[s].due
    ELSE LET earliest == tick + 1 + Base[s] + jitter
         IN IF held[s] = {} \/ Back(s).due <= earliest THEN earliest ELSE Back(s).due

\* The tick an order given now is due, `jitter' being the draw it would take.
due_of(s, jitter) ==
    IF burst[s] # None /\ burst[s].given = tick
    THEN burst[s].due
    ELSE LET earliest == tick + 1 + Base[s] + jitter
         IN  IF held[s] = {} \/ Back(s).due <= earliest
             THEN earliest
             ELSE Back(s).due

\* Mutant: an order to a body drops what waits for a later tick.
MutReplacedLater(s, cmd, due) ==
    {h \in held[s] : cmd.body /\ ~cmd.queue /\ h.cmd.key = cmd.key /\ h.cmd.body}

\* What an unqueued order to a body takes the place of.
replaced(s, cmd, due) ==
    IF cmd.body /\ ~cmd.queue
    THEN {h \in held[s] : h.due = due /\ h.cmd.key = cmd.key /\ h.cmd.body}
    ELSE {}

DueOn(orders, due) == {h \in orders : h.due = due}

HasRoom(orders, due) == Cardinality(DueOn(orders, due)) < MaxOrdersPerTick

\* The order passes check_incoming_order and goes on its way, or finds
\* MAX_ORDERS_PER_TICK due with it and is refused as QueueFull; the burst is
\* noted and what it replaces is gone in either case.
Admit(s, cmd, seen, connection, jitter) ==
    LET due  == due_of(s, jitter)
        kept == held[s] \ replaced(s, cmd, due)
        new  == [no |-> arrivals[s], given |-> tick, due |-> due, cmd |-> cmd,
                 seen |-> seen, connection |-> connection]
    IN  /\ burst' = [burst EXCEPT ![s] = [given |-> tick, due |-> due]]
        /\ \/ /\ HasRoom(kept, due)
              /\ held' = [held EXCEPT ![s] = kept \cup {new}]
              /\ arrivals' = [arrivals EXCEPT ![s] = @ + 1]
           \/ /\ ~HasRoom(kept, due)
              /\ held' = [held EXCEPT ![s] = kept]
              /\ UNCHANGED arrivals

\* DelayLine::give_from.  An order that fails check_incoming_order changes
\* nothing, so only the others are steps.
give_from(s, cmd, seen, connection) ==
    /\ ~finished
    /\ tick <= LastGiveTick
    /\ arrivals[s] < MaxArrivals
    /\ \E jitter \in 0..Jitter[s] : Admit(s, cmd, seen, connection, jitter)
    /\ UNCHANGED <<tick, finished, measured, settled>>

-----------------------------------------------------------------------------
(* A tick. *)

\* Mutant: an order is released only when nothing is due after it.
MutStuckReleased(s) ==
    {h \in held[s] : \A g \in held[s] : g.due = tick + 1}

\* DelayLine::release pops the front while it is due on the next tick.
Released(s) ==
    {h \in held[s] : \A g \in held[s] : g.no <= h.no => g.due = tick + 1}

Last(orders) == CHOOSE h \in orders : \A g \in orders : g.no <= h.no

\* The released orders whose delay is measured, if the world lets them by.
Stamped(s) == {h \in Released(s) : h.seen # None /\ h.seen < tick + 1}

\* The last of them that passes check_incoming_order is what is shown.
Measures(s) == {measured[s]} \cup {tick - h.seen : h \in Stamped(s)}

settle(s) ==
    IF Released(s) = {} THEN settled[s]
    ELSE LET h == Last(Released(s))
         IN  [no |-> h.no, connection |-> h.connection, seen |-> h.seen,
              tick |-> tick + 1]

\* DelayLine::advance, with the World::advance_checked it ends in: the world
\* steps, and is played out or not.  Whether a released order is applied or
\* refused matters to the line by what it measures only.
advance ==
    /\ ~finished
    /\ tick <= LastGiveTick + MaxOrderDelay
    /\ tick' = tick + 1
    /\ held' = [s \in Seats |-> held[s] \ Released(s)]
    /\ settled' = [s \in Seats |-> settle(s)]
    /\ measured' \in [Seats -> UNION {Measures(s) : s \in Seats}]
    /\ \A s \in Seats : measured'[s] \in Measures(s)
    /\ finished' \in BOOLEAN
    /\ UNCHANGED <<burst, arrivals>>

\* The view an order was given on is the sender's word: none, or a tick any of
\* ViewLeads before or past the one the world stands on.
Stamps == {None} \cup ({tick + lead : lead \in ViewLeads} \cap Nat)

Give == \E s \in Seats, cmd \in Commands, seen \in Stamps,
           connection \in Connections : give_from(s, cmd, seen, connection)

Next == Give \/ advance

Spec == Init /\ [][Next]_vars /\ WF_vars(advance)

-----------------------------------------------------------------------------
(* Properties. *)

\* Every order waits its seat's base delay and at most the jitter on top of
\* it, though it also waits for the orders before it, and none outlives its
\* tick: the assertion in DelayLine::release.
DelayWithinBounds ==
    \A s \in Seats : \A h \in held[s] :
        /\ h.due >= h.given + 1 + Base[s]
        /\ h.due <= h.given + 1 + Base[s] + Jitter[s]
        /\ h.due >= tick + 1

\* Orders never overtake one another (SeatLine::held).
NoOvertaking ==
    \A s \in Seats : \A g, h \in held[s] : g.no < h.no => g.due <= h.due

\* Every order given while the world stands on one tick is due together
\* (SeatLine::burst), whatever was replaced or refused in between.
DueTogether ==
    \A s \in Seats : \A g, h \in held[s] : g.given = h.given => g.due = h.due

LineOrder == NoOvertaking /\ DueTogether

\* At most MAX_ORDERS_PER_TICK orders of a seat are due on one tick, and a line
\* never outgrows the length give_from asserts.
TickBounded ==
    \A s \in Seats : \A h \in held[s] :
        Cardinality(DueOn(held[s], h.due)) <= MaxOrdersPerTick

LineBounded ==
    /\ TickBounded
    /\ \A s \in Seats :
          Cardinality(held[s]) <= (MaxOrderDelay + 1) * MaxOrdersPerTick

\* The last unqueued order given to a body for a tick is the first thing the
\* body is told on it: no earlier order to that body is still due then.
LastCommandWins ==
    \A s \in Seats : \A g, h \in held[s] :
        (/\ g.due = h.due /\ g.cmd.key = h.cmd.key
         /\ g.cmd.body /\ h.cmd.body /\ ~h.cmd.queue) => h.no <= g.no

\* What holds of every line at once: its types, the delays it was given, the
\* order of arrival kept, no tick and no line overfull, the last command first.
LineSound == TypeOK /\ DelayWithinBounds /\ LineOrder /\ LineBounded /\ LastCommandWins

\* An order refused as QueueFull cancels nothing, though give_from removes
\* what the order replaces before it counts.
RefusalCancelsNothing ==
    [][tick' = tick /\ arrivals' = arrivals => held' = held]_vars

\* A seat's orders settle in the order it gave them, over any number of ticks.
SettledInOrder ==
    [][\A s \in Seats : settled[s] # None /\ settled'[s] # settled[s]
            => settled'[s].no > settled[s].no]_vars

\* What a seat is told of its orders is right: one refused has changed nothing,
\* and those settled are settled in order (DelayLine::give_from, release).
AnswersRight == RefusalCancelsNothing /\ SettledInOrder

\* Every order on a line leaves it, applied, refused or replaced, unless the
\* match ends first.
EveryOrderLeaves ==
    \A s \in Seats, n \in 0..(MaxArrivals - 1) :
        (\E h \in held[s] : h.no = n)
            ~> (finished \/ ~\E h \in held[s] : h.no = n)

\* "a later Glyph replacing an earlier one" (bota_proto/src/contract.rs:240): at
\* most one order that needs no body is due on a tick.
OneGlyphPerTick ==
    \A s \in Seats : \A g, h \in held[s] :
        g.cmd.key = NoBody /\ h.cmd.key = NoBody /\ g.due = h.due => g = h
=============================================================================
