------------------------------ MODULE Inbound ------------------------------
(***************************************************************************)
(* What the reader threads queue for the simulation (net/inbound.rs,       *)
(* net/conn.rs read_loop): a message holds one place of the server's       *)
(* budget and one of its peer's from before it is sent until the           *)
(* simulation, or whoever drops it, lets go of it.  Both counters are      *)
(* atomic, each on its own: every touch of one is a step here.             *)
(***************************************************************************)
EXTENDS Naturals, Sequences, FiniteSets

CONSTANTS
    Peers,
    MaxQueued,      \* MAX_QUEUED_CLIENT_MESSAGES
    MaxPerPeer,     \* MAX_QUEUED_MESSAGES_PER_PEER
    MaxFrames       \* bound: messages one peer ever sends

InboundAssumption ==
    /\ IsFiniteSet(Peers)
    /\ MaxQueued \in Nat /\ MaxPerPeer \in Nat \ {0}
    /\ MaxPerPeer <= MaxQueued
    /\ MaxFrames \in Nat

VARIABLES
    global,     \* InboundBudget
    queued,     \* PeerBudget::queued, of each peer
    channel,    \* the events on their way to the simulation
    reader,     \* where each reader thread stands
    frames,     \* data messages each reader decoded so far
    listening,  \* the simulation still holds the receiving end
    hand,       \* the event the simulation let go of half of, or none
    heard,      \* history: messages of each peer taken in, in order
    told        \* history: peers whose end the simulation was told

vars == <<global, queued, channel, reader, frames, listening, hand, heard, told>>

\* reading: at next_frame.  half: holds a place of the server's budget.
\* charged: holds both.  refused: gives the first one back.  unheard: its
\* event came back, both places with it; then half of that is undone.
\* draining: reads on though nobody listens.  breached, gone: the loop is left.
ReaderStates == {"reading", "half", "charged", "refused", "unheard", "freeing",
                 "draining", "breached", "gone", "ended"}

Event == [kind : {"msg", "end"}, peer : Peers, no : 0..MaxFrames]

TypeOK ==
    /\ global \in 0..MaxQueued
    /\ queued \in [Peers -> 0..MaxPerPeer]
    /\ channel \in Seq(Event)
    /\ reader \in [Peers -> ReaderStates]
    /\ frames \in [Peers -> 0..MaxFrames]
    /\ listening \in BOOLEAN
    /\ hand \in {<<>>} \cup {<<p>> : p \in Peers}
    /\ heard \in [Peers -> Seq(1..MaxFrames)]
    /\ told \subseteq Peers

Init ==
    /\ global = 0
    /\ queued = [p \in Peers |-> 0]
    /\ channel = <<>>
    /\ reader = [p \in Peers |-> "reading"]
    /\ frames = [p \in Peers |-> 0]
    /\ listening = TRUE
    /\ hand = <<>>
    /\ heard = [p \in Peers |-> <<>>]
    /\ told = {}

Moves(p, from, to) == reader[p] = from /\ reader' = [reader EXCEPT ![p] = to]

-----------------------------------------------------------------------------
(* The reader thread of a peer. *)

\* A message is decoded and PeerBudget::queue takes its place in the server's
\* budget, or breaks the connection off.
reserve_global(p) ==
    /\ frames[p] < MaxFrames
    /\ frames' = [frames EXCEPT ![p] = @ + 1]
    /\ IF global < MaxQueued
       THEN global' = global + 1 /\ Moves(p, "reading", "half")
       ELSE Moves(p, "reading", "breached") /\ UNCHANGED global
    /\ UNCHANGED <<queued, channel, listening, hand, heard, told>>

reserve_own(p) ==
    /\ IF queued[p] < MaxPerPeer
       THEN queued' = [queued EXCEPT ![p] = @ + 1] /\ Moves(p, "half", "charged")
       ELSE Moves(p, "half", "refused") /\ UNCHANGED queued
    /\ UNCHANGED <<global, channel, frames, listening, hand, heard, told>>

\* Mutant: the refusal keeps the place already taken.
MutGiveBack(p) ==
    /\ Moves(p, "refused", "breached")
    /\ UNCHANGED <<global, queued, channel, frames, listening, hand, heard, told>>

\* The refused message gives back the server's place: Breach::InputBacklog.
give_back(p) ==
    /\ Moves(p, "refused", "breached")
    /\ global' = global - 1
    /\ UNCHANGED <<queued, channel, frames, listening, hand, heard, told>>

\* ReaderEvents::data sends the message, its places with it.
send(p) ==
    /\ IF listening
       THEN /\ Moves(p, "charged", "reading")
            /\ channel' = Append(channel, [kind |-> "msg", peer |-> p, no |-> frames[p]])
       ELSE Moves(p, "charged", "unheard") /\ UNCHANGED channel
    /\ UNCHANGED <<global, queued, frames, listening, hand, heard, told>>

\* The event nobody took is dropped: Reservation::drop, its two steps.
drop_unheard(p) ==
    /\ queued' = [queued EXCEPT ![p] = @ - 1]
    /\ Moves(p, "unheard", "freeing")
    /\ UNCHANGED <<global, channel, frames, listening, hand, heard, told>>

freed(p) ==
    /\ global' = global - 1
    /\ Moves(p, "freeing", "draining")
    /\ UNCHANGED <<queued, channel, frames, listening, hand, heard, told>>

\* The peer floods, sends what does not decode, hangs up or falls silent.
breaks_off(p) ==
    /\ \/ Moves(p, "reading", "breached")
       \/ Moves(p, "reading", "gone")
       \/ Moves(p, "draining", "ended")
    /\ UNCHANGED <<global, queued, channel, frames, listening, hand, heard, told>>

\* The loop left, its end is told outside the budget.
report_end(p) ==
    /\ reader[p] \in {"breached", "gone"}
    /\ reader' = [reader EXCEPT ![p] = "ended"]
    /\ channel' = IF listening
                  THEN Append(channel, [kind |-> "end", peer |-> p, no |-> 0])
                  ELSE channel
    /\ UNCHANGED <<global, queued, frames, listening, hand, heard, told>>

-----------------------------------------------------------------------------
(* The simulation thread. *)

\* It receives an event.  A message gives its peer's place back first, heard
\* or, once its connection is dropped, not.
receive ==
    /\ listening /\ hand = <<>> /\ channel # <<>>
    /\ channel' = Tail(channel)
    /\ LET e == Head(channel)
       IN  IF e.kind = "msg"
           THEN /\ queued' = [queued EXCEPT ![e.peer] = @ - 1]
                /\ hand' = <<e.peer>>
                /\ heard' = [heard EXCEPT ![e.peer] = Append(@, e.no)]
                /\ UNCHANGED told
           ELSE told' = told \cup {e.peer} /\ UNCHANGED <<queued, hand, heard>>
    /\ UNCHANGED <<global, reader, frames, listening>>

\* Then the server's.
release ==
    /\ hand # <<>>
    /\ global' = global - 1
    /\ hand' = <<>>
    /\ UNCHANGED <<queued, channel, reader, frames, listening, heard, told>>

\* The match is over: the receiving end goes, and with it what it still held,
\* one event after the other.
stop_listening ==
    /\ listening /\ hand = <<>>
    /\ listening' = FALSE
    /\ UNCHANGED <<global, queued, channel, reader, frames, hand, heard, told>>

discard ==
    /\ ~listening /\ hand = <<>> /\ channel # <<>>
    /\ channel' = Tail(channel)
    /\ LET e == Head(channel)
       IN  IF e.kind = "msg"
           THEN queued' = [queued EXCEPT ![e.peer] = @ - 1] /\ hand' = <<e.peer>>
           ELSE UNCHANGED <<queued, hand>>
    /\ UNCHANGED <<global, reader, frames, listening, heard, told>>

Simulation == receive \/ release \/ discard

ReaderSteps(p) ==
    \/ reserve_own(p) \/ give_back(p) \/ send(p)
    \/ drop_unheard(p) \/ freed(p) \/ report_end(p)

Next ==
    \/ \E p \in Peers : reserve_global(p) \/ ReaderSteps(p) \/ breaks_off(p)
    \/ Simulation
    \/ stop_listening

\* Threads run on; a peer owes no message and the match may go on for ever.
Fairness ==
    /\ WF_vars(Simulation)
    /\ \A p \in Peers : WF_vars(ReaderSteps(p))

Spec == Init /\ [][Next]_vars /\ Fairness
-----------------------------------------------------------------------------
(* Properties. *)

Msgs(ps) == [kind : {"msg"}, peer : ps, no : 0..MaxFrames]

\* The places in the channel that messages of these peers stand in.
InFlight(ps) == {i \in DOMAIN channel : channel[i] \in Msgs(ps)}

\* Places of its own share a peer holds: its messages on their way and the one
\* its reader has in hand.
OwnPlaces(p) ==
    Cardinality(InFlight({p})) + (IF reader[p] \in {"charged", "unheard"} THEN 1 ELSE 0)

\* Readers that hold a place of the server's budget for no message sent yet.
Charging == {p \in Peers : reader[p] \in {"half", "charged", "refused", "unheard",
                                          "freeing"}}

\* No place is lost or given back twice, whatever the order readers and
\* simulation touch the two counters in: the assertions of Reservation::drop
\* hold and a budget with nothing queued is whole.
BudgetExact ==
    /\ \A p \in Peers : queued[p] = OwnPlaces(p)
    /\ global = Cardinality(InFlight(Peers)) + Cardinality(Charging) + Len(hand)

\* One peer can queue no more than its share, all of them no more than the
\* server's budget, and a terminal event is never kept out by either.
SharesHold ==
    /\ \A p \in Peers : Cardinality(InFlight({p})) <= MaxPerPeer
    /\ Len(channel) <= MaxQueued + Cardinality(Peers)

\* No message is silently dropped: what is heard of a peer is what it sent
\* from the first on, and a peer whose end is told was heard but for the one
\* message that broke its budget.
PrefixHeard ==
    \A p \in Peers :
        /\ \A n \in DOMAIN heard[p] : heard[p][n] = n
        /\ p \in told => frames[p] - Len(heard[p]) \in {0, 1}

\* The end of every connection reaches the simulation, though no message of it
\* would; a match over is the exception.
EndTold == \A p \in Peers : (reader[p] \in {"breached", "gone"}) ~> (p \in told \/ ~listening)

\* Once nobody listens, all that was held comes back.
BudgetReturned == ~listening ~> [](channel = <<>> /\ global = Cardinality(Charging))

\* What holds of the budget at once, whatever readers and simulation do to its
\* counters: exact, within its shares, and nothing heard with a gap.
BudgetHolds == TypeOK /\ BudgetExact /\ SharesHold /\ PrefixHeard

\* Every end is told and every place comes back, in the end.
EndsTold == EndTold /\ BudgetReturned
=============================================================================
