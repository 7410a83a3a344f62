----------------------------- MODULE MatchLoop -----------------------------
(***************************************************************************)
(* The simulation thread while a match runs (bota_server/src/game_loop.rs, *)
(* match_phase): it waits a tick out, hearing what the connections say,    *)
(* steps the world, and ends the match when it is decided, forfeited or    *)
(* deserted.                                                               *)
(*                                                                         *)
(* Ticks are not counted.  What matters of a tick is who was sent it and   *)
(* who acknowledged it, and that is forgotten when the next one comes.     *)
(* Orders go on their way in OrderLine; watchers, chat and compression     *)
(* move no seat and are left out.                                          *)
(***************************************************************************)
EXTENDS Integers, FiniteSets, Sequences

CONSTANTS
    Seats,        \* slots, numbers
    TeamOf,       \* [Seats -> {"Radiant", "Dire"}]
    Connections,  \* PlayerId
    Keys,         \* SeatKey
    None,         \* an absent Option
    Matches,      \* bound: what a match may begin with, [opts, lineup]: its
                  \* options, of Opts, and [key, player] of each seat
    MaxQueue      \* bound: events waiting at once

Teams == {"Radiant", "Dire"}

\* ServerOpts::mode, and whether ServerOpts::empty_after is set.
Opts == [mode : {"Realtime", "Lockstep"}, emptyAfter : BOOLEAN]

\* The seats as the lobby leaves them: a connection holds one at most (Lobby's
\* SeatsHeldOnce).
WellSeated(lineup) ==
    /\ lineup \in [Seats -> [key : Keys \cup {None}, player : Connections \cup {None}]]
    /\ \A s, t \in Seats :
          lineup[s].player # None /\ lineup[s].player = lineup[t].player => s = t

ASSUME MatchAssumption ==
    /\ Seats \subseteq Nat
    /\ TeamOf \in [Seats -> Teams]
    /\ \A m \in Matches : m.opts \in Opts /\ WellSeated(m.lineup)
    /\ None \notin Connections \cup Keys
    /\ MaxQueue \in Nat

VARIABLES
    opts,     \* Server::opts
    key,      \* [Seats -> Keys \cup {None}]: the key reserved or claimed
    seated,   \* Inbox::seated
    player,   \* RosterSeat::player
    left,     \* Server::left, in the order they left
    conn,     \* "out", "in" or "gone": Server::conns
    peer,     \* the other end: "out", "dialed", "talking" or "hungup"
    rx,       \* Server::rx: the events not heard yet
    acked,    \* [Seats -> BOOLEAN]: Inbox::acked has this tick
    due,      \* gather_input's deadline has passed
    empty,    \* empty_since: "no", "since" or "past" empty_after
    pc,       \* where the thread stands
    outcome,  \* MatchEnd::Over: [winner, left]
    sent,     \* history: connections sent the tick the world stands on
    answered  \* history: connections heard to acknowledge it, or to say Hello
              \* again, which counts as that

vars == <<opts, key, seated, player, left, conn, peer, rx, acked, due, empty, pc,
          outcome, sent, answered>>

Event == [kind : {"connected", "hello", "ack", "leave", "gone"},
          conn : Connections, key : Keys \cup {None}, fresh : BOOLEAN]

Outcome == [winner : Teams \cup {"Neutral"}, left : Seats \cup {None}]

Ended == pc \in {"over", "abandoned"}

TypeOK ==
    /\ opts \in Opts
    /\ key \in [Seats -> Keys \cup {None}]
    /\ seated \in [Seats -> BOOLEAN]
    /\ player \in [Seats -> Connections \cup {None}]
    /\ left \in Seq(Seats)
    /\ conn \in [Connections -> {"out", "in", "gone"}]
    /\ peer \in [Connections -> {"out", "dialed", "talking", "hungup"}]
    /\ rx \in Seq(Event)
    /\ acked \in [Seats -> BOOLEAN]
    /\ due \in BOOLEAN
    /\ empty \in {"no", "since", "past"}
    /\ pc \in {"begin", "gather", "check", "advance", "over", "abandoned"}
    /\ outcome \in Outcome \cup {None}
    /\ sent \subseteq Connections /\ answered \subseteq Connections

Left == {left[i] : i \in DOMAIN left}

\* The lobby hands over the roster; a seat nobody came for may be a dummy, or
\* wait for its key.  Nothing is acknowledged, and nothing need be: the world
\* stands on tick 0.
Init ==
    /\ \E m \in Matches :
          /\ opts = m.opts
          /\ key = [s \in Seats |-> m.lineup[s].key]
          /\ player = [s \in Seats |-> m.lineup[s].player]
    /\ seated = [s \in Seats |-> player[s] # None]
    /\ left = <<>>
    /\ conn = [c \in Connections |->
                  IF \E s \in Seats : player[s] = c THEN "in" ELSE "out"]
    /\ peer = [c \in Connections |->
                  IF \E s \in Seats : player[s] = c THEN "talking" ELSE "out"]
    /\ rx = <<>>
    /\ acked = [s \in Seats |-> TRUE]
    /\ due = FALSE
    /\ empty = "no"
    /\ pc = "begin"
    /\ outcome = None
    /\ sent = {} /\ answered = {}

Remaining == Seats \ Left
SeatOf(c) == {s \in Seats : player[s] = c}
greeted(c) == SeatOf(c) # {}

-----------------------------------------------------------------------------
(* The other ends, and the reader threads that queue what they say.  An     *)
(* acknowledgement is of the tick last sent, so the next tick makes it old. *)

Queue(kind, c, k) ==
    /\ ~Ended
    /\ Len(rx) < MaxQueue
    /\ rx' = Append(rx, [kind |-> kind, conn |-> c, key |-> k, fresh |-> TRUE])
    /\ UNCHANGED <<opts, key, seated, player, left, conn, acked, due, empty, pc,
                   outcome, sent, answered>>

dials(c) ==
    /\ peer[c] = "out"
    /\ peer' = [peer EXCEPT ![c] = "dialed"]
    /\ Queue("connected", c, None)

\* Only a connection that was adopted has a reader to queue what it says.
\* It may say Hello again; nobody reads the key of that.
says_hello(c) ==
    /\ peer[c] \in {"dialed", "talking"} /\ conn[c] = "in"
    /\ ~\E i \in DOMAIN rx : rx[i].kind = "hello" /\ rx[i].conn = c
    /\ peer' = [peer EXCEPT ![c] = "talking"]
    /\ \E k \in Keys \cup {None} : (peer[c] = "talking" => k = None) /\ Queue("hello", c, k)

acknowledges(c) ==
    /\ peer[c] = "talking" /\ c \in sent
    /\ ~\E i \in DOMAIN rx : rx[i].kind = "ack" /\ rx[i].conn = c
    /\ UNCHANGED peer
    /\ Queue("ack", c, None)

leaves(c) ==
    /\ peer[c] = "talking"
    /\ ~\E i \in DOMAIN rx : rx[i].kind = "leave" /\ rx[i].conn = c
    /\ UNCHANGED peer
    /\ Queue("leave", c, None)

hangs_up(c) ==
    /\ peer[c] \in {"dialed", "talking"} /\ conn[c] = "in"
    /\ peer' = [peer EXCEPT ![c] = "hungup"]
    /\ Queue("gone", c, None)

Peers == \E c \in Connections :
    dials(c) \/ says_hello(c) \/ acknowledges(c) \/ leaves(c) \/ hangs_up(c)

-----------------------------------------------------------------------------
(* gather_input: the tick is waited out. *)

Strangers == {c \in Connections : conn[c] = "in" /\ ~greeted(c)}

\* drop_strangers lets any number of them go, then the wait begins, its
\* deadline past already or not.
begins(late) ==
    /\ pc = "begin"
    /\ \E old \in SUBSET Strangers :
          conn' = [c \in Connections |-> IF c \in old THEN "gone" ELSE conn[c]]
    /\ due' = late
    /\ pc' = "gather"
    /\ UNCHANGED <<opts, key, seated, player, left, peer, rx, acked, empty, outcome,
                   sent, answered>>

begins_on_time == begins(FALSE)

\* In real time the tick before may have run over.
begins_late == opts.mode = "Realtime" /\ begins(TRUE)

\* Mutant: one acknowledgement is enough.
MutSomeAcked == \E s \in Remaining : player[s] # None => acked[s]

\* Every connected seat still playing has acknowledged the tick.
all_acked == \A s \in Remaining : player[s] # None => acked[s]

\* Mutant: acknowledgements end the wait in real time too.
MutGatherOverEarly == all_acked \/ due

GatherOver == (opts.mode = "Lockstep" /\ all_acked) \/ due

\* Mutant: a seat that was left is there for its key.
MutEntitled(k) == {s \in Seats : k # None /\ key[s] = k /\ player[s] = None}

\* The seat a Hello takes: its key's, that nobody holds and nobody left.
Entitled(k) ==
    {s \in Seats : /\ k # None /\ key[s] = k
                   /\ s \notin Left /\ player[s] = None}

ack(c, fresh) ==
    /\ acked' = [s \in Seats |-> acked[s] \/ (player[s] = c /\ fresh)]
    /\ answered' = IF fresh THEN answered \cup {c} ELSE answered
    /\ UNCHANGED <<player, left, conn>>

\* receive_in_match of a Hello: greet, take_seat.  Whoever takes a seat was not
\* sent the tick the world stands on, so it need not acknowledge it.  A second
\* Hello takes nothing, but counts as an acknowledgement of that tick.
greet(c, k) ==
    IF greeted(c) THEN ack(c, TRUE)
    ELSE \/ \E s \in Entitled(k) :
               /\ player' = [player EXCEPT ![s] = c]
               /\ acked' = [acked EXCEPT ![s] = TRUE]
               /\ UNCHANGED <<left, conn, answered>>
         \/ /\ Entitled(k) = {}
            /\ conn' = [conn EXCEPT ![c] = "gone"]
            /\ UNCHANGED <<player, acked, left, answered>>

leave_game(c) ==
    /\ \/ \E s \in SeatOf(c) : left' = Append(left, s)
       \/ SeatOf(c) = {} /\ UNCHANGED left
    /\ UNCHANGED <<player, acked, conn, answered>>

\* Mutant: the seat is not opened.
MutLoseConn(c) ==
    /\ conn' = [conn EXCEPT ![c] = "gone"]
    /\ UNCHANGED <<player, left, acked, answered>>

\* A Disconnected or Breached event, or a Catalogue that differs: the seat
\* opens, and its key stays.
lose_conn(c) ==
    /\ player' = [s \in Seats |-> IF player[s] = c THEN None ELSE player[s]]
    /\ conn' = [conn EXCEPT ![c] = "gone"]
    /\ UNCHANGED <<left, acked, answered>>

\* Server::adopt: the stream gets a number and a reader.
adopt(c) ==
    /\ conn' = [conn EXCEPT ![c] = "in"]
    /\ UNCHANGED <<player, acked, left, answered>>

\* What a seat that left, or a connection already dropped, still says.
Unheard(event) ==
    \/ event.kind # "connected" /\ conn[event.conn] # "in"
    \/ event.kind \in {"hello", "ack", "leave"} /\ SeatOf(event.conn) \cap Left # {}

\* hear, then receive_in_match.
hear(event) ==
    IF Unheard(event) THEN UNCHANGED <<player, acked, left, conn, answered>>
    ELSE \/ event.kind = "connected" /\ adopt(event.conn)
         \/ event.kind = "gone" /\ lose_conn(event.conn)
         \/ event.kind = "hello" /\ greet(event.conn, event.key)
         \/ event.kind = "ack" /\ ack(event.conn, event.fresh)
         \/ event.kind = "leave" /\ leave_game(event.conn)

hears ==
    /\ pc = "gather" /\ ~GatherOver
    /\ rx # <<>>
    /\ hear(Head(rx))
    /\ rx' = Tail(rx)
    /\ UNCHANGED <<opts, key, seated, peer, due, empty, pc, outcome, sent>>

deadline_passes ==
    /\ pc = "gather" /\ ~GatherOver
    /\ due' = TRUE
    /\ UNCHANGED <<opts, key, seated, player, left, conn, peer, rx, acked, empty, pc,
                   outcome, sent, answered>>

gather_ends ==
    /\ pc = "gather" /\ GatherOver
    /\ pc' = "check"
    /\ UNCHANGED <<opts, key, seated, player, left, conn, peer, rx, acked, due,
                   empty, outcome, sent, answered>>

-----------------------------------------------------------------------------
(* deserted, the world's step, and the end. *)

returnable == \E s \in Remaining : key[s] # None

Occupied == \E s \in Remaining : player[s] # None

TeamGone(team) ==
    LET held == {s \in Seats : seated[s] /\ TeamOf[s] = team}
    IN  held # {} /\ held \subseteq Left

Other(team) == IF team = "Radiant" THEN "Dire" ELSE "Radiant"

\* Mutant: a side that left loses though the other left too.
MutForfeits == {team \in Teams : TeamGone(team)}

\* The team that lost by leaving, if one did.
Forfeits == {team \in Teams : TeamGone(team) /\ ~TeamGone(Other(team))}

\* The first seat of a team to leave.
Leaver(team) ==
    left[CHOOSE i \in DOMAIN left :
            /\ TeamOf[left[i]] = team
            /\ \A j \in 1..(i - 1) : TeamOf[left[j]] # team]

\* Nobody is there, and nobody may come back or nobody did in time.
deserted == ~Occupied /\ (~returnable \/ (opts.emptyAfter /\ empty = "past"))

\* Mutant: the time a match stands empty starts anew every tick.
MutChecks ==
    /\ pc = "check"
    /\ empty' = IF Occupied THEN "no" ELSE "since"
    /\ pc' = IF ~Occupied /\ ~returnable /\ Forfeits = {} THEN "abandoned" ELSE "advance"
    /\ UNCHANGED <<opts, key, seated, player, left, conn, peer, rx, acked, due,
                   outcome, sent, answered>>

checks ==
    /\ pc = "check"
    /\ empty' = IF Occupied THEN "no"
                ELSE IF returnable /\ empty = "no" THEN "since" ELSE empty
    /\ pc' = IF deserted /\ Forfeits = {} THEN "abandoned" ELSE "advance"
    /\ UNCHANGED <<opts, key, seated, player, left, conn, peer, rx, acked, due,
                   outcome, sent, answered>>

time_passes ==
    /\ empty = "since"
    /\ opts.emptyAfter
    /\ empty' = "past"
    /\ UNCHANGED <<opts, key, seated, player, left, conn, peer, rx, acked, due, pc,
                   outcome, sent, answered>>

Old(event) == [event EXCEPT !.fresh = FALSE]

\* DelayLine::advance and publish_tick: the next tick is sent to every
\* connection greeted, and the world has a winner, or the forfeit stands, or
\* the match goes on.
advances ==
    /\ pc = "advance"
    /\ sent' = {c \in Connections : greeted(c)}
    /\ answered' = {}
    /\ acked' = [s \in Seats |-> FALSE]
    /\ rx' = [i \in DOMAIN rx |-> Old(rx[i])]
    /\ \/ \E winner \in Teams \cup {"Neutral"} :
             /\ outcome' = [winner |-> winner, left |-> None]
             /\ pc' = "over"
       \/ \E team \in Forfeits :
             /\ outcome' = [winner |-> Other(team), left |-> Leaver(team)]
             /\ pc' = "over"
       \/ /\ Forfeits = {}
          /\ pc' = "begin"
          /\ UNCHANGED outcome
    /\ UNCHANGED <<opts, key, seated, player, left, conn, peer, due, empty>>

Thread == begins_on_time \/ begins_late \/ gather_ends \/ checks \/ advances

Next == Peers \/ Thread \/ hears \/ deadline_passes \/ time_passes

\* The thread runs on and time passes.  In real time it keeps pace: it begins a
\* tick on time, and has the time to hear an event, again and again (SF, for a
\* tick may run over and a deadline pass first).
Fairness ==
    /\ WF_vars(Thread)
    /\ WF_vars(deadline_passes) /\ WF_vars(time_passes)
    /\ SF_vars(begins_on_time) /\ SF_vars(hears)

Spec == Init /\ [][Next]_vars /\ Fairness

-----------------------------------------------------------------------------
(* Properties. *)

\* A seat is held by a connection that is there, and a connection holds one
\* seat at most, through every loss and return.
SeatsHeldOnce ==
    /\ TypeOK
    /\ \A s \in Seats : player[s] # None => conn[player[s]] = "in"
    /\ \A s, t \in Seats : player[s] # None /\ player[s] = player[t] => s = t

\* A seat left for good stays so: nobody takes it again (take_seat), and it is
\* told to have left once.
LeaverStaysOut ==
    [][/\ \A s \in Left : /\ s \in Left'
                          /\ player'[s] \in {player[s], None}
       /\ Cardinality(Left') = Len(left')]_vars

\* In lockstep the world steps before the timeout only when everybody playing
\* who was sent the tick has itself been heard since, acknowledging it or saying
\* Hello again (receive_in_match takes that for an acknowledgement of the tick
\* the world stands on, even one said before it): a seat that changed hands on
\* the tick is not taken as having answered, nor waited for.
TickAwaitsAnswers ==
    [][opts.mode = "Lockstep" /\ pc = "advance" /\ pc' # pc /\ ~due =>
          \A s \in Remaining :
              player[s] \in sent => player[s] \in answered]_vars

\* A match is given up only with no seat held by a player still in it, and
\* then only when none can be taken back, unless empty_after says so; and a
\* side that forfeits has nobody of the start left, and the side that wins by it
\* has not left too.
EndsRightly ==
    /\ pc = "abandoned" =>
          /\ ~Occupied
          /\ ~opts.emptyAfter => ~\E s \in Seats : s \notin Left /\ key[s] # None
    /\ pc = "over" /\ outcome.left # None =>
          /\ \A s \in Seats :
                seated[s] /\ TeamOf[s] # outcome.winner => s \in Left
          /\ TeamOf[outcome.left] # outcome.winner
          /\ ~TeamGone(outcome.winner)

\* Once a side has left for good, or nobody is left who could play, the match
\* ends; and one that stands empty ends, or is joined, when it was told to give
\* up on one.
MatchEnds ==
    /\ (Forfeits # {} \/ Remaining = {}) ~> Ended
    /\ (opts.emptyAfter /\ empty # "no") ~> (Occupied \/ Ended)

Waiting == {c \in Connections : peer[c] = "dialed" /\ conn[c] = "out"}

\* "A seat's player may connect again at any moment while the match runs and
\* take the seat back, once its old connection has ended or been found dead"
\* (bota_proto/src/contract.rs:468): a connection that comes is heard.  Each
\* comes once, so it is enough that again and again none waits.
NewcomersHeard == []<>(Waiting = {} \/ Ended)

\* In real time a connection that comes is heard though no seat is connected.
HeardInRealTime == opts.mode = "Realtime" => NewcomersHeard

\* "Which seats were held when the match began: only those can leave it."
\* (bota_server/src/game_loop.rs:536)
LeaversWereSeated == \A s \in Left : seated[s]
=============================================================================
