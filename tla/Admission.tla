----------------------------- MODULE Admission -----------------------------
(***************************************************************************)
(* Who is let in (game_loop.rs adopt, make_room, greet, hear; net/pending, *)
(* net/source, net/conn LiveConnections; game_loop/participants).  A       *)
(* connection is a stranger until its Hello is accepted, and again once    *)
(* let go unaccepted.  Strangers are bounded by source and make room for   *)
(* one another; whoever said Hello is never let go for room.               *)
(*                                                                         *)
(* Connections are numbered in the order they are adopted.  A message   *)
(* of a connection no longer listed is not heard (Server::hear), so one is *)
(* heard as it is sent.                                                    *)
(***************************************************************************)
EXTENDS Integers, FiniteSets, FiniteSetsExt, Functions

CONSTANTS
    Sources,          \* narrowest groups of addresses
    NoSource,         \* the peer whose address the transport cannot tell
    Site,             \* the wider group a source belongs to
    MaxPerSource,     \* MAX_PER_IPV4, MAX_PER_IPV6_64
    MaxPerSite,       \* MAX_PER_IPV6_48
    MaxPending,       \* MAX_PENDING_CONNECTIONS
    MaxConnections,   \* ServerOpts::max_connections
    ShareDivisor,     \* STRANGERS_SHARE_DIVISOR
    MaxWatchers,      \* MAX_WATCHERS_PER_GROUP
    MaxPerSeat,       \* ServerOpts::max_spectators_per_seat
    Numbers,          \* WATCHERS_FROM - 1: numbers of each kind there are
    Seats,            \* the slots, 1..n
    None,
    Peers,            \* bound: who dials, of the sources and NoSource
    Messages,         \* bound: what peers say
    MaxIds            \* bound: connections ever adopted

Ids == 1..MaxIds
\* A Hello for a seat, to watch, to watch with a key or as a referee, one not
\* admitted at all; and a catalogue that does not agree with the server's.
Hellos == {"player", "watcher", "keyed", "referee", "unfit"}

AdmissionAssumption ==
    /\ NoSource \notin Sources /\ DOMAIN Site = Sources
    /\ {MaxPerSource, MaxPerSite, MaxPending, MaxConnections, ShareDivisor,
        MaxWatchers, MaxPerSeat, Numbers} \subseteq Nat \ {0}
    /\ Peers \subseteq Sources \cup {NoSource}
    /\ Messages \subseteq Hellos \cup {"misfit"}
    /\ Seats \subseteq Nat /\ None \notin Ids \cup Seats /\ MaxIds \in Nat

VARIABLES
    pending,     \* accepted streams of each peer waiting for adoption
    next_player, \* Server::next_player
    conns,       \* Server::conns
    parting,     \* Server::parting
    from,        \* Connection::peer of those listed or parting
    reader,      \* each connection's reader thread, its end on the way or heard
    writer,      \* the connections whose writer thread runs
    roster,      \* the connection that holds each seat, or None
    spectators,  \* Server::spectators: the eyes of each watcher, or None
    referees,    \* Server::referees
    told,        \* participants::Told::ids
    given,       \* participants::Told: the numbers handed out, by kind
    welcomed     \* history: the connections ever greeted with a number

people == <<roster, spectators, referees, told, given, welcomed>>
vars == <<pending, next_player, conns, parting, from, reader, writer, people>>

Watchers == DOMAIN spectators

TypeOK ==
    /\ pending \in [Peers -> 0..MaxPerSource]
    /\ next_player \in 1..(MaxIds + 1)
    /\ conns \subseteq Ids /\ parting \subseteq Ids
    /\ from \in [conns \cup parting -> Peers]
    /\ reader \in [Ids -> {"none", "reading", "gone", "breach", "ended"}]
    /\ writer \subseteq Ids
    /\ roster \in [Seats -> Ids \cup {None}]
    /\ Watchers \subseteq Ids /\ \A w \in Watchers : spectators[w] \in Seats \cup {None}
    /\ referees \subseteq Ids /\ told \subseteq Ids /\ welcomed \subseteq Ids
    /\ given \in [{"seats", "watchers"} -> 0..Numbers]

Init ==
    /\ pending = [p \in Peers |-> 0]
    /\ next_player = 1
    /\ conns = {} /\ parting = {}
    /\ from = [i \in {} |-> NoSource]
    /\ reader = [i \in Ids |-> "none"] /\ writer = {}
    /\ roster = [s \in Seats |-> None]
    /\ spectators = [i \in {} |-> None]
    /\ referees = {} /\ told = {} /\ welcomed = {}
    /\ given = [k \in {"seats", "watchers"} |-> 0]

Seated(i) == \E s \in Seats : roster[s] = i
greeted(i) == Seated(i) \/ i \in Watchers \/ i \in referees

strangers == {i \in conns : ~greeted(i)} \cup parting

\* LiveConnections: those with a thread left.
live == {i \in Ids : reader[i] = "reading"} \cup writer

\* Connections in no list are dropped with what they held.
Kept == from' = Restrict(from, conns' \cup parting')

Of(ids, p) == {i \in ids : from[i] = p}

\* Whether p would pass its source's bound or its site's, counting ids.
over_bound(p, ids, perSource, perSite) ==
    /\ p # NoSource
    /\ \/ Cardinality(Of(ids, p)) >= perSource
       \/ Cardinality({i \in ids : from[i] # NoSource /\ Site[from[i]] = Site[p]}) >= perSite

Share == IF MaxConnections \div ShareDivisor > 1 THEN MaxConnections \div ShareDivisor ELSE 1

-----------------------------------------------------------------------------
(* Leaving. *)

\* Mutant: a connection let go goes on watching.
MutForget(gone) ==
    /\ conns' = conns \ gone
    /\ referees' = referees \ gone
    /\ told' = told \ gone
    /\ UNCHANGED spectators

\* Server::forget: out of every list but the roster.
Forget(gone) ==
    /\ conns' = conns \ gone
    /\ spectators' = [i \in Watchers \ gone |-> spectators[i]]
    /\ referees' = referees \ gone
    /\ told' = told \ gone

\* Server::drop_conn: closed, and read on as a stranger if it is one.
drop_conn(gone) ==
    /\ Forget(gone)
    /\ parting' = parting \cup {i \in gone \cap conns : ~greeted(i)}

-----------------------------------------------------------------------------
(* The acceptors. *)

\* PendingAdmissions::take: a place of the peer's source, then one of all;
\* refused, the stream is closed and nothing is held.
accept(p) ==
    /\ pending[p] < MaxPerSource
    /\ p # NoSource =>
          MapThenSumSet(LAMBDA q : pending[q], {q \in Peers \ {NoSource} : Site[q] = Site[p]})
              < MaxPerSite
    /\ MapThenSumSet(LAMBDA q : pending[q], Peers) < MaxPending
    /\ pending' = [pending EXCEPT ![p] = @ + 1]
    /\ UNCHANGED <<next_player, conns, parting, from, reader, writer, people>>

-----------------------------------------------------------------------------
(* The server thread takes a stream in. *)

\* Mutant: the oldest stranger goes, whoever holds the most.
MutBefore(i, j, p) == i > j

\* Server::make_room: i goes later than j for a newcomer from p.
Before(i, j, p) ==
    LET other(k) == from[k] # p
        lingers(k) == k \in parting /\ other(k)
        held(k) == Cardinality(Of(strangers, from[k]))
    IN  \/ ~lingers(i) /\ lingers(j)
        \/ lingers(i) = lingers(j) /\ held(i) < held(j)
        \/ lingers(i) = lingers(j) /\ held(i) = held(j) /\ ~other(i) /\ other(j)
        \/ lingers(i) = lingers(j) /\ held(i) = held(j) /\ other(i) = other(j) /\ i > j

\* The stranger that goes for a newcomer from p: none of p's own.
Victim(p) ==
    {i \in strangers : from[i] # p /\ \A j \in strangers \ {i} : Before(j, i, p)}

\* The id is spent whether or not the system has threads for it; a writer
\* that started before the reader could not is aborted and ends.
Spawn ==
    /\ next_player' = next_player + 1
    /\ \/ writer' = writer \cup {next_player} /\ reader' = [reader EXCEPT ![next_player] = "reading"]
       \/ writer' = writer \cup {next_player} /\ UNCHANGED reader
       \/ UNCHANGED <<reader, writer>>

Spawned == reader'[next_player] = "reading"

NoSpawn == UNCHANGED <<next_player, reader, writer>>

Full == Cardinality(conns) >= MaxConnections \/ Cardinality(live) >= MaxConnections

Crowded == Cardinality(strangers) >= Share

\* Server::adopt, with a victim let go at once, or none needed.
adopt(p) ==
    /\ pending[p] > 0 /\ next_player <= MaxIds
    /\ pending' = [pending EXCEPT ![p] = @ - 1]
    /\ LET gone == IF Full \/ Crowded THEN Victim(p) ELSE {}
           room == \/ ~Full /\ ~Crowded
                   \/ /\ gone # {}
                      /\ Cardinality(conns \ gone) < MaxConnections
                      /\ Cardinality(live) < 2 * MaxConnections
       IN  IF over_bound(p, strangers, MaxPerSource, MaxPerSite)
           THEN NoSpawn /\ UNCHANGED <<conns, parting, from, people>>
           ELSE /\ IF room THEN Spawn ELSE NoSpawn
                /\ conns' = (conns \ gone) \cup (IF room /\ Spawned THEN {next_player} ELSE {})
                /\ parting' = parting \ gone
                /\ from' = [i \in conns' \cup parting' |->
                              IF i = next_player THEN p ELSE from[i]]
                /\ UNCHANGED people

-----------------------------------------------------------------------------
(* Hello. *)

\* The seats a Hello may take: those nobody holds.
FreeSeats == {s \in Seats : roster[s] = None}

Keyless == {w \in Watchers \cap conns : spectators[w] = None}

no_room_to_watch(i) ==
    \/ Cardinality(Keyless) >= Share
    \/ over_bound(from[i], Keyless, MaxWatchers, MaxWatchers)

\* Told::give has a number of this kind left.
HasNumber(kind) == given[kind] < Numbers

\* A seat is taken, and stays taken when no number is left for its holder.
take_seat(i) ==
    /\ FreeSeats # {}
    /\ \E s \in FreeSeats : roster' = [roster EXCEPT ![s] = i]
    /\ IF HasNumber("seats")
       THEN /\ given' = [given EXCEPT !["seats"] = @ + 1]
            /\ told' = told \cup {i}
            /\ UNCHANGED <<conns, parting, spectators, referees>>
       ELSE Forget({i}) /\ UNCHANGED <<parting, given>>

\* A watcher or a referee joins its list, and leaves it for want of a number.
JoinWatchers(i, eyes, ref) ==
    IF HasNumber("watchers")
    THEN /\ given' = [given EXCEPT !["watchers"] = @ + 1]
         /\ told' = told \cup {i}
         /\ spectators' = IF ref THEN spectators
                          ELSE [w \in Watchers \cup {i} |-> IF w = i THEN eyes ELSE spectators[w]]
         /\ referees' = IF ref THEN referees \cup {i} ELSE referees
         /\ UNCHANGED <<conns, parting, roster>>
    ELSE Forget({i}) /\ UNCHANGED <<parting, roster, given>>

Refuse(i) == drop_conn({i}) /\ UNCHANGED <<roster, given>>

Watching(s) == {w \in Watchers : spectators[w] = s}

\* Server::greet of a connection still listed that has said no Hello before.
greet(i, hello) ==
    \/ hello = "player" /\ take_seat(i)
    \/ hello = "player" /\ FreeSeats = {} /\ Refuse(i)
    \/ hello = "watcher" /\ ~no_room_to_watch(i) /\ JoinWatchers(i, None, FALSE)
    \/ hello = "watcher" /\ no_room_to_watch(i) /\ Refuse(i)
    \/ /\ hello = "keyed"
       /\ \E s \in Seats : IF Cardinality(Watching(s)) < MaxPerSeat
                           THEN JoinWatchers(i, s, FALSE) ELSE Refuse(i)
    \/ hello = "referee" /\ JoinWatchers(i, None, TRUE)
    \/ hello = "unfit" /\ Refuse(i)

Released(i) == [s \in Seats |-> IF roster[s] = i THEN None ELSE roster[s]]

\* Server::hear_catalogue finds that a peer's items do not fit: its seat opens
\* and it is dropped, a stranger unless it watches or referees.
hear_catalogue(i) ==
    /\ roster' = Released(i)
    /\ Forget({i})
    /\ parting' = IF i \in Watchers \cup referees THEN parting ELSE parting \cup {i}
    /\ UNCHANGED given

\* What a connection still listed said; a second Hello changes nothing.
hear_msg(i, msg) ==
    /\ i \in conns
    /\ CASE msg = "misfit" -> hear_catalogue(i)
         [] msg \in Hellos /\ ~greeted(i) -> greet(i, msg)
         [] OTHER -> UNCHANGED <<conns, parting, roster, spectators, referees, told, given>>
    /\ welcomed' = welcomed \cup told'
    /\ Kept /\ UNCHANGED <<pending, next_player, reader, writer>>

-----------------------------------------------------------------------------
(* Ends. *)

\* The reader ends, its peer gone or in breach, or its side of the connection
\* shut.  One no longer listed ends alike however it ends.
reader_ends(i, end) ==
    /\ reader[i] = "reading" /\ (end = "breach" => i \in conns)
    /\ reader' = [reader EXCEPT ![i] = end]
    /\ UNCHANGED <<pending, next_player, conns, parting, from, writer, people>>

\* Server::hear of a Disconnected or a Breached: parting no more, out of the
\* lists, and after a breach read on, or so it is listed, as a stranger.
hear_end(i) ==
    /\ reader[i] \in {"gone", "breach"}
    /\ reader' = [reader EXCEPT ![i] = "ended"]
    /\ IF i \in conns
       THEN /\ roster' = Released(i)
            /\ Forget({i})
            /\ parting' = parting \cup
                             (IF reader[i] = "breach" /\ ~greeted(i) THEN {i} ELSE {})
            /\ UNCHANGED <<given, welcomed>>
       ELSE parting' = parting \ {i} /\ UNCHANGED <<conns, people>>
    /\ Kept /\ UNCHANGED <<pending, next_player, writer>>

\* The writer of a connection let go or lost ends: Hold::drop.
writer_ends(i) ==
    /\ i \in writer \ conns
    /\ writer' = writer \ {i}
    /\ UNCHANGED <<pending, next_player, conns, parting, from, reader, people>>

\* Mutant: the one whose time is up stays.
MutDropStrangers(i) ==
    /\ i \in conns /\ ~greeted(i)
    /\ drop_conn({j \in conns : j < i /\ ~greeted(j)})
    /\ Kept /\ UNCHANGED <<pending, next_player, reader, writer, roster, given, welcomed>>

\* Server::drop_strangers: all those as old as one that is late.
drop_strangers(i) ==
    /\ i \in conns /\ ~greeted(i)
    /\ drop_conn({j \in conns : j <= i /\ ~greeted(j)})
    /\ Kept /\ UNCHANGED <<pending, next_player, reader, writer, roster, given, welcomed>>

Next ==
    \/ \E p \in Peers : accept(p) \/ adopt(p)
    \/ \E i \in Ids :
          \/ \E msg \in Messages : hear_msg(i, msg)
          \/ \E end \in {"gone", "breach"} : reader_ends(i, end)
          \/ hear_end(i)
          \/ writer_ends(i)
          \/ drop_strangers(i)

\* What is heard is handled, a stranger's time runs out, and a connection no
\* longer listed ends (what Outbox shows).
Fairness ==
    \A i \in Ids :
        /\ WF_vars(i \notin conns /\ reader_ends(i, "gone"))
        /\ WF_vars(hear_end(i))
        /\ WF_vars(writer_ends(i))
        /\ WF_vars(drop_strangers(i))

Spec == Init /\ [][Next]_vars /\ Fairness
-----------------------------------------------------------------------------
(* Properties. *)

\* The server never lists more connections than it may, and those with threads
\* pass that by those let go only, never by as many again.
ConnectionsBounded ==
    Cardinality(conns) <= MaxConnections /\ Cardinality(live) <= 2 * MaxConnections

\* No source and no site holds more strangers never welcomed than its bound,
\* whichever way they became strangers: at adoption, refused, or let go.
SourcesBounded ==
    LET s == strangers \ welcomed
    IN  \A p \in Sources :
           /\ Cardinality(Of(s, p)) <= MaxPerSource
           /\ Cardinality({i \in s : from[i] # NoSource /\ Site[from[i]] = Site[p]})
                  <= MaxPerSite

\* Watchers without a key, who are never let go for room, stay within their
\* share and their source's.
WatchersBounded ==
    /\ Cardinality(Keyless) <= Share
    /\ \A p \in Sources : Cardinality(Of(Keyless, p)) <= MaxWatchers

\* The lists agree through every departure: whoever watches, referees or has a
\* number is a connection that is there, and nobody is two things.
ListsAgree ==
    /\ Watchers \cup referees \cup told \subseteq conns
    /\ Watchers \cap referees = {}
    /\ \A i \in Watchers \cup referees : ~Seated(i)
    /\ \A i \in told : greeted(i)
    /\ parting \cap conns = {}

\* A newcomer costs nobody that said Hello its connection.
GreetedStay ==
    (\E p \in Peers : adopt(p)) =>
        \A i \in conns : greeted(i) => i \in conns' /\ greeted(i)'

\* A source that holds more strangers than another takes no place from it: a
\* fair client about to say Hello is not let go for a flood.
StrangersSpared ==
    \A p \in Peers : adopt(p) =>
        \A i \in strangers \ (strangers)' :
           i \notin parting =>
              Cardinality(Of(strangers, from[i])) >= Cardinality(Of(strangers, p))

\* Who is let go for a newcomer: nobody greeted, and nobody of a source that
\* holds less than the newcomer's.
Spared == GreetedStay /\ StrangersSpared
FloodSparesOthers == [][Spared]_vars

\* Nobody holds a connection and its threads for nothing: a connection is
\* greeted or its threads end.
StrangersEnd == \A i \in Ids : (i \in live) ~> (greeted(i) \/ i \notin live)

\* "One leaves once its reader has ended" (Server::parting).
\* Not so: a stranger that breaks the protocol is let go while the last event of
\* its reader is heard, and nothing takes it out after that.
PartingAreRead == \A i \in parting : reader[i] # "ended"

\* "One that said Hello is read on outside the bounds: players that drop together
\* never lock their address out" (Server::let_go).
\* Not so: hear_catalogue releases the seat before it drops the connection, which
\* is then taken for a stranger.
WelcomedOutsideBounds == parting \cap welcomed = {}

\* A seat is held by a connection that is there (RosterSeat::player: the
\* connection holding it, absent while open).
\* Not so: greet seats a player before it asks for a public number, and with
\* none left it drops the connection and not the seat.
SeatsHeldByConnections == \A s \in Seats : roster[s] # None => roster[s] \in conns

\* What holds of the server's lists at once, through floods and departures: all
\* bounded, and in agreement.
RoomBounded ==
    TypeOK /\ ConnectionsBounded /\ SourcesBounded /\ WatchersBounded /\ ListsAgree
=============================================================================
