------------------------------- MODULE Lobby -------------------------------
(***************************************************************************)
(* The lobby before a match: the roster (bota_server/src/lobby.rs), the    *)
(* clock of the picks (pick_clock.rs) and the simulation thread's loop     *)
(* over both (game_loop.rs, lobby_phase).                                  *)
(*                                                                         *)
(* An Instant is kept as the time left until it, in seconds, negative once *)
(* it has passed, so the clock is finite though a lobby may wait for ever. *)
(* The network is the environment: any adopted connection may say anything *)
(* or be gone whenever the thread listens.  Names, chat, watchers and the  *)
(* items of a catalogue are left out: they move no seat.                   *)
(***************************************************************************)
EXTENDS Integers, FiniteSets, Sequences

CONSTANTS
    Connections,    \* PlayerId of the connections there may be
    Keys,           \* SeatKey
    Heroes,         \* bota_core::HEROES
    DummyHero,      \* DUMMY_HERO
    DefaultHero,    \* MapDef::default_hero, or None
    None,           \* an absent Option
    Options,        \* the ServerOpts an operator may ask for
    PickTime, PenaltyTime, TacticalTime,
    UnjoinedAfter,  \* UNJOINED_AFTER
    MaxLobbyDrain,  \* MAX_LOBBY_DRAIN
    MaxLag          \* bound: how late the thread looks at a clock run out

Roles == {"Player", "Bot"}

\* Of ServerOpts, what the lobby reads.  A reserved seat is a key's, and may be
\* for a player or a bot only.
ServerOpts ==
    [players : Nat, reserved : Seq([key : Keys, kind : Roles \cup {None}]),
     dummy : BOOLEAN, seatedStart : BOOLEAN, sameHeroes : BOOLEAN,
     heroes : SUBSET Heroes, delays : Nat, startAfter : Nat \cup {None},
     abandonUnjoined : BOOLEAN]

ASSUME LobbyAssumption ==
    /\ Options \subseteq ServerOpts
    /\ IsFiniteSet(Heroes)
    /\ DummyHero \in Heroes
    /\ PickTime \in Nat /\ PenaltyTime \in Nat /\ TacticalTime \in Nat
    /\ UnjoinedAfter \in Nat /\ MaxLobbyDrain \in Nat /\ MaxLag \in Nat
    /\ None \notin Connections \cup Keys \cup Heroes \cup Roles \cup Nat

VARIABLES
    opts,       \* ServerOpts
    delays,     \* ServerOpts::order_delays: how many there are
    conn,       \* "out", "in" or "gone": Server::conns
    roster,     \* Roster::seats, slots 0 on
    clock,      \* PickClock: [phase, left]
    startBy,    \* lobby_phase's start_by and abandon_by
    abandonBy,
    left,       \* Server::left
    pc,         \* where the thread stands
    drained     \* events close_lobby has heard

vars == <<opts, delays, conn, roster, clock, startBy, abandonBy, left, pc, drained>>

Slots == DOMAIN roster

\* RosterSeat.
Seat == [player : Connections \cup {None}, role : Roles \cup {None},
         hero : Heroes \cup {None}, ready : BOOLEAN, locked : BOOLEAN,
         late : Nat, dummy : BOOLEAN, claim : Keys \cup {None}]

Phases == {"Waiting", "Selecting", "Late", "Tactical"}

Ended == pc \in {"started", "cancelled", "abandoned", "panicked"}

TypeOK ==
    /\ opts \in Options /\ delays \in Nat
    /\ conn \in [Connections -> {"out", "in", "gone"}]
    /\ \E n \in 0..opts.players : roster \in [0..(n - 1) -> Seat]
    /\ clock.phase \in Phases
    /\ clock.left \in -MaxLag..(PickTime + PenaltyTime + TacticalTime)
    /\ startBy \in Nat \cup {None} /\ abandonBy \in Nat \cup {None}
    /\ left \subseteq Slots
    /\ pc \in {"clock", "wait", "listen", "close", "started", "cancelled",
               "abandoned", "panicked"}
    /\ drained \in 0..MaxLobbyDrain

-----------------------------------------------------------------------------
(* The options and the seats they give. *)

\* The options the server starts with (the bounds on sides, times, cheats and
\* spectators decide nothing here).  `players' counts reserved seats too.
check_opts(o) ==
    /\ o.reserved # <<>> => o.players = Len(o.reserved)
    /\ o.seatedStart => o.reserved = <<>> /\ ~o.dummy
    /\ o.delays <= 1 \/ o.delays = o.players
    /\ o.sameHeroes \/ Cardinality(o.heroes) >= o.players
    /\ o.heroes # {}

\* Roster::new and Roster::reserved, which leaves no dummy.
NewRoster(o) ==
    LET open  == [player |-> None, role |-> None, hero |-> None,
                  ready |-> FALSE, locked |-> FALSE, late |-> 0,
                  dummy |-> FALSE, claim |-> None]
        dummy == [open EXCEPT !.role = "Bot", !.hero = DummyHero,
                              !.ready = TRUE, !.locked = TRUE, !.dummy = TRUE]
    IN  [s \in 0..(o.players - 1) |->
            IF o.dummy /\ o.reserved = <<>> /\ s = o.players - 1
            THEN dummy ELSE open]

\* run_inner, with lobby_deadlines.
Init ==
    /\ opts \in {o \in Options : check_opts(o)}
    /\ delays = opts.delays
    /\ conn = [c \in Connections |-> "out"]
    /\ roster = NewRoster(opts)
    /\ clock = [phase |-> "Waiting", left |-> 0]
    /\ startBy = opts.startAfter
    /\ abandonBy = IF ~opts.abandonUnjoined THEN None
                   ELSE IF opts.startAfter # None THEN opts.startAfter
                   ELSE UnjoinedAfter
    /\ left = {}
    /\ pc = "clock"
    /\ drained = 0

SeatsOf(c) == {s \in Slots : roster[s].player = c}
Anyone == \E s \in Slots : roster[s].player # None
all_held == \A s \in Slots : roster[s].dummy \/ roster[s].player # None
all_picked == \A s \in Slots : roster[s].hero # None
all_locked_in ==
    all_held /\ all_picked /\ \A s \in Slots : roster[s].ready
only_bots == \A s \in Slots : roster[s].dummy \/ roster[s].role = "Bot"

Holds(hero) == \E s \in Slots : roster[s].hero = hero
taken_by_other(c, hero) ==
    \E s \in Slots : roster[s].hero = hero /\ roster[s].player # c

\* The hero every seat is given, when there is nothing to choose.
forced_hero ==
    IF opts.sameHeroes /\ Cardinality(opts.heroes) = 1
    THEN CHOOSE h \in opts.heroes : TRUE
    ELSE None

-----------------------------------------------------------------------------
(* What the thread hears: each is hear and lobby_message of one event. *)

\* RosterSeat::hold, then RosterSeat::force.
Held(seat, c, role) ==
    LET held == [seat EXCEPT !.player = c, !.role = role, !.ready = FALSE]
    IN  IF forced_hero = None THEN held
        ELSE [held EXCEPT !.hero = forced_hero, !.locked = TRUE, !.ready = TRUE]

\* Roster::release: the seat opens, its pick stays.
Released(c) ==
    [s \in Slots |->
        IF roster[s].player = c
        THEN [roster[s] EXCEPT !.player = None, !.role = None, !.ready = FALSE]
        ELSE roster[s]]

\* Server::adopt.
adopt(c) ==
    /\ conn[c] = "out"
    /\ conn' = [conn EXCEPT ![c] = "in"]
    /\ UNCHANGED <<roster, left>>

greeted(c) == SeatsOf(c) # {}

Refused(c) ==
    /\ conn' = [conn EXCEPT ![c] = "gone"]
    /\ UNCHANGED <<roster, left>>

\* A live connection keeps its seat: SeatHeld.
take_seat(c, role, s) ==
    \/ /\ s \notin left /\ roster[s].player = None
       /\ roster' = [roster EXCEPT ![s] = Held(@, c, role)]
       /\ UNCHANGED <<conn, left>>
    \/ /\ s \in left \/ roster[s].player # None
       /\ Refused(c)

\* Roster::seat_for_claim and Roster::seat_for_key: the last seat of the key.
Claimed(key) == {s \in Slots : key # None /\ roster[s].claim = key}
Reserved(key) == {s \in Slots : key # None /\ opts.reserved[s + 1].key = key}
FreeSeats == {s \in Slots : roster[s].player = None /\ ~roster[s].dummy}

Least(slots) == CHOOSE s \in slots : \A t \in slots : s <= t
Greatest(slots) == CHOOSE s \in slots : \A t \in slots : t <= s

\* Mutant: a key claims a seat though it has one.
MutAnySeat(c, role, key) ==
    \/ /\ FreeSeats # {}
       /\ roster' = [roster EXCEPT ![Least(FreeSeats)] =
                        [Held(@, c, role) EXCEPT !.claim = key]]
       /\ UNCHANGED <<conn, left>>
    \/ /\ FreeSeats = {}
       /\ Refused(c)

\* The seat the key claimed before, else the first open one, claimed now.
any_seat(c, role, key) ==
    \/ /\ Claimed(key) # {}
       /\ take_seat(c, role, Greatest(Claimed(key)))
    \/ /\ Claimed(key) = {} /\ FreeSeats # {}
       /\ roster' = [roster EXCEPT ![Least(FreeSeats)] =
                        [Held(@, c, role) EXCEPT !.claim = key]]
       /\ UNCHANGED <<conn, left>>
    \/ /\ Claimed(key) = {} /\ FreeSeats = {}
       /\ Refused(c)

\* admit, for a reserved seat: the key's, and of the kind it is for.
reserved_seat(c, role, key) ==
    LET fits == {s \in Reserved(key) :
                    /\ s = Greatest(Reserved(key))
                    /\ opts.reserved[s + 1].kind \in {None, role}}
    IN  \/ \E s \in fits : take_seat(c, role, s)
        \/ fits = {} /\ Refused(c)

\* greet: a Hello.  A second one changes nothing.
greet(c, role, key) ==
    /\ conn[c] = "in" /\ ~greeted(c)
    /\ IF opts.reserved = <<>> THEN any_seat(c, role, key)
                               ELSE reserved_seat(c, role, key)

\* Past the selection a pick is final, and late by the seconds gone.
is_past_selection == clock.phase \in {"Late", "Tactical"}

late_secs ==
    IF clock.phase # "Late" THEN 0
    ELSE IF clock.left > 0 THEN PenaltyTime - clock.left ELSE PenaltyTime

\* Mutant: a second pick is late anew.
MutPickHero(c, hero) ==
    /\ conn[c] = "in"
    /\ hero \in opts.heroes
    /\ opts.sameHeroes \/ ~taken_by_other(c, hero)
    /\ \E s \in SeatsOf(c) :
          /\ ~roster[s].locked
          /\ roster' = [roster EXCEPT ![s].late = late_secs,
                            ![s].hero = hero,
                            ![s].locked = roster[s].ready]
    /\ UNCHANGED <<conn, left>>

\* A pick of a seat's holder, of a hero it may have, before it is final.
PickHero(c, hero) ==
    /\ conn[c] = "in"
    /\ hero \in opts.heroes
    /\ opts.sameHeroes \/ ~taken_by_other(c, hero)
    /\ \E s \in SeatsOf(c) :
          /\ ~roster[s].locked
          /\ roster' = [roster EXCEPT
                ![s].late = IF roster[s].hero = None THEN late_secs ELSE @,
                ![s].hero = hero,
                ![s].locked = roster[s].ready \/ is_past_selection]
    /\ UNCHANGED <<conn, left>>

SetReady(c, ready) ==
    /\ conn[c] = "in"
    /\ \E s \in SeatsOf(c) :
          roster' = [roster EXCEPT ![s].ready = ready,
                         ![s].locked = @ \/ (ready /\ roster[s].hero # None)]
    /\ UNCHANGED <<conn, left>>

leave_game(c) ==
    /\ conn[c] = "in" /\ greeted(c)
    /\ left' = left \cup SeatsOf(c)
    /\ UNCHANGED <<conn, roster>>

\* hear_catalogue of a peer whose items differ: its claim goes with it.
CatalogueRefused(c) ==
    /\ conn[c] = "in"
    /\ roster' = [s \in Slots |->
                    IF roster[s].player = c
                    THEN [Released(c)[s] EXCEPT !.claim = None]
                    ELSE roster[s]]
    /\ conn' = [conn EXCEPT ![c] = "gone"]
    /\ UNCHANGED left

\* NetEvent::Disconnected, NetEvent::Breached, and drop_strangers.
Departs(c) ==
    /\ conn[c] = "in"
    /\ roster' = Released(c)
    /\ conn' = [conn EXCEPT ![c] = "gone"]
    /\ UNCHANGED left

\* Chat, orders, a refused pick, a peer unheard: nothing moves.
Ignored == UNCHANGED <<conn, roster, left>>

hear ==
    \/ \E c \in Connections :
          \/ adopt(c) \/ leave_game(c) \/ CatalogueRefused(c) \/ Departs(c)
          \/ \E role \in Roles, key \in Keys \cup {None} : greet(c, role, key)
          \/ \E hero \in Heroes : PickHero(c, hero)
          \/ \E ready \in BOOLEAN : SetReady(c, ready)
    \/ Ignored

\* Mutant: a leaver is only looked for while the thread listens.
MutHearInLobby(next) ==
    /\ hear
    /\ pc' = IF left' # {} /\ pc = "listen" THEN "cancelled" ELSE next
    /\ UNCHANGED <<opts, delays, clock, startBy, abandonBy>>

\* hear_in_lobby, then left_during_picks.
hear_in_lobby(next) ==
    /\ hear
    /\ pc' = IF left' # {} THEN "cancelled" ELSE next
    /\ UNCHANGED <<opts, delays, clock, startBy, abandonBy>>

-----------------------------------------------------------------------------
(* The clock of the picks: each action is one turn of run_pick_clock's loop. *)

\* Roster::close_to_seated: the seats after the last held one are dropped once
\* all the others are held and ready.
close_to_seated ==
    LET held == {s \in Slots : roster[s].player # None}
    IN  IF /\ opts.seatedStart /\ held # {}
           /\ \A s \in 0..Greatest(held) : s \in held /\ roster[s].ready
        THEN [s \in 0..Greatest(held) |-> roster[s]]
        ELSE roster

\* The order delays, one per seat, go with the seats dropped.
Truncated(many, seats) == IF many <= seats THEN many ELSE seats

\* PickClock::start, once every seat left is held.
start_clock ==
    /\ pc = "clock" /\ clock.phase = "Waiting"
    /\ roster' = close_to_seated
    /\ delays' = IF roster' = roster THEN delays
                 ELSE Truncated(delays, Cardinality(DOMAIN roster'))
    /\ all_held'
    /\ clock' = [phase |-> "Selecting", left |-> PickTime]
    /\ UNCHANGED <<opts, conn, startBy, abandonBy, left, pc, drained>>

Final(seats) == [s \in DOMAIN seats |-> [seats[s] EXCEPT !.locked = TRUE]]

\* begin_tactical, on the roster `seats'.
begin_tactical(seats) ==
    /\ roster' = Final(seats)
    /\ clock' = [phase |-> "Tactical", left |-> TacticalTime]
    /\ UNCHANGED <<opts, delays, conn, startBy, abandonBy, left, pc, drained>>

locked_in ==
    /\ pc = "clock" /\ clock.phase \in {"Selecting", "Late"}
    /\ all_locked_in
    /\ begin_tactical(roster)

selection_ends ==
    /\ pc = "clock" /\ clock.phase = "Selecting"
    /\ ~all_locked_in /\ clock.left <= 0
    /\ \/ all_picked /\ begin_tactical(roster)
       \/ /\ ~all_picked
          /\ roster' = [s \in Slots |-> [roster[s] EXCEPT
                           !.locked = @ \/ roster[s].hero # None]]
          /\ clock' = [phase |-> "Late", left |-> clock.left + PenaltyTime]
          /\ UNCHANGED <<opts, delays, conn, startBy, abandonBy, left, pc, drained>>

\* What a seat may be drawn, the seats before it having been.
Free(drawn, s) ==
    IF opts.sameHeroes THEN opts.heroes
    ELSE {h \in opts.heroes : ~Holds(h) /\ \A t \in 0..(s - 1) : drawn[t] # h}

\* draw_missing_picks, over all the draws there may be: the default hero while
\* it is free, else any that is.  With no hero free the thread panics.
Draws ==
    {drawn \in [Slots -> Heroes] : \A s \in Slots :
        IF roster[s].hero # None THEN drawn[s] = roster[s].hero
        ELSE IF DefaultHero \in Free(drawn, s) THEN drawn[s] = DefaultHero
        ELSE drawn[s] \in Free(drawn, s)}

Drawn(drawn, late) ==
    [s \in Slots |->
        IF roster[s].hero # None THEN roster[s]
        ELSE [roster[s] EXCEPT !.hero = drawn[s], !.locked = TRUE,
                 !.late = late, !.ready = roster[s].player # None]]

Panics ==
    /\ Draws = {}
    /\ pc' = "panicked"
    /\ UNCHANGED <<opts, delays, conn, roster, clock, startBy, abandonBy, left, drained>>

penalty_ends ==
    /\ pc = "clock" /\ clock.phase = "Late"
    /\ ~all_locked_in /\ clock.left <= 0
    /\ \/ \E drawn \in Draws : begin_tactical(Drawn(drawn, late_secs))
       \/ Panics

TacticalOver == clock.phase = "Tactical" /\ (clock.left <= 0 \/ only_bots)

match_begins ==
    /\ pc = "clock" /\ TacticalOver
    /\ pc' = "close"
    /\ UNCHANGED <<opts, delays, conn, roster, clock, startBy, abandonBy, left, drained>>

\* Nothing to do now: the loop ends.
clock_runs ==
    /\ pc = "clock"
    /\ \/ clock.phase = "Waiting" /\ close_to_seated = roster /\ ~all_held
       \/ /\ clock.phase \in {"Selecting", "Late"}
          /\ ~all_locked_in /\ clock.left > 0
       \/ clock.phase = "Tactical" /\ ~TacticalOver
    /\ pc' = "wait"
    /\ UNCHANGED <<opts, delays, conn, roster, clock, startBy, abandonBy, left, drained>>

-----------------------------------------------------------------------------
(* lobby_event and what lobby_phase makes of it. *)

TimeUp ==
    \/ startBy # None /\ startBy <= 0
    \/ abandonBy # None /\ abandonBy <= 0
    \/ clock.phase # "Waiting" /\ clock.left <= 0

\* The clock is looked at before the network, every time.
listens ==
    /\ pc = "wait" /\ ~TimeUp
    /\ pc' = "listen"
    /\ UNCHANGED <<opts, delays, conn, roster, clock, startBy, abandonBy, left, drained>>

times_out ==
    /\ pc = "listen" /\ TimeUp
    /\ pc' = "wait"
    /\ UNCHANGED <<opts, delays, conn, roster, clock, startBy, abandonBy, left, drained>>

hears ==
    /\ pc = "listen"
    /\ hear_in_lobby("clock")
    /\ UNCHANGED drained

AbandonNow == abandonBy # None /\ abandonBy <= 0
StartNow == startBy # None /\ startBy <= 0

abandons ==
    /\ pc = "wait" /\ AbandonNow /\ ~Anyone
    /\ pc' = "abandoned"
    /\ UNCHANGED <<opts, delays, conn, roster, clock, startBy, abandonBy, left, drained>>

\* The time for it is up and somebody is seated, or none is set: the match
\* starts whoever is ready, or the clock is looked at again.
deadline_passes ==
    /\ pc = "wait" /\ TimeUp
    /\ ~(AbandonNow /\ ~Anyone)
    /\ \/ /\ StartNow
          /\ \/ \E drawn \in Draws :
                    /\ roster' = Drawn(drawn, late_secs)
                    /\ pc' = "close"
             \/ /\ Draws = {} /\ pc' = "panicked"
                /\ UNCHANGED roster
       \/ /\ ~StartNow
          /\ pc' = "clock"
          /\ UNCHANGED roster
    /\ abandonBy' = IF AbandonNow THEN None ELSE abandonBy
    /\ UNCHANGED <<opts, delays, conn, clock, startBy, left, drained>>

\* Mutant: the closing lobby hears all there is.
MutDrains ==
    /\ pc = "close"
    /\ hear_in_lobby("close")
    /\ UNCHANGED drained

\* close_lobby: what was said before the match begins is heard first.
drains ==
    /\ pc = "close" /\ drained < MaxLobbyDrain
    /\ hear_in_lobby("close")
    /\ drained' = drained + 1

\* The queue is empty, or enough was heard: build_config.
starts ==
    /\ pc = "close"
    /\ pc' = "started"
    /\ UNCHANGED <<opts, delays, conn, roster, clock, startBy, abandonBy, left, drained>>

-----------------------------------------------------------------------------
Less(by) == IF by = None \/ by = 0 THEN by ELSE by - 1

\* A second passes while the thread waits.
passes ==
    /\ pc \in {"wait", "listen"}
    /\ clock.left > -MaxLag \/ clock.phase = "Waiting"
    /\ clock' = IF clock.phase = "Waiting" THEN clock
                ELSE [clock EXCEPT !.left = @ - 1]
    /\ startBy' = Less(startBy)
    /\ abandonBy' = Less(abandonBy)
    /\ <<clock, startBy, abandonBy>>' # <<clock, startBy, abandonBy>>
    /\ UNCHANGED <<opts, delays, conn, roster, left, pc, drained>>

PickClock ==
    \/ start_clock \/ locked_in \/ selection_ends \/ penalty_ends
    \/ match_begins \/ clock_runs

Waits == listens \/ times_out \/ abandons \/ deadline_passes

Closes == drains \/ starts

Next == PickClock \/ Waits \/ hears \/ Closes \/ passes

\* The thread runs on, time passes whatever it does, and close_lobby ends
\* with the queue or hears another event; nobody need say anything.
Fairness ==
    /\ WF_vars(PickClock) /\ WF_vars(Waits) /\ WF_vars(Closes)
    /\ SF_vars(passes)

Spec == Init /\ [][Next]_vars /\ Fairness

-----------------------------------------------------------------------------
(* Properties. *)

\* A match that starts has a hero for every seat and as many order delays as
\* DelayLine::new takes, and no draw of draw_missing_picks was ever out of
\* heroes, whatever was picked, dropped or taken over on the way.
StartsComplete ==
    /\ pc # "panicked"
    /\ pc = "started" =>
          /\ all_picked
          /\ delays <= 1 \/ delays = Cardinality(Slots)

\* Two seats never hold one hero unless the options say so, though a pick
\* outlives its holder and a draw looks at the seats one by one.
HeroesDistinct ==
    ~opts.sameHeroes =>
        \A s, t \in Slots :
            s # t /\ roster[s].hero # None => roster[s].hero # roster[t].hero

\* A seat is held by a connection that is there, a connection holds one seat at
\* most, and a key claims one seat at most.
SeatsHeldOnce ==
    /\ \A s \in Slots : roster[s].player # None => conn[roster[s].player] = "in"
    /\ \A c \in Connections : Cardinality(SeatsOf(c)) <= 1
    /\ \A key \in Keys : Cardinality(Claimed(key)) <= 1

\* The pick of a ready seat is final, and every pick is once the tactical phase
\* has begun, so the last to ready cannot wait for the others' picks and switch
\* (RosterSeat::pick_locked).
PicksFinal ==
    \A s \in Slots :
        /\ roster[s].ready /\ roster[s].hero # None => roster[s].locked
        /\ clock.phase = "Tactical" => roster[s].locked /\ roster[s].hero # None

\* A final pick stays as it is, and so does what a seat lost by picking late,
\* when readiness is withdrawn or the holder changes.
PickStands ==
    [][\A s \in Slots \cap DOMAIN roster' :
          /\ roster[s].locked => /\ roster'[s].hero = roster[s].hero
                                 /\ roster'[s].locked
          /\ roster[s].hero # None => roster'[s].late = roster[s].late]_vars

\* A seat pays for no more seconds than the penalty phase has, and for none
\* before it.
PenaltyBounded ==
    \A s \in Slots :
        /\ roster[s].late <= PenaltyTime
        /\ clock.phase \in {"Waiting", "Selecting"} => roster[s].late = 0

\* A match no seat of which is left never starts without it: a LeaveGame heard
\* before the match, queued behind the last readiness too, cancels it.
LeaverCancels == left # {} => pc = "cancelled"

\* What holds of every roster at once: its types, one seat a connection, one
\* hero a seat, and picks and penalties as the phase allows.
RosterSound == TypeOK /\ SeatsHeldOnce /\ HeroesDistinct /\ PicksFinal /\ PenaltyBounded

\* A match starts whole or not at all: with every pick made and every delay
\* known, and never without a seat whose leaving was heard.
StartsRightly == StartsComplete /\ LeaverCancels

\* Once every seat was held, or when the time to start is set, the lobby ends
\* however much is said in it.
LobbyEnds ==
    /\ (clock.phase # "Waiting") ~> Ended
    /\ (startBy # None) ~> Ended
=============================================================================
