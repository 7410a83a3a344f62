---------------------------- MODULE LobbyProofs ----------------------------
(***************************************************************************)
(* A lobby's roster stays sound whatever is said in it, its picks are      *)
(* final once they are, and a match starts whole or not at all, for any    *)
(* options the server accepts and any connections, keys, heroes and times. *)
(***************************************************************************)
EXTENDS Lobby, FiniteSetTheorems, FunctionTheorems, WellFoundedInduction, TLAPS

\* What holds of each seat: its pick is final once it is ready and once the
\* tactical phase has begun, it pays for being late within bounds, a dummy is
\* nobody's, a pick is one of the options', and its holder is there.
Fine(r) ==
    /\ r.locked => r.hero # None
    /\ r.ready /\ r.hero # None => r.locked
    /\ clock.phase = "Tactical" => r.locked
    /\ r.late <= PenaltyTime
    /\ clock.phase \in {"Waiting", "Selecting"} => r.late = 0
    /\ r.dummy => r.player = None /\ r.claim = None /\ opts.reserved = <<>>
    /\ ~r.dummy /\ r.hero # None => r.hero \in opts.heroes
    /\ r.player # None => conn[r.player] = "in"

SeatsFine == \A s \in Slots : Fine(roster[s])

\* What no two seats share: a holder, a claim and, unless it may be, a hero.
Differ(r, q) ==
    /\ r.player # None => r.player # q.player
    /\ r.claim # None => r.claim # q.claim
    /\ ~opts.sameHeroes /\ r.hero # None => r.hero # q.hero

SeatsDiffer == \A s, t \in Slots : s # t => Differ(roster[s], roster[t])

\* A lobby about to start, or started, has every pick.
PicksMade == pc \in {"close", "started"} => all_picked

DelaysFit == delays <= 1 \/ delays = Cardinality(Slots)

ClockRuns ==
    /\ clock \in [phase : Phases, left : Int]
    /\ clock.phase = "Late" => clock.left <= PenaltyTime

\* The inductive invariant of the lobby.
LobbyInv ==
    /\ TypeOK
    /\ check_opts(opts)
    /\ ClockRuns
    /\ SeatsFine
    /\ SeatsDiffer
    /\ PicksMade
    /\ DelaysFit
    /\ LeaverCancels
    /\ pc # "panicked"

\* A pick that is final stays, and no pick is taken back.
Stands(s) ==
    /\ roster[s].locked => roster'[s].hero = roster[s].hero /\ roster'[s].locked
    /\ roster[s].hero # None => roster'[s].late = roster[s].late /\ roster'[s].hero # None

-----------------------------------------------------------------------------
(* Seats, slots and options. *)

LEMMA OptionsTyped ==
    ASSUME TypeOK
    PROVE  /\ opts \in ServerOpts
           /\ opts.players \in Nat /\ opts.delays \in Nat
           /\ opts.heroes \subseteq Heroes /\ IsFiniteSet(opts.heroes)
           /\ opts.startAfter \in Nat \cup {None}
           /\ opts.sameHeroes \in BOOLEAN /\ opts.dummy \in BOOLEAN
  <1>1. opts \in ServerOpts
    BY LobbyAssumption DEF TypeOK
  <1>2. opts.heroes \subseteq Heroes
    BY <1>1 DEF ServerOpts
  <1>3. IsFiniteSet(opts.heroes)
    BY <1>2, LobbyAssumption, FS_Subset
  <1> QED
    BY <1>1, <1>2, <1>3 DEF ServerOpts

LEMMA SlotsTyped ==
    ASSUME TypeOK
    PROVE  \E n \in Nat : /\ n <= opts.players
                          /\ Slots = 0..(n - 1)
                          /\ roster \in [Slots -> Seat]
                          /\ IsFiniteSet(Slots) /\ Cardinality(Slots) = n
  <1>1. PICK n \in 0..opts.players : roster \in [0..(n - 1) -> Seat]
    BY DEF TypeOK
  <1>2. opts.players \in Nat
    BY OptionsTyped
  <1>3. Slots = 0..(n - 1)
    BY <1>1 DEF Slots
  <1>4. IsFiniteSet(0..(n - 1)) /\ Cardinality(0..(n - 1)) = n
    <2>1. n \in Nat /\ 0 \in Int /\ n - 1 \in Int
      BY <1>2
    <2>2. IsFiniteSet(0..(n - 1))
          /\ Cardinality(0..(n - 1)) = IF 0 > n - 1 THEN 0 ELSE (n - 1) - 0 + 1
      BY <2>1, FS_Interval
    <2> QED
      BY <2>1, <2>2
  <1> QED
    BY <1>1, <1>2, <1>3, <1>4

\* Slots that are not empty have a least and a greatest.
LEMMA LeastSlot ==
    ASSUME NEW T, T \subseteq Nat, T # {}
    PROVE  Least(T) \in T /\ \A t \in T : Least(T) <= t
  <1>1. PICK m \in T : \A t \in T : <<t, m>> \notin OpToRel(<, Nat)
    BY NatLessThanWellFounded, WFMin
  <1>2. \A t \in T : ~(t < m)
    BY <1>1 DEF OpToRel
  <1>3. \A t \in T : m <= t
    BY <1>2
  <1> QED
    BY <1>3 DEF Least

LEMMA GreatestSlot ==
    ASSUME NEW n \in Nat, NEW T, T \subseteq 0..(n - 1), T # {}
    PROVE  Greatest(T) \in T /\ \A t \in T : t <= Greatest(T)
  <1> DEFINE U == {n - t : t \in T}
  <1>1. U \subseteq Nat /\ U # {}
    OBVIOUS
  <1>2. PICK u \in U : \A v \in U : <<v, u>> \notin OpToRel(<, Nat)
    <2> HIDE DEF U
    <2> QED
      BY <1>1, NatLessThanWellFounded, WFMin
  <1>3. \A v \in U : ~(v < u)
    BY <1>1, <1>2 DEF OpToRel
  <1>4. PICK m \in T : u = n - m
    OBVIOUS
  <1>5. \A t \in T : t <= m
    BY <1>3, <1>4
  <1> QED
    BY <1>5 DEF Greatest

\* The fields of a seat have their types.
LEMMA SeatTyped ==
    ASSUME NEW r \in Seat
    PROVE  /\ r.player \in Connections \cup {None} /\ r.role \in Roles \cup {None}
           /\ r.hero \in Heroes \cup {None} /\ r.ready \in BOOLEAN
           /\ r.locked \in BOOLEAN /\ r.late \in Nat /\ r.dummy \in BOOLEAN
           /\ r.claim \in Keys \cup {None}
  BY DEF Seat

\* A forced hero is the only one there is.
LEMMA ForcedHero ==
    ASSUME TypeOK, forced_hero # None
    PROVE  /\ opts.sameHeroes
           /\ opts.heroes = {forced_hero} /\ forced_hero \in Heroes
  <1>1. opts.sameHeroes /\ Cardinality(opts.heroes) = 1
        /\ forced_hero = CHOOSE h \in opts.heroes : TRUE
    BY DEF forced_hero
  <1>2. IsFiniteSet(opts.heroes) /\ opts.heroes \subseteq Heroes
    BY OptionsTyped
  <1>3. PICK h : opts.heroes = {h}
    BY <1>1, <1>2, FS_Singleton
  <1> QED
    BY <1>1, <1>2, <1>3

-----------------------------------------------------------------------------
(* What the thread hears. *)

\* What an event may do to the roster: seats stay sound, and picks stand.
Heard ==
    /\ roster' \in [Slots -> Seat]
    /\ SeatsFine' /\ SeatsDiffer'
    /\ \A s \in Slots : Stands(s)

\* An event that moves one seat.
LEMMA OneSeatMoves ==
    ASSUME TypeOK, SeatsFine, SeatsDiffer, UNCHANGED <<conn, clock, opts>>,
           NEW s \in Slots, NEW r \in Seat, roster' = [roster EXCEPT ![s] = r],
           Fine(r),
           \A t \in Slots \ {s} : Differ(r, roster[t]) /\ Differ(roster[t], r),
           roster[s].locked => r.hero = roster[s].hero /\ r.locked,
           roster[s].hero # None => r.late = roster[s].late /\ r.hero # None
    PROVE  Heard
  <1>1. roster \in [Slots -> Seat]
    BY SlotsTyped
  <1>2. roster' \in [Slots -> Seat] /\ Slots' = Slots
    BY <1>1 DEF Slots
  <1>3. roster'[s] = r /\ \A t \in Slots \ {s} : roster'[t] = roster[t]
    BY <1>1
  <1>4. SeatsFine'
    BY <1>2, <1>3 DEF SeatsFine, Fine
  <1>5. SeatsDiffer'
    BY <1>2, <1>3 DEF SeatsDiffer, Differ
  <1>6. \A t \in Slots : Stands(t)
    BY <1>3 DEF Stands
  <1> QED
    BY <1>2, <1>4, <1>5, <1>6 DEF Heard

\* An event that opens the seats of a connection that goes.
LEMMA SeatsOpen ==
    ASSUME TypeOK, SeatsFine, SeatsDiffer, UNCHANGED <<clock, opts>>,
           NEW c \in Connections, conn' = [conn EXCEPT ![c] = "gone"],
           roster' \in [Slots -> Seat],
           \A s \in Slots : roster[s].player # c => roster'[s] = roster[s],
           \A s \in Slots : roster[s].player = c =>
              /\ roster'[s].player = None /\ roster'[s].ready = FALSE
              /\ roster'[s].claim \in {None, roster[s].claim}
              /\ roster'[s].hero = roster[s].hero /\ roster'[s].locked = roster[s].locked
              /\ roster'[s].late = roster[s].late /\ roster'[s].dummy = roster[s].dummy
    PROVE  Heard
  <1>1. roster \in [Slots -> Seat] /\ Slots' = Slots
    BY SlotsTyped DEF Slots
  <1>2. ASSUME NEW s \in Slots
        PROVE  Fine(roster[s])'
    <2>1. Fine(roster[s])
      BY DEF SeatsFine
    <2>2. CASE roster[s].player = c
      BY <2>1, <2>2 DEF Fine
    <2>3. CASE roster[s].player # c
      <3>1. roster[s] \in Seat
        BY <1>1
      <3>2. roster[s].player \in Connections \cup {None}
        BY <3>1, SeatTyped
      <3>3. roster[s].player # None => conn'[roster[s].player] = conn[roster[s].player]
        BY <2>3, <3>2 DEF TypeOK
      <3> QED
        BY <2>1, <2>3, <3>3 DEF Fine
    <2> QED
      BY <2>2, <2>3
  <1>3. SeatsDiffer'
    BY <1>1 DEF SeatsDiffer, Differ
  <1>4. \A s \in Slots : Stands(s)
    BY DEF Stands
  <1> QED
    BY <1>1, <1>2, <1>3, <1>4 DEF Heard, SeatsFine

-----------------------------------------------------------------------------
\* The seat h is r taken by c: otherwise it is as it was, but that a forced hero
\* is picked with it.
TakenBy(h, r, c) ==
    /\ h.player = c /\ h.claim = r.claim /\ h.late = r.late /\ h.dummy = r.dummy
    /\ forced_hero = None => h.hero = r.hero /\ h.locked = r.locked /\ h.ready = FALSE
    /\ forced_hero # None => h.hero = forced_hero /\ h.locked = TRUE

LEMMA HeldSeat ==
    ASSUME TypeOK, NEW r \in Seat, NEW c \in Connections, NEW role \in Roles
    PROVE  Held(r, c, role) \in Seat /\ TakenBy(Held(r, c, role), r, c)
  <1>1. CASE forced_hero = None
    BY <1>1 DEF Held, Seat, TakenBy
  <1>2. CASE forced_hero # None
    <2>1. forced_hero \in Heroes
      BY <1>2, ForcedHero
    <2> QED
      BY <1>2, <2>1 DEF Held, Seat, TakenBy
  <1> QED
    BY <1>1, <1>2

\* A seat nobody holds, taken by a connection that holds none, under the claim it
\* had or one that no seat has.
LEMMA SeatTaken ==
    ASSUME TypeOK, SeatsFine, SeatsDiffer, UNCHANGED <<conn, clock, opts>>,
           NEW c \in Connections, NEW role \in Roles, NEW s \in Slots,
           conn[c] = "in", ~greeted(c),
           roster[s].player = None, ~roster[s].dummy,
           NEW r \in Seat,
           roster' = [roster EXCEPT ![s] = r],
           \A t \in Slots \ {s} : r.claim # None => roster[t].claim # r.claim,
           /\ r.player = c /\ r.late = roster[s].late /\ r.dummy = roster[s].dummy
           /\ forced_hero = None =>
                 r.hero = roster[s].hero /\ r.locked = roster[s].locked /\ r.ready = FALSE
           /\ forced_hero # None => r.hero = forced_hero /\ r.locked = TRUE
    PROVE  Heard
  <1>1. Fine(roster[s]) /\ roster[s] \in Seat
    BY SlotsTyped DEF SeatsFine
  <1>2. c # None /\ \A t \in Slots : roster[t].player # c
    BY LobbyAssumption DEF greeted, SeatsOf
  <1>3. /\ forced_hero # None =>
              opts.sameHeroes /\ opts.heroes = {forced_hero} /\ forced_hero \in Heroes
        /\ None \notin Heroes
    BY ForcedHero, LobbyAssumption
  <1>4. roster[s].locked \in BOOLEAN /\ roster[s].hero \in Heroes \cup {None}
    BY <1>1, SeatTyped
  <1>5. Fine(r)
    BY <1>1, <1>3, <1>4 DEF Fine
  <1>6. \A t \in Slots \ {s} : Differ(r, roster[t]) /\ Differ(roster[t], r)
    BY <1>2, <1>3 DEF SeatsDiffer, Differ
  <1>7. /\ roster[s].locked => r.hero = roster[s].hero /\ r.locked
        /\ roster[s].hero # None => r.late = roster[s].late /\ r.hero # None
    BY <1>1, <1>3, <1>4 DEF Fine
  <1> QED
    BY <1>5, <1>6, <1>7, OneSeatMoves

\* A connection without a seat that goes moves none.
LEMMA RefusedLeaves ==
    ASSUME TypeOK, SeatsFine, SeatsDiffer, UNCHANGED <<clock, opts>>,
           NEW c \in Connections, ~greeted(c), Refused(c)
    PROVE  Heard
  <1>1. roster' = roster /\ conn' = [conn EXCEPT ![c] = "gone"]
    BY DEF Refused
  <1>2. \A s \in Slots : roster[s].player # c
    BY DEF greeted, SeatsOf
  <1>3. roster' \in [Slots -> Seat]
    BY <1>1, SlotsTyped
  <1> QED
    BY <1>1, <1>2, <1>3, SeatsOpen

LEMMA TakeSeatHeard ==
    ASSUME TypeOK, SeatsFine, SeatsDiffer, UNCHANGED <<clock, opts>>,
           NEW c \in Connections, NEW role \in Roles, NEW s \in Slots,
           conn[c] = "in", ~greeted(c), ~roster[s].dummy, take_seat(c, role, s)
    PROVE  Heard
  <1>1. roster \in [Slots -> Seat]
    BY SlotsTyped
  <1>2. CASE Refused(c)
    BY <1>2, RefusedLeaves
  <1>3. CASE /\ roster[s].player = None
             /\ roster' = [roster EXCEPT ![s] = Held(@, c, role)]
             /\ UNCHANGED conn
    <2> DEFINE r == Held(roster[s], c, role)
    <2>1. roster' = [roster EXCEPT ![s] = r]
      BY <1>3
    <2>2. r \in Seat /\ TakenBy(r, roster[s], c)
      <3>1. roster[s] \in Seat
        BY <1>1
      <3> QED
        BY <3>1, HeldSeat
    <2> HIDE DEF r
    <2>3. \A t \in Slots \ {s} : r.claim # None => roster[t].claim # r.claim
      BY <2>2 DEF SeatsDiffer, Differ, TakenBy
    <2> QED
      BY <1>3, <2>1, <2>2, <2>3, SeatTaken DEF TakenBy
  <1> QED
    BY <1>2, <1>3 DEF take_seat

LEMMA AnySeatHeard ==
    ASSUME TypeOK, SeatsFine, SeatsDiffer, UNCHANGED <<clock, opts>>,
           NEW c \in Connections, NEW role \in Roles, NEW key \in Keys \cup {None},
           conn[c] = "in", ~greeted(c), any_seat(c, role, key)
    PROVE  Heard
  <1>1. roster \in [Slots -> Seat] /\ Slots \subseteq Nat
    BY SlotsTyped
  <1>2. CASE Refused(c)
    BY <1>2, RefusedLeaves
  <1>3. CASE Claimed(key) # {} /\ take_seat(c, role, Greatest(Claimed(key)))
    <2> DEFINE s == Greatest(Claimed(key))
    <2>1. s \in Claimed(key)
      <3>1. PICK n \in Nat : Slots = 0..(n - 1)
        BY SlotsTyped
      <3>2. Claimed(key) \subseteq 0..(n - 1)
        BY <3>1 DEF Claimed
      <3> QED
        BY <1>3, <3>2, GreatestSlot
    <2>2. s \in Slots /\ roster[s].claim # None /\ Fine(roster[s])
      BY <2>1 DEF Claimed, SeatsFine
    <2>3. ~roster[s].dummy
      BY <2>2 DEF Fine
    <2> QED
      BY <1>3, <2>2, <2>3, TakeSeatHeard
  <1>4. CASE /\ Claimed(key) = {} /\ FreeSeats # {}
             /\ roster' = [roster EXCEPT ![Least(FreeSeats)] =
                              [Held(@, c, role) EXCEPT !.claim = key]]
             /\ UNCHANGED conn
    <2> DEFINE s == Least(FreeSeats)
               h == Held(roster[s], c, role)
               r == [h EXCEPT !.claim = key]
    <2>1. s \in FreeSeats
      <3>1. FreeSeats \subseteq Nat
        BY <1>1 DEF FreeSeats
      <3> QED
        BY <1>4, <3>1, LeastSlot
    <2>2. s \in Slots /\ roster[s].player = None /\ ~roster[s].dummy
      BY <2>1 DEF FreeSeats
    <2>3. roster' = [roster EXCEPT ![s] = r]
      BY <1>4
    <2>4. h \in Seat /\ TakenBy(h, roster[s], c)
      <3>1. roster[s] \in Seat
        BY <1>1, <2>2
      <3> QED
        BY <3>1, HeldSeat
    <2> HIDE DEF s, h
    <2>5. /\ r \in Seat /\ r.claim = key
          /\ r.player = h.player /\ r.late = h.late /\ r.dummy = h.dummy
          /\ r.hero = h.hero /\ r.locked = h.locked /\ r.ready = h.ready
      BY <2>4 DEF Seat
    <2> HIDE DEF r
    <2>6. \A t \in Slots \ {s} : r.claim # None => roster[t].claim # r.claim
      BY <1>4, <2>5 DEF Claimed
    <2>7. UNCHANGED <<conn, clock, opts>>
      BY <1>4
    <2>8. /\ r.player = c /\ r.late = roster[s].late /\ r.dummy = roster[s].dummy
          /\ forced_hero = None =>
                r.hero = roster[s].hero /\ r.locked = roster[s].locked /\ r.ready = FALSE
          /\ forced_hero # None => r.hero = forced_hero /\ r.locked = TRUE
      BY <2>4, <2>5 DEF TakenBy
    <2> QED
      BY <2>2, <2>3, <2>5, <2>6, <2>7, <2>8, SeatTaken
  <1> QED
    BY <1>2, <1>3, <1>4 DEF any_seat

LEMMA GreetHeard ==
    ASSUME TypeOK, SeatsFine, SeatsDiffer, UNCHANGED <<clock, opts>>,
           NEW c \in Connections, NEW role \in Roles, NEW key \in Keys \cup {None},
           greet(c, role, key)
    PROVE  Heard
  <1>1. conn[c] = "in" /\ ~greeted(c)
    BY DEF greet
  <1>2. CASE opts.reserved = <<>>
    BY <1>1, <1>2, AnySeatHeard DEF greet
  <1>3. CASE opts.reserved # <<>>
    <2>1. reserved_seat(c, role, key)
      BY <1>3 DEF greet
    <2>2. CASE Refused(c)
      BY <1>1, <2>2, RefusedLeaves
    <2>3. ASSUME NEW s \in Reserved(key), take_seat(c, role, s)
          PROVE  Heard
      <3>1. s \in Slots /\ Fine(roster[s])
        BY DEF Reserved, SeatsFine
      <3>2. ~roster[s].dummy
        BY <1>3, <3>1 DEF Fine
      <3> QED
        BY <1>1, <2>3, <3>1, <3>2, TakeSeatHeard
    <2> QED
      BY <2>1, <2>2, <2>3 DEF reserved_seat
  <1> QED
    BY <1>2, <1>3

\* A pick of a hero the seat may have.
LEMMA PickHeard ==
    ASSUME LobbyInv, UNCHANGED <<clock, opts>>,
           NEW c \in Connections, NEW hero \in Heroes, PickHero(c, hero)
    PROVE  Heard
  <1>1. PICK s \in SeatsOf(c) :
          /\ ~roster[s].locked
          /\ roster' = [roster EXCEPT
                ![s].late = IF roster[s].hero = None THEN late_secs ELSE @,
                ![s].hero = hero,
                ![s].locked = roster[s].ready \/ is_past_selection]
    BY DEF PickHero
  <1>2. /\ TypeOK /\ SeatsFine /\ SeatsDiffer /\ UNCHANGED <<conn, clock, opts>>
        /\ conn[c] = "in" /\ hero \in opts.heroes /\ hero # None
        /\ opts.sameHeroes \/ ~taken_by_other(c, hero)
    BY LobbyAssumption DEF LobbyInv, PickHero
  <1>3. s \in Slots /\ roster[s].player = c /\ c # None
    BY LobbyAssumption DEF SeatsOf
  <1>4. roster \in [Slots -> Seat] /\ roster[s] \in Seat /\ Fine(roster[s])
    BY <1>2, <1>3, SlotsTyped DEF SeatsFine
  <1>5. late_secs \in Nat /\ late_secs <= PenaltyTime
        /\ (clock.phase \in {"Waiting", "Selecting"} => late_secs = 0)
    BY LobbyAssumption DEF late_secs, LobbyInv, ClockRuns, Phases
  <1> DEFINE late == IF roster[s].hero = None THEN late_secs ELSE roster[s].late
             locked == roster[s].ready \/ is_past_selection
             r == [roster[s] EXCEPT !.late = late, !.hero = hero, !.locked = locked]
  <1>6. late \in Nat /\ late <= PenaltyTime
        /\ (clock.phase \in {"Waiting", "Selecting"} => late = 0)
    BY <1>4, <1>5, SeatTyped DEF Fine
  <1>7. locked \in BOOLEAN
    BY <1>4, SeatTyped DEF is_past_selection
  <1>8. roster' = [roster EXCEPT ![s] = r]
    BY <1>1, <1>3, <1>4
  <1>9. /\ r \in Seat /\ r.late = late /\ r.hero = hero /\ r.locked = locked
        /\ r.player = c /\ r.claim = roster[s].claim /\ r.dummy = roster[s].dummy
        /\ r.ready = roster[s].ready
    <2> HIDE DEF late, locked
    <2> QED
      BY <1>3, <1>4, <1>6, <1>7 DEF Seat
  <1> HIDE DEF r
  <1>10. clock.phase # "Tactical"
    BY <1>1, <1>4 DEF Fine
  <1>11. Fine(r)
    <2>1. r.ready => r.locked
      BY <1>9, Zenon
    <2> HIDE DEF late, locked
    <2> QED
      BY <1>2, <1>3, <1>4, <1>6, <1>9, <1>10, <2>1 DEF Fine
  <1>12. \A t \in Slots \ {s} : Differ(r, roster[t]) /\ Differ(roster[t], r)
    <2>1. \A t \in Slots \ {s} : roster[t].player # c
      BY <1>2, <1>3 DEF SeatsDiffer, Differ
    <2>2. \A t \in Slots \ {s} : ~opts.sameHeroes => roster[t].hero # hero
      BY <1>2, <2>1 DEF taken_by_other
    <2> QED
      BY <1>2, <1>3, <1>9, <2>1, <2>2 DEF SeatsDiffer, Differ
  <1>13. /\ roster[s].locked => r.hero = roster[s].hero /\ r.locked
         /\ roster[s].hero # None => r.late = roster[s].late /\ r.hero # None
    BY <1>1, <1>2, <1>9
  <1> QED
    BY <1>2, <1>3, <1>8, <1>9, <1>11, <1>12, <1>13, OneSeatMoves

\* Readiness given or withdrawn.
LEMMA ReadyHeard ==
    ASSUME LobbyInv, UNCHANGED <<clock, opts>>,
           NEW c \in Connections, NEW ready \in BOOLEAN, SetReady(c, ready)
    PROVE  Heard
  <1>1. PICK s \in SeatsOf(c) :
          roster' = [roster EXCEPT ![s].ready = ready,
                         ![s].locked = @ \/ (ready /\ roster[s].hero # None)]
    BY DEF SetReady
  <1>2. TypeOK /\ SeatsFine /\ SeatsDiffer /\ UNCHANGED <<conn, clock, opts>>
    BY DEF LobbyInv, SetReady
  <1>3. s \in Slots
    BY DEF SeatsOf
  <1>4. roster \in [Slots -> Seat] /\ roster[s] \in Seat /\ Fine(roster[s])
    BY <1>2, <1>3, SlotsTyped DEF SeatsFine
  <1> DEFINE locked == roster[s].locked \/ (ready /\ roster[s].hero # None)
             r == [roster[s] EXCEPT !.ready = ready, !.locked = locked]
  <1>5. locked \in BOOLEAN
    BY <1>4, SeatTyped
  <1>6. roster' = [roster EXCEPT ![s] = r]
    BY <1>1, <1>3, <1>4
  <1>7. /\ r \in Seat /\ r.late = roster[s].late /\ r.hero = roster[s].hero /\ r.locked = locked
        /\ r.player = roster[s].player /\ r.claim = roster[s].claim
        /\ r.dummy = roster[s].dummy /\ r.ready = ready
    <2> HIDE DEF locked
    <2> QED
      BY <1>4, <1>5 DEF Seat
  <1> HIDE DEF r
  <1>8. Fine(r)
    BY <1>4, <1>7 DEF Fine
  <1>9. \A t \in Slots \ {s} : Differ(r, roster[t]) /\ Differ(roster[t], r)
    BY <1>2, <1>3, <1>7 DEF SeatsDiffer, Differ
  <1>10. /\ roster[s].locked => r.hero = roster[s].hero /\ r.locked
         /\ roster[s].hero # None => r.late = roster[s].late /\ r.hero # None
    BY <1>7
  <1> QED
    BY <1>2, <1>3, <1>6, <1>7, <1>8, <1>9, <1>10, OneSeatMoves

\* A connection that goes, and one whose catalogue is refused: its seat opens.
LEMMA GoesHeard ==
    ASSUME TypeOK, SeatsFine, SeatsDiffer, UNCHANGED <<clock, opts>>,
           NEW c \in Connections, Departs(c) \/ CatalogueRefused(c)
    PROVE  Heard
  <1>1. roster \in [Slots -> Seat]
    BY SlotsTyped
  <1>2. conn' = [conn EXCEPT ![c] = "gone"]
    BY DEF Departs, CatalogueRefused
  <1> DEFINE freed(s) == [roster[s] EXCEPT !.player = None, !.role = None, !.ready = FALSE]
             clean(s) == [freed(s) EXCEPT !.claim = None]
  <1>3. ASSUME NEW s \in Slots
        PROVE  /\ freed(s) \in Seat /\ freed(s).player = None /\ freed(s).ready = FALSE
               /\ freed(s).claim = roster[s].claim
               /\ freed(s).hero = roster[s].hero /\ freed(s).locked = roster[s].locked
               /\ freed(s).late = roster[s].late /\ freed(s).dummy = roster[s].dummy
    <2>1. roster[s] \in Seat
      BY <1>1
    <2> QED
      BY <2>1 DEF Seat
  <1>4. ASSUME NEW s \in Slots
        PROVE  /\ clean(s) \in Seat /\ clean(s).player = None /\ clean(s).ready = FALSE
               /\ clean(s).claim = None
               /\ clean(s).hero = roster[s].hero /\ clean(s).locked = roster[s].locked
               /\ clean(s).late = roster[s].late /\ clean(s).dummy = roster[s].dummy
    <2> HIDE DEF freed
    <2> QED
      BY <1>3 DEF Seat
  <1>5. CASE Departs(c)
    <2>1. roster' = [s \in Slots |-> IF roster[s].player = c THEN freed(s) ELSE roster[s]]
      BY <1>5 DEF Departs, Released
    <2> HIDE DEF freed
    <2>2. roster' \in [Slots -> Seat]
      BY <1>1, <1>3, <2>1
    <2> QED
      BY <1>2, <1>3, <2>1, <2>2, SeatsOpen
  <1>6. CASE CatalogueRefused(c)
    <2>1. roster' = [s \in Slots |-> IF roster[s].player = c THEN clean(s) ELSE roster[s]]
      BY <1>6 DEF CatalogueRefused, Released
    <2> HIDE DEF clean
    <2>2. roster' \in [Slots -> Seat]
      BY <1>1, <1>4, <2>1
    <2> QED
      BY <1>2, <1>4, <2>1, <2>2, SeatsOpen
  <1> QED
    BY <1>5, <1>6

\* A connection adopted, a seat left or nothing to hear: the roster stays.
LEMMA RosterStays ==
    ASSUME TypeOK, SeatsFine, SeatsDiffer, UNCHANGED <<clock, opts, roster>>,
           \A c \in Connections : conn[c] = "in" => conn'[c] = "in"
    PROVE  Heard
  <1>1. roster \in [Slots -> Seat] /\ Slots' = Slots
    BY SlotsTyped DEF Slots
  <1>2. ASSUME NEW s \in Slots
        PROVE  Fine(roster[s])'
    <2>1. Fine(roster[s]) /\ roster[s] \in Seat
      BY <1>1 DEF SeatsFine
    <2>2. roster[s].player \in Connections \cup {None}
      BY <2>1, SeatTyped
    <2> QED
      BY <2>1, <2>2 DEF Fine
  <1>3. SeatsDiffer'
    BY <1>1 DEF SeatsDiffer, Differ
  <1>4. \A s \in Slots : Stands(s)
    BY DEF Stands
  <1> QED
    BY <1>1, <1>2, <1>3, <1>4 DEF Heard, SeatsFine

\* Whatever is heard, the roster stays sound.
LEMMA HearHeard ==
    ASSUME LobbyInv, UNCHANGED <<clock, opts>>, hear
    PROVE  /\ Heard
           /\ conn' \in [Connections -> {"out", "in", "gone"}]
           /\ left' \subseteq Slots
  <1>1. TypeOK /\ SeatsFine /\ SeatsDiffer
    BY DEF LobbyInv
  <1>2. conn \in [Connections -> {"out", "in", "gone"}] /\ left \subseteq Slots
    BY <1>1 DEF TypeOK
  <1>3. ASSUME NEW c \in Connections, adopt(c)
        PROVE  Heard /\ conn' \in [Connections -> {"out", "in", "gone"}] /\ left' \subseteq Slots
    <2>1. conn' = [conn EXCEPT ![c] = "in"] /\ UNCHANGED <<roster, left>>
      BY <1>3 DEF adopt
    <2>2. \A d \in Connections : conn[d] = "in" => conn'[d] = "in"
      BY <1>2, <2>1
    <2> QED
      BY <1>1, <1>2, <2>1, <2>2, RosterStays
  <1>4. ASSUME NEW c \in Connections, leave_game(c)
        PROVE  Heard /\ conn' \in [Connections -> {"out", "in", "gone"}] /\ left' \subseteq Slots
    <2>1. left' = left \cup SeatsOf(c) /\ UNCHANGED <<conn, roster>>
      BY <1>4 DEF leave_game
    <2>2. SeatsOf(c) \subseteq Slots
      BY DEF SeatsOf
    <2> QED
      BY <1>1, <1>2, <2>1, <2>2, RosterStays
  <1>5. ASSUME NEW c \in Connections, Departs(c) \/ CatalogueRefused(c)
        PROVE  Heard /\ conn' \in [Connections -> {"out", "in", "gone"}] /\ left' \subseteq Slots
    <2>1. conn' = [conn EXCEPT ![c] = "gone"] /\ left' = left
      BY <1>5 DEF Departs, CatalogueRefused
    <2> QED
      BY <1>1, <1>2, <1>5, <2>1, GoesHeard
  <1>6. ASSUME NEW c \in Connections, NEW role \in Roles, NEW key \in Keys \cup {None},
               greet(c, role, key)
        PROVE  Heard /\ conn' \in [Connections -> {"out", "in", "gone"}] /\ left' \subseteq Slots
    <2>1. conn' \in {conn, [conn EXCEPT ![c] = "gone"]} /\ left' = left
      BY <1>6 DEF greet, any_seat, reserved_seat, take_seat, Refused
    <2> QED
      BY <1>1, <1>2, <1>6, <2>1, GreetHeard
  <1>7. ASSUME NEW c \in Connections, NEW hero \in Heroes, PickHero(c, hero)
        PROVE  Heard /\ conn' \in [Connections -> {"out", "in", "gone"}] /\ left' \subseteq Slots
    <2>1. UNCHANGED <<conn, left>>
      BY <1>7 DEF PickHero
    <2> QED
      BY <1>2, <1>7, <2>1, PickHeard
  <1>8. ASSUME NEW c \in Connections, NEW ready \in BOOLEAN, SetReady(c, ready)
        PROVE  Heard /\ conn' \in [Connections -> {"out", "in", "gone"}] /\ left' \subseteq Slots
    <2>1. UNCHANGED <<conn, left>>
      BY <1>8 DEF SetReady
    <2> QED
      BY <1>2, <1>8, <2>1, ReadyHeard
  <1>9. CASE Ignored
    BY <1>1, <1>2, <1>9, RosterStays DEF Ignored
  <1> QED
    BY <1>3, <1>4, <1>5, <1>6, <1>7, <1>8, <1>9 DEF hear

\* The events the lobby hears, and those it hears while it closes.
LEMMA HearKeeps ==
    ASSUME LobbyInv, NEW next \in {"clock", "close"},
           pc \in {"listen", "close"}, next = "close" => pc = "close",
           hear_in_lobby(next), drained' \in 0..MaxLobbyDrain
    PROVE  LobbyInv' /\ Slots' = Slots /\ \A s \in Slots : Stands(s)
  <1>1. /\ hear /\ pc' = (IF left' # {} THEN "cancelled" ELSE next)
        /\ UNCHANGED <<opts, delays, clock, startBy, abandonBy>>
    BY DEF hear_in_lobby
  <1>2. /\ Heard
        /\ conn' \in [Connections -> {"out", "in", "gone"}]
        /\ left' \subseteq Slots
    BY <1>1, HearHeard
  <1>3. TypeOK
    BY DEF LobbyInv
  <1>4. roster' \in [Slots -> Seat] /\ Slots' = Slots
    BY <1>2, <1>3 DEF Heard, Slots
  <1>5. PICK n \in 0..opts.players : roster \in [0..(n - 1) -> Seat]
    BY <1>3 DEF TypeOK
  <1>6. roster' \in [0..(n - 1) -> Seat]
    BY <1>4, <1>5 DEF Slots
  <1>7. TypeOK'
    BY <1>1, <1>2, <1>3, <1>4, <1>5, <1>6 DEF TypeOK
  <1>8. PicksMade'
    BY <1>1, <1>2, <1>4 DEF LobbyInv, PicksMade, all_picked, Heard, Stands
  <1>9. DelaysFit' /\ LeaverCancels' /\ (pc # "panicked")'
    BY <1>1, <1>4 DEF LobbyInv, DelaysFit, LeaverCancels
  <1>10. check_opts(opts)' /\ ClockRuns'
    BY <1>1 DEF LobbyInv, check_opts, ClockRuns
  <1>11. SeatsFine' /\ SeatsDiffer' /\ \A s \in Slots : Stands(s)
    BY <1>2 DEF Heard
  <1> QED
    BY <1>4, <1>7, <1>8, <1>9, <1>10, <1>11 DEF LobbyInv

-----------------------------------------------------------------------------
(* The draws. *)

\* A seat's draw is right: the hero it has, else the default hero while it is
\* free, else one that is.
Right(drawn, s) ==
    IF roster[s].hero # None THEN drawn[s] = roster[s].hero
    ELSE IF DefaultHero \in Free(drawn, s) THEN drawn[s] = DefaultHero
    ELSE drawn[s] \in Free(drawn, s)

\* A seat without a hero finds one free, whatever the seats before it drew: the
\* other seats are fewer than the heroes.
LEMMA OneIsFree ==
    ASSUME TypeOK, check_opts(opts), NEW k \in Slots, roster[k].hero = None,
           NEW d \in [0..(k - 1) -> Heroes],
           \A s \in 0..(k - 1) : roster[s].hero # None => d[s] = roster[s].hero
    PROVE  Free(d, k) # {}
  <1>1. CASE opts.sameHeroes
    BY <1>1 DEF Free, check_opts
  <1>2. CASE ~opts.sameHeroes
    <2>1. PICK n \in Nat : /\ n <= opts.players /\ Slots = 0..(n - 1)
                           /\ IsFiniteSet(Slots) /\ Cardinality(Slots) = n
      BY SlotsTyped
    <2>2. /\ opts.players \in Nat /\ IsFiniteSet(opts.heroes)
          /\ Cardinality(opts.heroes) \in Nat /\ Cardinality(opts.heroes) >= opts.players
      BY <1>2, OptionsTyped, FS_CardinalityType DEF check_opts
    <2> DEFINE Others == Slots \ {k}
               held(t) == IF roster[t].hero = None /\ t < k THEN d[t] ELSE roster[t].hero
               f == [t \in Others |-> held(t)]
               used == {f[t] : t \in Others}
    <2>3. IsFiniteSet(Others) /\ Cardinality(Others) = n - 1
      BY <2>1, FS_RemoveElement
    <2>4. IsFiniteSet(used) /\ Cardinality(used) \in Nat /\ Cardinality(used) <= n - 1
      <3>1. f \in Surjection(Others, used)
        BY Fun_IsSurj DEF Surjection
      <3> HIDE DEF Others, f, used
      <3>2. IsFiniteSet(used) /\ Cardinality(used) <= Cardinality(Others)
        BY <2>3, <3>1, FS_Surjection
      <3> QED
        BY <2>3, <3>2, FS_CardinalityType
    <2>5. PICK h \in opts.heroes : h \notin used
      <3>1. CASE opts.heroes \subseteq used
        <4>1. Cardinality(opts.heroes) <= Cardinality(used)
          BY <2>4, <3>1, FS_Subset
        <4> HIDE DEF used
        <4> QED
          BY <2>1, <2>2, <2>4, <4>1
      <3> QED
        BY <3>1
    <2>6. \A t \in Others : held(t) # h
      BY <2>5
    <2>7. ~Holds(h)
      <3>1. opts.heroes \subseteq Heroes
        BY OptionsTyped
      <3>2. h # None
        BY <3>1, LobbyAssumption
      <3>3. \A t \in Slots : roster[t].hero # h
        BY <2>6, <3>2
      <3> QED
        BY <3>3 DEF Holds
    <2>8. \A t \in 0..(k - 1) : d[t] # h
      BY <2>1, <2>6
    <2> QED
      BY <1>2, <2>7, <2>8 DEF Free
  <1> QED
    BY <1>1, <1>2

\* draw_missing_picks never runs out of heroes.
LEMMA DrawsExist ==
    ASSUME TypeOK, check_opts(opts)
    PROVE  Draws # {}
  <1>1. PICK n \in Nat : Slots = 0..(n - 1) /\ roster \in [Slots -> Seat]
    BY SlotsTyped
  <1>2. opts.heroes \subseteq Heroes /\ None \notin Heroes
    BY OptionsTyped, LobbyAssumption
  <1> DEFINE Part(k) == {d \in [0..(k - 1) -> Heroes] : \A s \in 0..(k - 1) : Right(d, s)}
             Bad == {k \in 0..n : Part(k) = {}}
  <1>3. Bad = {}
    <2> SUFFICES ASSUME Bad # {} PROVE FALSE
      OBVIOUS
    <2>1. PICK m \in Bad : \A t \in Bad : m <= t
      <3>1. Bad \subseteq Nat
        OBVIOUS
      <3> HIDE DEF Bad
      <3> QED
        BY <3>1, LeastSlot
    <2>2. m # 0
      <3>1. ASSUME m = 0 PROVE FALSE
        <4>1. [s \in 0..(0 - 1) |-> DummyHero] \in Part(0)
          BY LobbyAssumption
        <4> QED
          BY <3>1, <4>1
      <3> QED
        BY <3>1
    <2> DEFINE k == m - 1
    <2>3. k \in Nat /\ k \in Slots /\ m = k + 1
      BY <1>1, <2>1, <2>2
    <2>4. PICK d \in [0..(k - 1) -> Heroes] : \A s \in 0..(k - 1) : Right(d, s)
      <3>1. k \in 0..n /\ ~(m <= k)
        BY <2>1, <2>3
      <3>2. k \notin Bad
        <4> HIDE DEF Bad
        <4> QED
          BY <2>1, <3>1
      <3>3. Part(k) # {}
        <4> HIDE DEF Part, k
        <4> QED
          BY <3>1, <3>2
      <3> QED
        BY <3>3
    <2> HIDE DEF k
    <2>5. \E h \in Heroes : IF roster[k].hero # None THEN h = roster[k].hero
                            ELSE IF DefaultHero \in Free(d, k) THEN h = DefaultHero
                            ELSE h \in Free(d, k)
      <3>1. Free(d, k) \subseteq Heroes
        BY <1>2 DEF Free
      <3>2. CASE roster[k].hero # None
        <4>1. roster[k] \in Seat
          BY <1>1, <2>3
        <4> QED
          BY <3>2, <4>1, SeatTyped
      <3>3. CASE roster[k].hero = None
        <4>1. Free(d, k) # {}
          BY <2>3, <2>4, <3>3, OneIsFree DEF Right
        <4> QED
          BY <3>1, <3>3, <4>1
      <3> QED
        BY <3>2, <3>3
    <2>6. PICK h \in Heroes : IF roster[k].hero # None THEN h = roster[k].hero
                              ELSE IF DefaultHero \in Free(d, k) THEN h = DefaultHero
                              ELSE h \in Free(d, k)
      BY <2>5
    <2> DEFINE e == [t \in 0..(m - 1) |-> IF t = k THEN h ELSE d[t]]
    <2>7. e \in [0..(m - 1) -> Heroes] /\ e[k] = h /\ \A t \in 0..(k - 1) : e[t] = d[t]
      BY <2>3, <2>4
    <2> HIDE DEF e
    <2>8. ASSUME NEW s \in 0..k PROVE Free(e, s) = Free(d, s)
      <3>1. \A t \in 0..(s - 1) : e[t] = d[t]
        BY <2>3, <2>7
      <3>2. \A x : (\A t \in 0..(s - 1) : e[t] # x) <=> (\A t \in 0..(s - 1) : d[t] # x)
        BY <3>1
      <3> QED
        BY <3>2, Zenon DEF Free
    <2>9. ASSUME NEW s \in 0..(m - 1) PROVE Right(e, s)
      <3>1. CASE s = k
        BY <2>3, <2>6, <2>7, <2>8, <3>1 DEF Right
      <3>2. CASE s # k
        <4>1. s \in 0..(k - 1) /\ s \in 0..k
          BY <2>3, <3>2
        <4> QED
          BY <2>4, <2>7, <2>8, <4>1 DEF Right
      <3> QED
        BY <3>1, <3>2
    <2>10. e \in Part(m)
      BY <2>7, <2>9
    <2> QED
      BY <2>1, <2>10
  <1>4. PICK d \in [0..(n - 1) -> Heroes] : \A s \in 0..(n - 1) : Right(d, s)
    <2>1. Part(n) # {}
      <3>1. n \in 0..n
        OBVIOUS
      <3> HIDE DEF Part
      <3> QED
        BY <1>3, <3>1
    <2> QED
      BY <2>1
  <1>5. d \in Draws
    BY <1>1, <1>4 DEF Draws, Right
  <1> QED
    BY <1>5

-----------------------------------------------------------------------------
(* The clock of the picks. *)

\* A roster the thread may put in place of its own: as sound, with no final pick
\* changed and no penalty.
Sound(seats) ==
    /\ seats \in [Slots -> Seat]
    /\ \A s \in Slots : Fine(seats[s])
    /\ \A s, t \in Slots : s # t => Differ(seats[s], seats[t])
    /\ \A s \in Slots :
          /\ roster[s].locked => seats[s].hero = roster[s].hero /\ seats[s].locked
          /\ roster[s].hero # None => seats[s].late = roster[s].late /\ seats[s].hero # None

LEMMA LateSecs ==
    ASSUME ClockRuns
    PROVE  /\ late_secs \in Nat /\ late_secs <= PenaltyTime
           /\ clock.phase \in {"Waiting", "Selecting"} => late_secs = 0
  BY LobbyAssumption DEF late_secs, ClockRuns, Phases

LEMMA RosterSelfSound ==
    ASSUME TypeOK, SeatsFine, SeatsDiffer
    PROVE  Sound(roster)
  <1>1. roster \in [Slots -> Seat]
    BY SlotsTyped
  <1> QED
    BY <1>1 DEF Sound, SeatsFine, SeatsDiffer

\* The picks drawn for the seats that made none differ from the others'.
LEMMA DrawnSound ==
    ASSUME LobbyInv, NEW drawn \in Draws
    PROVE  /\ Sound(Drawn(drawn, late_secs))
           /\ \A s \in Slots : Drawn(drawn, late_secs)[s].hero # None
  <1>1. TypeOK /\ SeatsFine /\ SeatsDiffer /\ ClockRuns
    BY DEF LobbyInv
  <1>2. PICK n \in Nat : Slots = 0..(n - 1) /\ roster \in [Slots -> Seat]
    BY <1>1, SlotsTyped
  <1>3. opts.heroes \subseteq Heroes /\ None \notin Heroes
    BY <1>1, OptionsTyped, LobbyAssumption
  <1>4. drawn \in [Slots -> Heroes] /\ \A s \in Slots : Right(drawn, s)
    BY DEF Draws, Right
  <1>5. ASSUME NEW s \in Slots, roster[s].hero = None
        PROVE  drawn[s] \in Free(drawn, s)
    BY <1>4, <1>5 DEF Right
  <1>6. ASSUME NEW s \in Slots, roster[s].hero = None
        PROVE  drawn[s] \in opts.heroes
    BY <1>5, <1>6 DEF Free
  <1> DEFINE seats == Drawn(drawn, late_secs)
             ready(s) == roster[s].player # None
             new(s) == [roster[s] EXCEPT !.hero = drawn[s], !.locked = TRUE,
                            !.late = late_secs, !.ready = ready(s)]
  <1>7. /\ late_secs \in Nat /\ late_secs <= PenaltyTime
        /\ clock.phase \in {"Waiting", "Selecting"} => late_secs = 0
    BY <1>1, LateSecs
  <1>8. ASSUME NEW s \in Slots
        PROVE  /\ new(s) \in Seat /\ new(s).hero = drawn[s] /\ new(s).locked = TRUE
               /\ new(s).late = late_secs /\ new(s).player = roster[s].player
               /\ new(s).dummy = roster[s].dummy /\ new(s).claim = roster[s].claim
    <2>1. roster[s] \in Seat /\ drawn[s] \in Heroes /\ ready(s) \in BOOLEAN
      BY <1>2, <1>4
    <2> HIDE DEF ready
    <2> QED
      BY <1>7, <2>1 DEF Seat
  <1>9. /\ DOMAIN seats = Slots
        /\ \A s \in Slots : seats[s] = IF roster[s].hero # None THEN roster[s] ELSE new(s)
    BY DEF Drawn
  <1> HIDE DEF new
  <1>10. seats \in [Slots -> Seat]
    <2>1. \A s \in Slots : seats[s] \in Seat
      BY <1>2, <1>8, <1>9
    <2>2. seats = [s \in Slots |-> seats[s]]
      BY DEF Drawn
    <2> HIDE DEF seats
    <2> QED
      BY <2>1, <2>2
  <1> HIDE DEF seats
  <1>11. ASSUME NEW s \in Slots
         PROVE  /\ Fine(seats[s]) /\ seats[s].hero # None
                /\ seats[s].player = roster[s].player /\ seats[s].claim = roster[s].claim
                /\ roster[s].locked => seats[s].hero = roster[s].hero /\ seats[s].locked
                /\ roster[s].hero # None => seats[s].late = roster[s].late /\ seats[s].hero # None
    <2>1. Fine(roster[s])
      BY <1>1 DEF SeatsFine
    <2>2. CASE roster[s].hero # None
      BY <1>9, <2>1, <2>2
    <2>3. CASE roster[s].hero = None
      <3>1. seats[s] = new(s)
        BY <1>9, <2>3
      <3>2. drawn[s] \in opts.heroes
        BY <1>6, <2>3
      <3> QED
        BY <1>3, <1>7, <1>8, <2>1, <2>3, <3>1, <3>2 DEF Fine
    <2> QED
      BY <2>2, <2>3
  <1>12. ASSUME NEW s \in Slots, NEW t \in Slots, s # t, ~opts.sameHeroes
         PROVE  seats[s].hero # seats[t].hero
    <2>1. \A u \in Slots : roster[u].hero = None =>
             ~Holds(drawn[u]) /\ \A v \in 0..(u - 1) : drawn[v] # drawn[u]
      BY <1>5, <1>12 DEF Free
    <2>2. \A u \in Slots : seats[u].hero = drawn[u]
      BY <1>4, <1>8, <1>9, ZenonT(40) DEF Right
    <2>3. CASE roster[s].hero # None /\ roster[t].hero # None
      BY <1>1, <1>9, <1>12, <2>3 DEF SeatsDiffer, Differ
    <2>4. CASE roster[s].hero # None /\ roster[t].hero = None
      BY <1>4, <2>1, <2>2, <2>4 DEF Holds, Right
    <2>5. CASE roster[s].hero = None /\ roster[t].hero # None
      BY <1>4, <2>1, <2>2, <2>5 DEF Holds, Right
    <2>6. CASE roster[s].hero = None /\ roster[t].hero = None
      BY <1>2, <1>12, <2>1, <2>2, <2>6
    <2> QED
      BY <2>3, <2>4, <2>5, <2>6
  <1>13. ASSUME NEW s \in Slots, NEW t \in Slots, s # t
         PROVE  Differ(seats[s], seats[t])
    BY <1>1, <1>11, <1>12, <1>13 DEF SeatsDiffer, Differ
  <1>14. Sound(seats) /\ \A s \in Slots : seats[s].hero # None
    BY <1>10, <1>11, <1>13 DEF Sound
  <1> QED
    BY <1>14 DEF seats

\* The tactical phase begins with every pick made, and makes them final.
LEMMA TacticalKeeps ==
    ASSUME LobbyInv, pc = "clock", NEW seats, Sound(seats),
           \A s \in Slots : seats[s].hero # None, begin_tactical(seats)
    PROVE  LobbyInv' /\ Slots' = Slots /\ \A s \in Slots : Stands(s)
  <1>1. /\ roster' = Final(seats)
        /\ clock' = [phase |-> "Tactical", left |-> TacticalTime]
        /\ UNCHANGED <<opts, delays, conn, startBy, abandonBy, left, pc, drained>>
    BY DEF begin_tactical
  <1>2. TypeOK
    BY DEF LobbyInv
  <1>3. seats \in [Slots -> Seat]
    BY DEF Sound
  <1>4. ASSUME NEW s \in Slots
        PROVE  /\ roster'[s] \in Seat /\ roster'[s].locked = TRUE
               /\ roster'[s].hero = seats[s].hero /\ roster'[s].late = seats[s].late
               /\ roster'[s].player = seats[s].player /\ roster'[s].claim = seats[s].claim
               /\ roster'[s].dummy = seats[s].dummy
    <2>1. seats[s] \in Seat
      BY <1>3
    <2>2. roster'[s] = [seats[s] EXCEPT !.locked = TRUE]
      BY <1>1, <1>3 DEF Final
    <2> QED
      BY <2>1, <2>2 DEF Seat
  <1>5. DOMAIN roster' = Slots /\ roster' = [s \in Slots |-> roster'[s]]
    BY <1>1, <1>3 DEF Final
  <1>6. roster' \in [Slots -> Seat] /\ Slots' = Slots
    BY <1>4, <1>5 DEF Slots
  <1>7. TypeOK'
    <2>1. PICK n \in 0..opts.players : roster \in [0..(n - 1) -> Seat]
      BY <1>2 DEF TypeOK
    <2>2. roster' \in [0..(n - 1) -> Seat]
      BY <1>6, <2>1 DEF Slots
    <2>3. clock'.left \in -MaxLag..(PickTime + PenaltyTime + TacticalTime)
          /\ clock'.phase \in Phases
      BY <1>1, LobbyAssumption DEF Phases
    <2> QED
      BY <1>1, <1>2, <1>6, <2>1, <2>2, <2>3 DEF TypeOK
  <1>8. ClockRuns'
    BY <1>1, LobbyAssumption DEF ClockRuns, Phases
  <1>9. ASSUME NEW s \in Slots
        PROVE  Fine(roster[s])' /\ Stands(s)
    <2>1. Fine(seats[s]) /\ seats[s].hero # None
      BY DEF Sound
    <2> QED
      BY <1>1, <1>4, <2>1 DEF Fine, Stands, Sound
  <1>10. SeatsDiffer'
    <2>1. ASSUME NEW s \in Slots, NEW t \in Slots, s # t
          PROVE  Differ(roster[s], roster[t])'
      <3>1. Differ(seats[s], seats[t])
        BY <2>1 DEF Sound
      <3> QED
        BY <1>1, <1>4, <3>1 DEF Differ
    <2> QED
      BY <1>6, <2>1 DEF SeatsDiffer
  <1>11. PicksMade' /\ DelaysFit' /\ LeaverCancels' /\ (pc # "panicked")'
    BY <1>1, <1>6 DEF LobbyInv, PicksMade, DelaysFit, LeaverCancels
  <1>12. check_opts(opts)'
    BY <1>1 DEF LobbyInv, check_opts
  <1> QED
    BY <1>6, <1>7, <1>8, <1>9, <1>10, <1>11, <1>12 DEF LobbyInv, SeatsFine

\* The clock starts: the seats after the last held one may be dropped, and an
\* order delay with each.
LEMMA StartKeeps ==
    ASSUME LobbyInv, start_clock
    PROVE  LobbyInv' /\ Slots' \subseteq Slots /\ \A s \in Slots' : Stands(s)
  <1>1. /\ pc = "clock" /\ clock.phase = "Waiting" /\ roster' = close_to_seated
        /\ delays' = IF roster' = roster THEN delays
                     ELSE Truncated(delays, Cardinality(DOMAIN roster'))
        /\ clock' = [phase |-> "Selecting", left |-> PickTime]
        /\ UNCHANGED <<opts, conn, startBy, abandonBy, left, pc, drained>>
    BY DEF start_clock
  <1>2. TypeOK /\ SeatsFine /\ SeatsDiffer
    BY DEF LobbyInv
  <1>3. PICK n \in Nat : /\ n <= opts.players /\ Slots = 0..(n - 1)
                         /\ roster \in [Slots -> Seat] /\ Cardinality(Slots) = n
    BY <1>2, SlotsTyped
  <1>4. \E m \in Nat : m <= n /\ roster' = [s \in 0..(m - 1) |-> roster[s]]
    <2> DEFINE held == {s \in Slots : roster[s].player # None}
    <2>1. CASE roster' = roster
      BY <1>3, <2>1
    <2>2. CASE roster' # roster
      <3>1. held # {} /\ roster' = [s \in 0..Greatest(held) |-> roster[s]]
        BY <1>1, <2>2 DEF close_to_seated
      <3>2. held \subseteq 0..(n - 1)
        BY <1>3
      <3> HIDE DEF held
      <3>3. Greatest(held) \in 0..(n - 1)
        BY <3>1, <3>2, GreatestSlot
      <3>4. Greatest(held) + 1 \in Nat /\ Greatest(held) + 1 <= n
            /\ (Greatest(held) + 1) - 1 = Greatest(held)
        BY <3>3
      <3> QED
        BY <3>1, <3>4
    <2> QED
      BY <2>1, <2>2
  <1>5. PICK m \in Nat : m <= n /\ roster' = [s \in 0..(m - 1) |-> roster[s]]
    BY <1>4
  <1>6. /\ Slots' = 0..(m - 1) /\ Slots' \subseteq Slots
        /\ roster' \in [0..(m - 1) -> Seat] /\ \A s \in Slots' : roster'[s] = roster[s]
    BY <1>3, <1>5 DEF Slots
  <1>7. left = {}
    BY <1>1 DEF LobbyInv, LeaverCancels
  <1>8. delays \in Nat /\ opts.players \in Nat
    BY <1>2, OptionsTyped DEF TypeOK
  <1>9. Cardinality(Slots') = m
    <2>1. m \in Nat /\ 0 \in Int /\ m - 1 \in Int
      OBVIOUS
    <2>2. Cardinality(0..(m - 1)) = IF 0 > m - 1 THEN 0 ELSE (m - 1) - 0 + 1
      BY <2>1, FS_Interval
    <2> QED
      BY <1>6, <2>1, <2>2
  <1>10. delays' \in Nat /\ DelaysFit'
    <2>1. delays <= 1 \/ delays = n
      BY <1>3 DEF LobbyInv, DelaysFit
    <2>2. CASE roster' = roster
      <3>1. m = n
        BY <1>3, <1>9, <2>2 DEF Slots
      <3> QED
        BY <1>1, <1>8, <1>9, <2>1, <2>2, <3>1 DEF DelaysFit
    <2>3. CASE roster' # roster
      <3>1. delays' = Truncated(delays, m)
        BY <1>1, <1>9, <2>3 DEF Slots
      <3> QED
        BY <1>5, <1>8, <1>9, <2>1, <3>1 DEF DelaysFit, Truncated
    <2> QED
      BY <2>2, <2>3
  <1>11. TypeOK'
    <2>1. clock'.left \in -MaxLag..(PickTime + PenaltyTime + TacticalTime)
          /\ clock'.phase \in Phases
      BY <1>1, LobbyAssumption DEF Phases
    <2>2. m \in 0..opts.players
      BY <1>3, <1>5, <1>8
    <2> QED
      BY <1>1, <1>2, <1>6, <1>7, <1>10, <2>1, <2>2 DEF TypeOK
  <1>12. ASSUME NEW s \in Slots'
         PROVE  Fine(roster[s])' /\ Stands(s)
    <2>1. Fine(roster[s]) /\ roster'[s] = roster[s]
      BY <1>2, <1>6 DEF SeatsFine
    <2> QED
      BY <1>1, <2>1 DEF Fine, Stands
  <1>13. ASSUME NEW s \in Slots', NEW t \in Slots', s # t
         PROVE  Differ(roster[s], roster[t])'
    <2>1. Differ(roster[s], roster[t])
      BY <1>2, <1>6, <1>13 DEF SeatsDiffer
    <2> QED
      BY <1>1, <1>6, <2>1 DEF Differ
  <1>14. ClockRuns' /\ PicksMade' /\ LeaverCancels' /\ (pc # "panicked")' /\ check_opts(opts)'
    BY <1>1, <1>7, LobbyAssumption
       DEF LobbyInv, ClockRuns, Phases, PicksMade, LeaverCancels, check_opts
  <1> QED
    BY <1>6, <1>10, <1>11, <1>12, <1>13, <1>14 DEF LobbyInv, SeatsFine, SeatsDiffer

\* The selection ends with picks missing: those made become final.
LEMMA LateKeeps ==
    ASSUME LobbyInv, pc = "clock", clock.phase = "Selecting", clock.left <= 0,
           roster' = [s \in Slots |-> [roster[s] EXCEPT
                           !.locked = @ \/ roster[s].hero # None]],
           clock' = [phase |-> "Late", left |-> clock.left + PenaltyTime],
           UNCHANGED <<opts, delays, conn, startBy, abandonBy, left, pc, drained>>
    PROVE  LobbyInv' /\ Slots' = Slots /\ \A s \in Slots : Stands(s)
  <1>1. TypeOK /\ SeatsFine /\ SeatsDiffer /\ ClockRuns
    BY DEF LobbyInv
  <1>2. roster \in [Slots -> Seat]
    BY <1>1, SlotsTyped
  <1>3. ASSUME NEW s \in Slots
        PROVE  /\ roster'[s] \in Seat
               /\ roster'[s].locked <=> roster[s].hero # None
               /\ roster'[s].hero = roster[s].hero /\ roster'[s].late = roster[s].late
               /\ roster'[s].player = roster[s].player /\ roster'[s].claim = roster[s].claim
               /\ roster'[s].dummy = roster[s].dummy /\ roster'[s].ready = roster[s].ready
    <2> DEFINE locked == roster[s].locked \/ roster[s].hero # None
    <2>1. roster[s] \in Seat
      BY <1>2
    <2>2. locked \in BOOLEAN /\ (locked <=> roster[s].hero # None)
      BY <1>1, <2>1, SeatTyped DEF SeatsFine, Fine
    <2>3. roster'[s] = [roster[s] EXCEPT !.locked = locked]
      OBVIOUS
    <2> HIDE DEF locked
    <2>4. /\ roster'[s] \in Seat /\ roster'[s].locked = locked
          /\ roster'[s].hero = roster[s].hero /\ roster'[s].late = roster[s].late
          /\ roster'[s].player = roster[s].player /\ roster'[s].claim = roster[s].claim
          /\ roster'[s].dummy = roster[s].dummy /\ roster'[s].ready = roster[s].ready
      BY <2>1, <2>2, <2>3 DEF Seat
    <2> QED
      BY <2>2, <2>4
  <1>4. roster' \in [Slots -> Seat] /\ Slots' = Slots
    <2>1. DOMAIN roster' = Slots /\ roster' = [s \in Slots |-> roster'[s]]
      BY Zenon
    <2> QED
      BY <1>3, <2>1 DEF Slots
  <1>5. TypeOK' /\ ClockRuns'
    <2>1. PICK n \in 0..opts.players : roster \in [0..(n - 1) -> Seat]
      BY <1>1 DEF TypeOK
    <2>2. roster' \in [0..(n - 1) -> Seat]
      BY <1>4, <2>1 DEF Slots
    <2>3. clock.left \in Int /\ clock.left >= -MaxLag
      BY <1>1, LobbyAssumption DEF TypeOK
    <2>4. clock'.left \in -MaxLag..(PickTime + PenaltyTime + TacticalTime)
          /\ clock'.phase \in Phases /\ clock'.left <= PenaltyTime
      BY <2>3, LobbyAssumption DEF Phases
    <2>5. ClockRuns'
      BY <2>3, <2>4, LobbyAssumption DEF ClockRuns, Phases
    <2> QED
      BY <1>1, <1>4, <2>1, <2>2, <2>4, <2>5 DEF TypeOK
  <1>6. ASSUME NEW s \in Slots
        PROVE  Fine(roster[s])' /\ Stands(s)
    <2>1. Fine(roster[s])
      BY <1>1 DEF SeatsFine
    <2>2. roster[s].late = 0 /\ 0 <= PenaltyTime
      BY <2>1, LobbyAssumption DEF Fine
    <2> QED
      BY <1>3, <2>1, <2>2 DEF Fine, Stands
  <1>7. ASSUME NEW s \in Slots, NEW t \in Slots, s # t
        PROVE  Differ(roster[s], roster[t])'
    <2>1. Differ(roster[s], roster[t])
      BY <1>1, <1>7 DEF SeatsDiffer
    <2> QED
      BY <1>3, <2>1 DEF Differ
  <1>8. /\ DelaysFit' /\ PicksMade' /\ LeaverCancels' /\ (pc # "panicked")'
        /\ check_opts(opts)'
    BY <1>4 DEF LobbyInv, DelaysFit, PicksMade, LeaverCancels, check_opts
  <1> QED
    BY <1>4, <1>5, <1>6, <1>7, <1>8 DEF LobbyInv, SeatsFine, SeatsDiffer

-----------------------------------------------------------------------------
(* The steps of the thread. *)

\* A step that leaves the roster: the thread goes elsewhere, or a second passes.
LEMMA ThreadMoves ==
    ASSUME LobbyInv, UNCHANGED <<opts, delays, conn, roster, left, drained>>,
           pc # "cancelled",
           pc' \in {"clock", "wait", "listen", "close", "started", "abandoned"},
           pc' \in {"close", "started"} => all_picked,
           startBy' \in Nat \cup {None}, abandonBy' \in Nat \cup {None},
           clock'.phase = clock.phase, ClockRuns',
           clock'.left \in -MaxLag..(PickTime + PenaltyTime + TacticalTime)
    PROVE  LobbyInv' /\ Slots' = Slots /\ \A s \in Slots : Stands(s)
  <1>1. TypeOK /\ SeatsFine /\ SeatsDiffer
    BY DEF LobbyInv
  <1>2. Slots' = Slots
    BY DEF Slots
  <1>3. TypeOK'
    BY <1>1, <1>2 DEF TypeOK
  <1>4. SeatsFine'
    BY <1>1, <1>2 DEF SeatsFine, Fine
  <1>5. SeatsDiffer'
    BY <1>1, <1>2 DEF SeatsDiffer, Differ
  <1>6. PicksMade' /\ DelaysFit' /\ LeaverCancels' /\ (pc # "panicked")'
    BY <1>2 DEF LobbyInv, PicksMade, all_picked, DelaysFit, LeaverCancels
  <1>7. check_opts(opts)'
    BY DEF LobbyInv, check_opts
  <1> QED
    BY <1>2, <1>3, <1>4, <1>5, <1>6, <1>7 DEF LobbyInv, Stands

\* The time to start is up: the picks missing are drawn.
LEMMA DeadlineKeeps ==
    ASSUME LobbyInv, deadline_passes
    PROVE  LobbyInv' /\ Slots' = Slots /\ \A s \in Slots : Stands(s)
  <1>1. /\ pc = "wait"
        /\ abandonBy' = IF AbandonNow THEN None ELSE abandonBy
        /\ UNCHANGED <<opts, delays, conn, clock, startBy, left, drained>>
    BY DEF deadline_passes
  <1>2. TypeOK /\ SeatsFine /\ SeatsDiffer /\ check_opts(opts) /\ ClockRuns
    BY DEF LobbyInv
  <1>3. abandonBy' \in Nat \cup {None}
    BY <1>1, <1>2 DEF TypeOK
  <1>4. CASE pc' = "clock" /\ UNCHANGED roster
    <2>1. ClockRuns'
      BY <1>1, <1>2 DEF ClockRuns
    <2>2. clock'.left \in -MaxLag..(PickTime + PenaltyTime + TacticalTime)
          /\ startBy' \in Nat \cup {None}
      BY <1>1, <1>2 DEF TypeOK
    <2> QED
      BY <1>1, <1>3, <1>4, <2>1, <2>2, ThreadMoves
  <1>5. ASSUME NEW drawn \in Draws, roster' = Drawn(drawn, late_secs), pc' = "close"
        PROVE  LobbyInv' /\ Slots' = Slots /\ \A s \in Slots : Stands(s)
    <2> DEFINE seats == Drawn(drawn, late_secs)
    <2>1. Sound(seats) /\ \A s \in Slots : seats[s].hero # None
      BY DrawnSound
    <2>2. roster' = seats
      BY <1>5
    <2> HIDE DEF seats
    <2>3. roster' \in [Slots -> Seat] /\ Slots' = Slots
      BY <2>1, <2>2 DEF Sound, Slots
    <2>4. TypeOK'
      <3>1. PICK n \in 0..opts.players : roster \in [0..(n - 1) -> Seat]
        BY <1>2 DEF TypeOK
      <3>2. roster' \in [0..(n - 1) -> Seat]
        BY <2>3, <3>1 DEF Slots
      <3> QED
        BY <1>1, <1>2, <1>3, <1>5, <2>3, <3>1, <3>2 DEF TypeOK
    <2>5. ASSUME NEW s \in Slots
          PROVE  Fine(roster[s])' /\ Stands(s)
      <3>1. Fine(seats[s])
        BY <2>1 DEF Sound
      <3> QED
        BY <1>1, <2>1, <2>2, <3>1 DEF Fine, Stands, Sound
    <2>6. ASSUME NEW s \in Slots, NEW t \in Slots, s # t
          PROVE  Differ(roster[s], roster[t])'
      <3>1. Differ(seats[s], seats[t])
        BY <2>1, <2>6 DEF Sound
      <3> QED
        BY <1>1, <2>2, <3>1 DEF Differ
    <2>7. PicksMade' /\ DelaysFit' /\ LeaverCancels' /\ (pc # "panicked")'
      BY <1>1, <1>5, <2>1, <2>2, <2>3
         DEF LobbyInv, PicksMade, all_picked, DelaysFit, LeaverCancels
    <2>8. check_opts(opts)' /\ ClockRuns'
      BY <1>1, <1>2 DEF check_opts, ClockRuns
    <2> QED
      BY <2>3, <2>4, <2>5, <2>6, <2>7, <2>8 DEF LobbyInv, SeatsFine, SeatsDiffer
  <1>6. Draws # {}
    BY <1>2, DrawsExist
  <1> QED
    BY <1>4, <1>5, <1>6 DEF deadline_passes

\* A second passes.
LEMMA PassesKeeps ==
    ASSUME LobbyInv, passes
    PROVE  LobbyInv' /\ Slots' = Slots /\ \A s \in Slots : Stands(s)
  <1>1. TypeOK /\ ClockRuns
    BY DEF LobbyInv
  <1>2. /\ pc \in {"wait", "listen"}
        /\ clock.left > -MaxLag \/ clock.phase = "Waiting"
        /\ clock' = IF clock.phase = "Waiting" THEN clock
                    ELSE [clock EXCEPT !.left = @ - 1]
        /\ startBy' = Less(startBy) /\ abandonBy' = Less(abandonBy)
        /\ UNCHANGED <<opts, delays, conn, roster, left, pc, drained>>
    BY DEF passes
  <1>3. startBy' \in Nat \cup {None} /\ abandonBy' \in Nat \cup {None}
    BY <1>1, <1>2 DEF TypeOK, Less
  <1>4. /\ clock \in [phase : Phases, left : Int]
        /\ clock.left \in -MaxLag..(PickTime + PenaltyTime + TacticalTime)
        /\ clock.phase = "Late" => clock.left <= PenaltyTime
    BY <1>1 DEF ClockRuns, TypeOK
  <1>5. /\ clock'.phase = clock.phase /\ ClockRuns'
        /\ clock'.left \in -MaxLag..(PickTime + PenaltyTime + TacticalTime)
    <2>1. CASE clock.phase = "Waiting"
      BY <1>2, <1>4, <2>1 DEF ClockRuns
    <2>2. CASE clock.phase # "Waiting"
      <3>1. clock' = [clock EXCEPT !.left = clock.left - 1] /\ clock.left > -MaxLag
        BY <1>2, <2>2
      <3>2. clock'.phase = clock.phase /\ clock'.left = clock.left - 1
            /\ clock' \in [phase : Phases, left : Int]
        BY <1>4, <3>1
      <3>3. -MaxLag \in Int /\ PickTime + PenaltyTime + TacticalTime \in Int /\ PenaltyTime \in Int
        BY LobbyAssumption
      <3> QED
        BY <1>4, <3>1, <3>2, <3>3 DEF ClockRuns
    <2> QED
      BY <2>1, <2>2
  <1> QED
    BY <1>2, <1>3, <1>5, ThreadMoves

\* The invariant holds of the lobby the options give.
LEMMA InitLobby ==
    Init => LobbyInv
  <1> SUFFICES ASSUME Init PROVE LobbyInv
    OBVIOUS
  <1>1. /\ opts \in Options /\ check_opts(opts) /\ delays = opts.delays
        /\ conn = [c \in Connections |-> "out"] /\ roster = NewRoster(opts)
        /\ clock = [phase |-> "Waiting", left |-> 0] /\ startBy = opts.startAfter
        /\ abandonBy \in {None, opts.startAfter, UnjoinedAfter}
        /\ left = {} /\ pc = "clock" /\ drained = 0
    BY DEF Init
  <1>2. opts \in ServerOpts
    BY <1>1, LobbyAssumption
  <1>3. opts.players \in Nat /\ opts.delays \in Nat /\ opts.startAfter \in Nat \cup {None}
    BY <1>2 DEF ServerOpts
  <1> DEFINE open  == [player |-> None, role |-> None, hero |-> None,
                       ready |-> FALSE, locked |-> FALSE, late |-> 0,
                       dummy |-> FALSE, claim |-> None]
             dummy == [open EXCEPT !.role = "Bot", !.hero = DummyHero,
                              !.ready = TRUE, !.locked = TRUE, !.dummy = TRUE]
             given(s) == IF opts.dummy /\ opts.reserved = <<>> /\ s = opts.players - 1
                         THEN dummy ELSE open
  <1>4. roster = [s \in 0..(opts.players - 1) |-> given(s)]
    BY <1>1 DEF NewRoster
  <1>5. open \in Seat /\ dummy \in Seat
    BY LobbyAssumption DEF Seat, Roles
  <1>6. /\ open.player = None /\ open.claim = None /\ open.hero = None /\ open.late = 0
        /\ ~open.ready /\ ~open.locked /\ ~open.dummy
        /\ dummy.player = None /\ dummy.claim = None /\ dummy.hero = DummyHero
        /\ dummy.late = 0 /\ dummy.locked /\ dummy.dummy
    OBVIOUS
  <1> HIDE DEF open, dummy
  <1>7. /\ roster \in [0..(opts.players - 1) -> Seat]
        /\ Slots = 0..(opts.players - 1) /\ \A s \in Slots : roster[s] = given(s)
    BY <1>4, <1>5 DEF Slots
  <1>8. TypeOK
    <2>1. opts.players \in 0..opts.players
      BY <1>3
    <2>2. clock.phase \in Phases
          /\ clock.left \in -MaxLag..(PickTime + PenaltyTime + TacticalTime)
      BY <1>1, LobbyAssumption DEF Phases
    <2>3. abandonBy \in Nat \cup {None} /\ drained \in 0..MaxLobbyDrain
      BY <1>1, <1>3, LobbyAssumption
    <2> QED
      BY <1>1, <1>3, <1>7, <2>1, <2>2, <2>3 DEF TypeOK
  <1>9. ClockRuns
    BY <1>1, LobbyAssumption DEF ClockRuns, Phases
  <1>10. ASSUME NEW s \in Slots
         PROVE  Fine(roster[s])
    <2>1. 0 <= PenaltyTime /\ DummyHero # None
      BY LobbyAssumption
    <2>2. clock.phase = "Waiting"
      BY <1>1
    <2>3. CASE roster[s] = open
      BY <1>6, <2>1, <2>2, <2>3 DEF Fine
    <2>4. CASE opts.reserved = <<>> /\ roster[s] = dummy
      BY <1>6, <2>1, <2>2, <2>4 DEF Fine
    <2> QED
      BY <1>7, <2>3, <2>4
  <1>11. ASSUME NEW s \in Slots, NEW t \in Slots, s # t
         PROVE  Differ(roster[s], roster[t])
    <2>1. DummyHero # None
      BY LobbyAssumption
    <2>2. roster[s] = open \/ (roster[s] = dummy /\ roster[t] = open)
      BY <1>3, <1>7, <1>11
    <2>3. CASE roster[s] = open
      BY <1>6, <2>3 DEF Differ
    <2>4. CASE roster[s] = dummy /\ roster[t] = open
      BY <1>6, <2>1, <2>4 DEF Differ
    <2> QED
      BY <2>2, <2>3, <2>4
  <1>12. DelaysFit
    <2>1. PICK n \in Nat : Slots = 0..(n - 1) /\ Cardinality(Slots) = n
      BY <1>8, SlotsTyped
    <2>2. n = opts.players
      BY <1>3, <1>7, <2>1
    <2> QED
      BY <1>1, <2>1, <2>2 DEF DelaysFit, check_opts
  <1>13. PicksMade /\ LeaverCancels /\ pc # "panicked"
    BY <1>1 DEF PicksMade, LeaverCancels
  <1> QED
    BY <1>1, <1>8, <1>9, <1>10, <1>11, <1>12, <1>13 DEF LobbyInv, SeatsFine, SeatsDiffer

\* Every step keeps the invariant and lets the picks stand.
LEMMA LobbyStep ==
    ASSUME LobbyInv, [Next]_vars
    PROVE  LobbyInv' /\ Slots' \subseteq Slots /\ \A s \in Slots' : Stands(s)
  <1>1. /\ TypeOK /\ SeatsFine /\ SeatsDiffer /\ ClockRuns /\ check_opts(opts)
        /\ Sound(roster) /\ Draws # {}
    BY RosterSelfSound, DrawsExist DEF LobbyInv
  <1>2. /\ startBy \in Nat \cup {None} /\ abandonBy \in Nat \cup {None}
        /\ clock.left \in -MaxLag..(PickTime + PenaltyTime + TacticalTime)
        /\ drained \in 0..MaxLobbyDrain
    BY <1>1 DEF TypeOK
  <1>3. CASE start_clock
    BY <1>3, StartKeeps
  <1>4. CASE locked_in
    <2>1. \A s \in Slots : roster[s].hero # None
      BY <1>4 DEF locked_in, all_locked_in, all_picked
    <2> QED
      BY <1>1, <1>4, <2>1, TacticalKeeps DEF locked_in
  <1>5. CASE selection_ends
    <2>1. CASE all_picked /\ begin_tactical(roster)
      BY <1>1, <1>5, <2>1, TacticalKeeps DEF selection_ends, all_picked
    <2>2. CASE ~(all_picked /\ begin_tactical(roster))
      BY <1>5, <2>2, LateKeeps DEF selection_ends
    <2> QED
      BY <2>1, <2>2
  <1>6. CASE penalty_ends
    <2>1. PICK drawn \in Draws : begin_tactical(Drawn(drawn, late_secs))
      BY <1>1, <1>6 DEF penalty_ends, Panics
    <2>2. pc = "clock"
      BY <1>6 DEF penalty_ends
    <2>3. /\ Sound(Drawn(drawn, late_secs))
          /\ \A s \in Slots : Drawn(drawn, late_secs)[s].hero # None
      BY DrawnSound
    <2> QED
      BY <2>1, <2>2, <2>3, TacticalKeeps
  <1>7. ASSUME UNCHANGED <<opts, delays, conn, roster, clock, startBy, abandonBy, left, drained>>,
               pc # "cancelled", pc' \in {"close", "started"} => all_picked,
               pc' \in {"clock", "wait", "listen", "close", "started", "abandoned"}
        PROVE  LobbyInv' /\ Slots' \subseteq Slots /\ \A s \in Slots' : Stands(s)
    <2>1. ClockRuns'
      BY <1>1, <1>7 DEF ClockRuns
    <2> QED
      BY <1>2, <1>7, <2>1, ThreadMoves
  <1>8. CASE match_begins
    <2>1. all_picked
      BY <1>1, <1>8 DEF match_begins, TacticalOver, all_picked, SeatsFine, Fine
    <2> QED
      BY <1>7, <1>8, <2>1 DEF match_begins
  <1>9. CASE clock_runs
    BY <1>7, <1>9 DEF clock_runs
  <1>10. CASE listens \/ times_out \/ abandons
    BY <1>7, <1>10 DEF listens, times_out, abandons
  <1>11. CASE deadline_passes
    BY <1>11, DeadlineKeeps
  <1>12. CASE hears
    BY <1>2, <1>12, HearKeeps DEF hears
  <1>13. CASE drains
    <2>1. drained' \in 0..MaxLobbyDrain
      BY <1>2, <1>13, LobbyAssumption DEF drains
    <2> QED
      BY <1>13, <2>1, HearKeeps DEF drains
  <1>14. CASE starts
    <2>1. all_picked
      BY <1>14 DEF starts, LobbyInv, PicksMade
    <2> QED
      BY <1>7, <1>14, <2>1 DEF starts
  <1>15. CASE passes
    BY <1>15, PassesKeeps
  <1>16. CASE UNCHANGED vars
    <2>1. UNCHANGED <<opts, delays, conn, roster, clock, startBy, abandonBy, left, pc, drained>>
      BY <1>16 DEF vars
    <2>2. Slots' = Slots
      BY <2>1 DEF Slots
    <2> QED
      BY <2>1, <2>2 DEF LobbyInv, TypeOK, check_opts, ClockRuns, SeatsFine, Fine,
         SeatsDiffer, Differ, PicksMade, all_picked, DelaysFit, LeaverCancels, Stands
  <1> QED
    BY <1>3, <1>4, <1>5, <1>6, <1>8, <1>9, <1>10, <1>11, <1>12, <1>13, <1>14, <1>15, <1>16
       DEF Next, PickClock, Waits, Closes

-----------------------------------------------------------------------------
(* Theorems. *)

\* The inductive invariant holds of every behaviour of the lobby.
THEOREM LobbyInvariant == Spec => []LobbyInv
  <1>1. Init => LobbyInv
    BY InitLobby
  <1>2. LobbyInv /\ [Next]_vars => LobbyInv'
    BY LobbyStep
  <1> QED
    BY <1>1, <1>2, PTL DEF Spec

\* A set no two members of which differ has one at most.
LEMMA AtMostOne ==
    ASSUME NEW T, \A x, y \in T : x = y
    PROVE  Cardinality(T) <= 1
  <1>1. CASE T = {}
    BY <1>1, FS_EmptySet
  <1>2. CASE T # {}
    <2>1. PICK x : T = {x}
      BY <1>2
    <2>2. Cardinality({x}) = 1
      BY FS_Singleton
    <2> QED
      BY <2>1, <2>2
  <1> QED
    BY <1>1, <1>2

\* Whatever is said in a lobby and in which order, its roster is sound: every
\* seat's holder is there and holds no other, a key claims one seat, no two seats
\* have one hero unless they may, ready and tactical picks are final, and a seat
\* pays for the penalty phase alone (Roster, PickClock, draw_missing_picks).
THEOREM RosterIsSound == Spec => []RosterSound
  <1>1. ASSUME LobbyInv PROVE RosterSound
    <2>1. TypeOK /\ SeatsFine /\ SeatsDiffer
      BY <1>1 DEF LobbyInv
    <2>2. SeatsHeldOnce
      <3>1. ASSUME NEW c \in Connections PROVE Cardinality(SeatsOf(c)) <= 1
        <4>1. c # None
          BY LobbyAssumption
        <4>2. \A s, t \in SeatsOf(c) : s = t
          BY <2>1, <4>1 DEF SeatsOf, SeatsDiffer, Differ
        <4> QED
          BY <4>2, AtMostOne
      <3>2. ASSUME NEW key \in Keys PROVE Cardinality(Claimed(key)) <= 1
        <4>1. \A s, t \in Claimed(key) : s = t
          BY <2>1 DEF Claimed, SeatsDiffer, Differ
        <4> QED
          BY <4>1, AtMostOne
      <3>3. \A s \in Slots : roster[s].player # None => conn[roster[s].player] = "in"
        BY <2>1 DEF SeatsFine, Fine
      <3> QED
        BY <3>1, <3>2, <3>3 DEF SeatsHeldOnce
    <2>3. HeroesDistinct
      BY <2>1 DEF HeroesDistinct, SeatsDiffer, Differ
    <2>4. PicksFinal
      BY <2>1 DEF PicksFinal, SeatsFine, Fine
    <2>5. PenaltyBounded
      BY <2>1 DEF PenaltyBounded, SeatsFine, Fine
    <2> QED
      BY <2>1, <2>2, <2>3, <2>4, <2>5 DEF RosterSound
  <1> QED
    BY <1>1, LobbyInvariant, PTL

\* A match starts with every pick made and every delay known, or not at all: no
\* draw runs out of heroes, and a leaver heard cancels it (lobby_phase,
\* close_lobby, draw_missing_picks).
THEOREM MatchStartsRightly == Spec => []StartsRightly
  <1>1. ASSUME LobbyInv PROVE StartsRightly
    BY <1>1 DEF LobbyInv, StartsRightly, StartsComplete, PicksMade, DelaysFit
  <1> QED
    BY <1>1, LobbyInvariant, PTL

\* A final pick and a penalty never change (RosterSeat::pick_locked, hold,
\* release), though the seat's holder may.
THEOREM PicksStand == Spec => PickStands
  <1> DEFINE Step == \A s \in Slots \cap DOMAIN roster' :
          /\ roster[s].locked => /\ roster'[s].hero = roster[s].hero
                                 /\ roster'[s].locked
          /\ roster[s].hero # None => roster'[s].late = roster[s].late
  <1>1. LobbyInv /\ [Next]_vars => [Step]_vars
    <2> SUFFICES ASSUME LobbyInv, [Next]_vars PROVE Step
      OBVIOUS
    <2>1. \A s \in Slots' : Stands(s)
      BY LobbyStep
    <2> QED
      BY <2>1 DEF Stands, Slots
  <1>2. [][Step]_vars => PickStands
    BY DEF PickStands
  <1> QED
    BY <1>1, <1>2, LobbyInvariant, PTL DEF Spec
=============================================================================
