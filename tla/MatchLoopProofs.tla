--------------------------- MODULE MatchLoopProofs ---------------------------
(***************************************************************************)
(* The match holds every seat for one connection that is there, keeps out  *)
(* whoever left it, waits in lockstep for everybody it sent the tick to,   *)
(* and ends for no other reason than it may, for any seats, connections,   *)
(* keys and lineups.                                                       *)
(***************************************************************************)
EXTENDS MatchLoop, FiniteSetTheorems, FunctionTheorems, WellFoundedInduction, TLAPS

\* What a sequence of events is left with once the first was heard.
LEMMA HeadOfQueue ==
    ASSUME NEW q \in Seq(Event), q # <<>>
    PROVE  /\ Head(q) \in Event
           /\ Head(q) = q[1] /\ 1 \in DOMAIN q
           /\ Tail(q) \in Seq(Event)
           /\ DOMAIN Tail(q) = 1..(Len(q) - 1)
           /\ \A i \in DOMAIN Tail(q) : Tail(q)[i] = q[i + 1] /\ i + 1 \in DOMAIN q
  OBVIOUS

\* Events are of connections.
LEMMA ConnsOfQueue ==
    ASSUME NEW q \in Seq(Event)
    PROVE  \A i \in DOMAIN q : q[i].conn \in Connections
  <1>1. \A i \in DOMAIN q : q[i] \in Event
    OBVIOUS
  <1>2. \A e \in Event : e.conn \in Connections
    BY DEF Event
  <1> QED
    BY <1>1, <1>2

\* An acknowledgement gone stale is still an event of its connection.
LEMMA OldIsEvent ==
    ASSUME NEW e \in Event
    PROVE  /\ Old(e) \in Event
           /\ Old(e).kind = e.kind /\ Old(e).conn = e.conn
  BY DEF Old, Event

\* What hears makes of the event it takes: one of the handlers, or nothing.
LEMMA HearsOne ==
    ASSUME TypeOK, hears
    PROVE  \E e \in Event :
              /\ e = Head(rx)
              /\ \/ UNCHANGED <<player, acked, left, conn, answered>>
                 \/ ~Unheard(e) /\ e.kind = "connected" /\ adopt(e.conn)
                 \/ ~Unheard(e) /\ e.kind = "gone" /\ lose_conn(e.conn)
                 \/ ~Unheard(e) /\ e.kind = "hello" /\ greet(e.conn, e.key)
                 \/ ~Unheard(e) /\ e.kind = "ack" /\ ack(e.conn, e.fresh)
                 \/ ~Unheard(e) /\ e.kind = "leave" /\ leave_game(e.conn)
  <1>1. Head(rx) \in Event
    BY HeadOfQueue DEF TypeOK, hears
  <1>2. hear(Head(rx))
    BY DEF hears
  <1> QED
    BY <1>1, <1>2 DEF hear

-----------------------------------------------------------------------------
(* Types. *)

LEMMA InitTypes == Init => TypeOK
  <1> SUFFICES ASSUME Init
               PROVE  TypeOK
    OBVIOUS
  <1>1. PICK m \in Matches :
          /\ opts = m.opts
          /\ key = [s \in Seats |-> m.lineup[s].key]
          /\ player = [s \in Seats |-> m.lineup[s].player]
    BY DEF Init
  <1>2. m.opts \in Opts /\ WellSeated(m.lineup)
    BY MatchAssumption
  <1>3. \A s \in Seats : /\ m.lineup[s].key \in Keys \cup {None}
                         /\ m.lineup[s].player \in Connections \cup {None}
    BY <1>2 DEF WellSeated
  <1>4. /\ opts \in Opts /\ key \in [Seats -> Keys \cup {None}]
        /\ player \in [Seats -> Connections \cup {None}]
    BY <1>1, <1>2, <1>3
  <1>5. left \in Seq(Seats) /\ rx \in Seq(Event) /\ acked \in [Seats -> BOOLEAN]
    BY DEF Init
  <1>7. seated \in [Seats -> BOOLEAN]
    BY Zenon DEF Init
  <1>6. /\ conn \in [Connections -> {"out", "in", "gone"}]
        /\ peer \in [Connections -> {"out", "dialed", "talking", "hungup"}]
    BY DEF Init
  <1> QED
    BY <1>4, <1>5, <1>7, <1>6 DEF Init, TypeOK

\* The first seat of a side to leave is one of those that left it.
LEMMA LeaverLeft ==
    ASSUME TypeOK, NEW team \in Teams, TeamGone(team)
    PROVE  /\ Leaver(team) \in Seats /\ Leaver(team) \in Left
           /\ TeamOf[Leaver(team)] = team
  <1> DEFINE Went == {i \in DOMAIN left : TeamOf[left[i]] = team}
             First(i) == /\ TeamOf[left[i]] = team
                         /\ \A j \in 1..(i - 1) : TeamOf[left[j]] # team
  <1>1. DOMAIN left = 1..Len(left) /\ Len(left) \in Nat /\ \A i \in DOMAIN left : left[i] \in Seats
    BY DEF TypeOK
  <1>2. Went \subseteq Nat /\ Went # {}
    BY <1>1 DEF TeamGone, Left
  <1>3. PICK i \in Went : \A j \in Went : <<j, i>> \notin OpToRel(<, Nat)
    BY <1>2, NatLessThanWellFounded, WFMin
  <1>4. \A j \in Went : ~(j < i)
    BY <1>2, <1>3 DEF OpToRel
  <1>5. i \in DOMAIN left /\ First(i)
    BY <1>1, <1>4
  <1>6. First(CHOOSE k \in DOMAIN left : First(k))
          /\ (CHOOSE k \in DOMAIN left : First(k)) \in DOMAIN left
    BY <1>5
  <1> QED
    BY <1>1, <1>6 DEF Leaver, Left

LEMMA TypesStay == TypeOK /\ [Next]_vars => TypeOK'
  <1> SUFFICES ASSUME TypeOK, [Next]_vars
               PROVE  TypeOK'
    OBVIOUS
  <1> USE DEF TypeOK
  <1>1. ASSUME NEW c \in Connections,
               dials(c) \/ says_hello(c) \/ acknowledges(c) \/ leaves(c) \/ hangs_up(c)
        PROVE  TypeOK'
    <2>1. ASSUME NEW kind \in {"connected", "hello", "ack", "leave", "gone"},
                 NEW k \in Keys \cup {None}, Queue(kind, c, k)
          PROVE  rx' \in Seq(Event)
      BY <2>1 DEF Queue, Event
    <2>2. CASE dials(c)
      BY <2>1, <2>2 DEF dials, Queue
    <2>3. CASE says_hello(c)
      BY <2>1, <2>3 DEF says_hello, Queue
    <2>4. CASE acknowledges(c)
      BY <2>1, <2>4 DEF acknowledges, Queue
    <2>5. CASE leaves(c)
      BY <2>1, <2>5 DEF leaves, Queue
    <2>6. CASE hangs_up(c)
      BY <2>1, <2>6 DEF hangs_up, Queue
    <2> QED
      BY <1>1, <2>2, <2>3, <2>4, <2>5, <2>6
  <1>2. ASSUME NEW late \in BOOLEAN, begins(late)
        PROVE  TypeOK'
    BY <1>2 DEF begins
  <1>3. CASE gather_ends
    BY <1>3 DEF gather_ends
  <1>4. CASE checks
    BY <1>4 DEF checks
  <1>5. CASE advances
    <2>1. rx' \in Seq(Event)
      <3>1. \A i \in DOMAIN rx : Old(rx[i]) \in Event
        BY OldIsEvent
      <3> QED
        BY <1>5, <3>1, SMTT(30) DEF advances
    <2>2. outcome' \in Outcome \cup {None} /\ pc' \in {"over", "begin"}
      <3>1. \A team \in Forfeits : Other(team) \in Teams /\ Leaver(team) \in Seats
        BY LeaverLeft DEF Forfeits, Other, Teams
      <3> QED
        BY <1>5, <3>1 DEF advances, Outcome
    <2> QED
      BY <1>5, <2>1, <2>2 DEF advances
  <1>6. CASE hears
    <2>1. rx' \in Seq(Event) /\ UNCHANGED <<opts, key, seated, peer, due, empty, pc, outcome, sent>>
      BY <1>6, HeadOfQueue DEF hears
    <2>2. PICK e \in Event :
              \/ UNCHANGED <<player, acked, left, conn, answered>>
              \/ adopt(e.conn)
              \/ lose_conn(e.conn)
              \/ greet(e.conn, e.key)
              \/ ack(e.conn, e.fresh)
              \/ leave_game(e.conn)
      BY <1>6, HearsOne
    <2>3. e.conn \in Connections
      BY DEF Event
    <2>4. CASE adopt(e.conn)
      BY <2>1, <2>3, <2>4 DEF adopt
    <2>5. CASE lose_conn(e.conn)
      BY <2>1, <2>3, <2>5 DEF lose_conn
    <2>6. CASE greet(e.conn, e.key)
      BY <2>1, <2>3, <2>6 DEF greet, ack, Entitled
    <2>7. CASE ack(e.conn, e.fresh)
      BY <2>1, <2>3, <2>7 DEF ack
    <2>8. CASE leave_game(e.conn)
      <3>1. left' \in Seq(Seats)
        BY <2>8, SMTT(30) DEF leave_game, SeatOf
      <3> QED
        BY <2>1, <2>8, <3>1 DEF leave_game
    <2> QED
      BY <2>1, <2>2, <2>4, <2>5, <2>6, <2>7, <2>8, Zenon
  <1>7. CASE deadline_passes
    BY <1>7 DEF deadline_passes
  <1>8. CASE time_passes
    BY <1>8 DEF time_passes
  <1>9. CASE UNCHANGED vars
    BY <1>9 DEF vars
  <1> QED
    BY <1>1, <1>2, <1>3, <1>4, <1>5, <1>6, <1>7, <1>8, <1>9
       DEF Next, Peers, Thread, begins_on_time, begins_late

\* Every variable keeps its type through a match.
THEOREM MatchTypeCorrect == Spec => []TypeOK
  BY InitTypes, TypesStay, PTL DEF Spec

-----------------------------------------------------------------------------
(* Seats and who holds them. *)

\* The seats at the start are held by connections that are there, once each.
LEMMA InitSeats == Init => SeatsHeldOnce
  <1> SUFFICES ASSUME Init
               PROVE  SeatsHeldOnce
    OBVIOUS
  <1>1. PICK m \in Matches : player = [s \in Seats |-> m.lineup[s].player]
    BY DEF Init
  <1>2. WellSeated(m.lineup)
    BY MatchAssumption
  <1>3. \A s, t \in Seats : player[s] # None /\ player[s] = player[t] => s = t
    BY <1>1, <1>2 DEF WellSeated
  <1>4. TypeOK
    BY InitTypes
  <1>5. \A s \in Seats : player[s] # None => conn[player[s]] = "in"
    BY <1>4 DEF Init, TypeOK
  <1> QED
    BY <1>3, <1>4, <1>5 DEF SeatsHeldOnce

\* A seat changes hands by a Hello, which finds it open and its own connection
\* without one, or opens with the connection it was held by.
LEMMA HearsKeepsSeats == SeatsHeldOnce /\ hears /\ TypeOK' => SeatsHeldOnce'
  <1> SUFFICES ASSUME SeatsHeldOnce, hears, TypeOK'
               PROVE  SeatsHeldOnce'
    OBVIOUS
  <1> USE DEF SeatsHeldOnce
  <1>1. PICK e \in Event :
            \/ UNCHANGED <<player, acked, left, conn, answered>>
            \/ adopt(e.conn)
            \/ lose_conn(e.conn)
            \/ ~Unheard(e) /\ e.kind = "hello" /\ greet(e.conn, e.key)
            \/ ack(e.conn, e.fresh)
            \/ leave_game(e.conn)
    BY HearsOne
  <1>2. e.conn \in Connections /\ e.conn # None
    BY MatchAssumption DEF Event
  <1>3. CASE adopt(e.conn)
    BY <1>2, <1>3 DEF adopt, TypeOK
  <1>4. CASE lose_conn(e.conn)
    BY <1>2, <1>4 DEF lose_conn, TypeOK
  <1>5. CASE ~Unheard(e) /\ e.kind = "hello" /\ greet(e.conn, e.key)
    <2>1. conn[e.conn] = "in"
      BY <1>5 DEF Unheard
    <2>2. CASE greeted(e.conn)
      BY <1>5, <2>2 DEF greet, ack
    <2>3. CASE ~greeted(e.conn)
      <3>1. \A t \in Seats : player[t] # e.conn
        BY <2>3 DEF greeted, SeatOf
      <3>2. ASSUME NEW s \in Entitled(e.key), player' = [player EXCEPT ![s] = e.conn], conn' = conn
            PROVE  SeatsHeldOnce'
        BY <1>2, <2>1, <3>1, <3>2 DEF Entitled, TypeOK
      <3>3. CASE conn' = [conn EXCEPT ![e.conn] = "gone"] /\ player' = player
        BY <3>1, <3>3 DEF TypeOK
      <3> QED
        BY <1>5, <2>3, <3>2, <3>3 DEF greet
    <2> QED
      BY <2>2, <2>3
  <1>6. CASE UNCHANGED <<player, conn>>
    BY <1>6
  <1> QED
    BY <1>1, <1>3, <1>4, <1>5, <1>6 DEF ack, leave_game

\* Only strangers are dropped as a tick begins.
LEMMA BeginsKeepsSeats ==
    ASSUME SeatsHeldOnce, NEW late \in BOOLEAN, begins(late), TypeOK'
    PROVE  SeatsHeldOnce'
  <1>1. PICK old \in SUBSET Strangers :
          conn' = [c \in Connections |-> IF c \in old THEN "gone" ELSE conn[c]]
    BY DEF begins
  <1>2. player' = player
    BY DEF begins
  <1>3. \A s \in Seats : player[s] # None => player[s] \in Connections /\ player[s] \notin old
    BY DEF SeatsHeldOnce, TypeOK, Strangers, greeted, SeatOf
  <1> QED
    BY <1>1, <1>2, <1>3 DEF SeatsHeldOnce

\* What every other step leaves alone.
LEMMA OthersKeepSeats ==
    ASSUME [Next]_vars, ~hears, ~begins(TRUE), ~begins(FALSE)
    PROVE  UNCHANGED <<player, conn, left, key, seated, opts>>
  BY DEF Next, Peers, Thread, begins_on_time, begins_late, vars, dials, says_hello,
         acknowledges, leaves, hangs_up, Queue, gather_ends, checks, advances,
         deadline_passes, time_passes

LEMMA NextKeepsSeats == SeatsHeldOnce /\ [Next]_vars => SeatsHeldOnce'
  <1> SUFFICES ASSUME SeatsHeldOnce, [Next]_vars
               PROVE  SeatsHeldOnce'
    OBVIOUS
  <1>1. TypeOK'
    BY TypesStay DEF SeatsHeldOnce
  <1>2. CASE hears
    BY <1>1, <1>2, HearsKeepsSeats
  <1>3. CASE begins(TRUE) \/ begins(FALSE)
    BY <1>1, <1>3, BeginsKeepsSeats
  <1>4. CASE ~hears /\ ~begins(TRUE) /\ ~begins(FALSE)
    BY <1>1, <1>4, OthersKeepSeats DEF SeatsHeldOnce
  <1> QED
    BY <1>2, <1>3, <1>4

\* A seat is held by a connection that is there, and a connection holds one seat
\* at most, through every loss and return (take_seat, release, drop_strangers).
THEOREM SeatsAreHeldOnce == Spec => []SeatsHeldOnce
  BY InitSeats, NextKeepsSeats, PTL DEF Spec

-----------------------------------------------------------------------------
(* Leaving for good. *)

\* A seat that left is in the list once.
LeftOnce == \A i, j \in DOMAIN left : left[i] = left[j] => i = j

\* A list without repetitions is as long as its set is large.
LEMMA OnceCounted ==
    ASSUME NEW S, NEW q \in Seq(S), \A i, j \in DOMAIN q : q[i] = q[j] => i = j
    PROVE  Cardinality({q[i] : i \in DOMAIN q}) = Len(q)
  <1> DEFINE T == {q[i] : i \in DOMAIN q}
  <1>1. DOMAIN q = 1..Len(q) /\ Len(q) \in Nat
    OBVIOUS
  <1>2. q \in [1..Len(q) -> T]
    BY <1>1
  <1>3. q \in Bijection(1..Len(q), T)
    BY <1>1, <1>2 DEF Bijection, Injection, Surjection, IsInjective
  <1>4. IsFiniteSet(1..Len(q)) /\ Cardinality(1..Len(q)) = Len(q)
    BY <1>1, FS_Interval
  <1>5. ExistsBijection(1..Len(q), T)
    BY <1>3 DEF ExistsBijection
  <1> QED
    BY <1>4, <1>5, FS_Bijection

\* What a step makes of the seats that left: the list grows by one seat at its
\* end, which was not in it, or stays.
LEMMA LeavesOnce ==
    ASSUME SeatsHeldOnce, [Next]_vars
    PROVE  \/ left' = left
           \/ \E s \in Seats \ Left : left' = Append(left, s) /\ player' = player
  <1>1. CASE hears
    <2>1. PICK e \in Event :
              \/ UNCHANGED <<player, acked, left, conn, answered>>
              \/ adopt(e.conn)
              \/ lose_conn(e.conn)
              \/ greet(e.conn, e.key)
              \/ ack(e.conn, e.fresh)
              \/ ~Unheard(e) /\ e.kind = "leave" /\ leave_game(e.conn)
      BY <1>1, HearsOne DEF SeatsHeldOnce
    <2>2. CASE ~Unheard(e) /\ e.kind = "leave" /\ leave_game(e.conn)
      <3>1. SeatOf(e.conn) \cap Left = {}
        BY <2>2 DEF Unheard
      <3> QED
        BY <2>2, <3>1 DEF leave_game, SeatOf
    <2> QED
      BY <2>1, <2>2 DEF adopt, lose_conn, greet, ack
  <1>2. CASE begins(TRUE) \/ begins(FALSE)
    BY <1>2 DEF begins
  <1> QED
    BY <1>1, <1>2, OthersKeepSeats

LEMMA NextKeepsLeft == SeatsHeldOnce /\ LeftOnce /\ [Next]_vars => LeftOnce'
  <1> SUFFICES ASSUME SeatsHeldOnce, LeftOnce, [Next]_vars
               PROVE  LeftOnce'
    OBVIOUS
  <1>1. CASE left' = left
    BY <1>1 DEF LeftOnce
  <1>2. ASSUME NEW s \in Seats \ Left, left' = Append(left, s)
        PROVE  LeftOnce'
    <2>1. left \in Seq(Seats) /\ s \in Seats
      BY DEF SeatsHeldOnce, TypeOK
    <2>2. /\ DOMAIN left = 1..Len(left) /\ Len(left) \in Nat
          /\ DOMAIN left' = 1..(Len(left) + 1)
          /\ left'[Len(left) + 1] = s
          /\ \A i \in DOMAIN left : left'[i] = left[i]
      BY <1>2, <2>1
    <2>3. \A i \in DOMAIN left : left[i] # s
      BY DEF Left
    <2> QED
      BY <2>2, <2>3 DEF LeftOnce
  <1> QED
    BY <1>1, <1>2, LeavesOnce

\* Nobody takes a seat that was left.
LEMMA NobodyTakesLeft ==
    ASSUME SeatsHeldOnce, [Next]_vars, NEW s \in Left
    PROVE  player'[s] \in {player[s], None}
  <1>1. s \in Seats
    BY DEF SeatsHeldOnce, TypeOK, Left
  <1>2. CASE hears
    <2>1. PICK e \in Event :
              \/ UNCHANGED <<player, acked, left, conn, answered>>
              \/ adopt(e.conn)
              \/ lose_conn(e.conn)
              \/ greet(e.conn, e.key)
              \/ ack(e.conn, e.fresh)
              \/ leave_game(e.conn)
      BY <1>2, HearsOne DEF SeatsHeldOnce
    <2>2. CASE lose_conn(e.conn)
      BY <1>1, <2>2 DEF lose_conn
    <2>3. CASE greet(e.conn, e.key)
      BY <1>1, <2>3 DEF greet, ack, Entitled, SeatsHeldOnce, TypeOK
    <2> QED
      BY <2>1, <2>2, <2>3 DEF adopt, ack, leave_game
  <1>3. CASE begins(TRUE) \/ begins(FALSE)
    BY <1>3 DEF begins
  <1> QED
    BY <1>2, <1>3, OthersKeepSeats

\* A seat left for good stays so: nobody takes it again (take_seat), and it is
\* told to have left once.
THEOREM LeaversStayOut == Spec => LeaverStaysOut
  <1>1. Init => LeftOnce
    BY DEF Init, LeftOnce
  <1>2. Spec => []LeftOnce
    BY <1>1, NextKeepsLeft, SeatsAreHeldOnce, PTL DEF Spec
  <1> DEFINE Step ==
               /\ \A s \in Left :
                     /\ s \in Left'
                     /\ player'[s] \in {player[s], None}
               /\ Cardinality(Left') = Len(left')
  <1>3. SeatsHeldOnce /\ SeatsHeldOnce' /\ LeftOnce' /\ [Next]_vars => Step
    <2> SUFFICES ASSUME SeatsHeldOnce, SeatsHeldOnce', LeftOnce', [Next]_vars
                 PROVE  Step
      OBVIOUS
    <2>1. \A s \in Left : player'[s] \in {player[s], None}
      BY NobodyTakesLeft
    <2>2. Left \subseteq Left'
      <3>1. left \in Seq(Seats)
        BY DEF SeatsHeldOnce, TypeOK
      <3> QED
        BY <3>1, LeavesOnce DEF Left
    <2>3. left' \in Seq(Seats)
      BY DEF SeatsHeldOnce, TypeOK
    <2>4. Cardinality(Left') = Len(left')
      BY <2>3, OnceCounted DEF LeftOnce, Left
    <2> QED
      BY <2>1, <2>2, <2>4
  <1>4. SeatsHeldOnce /\ SeatsHeldOnce' /\ LeftOnce' /\ [Next]_vars => [Step]_vars
    BY <1>3
  <1> QED
    BY <1>2, <1>4, SeatsAreHeldOnce, PTL DEF Spec, LeaverStaysOut

-----------------------------------------------------------------------------
(* The end of a match. *)

\* Nothing that the end was decided on changes after it.
LEMMA EndStands ==
    ASSUME [Next]_vars, Ended
    PROVE  UNCHANGED <<pc, outcome, opts, key, seated, player, left>>
  BY DEF Ended, Next, Peers, Thread, begins_on_time, begins_late, begins, vars, dials,
         says_hello, acknowledges, leaves, hangs_up, Queue, gather_ends, checks, advances,
         deadline_passes, time_passes, hears

\* A match ends where checks or advances say so, and nowhere else.
LEMMA EndsOnlyThere ==
    ASSUME [Next]_vars, ~Ended, ~checks, ~advances
    PROVE  pc' \notin {"over", "abandoned"}
  BY DEF Ended, Next, Peers, Thread, begins_on_time, begins_late, begins, vars, dials,
         says_hello, acknowledges, leaves, hangs_up, Queue, gather_ends,
         deadline_passes, time_passes, hears

\* A match is given up as checks finds it deserted.
LEMMA ChecksEndsRightly == SeatsHeldOnce /\ checks => EndsRightly'
  <1> SUFFICES ASSUME SeatsHeldOnce, checks
               PROVE  EndsRightly'
    OBVIOUS
  <1>1. pc' # "over" /\ UNCHANGED <<opts, key, player, left>>
    BY DEF checks
  <1>2. ASSUME pc' = "abandoned"
        PROVE  ~Occupied /\ (~opts.emptyAfter => ~returnable)
    BY <1>2 DEF checks, deserted, SeatsHeldOnce, TypeOK, Opts
  <1>3. ASSUME pc' = "abandoned"
        PROVE  /\ ~Occupied'
               /\ (~opts.emptyAfter => ~\E s \in Seats : s \notin Left /\ key[s] # None)'
    BY <1>1, <1>2, <1>3 DEF Occupied, Remaining, Left, returnable
  <1> QED
    BY <1>1, <1>3 DEF EndsRightly

\* The side that forfeits is the one every seat of which left, and it is named
\* for its first leaver.
LEMMA AdvancesEndsRightly == SeatsHeldOnce /\ advances => EndsRightly'
  <1> SUFFICES ASSUME SeatsHeldOnce, advances
               PROVE  EndsRightly'
    OBVIOUS
  <1>1. pc' \in {"over", "begin"} /\ UNCHANGED <<seated, left>>
    BY DEF advances
  <1>2. CASE pc' = "begin"
    BY <1>2 DEF EndsRightly
  <1>3. ASSUME NEW winner \in Teams \cup {"Neutral"}, pc' = "over",
               outcome' = [winner |-> winner, left |-> None]
        PROVE  EndsRightly'
    BY <1>3 DEF EndsRightly
  <1>4. ASSUME NEW team \in Forfeits, pc' = "over",
               outcome' = [winner |-> Other(team), left |-> Leaver(team)]
        PROVE  EndsRightly'
    <2>1. team \in Teams /\ TeamGone(team) /\ Other(team) # team
      BY DEF Forfeits, Teams, Other
    <2>2. TeamOf[Leaver(team)] = team
      BY <2>1, LeaverLeft DEF SeatsHeldOnce
    <2>3. \A s \in Seats : seated[s] /\ TeamOf[s] # Other(team) => s \in Left
      BY <2>1, MatchAssumption DEF TeamGone, Other, Teams
    <2>4. \A s \in Seats : seated'[s] /\ TeamOf[s] # outcome'.winner => s \in Left'
      BY <1>1, <1>4, <2>3 DEF Left
    <2>5. TeamOf[outcome'.left] # outcome'.winner
      BY <1>4, <2>1, <2>2
    <2>6. ~TeamGone(Other(team)) /\ outcome'.winner = Other(team)
      BY <1>4 DEF Forfeits
    <2>7. (~TeamGone(outcome.winner))'
      BY <1>1, <2>6 DEF TeamGone, Left
    <2> QED
      BY <1>4, <2>4, <2>5, <2>7 DEF EndsRightly
  <1> QED
    BY <1>1, <1>2, <1>3, <1>4 DEF advances

LEMMA NextKeepsEnds == SeatsHeldOnce /\ EndsRightly /\ [Next]_vars => EndsRightly'
  <1> SUFFICES ASSUME SeatsHeldOnce, EndsRightly, [Next]_vars
               PROVE  EndsRightly'
    OBVIOUS
  <1>1. CASE Ended
    BY <1>1, EndStands DEF EndsRightly, Occupied, Remaining, Left, TeamGone
  <1>2. CASE checks
    BY <1>2, ChecksEndsRightly
  <1>3. CASE advances
    BY <1>3, AdvancesEndsRightly
  <1>4. CASE ~Ended /\ ~checks /\ ~advances
    BY <1>4, EndsOnlyThere DEF EndsRightly
  <1> QED
    BY <1>1, <1>2, <1>3, <1>4

\* A match is given up only with no seat held by a player still in it, and then
\* only when none can be taken back, unless empty_after says so; and a side that
\* forfeits has nobody of the start left, and the winner's has not left too
\* (deserted, forfeit).
THEOREM MatchEndsRightly == Spec => []EndsRightly
  <1>1. Init => EndsRightly
    BY DEF Init, EndsRightly
  <1> QED
    BY <1>1, NextKeepsEnds, SeatsAreHeldOnce, PTL DEF Spec

-----------------------------------------------------------------------------
(* Waiting for the answers of a tick. *)

\* A connection comes once: its stream is queued while it is out, and once.
ComesOnce ==
    /\ \A c \in Connections : peer[c] = "out" => conn[c] = "out"
    /\ \A i \in DOMAIN rx : rx[i].kind = "connected" =>
          conn[rx[i].conn] = "out" /\ peer[rx[i].conn] # "out"
    /\ \A i, j \in DOMAIN rx :
          rx[i].kind = "connected" /\ rx[j].kind = "connected" /\ rx[i].conn = rx[j].conn
              => i = j

\* Who was sent the tick holds a seat or is gone, a seat acknowledged by who was
\* sent the tick was acknowledged by itself, and the wait ended before its time
\* with nobody missing.
AnswersKept ==
    /\ \A c \in sent : conn[c] # "out" /\ (conn[c] = "in" => greeted(c))
    /\ \A s \in Seats : acked[s] /\ player[s] \in sent => player[s] \in answered
    /\ pc \in {"check", "advance"} /\ opts.mode = "Lockstep" /\ ~due => all_acked

WaitInv == SeatsHeldOnce /\ ComesOnce /\ AnswersKept

\* The three things a peer's step does to the queue.
LEMMA QueueKeepsComing ==
    ASSUME TypeOK, ComesOnce, NEW c \in Connections,
           dials(c) \/ says_hello(c) \/ acknowledges(c) \/ leaves(c) \/ hangs_up(c)
    PROVE  ComesOnce'
  <1> DEFINE Queued(e) == /\ rx' = Append(rx, e) /\ e.conn = c
                          /\ e.kind = "connected" <=> peer[c] = "out"
  <1>1. PICK e \in Event : Queued(e)
    <2>1. ASSUME NEW kind \in {"connected", "hello", "ack", "leave", "gone"},
                 NEW k \in Keys \cup {None}, Queue(kind, c, k),
                 kind = "connected" <=> peer[c] = "out"
          PROVE  \E e \in Event : Queued(e)
      <3> DEFINE e == [kind |-> kind, conn |-> c, key |-> k, fresh |-> TRUE]
      <3>1. e \in Event /\ e.kind = kind /\ e.conn = c
        BY DEF Event
      <3>2. Queued(e)
        BY <2>1, <3>1 DEF Queue
      <3> QED
        BY <3>1, <3>2
    <2>2. CASE dials(c)
      BY <2>1, <2>2 DEF dials
    <2>3. CASE says_hello(c)
      BY <2>1, <2>3 DEF says_hello
    <2>4. CASE acknowledges(c)
      BY <2>1, <2>4 DEF acknowledges
    <2>5. CASE leaves(c)
      BY <2>1, <2>5 DEF leaves
    <2>6. CASE hangs_up(c)
      BY <2>1, <2>6 DEF hangs_up
    <2> QED
      BY <2>2, <2>3, <2>4, <2>5, <2>6
  <1>2. conn' = conn
    BY DEF dials, says_hello, acknowledges, leaves, hangs_up, Queue
  <1>3. /\ peer'[c] # "out" /\ peer' \in [Connections -> {"out", "dialed", "talking", "hungup"}]
        /\ \A d \in Connections \ {c} : peer'[d] = peer[d]
    BY DEF dials, says_hello, acknowledges, leaves, hangs_up, TypeOK
  <1>4. /\ DOMAIN rx = 1..Len(rx) /\ Len(rx) \in Nat
        /\ DOMAIN rx' = 1..(Len(rx) + 1)
        /\ rx'[Len(rx) + 1] = e
        /\ \A i \in DOMAIN rx : rx'[i] = rx[i] /\ rx[i].conn \in Connections
    BY <1>1, ConnsOfQueue DEF TypeOK
  <1>5. \A i \in DOMAIN rx : e.kind = "connected" /\ rx[i].kind = "connected" => rx[i].conn # c
    BY <1>1 DEF ComesOnce
  <1>6. \A d \in Connections : peer'[d] = "out" => conn'[d] = "out"
    BY <1>2, <1>3 DEF ComesOnce
  <1>7. \A i \in DOMAIN rx' : rx'[i].kind = "connected" =>
          conn'[rx'[i].conn] = "out" /\ peer'[rx'[i].conn] # "out"
    BY <1>1, <1>2, <1>3, <1>4 DEF ComesOnce
  <1>8. \A i, j \in DOMAIN rx' :
          rx'[i].kind = "connected" /\ rx'[j].kind = "connected" /\ rx'[i].conn = rx'[j].conn
              => i = j
    BY <1>1, <1>4, <1>5 DEF ComesOnce
  <1> QED
    BY <1>6, <1>7, <1>8 DEF ComesOnce

\* The queue grown stale has the same events of the same connections.
LEMMA AdvanceKeepsComing == TypeOK /\ ComesOnce /\ advances => ComesOnce'
  <1> SUFFICES ASSUME TypeOK, ComesOnce, advances
               PROVE  ComesOnce'
    OBVIOUS
  <1>1. conn' = conn /\ peer' = peer /\ rx' = [i \in DOMAIN rx |-> Old(rx[i])]
    BY DEF advances
  <1>2. \A i \in DOMAIN rx : rx[i] \in Event
    BY DEF TypeOK
  <1>3. DOMAIN rx' = DOMAIN rx
        /\ \A i \in DOMAIN rx : rx'[i].kind = rx[i].kind /\ rx'[i].conn = rx[i].conn
    BY <1>1, <1>2, OldIsEvent
  <1> QED
    BY <1>1, <1>3 DEF ComesOnce

LEMMA HearsKeepsComing == TypeOK /\ SeatsHeldOnce /\ ComesOnce /\ hears => ComesOnce'
  <1> SUFFICES ASSUME TypeOK, SeatsHeldOnce, ComesOnce, hears
               PROVE  ComesOnce'
    OBVIOUS
  <1>1. PICK e \in Event :
          /\ e = Head(rx)
          /\ \/ UNCHANGED <<player, acked, left, conn, answered>>
             \/ e.kind = "connected" /\ adopt(e.conn)
             \/ ~Unheard(e) /\ e.kind = "gone" /\ lose_conn(e.conn)
             \/ ~Unheard(e) /\ e.kind = "hello" /\ greet(e.conn, e.key)
             \/ ack(e.conn, e.fresh)
             \/ leave_game(e.conn)
    BY HearsOne
  <1>2. /\ rx # <<>> /\ rx' = Tail(rx) /\ peer' = peer /\ rx \in Seq(Event)
    BY DEF hears, TypeOK
  <1>3. /\ 1 \in DOMAIN rx /\ e = rx[1] /\ Len(rx) \in Nat /\ DOMAIN rx = 1..Len(rx)
        /\ DOMAIN rx' = 1..(Len(rx) - 1)
        /\ \A i \in DOMAIN rx' : rx'[i] = rx[i + 1] /\ i + 1 \in DOMAIN rx
    BY <1>1, <1>2, HeadOfQueue
  <1>4. e.conn \in Connections /\ \A i \in DOMAIN rx : rx[i].conn \in Connections
    BY <1>2, <1>3, ConnsOfQueue
  <1>5. \/ conn' = conn
        \/ conn' = [conn EXCEPT ![e.conn] = "gone"] /\ conn[e.conn] = "in"
        \/ conn' = [conn EXCEPT ![e.conn] = "in"] /\ e.kind = "connected"
    <2>1. e.kind # "connected" /\ ~Unheard(e) => conn[e.conn] = "in"
      BY DEF Unheard
    <2> QED
      BY <1>1, <2>1 DEF adopt, lose_conn, greet, ack, leave_game
  <1>6. \A i \in DOMAIN rx' : e.kind = "connected" /\ rx'[i].kind = "connected"
                                  => rx'[i].conn # e.conn
    BY <1>3 DEF ComesOnce
  <1>7. e.kind = "connected" => peer[e.conn] # "out"
    BY <1>3 DEF ComesOnce
  <1>8. /\ \A c \in Connections : peer'[c] = "out" => conn'[c] = "out"
        /\ \A i \in DOMAIN rx' : rx'[i].kind = "connected" =>
             conn'[rx'[i].conn] = "out" /\ peer'[rx'[i].conn] # "out"
    BY <1>2, <1>3, <1>4, <1>5, <1>6, <1>7 DEF ComesOnce, TypeOK
  <1>9. \A i, j \in DOMAIN rx' :
          rx'[i].kind = "connected" /\ rx'[j].kind = "connected" /\ rx'[i].conn = rx'[j].conn
              => i = j
    BY <1>3 DEF ComesOnce
  <1> QED
    BY <1>8, <1>9 DEF ComesOnce

\* Only strangers are dropped, who are in: nobody on the way is.
LEMMA BeginsKeepsComing ==
    ASSUME TypeOK, ComesOnce, NEW late \in BOOLEAN, begins(late)
    PROVE  ComesOnce'
  <1>1. PICK old \in SUBSET Strangers :
          conn' = [c \in Connections |-> IF c \in old THEN "gone" ELSE conn[c]]
    BY DEF begins
  <1>2. peer' = peer /\ rx' = rx
    BY DEF begins
  <1>3. \A c \in old : conn[c] = "in"
    BY DEF Strangers
  <1>4. \A i \in DOMAIN rx : rx[i].conn \in Connections
    BY ConnsOfQueue DEF TypeOK
  <1> QED
    BY <1>1, <1>2, <1>3, <1>4 DEF ComesOnce

LEMMA NextKeepsComing == SeatsHeldOnce /\ ComesOnce /\ [Next]_vars => ComesOnce'
  <1> SUFFICES ASSUME SeatsHeldOnce, ComesOnce, [Next]_vars
               PROVE  ComesOnce'
    OBVIOUS
  <1>1. TypeOK
    BY DEF SeatsHeldOnce
  <1>2. CASE Peers
    BY <1>1, <1>2, QueueKeepsComing DEF Peers
  <1>3. CASE hears
    BY <1>1, <1>3, HearsKeepsComing
  <1>4. CASE begins(TRUE) \/ begins(FALSE)
    BY <1>1, <1>4, BeginsKeepsComing
  <1>5. CASE advances
    BY <1>1, <1>5, AdvanceKeepsComing
  <1>6. CASE gather_ends \/ checks \/ deadline_passes \/ time_passes \/ UNCHANGED vars
    <2>1. UNCHANGED <<peer, conn, rx>>
      BY <1>6 DEF gather_ends, checks, deadline_passes, time_passes, vars
    <2> QED
      BY <2>1 DEF ComesOnce
  <1> QED
    BY <1>2, <1>3, <1>4, <1>5, <1>6 DEF Next, Thread, begins_on_time, begins_late

\* Hearing an event: a connection sent the tick keeps its seat or is gone, and a
\* seat counts as having answered by its own answer, or because whoever took it
\* was not sent the tick.
LEMMA HearsKeepsAnswers == WaitInv /\ hears => AnswersKept'
  <1> SUFFICES ASSUME WaitInv, hears
               PROVE  AnswersKept'
    OBVIOUS
  <1> USE DEF WaitInv
  <1>1. TypeOK
    BY DEF SeatsHeldOnce
  <1>2. PICK e \in Event :
          /\ e = Head(rx)
          /\ \/ UNCHANGED <<player, acked, left, conn, answered>>
             \/ e.kind = "connected" /\ adopt(e.conn)
             \/ lose_conn(e.conn)
             \/ ~Unheard(e) /\ e.kind = "hello" /\ greet(e.conn, e.key)
             \/ ack(e.conn, e.fresh)
             \/ leave_game(e.conn)
    BY <1>1, HearsOne
  <1>3. e.conn \in Connections /\ e.conn # None /\ None \notin sent
    BY <1>1, MatchAssumption DEF Event, TypeOK
  <1>4. pc' = "gather" /\ sent' = sent
    BY DEF hears
  <1> DEFINE Kept == /\ \A c \in sent : conn'[c] # "out" /\ (conn'[c] = "in" => greeted(c)')
                     /\ \A s \in Seats : acked'[s] /\ player'[s] \in sent => player'[s] \in answered'
  <1>5. SUFFICES Kept
    BY <1>4 DEF AnswersKept
  <1>6. CASE UNCHANGED <<player, conn, acked, answered>>
    BY <1>6 DEF AnswersKept, greeted, SeatOf
  <1>7. CASE e.kind = "connected" /\ adopt(e.conn)
    <2>1. conn[e.conn] = "out"
      BY <1>1, <1>2, <1>7, HeadOfQueue DEF ComesOnce, hears, TypeOK
    <2>2. e.conn \notin sent
      BY <2>1 DEF AnswersKept
    <2>3. \A c \in sent : conn'[c] = conn[c]
      BY <1>7, <2>2 DEF adopt
    <2> QED
      BY <1>7, <2>3 DEF adopt, AnswersKept, greeted, SeatOf
  <1>8. CASE lose_conn(e.conn)
    <2>1. /\ player' = [s \in Seats |-> IF player[s] = e.conn THEN None ELSE player[s]]
          /\ conn' = [conn EXCEPT ![e.conn] = "gone"]
          /\ UNCHANGED <<acked, answered>>
      BY <1>8 DEF lose_conn
    <2>2. \A c \in sent : conn'[c] # "out" /\ (conn'[c] = "in" => c # e.conn /\ greeted(c))
      BY <1>1, <1>3, <2>1 DEF AnswersKept, TypeOK
    <2>3. \A c \in sent : c # e.conn /\ greeted(c) => greeted(c)'
      BY <1>1, <2>1 DEF greeted, SeatOf
    <2>4. \A s \in Seats : acked'[s] /\ player'[s] \in sent => player'[s] \in answered'
      BY <1>3, <2>1 DEF AnswersKept
    <2> QED
      BY <2>2, <2>3, <2>4
  <1>a. ASSUME NEW fresh \in BOOLEAN, ack(e.conn, fresh)
        PROVE  Kept
    <2>1. /\ acked' = [s \in Seats |-> acked[s] \/ (player[s] = e.conn /\ fresh)]
          /\ answered' = IF fresh THEN answered \cup {e.conn} ELSE answered
          /\ UNCHANGED <<player, conn>>
      BY <1>a DEF ack
    <2>2. \A s \in Seats : acked'[s] /\ player'[s] \in sent => player'[s] \in answered'
      <3> SUFFICES ASSUME NEW s \in Seats, acked'[s], player'[s] \in sent
                   PROVE  player'[s] \in answered'
        OBVIOUS
      <3>1. acked[s] \/ (player[s] = e.conn /\ fresh)
        BY <2>1, Zenon
      <3>2. CASE acked[s]
        BY <2>1, <3>2 DEF AnswersKept
      <3>3. CASE player[s] = e.conn /\ fresh
        BY <2>1, <3>3
      <3> QED
        BY <3>1, <3>2, <3>3
    <2> QED
      BY <2>1, <2>2 DEF AnswersKept, greeted, SeatOf
  <1>9. CASE ~Unheard(e) /\ e.kind = "hello" /\ greet(e.conn, e.key)
    <2>1. CASE greeted(e.conn)
      BY <1>9, <1>a, <2>1 DEF greet
    <2>2. CASE ~greeted(e.conn)
      <3>1. conn[e.conn] = "in" /\ e.conn \notin sent
        BY <1>9, <2>2 DEF Unheard, AnswersKept
      <3>2. ASSUME NEW s \in Entitled(e.key), player' = [player EXCEPT ![s] = e.conn],
                   acked' = [acked EXCEPT ![s] = TRUE], UNCHANGED <<conn, answered>>
            PROVE  Kept
        <4>1. s \in Seats /\ player[s] = None
          BY DEF Entitled
        <4>2. \A c \in sent : greeted(c) => greeted(c)'
          BY <1>1, <1>3, <3>2, <4>1 DEF greeted, SeatOf, TypeOK
        <4>3. \A t \in Seats : acked'[t] /\ player'[t] \in sent => player'[t] \in answered'
          BY <1>1, <3>1, <3>2, <4>1 DEF AnswersKept, TypeOK
        <4> QED
          BY <3>2, <4>2, <4>3 DEF AnswersKept
      <3>3. CASE conn' = [conn EXCEPT ![e.conn] = "gone"] /\ UNCHANGED <<player, acked, answered>>
        BY <1>1, <3>1, <3>3 DEF AnswersKept, greeted, SeatOf, TypeOK
      <3> QED
        BY <1>9, <2>2, <3>2, <3>3 DEF greet
    <2> QED
      BY <2>1, <2>2
  <1>10. CASE ack(e.conn, e.fresh)
    BY <1>a, <1>10 DEF Event
  <1> QED
    BY <1>2, <1>6, <1>7, <1>8, <1>9, <1>10 DEF leave_game

LEMMA BeginsKeepsAnswers ==
    ASSUME WaitInv, NEW late \in BOOLEAN, begins(late)
    PROVE  AnswersKept'
  <1>1. PICK old \in SUBSET Strangers :
          conn' = [c \in Connections |-> IF c \in old THEN "gone" ELSE conn[c]]
    BY DEF begins
  <1>2. pc' = "gather" /\ UNCHANGED <<sent, player, acked, answered>>
    BY DEF begins
  <1>3. sent \subseteq Connections
    BY DEF WaitInv, SeatsHeldOnce, TypeOK
  <1>4. \A c \in sent : conn'[c] # "out" /\ (conn'[c] = "in" => greeted(c)')
    BY <1>1, <1>2, <1>3 DEF WaitInv, AnswersKept, greeted, SeatOf
  <1> QED
    BY <1>2, <1>4 DEF WaitInv, AnswersKept

\* The next tick is sent to those who hold a seat, who are all in.
LEMMA AdvanceKeepsAnswers == WaitInv /\ advances => AnswersKept'
  <1> SUFFICES ASSUME WaitInv, advances
               PROVE  AnswersKept'
    OBVIOUS
  <1>1. /\ sent' = {c \in Connections : greeted(c)} /\ acked' = [s \in Seats |-> FALSE]
        /\ UNCHANGED <<player, conn>> /\ pc' \in {"over", "begin"}
    BY DEF advances
  <1>2. \A c \in sent' : conn'[c] = "in" /\ greeted(c)'
    BY <1>1, MatchAssumption DEF WaitInv, SeatsHeldOnce, greeted, SeatOf
  <1> QED
    BY <1>1, <1>2 DEF AnswersKept

LEMMA NextKeepsAnswers == WaitInv /\ [Next]_vars => AnswersKept'
  <1> SUFFICES ASSUME WaitInv, [Next]_vars
               PROVE  AnswersKept'
    OBVIOUS
  <1>1. CASE hears
    BY <1>1, HearsKeepsAnswers
  <1>2. CASE begins(TRUE) \/ begins(FALSE)
    BY <1>2, BeginsKeepsAnswers
  <1>3. CASE advances
    BY <1>3, AdvanceKeepsAnswers
  <1>4. CASE ~hears /\ ~begins(TRUE) /\ ~begins(FALSE) /\ ~advances
    <2>1. UNCHANGED <<player, conn, left, opts>>
      BY <1>4, OthersKeepSeats
    <2>2. UNCHANGED <<sent, acked, answered>>
      BY <1>4 DEF Next, Peers, Thread, begins_on_time, begins_late, vars, dials, says_hello,
         acknowledges, leaves, hangs_up, Queue, gather_ends, checks,
         deadline_passes, time_passes
    <2>3. all_acked' <=> all_acked
      BY <2>1, <2>2 DEF all_acked, Remaining, Left
    <2>4. pc' \in {"check", "advance"} /\ opts.mode = "Lockstep" /\ ~due' => all_acked
      <3>1. CASE gather_ends
        BY <3>1 DEF gather_ends, GatherOver
      <3>2. CASE checks
        BY <3>2 DEF checks, WaitInv, AnswersKept
      <3>3. CASE deadline_passes
        BY <3>3 DEF deadline_passes
      <3>4. CASE UNCHANGED <<pc, due>>
        BY <3>4 DEF WaitInv, AnswersKept
      <3> QED
        BY <1>4, <3>1, <3>2, <3>3, <3>4
           DEF Next, Peers, Thread, begins_on_time, begins_late, vars, dials, says_hello,
               acknowledges, leaves, hangs_up, Queue, time_passes
    <2> QED
      BY <2>1, <2>2, <2>3, <2>4 DEF WaitInv, AnswersKept, greeted, SeatOf
  <1> QED
    BY <1>1, <1>2, <1>3, <1>4

\* The inductive invariant of the wait.
THEOREM WaitInvariant == Spec => []WaitInv
  <1>1. Init => ComesOnce /\ AnswersKept
    BY DEF Init, ComesOnce, AnswersKept
  <1>2. WaitInv /\ [Next]_vars => WaitInv'
    BY NextKeepsSeats, NextKeepsComing, NextKeepsAnswers DEF WaitInv
  <1>3. Init => WaitInv
    BY <1>1, InitSeats DEF WaitInv
  <1> QED
    BY <1>2, <1>3, PTL DEF Spec

\* In lockstep the world steps before the timeout only when everybody playing who
\* was sent the tick has itself acknowledged it or said Hello again, whoever came,
\* went or took a seat over while it waited (all_acked, take_seat).
THEOREM TicksAwaitAnswers == Spec => TickAwaitsAnswers
  <1> DEFINE Step == opts.mode = "Lockstep" /\ pc = "advance" /\ pc' # pc /\ ~due =>
                        \A s \in Remaining : player[s] \in sent => player[s] \in answered
  <1>1. WaitInv => Step
    <2> SUFFICES ASSUME WaitInv, opts.mode = "Lockstep", pc = "advance", ~due,
                        NEW s \in Remaining, player[s] \in sent
                 PROVE  player[s] \in answered
      OBVIOUS
    <2>1. all_acked
      BY DEF WaitInv, AnswersKept
    <2>2. s \in Seats /\ player[s] # None
      BY MatchAssumption DEF Remaining, WaitInv, SeatsHeldOnce, TypeOK
    <2> QED
      BY <2>1, <2>2 DEF all_acked, WaitInv, AnswersKept
  <1>2. WaitInv => [Step]_vars
    BY <1>1
  <1> QED
    BY <1>2, WaitInvariant, PTL DEF TickAwaitsAnswers
=============================================================================
