--------------------------- MODULE OrderLineProofs ---------------------------
(***************************************************************************)
(* The order line keeps its promises for any number of seats, any delays a *)
(* server may start with and any bounds on ticks and orders.               *)
(***************************************************************************)
EXTENDS OrderLine, FiniteSetTheorems, WellFoundedInduction, TLAPS

\* What the burst of a seat says of the orders on its line: it was noted with
\* the latest of them, and none of them is due after it.
BurstOfLine ==
    \A s \in Seats :
        /\ held[s] # {} => burst[s] # None
        /\ burst[s] # None =>
              /\ burst[s].given <= tick
              /\ burst[s].due >= burst[s].given + 1 + Base[s]
              /\ burst[s].due <= burst[s].given + 1 + Base[s] + Jitter[s]
              /\ \A h \in held[s] :
                    /\ h.given <= burst[s].given
                    /\ h.due <= burst[s].due
                    /\ h.given = burst[s].given => h.due = burst[s].due

\* Arrival numbers tell the orders of a line apart and none is to come; those
\* settled came before those held.
Numbered ==
    \A s \in Seats :
        /\ \A h \in held[s] : h.no < arrivals[s]
        /\ \A g, h \in held[s] : g.no = h.no => g = h
        /\ settled[s] # None =>
              /\ settled[s].no < arrivals[s]
              /\ \A h \in held[s] : settled[s].no < h.no

\* The line as give_from and release need it: the inductive invariant.
LineInv ==
    /\ TypeOK
    /\ DelayWithinBounds
    /\ NoOvertaking
    /\ DueTogether
    /\ BurstOfLine
    /\ Numbered

\* A bounded set of naturals that is not empty has a greatest member.
LEMMA GreatestExists ==
    ASSUME NEW T \in SUBSET Nat, T # {}, NEW b \in Nat, \A t \in T : t <= b
    PROVE  \E m \in T : \A t \in T : t <= m
<1> DEFINE R == OpToRel(<, Nat)
           U == {u \in Nat : \E t \in T : u = b - t}
<1>1. \A t \in T : t \in Nat /\ b - t \in Nat
  OBVIOUS
<1>2. \A t \in T : b - t \in U
  BY <1>1
<1>3. U # {} /\ U \subseteq Nat
  BY <1>2
<1>4. IsWellFoundedOn(R, Nat)
  BY NatLessThanWellFounded
<1>5. PICK x \in U : \A y \in U : ~(<<y, x>> \in R)
  <2> HIDE DEF R, U
  <2> QED
    BY <1>3, <1>4, WFMin
<1>6. \A y, z \in Nat : y < z => <<y, z>> \in R
  BY DEF OpToRel
<1>7. PICK m \in T : x = b - m
  BY <1>5
<1>8. \A t \in T : ~(b - t < x)
  <2> HIDE DEF R
  <2> QED
    BY <1>1, <1>2, <1>3, <1>5, <1>6
<1>9. \A t \in T : t <= m
  BY <1>1, <1>7, <1>8
<1> QED
  BY <1>9

\* Some order of a part of a line that is not empty arrived last.
LEMMA LastOfLine ==
    ASSUME TypeOK, Numbered, NEW s \in Seats, NEW H \in SUBSET held[s], H # {}
    PROVE  \E h \in H : \A g \in H : g.no <= h.no
<1> DEFINE T == {h.no : h \in H}
<1>1. arrivals[s] \in Nat /\ \A h \in H : h.no \in Nat /\ h.no <= arrivals[s]
  BY DEF TypeOK, HeldOrder, Numbered
<1>2. T \in SUBSET Nat /\ T # {} /\ \A t \in T : t <= arrivals[s]
  BY <1>1
<1>3. \E m \in T : \A t \in T : t <= m
  BY <1>1, <1>2, GreatestExists
<1> QED
  BY <1>3

\* The back of a line is an order of it, and no order of it is due later.
LEMMA BackIsLatest ==
    ASSUME LineInv, NEW s \in Seats, held[s] # {}
    PROVE  /\ Back(s) \in held[s]
           /\ \A g \in held[s] : g.due <= Back(s).due
<1>1. \E h \in held[s] : \A g \in held[s] : g.no <= h.no
  BY LastOfLine DEF LineInv
<1>2. Back(s) \in held[s] /\ \A g \in held[s] : g.no <= Back(s).no
  BY <1>1 DEF Back
<1>3. \A h \in held[s] : h.no \in Nat /\ h.due \in Nat
  BY DEF LineInv, TypeOK, HeldOrder
<1> QED
  BY <1>2, <1>3 DEF LineInv, NoOvertaking, Numbered

\* The due tick of an order given now: within the seat's delay of the present,
\* and not before any order on the line; the tick of the burst, if there is one.
LEMMA DueOfAnOrder ==
    ASSUME LineInv, NEW s \in Seats, NEW jitter \in 0..Jitter[s]
    PROVE  /\ due_of(s, jitter) \in Nat
           /\ due_of(s, jitter) >= tick + 1 + Base[s]
           /\ due_of(s, jitter) <= tick + 1 + Base[s] + Jitter[s]
           /\ \A h \in held[s] : /\ h.due <= due_of(s, jitter)
                                 /\ h.given <= tick
                                 /\ h.given = tick => h.due = due_of(s, jitter)
<1>1. /\ tick \in Nat /\ Base[s] \in Nat /\ Jitter[s] \in Nat
      /\ jitter \in Nat /\ jitter <= Jitter[s]
  BY DelaysAssumption DEF LineInv, TypeOK
<1>2. \A h \in held[s] : h.given \in Nat /\ h.due \in Nat
  BY DEF LineInv, TypeOK, HeldOrder
<1>3. burst[s] # None => burst[s].given \in Nat /\ burst[s].due \in Nat
  BY DEF LineInv, TypeOK, Burst
<1>4. CASE burst[s] # None /\ burst[s].given = tick
  BY <1>1, <1>2, <1>3, <1>4 DEF LineInv, BurstOfLine, due_of
<1>5. CASE ~(burst[s] # None /\ burst[s].given = tick)
  <2>1. \A h \in held[s] : h.given < tick
    BY <1>1, <1>2, <1>3, <1>5 DEF LineInv, BurstOfLine
  <2>2. CASE held[s] = {}
    BY <1>1, <1>5, <2>2 DEF due_of
  <2>3. CASE held[s] # {}
    <3>1. Back(s) \in held[s] /\ \A g \in held[s] : g.due <= Back(s).due
      BY <2>3, BackIsLatest
    <3>2. /\ Back(s).due \in Nat /\ Back(s).given \in Nat
          /\ Back(s).due <= Back(s).given + 1 + Base[s] + Jitter[s]
      BY <1>2, <3>1 DEF LineInv, DelayWithinBounds
    <3>3. Back(s).due <= tick + 1 + Base[s] + Jitter[s]
      BY <1>1, <2>1, <3>1, <3>2
    <3> QED
      BY <1>1, <1>2, <1>5, <2>1, <3>1, <3>2, <3>3 DEF due_of
  <2> QED
    BY <2>2, <2>3
<1> QED
  BY <1>4, <1>5

\* A seat's line starts empty.
LEMMA InitLine == Init => LineInv
<1> SUFFICES ASSUME Init PROVE LineInv
  OBVIOUS
<1>1. TypeOK
  BY DEF Init, TypeOK
<1>2. \A s \in Seats : held[s] = {} /\ burst[s] = None /\ settled[s] = None
  BY DEF Init
<1>3. DelayWithinBounds /\ NoOvertaking /\ DueTogether /\ BurstOfLine /\ Numbered
  BY <1>2 DEF DelayWithinBounds, NoOvertaking, DueTogether, BurstOfLine, Numbered
<1> QED
  BY <1>1, <1>3 DEF LineInv

\* What a step of give_from does to the line of its seat, one order at a time:
\* some orders go, and either the new one is at the back or none is added.
LEMMA GiveSteps ==
    ASSUME LineInv, NEW s \in Seats, NEW cmd \in Commands,
           NEW seen \in Nat \cup {None}, NEW connection \in Connections,
           give_from(s, cmd, seen, connection)
    PROVE  \E jitter \in 0..Jitter[s] :
             LET due == due_of(s, jitter)
                 new == [no |-> arrivals[s], given |-> tick, due |-> due,
                         cmd |-> cmd, seen |-> seen, connection |-> connection]
                 kept == held[s] \ replaced(s, cmd, due)
             IN  /\ burst' = [burst EXCEPT ![s] = [given |-> tick, due |-> due]]
                 /\ \/ /\ HasRoom(kept, due)
                       /\ held' = [held EXCEPT ![s] = kept \cup {new}]
                       /\ arrivals' = [arrivals EXCEPT ![s] = @ + 1]
                    \/ /\ ~HasRoom(kept, due)
                       /\ held' = [held EXCEPT ![s] = kept]
                       /\ arrivals' = arrivals
                 /\ UNCHANGED <<tick, finished, measured, settled>>
BY DEF give_from, Admit

\* Giving an order, admitted or refused, keeps the line's invariant: the new
\* order is due no earlier than those before it, and with its burst.
LEMMA GiveKeepsLine ==
    ASSUME LineInv, NEW s \in Seats, NEW cmd \in Commands,
           NEW seen \in Nat \cup {None}, NEW connection \in Connections,
           give_from(s, cmd, seen, connection)
    PROVE  LineInv'
<1>1. PICK jitter \in 0..Jitter[s] :
             LET due == due_of(s, jitter)
                 new == [no |-> arrivals[s], given |-> tick, due |-> due,
                         cmd |-> cmd, seen |-> seen, connection |-> connection]
                 kept == held[s] \ replaced(s, cmd, due)
             IN  /\ burst' = [burst EXCEPT ![s] = [given |-> tick, due |-> due]]
                 /\ \/ /\ HasRoom(kept, due)
                       /\ held' = [held EXCEPT ![s] = kept \cup {new}]
                       /\ arrivals' = [arrivals EXCEPT ![s] = @ + 1]
                    \/ /\ ~HasRoom(kept, due)
                       /\ held' = [held EXCEPT ![s] = kept]
                       /\ arrivals' = arrivals
                 /\ UNCHANGED <<tick, finished, measured, settled>>
  BY GiveSteps
<1> DEFINE due == due_of(s, jitter)
           new == [no |-> arrivals[s], given |-> tick, due |-> due,
                   cmd |-> cmd, seen |-> seen, connection |-> connection]
<1>2. /\ due \in Nat
      /\ due >= tick + 1 + Base[s]
      /\ due <= tick + 1 + Base[s] + Jitter[s]
      /\ \A h \in held[s] : /\ h.due <= due
                            /\ h.given <= tick
                            /\ h.given = tick => h.due = due
  BY DueOfAnOrder
<1>3. /\ tick \in Nat /\ arrivals[s] \in Nat
      /\ Base \in [Seats -> Nat] /\ Jitter \in [Seats -> Nat]
      /\ held \in [Seats -> SUBSET HeldOrder]
      /\ burst \in [Seats -> Burst \cup {None}]
      /\ arrivals \in [Seats -> Nat]
  BY DelaysAssumption DEF LineInv, TypeOK
<1> HIDE DEF due
<1>4. new \in HeldOrder
  BY <1>2, <1>3 DEF HeldOrder
<1>5. /\ new.no = arrivals[s] /\ new.given = tick /\ new.due = due
  OBVIOUS
<1> HIDE DEF new
<1>6. /\ held'[s] \subseteq held[s] \cup {new}
      /\ \A r \in Seats \ {s} : /\ held'[r] = held[r] /\ burst'[r] = burst[r]
                                /\ arrivals'[r] = arrivals[r]
      /\ burst'[s] = [given |-> tick, due |-> due]
      /\ \/ new \notin held'[s] /\ arrivals'[s] = arrivals[s]
         \/ arrivals'[s] = arrivals[s] + 1
      /\ UNCHANGED <<tick, finished, measured, settled>>
  <2>1. new \notin held[s]
    BY <1>3, <1>5 DEF LineInv, Numbered
  <2> QED
    BY <1>1, <1>3, <2>1 DEF due, new
<1>7. TypeOK'
  <2>1. burst' \in [Seats -> Burst \cup {None}]
    BY <1>1, <1>2, <1>3 DEF Burst, due
  <2>2. held' \in [Seats -> SUBSET HeldOrder]
    BY <1>1, <1>3, <1>4 DEF due, new
  <2>3. arrivals' \in [Seats -> Nat]
    BY <1>1, <1>3
  <2> QED
    BY <1>6, <2>1, <2>2, <2>3 DEF LineInv, TypeOK
<1>8. \A r \in Seats : \A h \in held[r] :
          h.no \in Nat /\ h.given \in Nat /\ h.due \in Nat
  BY <1>3 DEF HeldOrder
<1>9. burst'[s] # None /\ burst'[s].given = tick /\ burst'[s].due = due
  <2>1. [given |-> tick, due |-> due] # None
    BY <1>2, <1>3, NoneAssumption DEF Burst
  <2> QED
    BY <1>6, <2>1
<1>10. DelayWithinBounds'
  BY <1>2, <1>3, <1>5, <1>6, <1>8 DEF LineInv, DelayWithinBounds
<1>11. NoOvertaking'
  BY <1>2, <1>3, <1>5, <1>6, <1>8 DEF LineInv, NoOvertaking, Numbered
<1>12. DueTogether'
  BY <1>2, <1>3, <1>5, <1>6, <1>8 DEF LineInv, DueTogether
<1>13. BurstOfLine'
  BY <1>2, <1>3, <1>5, <1>6, <1>8, <1>9 DEF LineInv, BurstOfLine
<1>14. Numbered'
  BY <1>3, <1>5, <1>6, <1>8 DEF LineInv, Numbered, TypeOK, Settlement
<1> QED
  BY <1>7, <1>10, <1>11, <1>12, <1>13, <1>14 DEF LineInv

\* What a tick leaves on a line: the orders not due on it.  Those released
\* arrived before all of them.
LEMMA ReleaseTakesTheFront ==
    ASSUME LineInv, NEW s \in Seats
    PROVE  /\ Released(s) \subseteq held[s]
           /\ \A h \in held[s] \ Released(s) : h.due >= tick + 2
           /\ \A g \in Released(s), h \in held[s] \ Released(s) : g.no < h.no
<1>1. /\ tick \in Nat
      /\ \A h \in held[s] : h.no \in Nat /\ h.due \in Nat /\ h.due >= tick + 1
  BY DEF LineInv, TypeOK, HeldOrder, DelayWithinBounds
<1>2. Released(s) \subseteq held[s]
  BY DEF Released
<1>3. ASSUME NEW h \in held[s] \ Released(s)
      PROVE  h.due >= tick + 2
  <2>1. PICK g \in held[s] : g.no <= h.no /\ g.due # tick + 1
    BY <1>3 DEF Released
  <2>2. g.due <= h.due
    BY <1>1, <2>1 DEF LineInv, NoOvertaking, Numbered
  <2> QED
    BY <1>1, <2>1, <2>2
<1>4. ASSUME NEW g \in Released(s), NEW h \in held[s] \ Released(s)
      PROVE  g.no < h.no
  BY <1>1, <1>2, <1>3, <1>4 DEF Released
<1> QED
  BY <1>2, <1>3, <1>4

\* The settlement a tick leaves is the last one released, or the one before.
LEMMA SettlesTheLast ==
    ASSUME LineInv, NEW s \in Seats
    PROVE  /\ settle(s) \in Settlement \cup {None}
           /\ \/ Released(s) = {} /\ settle(s) = settled[s]
              \/ /\ settle(s) # None
                 /\ \E h \in Released(s) : settle(s).no = h.no
<1>1. CASE Released(s) = {}
  BY <1>1 DEF settle, LineInv, TypeOK
<1>2. CASE Released(s) # {}
  <2>1. Released(s) \in SUBSET held[s]
    BY DEF Released
  <2>2. \E h \in Released(s) : \A g \in Released(s) : g.no <= h.no
    BY <1>2, <2>1, LastOfLine DEF LineInv
  <2>3. Last(Released(s)) \in Released(s)
    BY <2>2 DEF Last
  <2>4. Last(Released(s)) \in HeldOrder /\ tick \in Nat
    BY <2>1, <2>3 DEF LineInv, TypeOK
  <2>5. /\ settle(s) \in Settlement
        /\ settle(s).no = Last(Released(s)).no
    BY <1>2, <2>4 DEF settle, Settlement, HeldOrder
  <2> QED
    BY <2>3, <2>5, NoneAssumption
<1> QED
  BY <1>1, <1>2

\* A tick keeps the line's invariant: whatever was due on it has left.
LEMMA AdvanceKeepsLine == LineInv /\ advance => LineInv'
<1> SUFFICES ASSUME LineInv, advance PROVE LineInv'
  OBVIOUS
<1>1. /\ tick \in Nat /\ tick' = tick + 1
      /\ held \in [Seats -> SUBSET HeldOrder]
      /\ held' = [s \in Seats |-> held[s] \ Released(s)]
      /\ settled' = [s \in Seats |-> settle(s)]
      /\ UNCHANGED <<burst, arrivals>>
      /\ Base \in [Seats -> Nat] /\ Jitter \in [Seats -> Nat]
  BY DelaysAssumption DEF advance, LineInv, TypeOK
<1>2. \A s \in Seats :
         /\ held'[s] = held[s] \ Released(s)
         /\ held'[s] \subseteq held[s]
         /\ \A h \in held'[s] : h.due >= tick' + 1
         /\ \A g \in Released(s), h \in held'[s] : g.no < h.no
  BY <1>1, ReleaseTakesTheFront
<1>3. \A s \in Seats : \A h \in held[s] :
          h.no \in Nat /\ h.given \in Nat /\ h.due \in Nat
  BY <1>1 DEF HeldOrder
<1>4. TypeOK'
  <2>1. held' \in [Seats -> SUBSET HeldOrder]
    BY <1>1
  <2>2. settled' \in [Seats -> Settlement \cup {None}]
    BY <1>1, SettlesTheLast
  <2>3. measured' \in [Seats -> Nat \cup {None}]
    <3>1. ASSUME NEW s \in Seats PROVE measured'[s] \in Nat \cup {None}
      <4>1. \A h \in Stamped(s) : tick - h.seen \in Nat
        BY <1>1, <3>1 DEF Stamped, Released, HeldOrder
      <4>2. measured'[s] \in Measures(s) /\ measured[s] \in Nat \cup {None}
        BY <3>1 DEF advance, LineInv, TypeOK
      <4> QED
        BY <4>1, <4>2 DEF Measures
    <3> QED
      BY <3>1 DEF advance
  <2> QED
    BY <1>1, <2>1, <2>2, <2>3 DEF advance, LineInv, TypeOK
<1>5. DelayWithinBounds'
  BY <1>1, <1>2 DEF LineInv, DelayWithinBounds
<1>6. NoOvertaking'
  BY <1>2 DEF LineInv, NoOvertaking
<1>7. DueTogether'
  BY <1>2 DEF LineInv, DueTogether
<1>8. BurstOfLine'
  BY <1>1, <1>2, <1>3, NoneAssumption DEF LineInv, BurstOfLine, TypeOK, Burst
<1>9. Numbered'
  <2> SUFFICES ASSUME NEW s \in Seats
               PROVE  /\ \A h \in held'[s] : h.no < arrivals'[s]
                      /\ \A g, h \in held'[s] : g.no = h.no => g = h
                      /\ settled'[s] # None =>
                            /\ settled'[s].no < arrivals'[s]
                            /\ \A h \in held'[s] : settled'[s].no < h.no
    BY DEF Numbered
  <2>1. CASE settled'[s] = settled[s]
    BY <1>1, <1>2, <2>1 DEF LineInv, Numbered
  <2>2. CASE \E h \in Released(s) : settled'[s].no = h.no
    BY <1>1, <1>2, <2>2, ReleaseTakesTheFront DEF LineInv, Numbered
  <2> QED
    BY <1>1, <2>1, <2>2, SettlesTheLast
<1> QED
  BY <1>4, <1>5, <1>6, <1>7, <1>8, <1>9 DEF LineInv

\* Every step of the line, or none, keeps the invariant.
LEMMA NextKeepsLine == LineInv /\ [Next]_vars => LineInv'
<1> SUFFICES ASSUME LineInv, [Next]_vars PROVE LineInv'
  OBVIOUS
<1>1. CASE Give
  <2>1. Stamps \subseteq Nat \cup {None}
    BY BoundsAssumption DEF Stamps, LineInv, TypeOK
  <2> QED
    BY <1>1, <2>1, GiveKeepsLine DEF Give
<1>2. CASE advance
  BY <1>2, AdvanceKeepsLine
<1>3. CASE UNCHANGED vars
  BY <1>3 DEF vars, LineInv, TypeOK, DelayWithinBounds, NoOvertaking,
              DueTogether, BurstOfLine, Numbered
<1> QED
  BY <1>1, <1>2, <1>3 DEF Next

\* The line's invariant holds in every behaviour.
THEOREM LineInvariant == Spec => []LineInv
<1>1. Init => LineInv
  BY InitLine
<1>2. LineInv /\ [Next]_vars => LineInv'
  BY NextKeepsLine
<1> QED
  BY <1>1, <1>2, PTL DEF Spec

\* Type correctness of the order line (SeatLine's fields).
THEOREM LineTypeCorrect == Spec => []TypeOK
<1>1. LineInv => TypeOK
  BY DEF LineInv
<1> QED
  BY <1>1, LineInvariant, PTL

\* Every order waits at least the base delay and at most the jitter on top,
\* however many wait before it, and none outlives its tick: the assertion in
\* DelayLine::release cannot fail.
THEOREM DelayHonoured == Spec => []DelayWithinBounds
<1>1. LineInv => DelayWithinBounds
  BY DEF LineInv
<1> QED
  BY <1>1, LineInvariant, PTL

\* Orders never overtake one another and a burst is due together.
THEOREM OrdersKeepTheirOrder == Spec => []LineOrder
<1>1. LineInv => LineOrder
  BY DEF LineInv, LineOrder
<1> QED
  BY <1>1, LineInvariant, PTL

\* A seat's orders settle in the order it gave them.
THEOREM OrdersSettleInOrder == Spec => SettledInOrder
<1> DEFINE A == \A s \in Seats : settled[s] # None /\ settled'[s] # settled[s]
                    => settled'[s].no > settled[s].no
<1>1. LineInv /\ [Next]_vars => [A]_vars
  <2> SUFFICES ASSUME LineInv, Next PROVE A
    OBVIOUS
  <2>1. CASE Give
    BY <2>1 DEF Give, give_from
  <2>2. CASE advance
    <3> SUFFICES ASSUME NEW s \in Seats,
                        settled[s] # None, settled'[s] # settled[s]
                 PROVE  settled'[s].no > settled[s].no
      OBVIOUS
    <3>1. settled'[s] = settle(s)
      BY <2>2 DEF advance
    <3>2. PICK h \in Released(s) : settled'[s].no = h.no
      BY <3>1, SettlesTheLast
    <3>3. h \in held[s]
      BY DEF Released
    <3>4. settled[s].no < h.no /\ h.no \in Nat /\ settled[s].no \in Nat
      BY <3>3 DEF LineInv, Numbered, TypeOK, HeldOrder, Settlement
    <3> QED
      BY <3>2, <3>4
  <2> QED
    BY <2>1, <2>2 DEF Next
<1> QED
  BY <1>1, LineInvariant, PTL DEF Spec, SettledInOrder

-----------------------------------------------------------------------------
(* How many orders a line holds, and which of a body's come first. *)

\* Lines are finite, and no tick has too many orders due.
Counted ==
    \A s \in Seats :
        /\ IsFiniteSet(held[s])
        /\ \A due \in Nat : Cardinality(DueOn(held[s], due)) <= MaxOrdersPerTick

CountInv == LineInv /\ Counted /\ LastCommandWins

\* A part of a line has no more orders due on a tick than the line.
LEMMA PartHasNoMore ==
    ASSUME NEW H, IsFiniteSet(H), NEW K \in SUBSET H, NEW d
    PROVE  /\ IsFiniteSet(DueOn(K, d)) /\ IsFiniteSet(DueOn(H, d))
           /\ Cardinality(DueOn(K, d)) \in Nat /\ Cardinality(DueOn(H, d)) \in Nat
           /\ Cardinality(DueOn(K, d)) <= Cardinality(DueOn(H, d))
<1>1. DueOn(H, d) \in SUBSET H /\ DueOn(K, d) \in SUBSET DueOn(H, d)
  BY DEF DueOn
<1>2. IsFiniteSet(DueOn(H, d))
  BY <1>1, FS_Subset
<1>3. /\ IsFiniteSet(DueOn(K, d))
      /\ Cardinality(DueOn(K, d)) <= Cardinality(DueOn(H, d))
  BY <1>1, <1>2, FS_Subset
<1> QED
  BY <1>2, <1>3, FS_CardinalityType

\* An order that takes another's place leaves room for itself.
LEMMA ReplacingMakesRoom ==
    ASSUME CountInv, NEW s \in Seats, NEW cmd \in Commands, NEW due \in Nat,
           replaced(s, cmd, due) # {}
    PROVE  HasRoom(held[s] \ replaced(s, cmd, due), due)
<1> DEFINE kept == held[s] \ replaced(s, cmd, due)
<1>1. PICK h \in replaced(s, cmd, due) : TRUE
  OBVIOUS
<1>2. h \in DueOn(held[s], due) /\ h \notin DueOn(kept, due)
  BY <1>1 DEF replaced, DueOn
<1>3. DueOn(kept, due) \in SUBSET DueOn(held[s], due)
  BY DEF DueOn
<1>4. IsFiniteSet(DueOn(held[s], due))
  <2>1. DueOn(held[s], due) \in SUBSET held[s]
    BY DEF DueOn
  <2> QED
    BY <2>1, FS_Subset DEF CountInv, Counted
<1>5. /\ Cardinality(DueOn(kept, due)) <= Cardinality(DueOn(held[s], due))
      /\ Cardinality(DueOn(kept, due)) # Cardinality(DueOn(held[s], due))
      /\ Cardinality(DueOn(held[s], due)) \in Nat
      /\ Cardinality(DueOn(kept, due)) \in Nat
  BY <1>2, <1>3, <1>4, FS_Subset, FS_CardinalityType
<1>6. Cardinality(DueOn(held[s], due)) <= MaxOrdersPerTick
  BY DEF CountInv, Counted
<1> QED
  BY <1>5, <1>6, DelaysAssumption DEF HasRoom

\* Giving an order keeps the count of every tick within MAX_ORDERS_PER_TICK, and
\* leaves no earlier order to a body due with an unqueued one.
LEMMA GiveKeepsCount ==
    ASSUME CountInv, NEW s \in Seats, NEW cmd \in Commands,
           NEW seen \in Nat \cup {None}, NEW connection \in Connections,
           give_from(s, cmd, seen, connection)
    PROVE  /\ Counted'
           /\ LastCommandWins'
           /\ arrivals' = arrivals => held' = held
<1>1. PICK jitter \in 0..Jitter[s] :
             LET due == due_of(s, jitter)
                 new == [no |-> arrivals[s], given |-> tick, due |-> due,
                         cmd |-> cmd, seen |-> seen, connection |-> connection]
                 kept == held[s] \ replaced(s, cmd, due)
             IN  /\ burst' = [burst EXCEPT ![s] = [given |-> tick, due |-> due]]
                 /\ \/ /\ HasRoom(kept, due)
                       /\ held' = [held EXCEPT ![s] = kept \cup {new}]
                       /\ arrivals' = [arrivals EXCEPT ![s] = @ + 1]
                    \/ /\ ~HasRoom(kept, due)
                       /\ held' = [held EXCEPT ![s] = kept]
                       /\ arrivals' = arrivals
                 /\ UNCHANGED <<tick, finished, measured, settled>>
  BY GiveSteps DEF CountInv
<1> DEFINE due == due_of(s, jitter)
           kept == held[s] \ replaced(s, cmd, due)
           new == [no |-> arrivals[s], given |-> tick, due |-> due,
                   cmd |-> cmd, seen |-> seen, connection |-> connection]
<1>2. /\ due \in Nat
      /\ held \in [Seats -> SUBSET HeldOrder]
      /\ arrivals \in [Seats -> Nat]
  BY DueOfAnOrder DEF CountInv, LineInv, TypeOK
<1>3. /\ IsFiniteSet(held[s]) /\ IsFiniteSet(kept)
      /\ \A d \in Nat : /\ IsFiniteSet(DueOn(held[s], d))
                        /\ Cardinality(DueOn(held[s], d)) \in Nat
                        /\ Cardinality(DueOn(held[s], d)) <= MaxOrdersPerTick
  <2>1. IsFiniteSet(held[s])
    BY DEF CountInv, Counted
  <2>2. \A d \in Nat : DueOn(held[s], d) \in SUBSET held[s]
    BY DEF DueOn
  <2>3. kept \in SUBSET held[s]
    OBVIOUS
  <2> HIDE DEF kept
  <2> QED
    BY <2>1, <2>2, <2>3, FS_Subset, FS_CardinalityType DEF CountInv, Counted
<1>4. ASSUME NEW d \in Nat
      PROVE  /\ IsFiniteSet(DueOn(kept, d))
             /\ Cardinality(DueOn(kept, d)) \in Nat
             /\ Cardinality(DueOn(kept, d)) <= MaxOrdersPerTick
  <2>1. kept \in SUBSET held[s]
    OBVIOUS
  <2> HIDE DEF kept
  <2>2. /\ IsFiniteSet(DueOn(kept, d)) /\ Cardinality(DueOn(kept, d)) \in Nat
        /\ Cardinality(DueOn(kept, d)) <= Cardinality(DueOn(held[s], d))
    BY <1>3, <2>1, PartHasNoMore
  <2> QED
    BY <1>3, <2>2, DelaysAssumption
<1>5. CASE HasRoom(kept, due)
  <2>1. /\ held' = [held EXCEPT ![s] = kept \cup {new}]
        /\ arrivals' = [arrivals EXCEPT ![s] = @ + 1]
    BY <1>1, <1>5
  <2>2. arrivals' # arrivals
    BY <1>2, <2>1
  <2>3. /\ new.no = arrivals[s] /\ new.due = due /\ new.cmd = cmd
        /\ \A h \in held[s] : h.no < new.no /\ h.no \in Nat
    BY DEF CountInv, LineInv, Numbered, TypeOK, HeldOrder
  <2> HIDE DEF due, new
  <2>4. LastCommandWins'
    <3> SUFFICES ASSUME NEW r \in Seats, NEW g \in held'[r], NEW h \in held'[r],
                        g.due = h.due, g.cmd.key = h.cmd.key,
                        g.cmd.body, h.cmd.body, ~h.cmd.queue
                 PROVE  h.no <= g.no
      BY DEF LastCommandWins
    <3>1. CASE g \in held[r] /\ h \in held[r]
      BY <3>1 DEF CountInv, LastCommandWins
    <3>2. CASE r = s /\ g = new
      BY <1>2, <2>1, <2>3, <3>2
    <3>3. CASE r = s /\ h = new /\ g # new
      <4>1. g \in held[s] /\ g \notin replaced(s, cmd, due)
        BY <1>2, <2>1, <3>3
      <4>2. g \in replaced(s, cmd, due)
        BY <2>3, <3>3, <4>1 DEF replaced
      <4> QED
        BY <4>1, <4>2
    <3> QED
      BY <1>2, <2>1, <3>1, <3>2, <3>3
  <2>5. Counted'
    <3>1. IsFiniteSet(kept \cup {new})
      BY <1>3, FS_AddElement
    <3>2. ASSUME NEW d \in Nat
          PROVE  Cardinality(DueOn(kept \cup {new}, d)) <= MaxOrdersPerTick
      <4>1. CASE d # due
        <5>1. DueOn(kept \cup {new}, d) = DueOn(kept, d)
          BY <2>3, <4>1 DEF DueOn
        <5> QED
          BY <1>4, <5>1
      <4>2. CASE d = due
        <5>1. DueOn(kept \cup {new}, d) = DueOn(kept, d) \cup {new}
          BY <2>3, <4>2 DEF DueOn
        <5>2. new \notin DueOn(kept, d)
          BY <2>3 DEF DueOn
        <5>3. Cardinality(DueOn(kept, d) \cup {new}) = Cardinality(DueOn(kept, d)) + 1
          BY <1>4, <5>2, FS_AddElement
        <5>4. Cardinality(DueOn(kept, d)) < MaxOrdersPerTick
          BY <1>5, <4>2 DEF HasRoom
        <5>5. Cardinality(DueOn(kept, d)) \in Nat
          BY <1>4
        <5>6. \A c \in Nat : c < MaxOrdersPerTick => c + 1 <= MaxOrdersPerTick
          BY DelaysAssumption
        <5>7. Cardinality(DueOn(kept, d)) + 1 <= MaxOrdersPerTick
          BY <5>4, <5>5, <5>6
        <5> QED
          BY <5>1, <5>3, <5>7
      <4> QED
        BY <4>1, <4>2
    <3> HIDE DEF kept
    <3>3. /\ held'[s] = kept \cup {new}
          /\ \A r \in Seats \ {s} : held'[r] = held[r]
      BY <1>2, <2>1
    <3>4. \A r \in Seats : r # s => held'[r] = held[r]
      BY <3>3
    <3> QED
      BY <3>1, <3>2, <3>3, <3>4 DEF Counted, CountInv
  <2> QED
    BY <2>2, <2>4, <2>5
<1>6. CASE ~HasRoom(kept, due)
  <2>1. replaced(s, cmd, due) = {}
    BY <1>2, <1>6, ReplacingMakesRoom
  <2>2. held' = held
    BY <1>1, <1>2, <1>6, <2>1
  <2> QED
    BY <2>2 DEF CountInv, Counted, LastCommandWins
<1> QED
  BY <1>5, <1>6

\* A tick only takes orders off the lines, so the counts still hold after it.
LEMMA AdvanceKeepsCount == CountInv /\ advance => Counted' /\ LastCommandWins'
<1> SUFFICES ASSUME CountInv, advance PROVE Counted' /\ LastCommandWins'
  OBVIOUS
<1>1. \A s \in Seats : held'[s] \in SUBSET held[s]
  BY DEF advance, Released
<1>2. LastCommandWins'
  BY <1>1 DEF CountInv, LastCommandWins
<1>3. Counted'
  <2> SUFFICES ASSUME NEW s \in Seats
               PROVE  /\ IsFiniteSet(held'[s])
                      /\ \A due \in Nat :
                            Cardinality(DueOn(held'[s], due)) <= MaxOrdersPerTick
    BY DEF Counted
  <2>1. ASSUME NEW due \in Nat
        PROVE  Cardinality(DueOn(held'[s], due)) <= MaxOrdersPerTick
    <3>1. IsFiniteSet(held[s]) /\ held'[s] \in SUBSET held[s]
      BY <1>1 DEF CountInv, Counted
    <3>2. Cardinality(DueOn(held[s], due)) <= MaxOrdersPerTick
      BY DEF CountInv, Counted
    <3>3. /\ Cardinality(DueOn(held'[s], due)) \in Nat
          /\ Cardinality(DueOn(held[s], due)) \in Nat
          /\ Cardinality(DueOn(held'[s], due)) <= Cardinality(DueOn(held[s], due))
      BY <3>1, PartHasNoMore
    <3> QED
      BY <3>2, <3>3, DelaysAssumption
  <2> QED
    BY <1>1, <2>1, FS_Subset DEF CountInv, Counted
<1> QED
  BY <1>2, <1>3

\* The counts hold in every behaviour, and so does the order to a body.
THEOREM CountInvariant == Spec => []CountInv
<1>1. Init => CountInv
  <2> SUFFICES ASSUME Init PROVE CountInv
    OBVIOUS
  <2>1. \A s \in Seats : held[s] = {}
    BY DEF Init
  <2>2. Counted
    <3>1. \A due \in Nat : DueOn({}, due) = {}
      BY DEF DueOn
    <3>2. IsFiniteSet({}) /\ Cardinality({}) = 0 /\ 0 <= MaxOrdersPerTick
      BY FS_EmptySet, DelaysAssumption
    <3>3. ASSUME NEW s \in Seats, NEW due \in Nat
          PROVE  Cardinality(DueOn(held[s], due)) <= MaxOrdersPerTick
      BY <2>1, <3>1, <3>2
    <3> QED
      BY <2>1, <3>2, <3>3 DEF Counted
  <2> QED
    BY <2>1, <2>2, InitLine DEF CountInv, LastCommandWins
<1>2. CountInv /\ [Next]_vars => CountInv'
  <2> SUFFICES ASSUME CountInv, [Next]_vars PROVE CountInv'
    OBVIOUS
  <2>1. LineInv'
    BY NextKeepsLine DEF CountInv
  <2>2. CASE Give
    <3>1. Stamps \subseteq Nat \cup {None}
      BY BoundsAssumption DEF Stamps, CountInv, LineInv, TypeOK
    <3> QED
      BY <2>1, <2>2, <3>1, GiveKeepsCount DEF Give, CountInv
  <2>3. CASE advance
    BY <2>1, <2>3, AdvanceKeepsCount DEF CountInv
  <2>4. CASE UNCHANGED vars
    BY <2>1, <2>4 DEF vars, CountInv, Counted, LastCommandWins
  <2> QED
    BY <2>2, <2>3, <2>4 DEF Next
<1> QED
  BY <1>1, <1>2, PTL DEF Spec

\* The last unqueued order given to a body for a tick comes before every order
\* to that body still due on it.
THEOREM LastOrderWins == Spec => []LastCommandWins
<1>1. CountInv => LastCommandWins
  BY DEF CountInv
<1> QED
  BY <1>1, CountInvariant, PTL

\* No tick ever has more than MAX_ORDERS_PER_TICK orders of a seat due.
THEOREM TicksAreBounded == Spec => []TickBounded
<1>1. CountInv => TickBounded
  BY DEF CountInv, Counted, TickBounded, LineInv, TypeOK, HeldOrder
<1> QED
  BY <1>1, CountInvariant, PTL

\* Orders told apart by their numbers, at most n of them due on each of some
\* ticks, are no more than n for each tick: an order goes with its tick and the
\* place it has among those due with it.
LEMMA SoManyPerTick ==
    ASSUME NEW H, IsFiniteSet(H), NEW T, IsFiniteSet(T), NEW n \in Nat,
           \A h \in H : h.due \in T /\ h.no \in Nat,
           \A g, h \in H : g.no = h.no => g = h,
           \A d \in T : Cardinality(DueOn(H, d)) <= n
    PROVE  Cardinality(H) <= Cardinality(T) * n
<1> DEFINE Upto(h) == {g \in DueOn(H, h.due) : g.no <= h.no}
           place == [h \in H |-> <<h.due, Cardinality(Upto(h))>>]
<1>1. ASSUME NEW h \in H
      PROVE  /\ IsFiniteSet(Upto(h)) /\ h \in Upto(h)
             /\ Cardinality(Upto(h)) \in 1..n
  <2>1. IsFiniteSet(DueOn(H, h.due)) /\ Cardinality(DueOn(H, h.due)) \in Nat
    BY PartHasNoMore
  <2>2. Upto(h) \in SUBSET DueOn(H, h.due)
    OBVIOUS
  <2>3. h \in Upto(h)
    BY DEF DueOn
  <2> HIDE DEF Upto
  <2>4. IsFiniteSet(Upto(h)) /\ Cardinality(Upto(h)) <= Cardinality(DueOn(H, h.due))
    BY <2>1, <2>2, FS_Subset
  <2>5. Cardinality(Upto(h)) \in Nat /\ Cardinality(Upto(h)) # 0
    BY <2>3, <2>4, FS_EmptySet, FS_CardinalityType
  <2>6. Cardinality(DueOn(H, h.due)) <= n
    OBVIOUS
  <2> QED
    BY <2>1, <2>3, <2>4, <2>5, <2>6
<1>2. ASSUME NEW g \in H, NEW h \in H, g.due = h.due, g.no < h.no
      PROVE  Cardinality(Upto(g)) # Cardinality(Upto(h))
  <2>1. Upto(g) \in SUBSET Upto(h) /\ h \notin Upto(g)
    <3>1. \A x \in DueOn(H, h.due) : x.no \in Nat
      BY DEF DueOn
    <3>2. g.no \in Nat /\ h.no \in Nat
      OBVIOUS
    <3> QED
      BY <1>2, <3>1, <3>2
  <2>2. IsFiniteSet(Upto(h)) /\ h \in Upto(h)
    BY <1>1
  <2> HIDE DEF Upto
  <2> QED
    BY <2>1, <2>2, FS_Subset
<1>3. place \in Injection(H, T \X (1..n))
  <2>1. place \in [H -> T \X (1..n)]
    BY <1>1
  <2>2. ASSUME NEW g \in H, NEW h \in H, place[g] = place[h] PROVE g = h
    <3>1. g.due = h.due /\ Cardinality(Upto(g)) = Cardinality(Upto(h))
      BY <2>2
    <3>2. ~(g.no < h.no) /\ ~(h.no < g.no)
      BY <3>1, <1>2
    <3> QED
      BY <3>2
  <2> HIDE DEF place
  <2> QED
    BY <2>1, <2>2 DEF Injection, IsInjective
<1>4. IsFiniteSet(1..n) /\ Cardinality(1..n) = n
  BY FS_Interval
<1>5. IsFiniteSet(T \X (1..n)) /\ Cardinality(T \X (1..n)) = Cardinality(T) * n
  BY <1>4, FS_Product
<1> HIDE DEF place
<1> QED
  BY <1>3, <1>5, FS_Injection

\* No tick is overfull and no line outgrows the length give_from asserts: its
\* orders are due on the next MAX_ORDER_DELAY_TICKS + 1 ticks, and on no other.
THEOREM LinesAreBounded == Spec => []LineBounded
<1>1. CountInv => LineBounded
  <2> SUFFICES ASSUME CountInv PROVE LineBounded
    OBVIOUS
  <2>1. TickBounded
    BY DEF CountInv, Counted, TickBounded, LineInv, TypeOK, HeldOrder
  <2>2. ASSUME NEW s \in Seats
        PROVE  Cardinality(held[s]) <= (MaxOrderDelay + 1) * MaxOrdersPerTick
    <3> DEFINE T == (tick + 1)..(tick + 1 + MaxOrderDelay)
    <3>1. tick \in Nat /\ \A h \in held[s] : h.due \in Nat /\ h.given \in Nat /\ h.no \in Nat
      BY DEF CountInv, LineInv, TypeOK, HeldOrder
    <3>2. \A h \in held[s] : h.given <= tick
      <4>1. held[s] # {} => /\ burst[s] \in Burst /\ burst[s].given <= tick
                            /\ \A h \in held[s] : h.given <= burst[s].given
        BY DEF CountInv, LineInv, BurstOfLine, TypeOK
      <4> QED
        BY <3>1, <4>1 DEF Burst
    <3>3. /\ MaxOrderDelay \in Nat /\ MaxOrdersPerTick \in Nat
          /\ Base[s] \in Nat /\ Jitter[s] \in Nat /\ Base[s] + Jitter[s] <= MaxOrderDelay
      BY DelaysAssumption
    <3>4. \A h \in held[s] : /\ h.due <= h.given + 1 + Base[s] + Jitter[s]
                             /\ h.due >= tick + 1
      BY DEF CountInv, LineInv, DelayWithinBounds
    <3>5. \A h \in held[s] : h.due \in T
      BY <3>1, <3>2, <3>3, <3>4
    <3>6. IsFiniteSet(T) /\ Cardinality(T) = MaxOrderDelay + 1
      <4> DEFINE a == tick + 1
                 b == tick + 1 + MaxOrderDelay
      <4>1. a \in Int /\ b \in Int /\ ~(a > b) /\ b - a + 1 = MaxOrderDelay + 1
        BY <3>1, <3>3
      <4>2. T = a..b
        OBVIOUS
      <4> HIDE DEF a, b, T
      <4> QED
        BY <4>1, <4>2, FS_Interval
    <3>7. T \subseteq Nat
      BY <3>1, <3>3
    <3> HIDE DEF T
    <3>8. /\ IsFiniteSet(held[s])
          /\ \A d \in T : Cardinality(DueOn(held[s], d)) <= MaxOrdersPerTick
      BY <3>7 DEF CountInv, Counted
    <3>9. \A g, h \in held[s] : g.no = h.no => g = h
      BY DEF CountInv, LineInv, Numbered
    <3>10. Cardinality(held[s]) <= Cardinality(T) * MaxOrdersPerTick
      BY <3>1, <3>3, <3>5, <3>6, <3>8, <3>9, SoManyPerTick
    <3> QED
      BY <3>6, <3>10
  <2> QED
    BY <2>1, <2>2 DEF LineBounded
<1> QED
  BY <1>1, CountInvariant, PTL

\* All that is promised of a line's state (SeatLine, DelayLine::give_from and
\* release), for any seats, delays and limits.
THEOREM LineIsSound == Spec => []LineSound
<1>1. CountInv /\ LineBounded => LineSound
  BY DEF CountInv, Counted, LineInv, LineSound, LineOrder
<1> QED
  BY <1>1, CountInvariant, LinesAreBounded, PTL

\* An order refused as QueueFull has cancelled nothing: an order that takes
\* another's place always finds room.
THEOREM RefusalsCancelNothing == Spec => RefusalCancelsNothing
<1>1. CountInv /\ [Next]_vars
         => [tick' = tick /\ arrivals' = arrivals => held' = held]_vars
  <2> SUFFICES ASSUME CountInv, Next, tick' = tick, arrivals' = arrivals
               PROVE  held' = held
    OBVIOUS
  <2>1. CASE Give
    <3>1. Stamps \subseteq Nat \cup {None}
      BY BoundsAssumption DEF Stamps, CountInv, LineInv, TypeOK
    <3> QED
      BY <2>1, <3>1, GiveKeepsCount DEF Give
  <2>2. CASE advance
    BY <2>2 DEF advance, CountInv, LineInv, TypeOK
  <2> QED
    BY <2>1, <2>2 DEF Next
<1> QED
  BY <1>1, CountInvariant, PTL DEF Spec, RefusalCancelsNothing

\* What a seat is told of its orders is right, refusals and settlements alike
\* (DelayLine::give_from, release), for any seats, delays and limits.
THEOREM AnswersAreRight == Spec => AnswersRight
  BY RefusalsCancelNothing, OrdersSettleInOrder DEF AnswersRight
=============================================================================
