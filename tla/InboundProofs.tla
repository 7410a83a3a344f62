--------------------------- MODULE InboundProofs ---------------------------
(***************************************************************************)
(* The two budgets are exact and nothing is heard with a gap, for any      *)
(* number of peers and any limits.  And about Rates, for any spacings and  *)
(* bursts: nobody is heard or talks faster than its rate over any stretch  *)
(* of time, or is refused but for it.                                      *)
(***************************************************************************)
EXTENDS Inbound, Rates, FiniteSetTheorems, SequenceTheorems, TLAPS

Ends(ps) == [kind : {"end"}, peer : ps, no : 0..MaxFrames]
EndsIn(ps) == {i \in DOMAIN channel : channel[i] \in Ends(ps)}

\* The end of a peer is told once, after the reader's loop and behind all of the
\* peer's messages.
EndsLast ==
    \A p \in Peers :
        /\ \A i, j \in EndsIn({p}) : i = j
        /\ EndsIn({p}) # {} => reader[p] = "ended"
        /\ \A i \in EndsIn({p}), k \in InFlight({p}) : k < i

\* Sent is the number of the last message of p that went into the channel, while
\* the simulation listens: the reader has one more in hand, or lost one to its
\* budget as it left its loop.
Sent(p, n) ==
    /\ (n = frames[p] \/ n + 1 = frames[p])
    /\ reader[p] \in {"reading", "gone"} => n = frames[p]
    /\ reader[p] \in {"half", "charged", "refused"} => n + 1 = frames[p]

\* The messages at places I of a channel are those after number h up to n, in the
\* order they were sent.
Numbered(c, I, h, n) ==
    /\ \A i \in I : c[i].no \in (h + 1)..n
    /\ \A k \in (h + 1)..n : \E i \in I : c[i].no = k
    /\ \A i, j \in I : i < j => c[i].no < c[j].no

\* The messages of a peer in the channel are the ones that follow what was heard
\* of it.
InOrder ==
    \A p \in Peers : \E n \in 0..frames[p] :
        /\ Sent(p, n) /\ Len(heard[p]) <= n
        /\ Numbered(channel, InFlight({p}), Len(heard[p]), n)

Heard ==
    \A p \in Peers :
        /\ \A n \in DOMAIN heard[p] : heard[p][n] = n
        /\ p \in told => /\ reader[p] = "ended" /\ InFlight({p}) = {}
                         /\ frames[p] - Len(heard[p]) \in {0, 1}

\* The inductive invariant.
BudgetInv ==
    /\ TypeOK /\ BudgetExact /\ EndsLast /\ Heard
    /\ listening => InOrder /\ \A p \in Peers : reader[p] \notin {"unheard", "freeing", "draining"}

-----------------------------------------------------------------------------
(* Places of a sequence whose element is in a set. *)

At(c, S) == {i \in DOMAIN c : c[i] \in S}

LEMMA AtFinite ==
    ASSUME NEW T, NEW c \in Seq(T), NEW S
    PROVE  /\ IsFiniteSet(At(c, S)) /\ Cardinality(At(c, S)) \in Nat
           /\ Cardinality(At(c, S)) <= Len(c)
           /\ At(c, S) \subseteq 1..Len(c)
  <1>1. Len(c) \in Nat /\ At(c, S) \in SUBSET (1..Len(c))
    BY DEF At
  <1>2. IsFiniteSet(1..Len(c)) /\ Cardinality(1..Len(c)) = Len(c)
    <2>1. 1 \in Int /\ Len(c) \in Int
      BY <1>1
    <2>2. /\ IsFiniteSet(1..Len(c))
          /\ Cardinality(1..Len(c)) = IF 1 > Len(c) THEN 0 ELSE Len(c) - 1 + 1
      BY <2>1, FS_Interval
    <2> QED
      BY <1>1, <2>2
  <1>3. IsFiniteSet(At(c, S)) /\ Cardinality(At(c, S)) <= Cardinality(1..Len(c))
    BY <1>1, <1>2, FS_Subset
  <1> QED
    BY <1>1, <1>2, <1>3, FS_CardinalityType

LEMMA AtAppend ==
    ASSUME NEW T, NEW c \in Seq(T), NEW e \in T, NEW S
    PROVE  /\ At(Append(c, e), S) = IF e \in S THEN At(c, S) \cup {Len(c) + 1} ELSE At(c, S)
           /\ Cardinality(At(Append(c, e), S)) =
                 IF e \in S THEN Cardinality(At(c, S)) + 1 ELSE Cardinality(At(c, S))
  <1>1. /\ Len(c) \in Nat /\ DOMAIN Append(c, e) = 1..(Len(c) + 1) /\ DOMAIN c = 1..Len(c)
        /\ Append(c, e)[Len(c) + 1] = e
        /\ \A i \in 1..Len(c) : Append(c, e)[i] = c[i]
    OBVIOUS
  <1>2. 1..(Len(c) + 1) = 1..Len(c) \cup {Len(c) + 1}
    BY <1>1
  <1>3. At(Append(c, e), S) = IF e \in S THEN At(c, S) \cup {Len(c) + 1} ELSE At(c, S)
    BY <1>1, <1>2 DEF At
  <1>4. IsFiniteSet(At(c, S)) /\ Len(c) + 1 \notin At(c, S)
    BY <1>1, AtFinite
  <1>5. Cardinality(At(c, S) \cup {Len(c) + 1}) = Cardinality(At(c, S)) + 1
    BY <1>4, FS_AddElement
  <1> QED
    BY <1>3, <1>5

LEMMA AtTail ==
    ASSUME NEW T, NEW c \in Seq(T), c # <<>>, NEW S
    PROVE  /\ At(Tail(c), S) = {i \in 1..(Len(c) - 1) : i + 1 \in At(c, S)}
           /\ 1 \in At(c, S) <=> Head(c) \in S
           /\ Cardinality(At(Tail(c), S)) =
                 IF Head(c) \in S THEN Cardinality(At(c, S)) - 1 ELSE Cardinality(At(c, S))
  <1> DEFINE A == At(c, S)
             B == At(Tail(c), S)
             f == [i \in B |-> i + 1]
  <1>1. /\ Len(c) \in Nat \ {0} /\ DOMAIN Tail(c) = 1..(Len(c) - 1) /\ DOMAIN c = 1..Len(c)
        /\ \A i \in 1..(Len(c) - 1) : Tail(c)[i] = c[i + 1] /\ i + 1 \in 1..Len(c)
        /\ Head(c) = c[1] /\ 1 \in 1..Len(c)
    OBVIOUS
  <1>2. B = {i \in 1..(Len(c) - 1) : i + 1 \in A} /\ (1 \in A <=> Head(c) \in S)
    BY <1>1 DEF At
  <1>3. A \subseteq 1..Len(c) /\ IsFiniteSet(A) /\ Cardinality(A) \in Nat
    BY AtFinite
  <1> HIDE DEF A, B
  <1>4. IsFiniteSet(A \ {1})
        /\ Cardinality(A \ {1}) = IF 1 \in A THEN Cardinality(A) - 1 ELSE Cardinality(A)
    BY <1>3, FS_RemoveElement
  <1>5. f \in Bijection(B, A \ {1})
    <2>1. f \in [B -> A \ {1}]
      BY <1>1, <1>2
    <2>2. \A i, j \in B : f[i] = f[j] => i = j
      BY <1>2
    <2>3. \A k \in A \ {1} : \E i \in B : f[i] = k
      <3> TAKE k \in A \ {1}
      <3>1. k - 1 \in B /\ (k - 1) + 1 = k
        BY <1>1, <1>2, <1>3
      <3> QED
        BY <3>1
    <2> QED
      BY <2>1, <2>2, <2>3 DEF Bijection, Injection, Surjection, IsInjective
  <1>6. IsFiniteSet(B)
    <2>1. Tail(c) \in Seq(T)
      OBVIOUS
    <2> QED
      BY <2>1, AtFinite DEF B
  <1>7. Cardinality(A \ {1}) = Cardinality(B)
    <2>1. ExistsBijection(B, A \ {1})
      BY <1>5 DEF ExistsBijection
    <2> QED
      BY <1>6, <2>1, FS_Bijection
  <1> QED
    BY <1>2, <1>4, <1>7 DEF A, B

LEMMA NumberedMore ==
    ASSUME NEW c \in Seq(Event), NEW I, I \subseteq 1..Len(c),
           NEW h \in Nat, NEW n \in Nat, h <= n, Numbered(c, I, h, n),
           NEW e \in Event, e.no = n + 1
    PROVE  Numbered(Append(c, e), I \cup {Len(c) + 1}, h, n + 1)
  <1> DEFINE d == Append(c, e)
             top == Len(c) + 1
  <1>1. Len(c) \in Nat /\ d[top] = e /\ \A i \in I : d[i] = c[i]
    OBVIOUS
  <1>2. \A i \in I : i \in Nat /\ i < top
    BY <1>1
  <1> HIDE DEF d
  <1>3. \A i \in I : d[i].no \in (h + 1)..n
    BY <1>1 DEF Numbered
  <1>4. \A i \in I \cup {top} : d[i].no \in (h + 1)..(n + 1)
    BY <1>1, <1>3
  <1>5. \A k \in (h + 1)..(n + 1) : \E i \in I \cup {top} : d[i].no = k
    <2> TAKE k \in (h + 1)..(n + 1)
    <2>1. CASE k = n + 1
      BY <1>1, <2>1
    <2>2. CASE k # n + 1
      <3>1. k \in (h + 1)..n
        BY <2>2
      <3> QED
        BY <1>1, <3>1 DEF Numbered
    <2> QED
      BY <2>1, <2>2
  <1>6. ASSUME NEW i \in I \cup {top}, NEW j \in I \cup {top}, i < j
        PROVE  d[i].no < d[j].no
    <2>1. i \in I
      <3>1. top \in Nat /\ j \in Nat /\ j <= top
        BY <1>1, <1>2
      <3>2. i # top
        BY <1>6, <3>1
      <3> QED
        BY <3>2
    <2>2. CASE j \in I
      BY <1>1, <1>6, <2>1, <2>2 DEF Numbered
    <2>3. CASE j = top
      BY <1>1, <1>3, <2>1, <2>3
    <2> QED
      BY <2>2, <2>3
  <1> QED
    BY <1>4, <1>5, <1>6 DEF Numbered, d

LEMMA NumberedLess ==
    ASSUME NEW c \in Seq(Event), c # <<>>, NEW I, I \subseteq 1..Len(c),
           NEW h \in Nat, NEW n \in Nat, h <= n, Numbered(c, I, h, n)
    PROVE  LET J == {i \in 1..(Len(c) - 1) : i + 1 \in I}
           IN  /\ 1 \notin I => Numbered(Tail(c), J, h, n)
               /\ 1 \in I => c[1].no = h + 1 /\ h + 1 <= n /\ Numbered(Tail(c), J, h + 1, n)
  <1> DEFINE J == {i \in 1..(Len(c) - 1) : i + 1 \in I}
             d == Tail(c)
  <1>1. Len(c) \in Nat \ {0} /\ \A i \in J : i \in Nat \ {0} /\ i + 1 \in I /\ d[i] = c[i + 1]
    OBVIOUS
  <1>2. \A k \in I \ {1} : k - 1 \in J /\ d[k - 1] = c[k]
    <2> TAKE k \in I \ {1}
    <2>1. k \in 1..Len(c) /\ k # 1
      OBVIOUS
    <2>2. k - 1 \in 1..(Len(c) - 1) /\ (k - 1) + 1 = k
      BY <1>1, <2>1
    <2>3. k - 1 \in J
      BY <2>2
    <2> QED
      BY <1>1, <2>2, <2>3
  <1>3. \A i, j \in J : i < j => d[i].no < d[j].no
    <2> TAKE i, j \in J
    <2> HAVE i < j
    <2>1. i + 1 < j + 1 /\ i + 1 \in I /\ j + 1 \in I
      BY <1>1
    <2> QED
      BY <1>1, <2>1 DEF Numbered
  <1> HIDE DEF J, d
  <1>4. CASE 1 \notin I
    <2>1. \A i \in J : d[i].no \in (h + 1)..n
      BY <1>1 DEF Numbered
    <2>2. ASSUME NEW k \in (h + 1)..n PROVE \E i \in J : d[i].no = k
      <3>1. PICK i \in I : c[i].no = k
        BY DEF Numbered
      <3>2. i - 1 \in J /\ d[i - 1] = c[i]
        BY <1>2, <1>4
      <3> QED
        BY <3>1, <3>2
    <2> QED
      BY <1>3, <1>4, <2>1, <2>2 DEF Numbered, J, d
  <1>5. CASE 1 \in I
    <2>1. c[1].no \in (h + 1)..n
      BY <1>5 DEF Numbered
    <2>2. h + 1 <= n /\ h + 1 \in (h + 1)..n
      BY <2>1
    <2>3. PICK i \in I : c[i].no = h + 1
      BY <2>2 DEF Numbered
    <2>4. 1 < i => c[1].no < c[i].no
      BY <1>5 DEF Numbered
    <2>5. i \in Nat \ {0}
      BY <1>1
    <2>6. c[1].no = h + 1
      BY <2>1, <2>3, <2>4, <2>5
    <2>7. \A k \in J : d[k].no \in (h + 2)..n
      <3> TAKE k \in J
      <3>1. k + 1 \in I /\ 1 < k + 1 /\ d[k] = c[k + 1]
        BY <1>1
      <3>2. c[1].no < c[k + 1].no /\ c[k + 1].no \in (h + 1)..n
        BY <1>5, <3>1 DEF Numbered
      <3> QED
        BY <2>6, <3>1, <3>2
    <2>8. \A k \in (h + 2)..n : \E m \in J : d[m].no = k
      <3> TAKE k \in (h + 2)..n
      <3>1. k \in (h + 1)..n /\ k # h + 1
        OBVIOUS
      <3>2. PICK m \in I : c[m].no = k
        BY <3>1 DEF Numbered
      <3>3. m # 1
        BY <2>6, <3>1, <3>2
      <3> QED
        BY <1>2, <3>2, <3>3
    <2>9. h + 1 + 1 = h + 2
      OBVIOUS
    <2>10. Numbered(d, J, h + 1, n)
      BY <1>3, <2>7, <2>8, <2>9 DEF Numbered
    <2> QED
      BY <1>5, <2>2, <2>6, <2>10 DEF J, d
  <1> QED
    BY <1>4, <1>5

-----------------------------------------------------------------------------
(* Events in the channel. *)

LEMMA EventSort ==
    ASSUME NEW e \in Event, NEW ps
    PROVE  /\ e.peer \in Peers /\ e.no \in 0..MaxFrames
           /\ e \in Msgs(ps) <=> e.kind = "msg" /\ e.peer \in ps
           /\ e \in Ends(ps) <=> e.kind = "end" /\ e.peer \in ps
           /\ e.kind \in {"msg", "end"}
  BY DEF Event, Msgs, Ends

LEMMA InFlightAt ==
    ASSUME NEW ps
    PROVE  /\ InFlight(ps) = At(channel, Msgs(ps)) /\ EndsIn(ps) = At(channel, Ends(ps))
           /\ InFlight(ps)' = At(channel', Msgs(ps')) /\ EndsIn(ps)' = At(channel', Ends(ps'))
  BY DEF InFlight, EndsIn, At, Msgs, Ends

-----------------------------------------------------------------------------
(* The counters. *)

Holding == {"half", "charged", "refused", "unheard", "freeing"}

\* How many readers hold a place after one of them moved.
LEMMA ChargingMoves ==
    ASSUME IsFiniteSet(Peers), reader \in [Peers -> ReaderStates],
           NEW p \in Peers, NEW to, reader' = [reader EXCEPT ![p] = to]
    PROVE  /\ Cardinality(Charging) \in Nat /\ Cardinality(Charging') \in Nat
           /\ reader[p] \in Holding /\ to \notin Holding =>
                 Cardinality(Charging') = Cardinality(Charging) - 1
           /\ reader[p] \notin Holding /\ to \in Holding =>
                 Cardinality(Charging') = Cardinality(Charging) + 1
           /\ (reader[p] \in Holding <=> to \in Holding) =>
                 Cardinality(Charging') = Cardinality(Charging)
  <1>1. /\ Charging = {q \in Peers : reader[q] \in Holding}
        /\ Charging' = {q \in Peers : reader'[q] \in Holding}
    BY DEF Charging, Holding
  <1>2. reader'[p] = to /\ \A q \in Peers : q # p => reader'[q] = reader[q]
    OBVIOUS
  <1>3. Charging \in SUBSET Peers /\ Charging' \in SUBSET Peers
    BY <1>1
  <1>4. IsFiniteSet(Charging) /\ IsFiniteSet(Charging')
    BY <1>3, FS_Subset
  <1>5. Cardinality(Charging) \in Nat /\ Cardinality(Charging') \in Nat
    BY <1>4, FS_CardinalityType
  <1>6. CASE reader[p] \in Holding /\ to \notin Holding
    <2>1. Charging' = Charging \ {p} /\ p \in Charging
      BY <1>1, <1>2, <1>6
    <2> QED
      BY <1>4, <1>5, <1>6, <2>1, FS_RemoveElement
  <1>7. CASE reader[p] \notin Holding /\ to \in Holding
    <2>1. Charging' = Charging \cup {p} /\ p \notin Charging
      BY <1>1, <1>2, <1>7
    <2> QED
      BY <1>4, <1>5, <1>7, <2>1, FS_AddElement
  <1>8. CASE reader[p] \in Holding <=> to \in Holding
    <2>1. Charging' = Charging
      BY <1>1, <1>2, <1>8
    <2> QED
      BY <1>5, <1>8, <2>1
  <1> QED
    BY <1>5, <1>6, <1>7, <1>8

\* The numbers of the invariant, typed.
LEMMA Typed ==
    ASSUME InboundAssumption, BudgetInv
    PROVE  /\ global \in Nat /\ global <= MaxQueued /\ MaxQueued \in Nat
           /\ queued \in [Peers -> 0..MaxPerPeer] /\ MaxPerPeer \in Nat
           /\ channel \in Seq(Event) /\ IsFiniteSet(Peers)
           /\ reader \in [Peers -> ReaderStates]
           /\ frames \in [Peers -> 0..MaxFrames] /\ MaxFrames \in Nat
           /\ listening \in BOOLEAN
           /\ hand \in {<<>>} \cup {<<p>> : p \in Peers}
           /\ heard \in [Peers -> Seq(1..MaxFrames)]
           /\ told \subseteq Peers
           /\ EndsLast /\ Heard
           /\ \A ps : IsFiniteSet(InFlight(ps)) /\ Cardinality(InFlight(ps)) \in Nat
           /\ Len(hand) \in {0, 1} /\ (hand = <<>> <=> Len(hand) = 0)
           /\ Cardinality(Charging) \in Nat
           /\ \A p \in Peers : queued[p] = OwnPlaces(p)
           /\ global = Cardinality(InFlight(Peers)) + Cardinality(Charging) + Len(hand)
  <1>1. TypeOK /\ EndsLast /\ Heard /\ BudgetExact
    BY DEF BudgetInv
  <1>2. \A ps : IsFiniteSet(InFlight(ps)) /\ Cardinality(InFlight(ps)) \in Nat
    BY <1>1, InFlightAt, AtFinite DEF TypeOK
  <1>3. Charging \in SUBSET Peers
    BY DEF Charging
  <1>4. Cardinality(Charging) \in Nat
    BY <1>3, FS_Subset, FS_CardinalityType DEF InboundAssumption
  <1>5. Len(hand) \in {0, 1} /\ (hand = <<>> <=> Len(hand) = 0)
    BY <1>1 DEF TypeOK
  <1> QED
    BY <1>1, <1>2, <1>4, <1>5 DEF TypeOK, InboundAssumption, BudgetExact

\* A step after which the counters are exact again left them in their ranges.
LEMMA CountersKept ==
    ASSUME InboundAssumption, BudgetInv, BudgetExact',
           channel' \in Seq(Event), Len(hand') \in Nat, IsFiniteSet(Peers),
           global' \in Int, global' <= MaxQueued,
           queued' = queued \/ \E p \in Peers, k \in Int :
              queued' = [queued EXCEPT ![p] = k] /\ k <= MaxPerPeer
    PROVE  global' \in 0..MaxQueued /\ queued' \in [Peers -> 0..MaxPerPeer]
  <1>1. \A ps : Cardinality(At(channel', Msgs(ps))) \in Nat
    BY AtFinite
  <1>2. \A p \in Peers : queued'[p] = Cardinality(At(channel', Msgs({p})))
                            + IF reader'[p] \in {"charged", "unheard"} THEN 1 ELSE 0
    <2>1. \A p \in Peers : queued'[p] = OwnPlaces(p)'
      BY DEF BudgetExact
    <2>2. \A p : InFlight({p})' = At(channel', Msgs({p}))
      BY DEF InFlight, At, Msgs
    <2> QED
      BY <2>1, <2>2 DEF OwnPlaces
  <1>3. Cardinality(Charging') \in Nat
    <2>1. Charging' \in SUBSET Peers
      BY DEF Charging
    <2> QED
      BY <2>1, FS_Subset, FS_CardinalityType
  <1>4. InFlight(Peers)' = At(channel', Msgs(Peers))
    BY DEF InFlight, At, Msgs
  <1>5. global' \in Nat
    BY <1>1, <1>3, <1>4 DEF BudgetExact
  <1>6. \A p \in Peers : queued'[p] \in Nat
    <2> TAKE p \in Peers
    <2> DEFINE k == Cardinality(At(channel', Msgs({p})))
    <2>1. k \in Nat /\ queued'[p] = k + IF reader'[p] \in {"charged", "unheard"} THEN 1 ELSE 0
      BY <1>1, <1>2
    <2> HIDE DEF k
    <2> QED
      BY <2>1
  <1>7. queued \in [Peers -> 0..MaxPerPeer] /\ MaxPerPeer \in Nat /\ MaxQueued \in Nat
    BY Typed DEF InboundAssumption
  <1>8. queued' \in [Peers -> 0..MaxPerPeer]
    BY <1>6, <1>7
  <1> QED
    BY <1>5, <1>7, <1>8

-----------------------------------------------------------------------------
(* Steps of a reader that leave the channel alone. *)

\* What is on its way stays so, and a reader that moves has not told its end.
LEMMA QuietStep ==
    ASSUME InboundAssumption, BudgetInv,
           NEW p \in Peers, NEW to \in ReaderStates,
           reader[p] # "ended", reader' = [reader EXCEPT ![p] = to],
           UNCHANGED <<channel, listening, hand, heard, told>>,
           frames' \in [Peers -> 0..MaxFrames],
           \A q \in Peers : q # p => frames'[q] = frames[q],
           frames[p] <= frames'[p],
           listening => to \notin {"unheard", "freeing", "draining"},
           listening => \A n \in 0..frames[p] : Sent(p, n) => Sent(p, n)'
    PROVE  /\ EndsLast' /\ Heard'
           /\ listening' => InOrder'
                 /\ \A q \in Peers : reader'[q] \notin {"unheard", "freeing", "draining"}
  <1>1. /\ EndsLast /\ Heard /\ reader \in [Peers -> ReaderStates]
        /\ frames \in [Peers -> 0..MaxFrames] /\ MaxFrames \in Nat
        /\ listening => InOrder
        /\ listening => \A q \in Peers : reader[q] \notin {"unheard", "freeing", "draining"}
    BY Typed DEF BudgetInv
  <1>2. /\ reader'[p] = to /\ \A q \in Peers : q # p => reader'[q] = reader[q]
    BY <1>1
  <1>3. \A q : InFlight({q})' = InFlight({q}) /\ EndsIn({q})' = EndsIn({q})
    BY DEF InFlight, EndsIn
  <1>4. EndsLast'
    <2> SUFFICES ASSUME NEW q \in Peers
                 PROVE  /\ \A i, j \in EndsIn({q}) : i = j
                        /\ EndsIn({q}) # {} => reader'[q] = "ended"
                        /\ \A i \in EndsIn({q}), k \in InFlight({q}) : k < i
      BY <1>3, ZenonT(40) DEF EndsLast
    <2>1. EndsIn({q}) # {} => reader[q] = "ended"
      BY <1>1 DEF EndsLast
    <2>2. EndsIn({q}) # {} => reader'[q] = "ended"
      BY <1>2, <2>1
    <2> QED
      BY <1>1, <2>2 DEF EndsLast
  <1>5. Heard'
    BY <1>1, <1>2, <1>3 DEF Heard
  <1>6. listening' => \A q \in Peers : reader'[q] \notin {"unheard", "freeing", "draining"}
    BY <1>1, <1>2
  <1>7. ASSUME listening PROVE InOrder'
    <2> SUFFICES ASSUME NEW q \in Peers
                 PROVE  \E n \in 0..frames'[q] :
                           /\ Sent(q, n)' /\ Len(heard[q]) <= n
                           /\ Numbered(channel, InFlight({q}), Len(heard[q]), n)
      BY <1>3 DEF InOrder
    <2>1. PICK n \in 0..frames[q] :
              /\ Sent(q, n) /\ Len(heard[q]) <= n
              /\ Numbered(channel, InFlight({q}), Len(heard[q]), n)
      BY <1>1, <1>7 DEF InOrder
    <2>2. n \in 0..frames'[q]
      BY <1>1
    <2>3. Sent(q, n)'
      <3>1. CASE q = p
        BY <1>7, <2>1, <3>1
      <3>2. CASE q # p
        BY <1>2, <2>1, <3>2 DEF Sent
      <3> QED
        BY <3>1, <3>2
    <2> QED
      BY <2>1, <2>2, <2>3
  <1> QED
    BY <1>4, <1>5, <1>6, <1>7

\* The counters after such a step.
LEMMA QuietCounts ==
    ASSUME InboundAssumption, BudgetInv,
           NEW p \in Peers, NEW to \in ReaderStates, reader' = [reader EXCEPT ![p] = to],
           UNCHANGED <<channel, hand>>,
           NEW own \in Int, queued' = [queued EXCEPT ![p] = own], own <= MaxPerPeer,
           own - queued[p] = (IF to \in {"charged", "unheard"} THEN 1 ELSE 0)
                              - (IF reader[p] \in {"charged", "unheard"} THEN 1 ELSE 0),
           global' \in Int, global' <= MaxQueued,
           global' - global = (IF to \in Holding THEN 1 ELSE 0)
                               - (IF reader[p] \in Holding THEN 1 ELSE 0)
    PROVE  BudgetExact' /\ global' \in 0..MaxQueued /\ queued' \in [Peers -> 0..MaxPerPeer]
  <1> DEFINE card(q) == Cardinality(InFlight({q}))
             all == Cardinality(InFlight(Peers))
             owns(r) == IF r \in {"charged", "unheard"} THEN 1 ELSE 0
  <1>1. /\ \A q : card(q) \in Nat
        /\ all \in Nat /\ Len(hand) \in {0, 1}
        /\ global = all + Cardinality(Charging) + Len(hand)
        /\ queued \in [Peers -> 0..MaxPerPeer] /\ MaxPerPeer \in Nat
        /\ reader \in [Peers -> ReaderStates] /\ IsFiniteSet(Peers) /\ channel \in Seq(Event)
    BY Typed
  <1>2. \A q \in Peers : queued[q] = card(q) + owns(reader[q])
    BY Typed DEF OwnPlaces
  <1>3. /\ InFlight(Peers)' = InFlight(Peers)
        /\ \A q : InFlight({q})' = InFlight({q})
    BY DEF InFlight
  <1>4. reader'[p] = to /\ \A q \in Peers : q # p => reader'[q] = reader[q]
    BY <1>1
  <1>5. queued'[p] = own /\ \A q \in Peers : q # p => queued'[q] = queued[q]
    BY <1>1
  <1>6. Cardinality(Charging) \in Nat /\ Cardinality(Charging') \in Nat
        /\ Cardinality(Charging') - Cardinality(Charging) =
              (IF to \in Holding THEN 1 ELSE 0) - (IF reader[p] \in Holding THEN 1 ELSE 0)
    <2>1. /\ Cardinality(Charging) \in Nat /\ Cardinality(Charging') \in Nat
          /\ reader[p] \in Holding /\ to \notin Holding =>
                Cardinality(Charging') = Cardinality(Charging) - 1
          /\ reader[p] \notin Holding /\ to \in Holding =>
                Cardinality(Charging') = Cardinality(Charging) + 1
          /\ (reader[p] \in Holding <=> to \in Holding) =>
                Cardinality(Charging') = Cardinality(Charging)
      BY <1>1, ChargingMoves
    <2> QED
      BY <2>1
  <1> HIDE DEF card, all
  <1>7. ASSUME NEW q \in Peers PROVE queued'[q] = card(q) + owns(reader'[q])
    <2>1. CASE q = p
      BY <1>1, <1>2, <1>4, <1>5, <2>1, SMTT(30)
    <2>2. CASE q # p
      BY <1>2, <1>4, <1>5, <2>2
    <2> QED
      BY <2>1, <2>2
  <1>8. global' = all + Cardinality(Charging') + Len(hand)
    <2> DEFINE c == Cardinality(Charging)
               cc == Cardinality(Charging')
               d == (IF to \in Holding THEN 1 ELSE 0) - (IF reader[p] \in Holding THEN 1 ELSE 0)
               h == Len(hand)
    <2>1. c \in Nat /\ cc \in Nat /\ d \in Int /\ h \in Nat /\ global = all + c + h
      BY <1>1, <1>6
    <2>2. cc - c = d /\ global' - global = d
      BY <1>6
    <2> HIDE DEF c, cc, d, h
    <2>3. global \in Int
      BY <1>1, <2>1
    <2>4. cc = c + d /\ global' = global + d
      BY <2>1, <2>2, <2>3
    <2>5. global' = all + cc + h
      BY <1>1, <2>1, <2>3, <2>4
    <2> QED
      BY <2>5 DEF cc, h
  <1>9. BudgetExact'
    BY <1>3, <1>7, <1>8 DEF BudgetExact, OwnPlaces, card, all
  <1>10. channel' \in Seq(Event) /\ Len(hand') \in Nat
    BY <1>1
  <1>11. \E q \in Peers, k \in Int : queued' = [queued EXCEPT ![q] = k] /\ k <= MaxPerPeer
    OBVIOUS
  <1> QED
    BY <1>1, <1>9, <1>10, <1>11, CountersKept

\* A reader moves to `to' with the channel left alone, `own' of its share taken
\* and the server's budget changed by what it took or gave back.
QuietMove(p, to, own) ==
    /\ to \in ReaderStates /\ reader[p] # "ended" /\ reader' = [reader EXCEPT ![p] = to]
    /\ UNCHANGED <<channel, listening, hand, heard, told>>
    /\ frames' \in [Peers -> 0..MaxFrames] /\ frames[p] <= frames'[p]
    /\ \A q \in Peers : q # p => frames'[q] = frames[q]
    /\ listening => to \notin {"unheard", "freeing", "draining"}
    /\ listening => \A n \in 0..frames[p] : Sent(p, n) => Sent(p, n)'
    /\ own \in Int /\ queued' = [queued EXCEPT ![p] = own] /\ own <= MaxPerPeer
    /\ own - queued[p] = (IF to \in {"charged", "unheard"} THEN 1 ELSE 0)
                          - (IF reader[p] \in {"charged", "unheard"} THEN 1 ELSE 0)
    /\ global' \in Int /\ global' <= MaxQueued
    /\ global' - global = (IF to \in Holding THEN 1 ELSE 0)
                           - (IF reader[p] \in Holding THEN 1 ELSE 0)

LEMMA Quiet ==
    ASSUME InboundAssumption, BudgetInv, NEW p \in Peers, NEW to, NEW own,
           QuietMove(p, to, own)
    PROVE  BudgetInv'
  <1>1. /\ EndsLast' /\ Heard'
        /\ listening' => InOrder'
              /\ \A q \in Peers : reader'[q] \notin {"unheard", "freeing", "draining"}
    BY QuietStep DEF QuietMove
  <1>2. BudgetExact' /\ global' \in 0..MaxQueued /\ queued' \in [Peers -> 0..MaxPerPeer]
    BY QuietCounts DEF QuietMove
  <1>3. TypeOK /\ reader' \in [Peers -> ReaderStates]
    BY Typed DEF BudgetInv, QuietMove
  <1>4. TypeOK'
    BY <1>2, <1>3 DEF TypeOK, QuietMove
  <1> QED
    BY <1>1, <1>2, <1>4 DEF BudgetInv

\* A reader takes its places, gives them back or leaves its loop.
LEMMA ReaderKeeps ==
    ASSUME InboundAssumption, BudgetInv, NEW p \in Peers,
           reserve_global(p) \/ reserve_own(p) \/ give_back(p) \/ drop_unheard(p) \/ freed(p)
             \/ breaks_off(p) \/ (send(p) /\ ~listening) \/ (report_end(p) /\ ~listening)
    PROVE  BudgetInv'
  <1>1. /\ global \in Nat /\ global <= MaxQueued /\ MaxQueued \in Nat
        /\ queued \in [Peers -> 0..MaxPerPeer] /\ MaxPerPeer \in Nat
        /\ reader \in [Peers -> ReaderStates]
        /\ frames \in [Peers -> 0..MaxFrames] /\ MaxFrames \in Nat
    BY Typed
  <1>2. listening => reader[p] \notin {"unheard", "freeing", "draining"}
    BY DEF BudgetInv
  <1>3. queued[p] \in 0..MaxPerPeer /\ frames[p] \in 0..MaxFrames
        /\ queued = [queued EXCEPT ![p] = queued[p]]
    BY <1>1
  <1>4. CASE reserve_global(p)
    <2>1. /\ reader[p] = "reading" /\ frames[p] < MaxFrames
          /\ frames' = [frames EXCEPT ![p] = @ + 1]
          /\ UNCHANGED <<queued, channel, listening, hand, heard, told>>
          /\ \/ global < MaxQueued /\ global' = global + 1 /\ reader' = [reader EXCEPT ![p] = "half"]
             \/ reader' = [reader EXCEPT ![p] = "breached"] /\ global' = global
      BY <1>4 DEF reserve_global, Moves
    <2>2. /\ frames'[p] = frames[p] + 1 /\ frames' \in [Peers -> 0..MaxFrames]
          /\ \A q \in Peers : q # p => frames'[q] = frames[q]
      BY <1>1, <2>1
    <2>3. PICK to \in {"half", "breached"} :
             /\ reader' = [reader EXCEPT ![p] = to]
             /\ global' \in Nat /\ global' <= MaxQueued
             /\ global' = global + IF to = "half" THEN 1 ELSE 0
      BY <1>1, <2>1
    <2>4. to \in ReaderStates /\ reader'[p] = to
      BY <1>1, <2>3 DEF ReaderStates
    <2>5. \A n \in 0..frames[p] : Sent(p, n) => Sent(p, n)'
      BY <1>3, <2>1, <2>2, <2>4 DEF Sent
    <2>6. QuietMove(p, to, queued[p])
      BY <1>1, <1>3, <2>1, <2>2, <2>3, <2>4, <2>5 DEF QuietMove, Holding
    <2> QED
      BY <2>6, Quiet
  <1>5. CASE reserve_own(p)
    <2>1. /\ reader[p] = "half"
          /\ UNCHANGED <<global, channel, frames, listening, hand, heard, told>>
          /\ \/ /\ queued[p] < MaxPerPeer /\ queued' = [queued EXCEPT ![p] = @ + 1]
                /\ reader' = [reader EXCEPT ![p] = "charged"]
             \/ queued' = queued /\ reader' = [reader EXCEPT ![p] = "refused"]
      BY <1>5 DEF reserve_own, Moves
    <2>2. PICK to \in {"charged", "refused"} :
             /\ reader' = [reader EXCEPT ![p] = to]
             /\ to = "charged" => queued[p] < MaxPerPeer
             /\ queued' = [queued EXCEPT ![p] = queued[p] + IF to = "charged" THEN 1 ELSE 0]
      BY <1>1, <1>3, <2>1
    <2>3. to \in ReaderStates /\ reader'[p] = to
      BY <1>1, <2>2 DEF ReaderStates
    <2>4. \A n \in 0..frames[p] : Sent(p, n) => Sent(p, n)'
      BY <2>1, <2>3 DEF Sent
    <2> DEFINE own == queued[p] + IF to = "charged" THEN 1 ELSE 0
    <2>5. /\ own \in Int /\ own <= MaxPerPeer
          /\ own - queued[p] = (IF to \in {"charged", "unheard"} THEN 1 ELSE 0)
                                - (IF reader[p] \in {"charged", "unheard"} THEN 1 ELSE 0)
          /\ global' \in Int /\ global' <= MaxQueued
          /\ global' - global = (IF to \in Holding THEN 1 ELSE 0)
                                 - (IF reader[p] \in Holding THEN 1 ELSE 0)
      BY <1>1, <1>3, <2>1, <2>2 DEF Holding
    <2>6. queued' = [queued EXCEPT ![p] = own]
      BY <2>2
    <2> HIDE DEF own
    <2>7. /\ reader' = [reader EXCEPT ![p] = to] /\ reader[p] # "ended"
          /\ to \notin {"unheard", "freeing", "draining"}
          /\ UNCHANGED <<channel, frames, listening, hand, heard, told>>
          /\ frames' \in [Peers -> 0..MaxFrames] /\ frames[p] <= frames'[p]
      BY <1>1, <1>3, <2>1, <2>2
    <2>8. QuietMove(p, to, own)
      BY <2>3, <2>4, <2>5, <2>6, <2>7 DEF QuietMove
    <2> QED
      BY <2>8, Quiet
  <1>6. CASE give_back(p)
    <2>1. /\ reader[p] = "refused" /\ reader' = [reader EXCEPT ![p] = "breached"]
          /\ global' = global - 1
          /\ UNCHANGED <<queued, channel, frames, listening, hand, heard, told>>
      BY <1>6 DEF give_back, Moves
    <2>2. "breached" \in ReaderStates /\ reader'[p] = "breached"
      BY <1>1, <2>1 DEF ReaderStates
    <2>3. \A n \in 0..frames[p] : Sent(p, n) => Sent(p, n)'
      BY <2>1, <2>2 DEF Sent
    <2>4. QuietMove(p, "breached", queued[p])
      BY <1>1, <1>3, <2>1, <2>2, <2>3 DEF QuietMove, Holding
    <2> QED
      BY <2>4, Quiet
  <1>7. CASE drop_unheard(p)
    <2>1. /\ reader[p] = "unheard" /\ reader' = [reader EXCEPT ![p] = "freeing"]
          /\ queued' = [queued EXCEPT ![p] = queued[p] - 1] /\ ~listening
          /\ UNCHANGED <<global, channel, frames, listening, hand, heard, told>>
      BY <1>2, <1>7 DEF drop_unheard, Moves
    <2>2. "freeing" \in ReaderStates
      BY DEF ReaderStates
    <2>3. QuietMove(p, "freeing", queued[p] - 1)
      BY <1>1, <1>3, <2>1, <2>2 DEF QuietMove, Holding
    <2> QED
      BY <2>3, Quiet
  <1>8. CASE freed(p)
    <2>1. /\ reader[p] = "freeing" /\ reader' = [reader EXCEPT ![p] = "draining"]
          /\ global' = global - 1 /\ ~listening
          /\ UNCHANGED <<queued, channel, frames, listening, hand, heard, told>>
      BY <1>2, <1>8 DEF freed, Moves
    <2>2. "draining" \in ReaderStates
      BY DEF ReaderStates
    <2>3. QuietMove(p, "draining", queued[p])
      BY <1>1, <1>3, <2>1, <2>2 DEF QuietMove, Holding
    <2> QED
      BY <2>3, Quiet
  <1>9. CASE breaks_off(p)
    <2>1. UNCHANGED <<global, queued, channel, frames, listening, hand, heard, told>>
      BY <1>9 DEF breaks_off
    <2>2. PICK to \in {"breached", "gone", "ended"} :
             /\ reader' = [reader EXCEPT ![p] = to]
             /\ reader[p] = "reading" \/ (reader[p] = "draining" /\ ~listening)
      BY <1>2, <1>9 DEF breaks_off, Moves
    <2>3. to \in ReaderStates /\ reader'[p] = to
      BY <1>1, <2>2 DEF ReaderStates
    <2>4. listening => \A n \in 0..frames[p] : Sent(p, n) => Sent(p, n)'
      BY <2>1, <2>2, <2>3 DEF Sent
    <2>5. QuietMove(p, to, queued[p])
      BY <1>1, <1>3, <2>1, <2>2, <2>3, <2>4 DEF QuietMove, Holding
    <2> QED
      BY <2>5, Quiet
  <1>10. CASE send(p) /\ ~listening
    <2>1. /\ reader[p] = "charged" /\ reader' = [reader EXCEPT ![p] = "unheard"]
          /\ UNCHANGED <<global, queued, channel, frames, listening, hand, heard, told>>
      BY <1>10 DEF send, Moves
    <2>2. "unheard" \in ReaderStates
      BY DEF ReaderStates
    <2>3. QuietMove(p, "unheard", queued[p])
      BY <1>1, <1>3, <1>10, <2>1, <2>2 DEF QuietMove, Holding
    <2> QED
      BY <2>3, Quiet
  <1>11. CASE report_end(p) /\ ~listening
    <2>1. /\ reader[p] \in {"breached", "gone"} /\ reader' = [reader EXCEPT ![p] = "ended"]
          /\ UNCHANGED <<global, queued, channel, frames, listening, hand, heard, told>>
      BY <1>11 DEF report_end
    <2>2. "ended" \in ReaderStates
      BY DEF ReaderStates
    <2>3. QuietMove(p, "ended", queued[p])
      BY <1>1, <1>3, <1>11, <2>1, <2>2 DEF QuietMove, Holding
    <2> QED
      BY <2>3, Quiet
  <1> QED
    BY <1>4, <1>5, <1>6, <1>7, <1>8, <1>9, <1>10, <1>11

-----------------------------------------------------------------------------
(* What goes into the channel. *)

\* A message of p, or its end, behind all the others.
LEMMA Appended ==
    ASSUME InboundAssumption, BudgetInv, NEW e \in Event, channel' = Append(channel, e)
    PROVE  /\ channel' \in Seq(Event) /\ Len(channel) \in Nat
           /\ channel'[Len(channel) + 1] = e
           /\ \A i \in 1..Len(channel) : channel'[i] = channel[i]
           /\ \A q : InFlight({q}) \subseteq 1..Len(channel) /\ EndsIn({q}) \subseteq 1..Len(channel)
           /\ \A q : InFlight({q})' = IF e.kind = "msg" /\ e.peer = q
                                      THEN InFlight({q}) \cup {Len(channel) + 1} ELSE InFlight({q})
           /\ \A q : EndsIn({q})' = IF e.kind = "end" /\ e.peer = q
                                    THEN EndsIn({q}) \cup {Len(channel) + 1} ELSE EndsIn({q})
           /\ \A q : Cardinality(InFlight({q})') =
                        IF e.kind = "msg" /\ e.peer = q
                        THEN Cardinality(InFlight({q})) + 1 ELSE Cardinality(InFlight({q}))
           /\ Cardinality(InFlight(Peers)') =
                        IF e.kind = "msg" THEN Cardinality(InFlight(Peers)) + 1
                                          ELSE Cardinality(InFlight(Peers))
  <1>1. channel \in Seq(Event) /\ \A ps : Cardinality(InFlight(ps)) \in Nat
    BY Typed
  <1>2. /\ channel' \in Seq(Event) /\ Len(channel) \in Nat
        /\ channel'[Len(channel) + 1] = e
        /\ \A i \in 1..Len(channel) : channel'[i] = channel[i]
    BY <1>1
  <1>3. \A ps : InFlight(ps) = At(channel, Msgs(ps)) /\ EndsIn(ps) = At(channel, Ends(ps))
    BY InFlightAt
  <1>4. /\ InFlight(Peers)' = At(channel', Msgs(Peers))
        /\ \A q : InFlight({q})' = At(channel', Msgs({q})) /\ EndsIn({q})' = At(channel', Ends({q}))
    BY DEF InFlight, EndsIn, At, Msgs, Ends
  <1>5. e.peer \in Peers
    BY EventSort
  <1>6. \A q : /\ e \in Msgs({q}) <=> e.kind = "msg" /\ e.peer = q
               /\ e \in Ends({q}) <=> e.kind = "end" /\ e.peer = q
    BY EventSort
  <1>7. e \in Msgs(Peers) <=> e.kind = "msg"
    BY <1>5, EventSort
  <1>8. \A q : InFlight({q}) \subseteq 1..Len(channel) /\ EndsIn({q}) \subseteq 1..Len(channel)
    BY <1>1, <1>3, AtFinite
  <1>9. \A S : /\ At(channel', S) = IF e \in S THEN At(channel, S) \cup {Len(channel) + 1}
                                               ELSE At(channel, S)
               /\ Cardinality(At(channel', S)) =
                     IF e \in S THEN Cardinality(At(channel, S)) + 1 ELSE Cardinality(At(channel, S))
    BY <1>1, AtAppend
  <1>10. \A q : InFlight({q})' = IF e.kind = "msg" /\ e.peer = q
                                 THEN InFlight({q}) \cup {Len(channel) + 1} ELSE InFlight({q})
    BY <1>3, <1>4, <1>6, <1>9
  <1>11. \A q : EndsIn({q})' = IF e.kind = "end" /\ e.peer = q
                               THEN EndsIn({q}) \cup {Len(channel) + 1} ELSE EndsIn({q})
    BY <1>3, <1>4, <1>6, <1>9
  <1>12. \A q : Cardinality(InFlight({q})') =
                   IF e.kind = "msg" /\ e.peer = q
                   THEN Cardinality(InFlight({q})) + 1 ELSE Cardinality(InFlight({q}))
    BY <1>3, <1>4, <1>6, <1>9
  <1>13. Cardinality(InFlight(Peers)') =
            IF e.kind = "msg" THEN Cardinality(InFlight(Peers)) + 1
                              ELSE Cardinality(InFlight(Peers))
    BY <1>3, <1>4, <1>7, <1>9
  <1> QED
    BY <1>2, <1>8, <1>10, <1>11, <1>12, <1>13

LEMMA SendKeeps ==
    ASSUME InboundAssumption, BudgetInv, NEW p \in Peers, send(p), listening
    PROVE  BudgetInv'
  <1> DEFINE e == [kind |-> "msg", peer |-> p, no |-> frames[p]]
             top == Len(channel) + 1
  <1>1. /\ reader[p] = "charged" /\ reader' = [reader EXCEPT ![p] = "reading"]
        /\ channel' = Append(channel, e)
        /\ UNCHANGED <<global, queued, frames, listening, hand, heard, told>>
    BY DEF send, Moves
  <1>2. /\ reader \in [Peers -> ReaderStates] /\ frames \in [Peers -> 0..MaxFrames]
        /\ MaxFrames \in Nat /\ IsFiniteSet(Peers) /\ global \in Nat /\ Len(hand) \in {0, 1}
        /\ queued \in [Peers -> 0..MaxPerPeer] /\ channel \in Seq(Event)
        /\ EndsLast /\ Heard /\ Cardinality(Charging) \in Nat
        /\ \A ps : Cardinality(InFlight(ps)) \in Nat
        /\ \A q \in Peers : queued[q] = OwnPlaces(q)
        /\ global = Cardinality(InFlight(Peers)) + Cardinality(Charging) + Len(hand)
    BY Typed
  <1>3. /\ InOrder /\ TypeOK
        /\ \A q \in Peers : reader[q] \notin {"unheard", "freeing", "draining"}
    BY DEF BudgetInv
  <1>4. frames[p] \in 0..MaxFrames /\ e \in Event
    BY <1>2 DEF Event
  <1>5. e.kind = "msg" /\ e.peer = p /\ e.no = frames[p]
    OBVIOUS
  <1> HIDE DEF e
  <1>6. /\ channel' \in Seq(Event) /\ Len(channel) \in Nat
        /\ channel'[top] = e
        /\ \A i \in 1..Len(channel) : channel'[i] = channel[i]
        /\ \A q : InFlight({q}) \subseteq 1..Len(channel) /\ EndsIn({q}) \subseteq 1..Len(channel)
        /\ \A q : InFlight({q})' = IF p = q THEN InFlight({q}) \cup {top} ELSE InFlight({q})
        /\ \A q : EndsIn({q})' = EndsIn({q})
        /\ \A q : Cardinality(InFlight({q})') =
                     IF p = q THEN Cardinality(InFlight({q})) + 1 ELSE Cardinality(InFlight({q}))
        /\ Cardinality(InFlight(Peers)') = Cardinality(InFlight(Peers)) + 1
    BY <1>1, <1>4, <1>5, Appended
  <1>7. reader'[p] = "reading" /\ \A q \in Peers : q # p => reader'[q] = reader[q]
    BY <1>1, <1>2
  <1>8. reader' \in [Peers -> ReaderStates]
    BY <1>1, <1>2 DEF ReaderStates
  <1>9. EndsIn({p}) = {} /\ p \notin told
    BY <1>1, <1>2 DEF EndsLast, Heard
  <1>10. BudgetExact'
    <2>1. Cardinality(Charging') = Cardinality(Charging) - 1
      <3>1. "charged" \in Holding /\ "reading" \notin Holding
        BY DEF Holding
      <3> QED
        BY <1>1, <1>2, <3>1, ChargingMoves
    <2>2. global' = Cardinality(InFlight(Peers)') + Cardinality(Charging') + Len(hand')
      BY <1>1, <1>2, <1>6, <2>1
    <2>3. ASSUME NEW q \in Peers PROVE queued'[q] = OwnPlaces(q)'
      <3>1. CASE q = p
        <4>1. queued[p] = Cardinality(InFlight({p})) + 1 /\ Cardinality(InFlight({p})) \in Nat
          BY <1>1, <1>2 DEF OwnPlaces
        <4>2. OwnPlaces(p)' = Cardinality(InFlight({p})') + 0
          BY <1>7 DEF OwnPlaces
        <4>3. Cardinality(InFlight({p})') = Cardinality(InFlight({p})) + 1
          BY <1>6
        <4>4. queued[p] = OwnPlaces(p)'
          BY <4>1, <4>2, <4>3
        <4> QED
          BY <1>1, <3>1, <4>4
      <3>2. CASE q # p
        <4>1. OwnPlaces(q)' = OwnPlaces(q)
          BY <1>6, <1>7, <3>2 DEF OwnPlaces
        <4> QED
          BY <1>1, <1>2, <4>1
      <3> QED
        BY <3>1, <3>2
    <2> QED
      BY <2>2, <2>3 DEF BudgetExact
  <1>11. EndsLast'
    <2> SUFFICES ASSUME NEW q \in Peers
                 PROVE  /\ \A i, j \in EndsIn({q}) : i = j
                        /\ EndsIn({q}) # {} => reader'[q] = "ended"
                        /\ \A i \in EndsIn({q}), k \in InFlight({q})' : k < i
      BY <1>6 DEF EndsLast
    <2>1. CASE q = p
      BY <1>9, <2>1
    <2>2. CASE q # p
      <3>1. InFlight({q})' = InFlight({q}) /\ reader'[q] = reader[q]
        BY <1>6, <1>7, <2>2
      <3>2. /\ \A i, j \in EndsIn({q}) : i = j
            /\ EndsIn({q}) # {} => reader[q] = "ended"
            /\ \A i \in EndsIn({q}), k \in InFlight({q}) : k < i
        BY <1>2 DEF EndsLast
      <3> QED
        BY <3>1, <3>2
    <2> QED
      BY <2>1, <2>2
  <1>12. Heard'
    <2> SUFFICES ASSUME NEW q \in Peers
                 PROVE  /\ \A n \in DOMAIN heard[q] : heard[q][n] = n
                        /\ q \in told => /\ reader'[q] = "ended" /\ InFlight({q})' = {}
                                         /\ frames[q] - Len(heard[q]) \in {0, 1}
      BY <1>1 DEF Heard
    <2>1. CASE q = p
      BY <1>2, <1>9, <2>1 DEF Heard
    <2>2. CASE q # p
      BY <1>2, <1>6, <1>7, <2>2 DEF Heard
    <2> QED
      BY <2>1, <2>2
  <1>13. InOrder'
    <2> SUFFICES ASSUME NEW q \in Peers
                 PROVE  \E n \in 0..frames[q] :
                           /\ Sent(q, n)' /\ Len(heard[q]) <= n
                           /\ Numbered(channel', InFlight({q})', Len(heard[q]), n)
      BY <1>1 DEF InOrder
    <2>1. PICK n \in 0..frames[q] :
              /\ Sent(q, n) /\ Len(heard[q]) <= n
              /\ Numbered(channel, InFlight({q}), Len(heard[q]), n)
      BY <1>3 DEF InOrder
    <2>2. n \in Nat /\ Len(heard[q]) \in Nat
      <3>1. heard[q] \in Seq(1..MaxFrames) /\ frames[q] \in Nat
        BY <1>3 DEF TypeOK
      <3> QED
        BY <3>1
    <2> DEFINE I == InFlight({q})
               h == Len(heard[q])
    <2>3. I \subseteq 1..Len(channel)
      BY <1>6
    <2>4. CASE q # p
      <3>1. Sent(q, n)'
        BY <1>1, <1>7, <2>1, <2>4 DEF Sent
      <3>2. InFlight({q})' = I
        BY <1>6, <2>4
      <3>3. \A i \in I : channel'[i] = channel[i]
        BY <1>6, <2>3
      <3> HIDE DEF I
      <3>4. Numbered(channel', I, h, n)
        BY <2>1, <3>3 DEF Numbered, I
      <3> QED
        BY <2>1, <3>1, <3>2, <3>4
    <2>5. CASE q = p
      <3>1. n + 1 = frames[p]
        BY <1>1, <2>1, <2>5 DEF Sent
      <3>2. Sent(p, n + 1)'
        BY <1>1, <1>7, <3>1 DEF Sent
      <3>3. InFlight({q})' = I \cup {top}
        BY <1>6, <2>5
      <3> HIDE DEF I, h
      <3>4. Numbered(channel, I, h, n) /\ h <= n /\ h \in Nat
        BY <2>1, <2>2 DEF I, h
      <3>5. Numbered(Append(channel, e), I \cup {top}, h, n + 1)
        BY <1>2, <1>4, <1>5, <2>2, <2>3, <3>1, <3>4, NumberedMore
      <3>6. n + 1 \in 0..frames[q] /\ h <= n + 1
        BY <1>4, <2>2, <2>5, <3>1, <3>4
      <3> QED
        BY <1>1, <2>5, <3>2, <3>3, <3>5, <3>6 DEF h
    <2> QED
      BY <2>4, <2>5
  <1>14. \A q \in Peers : reader'[q] \notin {"unheard", "freeing", "draining"}
    BY <1>3, <1>7
  <1>15. TypeOK'
    BY <1>1, <1>3, <1>6, <1>8 DEF TypeOK
  <1> QED
    BY <1>10, <1>11, <1>12, <1>13, <1>14, <1>15 DEF BudgetInv

LEMMA EndKeeps ==
    ASSUME InboundAssumption, BudgetInv, NEW p \in Peers, report_end(p), listening
    PROVE  BudgetInv'
  <1> DEFINE e == [kind |-> "end", peer |-> p, no |-> 0]
             top == Len(channel) + 1
  <1>1. /\ reader[p] \in {"breached", "gone"} /\ reader' = [reader EXCEPT ![p] = "ended"]
        /\ channel' = Append(channel, e)
        /\ UNCHANGED <<global, queued, frames, listening, hand, heard, told>>
    BY DEF report_end
  <1>2. /\ reader \in [Peers -> ReaderStates] /\ frames \in [Peers -> 0..MaxFrames]
        /\ MaxFrames \in Nat /\ IsFiniteSet(Peers) /\ EndsLast /\ Heard
        /\ \A q \in Peers : queued[q] = OwnPlaces(q)
        /\ global = Cardinality(InFlight(Peers)) + Cardinality(Charging) + Len(hand)
    BY Typed
  <1>3. /\ InOrder /\ TypeOK
        /\ \A q \in Peers : reader[q] \notin {"unheard", "freeing", "draining"}
    BY DEF BudgetInv
  <1>4. e \in Event
    BY <1>2 DEF Event
  <1>5. e.kind = "end" /\ e.peer = p
    OBVIOUS
  <1> HIDE DEF e
  <1>6. /\ channel' \in Seq(Event) /\ Len(channel) \in Nat
        /\ \A i \in 1..Len(channel) : channel'[i] = channel[i]
        /\ \A q : InFlight({q}) \subseteq 1..Len(channel) /\ EndsIn({q}) \subseteq 1..Len(channel)
        /\ \A q : InFlight({q})' = InFlight({q})
        /\ \A q : EndsIn({q})' = IF p = q THEN EndsIn({q}) \cup {top} ELSE EndsIn({q})
        /\ Cardinality(InFlight(Peers)') = Cardinality(InFlight(Peers))
    BY <1>1, <1>4, <1>5, Appended
  <1>7. reader'[p] = "ended" /\ \A q \in Peers : q # p => reader'[q] = reader[q]
    BY <1>1, <1>2
  <1>8. reader' \in [Peers -> ReaderStates]
    BY <1>1, <1>2 DEF ReaderStates
  <1>9. EndsIn({p}) = {} /\ p \notin told
    BY <1>1, <1>2 DEF EndsLast, Heard
  <1>10. BudgetExact'
    <2>1. Cardinality(Charging') = Cardinality(Charging)
      <3>1. {"breached", "gone", "ended"} \cap Holding = {}
        BY DEF Holding
      <3> QED
        BY <1>1, <1>2, <3>1, ChargingMoves
    <2>2. global' = Cardinality(InFlight(Peers)') + Cardinality(Charging') + Len(hand')
      BY <1>1, <1>2, <1>6, <2>1
    <2>3. ASSUME NEW q \in Peers PROVE queued'[q] = OwnPlaces(q)'
      <3>1. reader'[q] \in {"charged", "unheard"} <=> reader[q] \in {"charged", "unheard"}
        BY <1>1, <1>7
      <3>2. OwnPlaces(q)' = OwnPlaces(q)
        BY <1>6, <3>1 DEF OwnPlaces
      <3> QED
        BY <1>1, <1>2, <3>2
    <2> QED
      BY <2>2, <2>3 DEF BudgetExact
  <1>11. EndsLast'
    <2> SUFFICES ASSUME NEW q \in Peers
                 PROVE  /\ \A i, j \in EndsIn({q})' : i = j
                        /\ EndsIn({q})' # {} => reader'[q] = "ended"
                        /\ \A i \in EndsIn({q})', k \in InFlight({q})' : k < i
      BY DEF EndsLast
    <2>1. CASE q = p
      <3>1. EndsIn({q})' = {top} /\ InFlight({q})' \subseteq 1..Len(channel)
        BY <1>6, <1>9, <2>1
      <3>2. \A k \in InFlight({q})' : k < top
        BY <1>6, <3>1
      <3> QED
        BY <1>7, <2>1, <3>1, <3>2
    <2>2. CASE q # p
      <3>1. EndsIn({q})' = EndsIn({q}) /\ InFlight({q})' = InFlight({q}) /\ reader'[q] = reader[q]
        BY <1>6, <1>7, <2>2
      <3> QED
        BY <1>2, <3>1 DEF EndsLast
    <2> QED
      BY <2>1, <2>2
  <1>12. Heard'
    <2>1. UNCHANGED <<heard, told, frames>> /\ p \notin told
      BY <1>1, <1>2 DEF Heard
    <2>2. \A q \in told : q # p /\ (q \in Peers => reader'[q] = reader[q] /\ InFlight({q})' = InFlight({q}))
      BY <1>6, <1>7, <2>1
    <2> QED
      BY <1>2, <2>1, <2>2 DEF Heard
  <1>13. InOrder'
    <2> SUFFICES ASSUME NEW q \in Peers
                 PROVE  \E n \in 0..frames[q] :
                           /\ Sent(q, n)' /\ Len(heard[q]) <= n
                           /\ Numbered(channel', InFlight({q})', Len(heard[q]), n)
      BY <1>1 DEF InOrder
    <2>1. PICK n \in 0..frames[q] :
              /\ Sent(q, n) /\ Len(heard[q]) <= n
              /\ Numbered(channel, InFlight({q}), Len(heard[q]), n)
      BY <1>3 DEF InOrder
    <2>2. Sent(q, n)'
      BY <1>1, <1>7, <2>1 DEF Sent
    <2> DEFINE I == InFlight({q})
    <2>3. InFlight({q})' = I /\ \A i \in I : channel'[i] = channel[i]
      BY <1>6
    <2> HIDE DEF I
    <2>4. Numbered(channel', I, Len(heard[q]), n)
      BY <2>1, <2>3 DEF Numbered, I
    <2> QED
      BY <2>1, <2>2, <2>3, <2>4
  <1>14. \A q \in Peers : reader'[q] \notin {"unheard", "freeing", "draining"}
    BY <1>3, <1>7
  <1>15. TypeOK'
    BY <1>1, <1>3, <1>6, <1>8 DEF TypeOK
  <1> QED
    BY <1>10, <1>11, <1>12, <1>13, <1>14, <1>15 DEF BudgetInv

-----------------------------------------------------------------------------
(* What is taken out of it. *)

Shifted(I) == {i \in 1..(Len(channel) - 1) : i + 1 \in I}

LEMMA Shortened ==
    ASSUME InboundAssumption, BudgetInv, channel # <<>>, channel' = Tail(channel)
    PROVE  LET e == Head(channel)
           IN  /\ channel' \in Seq(Event) /\ e \in Event /\ e = channel[1]
               /\ Len(channel) \in Nat \ {0}
               /\ \A q : InFlight({q}) \subseteq 1..Len(channel)
               /\ \A q : InFlight({q})' = Shifted(InFlight({q})) /\ EndsIn({q})' = Shifted(EndsIn({q}))
               /\ \A q : /\ 1 \in InFlight({q}) <=> e.kind = "msg" /\ e.peer = q
                         /\ 1 \in EndsIn({q}) <=> e.kind = "end" /\ e.peer = q
               /\ \A q : Cardinality(InFlight({q})') =
                            IF e.kind = "msg" /\ e.peer = q
                            THEN Cardinality(InFlight({q})) - 1 ELSE Cardinality(InFlight({q}))
               /\ Cardinality(InFlight(Peers)') =
                            IF e.kind = "msg" THEN Cardinality(InFlight(Peers)) - 1
                                              ELSE Cardinality(InFlight(Peers))
  <1> DEFINE e == Head(channel)
  <1>1. channel \in Seq(Event)
    BY Typed
  <1>2. channel' \in Seq(Event) /\ e \in Event /\ e = channel[1] /\ Len(channel) \in Nat \ {0}
    BY <1>1
  <1>3. \A ps : InFlight(ps) = At(channel, Msgs(ps)) /\ EndsIn(ps) = At(channel, Ends(ps))
    BY InFlightAt
  <1>4. /\ InFlight(Peers)' = At(channel', Msgs(Peers))
        /\ \A q : InFlight({q})' = At(channel', Msgs({q})) /\ EndsIn({q})' = At(channel', Ends({q}))
    BY DEF InFlight, EndsIn, At, Msgs, Ends
  <1>5. \A S : /\ At(channel', S) = Shifted(At(channel, S))
               /\ 1 \in At(channel, S) <=> e \in S
               /\ Cardinality(At(channel', S)) =
                     IF e \in S THEN Cardinality(At(channel, S)) - 1 ELSE Cardinality(At(channel, S))
    BY <1>1, AtTail DEF Shifted
  <1> HIDE DEF e
  <1>6. e.peer \in Peers
    BY <1>2, EventSort
  <1>7. \A q : /\ e \in Msgs({q}) <=> e.kind = "msg" /\ e.peer = q
               /\ e \in Ends({q}) <=> e.kind = "end" /\ e.peer = q
    BY <1>2, EventSort
  <1>8. e \in Msgs(Peers) <=> e.kind = "msg"
    BY <1>2, <1>6, EventSort
  <1>9. \A q : InFlight({q}) \subseteq 1..Len(channel)
    BY <1>1, <1>3, AtFinite
  <1>10. \A q : InFlight({q})' = Shifted(InFlight({q})) /\ EndsIn({q})' = Shifted(EndsIn({q}))
    BY <1>3, <1>4, <1>5
  <1>11. \A q : /\ 1 \in InFlight({q}) <=> e.kind = "msg" /\ e.peer = q
                /\ 1 \in EndsIn({q}) <=> e.kind = "end" /\ e.peer = q
    BY <1>3, <1>5, <1>7
  <1>12. \A q : Cardinality(InFlight({q})') =
                   IF e.kind = "msg" /\ e.peer = q
                   THEN Cardinality(InFlight({q})) - 1 ELSE Cardinality(InFlight({q}))
    BY <1>3, <1>4, <1>5, <1>7
  <1>13. Cardinality(InFlight(Peers)') =
            IF e.kind = "msg" THEN Cardinality(InFlight(Peers)) - 1
                              ELSE Cardinality(InFlight(Peers))
    BY <1>3, <1>4, <1>5, <1>8
  <1> QED
    BY <1>2, <1>9, <1>10, <1>11, <1>12, <1>13 DEF e

\* The counters and the ends, once an event is taken out.
LEMMA TakenOut ==
    ASSUME InboundAssumption, BudgetInv, channel # <<>>, channel' = Tail(channel),
           hand = <<>>, UNCHANGED <<global, reader>>,
           IF Head(channel).kind = "msg"
           THEN /\ queued' = [queued EXCEPT ![Head(channel).peer] = @ - 1]
                /\ hand' = <<Head(channel).peer>>
           ELSE UNCHANGED <<queued, hand>>
    PROVE  /\ BudgetExact' /\ EndsLast'
           /\ global' \in 0..MaxQueued /\ queued' \in [Peers -> 0..MaxPerPeer]
           /\ hand' \in {<<>>} \cup {<<p>> : p \in Peers}
  <1> DEFINE e == Head(channel)
  <1>1. /\ global \in Nat /\ global <= MaxQueued /\ Cardinality(Charging) \in Nat
        /\ \A ps : Cardinality(InFlight(ps)) \in Nat
        /\ \A q \in Peers : queued[q] = OwnPlaces(q)
        /\ global = Cardinality(InFlight(Peers)) + Cardinality(Charging) + Len(hand)
        /\ queued \in [Peers -> 0..MaxPerPeer] /\ MaxPerPeer \in Nat /\ IsFiniteSet(Peers)
        /\ EndsLast
    BY Typed
  <1>2. /\ channel' \in Seq(Event) /\ e \in Event /\ Len(channel) \in Nat \ {0}
        /\ \A q : InFlight({q})' = Shifted(InFlight({q})) /\ EndsIn({q})' = Shifted(EndsIn({q}))
        /\ \A q : Cardinality(InFlight({q})') =
                     IF e.kind = "msg" /\ e.peer = q
                     THEN Cardinality(InFlight({q})) - 1 ELSE Cardinality(InFlight({q}))
        /\ Cardinality(InFlight(Peers)') =
                     IF e.kind = "msg" THEN Cardinality(InFlight(Peers)) - 1
                                       ELSE Cardinality(InFlight(Peers))
    BY Shortened
  <1>3. /\ e.kind = "msg" => queued' = [queued EXCEPT ![e.peer] = @ - 1] /\ hand' = <<e.peer>>
        /\ e.kind # "msg" => UNCHANGED <<queued, hand>>
    OBVIOUS
  <1> HIDE DEF e
  <1>4. e.peer \in Peers
    BY <1>2, EventSort
  <1>5. Charging' = Charging
    BY DEF Charging
  <1>6. Len(hand) = 0 /\ (e.kind = "msg" => Len(hand') = 1) /\ (e.kind # "msg" => Len(hand') = 0)
    BY <1>3
  <1>7. global' = Cardinality(InFlight(Peers)') + Cardinality(Charging') + Len(hand')
    <2> DEFINE k == Cardinality(InFlight(Peers))
               kk == Cardinality(InFlight(Peers)')
    <2>1. k \in Nat /\ kk = IF e.kind = "msg" THEN k - 1 ELSE k
      BY <1>1, <1>2
    <2>2. global = k + Cardinality(Charging) + Len(hand)
      BY <1>1
    <2> DEFINE c == Cardinality(Charging)
               m == Len(hand')
    <2>3. Len(hand) = 0 /\ ((e.kind = "msg" /\ m = 1) \/ (e.kind # "msg" /\ m = 0))
      BY <1>6
    <2>4. global = k + c + 0 /\ global' = global /\ c \in Nat
      BY <1>1, <2>2, <2>3
    <2> HIDE DEF k, kk, c, m
    <2>5. global' = kk + c + m
      BY <2>1, <2>3, <2>4
    <2> QED
      BY <1>5, <2>5 DEF kk, c, m
  <1>8. ASSUME NEW q \in Peers PROVE queued'[q] = OwnPlaces(q)'
    <2> DEFINE k == Cardinality(InFlight({q}))
               kk == Cardinality(InFlight({q})')
               own == IF reader[q] \in {"charged", "unheard"} THEN 1 ELSE 0
    <2>1. queued[q] = k + own /\ k \in Nat /\ OwnPlaces(q)' = kk + own
      BY <1>1 DEF OwnPlaces
    <2>2. kk = IF e.kind = "msg" /\ e.peer = q THEN k - 1 ELSE k
      BY <1>2
    <2>3. own \in {0, 1}
      OBVIOUS
    <2> HIDE DEF k, kk, own
    <2>4. CASE e.kind = "msg" /\ e.peer = q
      <3>1. queued'[q] = queued[q] - 1
        BY <1>1, <1>3, <2>4
      <3> QED
        BY <2>1, <2>2, <2>3, <2>4, <3>1
    <2>5. CASE ~(e.kind = "msg" /\ e.peer = q)
      <3>1. queued'[q] = queued[q]
        BY <1>1, <1>3, <1>4, <2>5
      <3> QED
        BY <2>1, <2>2, <2>5, <3>1
    <2> QED
      BY <2>4, <2>5
  <1>9. BudgetExact'
    BY <1>7, <1>8 DEF BudgetExact
  <1>10. global' \in 0..MaxQueued /\ queued' \in [Peers -> 0..MaxPerPeer]
    <2>1. Len(hand') \in Nat /\ global' \in Int /\ global' <= MaxQueued
      BY <1>1, <1>6
    <2>2. queued' = queued \/ \E p \in Peers, k \in Int :
             queued' = [queued EXCEPT ![p] = k] /\ k <= MaxPerPeer
      <3>1. queued[e.peer] - 1 \in Int /\ queued[e.peer] - 1 <= MaxPerPeer
        BY <1>1, <1>4
      <3> QED
        BY <1>3, <1>4, <3>1
    <2> QED
      BY <1>1, <1>2, <1>9, <2>1, <2>2, CountersKept
  <1>11. EndsLast'
    <2> SUFFICES ASSUME NEW q \in Peers
                 PROVE  /\ \A i, j \in Shifted(EndsIn({q})) : i = j
                        /\ Shifted(EndsIn({q})) # {} => reader[q] = "ended"
                        /\ \A i \in Shifted(EndsIn({q})), k \in Shifted(InFlight({q})) : k < i
      BY <1>2 DEF EndsLast
    <2> DEFINE E == EndsIn({q})
               I == InFlight({q})
    <2>1. /\ \A i, j \in E : i = j
          /\ E # {} => reader[q] = "ended"
          /\ \A i \in E, k \in I : k < i
      BY <1>1 DEF EndsLast
    <2> HIDE DEF E, I
    <2>2. \A i \in Shifted(E) : i \in Nat /\ i + 1 \in E
      BY DEF Shifted
    <2>3. \A i \in Shifted(I) : i \in Nat /\ i + 1 \in I
      BY DEF Shifted
    <2>4. \A i, j \in Shifted(E) : i = j
      BY <2>1, <2>2
    <2>5. \A i \in Shifted(E), k \in Shifted(I) : k < i
      <3> TAKE i \in Shifted(E), k \in Shifted(I)
      <3>1. k + 1 < i + 1 /\ i \in Nat /\ k \in Nat
        BY <2>1, <2>2, <2>3
      <3> QED
        BY <3>1
    <2> QED
      BY <2>1, <2>2, <2>4, <2>5 DEF E, I
  <1>12. hand' \in {<<>>} \cup {<<p>> : p \in Peers}
    BY <1>3, <1>4
  <1> QED
    BY <1>9, <1>10, <1>11, <1>12

LEMMA DiscardKeeps ==
    ASSUME InboundAssumption, BudgetInv, discard
    PROVE  BudgetInv'
  <1>1. /\ ~listening /\ hand = <<>> /\ channel # <<>> /\ channel' = Tail(channel)
        /\ UNCHANGED <<global, reader, frames, listening, heard, told>>
        /\ IF Head(channel).kind = "msg"
           THEN /\ queued' = [queued EXCEPT ![Head(channel).peer] = @ - 1]
                /\ hand' = <<Head(channel).peer>>
           ELSE UNCHANGED <<queued, hand>>
    BY DEF discard
  <1>2. /\ BudgetExact' /\ EndsLast'
        /\ global' \in 0..MaxQueued /\ queued' \in [Peers -> 0..MaxPerPeer]
        /\ hand' \in {<<>>} \cup {<<p>> : p \in Peers}
    BY <1>1, TakenOut
  <1>3. channel' \in Seq(Event) /\ \A q : InFlight({q})' = Shifted(InFlight({q}))
    BY <1>1, Shortened
  <1>4. TypeOK /\ Heard
    BY DEF BudgetInv
  <1>5. TypeOK'
    BY <1>1, <1>2, <1>3, <1>4 DEF TypeOK
  <1>6. Heard'
    <2>1. \A q \in Peers : InFlight({q}) = {} => InFlight({q})' = {}
      BY <1>3 DEF Shifted
    <2> QED
      BY <1>1, <1>4, <2>1 DEF Heard
  <1> QED
    BY <1>1, <1>2, <1>5, <1>6 DEF BudgetInv

LEMMA ReleaseKeeps ==
    ASSUME InboundAssumption, BudgetInv, release \/ stop_listening
    PROVE  BudgetInv'
  <1>1. UNCHANGED <<queued, channel, reader, frames, heard, told>>
    BY DEF release, stop_listening
  <1>2. /\ global \in Nat /\ global <= MaxQueued /\ MaxQueued \in Nat
        /\ Cardinality(Charging) \in Nat
        /\ Len(hand) \in {0, 1} /\ (hand = <<>> <=> Len(hand) = 0)
        /\ Cardinality(InFlight(Peers)) \in Nat
        /\ global = Cardinality(InFlight(Peers)) + Cardinality(Charging) + Len(hand)
        /\ \A p \in Peers : queued[p] = OwnPlaces(p)
    BY Typed
  <1>3. /\ \A q : InFlight({q})' = InFlight({q}) /\ EndsIn({q})' = EndsIn({q})
        /\ InFlight(Peers)' = InFlight(Peers) /\ Charging' = Charging
    BY <1>1 DEF InFlight, EndsIn, Charging
  <1>4. TypeOK /\ EndsLast /\ Heard
    BY DEF BudgetInv
  <1>5. EndsLast' /\ Heard'
    BY <1>1, <1>3, <1>4 DEF EndsLast, Heard
  <1>6. \A p \in Peers : queued'[p] = OwnPlaces(p)'
    BY <1>1, <1>2, <1>3 DEF OwnPlaces
  <1>7. CASE release
    <2>1. hand # <<>> /\ hand' = <<>> /\ global' = global - 1 /\ listening' = listening
      BY <1>7 DEF release
    <2>2. Len(hand) = 1 /\ Len(hand') = 0
      BY <1>2, <2>1
    <2>3. /\ global' \in 0..MaxQueued
          /\ global' = Cardinality(InFlight(Peers)') + Cardinality(Charging') + Len(hand')
      BY <1>2, <1>3, <2>1, <2>2
    <2>4. BudgetExact'
      BY <1>6, <2>3 DEF BudgetExact
    <2>5. TypeOK'
      BY <1>1, <1>4, <2>1, <2>3 DEF TypeOK
    <2>6. listening' => InOrder'
             /\ \A p \in Peers : reader'[p] \notin {"unheard", "freeing", "draining"}
      <3>1. listening => InOrder
               /\ \A p \in Peers : reader[p] \notin {"unheard", "freeing", "draining"}
        BY DEF BudgetInv
      <3>2. InOrder => InOrder'
        BY <1>1, <1>3 DEF InOrder, Sent
      <3> QED
        BY <1>1, <2>1, <3>1, <3>2
    <2> QED
      BY <1>5, <2>4, <2>5, <2>6 DEF BudgetInv
  <1>8. CASE stop_listening
    <2>1. UNCHANGED <<global, hand>> /\ listening' = FALSE
      BY <1>8 DEF stop_listening
    <2>2. BudgetExact'
      BY <1>2, <1>3, <1>6, <2>1 DEF BudgetExact
    <2>3. TypeOK'
      BY <1>1, <1>4, <2>1 DEF TypeOK
    <2> QED
      BY <1>5, <2>1, <2>2, <2>3 DEF BudgetInv
  <1> QED
    BY <1>7, <1>8

LEMMA ReceiveKeeps ==
    ASSUME InboundAssumption, BudgetInv, receive
    PROVE  BudgetInv'
  <1> DEFINE e == Head(channel)
  <1>1. /\ listening /\ hand = <<>> /\ channel # <<>> /\ channel' = Tail(channel)
        /\ UNCHANGED <<global, reader, frames, listening>>
        /\ IF e.kind = "msg"
           THEN /\ queued' = [queued EXCEPT ![e.peer] = @ - 1]
                /\ hand' = <<e.peer>>
           ELSE UNCHANGED <<queued, hand>>
    BY DEF receive
  <1>2. /\ e.kind = "msg" => heard' = [heard EXCEPT ![e.peer] = Append(@, e.no)] /\ told' = told
        /\ e.kind # "msg" => told' = told \cup {e.peer} /\ heard' = heard
    BY DEF receive
  <1>3. /\ BudgetExact' /\ EndsLast'
        /\ global' \in 0..MaxQueued /\ queued' \in [Peers -> 0..MaxPerPeer]
        /\ hand' \in {<<>>} \cup {<<p>> : p \in Peers}
    BY <1>1, TakenOut
  <1>4. /\ channel' \in Seq(Event) /\ e \in Event /\ e = channel[1] /\ Len(channel) \in Nat \ {0}
        /\ \A q : InFlight({q}) \subseteq 1..Len(channel)
        /\ \A q : InFlight({q})' = Shifted(InFlight({q}))
        /\ \A q : /\ 1 \in InFlight({q}) <=> e.kind = "msg" /\ e.peer = q
                  /\ 1 \in EndsIn({q}) <=> e.kind = "end" /\ e.peer = q
    BY <1>1, Shortened
  <1>5. /\ TypeOK /\ Heard /\ EndsLast /\ InOrder
        /\ \A q \in Peers : reader[q] \notin {"unheard", "freeing", "draining"}
    BY <1>1 DEF BudgetInv
  <1>6. /\ channel \in Seq(Event) /\ MaxFrames \in Nat
        /\ heard \in [Peers -> Seq(1..MaxFrames)] /\ frames \in [Peers -> 0..MaxFrames]
        /\ told \subseteq Peers
    BY Typed
  <1> HIDE DEF e
  <1>7. e.peer \in Peers /\ e.kind \in {"msg", "end"}
    BY <1>4, EventSort
  <1> DEFINE P(q, n) == /\ n \in 0..frames[q] /\ Sent(q, n) /\ Len(heard[q]) <= n
                        /\ Numbered(channel, InFlight({q}), Len(heard[q]), n)
  <1>8. \A q \in Peers : \E n : P(q, n)
    BY <1>5 DEF InOrder
  <1>9. ASSUME NEW q \in Peers, NEW n, P(q, n)
        PROVE  /\ n \in Nat /\ n <= MaxFrames /\ Len(heard[q]) \in Nat
               /\ ~(e.kind = "msg" /\ e.peer = q) =>
                     Numbered(channel', InFlight({q})', Len(heard[q]), n)
               /\ e.kind = "msg" /\ e.peer = q =>
                     /\ e.no = Len(heard[q]) + 1 /\ Len(heard[q]) + 1 <= n
                     /\ Numbered(channel', InFlight({q})', Len(heard[q]) + 1, n)
               /\ InFlight({q}) = {} => Len(heard[q]) = n
    <2> DEFINE h == Len(heard[q])
               I == InFlight({q})
    <2>1. n \in Nat /\ n <= MaxFrames /\ h \in Nat
      <3>1. frames[q] \in 0..MaxFrames /\ heard[q] \in Seq(1..MaxFrames)
        BY <1>6
      <3>2. h \in Nat
        BY <3>1
      <3> QED
        BY <1>6, <1>9, <3>1, <3>2
    <2>2. h <= n /\ Numbered(channel, I, h, n) /\ I \subseteq 1..Len(channel)
          /\ (1 \in I <=> e.kind = "msg" /\ e.peer = q)
          /\ InFlight({q})' = {i \in 1..(Len(channel) - 1) : i + 1 \in I}
      BY <1>4, <1>9 DEF Shifted
    <2> HIDE DEF h, I
    <2>3. /\ 1 \notin I => Numbered(Tail(channel), InFlight({q})', h, n)
          /\ 1 \in I => /\ channel[1].no = h + 1 /\ h + 1 <= n
                        /\ Numbered(Tail(channel), InFlight({q})', h + 1, n)
      <3> DEFINE J == {i \in 1..(Len(channel) - 1) : i + 1 \in I}
      <3>1. /\ 1 \notin I => Numbered(Tail(channel), J, h, n)
            /\ 1 \in I => /\ channel[1].no = h + 1 /\ h + 1 <= n
                          /\ Numbered(Tail(channel), J, h + 1, n)
        BY <1>1, <1>6, <2>1, <2>2, NumberedLess
      <3>2. InFlight({q})' = J
        BY <2>2
      <3> HIDE DEF J
      <3> QED
        BY <3>1, <3>2
    <2>4. ASSUME I = {} PROVE h = n
      <3>1. \A k \in (h + 1)..n : FALSE
        BY <2>2, <2>4 DEF Numbered
      <3>2. ~(h + 1 \in (h + 1)..n)
        BY <3>1
      <3> QED
        BY <2>1, <2>2, <3>2
    <2> QED
      BY <1>1, <1>4, <2>1, <2>2, <2>3, <2>4 DEF h, I
  <1>10. /\ heard' \in [Peers -> Seq(1..MaxFrames)]
         /\ \A q \in Peers : e.kind = "msg" /\ e.peer = q =>
               heard'[q] = Append(heard[q], Len(heard[q]) + 1)
         /\ \A q \in Peers : ~(e.kind = "msg" /\ e.peer = q) => heard'[q] = heard[q]
    <2>1. CASE e.kind = "msg"
      <3>1. PICK n : P(e.peer, n)
        BY <1>7, <1>8
      <3>2. /\ n \in Nat /\ n <= MaxFrames /\ Len(heard[e.peer]) \in Nat
            /\ e.no = Len(heard[e.peer]) + 1 /\ Len(heard[e.peer]) + 1 <= n
        BY <1>7, <1>9, <2>1, <3>1
      <3>3. e.no \in 1..MaxFrames
        BY <1>6, <3>2
      <3>4. Append(heard[e.peer], e.no) \in Seq(1..MaxFrames)
        BY <1>6, <1>7, <3>3
      <3>5. heard' = [heard EXCEPT ![e.peer] = Append(heard[e.peer], e.no)]
        BY <1>2, <2>1
      <3>6. heard' \in [Peers -> Seq(1..MaxFrames)]
        BY <1>6, <1>7, <3>4, <3>5
      <3>7. heard'[e.peer] = Append(heard[e.peer], e.no)
            /\ \A q \in Peers : e.peer # q => heard'[q] = heard[q]
        BY <1>6, <1>7, <3>5
      <3> QED
        BY <2>1, <3>2, <3>6, <3>7
    <2>2. CASE e.kind # "msg"
      BY <1>2, <1>6, <2>2
    <2> QED
      BY <2>1, <2>2
  <1>11. InOrder'
    <2> SUFFICES ASSUME NEW q \in Peers
                 PROVE  \E n \in 0..frames[q] :
                           /\ Sent(q, n) /\ Len(heard'[q]) <= n
                           /\ Numbered(channel', InFlight({q})', Len(heard'[q]), n)
      BY <1>1 DEF InOrder, Sent
    <2>1. PICK n : P(q, n)
      BY <1>8
    <2>2. CASE e.kind = "msg" /\ e.peer = q
      <3>1. Len(heard'[q]) = Len(heard[q]) + 1
        BY <1>6, <1>10, <2>2
      <3> QED
        BY <1>9, <2>1, <2>2, <3>1
    <2>3. CASE ~(e.kind = "msg" /\ e.peer = q)
      <3>1. heard'[q] = heard[q]
        BY <1>10, <2>3
      <3> QED
        BY <1>9, <2>1, <2>3, <3>1
    <2> QED
      BY <2>2, <2>3
  <1>12. Heard'
    <2> SUFFICES ASSUME NEW q \in Peers
                 PROVE  /\ \A n \in DOMAIN heard'[q] : heard'[q][n] = n
                        /\ q \in told' => /\ reader[q] = "ended" /\ InFlight({q})' = {}
                                          /\ frames[q] - Len(heard'[q]) \in {0, 1}
      BY <1>1 DEF Heard
    <2>1. /\ \A n \in DOMAIN heard[q] : heard[q][n] = n
          /\ q \in told => /\ reader[q] = "ended" /\ InFlight({q}) = {}
                           /\ frames[q] - Len(heard[q]) \in {0, 1}
      BY <1>5 DEF Heard
    <2>2. InFlight({q}) = {} => InFlight({q})' = {}
      BY <1>4 DEF Shifted
    <2>3. CASE e.kind = "msg" /\ e.peer = q
      <3>1. heard'[q] = Append(heard[q], Len(heard[q]) + 1) /\ told' = told
            /\ heard[q] \in Seq(1..MaxFrames)
        BY <1>2, <1>6, <1>10, <2>3
      <3>2. 1 \in InFlight({q})
        BY <1>4, <2>3
      <3>3. q \notin told
        BY <2>1, <3>2
      <3>4. \A n \in DOMAIN heard'[q] : heard'[q][n] = n
        <4> TAKE n \in DOMAIN heard'[q]
        <4>1. CASE n = Len(heard[q]) + 1
          BY <3>1, <4>1
        <4>2. CASE n # Len(heard[q]) + 1
          <5>1. n \in DOMAIN heard[q] /\ heard'[q][n] = heard[q][n]
            BY <3>1, <4>2
          <5> QED
            BY <2>1, <5>1
        <4> QED
          BY <4>1, <4>2
      <3> QED
        BY <3>1, <3>3, <3>4
    <2>4. CASE e.kind = "end" /\ e.peer = q
      <3>1. heard'[q] = heard[q]
        BY <1>10, <2>4
      <3>2. 1 \in EndsIn({q})
        BY <1>4, <2>4
      <3>3. reader[q] = "ended" /\ \A k \in InFlight({q}) : k < 1
        BY <1>5, <3>2 DEF EndsLast
      <3>4. InFlight({q}) = {}
        <4>1. \A k \in InFlight({q}) : k \in 1..Len(channel) /\ k < 1
          BY <1>4, <3>3
        <4>2. \A k \in 1..Len(channel) : ~(k < 1)
          BY <1>4
        <4> QED
          BY <4>1, <4>2
      <3>5. PICK n : P(q, n)
        BY <1>8
      <3>6. Len(heard[q]) = n /\ n \in Nat
        BY <1>9, <3>4, <3>5
      <3>7. frames[q] \in Nat
        BY <1>6
      <3>8. frames[q] - Len(heard[q]) \in {0, 1}
        BY <3>5, <3>6, <3>7 DEF Sent
      <3> QED
        BY <2>1, <2>2, <3>1, <3>3, <3>4, <3>8
    <2>5. CASE e.peer # q
      <3>1. heard'[q] = heard[q] /\ (q \in told' => q \in told)
        BY <1>2, <1>10, <2>5
      <3> QED
        BY <2>1, <2>2, <3>1
    <2> QED
      BY <1>7, <2>3, <2>4, <2>5
  <1>13. told' \subseteq Peers
    BY <1>2, <1>6, <1>7
  <1>14. TypeOK'
    BY <1>1, <1>3, <1>4, <1>5, <1>10, <1>13 DEF TypeOK
  <1> QED
    BY <1>1, <1>3, <1>5, <1>11, <1>12, <1>14 DEF BudgetInv

-----------------------------------------------------------------------------
(* The theorems. *)

LEMMA InitBudget ==
    ASSUME InboundAssumption, Init
    PROVE  BudgetInv
  <1>1. \A ps : InFlight(ps) = {} /\ EndsIn(ps) = {}
    BY DEF Init, InFlight, EndsIn
  <1>2. Charging = {} /\ Cardinality({}) = 0
    BY FS_EmptySet DEF Init, Charging
  <1>3. TypeOK
    <2>1. <<>> \in Seq(1..MaxFrames) /\ <<>> \in Seq(Event) /\ 0 \in 0..MaxFrames
          /\ 0 \in 0..MaxPerPeer /\ 0 \in 0..MaxQueued /\ "reading" \in ReaderStates
      BY DEF InboundAssumption, ReaderStates
    <2> QED
      BY <2>1 DEF Init, TypeOK
  <1>4. BudgetExact
    <2>1. \A p \in Peers : queued[p] = OwnPlaces(p)
      <3> TAKE p \in Peers
      <3>1. queued[p] = 0 /\ reader[p] = "reading"
        BY DEF Init
      <3>2. Cardinality(InFlight({p})) = 0
        BY <1>1, <1>2
      <3>3. OwnPlaces(p) = 0 + 0
        BY <3>1, <3>2 DEF OwnPlaces
      <3> QED
        BY <3>1, <3>3
    <2>2. global = Cardinality(InFlight(Peers)) + Cardinality(Charging) + Len(hand)
      <3>1. Cardinality(InFlight(Peers)) = 0 /\ Cardinality(Charging) = 0
        BY <1>1, <1>2
      <3>2. global = 0 /\ Len(hand) = 0
        BY DEF Init
      <3> QED
        BY <3>1, <3>2
    <2> QED
      BY <2>1, <2>2 DEF BudgetExact
  <1>5. EndsLast
    BY <1>1 DEF EndsLast
  <1>6. Heard
    BY DEF Init, Heard
  <1>7. InOrder
    <2> SUFFICES ASSUME NEW p \in Peers
                 PROVE  \E n \in 0..frames[p] :
                           /\ Sent(p, n) /\ Len(heard[p]) <= n
                           /\ Numbered(channel, InFlight({p}), Len(heard[p]), n)
      BY DEF InOrder
    <2>1. frames[p] = 0 /\ Len(heard[p]) = 0 /\ reader[p] = "reading"
      BY DEF Init
    <2>2. Sent(p, 0)
      BY <2>1 DEF Sent
    <2>3. Numbered(channel, {}, 0, 0)
      BY DEF Numbered
    <2> QED
      BY <1>1, <2>1, <2>2, <2>3
  <1> QED
    BY <1>3, <1>4, <1>5, <1>6, <1>7 DEF BudgetInv, Init

LEMMA BudgetStep ==
    ASSUME InboundAssumption, BudgetInv, [Next]_vars
    PROVE  BudgetInv'
  <1>1. ASSUME NEW p \in Peers, reserve_global(p) \/ ReaderSteps(p) \/ breaks_off(p)
        PROVE  BudgetInv'
    BY <1>1, ReaderKeeps, SendKeeps, EndKeeps DEF ReaderSteps
  <1>2. CASE Simulation \/ stop_listening
    BY <1>2, ReceiveKeeps, DiscardKeeps, ReleaseKeeps DEF Simulation
  <1>3. CASE UNCHANGED vars
    <2>1. UNCHANGED <<global, queued, channel, reader, frames, listening, hand, heard, told>>
      BY <1>3 DEF vars
    <2> QED
      BY <2>1, ZenonT(40) DEF BudgetInv, TypeOK, BudgetExact, OwnPlaces, EndsLast, Heard, InOrder, Sent,
                  InFlight, EndsIn, Charging
  <1> QED
    BY <1>1, <1>2, <1>3 DEF Next

\* No place of either budget is lost or given back twice, and what is in the
\* channel continues what was heard (net/inbound.rs, net/conn.rs).
THEOREM BudgetInvariant ==
    ASSUME InboundAssumption
    PROVE  Spec => []BudgetInv
  <1>1. Init => BudgetInv
    BY InitBudget
  <1>2. BudgetInv /\ [Next]_vars => BudgetInv'
    BY BudgetStep
  <1> QED
    BY <1>1, <1>2, PTL DEF Spec

\* Messages and ends together fill the channel.
LEMMA ChannelBounded ==
    ASSUME InboundAssumption, BudgetInv
    PROVE  Len(channel) <= MaxQueued + Cardinality(Peers)
  <1> DEFINE M == InFlight(Peers)
             E == EndsIn(Peers)
             f == [i \in E |-> channel[i].peer]
  <1>1. channel \in Seq(Event) /\ IsFiniteSet(Peers) /\ EndsLast /\ Cardinality(M) \in Nat
        /\ global \in Nat /\ global <= MaxQueued /\ MaxQueued \in Nat
        /\ Cardinality(Charging) \in Nat /\ Len(hand) \in {0, 1}
        /\ global = Cardinality(M) + Cardinality(Charging) + Len(hand)
    BY Typed
  <1>2. M \subseteq 1..Len(channel) /\ E \subseteq 1..Len(channel) /\ IsFiniteSet(M) /\ IsFiniteSet(E)
    BY <1>1, InFlightAt, AtFinite
  <1>3. \A i \in 1..Len(channel) : channel[i] \in Event /\ channel[i].peer \in Peers
    BY <1>1, EventSort
  <1>4. 1..Len(channel) = M \cup E
    <2>1. \A i \in 1..Len(channel) : channel[i] \in Msgs(Peers) \/ channel[i] \in Ends(Peers)
      BY <1>3, EventSort
    <2> QED
      BY <1>1, <1>2, <2>1 DEF InFlight, EndsIn
  <1>5. f \in Injection(E, Peers)
    <2>1. \A i \in E : channel[i].peer \in Peers /\ i \in EndsIn({channel[i].peer})
      <3> TAKE i \in E
      <3>1. channel[i] \in Event /\ channel[i].peer \in Peers /\ i \in DOMAIN channel
        BY <1>2, <1>3 DEF EndsIn
      <3>2. channel[i] \in Ends({channel[i].peer})
        BY <3>1, EventSort DEF EndsIn
      <3> QED
        BY <3>1, <3>2 DEF EndsIn
    <2> HIDE DEF E
    <2>2. f \in [E -> Peers]
      BY <2>1
    <2>3. ASSUME NEW i \in E, NEW j \in E, f[i] = f[j] PROVE i = j
      <3> DEFINE q == channel[i].peer
      <3>1. channel[j].peer = q
        BY <2>3
      <3>2. q \in Peers /\ i \in EndsIn({q}) /\ j \in EndsIn({q})
        BY <2>1, <3>1
      <3> HIDE DEF q
      <3> QED
        BY <1>1, <3>2 DEF EndsLast
    <2> QED
      BY <2>2, <2>3 DEF Injection, IsInjective
  <1>6. Cardinality(E) <= Cardinality(Peers)
    BY <1>1, <1>5, FS_Injection
  <1>7. Cardinality(E) \in Nat /\ Cardinality(Peers) \in Nat
        /\ IsFiniteSet(M \cap E) /\ Cardinality(M \cap E) \in Nat
    <2>1. M \cap E \in SUBSET M
      OBVIOUS
    <2> QED
      BY <1>1, <1>2, <2>1, FS_CardinalityType, FS_Subset
  <1>8. Cardinality(1..Len(channel)) = Len(channel) /\ Len(channel) \in Nat
    <2>1. 1 \in Int /\ Len(channel) \in Nat /\ Len(channel) \in Int
      BY <1>1
    <2>2. Cardinality(1..Len(channel)) =
            IF 1 > Len(channel) THEN 0 ELSE Len(channel) - 1 + 1
      BY <2>1, FS_Interval
    <2> QED
      BY <2>1, <2>2
  <1> HIDE DEF M, E, f
  <1>9. Cardinality(M \cup E) = Cardinality(M) + Cardinality(E) - Cardinality(M \cap E)
    BY <1>2, FS_Union
  <1>10. Cardinality(M \cup E) = Len(channel)
    BY <1>4, <1>8
  <1>11. Cardinality(M) <= MaxQueued /\ Cardinality(M) \in Nat /\ MaxQueued \in Nat
    BY <1>1
  <1> QED
    BY ONLY <1>6, <1>7, <1>8, <1>9, <1>10, <1>11

\* Both budgets are exact whatever the order readers and simulation touch them
\* in, no share is overdrawn, a terminal event is never kept out, and what is
\* heard of a peer is what it sent, without a gap (net/inbound.rs,
\* Reservation::drop; net/conn.rs, read_loop).
THEOREM BudgetsHold ==
    ASSUME InboundAssumption
    PROVE  Spec => []BudgetHolds
  <1>1. BudgetInv => BudgetHolds
    <2> SUFFICES ASSUME BudgetInv PROVE BudgetHolds
      OBVIOUS
    <2>1. TypeOK /\ BudgetExact
      BY DEF BudgetInv
    <2>2. SharesHold
      <3>1. ASSUME NEW p \in Peers PROVE Cardinality(InFlight({p})) <= MaxPerPeer
        <4> DEFINE k == Cardinality(InFlight({p}))
                   own == IF reader[p] \in {"charged", "unheard"} THEN 1 ELSE 0
        <4>1. k \in Nat /\ queued[p] = k + own /\ queued[p] \in 0..MaxPerPeer /\ MaxPerPeer \in Nat
          BY Typed DEF OwnPlaces
        <4>2. own \in {0, 1}
          OBVIOUS
        <4> HIDE DEF k, own
        <4>3. k <= MaxPerPeer
          BY <4>1, <4>2
        <4> QED
          BY <4>3 DEF k
      <3> QED
        BY <3>1, ChannelBounded DEF SharesHold
    <2>3. PrefixHeard
      BY DEF BudgetInv, Heard, PrefixHeard
    <2> QED
      BY <2>1, <2>2, <2>3 DEF BudgetHolds
  <1> QED
    BY <1>1, BudgetInvariant, PTL

-----------------------------------------------------------------------------
(* Rates: how fast a connection may send and talk.                          *)

\* What those from each of n on cost, at one spacing.
CostFrom(n, spacing) == [i \in 1..n |-> (n - i + 1) * spacing]

\* n numbers, all moved by the same, and one more.
OneLonger(n, f, g, by, last) ==
    /\ n \in Nat /\ by \in Int /\ last \in Int
    /\ f \in [1..n -> Int] /\ g \in [1..(n + 1) -> Int]
    /\ \A i \in 1..n : g[i] = f[i] + by
    /\ g[n + 1] = last

\* From each of n times on, the costs less the credits are paid for.
Pays(n, times, costs, credits, paid) ==
    \A i \in 1..n : times[i] + costs[i] <= paid + credits[i]

\* No more is paid for than the costs from one of n times on.
Owes(n, times, costs, paid) == \E i \in 1..n : paid <= times[i] + costs[i]

\* A schedule is behind nothing it was moved for: from any line on, all that was
\* taken is paid for by then.
PaysFor(log, paid, spacing) ==
    \A i \in 1..Len(log) : log[i] + CostFrom(Len(log), spacing)[i] <= paid

\* A schedule ahead of now is no further ahead than what was taken since some line.
OwedFrom(log, paid, spacing) ==
    paid > now => \E i \in 1..Len(log) : paid <= log[i] + CostFrom(Len(log), spacing)[i]

\* The times of the messages, and what the ticks credited since each are worth.
Times(log) == [i \in 1..Len(log) |-> log[i].at]
LastCredit(log) == IF log = <<>> THEN 0 ELSE log[Len(log)].credit
CreditSince(log) == [i \in 1..Len(log) |-> Spacing * (LastCredit(log) - log[i].credit)]

\* The message schedule, moved back by the ticks sent since each message; and never
\* further ahead than the messages since one of them.
MessageSchedule ==
    LET n == Len(messages)
        costs == CostFrom(n, Spacing)
    IN  /\ paid_until <= now + Burst
        /\ Pays(n, Times(messages), costs, CreditSince(messages), paid_until)
        /\ paid_until > now => Owes(n, Times(messages), costs, paid_until)

\* The schedules of lines: a talker's own, once it has talked, and the spectators'.
LineSchedules ==
    /\ \A c \in Talkers :
          IF each[c] = Unspoken THEN lines[c] = <<>>
          ELSE /\ PaysFor(lines[c], each[c], LineSpacing)
               /\ OwedFrom(lines[c], each[c], LineSpacing)
    /\ PaysFor(spoken, shared, AllSpacing)

\* Invariant: the inductive one of Rates.
RatesInv == RatesTypeOK /\ MessageSchedule /\ LineSchedules /\ MessagesBounded /\ LinesBounded

\* One more of the same cost.
LEMMA OneMoreCost == ASSUME NEW k \in Int, NEW s \in Int PROVE (k + 1) * s = k * s + s
  OBVIOUS

\* A product of integers is one.
LEMMA ProductInt == ASSUME NEW k \in Int, NEW s \in Int PROVE k * s \in Int
  OBVIOUS

\* A product of naturals is one, no less than its factors but for zero.
LEMMA ProductNat ==
  ASSUME NEW k \in Nat, NEW s \in Nat
  PROVE  k * s \in Nat /\ (k >= 1 => k * s >= s)
  OBVIOUS

\* What a counter that wraps has gone on since is below its width.
LEMMA ModRange == ASSUME NEW a \in Int, NEW w \in Nat \ {0} PROVE a % w \in Nat /\ a % w < w
  OBVIOUS

\* One more at the end costs every stretch to the end one spacing more.
LEMMA CostGrows ==
  ASSUME NEW n \in Nat, NEW s \in Int
  PROVE  OneLonger(n, CostFrom(n, s), CostFrom(n + 1, s), s, s)
  <1>1. ASSUME NEW i \in 1..n PROVE CostFrom(n + 1, s)[i] = CostFrom(n, s)[i] + s
    <2>1. i \in 1..(n + 1) /\ n - i + 1 \in Int /\ n + 1 - i + 1 = (n - i + 1) + 1
      OBVIOUS
    <2>2. CostFrom(n + 1, s)[i] = (n + 1 - i + 1) * s /\ CostFrom(n, s)[i] = (n - i + 1) * s
      BY <2>1 DEF CostFrom
    <2>3. ((n - i + 1) + 1) * s = (n - i + 1) * s + s
      BY <2>1, OneMoreCost
    <2> QED BY <2>1, <2>2, <2>3
  <1>2. CostFrom(n + 1, s)[n + 1] = s
    <2>1. n + 1 - (n + 1) + 1 = 1 /\ n + 1 \in 1..(n + 1)
      OBVIOUS
    <2>2. CostFrom(n + 1, s)[n + 1] = 1 * s /\ 1 * s = s
      BY <2>1 DEF CostFrom
    <2> QED BY <2>2
  <1>3. ASSUME NEW m \in Nat PROVE CostFrom(m, s) \in [1..m -> Int]
    <2>1. \A i \in 1..m : (m - i + 1) * s \in Int
      BY ProductInt
    <2> QED BY <2>1 DEF CostFrom
  <1>4. n + 1 \in Nat
    OBVIOUS
  <1> QED BY <1>1, <1>2, <1>3, <1>4 DEF OneLonger

\* Unpaid, by what those from each line on cost.
LEMMA UnpaidIs ==
  ASSUME NEW log, log \in Seq(Int), NEW s \in Int, NEW b \in Int
  PROVE  Unpaid(log, s, b) <=>
          \A j \in 1..Len(log) : \A i \in 1..j : CostFrom(j, s)[i] <= s * b + log[j] - log[i]
  <1>1. DOMAIN log = 1..Len(log) /\ Len(log) \in Nat
    OBVIOUS
  <1>2. \A j \in 1..Len(log) : \A i \in 1..j : CostFrom(j, s)[i] = (j - i + 1) * s
    BY DEF CostFrom
  <1>3. ASSUME NEW i, NEW j
        PROVE  j \in 1..Len(log) /\ i \in 1..j <=> i \in DOMAIN log /\ j \in DOMAIN log /\ i <= j
    BY <1>1
  <1>4. Unpaid(log, s, b) <=>
          \A i, j : i \in DOMAIN log /\ j \in DOMAIN log /\ i <= j
                      => (j - i + 1) * s <= s * b + log[j] - log[i]
    BY Zenon DEF Unpaid
  <1>5. Unpaid(log, s, b) <=>
          \A i, j : j \in 1..Len(log) /\ i \in 1..j
                      => (j - i + 1) * s <= s * b + log[j] - log[i]
    BY <1>3, <1>4, Zenon
  <1>6. Unpaid(log, s, b) <=>
          \A i, j : j \in 1..Len(log) /\ i \in 1..j
                      => CostFrom(j, s)[i] <= s * b + log[j] - log[i]
    BY <1>2, <1>5, Zenon
  <1> QED BY <1>6, Zenon

\* The same on both sides of what is paid.
LEMMA PaidSum ==
  ASSUME NEW x \in Int, NEW y \in Int, NEW z \in Int, NEW p \in Int, NEW q \in Int,
         NEW s \in Int, NEW c \in Int, x + y <= p + z, q >= p - c + s
  PROVE  x + (y + s) <= q + (z + c)
  OBVIOUS

\* A schedule moved on by the spacing, from no earlier than it was with the credit c off
\* and no earlier than t, pays for one more at t.
LEMMA PaysOneMore ==
  ASSUME NEW n, NEW s, NEW t, NEW c, NEW a, NEW b, NEW d, NEW e, NEW f, NEW g,
         OneLonger(n, a, b, s, s), OneLonger(n, d, e, c, 0), OneLonger(n, f, g, 0, t),
         NEW paid \in Int, NEW paid2 \in Int, paid2 >= paid - c + s, paid2 >= t + s,
         Pays(n, f, a, d, paid)
  PROVE  Pays(n + 1, g, b, e, paid2)
  <1>0. n \in Nat /\ s \in Int /\ t \in Int /\ c \in Int
    BY DEF OneLonger
  <1>1. ASSUME NEW i \in 1..n PROVE g[i] + b[i] <= paid2 + e[i]
    <2>1. /\ b[i] = a[i] + s /\ e[i] = d[i] + c /\ g[i] = f[i] + 0 /\ f[i] + a[i] <= paid + d[i]
          /\ a[i] \in Int /\ d[i] \in Int /\ f[i] \in Int
      BY DEF OneLonger, Pays
    <2>2. g[i] + b[i] = f[i] + (a[i] + s) /\ paid2 + e[i] = paid2 + (d[i] + c)
      BY <2>1, <1>0
    <2>3. f[i] + (a[i] + s) <= paid2 + (d[i] + c)
      BY <1>0, <2>1, PaidSum
    <2> QED BY <2>2, <2>3
  <1>2. g[n + 1] + b[n + 1] <= paid2 + e[n + 1]
    BY <1>0 DEF OneLonger
  <1>3. \A i \in 1..(n + 1) : i \in 1..n \/ i = n + 1
    BY <1>0
  <1> QED BY <1>1, <1>2, <1>3, Zenon DEF Pays

\* A schedule moved on from now owes what was taken at now; one moved on from ahead of
\* now owes what it did, and one spacing more.
LEMMA OwesOneMore ==
  ASSUME NEW n, NEW s, NEW t, NEW a, NEW b, NEW f, NEW g,
         OneLonger(n, a, b, s, s), OneLonger(n, f, g, 0, t),
         NEW paid \in Int, NEW paid2 \in Int,
         \/ paid2 = t + s
         \/ Owes(n, f, a, paid) /\ paid2 <= paid + s
  PROVE  Owes(n + 1, g, b, paid2)
  <1>0. n \in Nat /\ s \in Int /\ t \in Int
    BY DEF OneLonger
  <1>1. CASE paid2 = t + s
    <2>1. n + 1 \in 1..(n + 1) /\ paid2 <= g[n + 1] + b[n + 1]
      BY <1>0, <1>1 DEF OneLonger
    <2> QED BY <2>1 DEF Owes
  <1>2. CASE Owes(n, f, a, paid) /\ paid2 <= paid + s
    <2>1. PICK i \in 1..n : paid <= f[i] + a[i]
      BY <1>2 DEF Owes
    <2>2. i \in 1..(n + 1)
      BY <1>0
    <2>3. b[i] = a[i] + s /\ g[i] = f[i] + 0 /\ a[i] \in Int /\ f[i] \in Int
      BY DEF OneLonger
    <2>4. paid2 <= g[i] + b[i]
      BY <1>0, <1>2, <2>1, <2>3
    <2> QED BY <2>2, <2>4 DEF Owes
  <1> QED BY <1>1, <1>2

\* What a log holds, as numbers.
LEMMA LogGrows ==
  ASSUME NEW t \in Nat, NEW log, log \in Seq(0..t)
  PROVE  LET log2 == Append(log, t) IN
         /\ Len(log) \in Nat /\ Len(log2) = Len(log) + 1 /\ log2 \in Seq(0..t)
         /\ log \in Seq(Int) /\ log2 \in Seq(Int)
         /\ \A i \in 1..Len(log) : log2[i] = log[i]
         /\ OneLonger(Len(log), log, log2, 0, t)
  <1> DEFINE log2 == Append(log, t)
  <1>1. Len(log) \in Nat /\ Len(log2) = Len(log) + 1 /\ log2 \in Seq(0..t)
    OBVIOUS
  <1>2. log \in Seq(Int) /\ log2 \in Seq(Int)
    BY <1>1
  <1>3. \A i \in 1..Len(log) : log2[i] = log[i]
    OBVIOUS
  <1>4. log2[Len(log) + 1] = t
    OBVIOUS
  <1>5. \A q : q \in Seq(Int) => q \in [1..Len(q) -> Int]
    OBVIOUS
  <1> HIDE DEF log2
  <1>6. log2 \in [1..(Len(log) + 1) -> Int]
    BY <1>1, <1>2, <1>5
  <1>7. \A i \in 1..Len(log) : log2[i] = log[i] + 0
    BY <1>2, <1>3
  <1>8. log \in [1..Len(log) -> Int]
    BY <1>2, <1>5
  <1>9. OneLonger(Len(log), log, log2, 0, t)
    BY <1>1, <1>4, <1>6, <1>7, <1>8 DEF OneLonger
  <1> QED BY <1>1, <1>2, <1>3, <1>9 DEF log2

\* LineRate::take of a line that is not too fast: its schedule still pays for all, owes
\* no more than was taken, and no stretch of time holds more than the burst and the rate.
LEMMA TakeKeepsSchedule ==
  ASSUME NEW log, log \in Seq(0..now), now \in Nat, NEW spacing \in Nat \ {0},
         NEW burst \in Nat \ {0}, NEW paid \in Nat,
         PaysFor(log, paid, spacing), Unpaid(log, spacing, burst),
         ~TooFast(paid, spacing, burst)
  PROVE  /\ PaysFor(Append(log, now), Later(paid, now) + spacing, spacing)
         /\ Unpaid(Append(log, now), spacing, burst)
         /\ Later(paid, now) + spacing \in Nat
         /\ Later(paid, now) + spacing <= now + spacing * burst
         /\ OwedFrom(log, paid, spacing)
              => OwedFrom(Append(log, now), Later(paid, now) + spacing, spacing)
         /\ Append(log, now) \in Seq(0..now)
  <1> DEFINE log2 == Append(log, now)
             top == Later(paid, now)
             paid2 == top + spacing
             n == Len(log)
             a == CostFrom(n, spacing)
             b == CostFrom(n + 1, spacing)
             most == spacing * burst
             d == [i \in 1..n |-> 0]
             e == [i \in 1..(n + 1) |-> 0]
  <1>1. /\ n \in Nat /\ Len(log2) = n + 1 /\ log2 \in Seq(0..now)
        /\ log \in Seq(Int) /\ log2 \in Seq(Int)
        /\ OneLonger(n, log, log2, 0, now)
        /\ \A i \in 1..n : log2[i] = log[i]
    BY LogGrows, Zenon
  <1>2. top \in Nat /\ top >= paid /\ top >= now /\ (top = paid \/ top = now)
    BY DEF Later
  <1>3. most \in Int /\ paid2 \in Nat /\ paid2 <= now + most
    <2>1. top <= now + spacing * (burst - 1)
      BY <1>2 DEF TooFast
    <2>2. spacing * (burst - 1) + spacing = most /\ spacing * (burst - 1) \in Int
      OBVIOUS
    <2>3. most \in Int
      OBVIOUS
    <2> HIDE DEF top, most
    <2> QED BY <1>2, <2>1, <2>2, <2>3
  <1>4. OneLonger(n, a, b, spacing, spacing)
    <2>1. spacing \in Int
      OBVIOUS
    <2> QED BY CostGrows, <2>1, <1>1
  <1>5. /\ Unpaid(log, spacing, burst) <=>
             \A j \in 1..n : \A i \in 1..j : CostFrom(j, spacing)[i] <= most + log[j] - log[i]
        /\ Unpaid(log2, spacing, burst) <=>
             \A j \in 1..(n + 1) : \A i \in 1..j :
                CostFrom(j, spacing)[i] <= most + log2[j] - log2[i]
    <2>2. spacing \in Int /\ burst \in Int
      OBVIOUS
    <2>3. Unpaid(log2, spacing, burst) <=>
             \A j \in 1..Len(log2) : \A i \in 1..j :
                CostFrom(j, spacing)[i] <= most + log2[j] - log2[i]
      <3> HIDE DEF log2
      <3> QED BY <1>1, <2>2, UnpaidIs
    <2>4. Unpaid(log, spacing, burst) <=>
             \A j \in 1..n : \A i \in 1..j : CostFrom(j, spacing)[i] <= most + log[j] - log[i]
      BY <1>1, <2>2, UnpaidIs
    <2> HIDE DEF log2, most
    <2> QED BY <1>1, <2>3, <2>4, Zenon
  <1>6. /\ \A i \in 1..n : log[i] + a[i] <= paid
        /\ PaysFor(log2, paid2, spacing) <=> \A i \in 1..(n + 1) : log2[i] + b[i] <= paid2
        /\ OwedFrom(log, paid, spacing) <=>
             (paid > now => \E i \in 1..n : paid <= log[i] + a[i])
        /\ OwedFrom(log2, paid2, spacing) <=>
             (paid2 > now => \E i \in 1..(n + 1) : paid2 <= log2[i] + b[i])
    <2>1. Len(log2) = n + 1
      BY <1>1
    <2> HIDE DEF log2, paid2
    <2> QED BY <2>1, Zenon DEF PaysFor, OwedFrom
  <1>7. OneLonger(n, d, e, 0, 0) /\ (\A i \in 1..n : d[i] = 0) /\ \A i \in 1..(n + 1) : e[i] = 0
    <2>1. n + 1 \in 1..(n + 1) /\ n \in Nat
      BY <1>1
    <2> QED BY <2>1 DEF OneLonger
  <1>8. /\ paid2 \in Int /\ paid2 >= paid - 0 + spacing /\ paid2 >= now + spacing /\ paid \in Int
        /\ now \in Int /\ spacing \in Int
    BY <1>2
  <1> HIDE DEF log2, top, paid2, n, a, b, most, d, e
  <1>9. \A i \in 1..(n + 1) : log2[i] + b[i] <= paid2
    <2>1. Pays(n, log, a, d, paid)
      BY <1>6, <1>7, <1>8 DEF Pays
    <2>2. Pays(n + 1, log2, b, e, paid2)
      BY <1>1, <1>4, <1>7, <1>8, <2>1, PaysOneMore
    <2> QED BY <1>7, <1>8, <2>2 DEF Pays
  <1>10. Unpaid(log2, spacing, burst)
    <2> SUFFICES ASSUME NEW j \in 1..(n + 1), NEW i \in 1..j
                 PROVE  CostFrom(j, spacing)[i] <= most + log2[j] - log2[i]
      BY <1>5, Zenon
    <2>1. CASE j \in 1..n
      <3>1. i \in 1..n
        BY <1>1, <2>1
      <3>2. log2[i] = log[i] /\ log2[j] = log[j]
        BY <1>1, <2>1, <3>1
      <3>3. CostFrom(j, spacing)[i] <= most + log[j] - log[i]
        BY <1>5, <2>1, Zenon
      <3> QED BY <3>2, <3>3
    <2>2. CASE j = n + 1
      <3>1. log2[i] + b[i] <= paid2 /\ CostFrom(j, spacing)[i] = b[i] /\ i \in 1..(n + 1)
        BY <1>9, <2>2 DEF b
      <3>2. log2[j] = now /\ log2[i] \in Int /\ b[i] \in Int
        BY <1>1, <1>4, <2>2, <3>1 DEF OneLonger
      <3>3. b[i] <= most + now - log2[i]
        BY <1>3, <1>8, <3>1, <3>2
      <3> QED BY <3>1, <3>2, <3>3
    <2>3. j \in 1..n \/ j = n + 1
      BY <1>1
    <2> QED BY <2>1, <2>2, <2>3
  <1>11. ASSUME OwedFrom(log, paid, spacing) PROVE OwedFrom(log2, paid2, spacing)
    <2>1. paid2 = now + spacing \/ (Owes(n, log, a, paid) /\ paid2 <= paid + spacing)
      <3>1. CASE top = now
        BY <3>1 DEF paid2
      <3>2. CASE top # now
        <4>1. paid > now /\ paid2 = paid + spacing
          BY <1>2, <3>2 DEF paid2
        <4>2. Owes(n, log, a, paid)
          BY <1>6, <1>11, <4>1 DEF Owes
        <4> QED BY <1>8, <4>1, <4>2
      <3> QED BY <3>1, <3>2
    <2>2. Owes(n + 1, log2, b, paid2)
      BY <1>1, <1>4, <1>8, <2>1, OwesOneMore
    <2> QED BY <1>6, <2>2 DEF Owes
  <1>12. PaysFor(log2, paid2, spacing)
    BY <1>6, <1>9
  <1> QED BY <1>1, <1>3, <1>10, <1>11, <1>12 DEF most, log2, paid2, top

\* What a message costs, and what it may bring back.
LEMMA TakeIs ==
  ASSUME RatesAssumption, RatesTypeOK, MessageSchedule
  PROVE  LET g == Spacing * PerTick * ((ticksSent - credited) % Width) IN
         /\ Credit \in Nat /\ LastCredit(messages) \in Nat /\ g \in Nat
         /\ g = Spacing * (Credit - LastCredit(messages))
         /\ Paid \in Nat /\ Paid >= now /\ Paid >= paid_until - g
         /\ Paid = now \/ Paid = paid_until - g
         /\ Overspent => g = 0 /\ Paid = paid_until /\ Paid > now
  <1> DEFINE w == (ticksSent - credited) % Width
             c == PerTick * w
             g == Spacing * PerTick * w
  <1>1. /\ Spacing \in Nat \ {0} /\ Burst \in Nat /\ PerTick \in Nat /\ Width \in Nat \ {0}
        /\ MaxTime \in Nat /\ Spacing <= Burst
    BY DEF RatesAssumption
  <1>2. /\ now \in Nat /\ paid_until \in Nat /\ ticksSent \in Int /\ credited \in Int
        /\ messages \in Seq([at : 0..now, credit : Nat])
    BY <1>1 DEF RatesTypeOK
  <1>3. w \in Nat
    BY <1>1, <1>2, ModRange
  <1>4. LastCredit(messages) \in Nat
    <2>1. CASE messages = <<>>
      BY <2>1 DEF LastCredit
    <2>2. CASE messages # <<>>
      <3>1. messages[Len(messages)] \in [at : 0..now, credit : Nat]
        <4>1. Len(messages) \in 1..Len(messages)
          BY <1>2, <2>2
        <4> QED BY <1>2, <4>1, ElementOfSeq, Zenon
      <3> QED BY <2>2, <3>1 DEF LastCredit
    <2> QED BY <2>1, <2>2
  <1>5. Credit = c + LastCredit(messages)
    BY DEF Credit, LastCredit
  <1>6. c \in Nat /\ g = Spacing * c
    <2> HIDE DEF w
    <2>1. c \in Nat
      BY <1>1, <1>3, ProductNat
    <2> QED BY <1>1, <1>3, <2>1
  <1>7. g \in Nat /\ (c >= 1 => g >= Spacing) /\ (c = 0 => g = 0)
    <2> HIDE DEF c, g
    <2>1. Spacing * c = c * Spacing
      BY <1>1, <1>6
    <2>2. c * Spacing \in Nat /\ (c >= 1 => c * Spacing >= Spacing)
      BY <1>1, <1>6, ProductNat
    <2> QED BY <1>1, <1>6, <2>1, <2>2
  <1>8. Paid = Later(paid_until - g, now)
    BY DEF Paid
  <1> HIDE DEF w, c, g
  <1>9. Credit \in Nat /\ Credit - LastCredit(messages) = c
    BY <1>4, <1>5, <1>6
  <1>10. /\ Paid \in Nat /\ Paid >= now /\ Paid >= paid_until - g
         /\ Paid = now \/ Paid = paid_until - g
    BY <1>2, <1>7, <1>8 DEF Later
  <1>11. ASSUME Overspent PROVE g = 0 /\ Paid = paid_until /\ Paid > now
    <2>1. Paid + Spacing > now + Burst /\ paid_until <= now + Burst
      BY <1>11 DEF Overspent, MessageSchedule
    <2>2. Paid # now
      BY <1>1, <1>2, <2>1
    <2>3. Paid = paid_until - g
      BY <1>10, <2>2
    <2>4. c = 0
      BY <1>1, <1>2, <1>6, <1>7, <2>1, <2>3
    <2> QED BY <1>2, <1>7, <1>10, <2>2, <2>3, <2>4
  <1> QED BY <1>4, <1>6, <1>7, <1>9, <1>10, <1>11 DEF g, w

\* MessagesBounded, by what those from each message on cost.
LEMMA BoundedIs ==
  ASSUME NEW log, DOMAIN log = 1..Len(log), Len(log) \in Nat, NEW s \in Int, NEW b \in Int
  PROVE  (\A i, j \in DOMAIN log : i <= j =>
             (j - i + 1) * s <= b + log[j].at - log[i].at + s * (log[j].credit - log[i].credit))
         <=> \A j \in 1..Len(log) : \A i \in 1..j :
                CostFrom(j, s)[i]
                  <= b + log[j].at - log[i].at + s * (log[j].credit - log[i].credit)
  <1> DEFINE room(i, j) == b + log[j].at - log[i].at + s * (log[j].credit - log[i].credit)
  <1>2. \A j \in 1..Len(log) : \A i \in 1..j : CostFrom(j, s)[i] = (j - i + 1) * s
    BY DEF CostFrom
  <1>3. ASSUME NEW i, NEW j
        PROVE  j \in 1..Len(log) /\ i \in 1..j <=> i \in DOMAIN log /\ j \in DOMAIN log /\ i <= j
    OBVIOUS
  <1> HIDE DEF room
  <1>4. (\A i, j \in DOMAIN log : i <= j => (j - i + 1) * s <= room(i, j)) <=>
          \A i, j : j \in 1..Len(log) /\ i \in 1..j => (j - i + 1) * s <= room(i, j)
    BY <1>3, Zenon
  <1>5. (\A i, j \in DOMAIN log : i <= j => (j - i + 1) * s <= room(i, j)) <=>
          \A i, j : j \in 1..Len(log) /\ i \in 1..j => CostFrom(j, s)[i] <= room(i, j)
    BY <1>2, <1>4, Zenon
  <1>6. (\A i, j \in DOMAIN log : i <= j => (j - i + 1) * s <= room(i, j)) <=>
          \A j \in 1..Len(log) : \A i \in 1..j : CostFrom(j, s)[i] <= room(i, j)
    BY <1>5, Zenon
  <1> QED BY <1>6, Zenon DEF room

\* log2 is log with one more message, heard at t with the credit c.
OneHeard(log, log2, t, c) ==
    LET n == Len(log)
    IN  /\ n \in Nat /\ Len(log2) = n + 1 /\ log2 \in Seq([at : 0..t, credit : Nat])
        /\ \A i \in 1..n : log2[i] = log[i]
        /\ log2[n + 1].at = t /\ log2[n + 1].credit = c
        /\ LastCredit(log2) = c
        /\ OneLonger(n, Times(log), Times(log2), 0, t)
        /\ OneLonger(n, CreditSince(log), CreditSince(log2), Spacing * (c - LastCredit(log)), 0)

\* One more message heard: its time, and the worth of the credit since each.
LEMMA MessageGrows ==
  ASSUME RatesAssumption, NEW t \in Nat, NEW c \in Nat,
         NEW log, log \in Seq([at : 0..t, credit : Nat]), LastCredit(log) \in Nat
  PROVE  OneHeard(log, Append(log, [at |-> t, credit |-> c]), t, c)
  <1> DEFINE r == [at |-> t, credit |-> c]
             log2 == Append(log, r)
             n == Len(log)
             last == LastCredit(log)
  <1>1. r \in [at : 0..t, credit : Nat] /\ r.at = t /\ r.credit = c
    OBVIOUS
  <1>2. Spacing \in Int
    BY DEF RatesAssumption
  <1> HIDE DEF r
  <1>3. n \in Nat /\ Len(log2) = n + 1 /\ log2 \in Seq([at : 0..t, credit : Nat])
    BY <1>1
  <1>4. \A i \in 1..n : log2[i] = log[i]
    OBVIOUS
  <1>5. log2[n + 1] = r /\ log2 # <<>>
    <2>1. log2[n + 1] = r
      BY <1>1
    <2>2. log2 # <<>>
      BY <1>3
    <2> QED BY <2>1, <2>2
  <1>6. \A i \in 1..n : log[i] \in [at : 0..t, credit : Nat]
    BY ElementOfSeq, Zenon
  <1> HIDE DEF log2
  <1>7. LastCredit(log2) = c
    BY <1>1, <1>3, <1>5 DEF LastCredit
  <1>8. \A i \in 1..n : log[i].at \in Int /\ log[i].credit \in Int
    BY <1>6
  <1> HIDE DEF n
  <1>9. n + 1 \in 1..(n + 1) /\ \A i \in 1..(n + 1) : i \in 1..n \/ i = n + 1
    BY <1>3
  <1>10. \A i \in 1..(n + 1) : log2[i].at \in Int /\ log2[i].credit \in Int
    BY <1>1, <1>4, <1>5, <1>8, <1>9
  <1>11. OneLonger(n, Times(log), Times(log2), 0, t)
    <2>1. /\ Times(log) = [i \in 1..n |-> log[i].at]
          /\ Times(log2) = [i \in 1..(n + 1) |-> log2[i].at]
      BY <1>3 DEF Times, n
    <2>2. Times(log) \in [1..n -> Int] /\ Times(log2) \in [1..(n + 1) -> Int]
      BY <1>8, <1>10, <2>1
    <2>3. \A i \in 1..n : Times(log2)[i] = Times(log)[i] + 0
      <3> TAKE i \in 1..n
      <3>1. i \in 1..(n + 1)
        BY <1>3
      <3> QED BY <1>4, <1>8, <2>1, <3>1
    <2>4. Times(log2)[n + 1] = t
      BY <1>1, <1>5, <1>9, <2>1
    <2> QED BY <1>3, <2>2, <2>3, <2>4 DEF OneLonger
  <1>12. OneLonger(n, CreditSince(log), CreditSince(log2), Spacing * (c - last), 0)
    <2>1. /\ CreditSince(log) = [i \in 1..n |-> Spacing * (last - log[i].credit)]
          /\ CreditSince(log2) = [i \in 1..(n + 1) |-> Spacing * (c - log2[i].credit)]
      BY <1>3, <1>7 DEF CreditSince, n
    <2>2. last \in Int /\ c \in Int
      OBVIOUS
    <2>3. /\ \A i \in 1..n : Spacing * (last - log[i].credit) \in Int
          /\ \A i \in 1..(n + 1) : Spacing * (c - log2[i].credit) \in Int
          /\ Spacing * (c - last) \in Int
      <3>1. \A x, y \in Int : Spacing * (x - y) \in Int
        BY <1>2, ProductInt
      <3> QED BY <1>8, <1>10, <2>2, <3>1
    <2>4. CreditSince(log) \in [1..n -> Int] /\ CreditSince(log2) \in [1..(n + 1) -> Int]
      BY <2>1, <2>3
    <2>5. ASSUME NEW i \in 1..n
          PROVE  CreditSince(log2)[i] = CreditSince(log)[i] + Spacing * (c - last)
      <3>1. i \in 1..(n + 1) /\ log2[i] = log[i] /\ log[i].credit \in Int
        BY <1>3, <1>4, <1>8
      <3>2. /\ CreditSince(log2)[i] = Spacing * (c - log[i].credit)
            /\ CreditSince(log)[i] = Spacing * (last - log[i].credit)
        BY <2>1, <3>1
      <3>3. \A x \in Int : Spacing * (c - x) = Spacing * (last - x) + Spacing * (c - last)
        BY <1>2, <2>2
      <3> QED BY <3>1, <3>2, <3>3
    <2>6. CreditSince(log2)[n + 1] = 0
      <3>1. c - log2[n + 1].credit = 0
        BY <1>1, <1>5
      <3> QED BY <1>2, <1>9, <2>1, <3>1
    <2> QED BY <1>3, <2>3, <2>4, <2>5, <2>6 DEF OneLonger
  <1>13. log2[n + 1].at = t /\ log2[n + 1].credit = c
    BY <1>1, <1>5
  <1>14. OneHeard(log, log2, t, c)
    BY <1>3, <1>4, <1>7, <1>11, <1>12, <1>13 DEF n, OneHeard
  <1> QED BY <1>14 DEF log2, r

\* What is over what is paid for is over what was owed.
LEMMA OverSum ==
  ASSUME NEW x \in Int, NEW y \in Int, NEW p \in Int, NEW s \in Int, NEW w \in Int,
         p + s > w, p <= x + y
  PROVE  y + s > w - x
  OBVIOUS

\* What is paid for in time is within the time.
LEMMA UnderSum ==
  ASSUME NEW x \in Int, NEW y \in Int, NEW z \in Int, NEW p \in Int, NEW v \in Int,
         NEW w \in Int, x + y <= p + z, p <= v + w
  PROVE  y <= w + v - x + z
  OBVIOUS

\* Allowance::take keeps the message schedule and the bound on what is heard; what it
\* refuses is owed for.
LEMMA TakeKeepsMessages ==
  ASSUME RatesAssumption, RatesTypeOK, MessageSchedule, MessagesBounded, take
  PROVE  /\ MessageSchedule' /\ MessagesBounded' /\ RatesTypeOK' /\ Flooded
  <1> DEFINE n == Len(messages)
             a == CostFrom(n, Spacing)
             g == Spacing * PerTick * ((ticksSent - credited) % Width)
             last == LastCredit(messages)
             r == [at |-> now, credit |-> Credit]
             log2 == Append(messages, r)
  <1>1. /\ Spacing \in Nat \ {0} /\ Burst \in Nat /\ Spacing \in Int /\ Burst \in Int
        /\ MaxTime \in Nat
    BY DEF RatesAssumption
  <1>2. /\ now \in Nat /\ now <= MaxTime /\ paid_until \in Nat
        /\ messages \in Seq([at : 0..now, credit : Nat])
        /\ ticksSent \in 0..(Width - 1)
        /\ each \in [Talkers -> 0..(MaxTime + Lines * LineSpacing) \cup {Unspoken}]
        /\ shared \in 0..(MaxTime + AllLines * AllSpacing)
        /\ lines \in [Talkers -> Seq(0..now)] /\ spoken \in Seq(0..now)
    BY <1>1 DEF RatesTypeOK
  <1>3. /\ Credit \in Nat /\ last \in Nat /\ g \in Nat
        /\ g = Spacing * (Credit - last)
        /\ Paid \in Nat /\ Paid >= now /\ Paid >= paid_until - g
        /\ Paid = now \/ Paid = paid_until - g
        /\ Overspent => g = 0 /\ Paid = paid_until /\ Paid > now
    BY TakeIs, Zenon
  <1>4. /\ now' = now /\ ticksSent' = ticksSent /\ credited' = ticksSent
        /\ each' = each /\ shared' = shared /\ lines' = lines /\ spoken' = spoken
    BY DEF take, chat
  <1>5. /\ paid_until <= now + Burst
        /\ Pays(n, Times(messages), a, CreditSince(messages), paid_until)
        /\ paid_until > now => Owes(n, Times(messages), a, paid_until)
    BY DEF MessageSchedule
  <1>6. OneLonger(n, a, CostFrom(n + 1, Spacing), Spacing, Spacing)
    <2>1. n \in Nat
      BY <1>2
    <2> QED BY <1>1, <2>1, CostGrows
  <1> HIDE DEF a, g, last, n
  <1>7. CASE Overspent
    <2>1. paid_until' = paid_until /\ messages' = messages
      BY <1>3, <1>7 DEF take
    <2>2. MessageSchedule' /\ MessagesBounded' /\ RatesTypeOK'
      BY <1>4, <2>1 DEF MessageSchedule, MessagesBounded, RatesTypeOK
    <2>3. Flooded
      <3>1. Owes(n, Times(messages), a, paid_until) /\ paid_until + Spacing > now + Burst
        BY <1>3, <1>5, <1>7 DEF Overspent
      <3>2. PICK i \in 1..n : paid_until <= Times(messages)[i] + a[i]
        BY <3>1 DEF Owes
      <3>3. i \in DOMAIN messages /\ Times(messages)[i] = messages[i].at
        BY <1>2 DEF Times, n
      <3>4. a[i] \in Int /\ Times(messages)[i] \in Int
        <4>1. a[i] \in Int
          BY <1>6 DEF OneLonger
        <4>2. messages[i] \in [at : 0..now, credit : Nat]
          BY <1>2, ElementOfSeq, Zenon DEF n
        <4> QED BY <3>3, <4>1, <4>2
      <3>5. (n - i + 2) * Spacing = a[i] + Spacing
        <4>1. a[i] = (n - i + 1) * Spacing /\ n - i + 1 \in Int
          BY <1>2 DEF a, CostFrom, n
        <4>2. ((n - i + 1) + 1) * Spacing = (n - i + 1) * Spacing + Spacing
          BY <1>1, <4>1, OneMoreCost
        <4>3. n - i + 2 = (n - i + 1) + 1
          BY <1>2 DEF n
        <4> QED BY <4>1, <4>2, <4>3
      <3>6. (n - i + 2) * Spacing > Burst + now - messages[i].at
        <4> DEFINE w == Burst + now
        <4>1. w \in Int /\ paid_until \in Int /\ paid_until + Spacing > w
          BY <1>1, <1>2, <3>1
        <4>2. messages[i].at \in Int /\ paid_until <= messages[i].at + a[i]
          BY <3>2, <3>3, <3>4
        <4> HIDE DEF w
        <4>3. a[i] + Spacing > w - messages[i].at
          BY <1>1, <3>4, <4>1, <4>2, OverSum
        <4>4. \A z : z = a[i] + Spacing => z > w - messages[i].at
          BY <4>3
        <4>5. (n - i + 2) * Spacing > w - messages[i].at
          BY <3>5, <4>4
        <4>6. w - messages[i].at = Burst + now - messages[i].at
          <5>1. \A x, y, z \in Int : (x + y) - z = x + y - z
            OBVIOUS
          <5>2. now \in Int
            BY <1>2
          <5> QED BY <1>1, <4>2, <5>1, <5>2 DEF w
        <4> QED BY <4>5, <4>6
      <3> QED BY <3>3, <3>6 DEF Flooded, n
    <2> QED BY <2>2, <2>3
  <1>8. CASE ~Overspent
    <2> DEFINE paid2 == Paid + Spacing
               b == CostFrom(n + 1, Spacing)
               e == CreditSince(log2)
               t == Times(log2)
    <2>1. paid_until' = paid2 /\ messages' = log2
      BY <1>8 DEF take
    <2>2. /\ n \in Nat /\ Len(log2) = n + 1 /\ log2 \in Seq([at : 0..now, credit : Nat])
          /\ \A i \in 1..n : log2[i] = messages[i]
          /\ log2[n + 1].at = now /\ log2[n + 1].credit = Credit
          /\ LastCredit(log2) = Credit
          /\ OneLonger(n, Times(messages), t, 0, now)
          /\ OneLonger(n, CreditSince(messages), e, g, 0)
      <3>1. OneHeard(messages, log2, now, Credit)
        BY <1>2, <1>3, MessageGrows, Zenon DEF last
      <3> HIDE DEF log2, r
      <3>2. OneLonger(n, CreditSince(messages), CreditSince(log2), g, 0)
        BY <1>3, <3>1, Zenon DEF OneHeard, n, last
      <3> QED BY <3>1, <3>2 DEF OneHeard, n
    <2>3. paid2 \in Int /\ paid2 >= now + Spacing /\ paid2 >= paid_until - g + Spacing
      BY <1>1, <1>2, <1>3
    <2>4. paid2 <= now + Burst
      BY <1>1, <1>2, <1>3, <1>8 DEF Overspent
    <2> HIDE DEF log2, paid2, e, t, r
    <2>5. Pays(n + 1, t, b, e, paid2)
      <3>1. paid_until \in Int
        BY <1>2
      <3> HIDE DEF b
      <3> QED BY <1>5, <1>6, <2>2, <2>3, <3>1, PaysOneMore DEF b
    <2>6. Owes(n + 1, t, b, paid2)
      <3>1. paid_until \in Int
        BY <1>2
      <3>2. paid2 = now + Spacing \/ (Owes(n, Times(messages), a, paid_until)
                                       /\ paid2 <= paid_until + Spacing)
        <4>1. CASE Paid = now
          BY <4>1 DEF paid2
        <4>2. CASE Paid # now
          <5>1. Paid = paid_until - g /\ paid_until > now
            BY <1>2, <1>3, <4>2
          <5>2. paid2 <= paid_until + Spacing
            BY <1>1, <1>2, <1>3, <5>1 DEF paid2
          <5> QED BY <1>5, <5>1, <5>2
        <4> QED BY <4>1, <4>2
      <3> HIDE DEF b
      <3> QED BY <1>6, <2>2, <2>3, <3>1, <3>2, OwesOneMore DEF b
    <2>7. MessageSchedule'
      <3>1. Len(messages') = n + 1 /\ Times(messages') = t /\ CreditSince(messages') = e
        BY <2>1, <2>2 DEF t, e
      <3>2. /\ paid_until' <= now' + Burst
            /\ Pays(Len(messages'), Times(messages'), CostFrom(Len(messages'), Spacing),
                    CreditSince(messages'), paid_until')
            /\ Owes(Len(messages'), Times(messages'), CostFrom(Len(messages'), Spacing), paid_until')
        BY <1>4, <2>1, <2>4, <2>5, <2>6, <3>1
      <3> QED BY <3>2 DEF MessageSchedule
    <2>8. MessagesBounded'
      <3> DEFINE room(log, i, j) ==
                   Burst + log[j].at - log[i].at + Spacing * (log[j].credit - log[i].credit)
      <3>1. /\ DOMAIN messages = 1..Len(messages) /\ Len(messages) \in Nat
            /\ DOMAIN log2 = 1..Len(log2) /\ Len(log2) \in Nat
        BY <1>2, <2>2
      <3>2. \A j \in 1..n : \A i \in 1..j : CostFrom(j, Spacing)[i] <= room(messages, i, j)
        BY <1>1, <3>1, BoundedIs, Zenon DEF MessagesBounded, n
      <3>3. \A j \in 1..Len(log2) : \A i \in 1..j : CostFrom(j, Spacing)[i] <= room(log2, i, j)
        <4> SUFFICES ASSUME NEW j \in 1..(n + 1), NEW i \in 1..j
                     PROVE  CostFrom(j, Spacing)[i] <= room(log2, i, j)
          BY <2>2, Zenon
        <4>1. CASE j \in 1..n
          <5>1. i \in 1..n
            BY <2>2, <4>1
          <5>2. log2[i] = messages[i] /\ log2[j] = messages[j]
            BY <2>2, <4>1, <5>1
          <5> QED BY <3>2, <4>1, <5>2, Zenon
        <4>2. CASE j = n + 1
          <5>1. i \in 1..(n + 1)
            BY <4>2
          <5>2. t[i] + b[i] <= paid2 + e[i]
            BY <2>5, <5>1 DEF Pays
          <5>3. t[i] = log2[i].at /\ e[i] = Spacing * (Credit - log2[i].credit)
            BY <2>2, <5>1 DEF t, e, Times, CreditSince
          <5>4. t[i] \in Int /\ b[i] \in Int /\ e[i] \in Int
            BY <1>6, <2>2, <5>1 DEF OneLonger
          <5>5. b[i] <= Burst + now - t[i] + e[i]
            <6>1. now \in Int
              BY <1>2
            <6> HIDE DEF b
            <6> QED BY <1>1, <2>3, <2>4, <5>2, <5>4, <6>1, UnderSum
          <5>6. room(log2, i, j) = Burst + now - t[i] + e[i]
            BY <2>2, <4>2, <5>3
          <5> QED BY <4>2, <5>5, <5>6
        <4>3. j \in 1..n \/ j = n + 1
          BY <2>2
        <4> QED BY <4>1, <4>2, <4>3
      <3>4. \A i, j \in DOMAIN log2 : i <= j => (j - i + 1) * Spacing <= room(log2, i, j)
        BY <1>1, <3>1, <3>3, BoundedIs, Zenon
      <3> QED BY <2>1, <3>4 DEF MessagesBounded
    <2>9. RatesTypeOK'
      <3>1. paid_until' \in 0..(MaxTime + Burst)
        BY <1>1, <1>2, <2>1, <2>3, <2>4
      <3>2. {ticksSent, credited}' \subseteq 0..(Width - 1)
        BY <1>2, <1>4
      <3> QED BY <1>2, <1>4, <2>1, <2>2, <3>1, <3>2 DEF RatesTypeOK
    <2>10. Flooded
      <3>1. messages' # messages
        BY <2>1, <2>2 DEF n
      <3> QED BY <3>1 DEF Flooded
    <2> QED BY <2>7, <2>8, <2>9, <2>10
  <1> QED BY <1>7, <1>8

\* What the constants of Rates are.
LEMMA RatesNumbers ==
  ASSUME RatesAssumption
  PROVE  /\ LineSpacing \in Nat \ {0} /\ Lines \in Nat \ {0}
         /\ AllSpacing \in Nat \ {0} /\ AllLines \in Nat \ {0}
         /\ Spacing \in Nat \ {0} /\ Width \in Nat \ {0}
         /\ Burst \in Nat /\ MaxTime \in Nat /\ Unspoken \notin Nat
         /\ Lines * LineSpacing \in Nat /\ AllLines * AllSpacing \in Nat
         /\ LineSpacing * Lines = Lines * LineSpacing
         /\ AllSpacing * AllLines = AllLines * AllSpacing
  <1>1. /\ LineSpacing \in Nat \ {0} /\ Lines \in Nat \ {0}
        /\ AllSpacing \in Nat \ {0} /\ AllLines \in Nat \ {0}
        /\ Spacing \in Nat \ {0} /\ Width \in Nat \ {0}
        /\ Burst \in Nat /\ MaxTime \in Nat /\ Unspoken \notin Nat
    BY DEF RatesAssumption
  <1>2. Lines * LineSpacing \in Nat /\ AllLines * AllSpacing \in Nat
    BY <1>1, ProductNat
  <1>3. \A x, y \in Nat : x * y = y * x
    OBVIOUS
  <1> QED BY <1>1, <1>2, <1>3

\* A talker that has not talked has a schedule that is paid; any other its own.
LEMMA OwnIs ==
  ASSUME RatesAssumption, RatesTypeOK, LineSchedules, NEW c \in Talkers
  PROVE  /\ Own(c) \in Nat /\ Own(c) <= MaxTime + Lines * LineSpacing
         /\ PaysFor(lines[c], Own(c), LineSpacing) /\ OwedFrom(lines[c], Own(c), LineSpacing)
         /\ Own(c) # Unspoken
  <1>1. /\ now \in Nat /\ now <= MaxTime /\ MaxTime \in Nat /\ Lines * LineSpacing \in Nat
        /\ each[c] \in 0..(MaxTime + Lines * LineSpacing) \cup {Unspoken} /\ Unspoken \notin Nat
    BY RatesNumbers DEF RatesTypeOK
  <1>2. CASE each[c] = Unspoken
    <2>1. Own(c) = now /\ lines[c] = <<>>
      BY <1>2 DEF Own, LineSchedules
    <2>2. PaysFor(<<>>, now, LineSpacing) /\ OwedFrom(<<>>, now, LineSpacing)
      BY <1>1 DEF PaysFor, OwedFrom
    <2> QED BY <1>1, <2>1, <2>2
  <1>3. CASE each[c] # Unspoken
    <2>1. Own(c) = each[c]
      BY <1>3 DEF Own
    <2>2. each[c] \in Nat /\ each[c] <= MaxTime + Lines * LineSpacing
      BY <1>1, <1>3
    <2> QED BY <1>3, <2>1, <2>2 DEF LineSchedules
  <1> QED BY <1>2, <1>3

\* A talker held back owes it to lines it said.
LEMMA HeldForLines ==
  ASSUME RatesAssumption, RatesInv
  PROVE  OwnLinesOnly
  <1> SUFFICES ASSUME NEW c \in Talkers, HeldBack(c)
               PROVE  \E i \in DOMAIN lines[c] :
                        (Len(lines[c]) - i + 2) * LineSpacing
                           > LineSpacing * Lines + now - lines[c][i]
    BY DEF OwnLinesOnly
  <1> DEFINE log == lines[c]
             n == Len(log)
             a == CostFrom(n, LineSpacing)
             most == LineSpacing * Lines
  <1>1. LineSpacing \in Nat \ {0} /\ Lines \in Nat \ {0} /\ most \in Nat
    BY RatesNumbers
  <1>2. now \in Nat /\ log \in Seq(0..now)
    BY RatesNumbers DEF RatesInv, RatesTypeOK
  <1>3. Own(c) \in Nat /\ OwedFrom(log, Own(c), LineSpacing)
    BY OwnIs DEF RatesInv
  <1>4. LineSpacing * (Lines - 1) \in Nat /\ LineSpacing * (Lines - 1) + LineSpacing = most
    <2>1. Lines - 1 \in Nat
      BY <1>1
    <2>2. LineSpacing * (Lines - 1) \in Nat
      BY <1>1, <2>1, ProductNat
    <2>3. LineSpacing * (Lines - 1) + LineSpacing = most
      BY <1>1
    <2> QED BY <2>2, <2>3
  <1>5. Own(c) > now /\ Own(c) + LineSpacing > most + now
    <2>1. Later(Own(c), now) > now + LineSpacing * (Lines - 1)
      BY DEF HeldBack, TooFast
    <2> HIDE DEF most
    <2>2. Later(Own(c), now) \in {Own(c), now}
      BY DEF Later
    <2>3. \A x \in Nat : x > now + LineSpacing * (Lines - 1) => x > now /\ x + LineSpacing > most + now
      BY <1>1, <1>2, <1>4
    <2>4. now + LineSpacing * (Lines - 1) \in Nat /\ ~(now > now + LineSpacing * (Lines - 1))
      BY <1>2, <1>4
    <2> QED BY <1>2, <1>3, <2>1, <2>2, <2>3, <2>4
  <1>6. PICK i \in 1..n : Own(c) <= log[i] + a[i]
    BY <1>3, <1>5 DEF OwedFrom
  <1>7. n \in Nat /\ i \in DOMAIN log /\ log[i] \in Int
    BY <1>2
  <1>8. a[i] = (n - i + 1) * LineSpacing /\ a[i] \in Int
    <2>1. n - i + 1 \in Int
      BY <1>7
    <2>2. a[i] = (n - i + 1) * LineSpacing
      BY DEF CostFrom
    <2> QED BY <1>1, <2>1, <2>2, ProductInt
  <1>9. (n - i + 2) * LineSpacing = a[i] + LineSpacing
    <2>1. n - i + 1 \in Int /\ n - i + 2 = (n - i + 1) + 1
      BY <1>7
    <2>2. ((n - i + 1) + 1) * LineSpacing = (n - i + 1) * LineSpacing + LineSpacing
      BY <1>1, <2>1, OneMoreCost
    <2> QED BY <1>8, <2>1, <2>2
  <1> HIDE DEF most, a, n, log
  <1>10. \A z : z = a[i] + LineSpacing => z > most + now - log[i]
    <2> DEFINE w == most + now
               p == Own(c)
    <2>1. w \in Int /\ p \in Int /\ LineSpacing \in Int /\ p + LineSpacing > w
      BY <1>1, <1>2, <1>3, <1>5
    <2>2. log[i] \in Int /\ a[i] \in Int /\ p <= log[i] + a[i]
      BY <1>6, <1>7, <1>8
    <2> HIDE DEF w, p
    <2>3. a[i] + LineSpacing > w - log[i]
      BY <2>1, <2>2, OverSum
    <2>4. w - log[i] = most + now - log[i]
      BY <1>1, <1>2, <2>2 DEF w
    <2> QED BY <2>3, <2>4
  <1>11. (n - i + 2) * LineSpacing > most + now - log[i]
    BY <1>9, <1>10
  <1> QED BY <1>7, <1>11 DEF most, n, log

\* Rates::take keeps the schedules of lines and their bounds.
LEMMA LineKeepsRates ==
  ASSUME RatesAssumption, RatesInv, NEW c \in Talkers, take_line(c)
  PROVE  RatesInv'
  <1>1. /\ LineSpacing \in Nat \ {0} /\ Lines \in Nat \ {0}
        /\ AllSpacing \in Nat \ {0} /\ AllLines \in Nat \ {0}
        /\ MaxTime \in Nat /\ Unspoken \notin Nat
        /\ Lines * LineSpacing \in Nat /\ AllLines * AllSpacing \in Nat
        /\ LineSpacing * Lines = Lines * LineSpacing
        /\ AllSpacing * AllLines = AllLines * AllSpacing
    BY RatesNumbers
  <1>2. /\ now \in Nat /\ now <= MaxTime /\ now \in 0..MaxTime
        /\ each \in [Talkers -> 0..(MaxTime + Lines * LineSpacing) \cup {Unspoken}]
        /\ shared \in 0..(MaxTime + AllLines * AllSpacing) /\ shared \in Nat
        /\ lines \in [Talkers -> Seq(0..now)] /\ spoken \in Seq(0..now)
        /\ paid_until \in 0..(MaxTime + Burst) /\ {ticksSent, credited} \subseteq 0..(Width - 1)
        /\ messages \in Seq([at : 0..now, credit : Nat])
    BY <1>1 DEF RatesInv, RatesTypeOK
  <1>3. /\ now' = now /\ paid_until' = paid_until /\ ticksSent' = ticksSent
        /\ credited' = credited /\ messages' = messages
    BY DEF take_line, allowance
  <1>4. MessageSchedule' /\ MessagesBounded'
    BY <1>3 DEF RatesInv, MessageSchedule, MessagesBounded
  <1>5. /\ Own(c) \in Nat /\ Own(c) <= MaxTime + Lines * LineSpacing /\ Own(c) # Unspoken
        /\ PaysFor(lines[c], Own(c), LineSpacing) /\ OwedFrom(lines[c], Own(c), LineSpacing)
    BY OwnIs DEF RatesInv
  <1>6. /\ \A d \in Talkers : IF each[d] = Unspoken THEN lines[d] = <<>>
             ELSE PaysFor(lines[d], each[d], LineSpacing) /\ OwedFrom(lines[d], each[d], LineSpacing)
        /\ PaysFor(spoken, shared, AllSpacing)
        /\ \A d \in Talkers : Unpaid(lines[d], LineSpacing, Lines)
        /\ Unpaid(spoken, AllSpacing, AllLines)
    BY DEF RatesInv, LineSchedules, LinesBounded
  <1> DEFINE refused == HeldBack(c) \/ (c \in Spectators /\ TooFast(shared, AllSpacing, AllLines))
  <1>7. CASE refused
    <2>1. each' = [each EXCEPT ![c] = Own(c)] /\ shared' = shared /\ lines' = lines /\ spoken' = spoken
      BY <1>7 DEF take_line
    <2>2. RatesTypeOK'
      <3>1. Own(c) \in 0..(MaxTime + Lines * LineSpacing)
        BY <1>1, <1>5
      <3> QED BY <1>2, <1>3, <2>1, <3>1 DEF RatesTypeOK
    <2>3. LineSchedules'
      <3>1. \A d \in Talkers : each'[d] = IF d = c THEN Own(c) ELSE each[d]
        BY <1>2, <2>1
      <3> QED BY <1>3, <1>5, <1>6, <2>1, <3>1 DEF LineSchedules, OwedFrom, PaysFor
    <2>4. LinesBounded'
      BY <1>6, <2>1 DEF LinesBounded
    <2> QED BY <1>4, <2>2, <2>3, <2>4 DEF RatesInv
  <1>8. CASE ~refused
    <2> DEFINE log2 == Append(lines[c], now)
               paid2 == Later(Own(c), now) + LineSpacing
    <2>1. each' = [each EXCEPT ![c] = paid2] /\ lines' = [lines EXCEPT ![c] = log2]
      BY <1>8 DEF take_line
    <2>2. /\ PaysFor(log2, paid2, LineSpacing) /\ Unpaid(log2, LineSpacing, Lines)
          /\ paid2 \in Nat /\ paid2 <= now + LineSpacing * Lines
          /\ OwedFrom(log2, paid2, LineSpacing) /\ log2 \in Seq(0..now)
      <3>1. ~TooFast(Own(c), LineSpacing, Lines) /\ lines[c] \in Seq(0..now)
        BY <1>2, <1>8 DEF HeldBack
      <3> QED BY <1>1, <1>2, <1>5, <1>6, <3>1, TakeKeepsSchedule, Zenon
    <2> HIDE DEF log2, paid2
    <2>3. paid2 \in 0..(MaxTime + Lines * LineSpacing) /\ paid2 # Unspoken
      BY <1>1, <1>2, <2>2
    <2>4. \A d \in Talkers : /\ each'[d] = IF d = c THEN paid2 ELSE each[d]
                             /\ lines'[d] = IF d = c THEN log2 ELSE lines[d]
      BY <1>2, <2>1
    <2>5. /\ shared' \in 0..(MaxTime + AllLines * AllSpacing) /\ spoken' \in Seq(0..now)
          /\ PaysFor(spoken', shared', AllSpacing) /\ Unpaid(spoken', AllSpacing, AllLines)
      <3>1. CASE c \in Spectators
        <4> DEFINE all2 == Append(spoken, now)
                   due2 == Later(shared, now) + AllSpacing
        <4>1. ~TooFast(shared, AllSpacing, AllLines) /\ shared' = due2 /\ spoken' = all2
          BY <1>8, <3>1 DEF take_line
        <4>2. /\ PaysFor(all2, due2, AllSpacing) /\ Unpaid(all2, AllSpacing, AllLines)
              /\ due2 \in Nat /\ due2 <= now + AllSpacing * AllLines /\ all2 \in Seq(0..now)
          BY <1>1, <1>2, <1>6, <4>1, TakeKeepsSchedule, Zenon
        <4> HIDE DEF all2, due2
        <4>3. due2 \in 0..(MaxTime + AllLines * AllSpacing)
          BY <1>1, <1>2, <4>2
        <4> QED BY <4>1, <4>2, <4>3
      <3>2. CASE c \notin Spectators
        <4>1. shared' = shared /\ spoken' = spoken
          BY <1>8, <3>2 DEF take_line
        <4> QED BY <1>2, <1>6, <4>1
      <3> QED BY <3>1, <3>2
    <2>6. RatesTypeOK'
      <3>1. each' \in [Talkers -> 0..(MaxTime + Lines * LineSpacing) \cup {Unspoken}]
        BY <1>2, <2>1, <2>3
      <3>2. lines' \in [Talkers -> Seq(0..now)]
        BY <1>2, <2>1, <2>2
      <3> QED BY <1>2, <1>3, <2>5, <3>1, <3>2 DEF RatesTypeOK
    <2>7. LineSchedules'
      BY <1>3, <1>6, <2>2, <2>3, <2>4, <2>5 DEF LineSchedules, OwedFrom, PaysFor
    <2>8. LinesBounded'
      BY <1>6, <2>2, <2>4, <2>5 DEF LinesBounded
    <2> QED BY <1>4, <2>6, <2>7, <2>8 DEF RatesInv
  <1> QED BY <1>7, <1>8

\* The clock only makes the schedules less far ahead.
LEMMA ClockKeepsRates ==
  ASSUME RatesAssumption, RatesInv, clock
  PROVE  RatesInv'
  <1>1. /\ now \in Nat /\ now' = now + 1 /\ now' \in 0..MaxTime
        /\ paid_until' = paid_until /\ ticksSent' = ticksSent /\ credited' = credited
        /\ messages' = messages /\ each' = each /\ shared' = shared /\ lines' = lines
        /\ spoken' = spoken
    BY RatesNumbers DEF clock, allowance, chat, RatesInv, RatesTypeOK
  <1>2. RatesTypeOK'
    <2>1. /\ now \in 0..MaxTime
          /\ paid_until \in 0..(MaxTime + Burst) /\ {ticksSent, credited} \subseteq 0..(Width - 1)
          /\ each \in [Talkers -> 0..(MaxTime + Lines * LineSpacing) \cup {Unspoken}]
          /\ shared \in 0..(MaxTime + AllLines * AllSpacing)
          /\ messages \in Seq([at : 0..now, credit : Nat])
          /\ lines \in [Talkers -> Seq(0..now)] /\ spoken \in Seq(0..now)
      BY DEF RatesInv, RatesTypeOK
    <2>2. 0..now \subseteq 0..now'
      BY <1>1
    <2>3. [at : 0..now, credit : Nat] \subseteq [at : 0..now', credit : Nat]
      BY <2>2
    <2>4. ASSUME NEW S, NEW T, S \subseteq T PROVE Seq(S) \subseteq Seq(T)
      BY <2>4
    <2>5. /\ Seq(0..now) \subseteq Seq(0..now')
          /\ Seq([at : 0..now, credit : Nat]) \subseteq Seq([at : 0..now', credit : Nat])
      BY <2>2, <2>3, <2>4, Zenon
    <2>6. lines' \in [Talkers -> Seq(0..now')] /\ spoken' \in Seq(0..now')
      BY <1>1, <2>1, <2>5
    <2>7. messages' \in Seq([at : 0..now', credit : Nat])
      BY <1>1, <2>1, <2>5
    <2> QED BY <1>1, <2>1, <2>6, <2>7 DEF RatesTypeOK
  <1>3. MessageSchedule'
    <2>1. /\ paid_until \in Nat /\ Burst \in Nat /\ paid_until <= now + Burst
          /\ paid_until > now => Owes(Len(messages), Times(messages),
                                      CostFrom(Len(messages), Spacing), paid_until)
          /\ Pays(Len(messages), Times(messages), CostFrom(Len(messages), Spacing),
                  CreditSince(messages), paid_until)
      BY RatesNumbers DEF RatesInv, RatesTypeOK, MessageSchedule
    <2>2. paid_until <= now' + Burst /\ (paid_until > now' => paid_until > now)
      BY <1>1, <2>1
    <2> QED BY <1>1, <2>1, <2>2 DEF MessageSchedule
  <1>4. LineSchedules'
    <2>1. /\ \A d \in Talkers : IF each[d] = Unspoken THEN lines[d] = <<>>
               ELSE PaysFor(lines[d], each[d], LineSpacing) /\ OwedFrom(lines[d], each[d], LineSpacing)
          /\ PaysFor(spoken, shared, AllSpacing)
      BY DEF RatesInv, LineSchedules
    <2>2. ASSUME NEW d \in Talkers, each[d] # Unspoken
          PROVE  each[d] > now' => each[d] > now
      <3>1. each[d] \in Nat
        BY <2>2, RatesNumbers DEF RatesInv, RatesTypeOK
      <3> QED BY <1>1, <3>1
    <2>3. ASSUME NEW d \in Talkers, each[d] # Unspoken
          PROVE  each[d] > now' => \E i \in 1..Len(lines[d]) :
                    each[d] <= lines[d][i] + CostFrom(Len(lines[d]), LineSpacing)[i]
      BY <2>1, <2>2, <2>3, Zenon DEF OwedFrom
    <2>4. /\ PaysFor(spoken, shared, AllSpacing)' <=> PaysFor(spoken, shared, AllSpacing)
          /\ \A d \in Talkers : PaysFor(lines[d], each[d], LineSpacing)'
                                  <=> PaysFor(lines[d], each[d], LineSpacing)
      BY <1>1 DEF PaysFor
    <2>5. ASSUME NEW d \in Talkers, each[d] # Unspoken PROVE OwedFrom(lines[d], each[d], LineSpacing)'
      BY <1>1, <2>3, <2>5 DEF OwedFrom
    <2> QED BY <1>1, <2>1, <2>4, <2>5 DEF LineSchedules
  <1>5. MessagesBounded' /\ LinesBounded'
    BY <1>1 DEF RatesInv, MessagesBounded, LinesBounded, Unpaid
  <1> QED BY <1>2, <1>3, <1>4, <1>5 DEF RatesInv

\* A tick sent changes no schedule before the next message.
LEMMA TickKeepsRates ==
  ASSUME RatesAssumption, RatesInv, send_tick
  PROVE  RatesInv'
  <1>1. /\ now' = now /\ paid_until' = paid_until /\ credited' = credited
        /\ messages' = messages /\ each' = each /\ shared' = shared /\ lines' = lines
        /\ spoken' = spoken /\ ticksSent' = (ticksSent + 1) % Width
    BY DEF send_tick, chat
  <1>2. ticksSent' \in 0..(Width - 1)
    <2>0. Width \in Nat \ {0}
      BY RatesNumbers
    <2>1. ticksSent + 1 \in Int /\ Width \in Nat \ {0}
      <3>1. ticksSent \in 0..(Width - 1)
        BY DEF RatesInv, RatesTypeOK
      <3> QED BY <2>0, <3>1
    <2>2. (ticksSent + 1) % Width \in Nat /\ (ticksSent + 1) % Width < Width
      BY <2>1, ModRange
    <2> QED BY <1>1, <2>1, <2>2
  <1>3. RatesTypeOK'
    BY <1>1, <1>2 DEF RatesInv, RatesTypeOK
  <1> QED BY <1>1, <1>3
       DEF RatesInv, MessageSchedule, LineSchedules, PaysFor, OwedFrom, MessagesBounded,
           LinesBounded, Unpaid

\* Rates::forget leaves nothing of the talker, and the spectators' schedule as it is.
LEMMA ForgetKeepsRates ==
  ASSUME RatesAssumption, RatesInv, NEW c \in Talkers, forget(c)
  PROVE  RatesInv'
  <1>1. /\ now' = now /\ paid_until' = paid_until /\ credited' = credited
        /\ messages' = messages /\ shared' = shared /\ spoken' = spoken
        /\ ticksSent' = ticksSent
        /\ each' = [each EXCEPT ![c] = Unspoken] /\ lines' = [lines EXCEPT ![c] = <<>>]
    BY DEF forget, allowance
  <1>2. RatesTypeOK'
    <2>1. <<>> \in Seq(0..now)
      OBVIOUS
    <2> QED BY <1>1, <2>1 DEF RatesInv, RatesTypeOK
  <1>3. \A d \in Talkers : /\ each'[d] = IF d = c THEN Unspoken ELSE each[d]
                           /\ lines'[d] = IF d = c THEN <<>> ELSE lines[d]
    BY <1>1 DEF RatesInv, RatesTypeOK
  <1>4. Unpaid(<<>>, LineSpacing, Lines)
    BY DEF Unpaid
  <1>5. MessageSchedule' /\ MessagesBounded'
    BY <1>1 DEF RatesInv, MessageSchedule, MessagesBounded
  <1>6. LineSchedules'
    BY <1>1, <1>3 DEF RatesInv, LineSchedules, PaysFor, OwedFrom
  <1>7. LinesBounded'
    BY <1>1, <1>3, <1>4 DEF RatesInv, LinesBounded
  <1> QED BY <1>2, <1>5, <1>6, <1>7 DEF RatesInv

\* Nobody has sent or said anything.
LEMMA RatesStart ==
  ASSUME RatesAssumption, RatesInit
  PROVE  RatesInv
  <1>1. RatesTypeOK
    <2>1. /\ MaxTime + Burst \in Nat /\ MaxTime \in Nat /\ Width - 1 \in Nat
          /\ MaxTime + Lines * LineSpacing \in Nat /\ MaxTime + AllLines * AllSpacing \in Nat
      BY RatesNumbers
    <2> QED BY <2>1 DEF RatesInit, RatesTypeOK
  <1>2. MessageSchedule
    <2>1. Burst \in Nat
      BY RatesNumbers
    <2> QED BY <2>1 DEF RatesInit, MessageSchedule, Pays, Owes
  <1>3. LineSchedules
    BY DEF RatesInit, LineSchedules, PaysFor
  <1>4. MessagesBounded
    BY DEF RatesInit, MessagesBounded
  <1>5. LinesBounded
    BY DEF RatesInit, LinesBounded, Unpaid
  <1> QED BY <1>1, <1>2, <1>3, <1>4, <1>5 DEF RatesInv

\* Every step of Rates keeps the invariant, and refuses only what is owed for.
LEMMA RatesKeepInv ==
  ASSUME RatesAssumption, RatesInv, [RatesNext]_ratesVars
  PROVE  RatesInv' /\ [Flooded]_ratesVars
  <1>1. CASE clock
    <2>1. RatesInv'
      BY <1>1, ClockKeepsRates
    <2>2. now' # now
      BY <1>1 DEF clock, RatesInv, RatesTypeOK
    <2>3. take => now' = now
      BY DEF take
    <2> QED BY <2>1, <2>2, <2>3 DEF Flooded
  <1>2. CASE take
    <2>1. MessageSchedule' /\ MessagesBounded' /\ RatesTypeOK' /\ Flooded
      BY <1>2, TakeKeepsMessages DEF RatesInv
    <2>2. /\ now' = now /\ each' = each /\ shared' = shared /\ lines' = lines /\ spoken' = spoken
      BY <1>2 DEF take, chat
    <2>3. LineSchedules' /\ LinesBounded'
      BY <2>2 DEF RatesInv, LineSchedules, LinesBounded, PaysFor, OwedFrom, Unpaid
    <2> QED BY <2>1, <2>3 DEF RatesInv
  <1>3. CASE ~take /\ ~clock
    <2>1. [Flooded]_ratesVars
      BY <1>3 DEF Flooded
    <2>2. CASE send_tick
      BY <2>1, <2>2, TickKeepsRates
    <2>3. CASE \E c \in Talkers : take_line(c) \/ forget(c)
      BY <2>1, <2>3, LineKeepsRates, ForgetKeepsRates
    <2>4. CASE UNCHANGED ratesVars
      <3>1. RatesInv'
        BY <2>4 DEF ratesVars, allowance, chat, RatesInv, RatesTypeOK, MessageSchedule,
              LineSchedules, PaysFor, OwedFrom, MessagesBounded, LinesBounded, Unpaid
      <3> QED BY <2>1, <3>1
    <2> QED BY <1>3, <2>2, <2>3, <2>4 DEF RatesNext
  <1> QED BY <1>1, <1>2, <1>3

\* Theorem: every schedule pays for all that was taken on it, from any message or line
\* on, and is never further ahead of now than what was taken since one of them.
THEOREM RatesInvariant ==
  ASSUME RatesAssumption
  PROVE  RatesSpec => []RatesInv
  <1>1. RatesInit => RatesInv
    BY RatesStart
  <1>2. RatesInv /\ [RatesNext]_ratesVars => RatesInv'
    BY RatesKeepInv
  <1> QED BY <1>1, <1>2, PTL DEF RatesSpec

\* Theorem: nobody is heard faster than its rate, over any stretch of time, and nobody is
\* cut off or held back but for being faster (Allowance::take, Rates::take).
THEOREM RatesAreHeld ==
  ASSUME RatesAssumption
  PROVE  RatesSpec => RatesHold
  <1>1. RatesInv => RatesTypeOK /\ Paced
    BY HeldForLines DEF RatesInv, Paced
  <1>2. RatesInv /\ [RatesNext]_ratesVars => [Flooded]_ratesVars
    BY RatesKeepInv
  <1> QED BY <1>1, <1>2, RatesInvariant, PTL DEF RatesSpec, RatesHold
=============================================================================
