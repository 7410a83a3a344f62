--------------------------- MODULE NetworkProofs ---------------------------
(***************************************************************************)
(* Proofs about Admission, for any sources, bounds, seats and messages: the *)
(* server's lists stay bounded and in agreement, and a newcomer costs      *)
(* nobody its place who said Hello or whose source holds less.  And about  *)
(* ClientLink, for any number of breaks, attempts and orders: the link ends *)
(* only for a cause, and the server takes each order once and in order.    *)
(* And about LuaWorker, for any teams, ticks and permits: a turn is used in *)
(* its own tick or never, and remembered so.  And about ReplayWriter, for  *)
(* any caps, sizes and failures: a replay keeps its cap, holds no hole and *)
(* says when it was cut.  And about Ledger, for any places and numbers of  *)
(* orders, deaths and connections: what a client takes for settled was its *)
(* own order, and what it leaves unsent as a repeat stands.  And about     *)
(* LateFeed, for any delay and whoever watches: lines are heard in order,  *)
(* once, by their own side, and never before the tick they were said on.   *)
(***************************************************************************)
EXTENDS Admission, ClientLink, LuaWorker, ReplayWriter, Ledger, LateFeed,
        FiniteSetTheorems, SequenceTheorems, TLAPS

\* A number is given out once: whatever names a connection names one adopted,
\* and no thread runs for one that is not.
Fresh ==
    /\ conns \cup parting \cup writer \cup welcomed \subseteq 1..(next_player - 1)
    /\ \A i \in Ids : i >= next_player => reader[i] = "none"
    /\ \A s \in Seats : roster[s] # None => roster[s] < next_player

\* Whoever is listed and said Hello has a public number, and was welcomed.
Numbered ==
    /\ told \subseteq welcomed
    /\ \A i \in conns : greeted(i) => i \in told

\* RoomBounded is not inductive: that a connection which loses its seat is no
\* stranger its source must answer for takes Numbered, and that a newcomer is
\* nobody already listed or seated takes Fresh.
RoomInv == RoomBounded /\ Fresh /\ Numbered

\* The strangers of p's site.
OfSite(ids, p) == {i \in ids : from[i] # NoSource /\ Site[from[i]] = Site[p]}

-----------------------------------------------------------------------------
(* Counting connections. *)

LEMMA CountsOfIds ==
    ASSUME AdmissionAssumption, NEW S \in SUBSET Ids
    PROVE  IsFiniteSet(S) /\ Cardinality(S) \in Nat
  <1>1. MaxIds \in Nat
    BY DEF AdmissionAssumption
  <1>2. 1 \in Int /\ MaxIds \in Int
    BY <1>1
  <1>3. IsFiniteSet(Ids)
    BY <1>2, FS_Interval DEF Ids
  <1>4. IsFiniteSet(S)
    BY <1>3, FS_Subset
  <1> QED
    BY <1>4, FS_CardinalityType

LEMMA Fewer ==
    ASSUME AdmissionAssumption, NEW S \in SUBSET Ids, NEW T, T \subseteq S, NEW n \in Nat,
           Cardinality(S) <= n
    PROVE  Cardinality(T) <= n
  <1>1. T \in SUBSET Ids
    OBVIOUS
  <1>2. Cardinality(T) <= Cardinality(S)
    BY CountsOfIds, FS_Subset
  <1>3. Cardinality(T) \in Nat /\ Cardinality(S) \in Nat
    BY <1>1, CountsOfIds
  <1> QED
    BY <1>2, <1>3

LEMMA OneMore ==
    ASSUME AdmissionAssumption, NEW S \in SUBSET Ids, NEW x \in Ids, NEW T,
           T \subseteq S \cup {x}, NEW n \in Nat, Cardinality(S) < n
    PROVE  Cardinality(T) <= n
  <1>1. IsFiniteSet(S) /\ Cardinality(S) \in Nat
    BY CountsOfIds
  <1>2. Cardinality(S \cup {x}) = IF x \in S THEN Cardinality(S) ELSE Cardinality(S) + 1
    BY <1>1, FS_AddElement
  <1>3. Cardinality(S \cup {x}) <= n
    BY <1>1, <1>2
  <1> QED
    BY <1>3, Fewer

-----------------------------------------------------------------------------
(* What a step leaves bounded. *)

\* No stranger is new and none is from elsewhere: the sources' bounds stand.
LEMMA SourcesKept ==
    ASSUME AdmissionAssumption, RoomInv,
           strangers' \ welcomed' \subseteq strangers \ welcomed,
           \A i \in strangers' : from'[i] = from[i]
    PROVE  SourcesBounded'
  <1> DEFINE s == strangers \ welcomed
             t == strangers' \ welcomed'
  <1>1. s \in SUBSET Ids
    BY DEF RoomInv, RoomBounded, TypeOK, strangers
  <1>2. MaxPerSource \in Nat /\ MaxPerSite \in Nat
    BY DEF AdmissionAssumption
  <1>3. ASSUME NEW p \in Sources
        PROVE  /\ Cardinality({i \in t : from'[i] = p}) <= MaxPerSource
               /\ Cardinality({i \in t : from'[i] # NoSource /\ Site[from'[i]] = Site[p]})
                      <= MaxPerSite
    <2>1. /\ Cardinality(Of(s, p)) <= MaxPerSource
          /\ Cardinality(OfSite(s, p)) <= MaxPerSite
      BY DEF RoomInv, RoomBounded, SourcesBounded, OfSite
    <2>2. /\ Of(s, p) \in SUBSET Ids /\ {i \in t : from'[i] = p} \subseteq Of(s, p)
          /\ OfSite(s, p) \in SUBSET Ids
          /\ {i \in t : from'[i] # NoSource /\ Site[from'[i]] = Site[p]} \subseteq OfSite(s, p)
      BY <1>1 DEF Of, OfSite
    <2> QED
      BY <1>2, <2>1, <2>2, Fewer
  <1> QED
    BY <1>3 DEF SourcesBounded, Of

\* A newcomer from p, whose source and site had room for it.
LEMMA SourcesGrow ==
    ASSUME AdmissionAssumption, RoomInv, NEW p \in Peers, NEW x \in Ids,
           strangers' \ welcomed' \subseteq (strangers \ welcomed) \cup {x},
           \A i \in strangers' : from'[i] = IF i = x THEN p ELSE from[i],
           ~over_bound(p, strangers, MaxPerSource, MaxPerSite)
    PROVE  SourcesBounded'
  <1> DEFINE s == strangers \ welcomed
             t == strangers' \ welcomed'
  <1>1. s \in SUBSET Ids /\ strangers \in SUBSET Ids
    BY DEF RoomInv, RoomBounded, TypeOK, strangers
  <1>2. MaxPerSource \in Nat /\ MaxPerSite \in Nat
    BY DEF AdmissionAssumption
  <1>3. ASSUME NEW q \in Sources
        PROVE  Cardinality({i \in t : from'[i] = q}) <= MaxPerSource
    <2>1. Cardinality(Of(s, q)) <= MaxPerSource
      BY DEF RoomInv, RoomBounded, SourcesBounded
    <2>2. Of(s, q) \in SUBSET Ids /\ Of(strangers, q) \in SUBSET Ids
      BY <1>1 DEF Of
    <2>3. CASE q # p
      <3>1. {i \in t : from'[i] = q} \subseteq Of(s, q)
        BY <2>3 DEF Of
      <3> QED
        BY <1>2, <2>1, <2>2, <3>1, Fewer
    <2>4. CASE q = p
      <3>1. {i \in t : from'[i] = q} \subseteq Of(strangers, q) \cup {x}
        BY <2>4 DEF Of
      <3>2. Cardinality(Of(strangers, q)) < MaxPerSource
        <4>1. p # NoSource
          BY <2>4 DEF AdmissionAssumption
        <4>2. ~(Cardinality(Of(strangers, q)) >= MaxPerSource)
          BY <2>4, <4>1 DEF over_bound
        <4>3. Cardinality(Of(strangers, q)) \in Nat
          BY <2>2, CountsOfIds
        <4> QED
          BY <1>2, <4>2, <4>3
      <3> QED
        BY <1>2, <2>2, <3>1, <3>2, OneMore
    <2> QED
      BY <2>3, <2>4
  <1>4. ASSUME NEW q \in Sources
        PROVE  Cardinality({i \in t : from'[i] # NoSource /\ Site[from'[i]] = Site[q]})
                   <= MaxPerSite
    <2> DEFINE site == {i \in t : from'[i] # NoSource /\ Site[from'[i]] = Site[q]}
    <2>1. Cardinality(OfSite(s, q)) <= MaxPerSite
      BY DEF RoomInv, RoomBounded, SourcesBounded, OfSite
    <2>2. OfSite(s, q) \in SUBSET Ids /\ OfSite(strangers, q) \in SUBSET Ids
      BY <1>1 DEF OfSite
    <2>3. CASE p = NoSource \/ Site[p] # Site[q]
      <3>1. site \subseteq OfSite(s, q)
        BY <2>3 DEF OfSite
      <3> QED
        BY <1>2, <2>1, <2>2, <3>1, Fewer
    <2>4. CASE p # NoSource /\ Site[p] = Site[q]
      <3>1. site \subseteq OfSite(strangers, q) \cup {x}
        BY DEF OfSite
      <3>2. Cardinality(OfSite(strangers, q)) < MaxPerSite
        <4>1. OfSite(strangers, q) = {i \in strangers : from[i] # NoSource
                                                          /\ Site[from[i]] = Site[p]}
          BY <2>4 DEF OfSite
        <4>2. ~(Cardinality(OfSite(strangers, q)) >= MaxPerSite)
          BY <2>4, <4>1 DEF over_bound
        <4>3. Cardinality(OfSite(strangers, q)) \in Nat
          BY <2>2, CountsOfIds
        <4> QED
          BY <1>2, <4>2, <4>3
      <3> QED
        BY <1>2, <2>2, <3>1, <3>2, OneMore
    <2> QED
      BY <2>3, <2>4
  <1> QED
    BY <1>3, <1>4 DEF SourcesBounded, Of

\* The share is a number.
LEMMA ShareIsNat == ASSUME AdmissionAssumption PROVE Share \in Nat \ {0}
  BY DEF AdmissionAssumption, Share

\* No watcher without a key is new.
LEMMA WatchersKept ==
    ASSUME AdmissionAssumption, RoomInv, Keyless' \subseteq Keyless,
           \A i \in Keyless' : from'[i] = from[i]
    PROVE  WatchersBounded'
  <1>1. Keyless \in SUBSET Ids
    BY DEF RoomInv, RoomBounded, TypeOK, Keyless
  <1>2. MaxWatchers \in Nat /\ Share \in Nat
    BY ShareIsNat DEF AdmissionAssumption
  <1>3. Cardinality(Keyless') <= Share
    BY <1>1, <1>2, Fewer DEF RoomInv, RoomBounded, WatchersBounded
  <1>4. ASSUME NEW p \in Sources
        PROVE  Cardinality({i \in Keyless' : from'[i] = p}) <= MaxWatchers
    <2>1. Of(Keyless, p) \in SUBSET Ids /\ {i \in Keyless' : from'[i] = p} \subseteq Of(Keyless, p)
      BY <1>1 DEF Of
    <2>2. Cardinality(Of(Keyless, p)) <= MaxWatchers
      BY DEF RoomInv, RoomBounded, WatchersBounded
    <2> QED
      BY <1>2, <2>1, <2>2, Fewer
  <1> QED
    BY <1>3, <1>4 DEF WatchersBounded, Of, Share

\* One is, and there was room to watch.
LEMMA WatchersGrow ==
    ASSUME AdmissionAssumption, RoomInv, NEW x \in conns, Keyless' \subseteq Keyless \cup {x},
           \A i \in Keyless' : from'[i] = from[i], ~no_room_to_watch(x)
    PROVE  WatchersBounded'
  <1>1. Keyless \in SUBSET Ids /\ x \in Ids
    BY DEF RoomInv, RoomBounded, TypeOK, Keyless
  <1>2. MaxWatchers \in Nat /\ Share \in Nat
    BY ShareIsNat DEF AdmissionAssumption
  <1>3. Cardinality(Keyless) < Share
    <2>1. ~(Cardinality(Keyless) >= Share) /\ Cardinality(Keyless) \in Nat
      BY <1>1, CountsOfIds DEF no_room_to_watch
    <2> QED
      BY <1>2, <2>1
  <1>4. Cardinality(Keyless') <= Share
    BY <1>1, <1>2, <1>3, OneMore
  <1>5. ASSUME NEW p \in Sources
        PROVE  Cardinality({i \in Keyless' : from'[i] = p}) <= MaxWatchers
    <2>1. Of(Keyless, p) \in SUBSET Ids
      BY <1>1 DEF Of
    <2>2. CASE from[x] # p
      <3>1. {i \in Keyless' : from'[i] = p} \subseteq Of(Keyless, p)
        BY <2>2 DEF Of
      <3>2. Cardinality(Of(Keyless, p)) <= MaxWatchers
        BY DEF RoomInv, RoomBounded, WatchersBounded
      <3> QED
        BY <1>2, <2>1, <3>1, <3>2, Fewer
    <2>3. CASE from[x] = p
      <3>1. {i \in Keyless' : from'[i] = p} \subseteq Of(Keyless, p) \cup {x}
        BY DEF Of
      <3>2. p # NoSource
        BY DEF AdmissionAssumption
      <3>3. ~(Cardinality(Of(Keyless, p)) >= MaxWatchers)
        BY <2>3, <3>2 DEF no_room_to_watch, over_bound
      <3>4. Cardinality(Of(Keyless, p)) \in Nat
        BY <2>1, CountsOfIds
      <3>5. Cardinality(Of(Keyless, p)) < MaxWatchers
        BY <1>2, <3>3, <3>4
      <3> QED
        BY <1>1, <1>2, <2>1, <3>1, <3>5, OneMore
    <2> QED
      BY <2>2, <2>3
  <1> QED
    BY <1>4, <1>5 DEF WatchersBounded, Of, Share

-----------------------------------------------------------------------------
(* Steps by which connections leave. *)

\* Those of `gone' leave every list; the ones read on as strangers had said no
\* Hello or had a public number.  Their seats open, or one
\* is left to a connection that is gone.
Leaves(gone) ==
    /\ gone \subseteq conns /\ conns' = conns \ gone
    /\ DOMAIN spectators' = Watchers \ gone
    /\ \A w \in Watchers \ gone : spectators'[w] = spectators[w]
    /\ referees' = referees \ gone /\ told' = told \ gone /\ welcomed' = welcomed
    /\ parting' \subseteq parting \cup gone
    /\ \A i \in parting' : i \notin parting => ~greeted(i) \/ i \in told
    /\ roster' \in [Seats -> Ids \cup {None}]
    /\ \A s \in Seats : roster'[s] # roster[s] =>
          roster[s] \in gone \cup {None} /\ roster'[s] \in gone \cup {None}
    /\ from' = [i \in conns' \cup parting' |-> from[i]]
    /\ UNCHANGED <<pending, next_player, writer, given>>
    /\ \/ UNCHANGED reader
       \/ \E i \in Ids : /\ reader[i] \in {"gone", "breach"}
                         /\ reader' = [reader EXCEPT ![i] = "ended"]

LEMMA LeavesTyped ==
    ASSUME AdmissionAssumption, RoomInv, NEW gone, Leaves(gone)
    PROVE  TypeOK'
  <1>1. TypeOK
    BY DEF RoomInv, RoomBounded
  <1>2. /\ pending' \in [Peers -> 0..MaxPerSource] /\ next_player' \in 1..(MaxIds + 1)
        /\ conns' \subseteq Ids /\ parting' \subseteq Ids
        /\ writer' \subseteq Ids /\ roster' \in [Seats -> Ids \cup {None}]
        /\ referees' \subseteq Ids /\ told' \subseteq Ids /\ welcomed' \subseteq Ids
        /\ given' \in [{"seats", "watchers"} -> 0..Numbers]
    BY <1>1 DEF TypeOK, Leaves
  <1>3. conns' \cup parting' \subseteq conns \cup parting
    BY DEF Leaves
  <1>4. from' \in [conns' \cup parting' -> Peers]
    <2>1. \A i \in conns' \cup parting' : from[i] \in Peers
      BY <1>1, <1>3 DEF TypeOK
    <2> QED
      BY <2>1 DEF Leaves
  <1>5. reader' \in [Ids -> {"none", "reading", "gone", "breach", "ended"}]
    BY <1>1 DEF TypeOK, Leaves
  <1>6. Watchers' \subseteq Ids /\ \A w \in Watchers' : spectators'[w] \in Seats \cup {None}
    BY <1>1 DEF TypeOK, Leaves, Watchers
  <1> QED
    BY <1>2, <1>4, <1>5, <1>6 DEF TypeOK

LEMMA LeavesAgree ==
    ASSUME AdmissionAssumption, RoomInv, NEW gone, Leaves(gone)
    PROVE  ListsAgree' /\ Numbered' /\ Fresh'
  <1>1. TypeOK /\ ListsAgree /\ Numbered /\ Fresh /\ None \notin Ids
    BY DEF RoomInv, RoomBounded, AdmissionAssumption
  <1>2. Watchers' = Watchers \ gone
    BY DEF Leaves, Watchers
  <1>3. \A i \in Ids : i \notin gone => (Seated(i)' <=> Seated(i))
    BY <1>1 DEF Leaves, Seated, TypeOK
  <1>4. \A i \in Ids : i \notin gone => (greeted(i)' <=> greeted(i))
    BY <1>2, <1>3 DEF Leaves, greeted
  <1>5. ListsAgree'
    <2>1. Watchers' \cup referees' \cup told' \subseteq conns' /\ Watchers' \cap referees' = {}
      BY <1>1, <1>2 DEF Leaves, ListsAgree
    <2>2. \A i \in Watchers' \cup referees' : ~Seated(i)'
      BY <1>1, <1>2, <1>3 DEF Leaves, ListsAgree, TypeOK
    <2>3. \A i \in told' : greeted(i)'
      BY <1>1, <1>4 DEF Leaves, ListsAgree, TypeOK
    <2>4. parting' \cap conns' = {}
      BY <1>1 DEF Leaves, ListsAgree
    <2> QED
      BY <2>1, <2>2, <2>3, <2>4 DEF ListsAgree
  <1>6. Numbered'
    BY <1>1, <1>4 DEF Leaves, Numbered, TypeOK
  <1>7. Fresh'
    <2>1. conns' \cup parting' \cup writer' \cup welcomed' \subseteq 1..(next_player' - 1)
      BY <1>1 DEF Leaves, Fresh
    <2>2. \A i \in Ids : i >= next_player' => reader'[i] = "none"
      BY <1>1 DEF Leaves, Fresh, TypeOK
    <2>3. ASSUME NEW s \in Seats, roster'[s] # None PROVE roster'[s] < next_player'
      <3>1. CASE roster'[s] = roster[s]
        BY <1>1, <2>3, <3>1 DEF Leaves, Fresh
      <3>2. CASE roster'[s] # roster[s]
        <4>1. roster'[s] \in conns
          BY <2>3, <3>2 DEF Leaves
        <4>2. roster'[s] \in 1..(next_player - 1) /\ next_player \in Nat
          BY <1>1, <4>1 DEF Fresh, TypeOK
        <4>3. roster'[s] < next_player
          BY <4>2
        <4> QED
          BY <4>3 DEF Leaves
      <3> QED
        BY <3>1, <3>2
    <2> QED
      BY <2>1, <2>2, <2>3 DEF Fresh
  <1> QED
    BY <1>5, <1>6, <1>7

LEMMA LeavesKeeps ==
    ASSUME AdmissionAssumption, RoomInv, NEW gone, Leaves(gone)
    PROVE  RoomInv'
  <1>1. TypeOK /\ ListsAgree /\ Numbered /\ None \notin Ids
    BY DEF RoomInv, RoomBounded, AdmissionAssumption
  <1>2. TypeOK' /\ ListsAgree' /\ Numbered' /\ Fresh'
    BY LeavesTyped, LeavesAgree
  <1>3. ConnectionsBounded'
    <2>1. MaxConnections \in Nat /\ 2 * MaxConnections \in Nat
      BY DEF AdmissionAssumption
    <2>2. conns \in SUBSET Ids /\ live \in SUBSET Ids
      BY <1>1 DEF TypeOK, live
    <2>3. conns' \subseteq conns /\ live' \subseteq live
      BY <1>1 DEF Leaves, live, TypeOK
    <2>4. Cardinality(conns) <= MaxConnections /\ Cardinality(live) <= 2 * MaxConnections
      BY DEF RoomInv, RoomBounded, ConnectionsBounded
    <2>5. Cardinality(conns') <= MaxConnections
      BY <2>1, <2>2, <2>3, <2>4, Fewer
    <2>6. Cardinality(live') <= 2 * MaxConnections
      BY <2>1, <2>2, <2>3, <2>4, Fewer
    <2> QED
      BY <2>5, <2>6 DEF ConnectionsBounded
  <1>4. SourcesBounded'
    <2>1. ASSUME NEW i \in conns', ~greeted(i)' PROVE i \in strangers
      <3>1. i \in conns /\ i \notin gone
        BY <2>1 DEF Leaves
      <3>2. i \notin told'
        BY <1>2, <2>1 DEF ListsAgree
      <3>3. i \notin told
        BY <3>1, <3>2 DEF Leaves
      <3> QED
        BY <1>1, <3>1, <3>3 DEF Numbered, strangers
    <2>2. ASSUME NEW i \in parting' PROVE i \in strangers \/ i \in welcomed
      BY <1>1 DEF Leaves, strangers, Numbered
    <2>3. strangers' \ welcomed' \subseteq strangers \ welcomed
      BY <2>1, <2>2 DEF Leaves, strangers
    <2>4. \A i \in strangers' : from'[i] = from[i]
      BY DEF Leaves, strangers
    <2> QED
      BY <2>3, <2>4, SourcesKept
  <1>5. WatchersBounded'
    <2>1. Keyless' \subseteq Keyless
      BY DEF Leaves, Keyless, Watchers
    <2>2. \A i \in Keyless' : from'[i] = from[i]
      BY DEF Leaves, Keyless
    <2> QED
      BY <2>1, <2>2, WatchersKept
  <1> QED
    BY <1>2, <1>3, <1>4, <1>5 DEF RoomInv, RoomBounded

\* What Server::forget does to the lists.
LEMMA ForgetLeaves ==
    ASSUME NEW gone, Forget(gone)
    PROVE  /\ conns' = conns \ gone /\ DOMAIN spectators' = Watchers \ gone
           /\ \A w \in Watchers \ gone : spectators'[w] = spectators[w]
           /\ referees' = referees \ gone /\ told' = told \ gone
  BY DEF Forget

\* What is left of the roster when i gives up its seat.
LEMMA ReleasedSeats ==
    ASSUME TypeOK, NEW i, roster' = Released(i)
    PROVE  /\ roster' \in [Seats -> Ids \cup {None}]
           /\ \A s \in Seats : roster'[s] # roster[s] =>
                 roster[s] \in {i} \cup {None} /\ roster'[s] \in {i} \cup {None}
  BY DEF TypeOK, Released

LEMMA DropStrangersKeeps ==
    ASSUME AdmissionAssumption, RoomInv, NEW i \in Ids, drop_strangers(i)
    PROVE  RoomInv'
  <1> DEFINE gone == {j \in conns : j <= i /\ ~greeted(j)}
  <1>1. /\ Forget(gone) /\ parting' = parting \cup {j \in gone \cap conns : ~greeted(j)}
        /\ Kept /\ UNCHANGED <<pending, next_player, reader, writer, roster, given, welcomed>>
    BY DEF drop_strangers, drop_conn
  <1>2. /\ gone \subseteq conns /\ parting' \subseteq parting \cup gone
        /\ \A j \in parting' : j \notin parting => ~greeted(j) \/ j \in told
    BY <1>1
  <1> HIDE DEF gone
  <1>3. TypeOK
    BY DEF RoomInv, RoomBounded
  <1>4. Leaves(gone)
    <2>1. roster' \in [Seats -> Ids \cup {None}] /\ \A s \in Seats : roster'[s] = roster[s]
      BY <1>1, <1>3 DEF TypeOK
    <2>2. from' = [j \in conns' \cup parting' |-> from[j]]
      BY <1>1 DEF Kept, Restrict
    <2> QED
      BY <1>1, <1>2, <2>1, <2>2, ForgetLeaves DEF Leaves
  <1> QED
    BY <1>4, LeavesKeeps

LEMMA HearEndKeeps ==
    ASSUME AdmissionAssumption, RoomInv, NEW i \in Ids, hear_end(i)
    PROVE  RoomInv'
  <1>1. /\ reader[i] \in {"gone", "breach"} /\ reader' = [reader EXCEPT ![i] = "ended"]
        /\ Kept /\ UNCHANGED <<pending, next_player, writer>>
    BY DEF hear_end
  <1>2. TypeOK
    BY DEF RoomInv, RoomBounded
  <1>3. from' = [j \in conns' \cup parting' |-> from[j]]
    BY <1>1 DEF Kept, Restrict
  <1>4. CASE i \in conns
    <2>1. /\ roster' = Released(i) /\ Forget({i})
          /\ parting' = parting \cup
                           (IF reader[i] = "breach" /\ ~greeted(i) THEN {i} ELSE {})
          /\ UNCHANGED <<given, welcomed>>
      BY <1>4 DEF hear_end
    <2>2. /\ parting' \subseteq parting \cup {i}
          /\ \A j \in parting' : j \notin parting => ~greeted(j) \/ j \in told
      BY <2>1
    <2>3. Leaves({i})
      BY <1>1, <1>2, <1>3, <1>4, <2>1, <2>2, ForgetLeaves, ReleasedSeats DEF Leaves
    <2> QED
      BY <2>3, LeavesKeeps
  <1>5. CASE i \notin conns
    <2>1. parting' = parting \ {i} /\ UNCHANGED <<conns, people>>
      BY <1>5 DEF hear_end
    <2>2. Leaves({})
      BY <1>1, <1>2, <1>3, <2>1 DEF Leaves, people, Watchers, TypeOK
    <2> QED
      BY <2>2, LeavesKeeps
  <1> QED
    BY <1>4, <1>5

\* A step of hear_msg in which i is dropped or nothing changes.
HeardAndGone(i, gone) ==
    /\ i \in conns /\ gone \subseteq {i}
    /\ conns' = conns \ gone
    /\ DOMAIN spectators' = Watchers \ gone
    /\ \A w \in Watchers \ gone : spectators'[w] = spectators[w]
    /\ referees' = referees \ gone /\ told' = told \ gone
    /\ parting' \subseteq parting \cup gone
    /\ \A j \in parting' : j \notin parting => ~greeted(j) \/ j \in told
    /\ roster' \in [Seats -> Ids \cup {None}]
    /\ \A s \in Seats : roster'[s] # roster[s] =>
          roster[s] \in gone \cup {None} /\ roster'[s] \in gone \cup {None}
    /\ given' = given /\ welcomed' = welcomed \cup told'
    /\ Kept /\ UNCHANGED <<pending, next_player, reader, writer>>

LEMMA HeardAndGoneKeeps ==
    ASSUME AdmissionAssumption, RoomInv, NEW i, NEW gone, HeardAndGone(i, gone)
    PROVE  RoomInv'
  <1>1. welcomed' = welcomed
    BY DEF HeardAndGone, RoomInv, Numbered
  <1>2. from' = [j \in conns' \cup parting' |-> from[j]]
    BY DEF HeardAndGone, Kept, Restrict
  <1>3. Leaves(gone)
    BY <1>1, <1>2 DEF HeardAndGone, Leaves
  <1> QED
    BY <1>3, LeavesKeeps

-----------------------------------------------------------------------------
(* Steps by which a stranger says its Hello and is greeted. *)

\* i takes a seat, or watches, or referees; to watch without a key there was room.
Joins(i) ==
    /\ i \in conns /\ ~greeted(i)
    /\ told' = told \cup {i} /\ welcomed' = welcomed \cup told'
    /\ given' \in [{"seats", "watchers"} -> 0..Numbers]
    /\ Kept /\ UNCHANGED <<pending, next_player, conns, parting, reader, writer>>
    /\ \/ /\ \E s \in FreeSeats : roster' = [roster EXCEPT ![s] = i]
          /\ UNCHANGED <<spectators, referees>>
       \/ /\ \E eyes \in Seats \cup {None} :
                /\ eyes = None => ~no_room_to_watch(i)
                /\ spectators' = [w \in Watchers \cup {i} |->
                                    IF w = i THEN eyes ELSE spectators[w]]
          /\ UNCHANGED <<roster, referees>>
       \/ referees' = referees \cup {i} /\ UNCHANGED <<roster, spectators>>

\* The Hello adds i to the greeted, and takes nobody's seat.
LEMMA JoinsGreets ==
    ASSUME AdmissionAssumption, RoomInv, NEW i, Joins(i)
    PROVE  /\ \A j \in Ids : Seated(j) => Seated(j)'
           /\ \A j \in Ids : j # i => (Seated(j)' <=> Seated(j))
           /\ \A j \in Ids : greeted(j)' <=> greeted(j) \/ j = i
           /\ roster' \in [Seats -> Ids \cup {None}]
           /\ \A s \in Seats : roster'[s] \in {roster[s], i}
  <1>1. TypeOK /\ None \notin Ids /\ i \in Ids
    BY DEF RoomInv, RoomBounded, AdmissionAssumption, Joins, TypeOK
  <1>2. CASE /\ \E s \in FreeSeats : roster' = [roster EXCEPT ![s] = i]
             /\ UNCHANGED <<spectators, referees>>
    <2>1. PICK s \in Seats : roster[s] = None /\ roster' = [roster EXCEPT ![s] = i]
      BY <1>2 DEF FreeSeats
    <2>2. /\ roster' \in [Seats -> Ids \cup {None}] /\ roster'[s] = i
          /\ \A t \in Seats : t # s => roster'[t] = roster[t]
      BY <1>1, <2>1 DEF TypeOK
    <2>3. /\ \A j \in Ids : Seated(j) => Seated(j)'
          /\ \A j \in Ids : j # i => (Seated(j)' <=> Seated(j))
          /\ Seated(i)'
      BY <1>1, <2>1, <2>2 DEF Seated
    <2>4. Watchers' = Watchers /\ referees' = referees
      BY <1>2 DEF Watchers
    <2> QED
      BY <1>1, <2>2, <2>3, <2>4 DEF greeted
  <1>3. CASE /\ \E eyes \in Seats \cup {None} :
                   spectators' = [w \in Watchers \cup {i} |-> IF w = i THEN eyes ELSE spectators[w]]
             /\ UNCHANGED <<roster, referees>>
    <2>1. Watchers' = Watchers \cup {i}
      BY <1>3 DEF Watchers
    <2>2. \A j : Seated(j)' <=> Seated(j)
      BY <1>3 DEF Seated
    <2> QED
      BY <1>1, <1>3, <2>1, <2>2 DEF greeted, TypeOK
  <1>4. CASE referees' = referees \cup {i} /\ UNCHANGED <<roster, spectators>>
    <2>1. Watchers' = Watchers
      BY <1>4 DEF Watchers
    <2>2. \A j : Seated(j)' <=> Seated(j)
      BY <1>4 DEF Seated
    <2> QED
      BY <1>1, <1>4, <2>1, <2>2 DEF greeted, TypeOK
  <1> QED
    BY <1>2, <1>3, <1>4 DEF Joins

LEMMA JoinsKeeps ==
    ASSUME AdmissionAssumption, RoomInv, NEW i, Joins(i)
    PROVE  RoomInv'
  <1>0. /\ \A j \in Ids : j # i => (Seated(j)' <=> Seated(j))
        /\ \A j \in Ids : greeted(j)' <=> greeted(j) \/ j = i
        /\ roster' \in [Seats -> Ids \cup {None}]
        /\ \A s \in Seats : roster'[s] \in {roster[s], i}
    BY JoinsGreets
  <1>1. /\ TypeOK /\ ListsAgree /\ Numbered /\ Fresh /\ None \notin Ids \cup Seats
        /\ i \in Ids /\ i \in conns /\ ~greeted(i)
    BY DEF RoomInv, RoomBounded, AdmissionAssumption, Joins, TypeOK
  <1>2. i \notin Watchers /\ i \notin referees /\ ~Seated(i)
    BY <1>1 DEF greeted
  <1>3. \/ Watchers' = Watchers /\ referees' = referees
        \/ Watchers' = Watchers \cup {i} /\ referees' = referees /\ roster' = roster
        \/ Watchers' = Watchers /\ referees' = referees \cup {i} /\ roster' = roster
    BY DEF Joins, Watchers
  <1>4. TypeOK'
    <2>1. from' \in [conns' \cup parting' -> Peers]
      <3>1. from' = [j \in conns \cup parting |-> from[j]]
        BY DEF Joins, Kept, Restrict
      <3> QED
        BY <1>1, <3>1 DEF Joins, TypeOK
    <2>2. \A w \in Watchers' : spectators'[w] \in Seats \cup {None}
      BY <1>1 DEF Joins, TypeOK, Watchers
    <2>3. Watchers' \subseteq Ids /\ referees' \subseteq Ids
      BY <1>1, <1>3 DEF TypeOK
    <2>4. roster' \in [Seats -> Ids \cup {None}]
      BY <1>0
    <2>5. told' \subseteq Ids /\ welcomed' \subseteq Ids
      BY <1>1 DEF Joins, TypeOK
    <2>6. /\ given' \in [{"seats", "watchers"} -> 0..Numbers]
          /\ UNCHANGED <<pending, next_player, conns, parting, reader, writer>>
      BY DEF Joins
    <2> QED
      BY <1>1, <2>1, <2>2, <2>3, <2>4, <2>5, <2>6 DEF TypeOK
  <1>5. ListsAgree'
    <2>1. Watchers' \cup referees' \cup told' \subseteq conns'
      BY <1>1, <1>3 DEF ListsAgree, Joins
    <2>2. Watchers' \cap referees' = {}
      BY <1>1, <1>2, <1>3 DEF ListsAgree
    <2>3. ASSUME NEW w \in Watchers' \cup referees' PROVE ~Seated(w)'
      <3>1. CASE w = i
        <4>1. roster' = roster
          BY <1>2, <1>3, <2>3, <3>1
        <4> QED
          BY <1>2, <3>1, <4>1 DEF Seated
      <3>2. CASE w # i
        <4>1. w \in Watchers \cup referees /\ w \in Ids
          BY <1>1, <1>3, <2>3, <3>2 DEF TypeOK
        <4> QED
          BY <1>1, <3>2, <4>1, <1>0 DEF ListsAgree
      <3> QED
        BY <3>1, <3>2
    <2>4. \A j \in told' : greeted(j)'
      BY <1>1, <1>0 DEF Joins, ListsAgree, TypeOK
    <2>5. parting' \cap conns' = {}
      BY <1>1 DEF Joins, ListsAgree
    <2> QED
      BY <2>1, <2>2, <2>3, <2>4, <2>5 DEF ListsAgree
  <1>6. Numbered'
    BY <1>1, <1>0 DEF Joins, Numbered, TypeOK
  <1>7. Fresh'
    <2>1. i \in 1..(next_player - 1) /\ told \subseteq 1..(next_player - 1) /\ next_player \in Nat
      BY <1>1 DEF Fresh, Numbered, TypeOK
    <2>2. conns' \cup parting' \cup writer' \cup welcomed' \subseteq 1..(next_player' - 1)
      BY <1>1, <2>1 DEF Fresh, Joins
    <2>3. i < next_player
      BY <2>1
    <2>4. \A s \in Seats : roster'[s] # None => roster'[s] < next_player'
      BY <1>1, <2>3, <1>0 DEF Fresh, Joins
    <2> QED
      BY <1>1, <2>2, <2>4 DEF Fresh, Joins
  <1>8. ConnectionsBounded'
    BY DEF RoomInv, RoomBounded, ConnectionsBounded, Joins, live
  <1>9. \A j \in conns' \cup parting' : from'[j] = from[j]
    BY DEF Joins, Kept, Restrict
  <1>10. SourcesBounded'
    <2>1. strangers' \subseteq strangers
      BY <1>1, <1>0 DEF strangers, Joins, TypeOK
    <2>2. strangers' \ welcomed' \subseteq strangers \ welcomed
      BY <2>1 DEF Joins
    <2>3. \A j \in strangers' : from'[j] = from[j]
      BY <1>9 DEF strangers
    <2> QED
      BY <2>2, <2>3, SourcesKept
  <1>11. WatchersBounded'
    <2>1. \A j \in Keyless' : from'[j] = from[j]
      BY <1>9 DEF Keyless
    <2>2. CASE spectators' = spectators
      <3>1. Keyless' = Keyless
        BY <2>2 DEF Keyless, Watchers, Joins
      <3> QED
        BY <2>1, <3>1, WatchersKept
    <2>3. CASE \E eyes \in Seats \cup {None} :
                  /\ eyes = None => ~no_room_to_watch(i)
                  /\ spectators' = [w \in Watchers \cup {i} |->
                                       IF w = i THEN eyes ELSE spectators[w]]
      <3>1. PICK eyes \in Seats \cup {None} :
                  /\ eyes = None => ~no_room_to_watch(i)
                  /\ spectators' = [w \in Watchers \cup {i} |->
                                       IF w = i THEN eyes ELSE spectators[w]]
        BY <2>3
      <3>2. Watchers' = Watchers \cup {i} /\ conns' = conns
        BY <3>1 DEF Watchers, Joins
      <3>3. \A w \in Watchers \cup {i} : spectators'[w] = IF w = i THEN eyes ELSE spectators[w]
        BY <3>1
      <3>4. CASE eyes = None
        <4>1. Keyless' \subseteq Keyless \cup {i}
          BY <3>2, <3>3 DEF Keyless
        <4> QED
          BY <1>1, <2>1, <3>1, <3>4, <4>1, WatchersGrow
      <3>5. CASE eyes # None
        <4>1. Keyless' \subseteq Keyless
          BY <3>2, <3>3, <3>5 DEF Keyless
        <4> QED
          BY <2>1, <4>1, WatchersKept
      <3> QED
        BY <3>4, <3>5
    <2> QED
      BY <2>2, <2>3 DEF Joins
  <1> QED
    BY <1>4, <1>5, <1>6, <1>7, <1>8, <1>10, <1>11 DEF RoomInv, RoomBounded

\* A peer refused, or forgotten for want of a number, leaves; its roster as it was
\* or with a seat left to it.
LEMMA ForgottenKeeps ==
    ASSUME AdmissionAssumption, RoomInv, NEW i \in conns,
           Forget({i}), parting' \subseteq parting \cup {i},
           i \in parting' => ~greeted(i) \/ i \in told,
           roster' \in [Seats -> Ids \cup {None}],
           \A s \in Seats : roster'[s] # roster[s] =>
               roster[s] \in {i, None} /\ roster'[s] \in {i, None},
           UNCHANGED given, welcomed' = welcomed \cup told',
           Kept, UNCHANGED <<pending, next_player, reader, writer>>
    PROVE  RoomInv'
  <1>1. \A j \in parting' : j \notin parting => ~greeted(j) \/ j \in told
    OBVIOUS
  <1>2. HeardAndGone(i, {i})
    BY <1>1, ForgetLeaves DEF HeardAndGone
  <1> QED
    BY <1>2, HeardAndGoneKeeps

\* The part of hear_msg a Hello leaves to the rest of it.
LEMMA GreetKeeps ==
    ASSUME AdmissionAssumption, RoomInv, NEW i \in conns, NEW hello, ~greeted(i),
           greet(i, hello), welcomed' = welcomed \cup told',
           Kept, UNCHANGED <<pending, next_player, reader, writer>>
    PROVE  RoomInv'
  <1>1. TypeOK /\ Numbers \in Nat /\ i \in Ids
    BY DEF RoomInv, RoomBounded, AdmissionAssumption, TypeOK
  <1>2. \A k \in {"seats", "watchers"} : HasNumber(k) =>
            [given EXCEPT ![k] = @ + 1] \in [{"seats", "watchers"} -> 0..Numbers]
    BY <1>1 DEF HasNumber, TypeOK
  <1>3. CASE take_seat(i)
    <2>1. CASE HasNumber("seats")
      <3>1. Joins(i)
        BY <1>2, <1>3, <2>1 DEF take_seat, Joins
      <3> QED
        BY <3>1, JoinsKeeps
    <2>2. CASE ~HasNumber("seats")
      <3>1. PICK s \in Seats : roster[s] = None /\ roster' = [roster EXCEPT ![s] = i]
        BY <1>3 DEF take_seat, FreeSeats
      <3>2. Forget({i}) /\ UNCHANGED <<parting, given>>
        BY <1>3, <2>2 DEF take_seat
      <3>3. /\ roster' \in [Seats -> Ids \cup {None}]
            /\ \A t \in Seats : roster'[t] # roster[t] =>
                  roster[t] \in {i, None} /\ roster'[t] \in {i, None}
        BY <1>1, <3>1 DEF TypeOK
      <3> QED
        BY <3>2, <3>3, ForgottenKeeps
    <2> QED
      BY <2>1, <2>2
  <1>4. ASSUME Forget({i}), parting' \subseteq parting \cup {i}, UNCHANGED <<roster, given>>
        PROVE  RoomInv'
    BY <1>1, <1>4, ForgottenKeeps DEF TypeOK
  <1>5. ASSUME Refuse(i) PROVE RoomInv'
    BY <1>4, <1>5 DEF Refuse, drop_conn
  <1>6. ASSUME NEW eyes \in Seats \cup {None}, NEW ref \in BOOLEAN, JoinWatchers(i, eyes, ref),
               ~ref /\ eyes = None => ~no_room_to_watch(i)
        PROVE  RoomInv'
    <2>1. CASE HasNumber("watchers")
      <3>1. Joins(i)
        BY <1>2, <1>6, <2>1 DEF JoinWatchers, Joins
      <3> QED
        BY <3>1, JoinsKeeps
    <2>2. CASE ~HasNumber("watchers")
      BY <1>4, <1>6, <2>2 DEF JoinWatchers
    <2> QED
      BY <2>1, <2>2
  <1>7. CASE hello = "watcher" /\ ~no_room_to_watch(i) /\ JoinWatchers(i, None, FALSE)
    BY <1>6, <1>7
  <1>8. CASE \E s \in Seats : IF Cardinality(Watching(s)) < MaxPerSeat
                              THEN JoinWatchers(i, s, FALSE) ELSE Refuse(i)
    <2>1. \A s \in Seats : s # None
      BY DEF AdmissionAssumption
    <2> QED
      BY <1>5, <1>6, <1>8, <2>1
  <1>9. CASE hello = "referee" /\ JoinWatchers(i, None, TRUE)
    BY <1>6, <1>9
  <1> QED
    BY <1>3, <1>5, <1>7, <1>8, <1>9 DEF greet

LEMMA HearMsgKeeps ==
    ASSUME AdmissionAssumption, RoomInv, NEW i \in Ids, NEW msg, hear_msg(i, msg)
    PROVE  RoomInv'
  <1>1. /\ i \in conns /\ welcomed' = welcomed \cup told'
        /\ Kept /\ UNCHANGED <<pending, next_player, reader, writer>>
    BY DEF hear_msg
  <1>2. TypeOK /\ Numbered
    BY DEF RoomInv, RoomBounded
  <1>3. CASE msg = "misfit"
    <2>1. /\ roster' = Released(i) /\ Forget({i}) /\ UNCHANGED given
          /\ parting' = IF i \in Watchers \cup referees THEN parting ELSE parting \cup {i}
      BY <1>3 DEF hear_msg, hear_catalogue, Hellos
    <2>2. ~greeted(i) \/ i \in told
      BY <1>1, <1>2 DEF Numbered
    <2> QED
      BY <1>1, <1>2, <2>1, <2>2, ReleasedSeats, ForgottenKeeps
  <1>4. CASE msg \in Hellos /\ ~greeted(i)
    <2>1. msg # "misfit"
      BY <1>4 DEF Hellos
    <2>2. greet(i, msg)
      BY <1>4, <2>1 DEF hear_msg
    <2> QED
      BY <1>1, <1>4, <2>2, GreetKeeps
  <1>5. CASE msg # "misfit" /\ ~(msg \in Hellos /\ ~greeted(i))
    <2>1. UNCHANGED <<conns, parting, roster, spectators, referees, told, given>>
      BY <1>5 DEF hear_msg
    <2>2. HeardAndGone(i, {})
      BY <1>1, <1>2, <2>1 DEF HeardAndGone, Watchers, TypeOK
    <2> QED
      BY <2>2, HeardAndGoneKeeps
  <1> QED
    BY <1>3, <1>4, <1>5

-----------------------------------------------------------------------------
(* Steps that change no list. *)

LEMMA QuietKeeps ==
    ASSUME AdmissionAssumption, RoomInv,
           UNCHANGED <<next_player, conns, parting, from, people>>,
           pending' \in [Peers -> 0..MaxPerSource], writer' \subseteq writer,
           \/ UNCHANGED reader
           \/ \E i \in Ids, end \in {"gone", "breach"} :
                 reader[i] = "reading" /\ reader' = [reader EXCEPT ![i] = end]
    PROVE  RoomInv'
  <1>1. TypeOK /\ ListsAgree /\ Numbered /\ Fresh /\ SourcesBounded /\ WatchersBounded
    BY DEF RoomInv, RoomBounded
  <1>2. /\ roster' = roster /\ spectators' = spectators /\ referees' = referees
        /\ told' = told /\ given' = given /\ welcomed' = welcomed
        /\ conns' = conns /\ parting' = parting /\ from' = from /\ next_player' = next_player
    BY DEF people
  <1>3. /\ Watchers' = Watchers /\ (\A i : Seated(i)' <=> Seated(i))
        /\ (\A i : greeted(i)' <=> greeted(i))
    BY <1>2 DEF Watchers, Seated, greeted
  <1>4. strangers' = strangers /\ Keyless' = Keyless
    BY <1>2, <1>3 DEF strangers, Keyless
  <1>5. reader' \in [Ids -> {"none", "reading", "gone", "breach", "ended"}]
    BY <1>1 DEF TypeOK
  <1>6. TypeOK'
    BY <1>1, <1>2, <1>3, <1>5 DEF TypeOK
  <1>7. ListsAgree' /\ Numbered'
    BY <1>1, <1>2, <1>3 DEF ListsAgree, Numbered
  <1>8. Fresh'
    <2>1. \A i \in Ids : i >= next_player => reader'[i] = "none"
      BY <1>1 DEF Fresh, TypeOK
    <2> QED
      BY <1>1, <1>2, <2>1 DEF Fresh
  <1>9. SourcesBounded'
    BY <1>2, <1>4, SourcesKept
  <1>10. WatchersBounded'
    BY <1>2, <1>4, WatchersKept
  <1>11. ConnectionsBounded'
    <2>1. 2 * MaxConnections \in Nat
      BY DEF AdmissionAssumption
    <2>2. live \in SUBSET Ids /\ live' \subseteq live
      BY <1>1 DEF TypeOK, live
    <2>3. Cardinality(live') <= 2 * MaxConnections
      BY <2>1, <2>2, Fewer DEF RoomInv, RoomBounded, ConnectionsBounded
    <2> QED
      BY <1>2, <2>3 DEF RoomInv, RoomBounded, ConnectionsBounded
  <1> QED
    BY <1>6, <1>7, <1>8, <1>9, <1>10, <1>11 DEF RoomInv, RoomBounded

LEMMA AcceptKeeps ==
    ASSUME AdmissionAssumption, RoomInv, NEW p \in Peers, accept(p)
    PROVE  RoomInv'
  <1>1. pending \in [Peers -> 0..MaxPerSource] /\ MaxPerSource \in Nat
    BY DEF RoomInv, RoomBounded, TypeOK, AdmissionAssumption
  <1>2. pending' \in [Peers -> 0..MaxPerSource]
    BY <1>1 DEF accept
  <1>3. UNCHANGED <<next_player, conns, parting, from, reader, writer, people>>
    BY DEF accept
  <1> QED
    BY <1>2, <1>3, QuietKeeps

LEMMA ThreadEndKeeps ==
    ASSUME AdmissionAssumption, RoomInv, NEW i \in Ids,
           writer_ends(i) \/ \E end \in {"gone", "breach"} : reader_ends(i, end)
    PROVE  RoomInv'
  <1>1. pending \in [Peers -> 0..MaxPerSource]
    BY DEF RoomInv, RoomBounded, TypeOK
  <1>2. CASE writer_ends(i)
    <2>1. /\ writer' \subseteq writer
          /\ UNCHANGED <<pending, next_player, conns, parting, from, reader, people>>
      BY <1>2 DEF writer_ends
    <2> QED
      BY <1>1, <2>1, QuietKeeps
  <1>3. ASSUME NEW end \in {"gone", "breach"}, reader_ends(i, end) PROVE RoomInv'
    <2>1. /\ reader[i] = "reading" /\ reader' = [reader EXCEPT ![i] = end]
          /\ UNCHANGED <<pending, next_player, conns, parting, from, writer, people>>
      BY <1>3 DEF reader_ends
    <2> QED
      BY <1>1, <2>1, QuietKeeps
  <1> QED
    BY <1>2, <1>3

-----------------------------------------------------------------------------
(* The newcomer. *)

\* Server::adopt of a newcomer from p whose source and site have room: those of
\* `gone', at most one, are let go, and the newcomer is listed if `new' holds it.
Adopts(p, gone, new) ==
    /\ next_player <= MaxIds /\ ~over_bound(p, strangers, MaxPerSource, MaxPerSite)
    /\ gone \subseteq Victim(p) /\ new \subseteq {next_player}
    /\ new # {} => Cardinality(conns \ gone) < MaxConnections
    /\ conns' = (conns \ gone) \cup new /\ parting' = parting \ gone
    /\ from' = [i \in conns' \cup parting' |-> IF i = next_player THEN p ELSE from[i]]
    /\ pending' = [pending EXCEPT ![p] = @ - 1]
    /\ UNCHANGED people
    /\ \/ NoSpawn /\ new = {}
       \/ Spawn /\ Cardinality(live) < 2 * MaxConnections

LEMMA AdoptsOrRefuses ==
    ASSUME AdmissionAssumption, RoomInv, NEW p \in Peers, adopt(p)
    PROVE  \/ \E gone, new : Adopts(p, gone, new)
           \/ /\ pending' = [pending EXCEPT ![p] = @ - 1]
              /\ NoSpawn /\ UNCHANGED <<conns, parting, from, people>>
  <1> DEFINE gone == IF Full \/ Crowded THEN Victim(p) ELSE {}
             room == \/ ~Full /\ ~Crowded
                     \/ /\ gone # {}
                        /\ Cardinality(conns \ gone) < MaxConnections
                        /\ Cardinality(live) < 2 * MaxConnections
             new == IF room /\ Spawned THEN {next_player} ELSE {}
  <1>1. CASE over_bound(p, strangers, MaxPerSource, MaxPerSite)
    BY <1>1 DEF adopt
  <1>2. CASE ~over_bound(p, strangers, MaxPerSource, MaxPerSite)
    <2>1. /\ next_player <= MaxIds /\ pending' = [pending EXCEPT ![p] = @ - 1]
          /\ IF room THEN Spawn ELSE NoSpawn
          /\ conns' = (conns \ gone) \cup new /\ parting' = parting \ gone
          /\ from' = [i \in conns' \cup parting' |-> IF i = next_player THEN p ELSE from[i]]
          /\ UNCHANGED people
      BY <1>2 DEF adopt
    <2>2. gone \subseteq Victim(p) /\ new \subseteq {next_player} /\ (~room => new = {})
      OBVIOUS
    <2>3. ASSUME room
          PROVE  Cardinality(conns \ gone) < MaxConnections /\ Cardinality(live) < 2 * MaxConnections
      <3>1. CASE ~Full /\ ~Crowded
        <4>1. conns \in SUBSET Ids /\ live \in SUBSET Ids
          BY DEF RoomInv, RoomBounded, TypeOK, live
        <4>2. Cardinality(conns) \in Nat /\ Cardinality(live) \in Nat
          BY <4>1, CountsOfIds
        <4>3. MaxConnections \in Nat
          BY DEF AdmissionAssumption
        <4>4. ~(Cardinality(conns) >= MaxConnections) /\ ~(Cardinality(live) >= MaxConnections)
          BY <3>1 DEF Full
        <4>5. conns \ gone = conns
          BY <3>1
        <4> HIDE DEF gone
        <4>6. Cardinality(conns \ gone) = Cardinality(conns)
          BY <4>5
        <4> QED
          BY <4>2, <4>3, <4>4, <4>6
      <3> QED
        BY <2>3, <3>1
    <2> HIDE DEF gone, room, new
    <2>4. Adopts(p, gone, new)
      BY <1>2, <2>1, <2>2, <2>3 DEF Adopts
    <2> QED
      BY <2>4
  <1> QED
    BY <1>1, <1>2

\* Whoever is let go for a newcomer said no Hello.
LEMMA VictimsAreStrangers ==
    ASSUME RoomInv, NEW p
    PROVE  /\ Victim(p) \subseteq strangers
           /\ \A i \in Victim(p) : ~greeted(i) \/ i \notin conns
           /\ Victim(p) \cap (Watchers \cup referees \cup told) = {}
  <1>1. ListsAgree
    BY DEF RoomInv, RoomBounded
  <1>2. Victim(p) \subseteq strangers
    BY DEF Victim
  <1>3. \A i \in strangers : ~greeted(i) \/ i \notin conns
    BY <1>1 DEF strangers, ListsAgree
  <1>4. \A i \in Watchers \cup referees \cup told : i \in conns /\ greeted(i)
    BY <1>1 DEF ListsAgree, greeted
  <1> QED
    BY <1>2, <1>3, <1>4

LEMMA AdoptsKeeps ==
    ASSUME AdmissionAssumption, RoomInv, NEW p \in Peers, NEW gone, NEW new, Adopts(p, gone, new),
           pending[p] > 0
    PROVE  RoomInv'
  <1> DEFINE x == next_player
  <1>1. /\ TypeOK /\ ListsAgree /\ Numbered /\ Fresh
        /\ MaxIds \in Nat /\ MaxConnections \in Nat /\ None \notin Ids
    BY DEF RoomInv, RoomBounded, AdmissionAssumption
  <1>2. /\ roster' = roster /\ spectators' = spectators /\ referees' = referees
        /\ told' = told /\ given' = given /\ welcomed' = welcomed
    BY DEF people, Adopts
  <1>3. /\ Watchers' = Watchers /\ (\A i : Seated(i)' <=> Seated(i))
        /\ (\A i : greeted(i)' <=> greeted(i))
    BY <1>2 DEF Watchers, Seated, greeted
  <1>4. x \in Ids /\ x \in Nat
    BY <1>1 DEF TypeOK, Ids, Adopts
  <1>5. x \notin conns \cup parting \cup writer \cup welcomed
    BY <1>1, <1>4 DEF Fresh
  <1>6. ~Seated(x)
    BY <1>1, <1>4 DEF Fresh, Seated, TypeOK
  <1>7. ~greeted(x)
    BY <1>1, <1>5, <1>6 DEF greeted, ListsAgree
  <1>8. /\ conns' = (conns \ gone) \cup new /\ parting' = parting \ gone
        /\ new \subseteq {x} /\ gone \subseteq Victim(p)
    BY DEF Adopts
  <1>9. /\ writer \subseteq writer' /\ writer' \subseteq writer \cup {x}
        /\ reader' \in [Ids -> {"none", "reading", "gone", "breach", "ended"}]
        /\ \A i \in Ids : i # x => reader'[i] = reader[i]
        /\ next_player' \in {x, x + 1}
        /\ next_player' = x => new = {} /\ writer' = writer /\ reader' = reader
    BY <1>1, <1>4 DEF Adopts, Spawn, NoSpawn, TypeOK
  <1>10. TypeOK'
    <2>1. conns' \subseteq Ids /\ parting' \subseteq Ids /\ writer' \subseteq Ids
      BY <1>1, <1>4, <1>8, <1>9 DEF TypeOK
    <2>2. from' \in [conns' \cup parting' -> Peers]
      <3>1. \A i \in conns' \cup parting' : i # x => from[i] \in Peers
        BY <1>1, <1>8 DEF TypeOK
      <3> QED
        BY <3>1 DEF Adopts
    <2>3. next_player' \in 1..(MaxIds + 1)
      BY <1>1, <1>4, <1>9 DEF Adopts, TypeOK
    <2>4. pending' \in [Peers -> 0..MaxPerSource]
      <3>1. MaxPerSource \in Nat
        BY DEF AdmissionAssumption
      <3> QED
        BY <1>1, <3>1 DEF Adopts, TypeOK
    <2> QED
      BY <1>1, <1>2, <1>3, <1>9, <2>1, <2>2, <2>3, <2>4 DEF TypeOK
  <1>11. ListsAgree'
    <2>1. Watchers \cup referees \cup told \subseteq conns'
      BY <1>1, <1>8, VictimsAreStrangers DEF ListsAgree
    <2>2. parting' \cap conns' = {}
      BY <1>1, <1>5, <1>8 DEF ListsAgree
    <2> QED
      BY <1>1, <1>2, <1>3, <2>1, <2>2 DEF ListsAgree
  <1>12. Numbered'
    BY <1>1, <1>2, <1>3, <1>7, <1>8 DEF Numbered
  <1>13. Fresh'
    <2>1. conns' \cup parting' \cup writer' \cup welcomed' \subseteq 1..(next_player' - 1)
      <3>1. CASE next_player' = x
        BY <1>1, <1>2, <1>8, <1>9, <3>1 DEF Fresh
      <3>2. CASE next_player' = x + 1
        <4>1. conns' \cup parting' \cup writer' \cup welcomed' \subseteq
                 (conns \cup parting \cup writer \cup welcomed) \cup {x}
          BY <1>2, <1>8, <1>9
        <4>2. (1..(x - 1)) \cup {x} \subseteq 1..(next_player' - 1)
          BY <1>1, <1>4, <3>2 DEF TypeOK
        <4> QED
          BY <1>1, <4>1, <4>2 DEF Fresh
      <3> QED
        BY <1>9, <3>1, <3>2
    <2>2. ASSUME NEW i \in Ids, i >= next_player' PROVE reader'[i] = "none"
      <3>1. i \in Nat
        BY DEF Ids
      <3>2. CASE next_player' = x
        BY <1>1, <1>9, <2>2, <3>2 DEF Fresh
      <3>3. CASE next_player' = x + 1
        <4>1. i # x /\ i >= x
          BY <1>4, <2>2, <3>1, <3>3
        <4> QED
          BY <1>1, <1>9, <4>1 DEF Fresh
      <3> QED
        BY <1>9, <3>2, <3>3
    <2>3. ASSUME NEW s \in Seats, roster'[s] # None PROVE roster'[s] < next_player'
      <3>1. roster[s] \in Ids /\ roster[s] < x
        BY <1>1, <1>2, <2>3 DEF Fresh, TypeOK
      <3>2. roster[s] \in Nat
        BY <3>1 DEF Ids
      <3> QED
        BY <1>2, <1>4, <1>9, <3>1, <3>2
    <2> QED
      BY <2>1, <2>2, <2>3 DEF Fresh
  <1>14. Cardinality(conns') <= MaxConnections
    <2>1. conns \in SUBSET Ids /\ conns \ gone \in SUBSET Ids
      BY <1>1 DEF TypeOK
    <2>2. CASE new = {}
      <3>1. conns' \subseteq conns
        BY <1>8, <2>2
      <3> QED
        BY <1>1, <2>1, <3>1, Fewer DEF RoomInv, RoomBounded, ConnectionsBounded
    <2>3. CASE new # {}
      <3>1. Cardinality(conns \ gone) < MaxConnections
        BY <2>3 DEF Adopts
      <3>2. conns' \subseteq (conns \ gone) \cup {x}
        BY <1>8
      <3> QED
        BY <1>1, <1>4, <2>1, <3>1, <3>2, OneMore
    <2> QED
      BY <2>2, <2>3
  <1>15. Cardinality(live') <= 2 * MaxConnections
    <2>1. live \in SUBSET Ids /\ 2 * MaxConnections \in Nat
      BY <1>1 DEF TypeOK, live
    <2>2. CASE NoSpawn
      <3>1. live' \subseteq live
        BY <2>2 DEF NoSpawn, live
      <3> QED
        BY <2>1, <3>1, Fewer DEF RoomInv, RoomBounded, ConnectionsBounded
    <2>3. CASE Cardinality(live) < 2 * MaxConnections
      <3>1. live' \subseteq live \cup {x}
        BY <1>9 DEF live
      <3> QED
        BY <1>4, <2>1, <2>3, <3>1, OneMore
    <2> QED
      BY <2>2, <2>3 DEF Adopts
  <1>16. SourcesBounded'
    <2>1. strangers' \subseteq strangers \cup {x}
      BY <1>3, <1>8 DEF strangers
    <2>2. strangers' \ welcomed' \subseteq (strangers \ welcomed) \cup {x}
      BY <1>2, <2>1
    <2>3. \A i \in strangers' : from'[i] = IF i = x THEN p ELSE from[i]
      BY DEF strangers, Adopts
    <2>4. ~over_bound(p, strangers, MaxPerSource, MaxPerSite)
      BY DEF Adopts
    <2> QED
      BY <1>4, <2>2, <2>3, <2>4, SourcesGrow
  <1>17. WatchersBounded'
    <2>1. Keyless' \subseteq Keyless
      BY <1>1, <1>2, <1>3, <1>5, <1>8 DEF Keyless, ListsAgree
    <2>2. \A i \in Keyless' : from'[i] = from[i]
      <3>1. \A i \in Keyless' : i \in conns' \cup parting' /\ i # x
        BY <1>5, <2>1 DEF Keyless
      <3> QED
        BY <3>1 DEF Adopts
    <2> QED
      BY <2>1, <2>2, WatchersKept
  <1> QED
    BY <1>10, <1>11, <1>12, <1>13, <1>14, <1>15, <1>16, <1>17
    DEF RoomInv, RoomBounded, ConnectionsBounded

LEMMA AdoptKeeps ==
    ASSUME AdmissionAssumption, RoomInv, NEW p \in Peers, adopt(p)
    PROVE  RoomInv'
  <1>1. pending[p] > 0
    BY DEF adopt
  <1>2. ASSUME NEW gone, NEW new, Adopts(p, gone, new) PROVE RoomInv'
    BY <1>1, <1>2, AdoptsKeeps
  <1>3. CASE /\ pending' = [pending EXCEPT ![p] = @ - 1]
             /\ NoSpawn /\ UNCHANGED <<conns, parting, from, people>>
    <2>1. pending \in [Peers -> 0..MaxPerSource] /\ MaxPerSource \in Nat
      BY DEF RoomInv, RoomBounded, TypeOK, AdmissionAssumption
    <2>2. pending' \in [Peers -> 0..MaxPerSource]
      BY <1>1, <1>3, <2>1
    <2> QED
      BY <1>3, <2>2, QuietKeeps DEF NoSpawn
  <1> QED
    BY <1>2, <1>3, AdoptsOrRefuses

-----------------------------------------------------------------------------
(* The theorems. *)

LEMMA RoomInit ==
    ASSUME AdmissionAssumption, Init
    PROVE  RoomInv
  <1>1. MaxIds \in Nat /\ Share \in Nat /\ 0 \in 0..MaxPerSource /\ 0 \in 0..Numbers
    BY ShareIsNat DEF AdmissionAssumption
  <1>2. /\ Watchers = {} /\ strangers = {} /\ live = {} /\ Keyless = {}
        /\ \A i \in Ids : ~Seated(i)
    BY DEF Init, Watchers, strangers, live, Keyless, Seated, AdmissionAssumption
  <1>3. TypeOK
    BY <1>1, <1>2 DEF Init, TypeOK
  <1>4. Cardinality({}) = 0
    BY FS_EmptySet
  <1>5. ConnectionsBounded
    <2>1. Cardinality(conns) = 0 /\ Cardinality(live) = 0 /\ MaxConnections \in Nat
      BY <1>2, <1>4 DEF Init, AdmissionAssumption
    <2> QED
      BY <2>1 DEF ConnectionsBounded
  <1>6. SourcesBounded /\ WatchersBounded
    <2>1. \A p : Of({}, p) = {} /\ OfSite({}, p) = {}
      BY DEF Of, OfSite
    <2>2. strangers \ welcomed = {}
      BY <1>2
    <2>3. MaxPerSource \in Nat /\ MaxPerSite \in Nat /\ MaxWatchers \in Nat
      BY DEF AdmissionAssumption
    <2>4. SourcesBounded
      BY <1>4, <2>1, <2>2, <2>3 DEF SourcesBounded, OfSite
    <2>5. WatchersBounded
      BY <1>1, <1>2, <1>4, <2>1, <2>3 DEF WatchersBounded
    <2> QED
      BY <2>4, <2>5
  <1>7. ListsAgree /\ Fresh /\ Numbered
    BY <1>2 DEF Init, ListsAgree, Fresh, Numbered
  <1> QED
    BY <1>3, <1>5, <1>6, <1>7 DEF RoomInv, RoomBounded

\* Every step keeps the invariant.
THEOREM RoomInvariant ==
    ASSUME AdmissionAssumption
    PROVE  Spec => []RoomInv
  <1>1. Init => RoomInv
    BY RoomInit
  <1>2. RoomInv /\ [Next]_vars => RoomInv'
    <2> SUFFICES ASSUME RoomInv, [Next]_vars PROVE RoomInv'
      OBVIOUS
    <2>1. ASSUME NEW p \in Peers, accept(p) PROVE RoomInv'
      BY <2>1, AcceptKeeps
    <2>2. ASSUME NEW p \in Peers, adopt(p) PROVE RoomInv'
      BY <2>2, AdoptKeeps
    <2>3. ASSUME NEW i \in Ids, NEW msg \in Messages, hear_msg(i, msg) PROVE RoomInv'
      BY <2>3, HearMsgKeeps
    <2>4. ASSUME NEW i \in Ids, NEW end \in {"gone", "breach"}, reader_ends(i, end) PROVE RoomInv'
      BY <2>4, ThreadEndKeeps
    <2>5. ASSUME NEW i \in Ids, hear_end(i) PROVE RoomInv'
      BY <2>5, HearEndKeeps
    <2>6. ASSUME NEW i \in Ids, writer_ends(i) PROVE RoomInv'
      BY <2>6, ThreadEndKeeps
    <2>7. ASSUME NEW i \in Ids, drop_strangers(i) PROVE RoomInv'
      BY <2>7, DropStrangersKeeps
    <2>8. CASE UNCHANGED vars
      <3>1. /\ UNCHANGED <<next_player, conns, parting, from, people, reader, writer>>
            /\ pending' = pending
        BY <2>8 DEF vars
      <3>2. pending' \in [Peers -> 0..MaxPerSource]
        BY <3>1 DEF RoomInv, RoomBounded, TypeOK
      <3> QED
        BY <3>1, <3>2, QuietKeeps
    <2> QED
      BY <2>1, <2>2, <2>3, <2>4, <2>5, <2>6, <2>7, <2>8 DEF Next
  <1> QED
    BY <1>1, <1>2, PTL DEF Spec

\* However many dial, flood, leave and are let go: the server lists no more
\* connections than it may and runs threads for less than twice as many, no
\* source or site holds more strangers than its bound, watchers without a key
\* stay within their share, and the lists agree (Server::adopt, greet, hear).
THEOREM RoomIsBounded ==
    ASSUME AdmissionAssumption
    PROVE  Spec => []RoomBounded
  <1>1. RoomInv => RoomBounded
    BY DEF RoomInv
  <1> QED
    BY <1>1, RoomInvariant, PTL

\* The stranger let go for a newcomer from p is of a source that holds as many
\* strangers as p's: make_room's order puts one of p's own behind it otherwise.
LEMMA VictimHoldsMore ==
    ASSUME AdmissionAssumption, RoomInv, NEW p \in Peers, NEW i \in Victim(p), i \notin parting
    PROVE  Cardinality(Of(strangers, from[i])) >= Cardinality(Of(strangers, p))
  <1>1. i \in strangers /\ from[i] # p /\ \A j \in strangers \ {i} : Before(j, i, p)
    BY DEF Victim
  <1>2. \A q : Of(strangers, q) \in SUBSET Ids
    BY DEF Of, strangers, RoomInv, RoomBounded, TypeOK
  <1>3. \A q : Cardinality(Of(strangers, q)) \in Nat
    BY <1>2, CountsOfIds
  <1>4. CASE Of(strangers, p) = {}
    BY <1>3, <1>4, FS_EmptySet
  <1>5. CASE Of(strangers, p) # {}
    <2>1. PICK j \in strangers : from[j] = p
      BY <1>5 DEF Of
    <2>2. Before(j, i, p)
      BY <1>1, <2>1
    <2> DEFINE mine == Cardinality(Of(strangers, p))
               its == Cardinality(Of(strangers, from[i]))
    <2>3. mine < its \/ mine = its
      BY <2>1, <2>2 DEF Before
    <2>4. mine \in Nat /\ its \in Nat
      BY <1>3
    <2> HIDE DEF mine, its
    <2>5. its >= mine
      BY <2>3, <2>4
    <2> QED
      BY <2>5 DEF mine, its
  <1> QED
    BY <1>4, <1>5

\* A newcomer costs nobody its place who said Hello, nor a stranger whose source
\* holds less than the newcomer's: a flood displaces itself (Server::make_room).
THEOREM FloodsSpareOthers ==
    ASSUME AdmissionAssumption
    PROVE  Spec => FloodSparesOthers
  <1>1. ASSUME RoomInv, NEW p \in Peers, adopt(p)
        PROVE  /\ \A i \in conns : greeted(i) => i \in conns' /\ greeted(i)'
               /\ \A i \in strangers \ (strangers)' : i \notin parting =>
                     Cardinality(Of(strangers, from[i])) >= Cardinality(Of(strangers, p))
    <2>1. ASSUME NEW gone, NEW new, Adopts(p, gone, new)
          PROVE  /\ \A i \in conns : greeted(i) => i \in conns' /\ greeted(i)'
                 /\ strangers \ (strangers)' \subseteq gone
      <3>1. UNCHANGED people /\ conns' = (conns \ gone) \cup new /\ parting' = parting \ gone
            /\ gone \subseteq Victim(p)
        BY <2>1 DEF Adopts
      <3>2. \A i : greeted(i)' <=> greeted(i)
        BY <3>1 DEF people, greeted, Seated, Watchers
      <3>3. \A i \in gone : i \in conns => ~greeted(i)
        BY <1>1, <3>1, VictimsAreStrangers
      <3> QED
        BY <3>1, <3>2, <3>3 DEF strangers
    <2>2. ASSUME NEW gone, NEW new, Adopts(p, gone, new), NEW i \in strangers \ (strangers)',
                 i \notin parting
          PROVE  Cardinality(Of(strangers, from[i])) >= Cardinality(Of(strangers, p))
      <3>1. i \in Victim(p)
        BY <2>1, <2>2 DEF Adopts
      <3> QED
        BY <1>1, <2>2, <3>1, VictimHoldsMore
    <2>3. CASE UNCHANGED <<conns, parting, from, people>>
      <3>1. \A i : greeted(i)' <=> greeted(i)
        BY <2>3 DEF people, greeted, Seated, Watchers
      <3>2. (strangers)' = strangers
        BY <2>3, <3>1 DEF strangers
      <3> QED
        BY <2>3, <3>1, <3>2
    <2> QED
      BY <1>1, <2>1, <2>2, <2>3, AdoptsOrRefuses
  <1>2. RoomInv => [Spared]_vars
    BY <1>1 DEF Spared, GreetedStay, StrangersSpared
  <1> QED
    BY <1>2, RoomInvariant, PTL DEF FloodSparesOthers

-----------------------------------------------------------------------------
(* The client's link. *)

\* What a server says of a link.
SaidWords == {"word", "welcome", "held", "refused", "over"}
Standing == {"unused", "open", "cut", "shut", "aborted"}

\* The state of a link, typed in full.
LinkTypes ==
    /\ net \in {"reading", "redialing", "ended"} /\ state \in {"up", "redialing", "closed"}
    /\ dials \in Connections /\ conn \in 1 .. dials /\ holder \in 0 .. dials
    /\ broken \in BOOLEAN /\ rejoining \in BOOLEAN /\ finished \in BOOLEAN /\ over \in BOOLEAN
    /\ spent \in 0 .. Attempts /\ orders \in 0 .. MaxOrders
    /\ unsent \in Seq(Nat \ {0}) /\ Len(unsent) <= MaxUnsent
    /\ taken \in Seq(Nat \ {0})
    /\ link \in [Connections -> Standing]
    /\ c2s \in [Connections -> Seq(Nat)]
    /\ s2c \in [Connections -> Seq(SaidWords)]
    /\ replied \in BOOLEAN /\ dismissed \in BOOLEAN

\* Only the connection the reader is on is open or has anything to be heard on it,
\* those not dialed yet are empty, and a reader that left its connection left one
\* that was not open.
OneOpen ==
    /\ \A c \in Connections : link[c] = "unused" <=> c > dials
    /\ \A c \in Connections : c > dials => c2s[c] = <<>>
    /\ \A c \in Connections : c # conn => s2c[c] = <<>>
    /\ \A c \in Connections : link[c] = "open" => c = conn /\ net = "reading"
    /\ broken => link[conn] = "aborted"
    /\ over => \A c \in Connections : link[c] # "open" /\ c2s[c] = <<>>

\* A Hello is the first word on a connection and the only one of its kind: an open
\* connection without one on the way holds the seat, as does one whose next word
\* is an order; one whose Hello is on the way was pinged at most.
OneHello ==
    /\ \A c \in Connections : \A i \in DOMAIN c2s[c] : c2s[c][i] = Hello => i = 1
    /\ \A c \in Connections : c2s[c] # <<>> => c2s[c][1] = Hello \/ holder = c
    /\ \A c \in Connections : link[c] = "open" => c2s[c] # <<>> \/ holder = c
    /\ c2s[conn] # <<>> /\ c2s[conn][1] = Hello =>
           rejoining /\ \A i \in DOMAIN s2c[conn] : s2c[conn][i] = "word"

\* What the server says is true of it: an answer, a seat held and not welcomed, the
\* match over, a refusal.
WordsTrue ==
    /\ \A i \in DOMAIN s2c[conn] :
           /\ s2c[conn][i] # "held" => replied
           /\ s2c[conn][i] = "over" => over
           /\ s2c[conn][i] = "refused" => dismissed
    /\ (\E i \in DOMAIN s2c[conn] : s2c[conn][i] = "held") =>
           /\ link[conn] # "open" /\ rejoining
           /\ \A i \in DOMAIN s2c[conn] : s2c[conn][i] # "welcome"
    /\ finished => over \/ dismissed

\* A connection the server shut because of a held seat still has that refusal on it
\* until the reader heard it.
ShutSaid ==
    link[conn] = "shut" /\ ~over /\ ~dismissed /\ net = "reading"
        => \E i \in DOMAIN s2c[conn] : s2c[conn][i] = "held"

\* Where the reader is, and what the link says of itself.
Follows ==
    /\ net = "ended" => state = "closed"
    /\ net = "redialing" => state # "up" /\ ~finished

\* UpAnswered and EndsForCause are not inductive: that whatever ends a link for
\* good was the server's doing takes what is on the way to the client.
LinkInv ==
    /\ LinkTypes /\ OneOpen /\ OneHello /\ WordsTrue /\ ShutSaid /\ Follows
    /\ UpAnswered /\ EndsForCause

\* Orders in the order they were given, one sequence of them or two.
Grows(s) == \A i, j \in DOMAIN s : i < j => s[i] < s[j]
Sooner(s, t) == \A i \in DOMAIN s, j \in DOMAIN t : t[j] # Hello => s[i] < t[j]
Within(s, t) == \A i \in DOMAIN s : \E j \in DOMAIN t : s[i] = t[j]

\* From what was taken over the wires, in the order they were dialed, to what was
\* not sent, orders only grow.
OrderInv ==
    /\ dials = conn
    /\ link[conn] = "open" => unsent = <<>>
    /\ Grows(taken) /\ Grows(unsent) /\ \A c \in Connections : Grows(c2s[c])
    /\ Sooner(taken, unsent)
    /\ \A c \in Connections : Sooner(taken, c2s[c]) /\ Sooner(c2s[c], unsent)
    /\ \A b, c \in Connections : b < c => Sooner(c2s[b], c2s[c])
    /\ \A i \in DOMAIN taken : taken[i] <= orders
    /\ \A i \in DOMAIN unsent : unsent[i] <= orders
    /\ \A c \in Connections : \A i \in DOMAIN c2s[c] : c2s[c][i] <= orders

-----------------------------------------------------------------------------
(* The client's link: types, and why it ends or is up. *)

LEMMA DialedIn ==
    ASSUME LinkAssumption
    PROVE  /\ Connections \subseteq Nat \ {0} /\ 1 \in Connections
           /\ \A d \in Connections : 1 .. d \subseteq Connections
  <1>1. (Cuts + 1) * Attempts \in Nat
    BY DEF LinkAssumption
  <1>2. DEFINE n == (Cuts + 1) * Attempts
  <1>3. n \in Nat
    BY <1>1
  <1>4. Connections = 1 .. 1 + n
    BY DEF Connections
  <1> HIDE DEF n
  <1> QED
    BY <1>3, <1>4

\* What the proofs below use of it again and again.
LEMMA LinkBasics ==
    ASSUME LinkAssumption, LinkInv
    PROVE  /\ LinkTypes /\ OneOpen /\ OneHello /\ WordsTrue /\ ShutSaid /\ Follows
           /\ UpAnswered /\ EndsForCause
           /\ Connections \subseteq Nat \ {0} /\ conn \in Connections /\ dials \in Connections
           /\ conn <= dials /\ conn \in Nat /\ dials \in Nat
           /\ MaxUnsent \in Nat \ {0} /\ MaxOrders \in Nat /\ Attempts \in Nat \ {0}
  <1>1. Connections \subseteq Nat \ {0} /\ \A d \in Connections : 1 .. d \subseteq Connections
    BY DialedIn
  <1>2. dials \in Connections /\ conn \in 1 .. dials
    BY DEF LinkInv, LinkTypes
  <1>3. MaxUnsent \in Nat \ {0} /\ MaxOrders \in Nat /\ Attempts \in Nat \ {0}
    BY DEF LinkAssumption
  <1> QED
    BY <1>1, <1>2, <1>3 DEF LinkInv

\* A word more at the end of a wire.
LEMMA Appended ==
    ASSUME NEW s \in Seq(Nat), NEW n \in Nat
    PROVE  /\ Append(s, n) \in Seq(Nat) /\ Append(s, n) # <<>>
           /\ DOMAIN Append(s, n) = DOMAIN s \cup {Len(s) + 1}
           /\ Append(s, n)[Len(s) + 1] = n
           /\ \A i \in DOMAIN s : Append(s, n)[i] = s[i]
  <1>1. Len(Append(s, n)) = Len(s) + 1 /\ Append(s, n) \in Seq(Nat)
    OBVIOUS
  <1>2. DOMAIN Append(s, n) = 1 .. Len(s) + 1 /\ DOMAIN s = 1 .. Len(s) /\ Len(s) \in Nat
    BY <1>1
  <1>3. DOMAIN Append(s, n) = DOMAIN s \cup {Len(s) + 1}
    BY <1>2
  <1> QED
    BY <1>1, <1>2, <1>3

\* A word less at its head, or at its end.
LEMMA Shortened ==
    ASSUME NEW S, NEW s \in Seq(S), s # <<>>
    PROVE  /\ Tail(s) \in Seq(S) /\ Head(s) = s[1] /\ 1 \in DOMAIN s /\ s[1] \in S
           /\ \A i \in DOMAIN Tail(s) : i \in Nat \ {0} /\ i + 1 \in DOMAIN s /\ Tail(s)[i] = s[i + 1]
           /\ \A i \in DOMAIN s : i # 1 => i \in Nat \ {0} /\ i - 1 \in DOMAIN Tail(s) /\ Tail(s)[i - 1] = s[i]
  <1>1. Len(s) \in Nat \ {0} /\ DOMAIN s = 1 .. Len(s)
    OBVIOUS
  <1>2. Tail(s) \in Seq(S) /\ Len(Tail(s)) = Len(s) - 1 /\ DOMAIN Tail(s) = 1 .. Len(s) - 1
    BY <1>1
  <1>3. \A i \in 1 .. Len(s) - 1 : Tail(s)[i] = s[i + 1]
    BY <1>1, <1>2
  <1> QED
    BY <1>1, <1>2, <1>3

LEMMA CutOrders ==
    ASSUME NEW s \in Seq(Nat), NEW k \in 0 .. Len(s)
    PROVE  /\ SubSeq(s, 1, k) \in Seq(Nat)
           /\ DOMAIN SubSeq(s, 1, k) \subseteq DOMAIN s
           /\ \A i \in DOMAIN SubSeq(s, 1, k) : SubSeq(s, 1, k)[i] = s[i]
           /\ k # 0 <=> SubSeq(s, 1, k) # <<>>
           /\ SubSeq(s, 1, k) # <<>> => 1 \in DOMAIN SubSeq(s, 1, k)
  <1>1. Len(s) \in Nat /\ DOMAIN s = 1 .. Len(s) /\ k \in Nat
    OBVIOUS
  <1>2. SubSeq(s, 1, k) \in Seq(Nat) /\ Len(SubSeq(s, 1, k)) = k /\ DOMAIN SubSeq(s, 1, k) = 1 .. k
    BY <1>1
  <1>3. \A i \in 1 .. k : SubSeq(s, 1, k)[i] = s[i]
    BY <1>1
  <1> QED
    BY <1>1, <1>2, <1>3

LEMMA CutWords ==
    ASSUME NEW s \in Seq(SaidWords), NEW k \in 0 .. Len(s)
    PROVE  /\ SubSeq(s, 1, k) \in Seq(SaidWords)
           /\ \A i \in DOMAIN SubSeq(s, 1, k) : i \in DOMAIN s /\ SubSeq(s, 1, k)[i] = s[i]
  <1>1. Len(s) \in Nat /\ DOMAIN s = 1 .. Len(s) /\ k \in Nat
    OBVIOUS
  <1>2. SubSeq(s, 1, k) \in Seq(SaidWords) /\ Len(SubSeq(s, 1, k)) = k /\ DOMAIN SubSeq(s, 1, k) = 1 .. k
    BY <1>1
  <1>3. \A i \in 1 .. k : SubSeq(s, 1, k)[i] = s[i]
    BY <1>1
  <1> QED
    BY <1>1, <1>2, <1>3

\* The Hello, then what was not sent.
LEMMA Greeting ==
    ASSUME NEW u \in Seq(Nat \ {0})
    PROVE  LET f == <<Hello>> \o u
           IN  /\ f \in Seq(Nat) /\ f # <<>> /\ Len(f) = Len(u) + 1 /\ f[1] = 0
               /\ \A i \in DOMAIN f : i # 1 => i - 1 \in DOMAIN u /\ f[i] = u[i - 1]
  <1>1. <<Hello>> \in Seq(Nat) /\ Len(<<Hello>>) = 1 /\ u \in Seq(Nat)
    BY DEF Hello
  <1>2. DEFINE f == <<Hello>> \o u
  <1>3. f \in Seq(Nat) /\ Len(f) = Len(u) + 1
    BY <1>1
  <1>4. DOMAIN f = 1 .. Len(u) + 1 /\ DOMAIN u = 1 .. Len(u) /\ Len(u) \in Nat
    BY <1>1, <1>3
  <1>5. f[1] = 0 /\ \A i \in 2 .. Len(u) + 1 : f[i] = u[i - 1]
    BY <1>1, <1>4 DEF Hello
  <1> QED
    BY <1>3, <1>4, <1>5

LEMMA LinkStarts ==
    ASSUME LinkAssumption, LinkInit
    PROVE  LinkInv
  <1>0. /\ Connections \subseteq Nat \ {0} /\ 1 \in Connections
        /\ Attempts \in Nat /\ MaxUnsent \in Nat /\ MaxOrders \in Nat
    BY DialedIn DEF LinkAssumption
  <1>a. \A c \in Connections : /\ c2s[c] = IF c = 1 THEN <<0>> ELSE <<>>
                               /\ s2c[c] = <<>>
                               /\ link[c] = IF c = 1 THEN "open" ELSE "unused"
    BY <1>0 DEF LinkInit, Hello
  <1>1. LinkTypes
    <2>1. c2s \in [Connections -> Seq(Nat)] /\ s2c \in [Connections -> Seq(SaidWords)]
      BY <1>0 DEF LinkInit, Hello
    <2>2. link \in [Connections -> Standing]
      BY DEF LinkInit, Standing
    <2>3. unsent \in Seq(Nat \ {0}) /\ Len(unsent) <= MaxUnsent /\ taken \in Seq(Nat \ {0})
      BY <1>0 DEF LinkInit
    <2>4. /\ net = "reading" /\ state = "up" /\ conn = 1 /\ broken = FALSE /\ rejoining = TRUE
          /\ finished = FALSE /\ spent = 0 /\ orders = 0 /\ dials = 1 /\ holder = 0 /\ over = FALSE
          /\ replied = FALSE /\ dismissed = FALSE
      BY DEF LinkInit
    <2>5. /\ spent \in 0 .. Attempts /\ orders \in 0 .. MaxOrders
          /\ dials \in Connections /\ conn \in 1 .. dials /\ holder \in 0 .. dials
      BY ONLY <1>0, <2>4
    <2>6. /\ net \in {"reading", "redialing", "ended"} /\ state \in {"up", "redialing", "closed"}
          /\ broken \in BOOLEAN /\ rejoining \in BOOLEAN /\ finished \in BOOLEAN /\ over \in BOOLEAN
          /\ replied \in BOOLEAN /\ dismissed \in BOOLEAN
      BY ONLY <2>4
    <2> QED
      BY ONLY <2>1, <2>2, <2>3, <2>5, <2>6, Zenon DEF LinkTypes
  <1>2. OneOpen
    BY <1>0, <1>a DEF LinkInit, OneOpen
  <1>3. OneHello
    BY <1>0, <1>a DEF LinkInit, OneHello, Hello
  <1>4. WordsTrue /\ ShutSaid
    <2>1. conn \in Connections /\ s2c[conn] = <<>> /\ DOMAIN s2c[conn] = {} /\ ~finished
      BY <1>0, <1>a DEF LinkInit
    <2>2. link[conn] = "open"
      BY <1>0, <1>a DEF LinkInit
    <2> QED
      BY <2>1, <2>2 DEF WordsTrue, ShutSaid
  <1> QED
    BY <1>1, <1>2, <1>3, <1>4 DEF LinkInit, LinkInv, Follows, UpAnswered, EndsForCause

\* What the server says is heard on the connection the reader is on, if anywhere.
LEMMA SaysOn ==
    ASSUME LinkAssumption, LinkInv, NEW c \in Connections, NEW m \in SaidWords, Says(c, m)
    PROVE  /\ s2c' \in [Connections -> Seq(SaidWords)] /\ replied' \in BOOLEAN
           /\ replied => replied'
           /\ \A d \in Connections : d # conn => s2c'[d] = <<>>
           /\ \A i \in DOMAIN s2c[conn] : i \in DOMAIN s2c'[conn] /\ s2c'[conn][i] = s2c[conn][i]
           /\ \A i \in DOMAIN s2c'[conn] :
                  \/ i \in DOMAIN s2c[conn] /\ s2c'[conn][i] = s2c[conn][i]
                  \/ s2c'[conn][i] = m /\ c = conn /\ link[c] = "open" /\ (m # "held" => replied')
           /\ link[c] = "open" => c = conn /\ \E i \in DOMAIN s2c'[conn] : s2c'[conn][i] = m
  <1>a. /\ LinkTypes /\ OneOpen /\ conn \in Connections
    BY LinkBasics
  <1>1. CASE link[c] = "open"
    <2>1. /\ c = conn /\ s2c' = [s2c EXCEPT ![c] = Append(s2c[c], m)] /\ replied' = (replied \/ m # "held")
      BY <1>1, <1>a DEF Says, OneOpen
    <2>2. s2c[conn] \in Seq(SaidWords)
      BY <1>a DEF LinkTypes
    <2> DEFINE v == Append(s2c[conn], m)
    <2>3. /\ v \in Seq(SaidWords) /\ Len(s2c[conn]) \in Nat
          /\ DOMAIN v = 1 .. Len(s2c[conn]) + 1 /\ DOMAIN s2c[conn] = 1 .. Len(s2c[conn])
          /\ v[Len(s2c[conn]) + 1] = m /\ \A i \in DOMAIN s2c[conn] : v[i] = s2c[conn][i]
      BY <2>2
    <2> HIDE DEF v
    <2>4. s2c'[conn] = v /\ \A d \in Connections : d # conn => s2c'[d] = s2c[d]
      BY <2>1, <1>a DEF LinkTypes, v
    <2>5. s2c' \in [Connections -> Seq(SaidWords)]
      BY <2>1, <2>3, <1>a DEF LinkTypes, v
    <2>6. \A d \in Connections : d # conn => s2c'[d] = <<>>
      BY <2>4, <1>a DEF OneOpen
    <2>7. replied' \in BOOLEAN /\ (replied => replied') /\ (m # "held" => replied')
      BY <2>1
    <2>8. Len(s2c[conn]) + 1 \in DOMAIN v
      BY <2>3
    <2> QED
      BY <1>1, <2>1, <2>3, <2>4, <2>5, <2>6, <2>7, <2>8
  <1>2. CASE link[c] # "open"
    BY <1>2, <1>a DEF Says, LinkTypes, OneOpen
  <1> QED
    BY <1>1, <1>2

\* A connection the server closes keeps nothing on its way to it.
LEMMA ShutsIt ==
    ASSUME LinkAssumption, LinkInv, NEW c \in Connections, Shuts(c)
    PROVE  /\ link' \in [Connections -> Standing] /\ c2s' \in [Connections -> Seq(Nat)]
           /\ link'[c] = (IF link[c] = "open" THEN "shut" ELSE link[c])
           /\ \A d \in Connections : d # c => link'[d] = link[d] /\ c2s'[d] = c2s[d]
           /\ c2s'[c] = <<>>
           /\ \A d \in Connections : link'[d] = "open" => link[d] = "open" /\ d # c
           /\ \A d \in Connections : link'[d] = "unused" <=> link[d] = "unused"
  <1>a. /\ LinkTypes /\ OneOpen /\ conn \in Connections
    BY LinkBasics
  <1>1. /\ link' \in [Connections -> Standing]
        /\ link'[c] = (IF link[c] = "open" THEN "shut" ELSE link[c])
        /\ \A d \in Connections : d # c => link'[d] = link[d]
    BY <1>a DEF Shuts, LinkTypes, Standing
  <1>2. /\ c2s' \in [Connections -> Seq(Nat)] /\ c2s'[c] = <<>>
        /\ \A d \in Connections : d # c => c2s'[d] = c2s[d]
    BY <1>a DEF Shuts, LinkTypes
  <1>3. \A d \in Connections : link'[d] = "unused" <=> link[d] = "unused"
    BY <1>1
  <1> QED
    BY <1>1, <1>2, <1>3

\* An order leaves the caller.
LEMMA LinkSends ==
    ASSUME LinkAssumption, LinkInv, NEW n \in Orders, Send(n)
    PROVE  LinkInv'
  <1>a. /\ LinkTypes /\ OneOpen /\ OneHello /\ WordsTrue /\ ShutSaid /\ Follows
        /\ UpAnswered /\ EndsForCause
    BY LinkBasics
  <1>b. /\ Connections \subseteq Nat \ {0} /\ conn \in Connections /\ conn <= dials /\ conn \in Nat /\ dials \in Nat
        /\ MaxUnsent \in Nat \ {0} /\ MaxOrders \in Nat
    BY LinkBasics
  <1>c. n \in Nat \ {0} /\ orders' = n /\ orders' \in 0 .. MaxOrders
    BY <1>b DEF Send, Orders
  <1>d. /\ net' = net /\ conn' = conn /\ rejoining' = rejoining /\ finished' = finished /\ spent' = spent
        /\ dials' = dials /\ s2c' = s2c /\ holder' = holder /\ over' = over /\ taken' = taken
        /\ replied' = replied /\ dismissed' = dismissed /\ state # "closed"
    BY DEF Send, server
  <1>1. CASE link[conn] = "open" /\ c2s' = [c2s EXCEPT ![conn] = Append(c2s[conn], n)]
             /\ state' = state /\ broken' = broken /\ unsent' = unsent /\ link' = link
    <2>1. c2s' \in [Connections -> Seq(Nat)] /\ c2s'[conn] = Append(c2s[conn], n)
          /\ \A c \in Connections : c # conn => c2s'[c] = c2s[c]
      BY <1>1, <1>a, <1>b, <1>c DEF LinkTypes
    <2>2. LinkTypes'
      BY <1>1, <1>a, <1>b, <1>c, <1>d, <2>1 DEF LinkTypes
    <2>3. OneOpen'
      BY <1>1, <1>a, <1>b, <1>c, <1>d, <2>1 DEF OneOpen
    <2>4. OneHello'
      <3>1. c2s[conn] \in Seq(Nat)
        BY <1>a, <1>b DEF LinkTypes
      <3>2. /\ Append(c2s[conn], n) # <<>> /\ Len(c2s[conn]) \in Nat
            /\ DOMAIN Append(c2s[conn], n) = DOMAIN c2s[conn] \cup {Len(c2s[conn]) + 1}
            /\ Append(c2s[conn], n)[Len(c2s[conn]) + 1] = n
            /\ \A i \in DOMAIN c2s[conn] : Append(c2s[conn], n)[i] = c2s[conn][i]
            /\ c2s[conn] # <<>> => 1 \in DOMAIN c2s[conn]
            /\ c2s[conn] = <<>> => Len(c2s[conn]) + 1 = 1
        BY <3>1, <1>c, Appended
      <3> QED
        BY <1>1, <1>a, <1>b, <1>c, <1>d, <2>1, <3>2 DEF OneHello, Hello
    <2>5. WordsTrue' /\ ShutSaid' /\ UpAnswered' /\ EndsForCause'
      BY <1>1, <1>a, <1>d DEF WordsTrue, ShutSaid, UpAnswered, EndsForCause
    <2> QED
      BY <1>1, <1>a, <1>d, <2>2, <2>3, <2>4, <2>5 DEF LinkInv, Follows
  <1>2. CASE link[conn] # "open" /\ BreakOff /\ unsent' = Unsent(n)
             /\ c2s' = c2s /\ state' = state
    <2>1. link' \in [Connections -> Standing] /\ broken' = TRUE
          /\ link'[conn] = "aborted" /\ \A c \in Connections : c # conn => link'[c] = link[c]
      BY <1>2, <1>a, <1>b DEF LinkTypes, BreakOff, Standing
    <2>2. Unsent(n) \in Seq(Nat \ {0}) /\ Len(Unsent(n)) <= MaxUnsent
      BY <1>a, <1>b, <1>c DEF LinkTypes, Unsent
    <2>3. LinkTypes'
      BY <1>2, <1>a, <1>c, <1>d, <2>1, <2>2 DEF LinkTypes
    <2>4. OneOpen' /\ OneHello'
      BY <1>2, <1>a, <1>b, <1>d, <2>1 DEF OneOpen, OneHello
    <2>5. WordsTrue' /\ ShutSaid' /\ UpAnswered' /\ EndsForCause'
      BY <1>2, <1>a, <1>d, <2>1 DEF WordsTrue, ShutSaid, UpAnswered, EndsForCause
    <2> QED
      BY <1>2, <1>a, <1>d, <2>3, <2>4, <2>5 DEF LinkInv, Follows
  <1>3. CASE /\ state' = state \/ state' = "closed"
             /\ broken' = broken /\ unsent' = unsent /\ link' = link /\ c2s' = c2s
    <2>1. LinkTypes'
      BY <1>3, <1>a, <1>c, <1>d DEF LinkTypes
    <2>2. OneOpen' /\ OneHello'
      BY <1>3, <1>a, <1>d DEF OneOpen, OneHello
    <2>5. WordsTrue' /\ ShutSaid' /\ UpAnswered' /\ EndsForCause'
      BY <1>3, <1>a, <1>d DEF WordsTrue, ShutSaid, UpAnswered, EndsForCause
    <2> QED
      BY <1>3, <1>a, <1>d, <2>1, <2>2, <2>5 DEF LinkInv, Follows
  <1> QED
    BY <1>1, <1>2, <1>3 DEF Send

\* A send of no order fails.
LEMMA LinkProbes ==
    ASSUME LinkAssumption, LinkInv, Probe
    PROVE  LinkInv'
  <1>a. /\ LinkTypes /\ OneOpen /\ OneHello /\ WordsTrue /\ ShutSaid /\ Follows
        /\ UpAnswered /\ EndsForCause /\ conn \in Connections /\ conn <= dials /\ conn \in Nat /\ dials \in Nat
    BY LinkBasics
  <1>b. /\ net' = net /\ state' = state /\ conn' = conn /\ unsent' = unsent
        /\ rejoining' = rejoining /\ finished' = finished /\ spent' = spent /\ orders' = orders /\ dials' = dials
        /\ c2s' = c2s /\ s2c' = s2c /\ over' = over /\ taken' = taken
        /\ replied' = replied /\ dismissed' = dismissed /\ holder' = holder
        /\ link[conn] # "open" /\ BreakOff
    BY DEF Probe, rejoin, server
  <1>1. link' \in [Connections -> Standing] /\ broken' = TRUE
        /\ link'[conn] = "aborted" /\ \A c \in Connections : c # conn => link'[c] = link[c]
    BY <1>a, <1>b DEF LinkTypes, BreakOff, Standing
  <1>2. LinkTypes'
    BY <1>a, <1>b, <1>1 DEF LinkTypes
  <1>3. OneOpen' /\ OneHello'
    BY <1>a, <1>b, <1>1 DEF OneOpen, OneHello
  <1>4. WordsTrue' /\ ShutSaid' /\ UpAnswered' /\ EndsForCause'
    BY <1>a, <1>b, <1>1 DEF WordsTrue, ShutSaid, UpAnswered, EndsForCause
  <1> QED
    BY <1>a, <1>b, <1>2, <1>3, <1>4 DEF LinkInv, Follows

\* The reader hears the next word.
LEMMA LinkReads ==
    ASSUME LinkAssumption, LinkInv, Read
    PROVE  LinkInv'
  <1>a. /\ LinkTypes /\ OneOpen /\ OneHello /\ WordsTrue /\ ShutSaid /\ Follows
        /\ UpAnswered /\ EndsForCause
    BY LinkBasics
  <1>b. /\ Connections \subseteq Nat \ {0} /\ conn \in Connections /\ conn <= dials /\ conn \in Nat /\ dials \in Nat
        /\ Attempts \in Nat \ {0}
    BY LinkBasics
  <1>c. /\ net = "reading" /\ s2c[conn] # <<>> /\ s2c' = [s2c EXCEPT ![conn] = Tail(s2c[conn])]
        /\ conn' = conn /\ unsent' = unsent /\ orders' = orders /\ dials' = dials
        /\ c2s' = c2s /\ holder' = holder /\ over' = over /\ taken' = taken
        /\ replied' = replied /\ dismissed' = dismissed
    BY DEF Read, server
  <1>d. s2c[conn] \in Seq(SaidWords)
    BY <1>a, <1>b DEF LinkTypes
  <1>e. /\ Tail(s2c[conn]) \in Seq(SaidWords)
        /\ Head(s2c[conn]) = s2c[conn][1] /\ 1 \in DOMAIN s2c[conn]
        /\ \A i \in DOMAIN Tail(s2c[conn]) : i + 1 \in DOMAIN s2c[conn] /\ Tail(s2c[conn])[i] = s2c[conn][i + 1]
        /\ \A i \in DOMAIN s2c[conn] :
               i # 1 => i - 1 \in DOMAIN Tail(s2c[conn]) /\ Tail(s2c[conn])[i - 1] = s2c[conn][i]
    BY <1>c, <1>d, Shortened
  <1>f. /\ s2c' \in [Connections -> Seq(SaidWords)]
        /\ s2c'[conn] = Tail(s2c[conn])
        /\ \A c \in Connections : c # conn => s2c'[c] = s2c[c]
    BY <1>a, <1>b, <1>c, <1>e DEF LinkTypes
  <1>g. \A i \in DOMAIN s2c'[conn] : \E j \in DOMAIN s2c[conn] : s2c'[conn][i] = s2c[conn][j]
    BY <1>e, <1>f
  <1>h. \A i \in DOMAIN s2c[conn] : s2c[conn][i] # s2c[conn][1] =>
            \E j \in DOMAIN s2c'[conn] : s2c'[conn][j] = s2c[conn][i]
    <2> SUFFICES ASSUME NEW i \in DOMAIN s2c[conn], s2c[conn][i] # s2c[conn][1]
                 PROVE  \E j \in DOMAIN s2c'[conn] : s2c'[conn][j] = s2c[conn][i]
      OBVIOUS
    <2>1. i # 1
      OBVIOUS
    <2>2. i - 1 \in DOMAIN s2c'[conn] /\ s2c'[conn][i - 1] = s2c[conn][i]
      BY <1>e, <1>f, <2>1
    <2> QED
      BY <2>2
  <1>2. ASSUME link' \in [Connections -> Standing], broken' \in BOOLEAN, broken' => link'[conn] = "aborted",
               \A d \in Connections : d # conn => link'[d] = link[d],
               link'[conn] = link[conn] \/ (link[conn] \notin {"open", "unused"} /\ link'[conn] = "aborted"),
               \A d \in Connections : link'[d] = "open" => net' = "reading",
               rejoining' \/ ~(c2s[conn] # <<>> /\ c2s[conn][1] = Hello), rejoining' \in BOOLEAN,
               finished' \in BOOLEAN, net' \in {"reading", "redialing", "ended"},
               state' \in {"up", "redialing", "closed"}, spent' \in 0 .. Attempts
        PROVE  LinkTypes' /\ OneOpen' /\ OneHello'
    <2>1. LinkTypes'
      BY <1>2, <1>a, <1>c, <1>f DEF LinkTypes
    <2>2. OneOpen'
      BY <1>2, <1>a, <1>b, <1>c, <1>f DEF OneOpen
    <2>3. OneHello'
      BY <1>2, <1>a, <1>b, <1>c, <1>f, <1>g DEF OneHello
    <2> QED
      BY <2>1, <2>2, <2>3
  <1>i. /\ link \in [Connections -> Standing] /\ broken \in BOOLEAN /\ rejoining \in BOOLEAN
        /\ finished \in BOOLEAN /\ spent \in 0 .. Attempts /\ Answered \in {"up", "closed"}
        /\ (broken => link[conn] = "aborted") /\ link[conn] # "unused"
    BY <1>a, <1>b DEF LinkTypes, OneOpen, Answered
  <1>j. /\ 0 \in 0 .. Attempts
        /\ (\E i \in DOMAIN s2c'[conn] : s2c'[conn][i] = "held") =>
               \E i \in DOMAIN s2c[conn] : s2c[conn][i] = "held"
    BY <1>b, <1>g
  <1>4. CASE /\ s2c[conn][1] \in {"word", "welcome"} /\ state' = Answered
             /\ net' = net /\ finished' = finished
             /\ s2c[conn][1] = "welcome" =>
                    rejoining' = FALSE /\ spent' = 0 /\ UNCHANGED <<broken, link>>
             /\ s2c[conn][1] = "word" => rejoining' = rejoining /\ spent' = spent
             /\ UNCHANGED <<broken, link>> \/ (link[conn] # "open" /\ BreakOff)
    <2>1. replied
      BY <1>4, <1>a, <1>e DEF WordsTrue
    <2>2. s2c[conn][1] = "welcome" => /\ ~(c2s[conn] # <<>> /\ c2s[conn][1] = Hello)
                                      /\ ~\E i \in DOMAIN s2c[conn] : s2c[conn][i] = "held"
      BY <1>a, <1>e DEF OneHello, WordsTrue
    <2>3. /\ link' \in [Connections -> Standing] /\ broken' \in BOOLEAN
          /\ \A d \in Connections : d # conn => link'[d] = link[d]
          /\ \/ link' = link /\ broken' = broken
             \/ link[conn] # "open" /\ link'[conn] = "aborted" /\ broken' = TRUE
      BY <1>4, <1>b, <1>i DEF BreakOff, Standing
    <2>4. LinkTypes' /\ OneOpen' /\ OneHello'
      <3>1. \A d \in Connections : link'[d] = "open" => link[d] = "open"
        BY <1>b, <2>3
      <3>2. rejoining' \/ ~(c2s[conn] # <<>> /\ c2s[conn][1] = Hello)
        BY <1>4, <1>a, <2>2 DEF OneHello
      <3>3. spent' \in 0 .. Attempts /\ rejoining' \in BOOLEAN
        BY <1>4, <1>i, <1>j
      <3> QED
        BY <1>2, <1>4, <1>a, <1>c, <1>i, <2>3, <3>1, <3>2, <3>3 DEF OneOpen
    <2>5. WordsTrue'
      <3>1. (\E i \in DOMAIN s2c'[conn] : s2c'[conn][i] = "held") =>
                /\ link'[conn] # "open" /\ rejoining'
                /\ \A i \in DOMAIN s2c'[conn] : s2c'[conn][i] # "welcome"
        BY <1>4, <1>a, <1>g, <1>j, <2>2, <2>3 DEF WordsTrue
      <3> QED
        BY <1>4, <1>a, <1>c, <1>g, <3>1 DEF WordsTrue
    <2>6. ShutSaid'
      <3>1. link'[conn] = "shut" => link[conn] = "shut"
        BY <2>3
      <3> QED
        BY <1>4, <1>a, <1>c, <1>h, <3>1 DEF ShutSaid
    <2>7. UpAnswered' /\ EndsForCause' /\ Follows'
      BY <1>4, <1>c, <2>1 DEF UpAnswered, EndsForCause, Follows
    <2> QED
      BY <2>4, <2>5, <2>6, <2>7 DEF LinkInv
  <1>5. CASE /\ s2c[conn][1] = "held" /\ rejoining /\ Redials /\ broken' = FALSE
             /\ rejoining' = rejoining /\ spent' = spent /\ finished' = finished /\ link' = link
    <2>1. link[conn] # "open" /\ \A d \in Connections : link[d] # "open"
      BY <1>5, <1>a, <1>e DEF WordsTrue, OneOpen
    <2>2. /\ net' \in {"redialing", "ended"} /\ state' \in {"redialing", "closed"}
          /\ net' = "ended" => state' = "closed" /\ finished
          /\ net' = "redialing" => ~finished
      BY <1>5 DEF Redials, MayRedial
    <2>3. LinkTypes' /\ OneOpen' /\ OneHello'
      BY <1>2, <1>5, <1>c, <1>i, <2>1, <2>2
    <2>4. WordsTrue'
      BY <1>5, <1>a, <1>c, <1>g, <1>j DEF WordsTrue
    <2>5. ShutSaid' /\ UpAnswered' /\ Follows'
      BY <1>5, <2>2 DEF ShutSaid, UpAnswered, Follows
    <2>6. EndsForCause'
      BY <1>a, <1>c, <2>2 DEF EndsForCause, WordsTrue
    <2> QED
      BY <2>3, <2>4, <2>5, <2>6 DEF LinkInv
  <1>6. CASE /\ s2c[conn][1] \in {"over", "refused"} \/ (s2c[conn][1] = "held" /\ ~rejoining)
             /\ finished' = TRUE /\ state' = Answered
             /\ net' = net /\ broken' = broken /\ rejoining' = rejoining /\ spent' = spent /\ link' = link
    <2>1. (over \/ dismissed) /\ replied /\ s2c[conn][1] # "held"
      BY <1>6, <1>a, <1>b, <1>e DEF WordsTrue
    <2>2. LinkTypes' /\ OneOpen' /\ OneHello'
      <3>1. rejoining' \/ ~(c2s[conn] # <<>> /\ c2s[conn][1] = Hello)
        BY <1>6, <1>a DEF OneHello
      <3> QED
        BY <1>2, <1>6, <1>c, <1>i, <3>1
    <2>4. WordsTrue'
      BY <1>6, <1>a, <1>c, <1>g, <1>j, <2>1 DEF WordsTrue
    <2>5. ShutSaid'
      BY <1>6, <1>a, <1>c, <1>h, <2>1 DEF ShutSaid
    <2>6. UpAnswered' /\ EndsForCause' /\ Follows'
      BY <1>6, <1>c, <2>1 DEF UpAnswered, EndsForCause, Follows
    <2> QED
      BY <2>2, <2>4, <2>5, <2>6 DEF LinkInv
  <1> QED
    BY <1>4, <1>5, <1>6, <1>e DEF Read, SeatHeld

\* The stream ends, or the attempts of a break are spent.
LEMMA LinkEndsStream ==
    ASSUME LinkAssumption, LinkInv, ReadEnds \/ GiveUp
    PROVE  LinkInv'
  <1>a. /\ LinkTypes /\ OneOpen /\ OneHello /\ WordsTrue /\ ShutSaid /\ Follows
        /\ UpAnswered /\ EndsForCause
    BY LinkBasics
  <1>b. conn \in Connections
    BY LinkBasics
  <1>c. /\ conn' = conn /\ unsent' = unsent /\ rejoining' = rejoining /\ finished' = finished /\ spent' = spent
        /\ orders' = orders /\ dials' = dials /\ link' = link /\ c2s' = c2s /\ s2c' = s2c
        /\ holder' = holder /\ over' = over /\ taken' = taken /\ replied' = replied /\ dismissed' = dismissed
    BY DEF ReadEnds, GiveUp, rejoin, wires, server
  <1>d. /\ broken' => broken
        /\ net' \in {"redialing", "ended"} /\ state' \in {"redialing", "closed"}
        /\ net' = "ended" => state' = "closed"
        /\ net' = "redialing" => ~finished
    BY DEF ReadEnds, GiveUp, Redials, MayRedial
  <1>e. link[conn] # "open"
    BY <1>a, <1>b DEF ReadEnds, GiveUp, OneOpen
  <1>f. broken' \in BOOLEAN
    BY <1>a DEF ReadEnds, GiveUp, LinkTypes
  <1>1. LinkTypes'
    BY <1>a, <1>c, <1>d, <1>f DEF LinkTypes
  <1>2. OneOpen'
    BY <1>a, <1>c, <1>d, <1>e DEF OneOpen
  <1>3. OneHello' /\ WordsTrue'
    BY <1>a, <1>c DEF OneHello, WordsTrue
  <1>4. ShutSaid' /\ UpAnswered' /\ Follows'
    BY <1>c, <1>d DEF ShutSaid, UpAnswered, Follows
  <1>5. EndsForCause'
    <2>1. CASE GiveUp
      BY <2>1, <1>c DEF GiveUp, EndsForCause
    <2>2. CASE ReadEnds /\ finished
      BY <2>2, <1>a, <1>c DEF WordsTrue, EndsForCause
    <2>3. CASE ReadEnds /\ ~finished
      <3>1. CASE broken \/ link[conn] = "cut"
        BY <2>3, <3>1 DEF ReadEnds, Redials, MayRedial, EndsForCause
      <3>2. CASE ~(broken \/ link[conn] = "cut")
        <4>1. link[conn] = "shut" /\ s2c[conn] = <<>> /\ net = "reading"
          BY <2>3, <3>2 DEF ReadEnds
        <4>2. DOMAIN s2c[conn] = {}
          BY <4>1
        <4>3. over \/ dismissed
          BY <4>1, <4>2, <1>a DEF ShutSaid
        <4> QED
          BY <4>3, <1>c DEF EndsForCause
      <3> QED
        BY <3>1, <3>2
    <2> QED
      BY <2>1, <2>2, <2>3
  <1> QED
    BY <1>1, <1>2, <1>3, <1>4, <1>5 DEF LinkInv

\* An attempt of a redial.
LEMMA LinkDials ==
    ASSUME LinkAssumption, LinkInv, Dial
    PROVE  LinkInv'
  <1>a. /\ LinkTypes /\ OneOpen /\ OneHello /\ WordsTrue /\ ShutSaid /\ Follows
        /\ UpAnswered /\ EndsForCause
    BY LinkBasics
  <1>b. /\ Connections \subseteq Nat \ {0} /\ conn \in Connections /\ conn <= dials /\ conn \in Nat /\ dials \in Nat
        /\ Attempts \in Nat \ {0} /\ MaxUnsent \in Nat
    BY LinkBasics
  <1>c. /\ finished' = finished /\ orders' = orders /\ holder' = holder /\ over' = over /\ taken' = taken
        /\ net = "redialing"
    BY DEF Dial
  <1>d. spent' \in 0 .. Attempts
    BY <1>a, <1>b DEF Dial, Spent, LinkTypes
  <1>e. holder \in 0 .. dials /\ ~finished /\ state # "up"
    BY <1>a, <1>c DEF LinkTypes, Follows
  <1>f. \A c \in Connections : link[c] # "open"
    BY <1>a, <1>c DEF OneOpen
  <1>1. CASE UNCHANGED <<net, state, conn, broken, unsent, rejoining, dials, wires, replied, dismissed>>
    <2>1. LinkTypes'
      BY <1>1, <1>a, <1>c, <1>d DEF LinkTypes, wires
    <2>2. OneOpen' /\ OneHello' /\ WordsTrue'
      BY <1>1, <1>a, <1>c DEF OneOpen, OneHello, WordsTrue, wires
    <2>3. ShutSaid' /\ UpAnswered' /\ EndsForCause' /\ Follows'
      BY <1>1, <1>a, <1>c DEF ShutSaid, UpAnswered, EndsForCause, Follows
    <2> QED
      BY <2>1, <2>2, <2>3 DEF LinkInv
  <1>2. ASSUME NEW v \in Seq(Nat), v # <<>>, v[1] = 0, \A i \in DOMAIN v : v[i] = 0 => i = 1,
               ~over, dials + 1 \in Connections, dials' = dials + 1,
               c2s' = [c2s EXCEPT ![dials + 1] = v]
        PROVE  /\ c2s' \in [Connections -> Seq(Nat)] /\ c2s'[dials + 1] = v
               /\ \A c \in Connections : c # dials + 1 => c2s'[c] = c2s[c]
               /\ \A c \in Connections : c # dials + 1 => (c > dials + 1 <=> c > dials)
               /\ \A c \in Connections : c > dials' => c2s'[c] = <<>>
               /\ \A c \in Connections : \A i \in DOMAIN c2s'[c] : c2s'[c][i] = Hello => i = 1
               /\ \A c \in Connections : c2s'[c] # <<>> => c2s'[c][1] = Hello \/ holder' = c
               /\ c2s'[dials + 1] # <<>> /\ conn # dials + 1 /\ dials + 1 > dials
    <2>1. /\ c2s' \in [Connections -> Seq(Nat)] /\ c2s'[dials + 1] = v
          /\ \A c \in Connections : c # dials + 1 => c2s'[c] = c2s[c]
      BY <1>2, <1>a DEF LinkTypes
    <2>2. /\ \A c \in Connections : c # dials + 1 => (c > dials + 1 <=> c > dials)
          /\ conn # dials + 1 /\ dials + 1 > dials /\ ~(dials + 1 > dials + 1)
      BY <1>b
    <2>3. \A c \in Connections : c > dials' => c2s'[c] = <<>>
      BY <1>2, <1>a, <2>1, <2>2 DEF OneOpen
    <2>4. \A c \in Connections : \A i \in DOMAIN c2s'[c] : c2s'[c][i] = Hello => i = 1
      BY <1>2, <1>a, <2>1 DEF OneHello, Hello
    <2>5. \A c \in Connections : c2s'[c] # <<>> => c2s'[c][1] = Hello \/ holder' = c
      BY <1>2, <1>a, <1>c, <2>1 DEF OneHello, Hello
    <2> QED
      BY <1>2, <2>1, <2>2, <2>3, <2>4, <2>5
  <1> DEFINE f == <<Hello>> \o unsent
  <1>3. /\ f \in Seq(Nat) /\ f # <<>> /\ Len(f) = Len(unsent) + 1 /\ f[1] = 0
        /\ \A i \in DOMAIN f : i # 1 => i - 1 \in DOMAIN unsent /\ f[i] = unsent[i - 1]
        /\ Len(unsent) \in Nat
    BY <1>a, Greeting DEF LinkTypes
  <1>4. \A i \in DOMAIN f : f[i] = 0 => i = 1
    <2>1. \A i \in DOMAIN unsent : unsent[i] # 0
      BY <1>a DEF LinkTypes
    <2> HIDE DEF f
    <2> QED
      BY <1>3, <2>1
  <1>5. CASE /\ ~over /\ dials + 1 \in Connections /\ dials' = dials + 1
             /\ c2s' = [c2s EXCEPT ![dials + 1] = f]
             /\ link' = [link EXCEPT ![dials + 1] = "open", ![conn] = "aborted"]
             /\ s2c' = [s2c EXCEPT ![conn] = <<>>]
             /\ unsent' = <<>> /\ rejoining' = TRUE
             /\ conn' = dials + 1 /\ broken' = FALSE
             /\ net' = "reading" /\ state' = Adopted
             /\ replied' = FALSE /\ dismissed' = FALSE
    <2> HIDE DEF f
    <2>1. /\ c2s' \in [Connections -> Seq(Nat)]
          /\ \A c \in Connections : c # dials + 1 => (c > dials + 1 <=> c > dials)
          /\ \A c \in Connections : c > dials' => c2s'[c] = <<>>
          /\ \A c \in Connections : \A i \in DOMAIN c2s'[c] : c2s'[c][i] = Hello => i = 1
          /\ \A c \in Connections : c2s'[c] # <<>> => c2s'[c][1] = Hello \/ holder' = c
          /\ c2s'[dials + 1] # <<>> /\ conn # dials + 1 /\ dials + 1 > dials
      BY <1>2, <1>3, <1>4, <1>5
    <2>2. /\ link' \in [Connections -> Standing]
          /\ link'[dials + 1] = "open" /\ link'[conn] = "aborted"
          /\ \A c \in Connections : c \notin {dials + 1, conn} => link'[c] = link[c]
      BY <1>5, <1>a, <1>b, <2>1 DEF LinkTypes, Standing
    <2>3. /\ s2c' \in [Connections -> Seq(SaidWords)] /\ \A c \in Connections : s2c'[c] = <<>>
      BY <1>5, <1>a, <1>b DEF LinkTypes, OneOpen
    <2>4. LinkTypes'
      <3>1. conn' \in 1 .. dials' /\ holder \in 0 .. dials'
        BY <1>5, <1>b, <1>e
      <3>2. unsent' \in Seq(Nat \ {0}) /\ Len(unsent') <= MaxUnsent
        BY <1>5, <1>b
      <3> QED
        BY <1>5, <1>a, <1>c, <1>d, <2>1, <2>2, <2>3, <3>1, <3>2 DEF LinkTypes, Adopted
    <2>5. OneOpen'
      <3>1. \A c \in Connections : link'[c] = "unused" <=> c > dials'
        <4>1. link[conn] # "unused" /\ ~(conn > dials) /\ ~(dials + 1 > dials + 1)
          BY <1>a, <1>b DEF OneOpen
        <4> QED
          BY <1>5, <1>a, <2>1, <2>2, <4>1 DEF OneOpen
      <3>2. \A c \in Connections : link'[c] = "open" => c = conn' /\ net' = "reading"
        BY <1>5, <1>f, <2>2
      <3> QED
        BY <1>5, <1>c, <2>1, <2>3, <3>1, <3>2 DEF OneOpen
    <2>6. DOMAIN s2c'[conn'] = {}
      BY <1>5, <2>3
    <2>7. OneHello'
      BY <1>5, <1>c, <1>f, <2>1, <2>2, <2>6 DEF OneHello
    <2>8. WordsTrue' /\ ShutSaid'
      BY <1>5, <1>c, <1>e, <2>2, <2>6 DEF WordsTrue, ShutSaid
    <2>9. UpAnswered' /\ EndsForCause' /\ Follows'
      BY <1>5, <1>e DEF UpAnswered, EndsForCause, Follows, Adopted
    <2> QED
      BY <2>4, <2>5, <2>7, <2>8, <2>9 DEF LinkInv
  <1>6. CASE /\ ~over /\ dials + 1 \in Connections /\ dials' = dials + 1
             /\ \E k \in 1 .. Len(f) - 1 : c2s' = [c2s EXCEPT ![dials + 1] = SubSeq(f, 1, k)]
             /\ link' = [link EXCEPT ![dials + 1] = "cut"]
             /\ UNCHANGED <<net, state, conn, broken, unsent, rejoining, s2c, replied, dismissed>>
    <2> HIDE DEF f
    <2>0. PICK k \in 1 .. Len(f) - 1 : c2s' = [c2s EXCEPT ![dials + 1] = SubSeq(f, 1, k)]
      BY <1>6
    <2> DEFINE v == SubSeq(f, 1, k)
    <2>a. k \in 0 .. Len(f) /\ k # 0
      BY <1>3
    <2>b. /\ v \in Seq(Nat) /\ v # <<>> /\ DOMAIN v \subseteq DOMAIN f
          /\ \A i \in DOMAIN v : v[i] = f[i]
          /\ v # <<>> => 1 \in DOMAIN v
      <3>1. f \in Seq(Nat) /\ k \in 0 .. Len(f)
        BY <1>3, <2>a
      <3>2. /\ SubSeq(f, 1, k) \in Seq(Nat) /\ DOMAIN SubSeq(f, 1, k) \subseteq DOMAIN f
            /\ \A i \in DOMAIN SubSeq(f, 1, k) : SubSeq(f, 1, k)[i] = f[i]
            /\ k # 0 <=> SubSeq(f, 1, k) # <<>>
            /\ SubSeq(f, 1, k) # <<>> => 1 \in DOMAIN SubSeq(f, 1, k)
        BY ONLY <3>1, CutOrders
      <3> QED
        BY <2>a, <3>2
    <2>c. c2s' = [c2s EXCEPT ![dials + 1] = v]
      BY <2>0
    <2> HIDE DEF v
    <2>d. v[1] = 0 /\ \A i \in DOMAIN v : v[i] = 0 => i = 1
      BY <1>3, <1>4, <2>b
    <2>1. /\ c2s' \in [Connections -> Seq(Nat)]
          /\ \A c \in Connections : c # dials + 1 => c2s'[c] = c2s[c]
          /\ \A c \in Connections : c # dials + 1 => (c > dials + 1 <=> c > dials)
          /\ \A c \in Connections : c > dials' => c2s'[c] = <<>>
          /\ \A c \in Connections : \A i \in DOMAIN c2s'[c] : c2s'[c][i] = Hello => i = 1
          /\ \A c \in Connections : c2s'[c] # <<>> => c2s'[c][1] = Hello \/ holder' = c
          /\ conn # dials + 1 /\ dials + 1 > dials
      BY <1>2, <1>6, <2>b, <2>c, <2>d
    <2>2. /\ link' \in [Connections -> Standing] /\ link'[dials + 1] = "cut"
          /\ \A c \in Connections : c # dials + 1 => link'[c] = link[c]
          /\ link'[conn] = link[conn]
      BY <1>6, <1>a, <1>b, <2>1 DEF LinkTypes, Standing
    <2>3. \A c \in Connections : link'[c] # "open"
      BY <1>f, <2>2
    <2>4. LinkTypes'
      <3>1. conn' \in 1 .. dials' /\ holder \in 0 .. dials'
        BY <1>6, <1>b, <1>e
      <3> QED
        BY <1>6, <1>a, <1>c, <1>d, <2>1, <2>2, <3>1 DEF LinkTypes
    <2>5. OneOpen'
      <3>1. \A c \in Connections : link'[c] = "unused" <=> c > dials'
        <4>1. ~(dials + 1 > dials + 1)
          BY <1>b
        <4> QED
          BY <1>6, <1>a, <2>1, <2>2, <4>1 DEF OneOpen
      <3> QED
        BY <1>6, <1>a, <1>c, <2>1, <2>2, <2>3, <3>1 DEF OneOpen
    <2>6. OneHello'
      BY <1>6, <1>a, <1>b, <2>1, <2>3 DEF OneHello
    <2>7. WordsTrue' /\ ShutSaid' /\ UpAnswered' /\ EndsForCause' /\ Follows'
      BY <1>6, <1>a, <1>c, <2>2 DEF WordsTrue, ShutSaid, UpAnswered, EndsForCause, Follows
    <2> QED
      BY <2>4, <2>5, <2>6, <2>7 DEF LinkInv
  <1> QED
    BY <1>1, <1>5, <1>6 DEF Dial

\* The server hears a connection.
LEMMA LinkServed ==
    ASSUME LinkAssumption, LinkInv, NEW c \in Connections, Serve(c)
    PROVE  LinkInv'
  <1>a. /\ LinkTypes /\ OneOpen /\ OneHello /\ WordsTrue /\ ShutSaid /\ Follows
        /\ UpAnswered /\ EndsForCause
    BY LinkBasics
  <1>b. /\ Connections \subseteq Nat \ {0} /\ conn \in Connections /\ dials \in Nat
    BY LinkBasics
  <1>c. /\ net' = net /\ state' = state /\ conn' = conn /\ broken' = broken /\ unsent' = unsent
        /\ rejoining' = rejoining /\ finished' = finished /\ spent' = spent /\ orders' = orders /\ dials' = dials
        /\ over' = over /\ ~over /\ c2s[c] # <<>>
    BY DEF Serve, rejoin
  <1>d. c \in 1 .. dials /\ link[c] # "unused" /\ c \in Nat \ {0} /\ c \in 0 .. dials
    <2>1. ~(c > dials) /\ link[c] # "unused" /\ c \in Nat \ {0}
      BY <1>a, <1>b, <1>c DEF OneOpen
    <2> QED
      BY ONLY <1>b, <2>1
  <1>e. /\ Tail(c2s[c]) \in Seq(Nat) /\ Head(c2s[c]) = c2s[c][1] /\ 1 \in DOMAIN c2s[c] /\ c2s[c][1] \in Nat
        /\ \A i \in DOMAIN Tail(c2s[c]) : i \in Nat \ {0} /\ i + 1 \in DOMAIN c2s[c] /\ Tail(c2s[c])[i] = c2s[c][i + 1]
    <2>1. c2s[c] \in Seq(Nat)
      BY <1>a DEF LinkTypes
    <2> QED
      BY <1>c, <2>1, Shortened
  <1>f. \A i \in DOMAIN Tail(c2s[c]) : Tail(c2s[c])[i] # 0
    BY <1>a, <1>e DEF OneHello, Hello
  <1>g. Tail(c2s[c]) # <<>> => 1 \in DOMAIN Tail(c2s[c])
    BY <1>e
  <1>h. c2s[c][1] = Hello /\ c = conn => rejoining /\ \A i \in DOMAIN s2c[conn] : s2c[conn][i] = "word"
    BY <1>a, <1>c DEF OneHello
  <1>1. CASE /\ c2s[c][1] = Hello /\ holder = 0 /\ holder' = c /\ Says(c, "welcome")
             /\ c2s' = [c2s EXCEPT ![c] = Tail(c2s[c])]
             /\ link' = link /\ taken' = taken /\ dismissed' = dismissed
    <2>1. /\ s2c' \in [Connections -> Seq(SaidWords)] /\ replied' \in BOOLEAN
          /\ replied => replied'
          /\ \A d \in Connections : d # conn => s2c'[d] = <<>>
          /\ \A i \in DOMAIN s2c[conn] : i \in DOMAIN s2c'[conn] /\ s2c'[conn][i] = s2c[conn][i]
          /\ \A i \in DOMAIN s2c'[conn] :
                 \/ i \in DOMAIN s2c[conn] /\ s2c'[conn][i] = s2c[conn][i]
                 \/ s2c'[conn][i] = "welcome" /\ c = conn /\ link[c] = "open" /\ replied'
      BY <1>1, SaysOn DEF SaidWords
    <2>2. /\ c2s' \in [Connections -> Seq(Nat)] /\ c2s'[c] = Tail(c2s[c])
          /\ \A d \in Connections : d # c => c2s'[d] = c2s[d]
      BY <1>1, <1>a, <1>e DEF LinkTypes
    <2>4. LinkTypes'
      BY <1>1, <1>a, <1>c, <1>d, <2>1, <2>2 DEF LinkTypes
    <2>5. OneOpen'
      BY <1>1, <1>a, <1>b, <1>c, <1>d, <2>1, <2>2 DEF OneOpen
    <2>6. OneHello'
      <3>1. \A d \in Connections : d # holder
        BY <1>1, <1>b
      <3>2. \A d \in Connections : c2s'[d] # <<>> /\ c2s'[d][1] = 0 => d # c /\ c2s[d] # <<>> /\ c2s[d][1] = 0
        BY <1>f, <1>g, <2>2
      <3>3. \A d \in Connections : d # c =>
              /\ \A i \in DOMAIN c2s[d] : c2s[d][i] = 0 => i = 1
              /\ c2s[d] # <<>> => c2s[d][1] = 0
              /\ link[d] = "open" => c2s[d] # <<>>
        BY <1>a, <3>1 DEF OneHello, Hello
      <3>4. c2s'[conn] # <<>> /\ c2s'[conn][1] = 0 =>
                rejoining /\ \A i \in DOMAIN s2c'[conn] : s2c'[conn][i] = "word"
        BY <1>a, <1>b, <2>1, <3>2 DEF OneHello, Hello
      <3> QED
        BY <1>1, <1>c, <1>f, <2>2, <3>3, <3>4 DEF OneHello, Hello
    <2>7. WordsTrue'
      <3>1. (\E i \in DOMAIN s2c'[conn] : s2c'[conn][i] = "held") =>
                /\ link[conn] # "open" /\ rejoining
                /\ \A i \in DOMAIN s2c'[conn] : s2c'[conn][i] # "welcome"
        BY <1>1, <1>a, <1>h, <2>1 DEF WordsTrue
      <3> QED
        BY <1>1, <1>a, <1>c, <2>1, <3>1 DEF WordsTrue
    <2>8. ShutSaid'
      BY <1>1, <1>a, <1>c, <2>1 DEF ShutSaid
    <2>9. UpAnswered' /\ EndsForCause' /\ Follows'
      BY <1>1, <1>a, <1>c, <2>1 DEF UpAnswered, EndsForCause, Follows
    <2> QED
      BY <2>4, <2>5, <2>6, <2>7, <2>8, <2>9 DEF LinkInv
  <1>2. ASSUME NEW m \in {"held", "refused"}, c2s[c][1] = Hello, Says(c, m), Shuts(c),
               dismissed' = (dismissed \/ (m = "refused" /\ link[c] = "open")), holder' = holder, taken' = taken
        PROVE  LinkInv'
    <2>1. /\ s2c' \in [Connections -> Seq(SaidWords)] /\ replied' \in BOOLEAN
          /\ replied => replied'
          /\ \A d \in Connections : d # conn => s2c'[d] = <<>>
          /\ \A i \in DOMAIN s2c[conn] : i \in DOMAIN s2c'[conn] /\ s2c'[conn][i] = s2c[conn][i]
          /\ \A i \in DOMAIN s2c'[conn] :
                 \/ i \in DOMAIN s2c[conn] /\ s2c'[conn][i] = s2c[conn][i]
                 \/ s2c'[conn][i] = m /\ c = conn /\ link[c] = "open" /\ (m # "held" => replied')
          /\ link[c] = "open" => c = conn /\ \E i \in DOMAIN s2c'[conn] : s2c'[conn][i] = m
      BY <1>2, SaysOn DEF SaidWords
    <2>2. /\ link' \in [Connections -> Standing] /\ c2s' \in [Connections -> Seq(Nat)]
          /\ link'[c] = (IF link[c] = "open" THEN "shut" ELSE link[c])
          /\ \A d \in Connections : d # c => link'[d] = link[d] /\ c2s'[d] = c2s[d]
          /\ c2s'[c] = <<>>
          /\ \A d \in Connections : link'[d] = "open" => link[d] = "open" /\ d # c
          /\ \A d \in Connections : link'[d] = "unused" <=> link[d] = "unused"
      BY <1>2, ShutsIt
    <2>3. dismissed' \in BOOLEAN /\ (dismissed => dismissed')
      BY <1>2, <1>a DEF LinkTypes
    <2>5. LinkTypes'
      BY <1>2, <1>a, <1>c, <2>1, <2>2, <2>3 DEF LinkTypes
    <2>6. OneOpen'
      <3>1. broken => link'[conn] = "aborted"
        BY <1>a, <1>b, <2>2 DEF OneOpen
      <3> QED
        BY <1>2, <1>a, <1>c, <2>1, <2>2, <3>1 DEF OneOpen
    <2>7. OneHello'
      <3>1. \A d \in Connections : c2s'[d] # <<>> => d # c /\ c2s'[d] = c2s[d]
        BY <2>2
      <3>2. c # conn => \A i \in DOMAIN s2c'[conn] : i \in DOMAIN s2c[conn] /\ s2c'[conn][i] = s2c[conn][i]
        BY <2>1
      <3>3. \A d \in Connections : \A i \in DOMAIN c2s'[d] : c2s'[d][i] = Hello => i = 1
        <4>1. DOMAIN c2s'[c] = {}
          BY <2>2
        <4> QED
          BY <1>a, <2>2, <4>1 DEF OneHello
      <3> QED
        <4>1. \A d \in Connections : link'[d] = "open" => c2s'[d] # <<>> \/ holder' = d
          BY <1>2, <1>a, <2>2 DEF OneHello
        <4>2. \A d \in Connections : c2s'[d] # <<>> => c2s'[d][1] = Hello \/ holder' = d
          BY <1>2, <1>a, <3>1 DEF OneHello
        <4>3. c2s'[conn] # <<>> /\ c2s'[conn][1] = Hello =>
                  rejoining /\ \A i \in DOMAIN s2c'[conn] : s2c'[conn][i] = "word"
          BY <1>a, <1>b, <3>1, <3>2 DEF OneHello
        <4> QED
          BY <1>c, <3>3, <4>1, <4>2, <4>3 DEF OneHello
    <2>8. WordsTrue'
      <3>1. (\E i \in DOMAIN s2c'[conn] : s2c'[conn][i] = "held") =>
                /\ link'[conn] # "open" /\ rejoining
                /\ \A i \in DOMAIN s2c'[conn] : s2c'[conn][i] # "welcome"
        <4>1. CASE c = conn
          BY <1>2, <4>1, <1>b, <1>h, <2>1, <2>2
        <4>2. CASE c # conn
          BY <1>a, <1>b, <4>2, <2>1, <2>2 DEF WordsTrue
        <4> QED
          BY <4>1, <4>2
      <3>2. \A i \in DOMAIN s2c'[conn] :
                /\ s2c'[conn][i] # "held" => replied'
                /\ s2c'[conn][i] = "over" => over
                /\ s2c'[conn][i] = "refused" => dismissed'
        BY <1>2, <1>a, <2>1, <2>3 DEF WordsTrue
      <3>3. finished => over \/ dismissed'
        BY <1>a, <2>3 DEF WordsTrue
      <3> QED
        <4>1. conn' = conn /\ over' = over /\ finished' = finished /\ rejoining' = rejoining
          BY <1>c
        <4> QED
          BY ONLY <3>1, <3>2, <3>3, <4>1 DEF WordsTrue
    <2>9. ShutSaid'
      <3>1. CASE c = conn /\ link[c] = "open"
        BY <1>2, <3>1, <1>c, <2>1 DEF ShutSaid
      <3>2. CASE c # conn \/ link[c] # "open"
        <4>1. link'[conn] = link[conn]
          BY <1>b, <2>2, <3>2
        <4> QED
          BY <1>a, <1>c, <2>1, <2>3, <4>1 DEF ShutSaid
      <3> QED
        BY <3>1, <3>2
    <2>10. UpAnswered' /\ EndsForCause' /\ Follows'
      BY <1>a, <1>c, <2>1, <2>3 DEF UpAnswered, EndsForCause, Follows
    <2> QED
      BY <2>5, <2>6, <2>7, <2>8, <2>9, <2>10 DEF LinkInv
  <1>3. CASE /\ c2s[c][1] # Hello /\ taken' = Append(taken, c2s[c][1])
             /\ c2s' = [c2s EXCEPT ![c] = Tail(c2s[c])]
             /\ s2c' = s2c /\ link' = link /\ holder' = holder /\ replied' = replied /\ dismissed' = dismissed
    <2>1. holder = c
      BY <1>3, <1>a, <1>c DEF OneHello
    <2>2. /\ c2s' \in [Connections -> Seq(Nat)] /\ c2s'[c] = Tail(c2s[c])
          /\ \A d \in Connections : d # c => c2s'[d] = c2s[d]
      BY <1>3, <1>a, <1>e DEF LinkTypes
    <2>3. taken' \in Seq(Nat \ {0})
      BY <1>3, <1>a, <1>e DEF LinkTypes, Hello
    <2>4. LinkTypes'
      BY <1>3, <1>a, <1>c, <2>2, <2>3 DEF LinkTypes
    <2>5. OneOpen'
      BY <1>3, <1>a, <1>b, <1>c, <1>d, <2>2 DEF OneOpen
    <2>6. OneHello'
      BY <1>3, <1>a, <1>b, <1>c, <1>f, <1>g, <2>1, <2>2 DEF OneHello, Hello
    <2>7. WordsTrue' /\ ShutSaid' /\ UpAnswered' /\ EndsForCause' /\ Follows'
      BY <1>3, <1>a, <1>c DEF WordsTrue, ShutSaid, UpAnswered, EndsForCause, Follows
    <2> QED
      BY <2>4, <2>5, <2>6, <2>7 DEF LinkInv
  <1>4. \/ /\ c2s[c][1] = Hello /\ holder = 0 /\ holder' = c /\ Says(c, "welcome")
           /\ c2s' = [c2s EXCEPT ![c] = Tail(c2s[c])]
           /\ link' = link /\ taken' = taken /\ dismissed' = dismissed
        \/ c2s[c][1] = Hello /\ Says(c, "held") /\ Shuts(c) /\ dismissed' = dismissed /\ holder' = holder /\ taken' = taken
        \/ c2s[c][1] = Hello /\ Says(c, "refused") /\ Shuts(c) /\ dismissed' = (dismissed \/ link[c] = "open")
           /\ holder' = holder /\ taken' = taken
        \/ /\ c2s[c][1] # Hello /\ taken' = Append(taken, c2s[c][1])
           /\ c2s' = [c2s EXCEPT ![c] = Tail(c2s[c])]
           /\ s2c' = s2c /\ link' = link /\ holder' = holder /\ replied' = replied /\ dismissed' = dismissed
    BY <1>e DEF Serve
  <1>5. dismissed \in BOOLEAN
    BY <1>a DEF LinkTypes
  <1>6. CASE c2s[c][1] = Hello /\ Says(c, "held") /\ Shuts(c) /\ dismissed' = dismissed /\ holder' = holder /\ taken' = taken
    <2>1. dismissed' = (dismissed \/ ("held" = "refused" /\ link[c] = "open"))
      BY <1>5, <1>6
    <2> QED
      BY <1>2, <1>6, <2>1
  <1>7. CASE c2s[c][1] = Hello /\ Says(c, "refused") /\ Shuts(c) /\ dismissed' = (dismissed \/ link[c] = "open")
           /\ holder' = holder /\ taken' = taken
    <2>1. dismissed' = (dismissed \/ ("refused" = "refused" /\ link[c] = "open"))
      BY <1>7
    <2> QED
      BY <1>2, <1>7, <2>1
  <1> QED
    BY <1>1, <1>3, <1>4, <1>6, <1>7

\* The server pings.
LEMMA LinkPinged ==
    ASSUME LinkAssumption, LinkInv, NEW c \in Connections, Ping(c)
    PROVE  LinkInv'
  <1>a. /\ LinkTypes /\ OneOpen /\ OneHello /\ WordsTrue /\ ShutSaid /\ Follows
        /\ UpAnswered /\ EndsForCause /\ conn \in Connections
    BY LinkBasics
  <1>c. /\ net' = net /\ state' = state /\ conn' = conn /\ broken' = broken /\ unsent' = unsent
        /\ rejoining' = rejoining /\ finished' = finished /\ spent' = spent /\ orders' = orders /\ dials' = dials
        /\ over' = over /\ link' = link /\ c2s' = c2s /\ holder' = holder /\ taken' = taken /\ dismissed' = dismissed
        /\ link[c] = "open" /\ Says(c, "word")
    BY DEF Ping, rejoin
  <1>1. /\ s2c' \in [Connections -> Seq(SaidWords)] /\ replied' \in BOOLEAN
        /\ replied => replied'
        /\ \A d \in Connections : d # conn => s2c'[d] = <<>>
        /\ \A i \in DOMAIN s2c[conn] : i \in DOMAIN s2c'[conn] /\ s2c'[conn][i] = s2c[conn][i]
        /\ \A i \in DOMAIN s2c'[conn] :
               \/ i \in DOMAIN s2c[conn] /\ s2c'[conn][i] = s2c[conn][i]
               \/ s2c'[conn][i] = "word" /\ c = conn /\ link[c] = "open" /\ replied'
    BY <1>c, SaysOn DEF SaidWords
  <1>2. LinkTypes'
    BY <1>a, <1>c, <1>1 DEF LinkTypes
  <1>3. OneOpen'
    BY <1>a, <1>c, <1>1 DEF OneOpen
  <1>4. OneHello'
    BY <1>a, <1>c, <1>1 DEF OneHello
  <1>5. WordsTrue'
    <2>1. (\E i \in DOMAIN s2c'[conn] : s2c'[conn][i] = "held") =>
              /\ link[conn] # "open" /\ rejoining
              /\ \A i \in DOMAIN s2c'[conn] : s2c'[conn][i] # "welcome"
      BY <1>a, <1>1 DEF WordsTrue
    <2> QED
      BY <1>a, <1>c, <1>1, <2>1 DEF WordsTrue
  <1>6. ShutSaid' /\ UpAnswered' /\ EndsForCause' /\ Follows'
    BY <1>a, <1>c, <1>1 DEF ShutSaid, UpAnswered, EndsForCause, Follows
  <1> QED
    BY <1>2, <1>3, <1>4, <1>5, <1>6 DEF LinkInv

\* The server lets a connection go.
LEMMA LinkLetGo ==
    ASSUME LinkAssumption, LinkInv, NEW c \in Connections, LetGo(c)
    PROVE  LinkInv'
  <1>a. /\ LinkTypes /\ OneOpen /\ OneHello /\ WordsTrue /\ ShutSaid /\ Follows
        /\ UpAnswered /\ EndsForCause /\ conn \in Connections /\ dials \in Nat
    BY LinkBasics
  <1>c. /\ net' = net /\ state' = state /\ conn' = conn /\ broken' = broken /\ unsent' = unsent
        /\ rejoining' = rejoining /\ finished' = finished /\ spent' = spent /\ orders' = orders /\ dials' = dials
        /\ over' = over /\ ~over /\ taken' = taken /\ dismissed' = TRUE /\ Shuts(c) /\ link[c] = "open"
        /\ holder' = (IF holder = c THEN 0 ELSE holder)
    BY DEF LetGo, rejoin
  <1>d. c = conn
    BY <1>a, <1>c DEF OneOpen
  <1>1. /\ s2c' \in [Connections -> Seq(SaidWords)] /\ replied' \in BOOLEAN
        /\ replied => replied'
        /\ \A d \in Connections : d # conn => s2c'[d] = <<>>
        /\ \A i \in DOMAIN s2c'[conn] :
               \/ i \in DOMAIN s2c[conn] /\ s2c'[conn][i] = s2c[conn][i]
               \/ s2c'[conn][i] = "refused" /\ replied'
    <2>1. CASE Says(c, "refused")
      BY <2>1, SaysOn DEF SaidWords
    <2>2. CASE UNCHANGED <<s2c, replied>>
      BY <2>2, <1>a DEF LinkTypes, OneOpen
    <2> QED
      BY <2>1, <2>2 DEF LetGo
  <1>2. /\ link' \in [Connections -> Standing] /\ c2s' \in [Connections -> Seq(Nat)]
        /\ link'[c] = "shut"
        /\ \A d \in Connections : d # c => link'[d] = link[d] /\ c2s'[d] = c2s[d]
        /\ c2s'[c] = <<>> /\ DOMAIN c2s'[c] = {}
        /\ \A d \in Connections : link'[d] = "open" => link[d] = "open" /\ d # c
        /\ \A d \in Connections : link'[d] = "unused" <=> link[d] = "unused"
    BY <1>c, ShutsIt
  <1>3. LinkTypes'
    <2>1. holder' \in 0 .. dials
      BY <1>a, <1>c DEF LinkTypes
    <2> QED
      BY <1>a, <1>c, <1>1, <1>2, <2>1 DEF LinkTypes
  <1>4. OneOpen'
    <2>1. ~broken
      BY <1>a, <1>c, <1>d DEF OneOpen
    <2> QED
      BY <1>a, <1>c, <1>d, <1>1, <1>2, <2>1 DEF OneOpen
  <1>5. OneHello'
    BY <1>a, <1>c, <1>d, <1>2 DEF OneHello
  <1>6. WordsTrue'
    <2>1. \A i \in DOMAIN s2c'[conn] : s2c'[conn][i] # "held"
      BY <1>a, <1>c, <1>d, <1>1 DEF WordsTrue
    <2> QED
      BY <1>a, <1>c, <1>1, <2>1 DEF WordsTrue
  <1>7. ShutSaid' /\ UpAnswered' /\ EndsForCause' /\ Follows'
    BY <1>a, <1>c, <1>1 DEF ShutSaid, UpAnswered, EndsForCause, Follows
  <1> QED
    BY <1>3, <1>4, <1>5, <1>6, <1>7 DEF LinkInv

\* The server finds the connection that holds the seat dead.
LEMMA LinkNoticed ==
    ASSUME LinkAssumption, LinkInv, Notice
    PROVE  LinkInv'
  <1>a. /\ LinkTypes /\ OneOpen /\ OneHello /\ WordsTrue /\ ShutSaid /\ Follows
        /\ UpAnswered /\ EndsForCause /\ conn \in Connections
    BY LinkBasics
  <1>c. /\ net' = net /\ state' = state /\ conn' = conn /\ broken' = broken /\ unsent' = unsent
        /\ rejoining' = rejoining /\ finished' = finished /\ spent' = spent /\ orders' = orders /\ dials' = dials
        /\ link' = link /\ s2c' = s2c /\ over' = over /\ taken' = taken /\ replied' = replied /\ dismissed' = dismissed
        /\ holder # 0 /\ link[holder] # "open" /\ holder' = 0 /\ c2s' = [c2s EXCEPT ![holder] = <<>>]
    BY DEF Notice, rejoin
  <1>d. holder \in Connections
    <2>1. \A d \in Connections : 1 .. d \subseteq Connections
      BY DialedIn
    <2>2. dials \in Connections /\ holder \in 0 .. dials /\ dials \in Nat
      BY <1>a, LinkBasics DEF LinkTypes
    <2>3. holder \in 1 .. dials
      BY <1>c, <2>2
    <2> QED
      BY <2>1, <2>2, <2>3
  <1>1. /\ c2s' \in [Connections -> Seq(Nat)] /\ c2s'[holder] = <<>>
        /\ \A d \in Connections : d # holder => c2s'[d] = c2s[d]
    BY <1>a, <1>c, <1>d DEF LinkTypes
  <1>2. LinkTypes'
    <2>1. 0 \in 0 .. dials
      BY LinkBasics
    <2> QED
      BY <1>a, <1>c, <1>1, <2>1 DEF LinkTypes
  <1>3. OneOpen'
    BY <1>a, <1>c, <1>1 DEF OneOpen
  <1>4. OneHello'
    BY <1>a, <1>c, <1>1 DEF OneHello
  <1>5. WordsTrue' /\ ShutSaid' /\ UpAnswered' /\ EndsForCause' /\ Follows'
    BY <1>a, <1>c DEF WordsTrue, ShutSaid, UpAnswered, EndsForCause, Follows
  <1> QED
    BY <1>2, <1>3, <1>4, <1>5 DEF LinkInv

\* The network breaks a connection.
LEMMA LinkCut ==
    ASSUME LinkAssumption, LinkInv, NEW c \in Connections, Cut(c)
    PROVE  LinkInv'
  <1>a. /\ LinkTypes /\ OneOpen /\ OneHello /\ WordsTrue /\ ShutSaid /\ Follows
        /\ UpAnswered /\ EndsForCause
    BY LinkBasics
  <1>b. /\ Connections \subseteq Nat \ {0} /\ conn \in Connections /\ dials \in Nat
    BY LinkBasics
  <1>c. /\ net' = net /\ state' = state /\ conn' = conn /\ broken' = broken /\ unsent' = unsent
        /\ rejoining' = rejoining /\ finished' = finished /\ spent' = spent /\ orders' = orders /\ dials' = dials
        /\ over' = over /\ taken' = taken /\ replied' = replied /\ dismissed' = dismissed /\ holder' = holder
        /\ link[c] = "open" /\ link' = [link EXCEPT ![c] = "cut"]
    BY DEF Cut, rejoin, server
  <1>d. c = conn /\ net = "reading" /\ ~broken /\ ~(c > dials) /\ ~over
    BY <1>a, <1>c DEF OneOpen
  <1>1. PICK k \in 0 .. Len(c2s[c]) : c2s' = [c2s EXCEPT ![c] = SubSeq(c2s[c], 1, k)]
    BY DEF Cut
  <1>2. PICK j \in 0 .. Len(s2c[c]) : s2c' = [s2c EXCEPT ![c] = SubSeq(s2c[c], 1, j)]
    BY DEF Cut
  <1>e. c2s[c] \in Seq(Nat) /\ s2c[c] \in Seq(SaidWords)
    BY <1>a DEF LinkTypes
  <1>3. /\ c2s' \in [Connections -> Seq(Nat)] /\ DOMAIN c2s'[c] \subseteq DOMAIN c2s[c]
        /\ \A i \in DOMAIN c2s'[c] : c2s'[c][i] = c2s[c][i]
        /\ c2s'[c] # <<>> => 1 \in DOMAIN c2s'[c] /\ c2s[c] # <<>>
        /\ \A d \in Connections : d # c => c2s'[d] = c2s[d]
    <2> DEFINE v == SubSeq(c2s[c], 1, k)
    <2>1. /\ v \in Seq(Nat) /\ DOMAIN v \subseteq DOMAIN c2s[c]
          /\ \A i \in DOMAIN v : v[i] = c2s[c][i]
          /\ v # <<>> => 1 \in DOMAIN v
      BY <1>e, CutOrders
    <2>2. c2s[c] = <<>> => DOMAIN c2s[c] = {}
      OBVIOUS
    <2>3. c2s' = [c2s EXCEPT ![c] = v]
      BY <1>1
    <2> HIDE DEF v
    <2>4. c2s'[c] = v /\ \A d \in Connections : d # c => c2s'[d] = c2s[d]
      BY <1>a, <2>3 DEF LinkTypes
    <2>5. c2s' \in [Connections -> Seq(Nat)]
      BY <1>a, <2>1, <2>3 DEF LinkTypes
    <2> QED
      BY <2>1, <2>2, <2>4, <2>5
  <1>4. /\ s2c' \in [Connections -> Seq(SaidWords)]
        /\ \A i \in DOMAIN s2c'[c] : i \in DOMAIN s2c[c] /\ s2c'[c][i] = s2c[c][i]
        /\ \A d \in Connections : d # c => s2c'[d] = s2c[d]
    <2> DEFINE v == SubSeq(s2c[c], 1, j)
    <2>1. v \in Seq(SaidWords) /\ \A i \in DOMAIN v : i \in DOMAIN s2c[c] /\ v[i] = s2c[c][i]
      BY <1>e, CutWords
    <2>3. s2c' = [s2c EXCEPT ![c] = v]
      BY <1>2
    <2> HIDE DEF v
    <2>4. s2c'[c] = v /\ \A d \in Connections : d # c => s2c'[d] = s2c[d]
      BY <1>a, <2>3 DEF LinkTypes
    <2>5. s2c' \in [Connections -> Seq(SaidWords)]
      BY <1>a, <2>1, <2>3 DEF LinkTypes
    <2> QED
      BY <2>1, <2>4, <2>5
  <1>5. /\ link' \in [Connections -> Standing] /\ link'[c] = "cut"
        /\ \A d \in Connections : d # c => link'[d] = link[d]
    BY <1>a, <1>c DEF LinkTypes, Standing
  <1>6. LinkTypes'
    BY <1>a, <1>c, <1>3, <1>4, <1>5 DEF LinkTypes
  <1>7. OneOpen'
    <2>1. /\ \A d \in Connections : link[d] = "unused" <=> d > dials
          /\ \A d \in Connections : d > dials => c2s[d] = <<>>
          /\ \A d \in Connections : d # conn => s2c[d] = <<>>
          /\ \A d \in Connections : link[d] = "open" => d = c
      BY <1>a, <1>c, <1>d DEF OneOpen
    <2>2. /\ \A d \in Connections : link'[d] = "unused" <=> d > dials
          /\ \A d \in Connections : link'[d] # "open"
      BY <1>d, <1>5, <2>1
    <2>3. /\ \A d \in Connections : d > dials => c2s'[d] = <<>>
          /\ \A d \in Connections : d # conn => s2c'[d] = <<>>
      BY <1>d, <1>3, <1>4, <2>1
    <2> QED
      BY <1>c, <1>d, <2>1, <2>2, <2>3 DEF OneOpen
  <1>8. OneHello'
    <2>1. \A d \in Connections :
              /\ \A i \in DOMAIN c2s'[d] : i \in DOMAIN c2s[d] /\ c2s'[d][i] = c2s[d][i]
              /\ c2s'[d] # <<>> => c2s[d] # <<>> /\ c2s'[d][1] = c2s[d][1]
      BY <1>3
    <2>2. \A d \in Connections : \A i \in DOMAIN c2s'[d] : c2s'[d][i] = Hello => i = 1
      BY <1>a, <2>1 DEF OneHello
    <2>3. \A d \in Connections : c2s'[d] # <<>> => c2s'[d][1] = Hello \/ holder = d
      BY <1>a, <2>1 DEF OneHello
    <2>4. \A d \in Connections : link'[d] = "open" => c2s'[d] # <<>> \/ holder = d
      <3>1. \A d \in Connections : link'[d] # "open"
        BY <1>a, <1>c, <1>d, <1>5 DEF OneOpen
      <3> QED
        BY ONLY <3>1
    <2>5. c2s'[conn] # <<>> /\ c2s'[conn][1] = Hello =>
              rejoining /\ \A i \in DOMAIN s2c'[conn] : s2c'[conn][i] = "word"
      BY <1>a, <1>b, <1>d, <1>4, <2>1 DEF OneHello
    <2> QED
      BY <1>c, <2>2, <2>3, <2>4, <2>5 DEF OneHello
  <1>9. WordsTrue'
    BY <1>a, <1>c, <1>d, <1>4, <1>5 DEF WordsTrue
  <1>10. ShutSaid' /\ UpAnswered' /\ EndsForCause' /\ Follows'
    BY <1>a, <1>c, <1>d, <1>5 DEF ShutSaid, UpAnswered, EndsForCause, Follows
  <1> QED
    BY <1>6, <1>7, <1>8, <1>9, <1>10 DEF LinkInv

\* The match ends.
LEMMA LinkOver ==
    ASSUME LinkAssumption, LinkInv, MatchOver
    PROVE  LinkInv'
  <1>a. /\ LinkTypes /\ OneOpen /\ OneHello /\ WordsTrue /\ ShutSaid /\ Follows
        /\ UpAnswered /\ EndsForCause
    BY LinkBasics
  <1>b. /\ Connections \subseteq Nat \ {0} /\ conn \in Connections /\ dials \in Nat
    BY LinkBasics
  <1>c. /\ net' = net /\ state' = state /\ conn' = conn /\ broken' = broken /\ unsent' = unsent
        /\ rejoining' = rejoining /\ finished' = finished /\ spent' = spent /\ orders' = orders /\ dials' = dials
        /\ over' = TRUE /\ taken' = taken /\ dismissed' = dismissed /\ holder' = holder
        /\ replied' = (replied \/ (holder # 0 /\ link[holder] = "open"))
    BY DEF MatchOver, rejoin
  <1>1. /\ c2s' \in [Connections -> Seq(Nat)] /\ \A c \in Connections : c2s'[c] = <<>>
    BY DEF MatchOver
  <1>2. /\ link' \in [Connections -> Standing]
        /\ \A c \in Connections : link'[c] = IF link[c] = "open" THEN "shut" ELSE link[c]
    BY <1>a DEF MatchOver, LinkTypes, Standing
  <1>3. /\ s2c' \in [Connections -> Seq(SaidWords)]
        /\ \A c \in Connections : c # conn => s2c'[c] = <<>>
        /\ \A i \in DOMAIN s2c'[conn] :
               \/ s2c'[conn][i] = "over" /\ replied'
               \/ i \in DOMAIN s2c[conn] /\ s2c'[conn][i] = s2c[conn][i]
    <2>1. \A c \in Connections :
              s2c'[c] = IF c = holder /\ link[c] = "open" THEN Append(s2c[c], "over") ELSE s2c[c]
      BY DEF MatchOver
    <2>2. \A c \in Connections : s2c[c] \in Seq(SaidWords)
      BY <1>a DEF LinkTypes
    <2>3. \A c \in Connections : Append(s2c[c], "over") \in Seq(SaidWords)
      BY <2>2 DEF SaidWords
    <2>4. s2c' \in [Connections -> Seq(SaidWords)]
      BY <2>2, <2>3 DEF MatchOver
    <2>5. \A i \in DOMAIN Append(s2c[conn], "over") :
              Append(s2c[conn], "over")[i] = "over" \/ (i \in DOMAIN s2c[conn] /\ Append(s2c[conn], "over")[i] = s2c[conn][i])
      BY <1>b, <2>2, <2>3
    <2>6. \A c \in Connections : c # conn => s2c[c] = <<>> /\ link[c] # "open"
      BY <1>a DEF OneOpen
    <2>7. \A c \in Connections : c = holder /\ link[c] = "open" => replied'
      BY <1>b, <1>c
    <2> QED
      BY <1>b, <2>1, <2>4, <2>5, <2>6, <2>7
  <1>d. replied' \in BOOLEAN /\ (replied => replied')
    BY <1>c
  <1>4. LinkTypes'
    BY <1>a, <1>c, <1>d, <1>1, <1>2, <1>3 DEF LinkTypes
  <1>5. OneOpen'
    BY <1>a, <1>b, <1>c, <1>1, <1>2, <1>3 DEF OneOpen
  <1>6. OneHello'
    <2>1. \A c \in Connections : DOMAIN c2s'[c] = {} /\ link'[c] # "open"
      BY <1>1, <1>2
    <2> QED
      BY <1>b, <1>c, <1>1, <2>1 DEF OneHello
  <1>7. WordsTrue'
    <2>1. (\E i \in DOMAIN s2c'[conn] : s2c'[conn][i] = "held") =>
              /\ link'[conn] # "open" /\ rejoining
              /\ \A i \in DOMAIN s2c'[conn] : s2c'[conn][i] # "welcome"
      BY <1>a, <1>b, <1>2, <1>3 DEF WordsTrue
    <2> QED
      BY <1>a, <1>c, <1>d, <1>3, <2>1 DEF WordsTrue
  <1>8. ShutSaid' /\ UpAnswered' /\ EndsForCause' /\ Follows'
    BY <1>a, <1>c, <1>d DEF ShutSaid, UpAnswered, EndsForCause, Follows
  <1> QED
    BY <1>4, <1>5, <1>6, <1>7, <1>8 DEF LinkInv

LEMMA LinkKept ==
    ASSUME LinkAssumption, LinkInv, [LinkNext]_linkVars
    PROVE  LinkInv'
  <1>1. CASE LinkNext
    BY <1>1, LinkSends, LinkProbes, LinkReads, LinkEndsStream, LinkDials, LinkServed, LinkPinged,
       LinkLetGo, LinkNoticed, LinkCut, LinkOver DEF LinkNext
  <1>2. CASE UNCHANGED linkVars
    <2>1. /\ net' = net /\ state' = state /\ conn' = conn /\ broken' = broken /\ unsent' = unsent
          /\ rejoining' = rejoining /\ finished' = finished /\ spent' = spent /\ orders' = orders /\ dials' = dials
          /\ link' = link /\ c2s' = c2s /\ s2c' = s2c /\ over' = over /\ taken' = taken
          /\ replied' = replied /\ dismissed' = dismissed /\ holder' = holder
      BY <1>2 DEF linkVars, rejoin, wires, server
    <2>2. LinkTypes' /\ OneOpen' /\ OneHello'
      BY <2>1 DEF LinkInv, LinkTypes, OneOpen, OneHello
    <2>3. WordsTrue' /\ ShutSaid' /\ UpAnswered' /\ EndsForCause' /\ Follows'
      BY <2>1 DEF LinkInv, WordsTrue, ShutSaid, UpAnswered, EndsForCause, Follows
    <2> QED
      BY <2>2, <2>3 DEF LinkInv
  <1> QED
    BY <1>1, <1>2

-----------------------------------------------------------------------------
(* The client's link: orders once and in order. *)

LEMMA BeforeWithin ==
    ASSUME NEW s, NEW t, NEW u, NEW v, Sooner(s, t), Within(u, s), Within(v, t)
    PROVE  Sooner(u, v)
  <1> SUFFICES ASSUME NEW i \in DOMAIN u, NEW j \in DOMAIN v, v[j] # Hello
               PROVE  u[i] < v[j]
    BY DEF Sooner
  <1>1. PICK a \in DOMAIN s : u[i] = s[a]
    BY DEF Within
  <1>2. PICK b \in DOMAIN t : v[j] = t[b]
    BY DEF Within
  <1>3. s[a] < t[b]
    BY <1>2 DEF Sooner
  <1> QED
    BY <1>1, <1>2, <1>3

LEMMA GrowsOn ==
    ASSUME NEW s \in Seq(Nat), NEW n \in Nat, Grows(s), \A i \in DOMAIN s : s[i] < n
    PROVE  Grows(Append(s, n))
  <1>1. /\ DOMAIN Append(s, n) = DOMAIN s \cup {Len(s) + 1} /\ Append(s, n)[Len(s) + 1] = n
        /\ \A i \in DOMAIN s : Append(s, n)[i] = s[i]
    BY Appended
  <1>2. DOMAIN s = 1 .. Len(s) /\ Len(s) \in Nat
    OBVIOUS
  <1> SUFFICES ASSUME NEW i \in DOMAIN Append(s, n), NEW j \in DOMAIN Append(s, n), i < j
               PROVE  Append(s, n)[i] < Append(s, n)[j]
    BY DEF Grows
  <1>3. i \in DOMAIN s
    BY <1>1, <1>2
  <1>4. CASE j \in DOMAIN s
    BY <1>1, <1>3, <1>4 DEF Grows
  <1>5. CASE j = Len(s) + 1
    BY <1>1, <1>3, <1>5
  <1> QED
    BY <1>1, <1>4, <1>5

LEMMA TailGrows ==
    ASSUME NEW s \in Seq(Nat), s # <<>>, Grows(s)
    PROVE  /\ Tail(s) \in Seq(Nat) /\ Grows(Tail(s)) /\ Within(Tail(s), s)
           /\ \A i \in DOMAIN Tail(s) : s[1] < Tail(s)[i]
  <1>1. /\ Tail(s) \in Seq(Nat) /\ 1 \in DOMAIN s
        /\ \A i \in DOMAIN Tail(s) : i \in Nat \ {0} /\ i + 1 \in DOMAIN s /\ Tail(s)[i] = s[i + 1]
    BY Shortened
  <1>2. Grows(Tail(s))
    <2> SUFFICES ASSUME NEW i \in DOMAIN Tail(s), NEW j \in DOMAIN Tail(s), i < j
                 PROVE  Tail(s)[i] < Tail(s)[j]
      BY DEF Grows
    <2>1. i + 1 \in DOMAIN s /\ j + 1 \in DOMAIN s /\ i + 1 < j + 1
      BY <1>1
    <2> QED
      BY <1>1, <2>1 DEF Grows
  <1>3. Within(Tail(s), s)
    BY <1>1 DEF Within
  <1>4. \A i \in DOMAIN Tail(s) : s[1] < Tail(s)[i]
    <2> TAKE i \in DOMAIN Tail(s)
    <2>1. i + 1 \in DOMAIN s /\ 1 < i + 1
      BY <1>1
    <2> QED
      BY <1>1, <2>1 DEF Grows
  <1> QED
    BY <1>1, <1>2, <1>3, <1>4

LEMMA EmptyGrows ==
    ASSUME NEW s
    PROVE  Grows(<<>>) /\ Within(<<>>, s) /\ Sooner(<<>>, s) /\ Sooner(s, <<>>)
  BY DEF Grows, Within, Sooner

\* What only shortens the wires, and opens none, keeps the order.
LEMMA OrderShrinks ==
    ASSUME LinkAssumption, OrderInv, conn \in Connections,
           UNCHANGED <<conn, dials, taken, unsent>>, orders' \in Nat, orders \in Nat, orders <= orders',
           taken \in Seq(Nat), unsent \in Seq(Nat), c2s \in [Connections -> Seq(Nat)],
           link'[conn] = "open" => link[conn] = "open",
           \A c \in Connections : Grows(c2s'[c]) /\ Within(c2s'[c], c2s[c])
    PROVE  OrderInv'
  <1>1. \A c \in Connections : Sooner(taken, c2s[c]) /\ Sooner(c2s[c], unsent)
    BY DEF OrderInv
  <1>2. Within(taken, taken) /\ Within(unsent, unsent)
    BY DEF Within
  <1>3. \A c \in Connections : Sooner(taken, c2s'[c]) /\ Sooner(c2s'[c], unsent)
    <2> TAKE c \in Connections
    <2>1. Sooner(taken, c2s'[c])
      BY <1>1, <1>2, BeforeWithin
    <2>2. Sooner(c2s'[c], unsent)
      BY <1>1, <1>2, BeforeWithin
    <2> QED
      BY <2>1, <2>2
  <1>4. \A b, c \in Connections : b < c => Sooner(c2s'[b], c2s'[c])
    <2> SUFFICES ASSUME NEW b \in Connections, NEW c \in Connections, b < c
                 PROVE  Sooner(c2s'[b], c2s'[c])
      OBVIOUS
    <2>1. Sooner(c2s[b], c2s[c])
      BY DEF OrderInv
    <2> QED
      BY <2>1, BeforeWithin
  <1>5. \A c \in Connections : \A i \in DOMAIN c2s'[c] : c2s'[c][i] <= orders'
    <2> SUFFICES ASSUME NEW c \in Connections, NEW i \in DOMAIN c2s'[c]
                 PROVE  c2s'[c][i] <= orders'
      OBVIOUS
    <2>1. PICK j \in DOMAIN c2s[c] : c2s'[c][i] = c2s[c][j]
      BY DEF Within
    <2>2. c2s[c][j] \in Nat /\ c2s[c][j] <= orders
      BY DEF OrderInv
    <2> QED
      BY <2>1, <2>2
  <1>6. /\ \A i \in DOMAIN taken : taken[i] \in Nat /\ taken[i] <= orders
        /\ \A i \in DOMAIN unsent : unsent[i] \in Nat /\ unsent[i] <= orders
    BY DEF OrderInv
  <1>7. /\ \A i \in DOMAIN taken : taken[i] <= orders'
        /\ \A i \in DOMAIN unsent : unsent[i] <= orders'
    BY <1>6
  <1> QED
    BY <1>3, <1>4, <1>5, <1>7 DEF OrderInv

LEMMA OrderStarts ==
    ASSUME LinkAssumption, LinkInit
    PROVE  OrderInv
  <1>1. Connections \subseteq Nat \ {0} /\ 1 \in Connections
    BY DialedIn
  <1>2. \A c \in Connections : \/ c2s[c] = <<0>> /\ c = 1
                               \/ c2s[c] = <<>> /\ c # 1
    BY <1>1 DEF LinkInit, Hello
  <1>3. /\ DOMAIN <<0>> = {1} /\ <<0>>[1] = 0 /\ Grows(<<0>>) /\ Sooner(<<>>, <<0>>) /\ Sooner(<<0>>, <<>>)
        /\ DOMAIN <<>> = {} /\ Grows(<<>>) /\ Sooner(<<>>, <<>>)
    BY DEF Grows, Sooner
  <1>4. taken = <<>> /\ unsent = <<>> /\ orders = 0 /\ dials = conn
    BY DEF LinkInit
  <1>5. \A c \in Connections : Grows(c2s[c]) /\ Sooner(taken, c2s[c]) /\ Sooner(c2s[c], unsent)
    BY <1>2, <1>3, <1>4
  <1>6. \A b, c \in Connections : b < c => Sooner(c2s[b], c2s[c])
    BY <1>1, <1>2, <1>3
  <1>7. \A c \in Connections : \A i \in DOMAIN c2s[c] : c2s[c][i] <= orders
    BY <1>2, <1>3, <1>4
  <1> QED
    BY <1>3, <1>4, <1>5, <1>6, <1>7 DEF OrderInv

LEMMA OrderSends ==
    ASSUME LinkAssumption, LinkInv, OrderInv, NEW n \in Orders, Send(n)
    PROVE  OrderInv'
  <1>a. /\ LinkTypes /\ OneOpen /\ Connections \subseteq Nat \ {0} /\ conn \in Connections /\ conn \in Nat
        /\ MaxUnsent \in Nat \ {0}
    BY LinkBasics
  <1>b. /\ c2s \in [Connections -> Seq(Nat)] /\ taken \in Seq(Nat \ {0}) /\ unsent \in Seq(Nat \ {0})
        /\ taken \in Seq(Nat) /\ unsent \in Seq(Nat) /\ orders \in Nat
    BY <1>a DEF LinkTypes
  <1>c. n = orders + 1 /\ orders' = n /\ conn' = conn /\ dials' = dials /\ taken' = taken /\ n \in Nat \ {0}
    BY <1>b DEF Send, server
  <1>d. /\ \A i \in DOMAIN taken : taken[i] \in Nat /\ taken[i] < n
        /\ \A i \in DOMAIN unsent : unsent[i] \in Nat /\ unsent[i] < n
        /\ \A c \in Connections : \A i \in DOMAIN c2s[c] : c2s[c][i] \in Nat /\ c2s[c][i] < n
    BY <1>b, <1>c DEF OrderInv
  <1>e. /\ \A i \in DOMAIN taken : taken[i] <= orders'
        /\ \A i \in DOMAIN unsent : unsent[i] <= orders'
        /\ \A c \in Connections : \A i \in DOMAIN c2s[c] : c2s[c][i] <= orders'
    BY <1>c, <1>d
  <1>1. CASE link[conn] = "open" /\ c2s' = [c2s EXCEPT ![conn] = Append(c2s[conn], n)]
             /\ unsent' = unsent /\ link' = link
    <2> DEFINE v == Append(c2s[conn], n)
    <2>1. unsent = <<>>
      BY <1>1 DEF OrderInv
    <2>2. /\ DOMAIN v = DOMAIN c2s[conn] \cup {Len(c2s[conn]) + 1} /\ v[Len(c2s[conn]) + 1] = n
          /\ \A i \in DOMAIN c2s[conn] : v[i] = c2s[conn][i]
      BY <1>a, <1>b, <1>c, Appended
    <2>3. Grows(v)
      BY <1>a, <1>b, <1>c, <1>d, GrowsOn DEF OrderInv
    <2>4. c2s'[conn] = v /\ \A c \in Connections : c # conn => c2s'[c] = c2s[c]
      BY <1>1, <1>a, <1>b
    <2> HIDE DEF v
    <2>5. \A i \in DOMAIN v : v[i] = n \/ (i \in DOMAIN c2s[conn] /\ v[i] = c2s[conn][i])
      BY <2>2
    <2>6. Sooner(taken, v)
      BY <1>a, <1>d, <2>5 DEF OrderInv, Sooner
    <2>7. \A b \in Connections : b < conn => Sooner(c2s[b], v)
      BY <1>a, <1>d, <2>5 DEF OrderInv, Sooner
    <2>8. \A c \in Connections : c > conn => c2s[c] = <<>>
      BY <1>a DEF OrderInv, OneOpen
    <2>9. \A c \in Connections : Grows(c2s'[c]) /\ Sooner(taken, c2s'[c]) /\ Sooner(c2s'[c], <<>>)
      BY <2>3, <2>4, <2>6, EmptyGrows DEF OrderInv
    <2>10. \A b, c \in Connections : b < c => Sooner(c2s'[b], c2s'[c])
      <3> SUFFICES ASSUME NEW b \in Connections, NEW c \in Connections, b < c
                   PROVE  Sooner(c2s'[b], c2s'[c])
        OBVIOUS
      <3>1. CASE c = conn
        BY <1>a, <2>4, <2>7, <3>1
      <3>2. CASE b = conn
        <4>1. c > conn /\ c # conn
          BY <1>a, <3>2
        <4>2. c2s'[c] = <<>>
          BY <2>4, <2>8, <4>1
        <4> QED
          BY <4>2, EmptyGrows
      <3>3. CASE b # conn /\ c # conn
        BY <2>4, <3>3 DEF OrderInv
      <3> QED
        BY <3>1, <3>2, <3>3
    <2>11. \A c \in Connections : \A i \in DOMAIN c2s'[c] : c2s'[c][i] <= orders'
      <3> SUFFICES ASSUME NEW c \in Connections, NEW i \in DOMAIN c2s'[c]
                   PROVE  c2s'[c][i] <= orders'
        OBVIOUS
      <3>1. CASE c = conn
        <4>1. i \in DOMAIN v /\ c2s'[c][i] = v[i]
          BY ONLY <2>4, <3>1
        <4>2. CASE v[i] = n
          BY ONLY <1>c, <4>1, <4>2
        <4>3. CASE i \in DOMAIN c2s[conn] /\ v[i] = c2s[conn][i]
          BY ONLY <1>a, <1>e, <4>1, <4>3
        <4> QED
          BY ONLY <2>5, <4>1, <4>2, <4>3
      <3>2. CASE c # conn
        BY ONLY <1>e, <2>4, <3>2
      <3> QED
        BY ONLY <3>1, <3>2
    <2> QED
      BY <1>1, <1>c, <1>e, <2>1, <2>9, <2>10, <2>11 DEF OrderInv
  <1>2. CASE link' = [link EXCEPT ![conn] = "aborted"] /\ unsent' = Unsent(n) /\ c2s' = c2s
    <2> DEFINE u == IF Len(unsent) = MaxUnsent THEN Tail(unsent) ELSE unsent
    <2>1. u \in Seq(Nat) /\ Grows(u) /\ Within(u, unsent)
      <3>1. CASE Len(unsent) = MaxUnsent
        <4>1. unsent # <<>>
          BY <3>1, <1>a
        <4>2. u = Tail(unsent) /\ Grows(unsent)
          BY <3>1 DEF OrderInv
        <4> QED
          BY <1>b, <4>1, <4>2, TailGrows
      <3>2. CASE Len(unsent) # MaxUnsent
        BY <3>2, <1>b DEF OrderInv, Within
      <3> QED
        BY <3>1, <3>2
    <2>2. unsent' = Append(u, n)
      BY <1>2 DEF Unsent
    <2> HIDE DEF u
    <2>3. \A i \in DOMAIN u : u[i] \in Nat /\ u[i] < n
      BY <1>d, <2>1 DEF Within
    <2>4. Grows(unsent')
      BY <1>c, <2>1, <2>2, <2>3, GrowsOn
    <2>5. \A i \in DOMAIN unsent' : unsent'[i] = n \/ (i \in DOMAIN u /\ unsent'[i] = u[i])
      BY <1>c, <2>1, <2>2, Appended
    <2>6. ASSUME NEW s, Sooner(s, unsent), \A i \in DOMAIN s : s[i] < n
          PROVE  Sooner(s, unsent')
      <3>1. Within(s, s)
        BY DEF Within
      <3>2. Sooner(s, u)
        BY <2>1, <2>6, <3>1, BeforeWithin
      <3> QED
        BY <2>5, <2>6, <3>2 DEF Sooner
    <2>7. Sooner(taken, unsent') /\ \A c \in Connections : Sooner(c2s[c], unsent')
      BY <1>d, <2>6 DEF OrderInv
    <2>8. \A i \in DOMAIN unsent' : unsent'[i] <= orders'
      BY <1>c, <2>3, <2>5
    <2>9. link'[conn] # "open"
      BY <1>2, <1>a DEF LinkTypes
    <2> QED
      BY <1>2, <1>c, <1>e, <2>4, <2>7, <2>8, <2>9 DEF OrderInv
  <1>3. CASE unsent' = unsent /\ link' = link /\ c2s' = c2s
    BY <1>3, <1>c, <1>e DEF OrderInv
  <1> QED
    BY <1>1, <1>2, <1>3 DEF Send, BreakOff

LEMMA OrderDials ==
    ASSUME LinkAssumption, ~Partial, LinkInv, OrderInv, Dial
    PROVE  OrderInv'
  <1>a. /\ LinkTypes /\ OneOpen /\ Connections \subseteq Nat \ {0} /\ conn \in Connections /\ dials \in Nat
    BY LinkBasics
  <1>b. /\ c2s \in [Connections -> Seq(Nat)] /\ unsent \in Seq(Nat \ {0}) /\ orders \in Nat
    BY <1>a DEF LinkTypes
  <1>c. orders' = orders /\ taken' = taken
    BY DEF Dial, server
  <1>1. CASE UNCHANGED <<conn, dials, unsent, wires>>
    BY <1>1, <1>c DEF OrderInv, wires
  <1>2. CASE /\ dials + 1 \in Connections /\ dials' = dials + 1
             /\ c2s' = [c2s EXCEPT ![dials + 1] = <<Hello>> \o unsent]
             /\ unsent' = <<>> /\ conn' = dials + 1
    <2> DEFINE f == <<Hello>> \o unsent
    <2>1. /\ f \in Seq(Nat) /\ f # <<>> /\ Len(f) = Len(unsent) + 1 /\ f[1] = 0
          /\ \A i \in DOMAIN f : i # 1 => i - 1 \in DOMAIN unsent /\ f[i] = unsent[i - 1]
      BY <1>b, Greeting
    <2>2. c2s'[dials + 1] = f /\ \A c \in Connections : c # dials + 1 => c2s'[c] = c2s[c]
      BY <1>2, <1>b
    <2> HIDE DEF f
    <2>3. DOMAIN f \subseteq Nat /\ \A i \in DOMAIN unsent : unsent[i] \in Nat /\ unsent[i] # 0
      BY <1>b, <2>1
    <2>4. Grows(f)
      <3> SUFFICES ASSUME NEW i \in DOMAIN f, NEW j \in DOMAIN f, i < j
                   PROVE  f[i] < f[j]
        BY DEF Grows
      <3>0. i \in Nat \ {0} /\ j \in Nat \ {0}
        BY <2>1
      <3>1. j # 1 /\ j - 1 \in DOMAIN unsent /\ f[j] = unsent[j - 1]
        BY <2>1, <3>0
      <3>2. CASE i = 1
        BY <2>1, <2>3, <3>1, <3>2
      <3>3. CASE i # 1
        <4>1. i - 1 \in DOMAIN unsent /\ f[i] = unsent[i - 1] /\ i - 1 < j - 1
          BY <2>1, <3>0, <3>3
        <4> QED
          BY <3>1, <4>1 DEF OrderInv, Grows
      <3> QED
        BY <3>2, <3>3
    <2>5. ASSUME NEW s, Sooner(s, unsent)
          PROVE  Sooner(s, f)
      <3> SUFFICES ASSUME NEW i \in DOMAIN s, NEW j \in DOMAIN f, f[j] # 0
                   PROVE  s[i] < f[j]
        BY DEF Sooner, Hello
      <3>1. j # 1 /\ j - 1 \in DOMAIN unsent /\ f[j] = unsent[j - 1]
        BY <2>1
      <3>2. unsent[j - 1] # 0
        BY <2>3, <3>1
      <3> QED
        BY <2>5, <3>1, <3>2 DEF Sooner, Hello
    <2>6. \A c \in Connections : c > dials => c2s[c] = <<>>
      BY <1>a DEF OneOpen
    <2>7. \A c \in Connections : Grows(c2s'[c]) /\ Sooner(taken, c2s'[c]) /\ Sooner(c2s'[c], <<>>)
      BY <2>2, <2>4, <2>5, EmptyGrows DEF OrderInv
    <2>8. \A b, c \in Connections : b < c => Sooner(c2s'[b], c2s'[c])
      <3> SUFFICES ASSUME NEW b \in Connections, NEW c \in Connections, b < c
                   PROVE  Sooner(c2s'[b], c2s'[c])
        OBVIOUS
      <3>1. CASE c = dials + 1
        <4>1. b # dials + 1
          BY <1>a, <3>1
        <4> QED
          BY <2>2, <2>5, <3>1, <4>1 DEF OrderInv
      <3>2. CASE b = dials + 1
        <4>1. c # dials + 1 /\ c > dials
          BY <1>a, <3>2
        <4>2. c2s'[c] = <<>>
          BY <2>2, <2>6, <4>1
        <4> QED
          BY <4>2, EmptyGrows
      <3>3. CASE b # dials + 1 /\ c # dials + 1
        BY <2>2, <3>3 DEF OrderInv
      <3> QED
        BY <3>1, <3>2, <3>3
    <2>9. \A c \in Connections : \A i \in DOMAIN c2s'[c] : c2s'[c][i] <= orders
      <3>1. \A i \in DOMAIN f : f[i] <= orders
        <4> TAKE i \in DOMAIN f
        <4>1. CASE i = 1
          BY <1>b, <2>1, <4>1
        <4>2. CASE i # 1
          BY <2>1, <4>2 DEF OrderInv
        <4> QED
          BY <4>1, <4>2
      <3> QED
        BY <2>2, <3>1 DEF OrderInv
    <2> QED
      BY <1>2, <1>c, <2>7, <2>8, <2>9, EmptyGrows DEF OrderInv
  <1> QED
    BY <1>1, <1>2 DEF Dial

LEMMA OrderServed ==
    ASSUME LinkAssumption, LinkInv, OrderInv, NEW c \in Connections, Serve(c)
    PROVE  OrderInv'
  <1>a. /\ LinkTypes /\ OneHello /\ Connections \subseteq Nat \ {0} /\ conn \in Connections
    BY LinkBasics
  <1>b. /\ c2s \in [Connections -> Seq(Nat)] /\ taken \in Seq(Nat) /\ unsent \in Seq(Nat) /\ orders \in Nat
        /\ taken \in Seq(Nat \ {0}) /\ link \in [Connections -> Standing]
    <2>1. /\ c2s \in [Connections -> Seq(Nat)] /\ orders \in 0 .. MaxOrders
          /\ taken \in Seq(Nat \ {0}) /\ unsent \in Seq(Nat \ {0})
          /\ link \in [Connections -> Standing]
      BY <1>a DEF LinkTypes
    <2>2. \A s \in Seq(Nat \ {0}) : s \in Seq(Nat)
      OBVIOUS
    <2> QED
      BY ONLY <2>1, <2>2
  <1>c. orders' = orders /\ conn' = conn /\ dials' = dials /\ unsent' = unsent /\ c2s[c] # <<>> /\ Heard(c)
    BY DEF Serve, rejoin
  <1>d. /\ c2s[c] \in Seq(Nat) /\ Grows(c2s[c]) /\ Head(c2s[c]) = c2s[c][1] /\ 1 \in DOMAIN c2s[c]
    BY <1>b, <1>c DEF OrderInv
  <1>e. /\ Tail(c2s[c]) \in Seq(Nat) /\ Grows(Tail(c2s[c])) /\ Within(Tail(c2s[c]), c2s[c])
        /\ \A i \in DOMAIN Tail(c2s[c]) : c2s[c][1] < Tail(c2s[c])[i]
    BY <1>c, <1>d, TailGrows
  <1>f. \A d \in Connections : Grows(c2s[d]) /\ Within(c2s[d], c2s[d])
    BY DEF OrderInv, Within
  <1>1. CASE /\ c2s' = [c2s EXCEPT ![c] = Tail(c2s[c])] \/ c2s' = [c2s EXCEPT ![c] = <<>>]
             /\ taken' = taken /\ (link'[conn] = "open" => link[conn] = "open")
    <2>1. \A d \in Connections : Grows(c2s'[d]) /\ Within(c2s'[d], c2s[d])
      BY <1>1, <1>b, <1>e, <1>f, EmptyGrows
    <2> QED
      BY <1>1, <1>a, <1>b, <1>c, <2>1, OrderShrinks
  <1>2. CASE /\ c2s[c][1] # Hello /\ taken' = Append(taken, c2s[c][1])
             /\ c2s' = [c2s EXCEPT ![c] = Tail(c2s[c])] /\ link' = link
    <2> DEFINE n == c2s[c][1]
    <2>1. holder = c
      BY <1>2, <1>a, <1>c DEF OneHello
    <2>2. \A d \in Connections : d < c => c2s[d] = <<>>
      <3> SUFFICES ASSUME NEW d \in Connections, d < c
                   PROVE  c2s[d] = <<>>
        OBVIOUS
      <3>1. d \in 1 .. c - 1 /\ d # c
        BY <1>a
      <3> QED
        BY <1>c, <2>1, <3>1 DEF Heard
    <2>3. n \in Nat /\ n # Hello /\ n <= orders
      BY <1>2, <1>b, <1>d DEF OrderInv
    <2>4. \A i \in DOMAIN taken : taken[i] < n
      BY <1>2, <1>d DEF OrderInv, Sooner
    <2>5. Grows(taken')
      BY <1>2, <1>b, <2>3, <2>4, GrowsOn DEF OrderInv
    <2>6. \A i \in DOMAIN taken' : taken'[i] = n \/ (i \in DOMAIN taken /\ taken'[i] = taken[i])
      <3>1. /\ DOMAIN Append(taken, n) = DOMAIN taken \cup {Len(taken) + 1}
            /\ Append(taken, n)[Len(taken) + 1] = n
            /\ \A i \in DOMAIN taken : Append(taken, n)[i] = taken[i]
        BY <1>b, <2>3, Appended
      <3>2. taken' = Append(taken, n)
        BY <1>2
      <3> DEFINE k == Len(taken) + 1
      <3> HIDE DEF k, n
      <3>3. /\ DOMAIN taken' = DOMAIN taken \cup {k} /\ taken'[k] = n
            /\ \A i \in DOMAIN taken : taken'[i] = taken[i]
        BY ONLY <3>1, <3>2 DEF k
      <3> QED
        BY ONLY <3>3
    <2>7. c2s'[c] = Tail(c2s[c]) /\ \A d \in Connections : d # c => c2s'[d] = c2s[d]
      BY <1>2, <1>b
    <2>8. \A d \in Connections : Grows(c2s'[d]) /\ Within(c2s'[d], c2s[d])
      BY <1>e, <1>f, <2>7
    <2>9. \A d \in Connections : \A j \in DOMAIN c2s'[d] : c2s'[d][j] # Hello => n < c2s'[d][j]
      <3> SUFFICES ASSUME NEW d \in Connections, NEW j \in DOMAIN c2s'[d], c2s'[d][j] # Hello
                   PROVE  n < c2s'[d][j]
        OBVIOUS
      <3>1. CASE d = c
        BY <1>e, <2>7, <3>1
      <3>2. CASE d > c
        <4>1. d # c /\ c < d /\ c2s'[d] = c2s[d]
          BY <1>a, <2>7, <3>2
        <4> QED
          BY <1>d, <4>1 DEF OrderInv, Sooner
      <3>3. CASE d < c
        <4>1. c2s'[d] = <<>>
          BY <1>a, <2>2, <2>7, <3>3
        <4> QED
          BY <4>1
      <3> QED
        BY <1>a, <3>1, <3>2, <3>3
    <2>10. \A i \in DOMAIN unsent : unsent[i] # Hello => n < unsent[i]
      BY <1>d DEF OrderInv, Sooner
    <2> HIDE DEF n
    <2>11. \A d \in Connections : Sooner(taken, c2s'[d]) /\ Sooner(c2s'[d], unsent)
      <3> TAKE d \in Connections
      <3>1. Within(taken, taken) /\ Within(unsent, unsent)
        BY DEF Within
      <3>2. Sooner(taken, c2s[d]) /\ Sooner(c2s[d], unsent)
        BY DEF OrderInv
      <3>3. Sooner(taken, c2s'[d])
        BY <2>8, <3>1, <3>2, BeforeWithin
      <3>4. Sooner(c2s'[d], unsent)
        BY <2>8, <3>1, <3>2, BeforeWithin
      <3> QED
        BY <3>3, <3>4
    <2>12. \A d \in Connections : Sooner(taken', c2s'[d])
      BY <2>6, <2>9, <2>11 DEF Sooner
    <2>13. Sooner(taken', unsent)
      BY <2>6, <2>10 DEF Sooner, OrderInv
    <2>14. \A b, d \in Connections : b < d => Sooner(c2s'[b], c2s'[d])
      <3> SUFFICES ASSUME NEW b \in Connections, NEW d \in Connections, b < d
                   PROVE  Sooner(c2s'[b], c2s'[d])
        OBVIOUS
      <3>1. Sooner(c2s[b], c2s[d])
        BY DEF OrderInv
      <3> QED
        BY <2>8, <3>1, BeforeWithin
    <2>15. \A i \in DOMAIN taken' : taken'[i] <= orders
      BY <2>3, <2>6 DEF OrderInv
    <2>16. \A d \in Connections : \A i \in DOMAIN c2s'[d] : c2s'[d][i] <= orders
      <3> SUFFICES ASSUME NEW d \in Connections, NEW i \in DOMAIN c2s'[d]
                   PROVE  c2s'[d][i] <= orders
        OBVIOUS
      <3>1. PICK j \in DOMAIN c2s[d] : c2s'[d][i] = c2s[d][j]
        BY <2>8 DEF Within
      <3> QED
        BY <3>1 DEF OrderInv
    <2> QED
      BY <1>2, <1>c, <2>5, <2>8, <2>11, <2>12, <2>13, <2>14, <2>15, <2>16 DEF OrderInv
  <1>3. c2s[c][1] = Hello =>
            /\ c2s' = [c2s EXCEPT ![c] = Tail(c2s[c])] \/ c2s' = [c2s EXCEPT ![c] = <<>>]
            /\ taken' = taken
            /\ link' = link \/ link' = [link EXCEPT ![c] = IF link[c] = "open" THEN "shut" ELSE link[c]]
    BY <1>d DEF Serve, Shuts
  <1>4. c2s[c][1] # Hello =>
            /\ c2s' = [c2s EXCEPT ![c] = Tail(c2s[c])]
            /\ taken' = Append(taken, c2s[c][1]) /\ link' = link
    BY <1>d DEF Serve
  <1>5. c2s[c][1] = Hello => (link'[conn] = "open" => link[conn] = "open")
    BY <1>3, <1>a, <1>b
  <1> QED
    BY <1>1, <1>2, <1>3, <1>4, <1>5

LEMMA OrderLost ==
    ASSUME LinkAssumption, LinkInv, OrderInv,
           Notice \/ MatchOver \/ \E c \in Connections : Ping(c) \/ LetGo(c) \/ Cut(c)
    PROVE  OrderInv'
  <1>a. /\ LinkTypes /\ conn \in Connections
    BY LinkBasics
  <1>b. /\ c2s \in [Connections -> Seq(Nat)] /\ taken \in Seq(Nat) /\ unsent \in Seq(Nat) /\ orders \in Nat
        /\ link \in [Connections -> Standing]
    BY <1>a DEF LinkTypes
  <1>c. orders' = orders /\ conn' = conn /\ dials' = dials /\ unsent' = unsent /\ taken' = taken
    BY DEF Notice, MatchOver, Cut, Ping, LetGo, rejoin, server
  <1>d. link'[conn] = "open" => link[conn] = "open"
    BY <1>a, <1>b DEF Notice, MatchOver, Cut, Ping, LetGo, Shuts
  <1>e. \A d \in Connections : Grows(c2s[d]) /\ Within(c2s[d], c2s[d])
    BY DEF OrderInv, Within
  <1>1. \A d \in Connections : Grows(c2s'[d]) /\ Within(c2s'[d], c2s[d])
    <2>1. CASE Notice
      BY <2>1, <1>b, <1>e, EmptyGrows DEF Notice
    <2>2. CASE MatchOver
      BY <2>2, EmptyGrows DEF MatchOver
    <2>3. CASE \E c \in Connections : Cut(c)
      <3>1. PICK c \in Connections : Cut(c)
        BY <2>3
      <3>2. PICK k \in 0 .. Len(c2s[c]) : c2s' = [c2s EXCEPT ![c] = SubSeq(c2s[c], 1, k)]
        BY <3>1 DEF Cut
      <3> DEFINE v == SubSeq(c2s[c], 1, k)
      <3>3. c2s[c] \in Seq(Nat)
        BY <1>b
      <3>4. DOMAIN v \subseteq DOMAIN c2s[c] /\ \A i \in DOMAIN v : v[i] = c2s[c][i]
        BY <3>3, CutOrders
      <3>5. c2s'[c] = v /\ \A d \in Connections : d # c => c2s'[d] = c2s[d]
        BY <1>b, <3>2
      <3> HIDE DEF v
      <3>6. Grows(v) /\ Within(v, c2s[c])
        BY <1>e, <3>4 DEF Grows, Within
      <3> QED
        BY <1>e, <3>5, <3>6
    <2>4. CASE \E c \in Connections : Ping(c)
      BY <2>4, <1>e DEF Ping
    <2>5. CASE \E c \in Connections : LetGo(c)
      BY <2>5, <1>b, <1>e, EmptyGrows DEF LetGo, Shuts
    <2> QED
      BY <2>1, <2>2, <2>3, <2>4, <2>5
  <1> QED
    BY <1>a, <1>b, <1>c, <1>d, <1>1, OrderShrinks

LEMMA OrderKept ==
    ASSUME LinkAssumption, ~Partial, LinkInv, OrderInv, [LinkNext]_linkVars
    PROVE  OrderInv'
  <1>1. CASE Probe \/ Read \/ ReadEnds \/ GiveUp \/ UNCHANGED linkVars
    <2>1. UNCHANGED <<conn, dials, unsent, taken, c2s, orders>>
      BY <1>1 DEF Probe, Read, ReadEnds, GiveUp, linkVars, rejoin, wires, server
    <2>2. link' = link \/ link' = [link EXCEPT ![conn] = "aborted"]
      BY <1>1 DEF Probe, BreakOff, Read, ReadEnds, GiveUp, linkVars, wires
    <2>3. conn \in Connections /\ link \in [Connections -> Standing]
      BY LinkBasics DEF LinkTypes
    <2>4. link'[conn] = "open" => link[conn] = "open"
      BY <2>2, <2>3
    <2> QED
      BY <2>1, <2>4 DEF OrderInv
  <1> QED
    BY <1>1, OrderSends, OrderDials, OrderServed, OrderLost DEF LinkNext

-----------------------------------------------------------------------------
\* A link that says it is up again was answered on the connection it is on, by more
\* than that the seat is held, and ends only with the match, its attempts, or a
\* connection the server refused for good or let go, whatever the network breaks and
\* however much of a greeting arrives (socket.rs Net, redial.rs Rejoin).
THEOREM LinkSettlesForCause ==
    ASSUME LinkAssumption
    PROVE  LinkSpec => [](LinkTypeOK /\ UpAnswered /\ EndsForCause)
  <1>1. LinkInit => LinkInv
    BY LinkStarts
  <1>2. LinkInv /\ [LinkNext]_linkVars => LinkInv'
    BY LinkKept
  <1>3. LinkInv => LinkTypeOK /\ UpAnswered /\ EndsForCause
    <2> SUFFICES ASSUME LinkInv PROVE LinkTypeOK /\ UpAnswered /\ EndsForCause
      OBVIOUS
    <2>1. Attempts \in Nat
      BY DEF LinkAssumption
    <2> QED
      <3>1. LinkTypes /\ OneOpen /\ Follows /\ UpAnswered /\ EndsForCause
        BY DEF LinkInv
      <3> QED
        BY <2>1, <3>1 DEF LinkTypes, OneOpen, Follows, LinkTypeOK
  <1> QED
    BY <1>1, <1>2, <1>3, PTL DEF LinkSpec

\* The server takes each order at most once and in the order they were given, through
\* every break and redial of the link that carries them, where a greeting arrives
\* whole or not at all; and the rest of what a link may be relied on for.
THEOREM LinkIsSound ==
    ASSUME LinkAssumption, ~Partial
    PROVE  LinkSpec => []LinkSound
  <1>1. LinkInit => LinkInv /\ OrderInv
    BY LinkStarts, OrderStarts
  <1>2. LinkInv /\ OrderInv /\ [LinkNext]_linkVars => (LinkInv /\ OrderInv)'
    BY LinkKept, OrderKept
  <1>3. OrderInv => TakenInOrder
    BY DEF OrderInv, Grows, TakenInOrder
  <1>4. LinkSpec => [](LinkInv /\ OrderInv)
    BY <1>1, <1>2, PTL DEF LinkSpec
  <1>5. LinkSpec => [](LinkTypeOK /\ UpAnswered /\ EndsForCause)
    BY LinkSettlesForCause
  <1>6. LinkTypeOK /\ UpAnswered /\ EndsForCause /\ TakenInOrder => LinkSound
    BY DEF LinkSound
  <1> QED
    BY <1>3, <1>4, <1>5, <1>6, PTL

-----------------------------------------------------------------------------
(* A bot's team and its worker thread. *)

\* The state of the teams and their workers, typed in full.
Request == [tick : 0 .. LastTick, seen : 0 .. LastTick, discarded : BOOLEAN]
CallerTypes ==
    /\ pc \in {"none", "starting", "idle", "drain", "send", "wait"}
    /\ cur \in 0 .. MaxTeams /\ tick \in 0 .. LastTick /\ late \in 0 .. MaxLate
    /\ open \subseteq Teams /\ ready \subseteq Teams
    /\ launched \in 0 .. LastTick /\ asked \in 0 .. LastTick
TeamTypes ==
    /\ requests \in [Teams -> Seq(Request)] /\ replies \in [Teams -> Seq(Turn)]
    /\ at \in [Teams -> {"unborn", "build", "recv", "think", "reply", "gone"}]
    /\ pending_once \in [Teams -> OnceKept] /\ previous \in [Teams -> OnceKept]
    /\ turn \in [Teams -> Turn]
FlagTypes == in_flight \in BOOLEAN /\ discard \in BOOLEAN
WorkerTypes == CallerTypes /\ TeamTypes /\ FlagTypes

\* The channels hold one message each.
OnePlace == \A t \in Teams : Len(requests[t]) <= 1 /\ Len(replies[t]) <= 1

\* The caller has at most the team it started last, a team not started yet has
\* no history, and the start is over when the caller read its answer.
OneTeam ==
    /\ open \subseteq {cur} /\ ready \subseteq {cur}
    /\ pc = "none" => open = {}
    /\ pc \notin {"none", "idle"} => open = {cur}
    /\ pc # "starting" => ready = {}
    /\ open = {} => asked = 0
    /\ late >= MaxLate => open = {}
    /\ launched <= tick
    /\ \A t \in Teams : at[t] = "unborn" <=> t > cur
    /\ \A t \in Teams : t > cur => /\ requests[t] = <<>> /\ replies[t] = <<>>
                                   /\ pending_once[t] = Nothing /\ previous[t] = Unkept

\* A team being started was not asked for anything.
Starting ==
    pc = "starting" =>
        /\ at[cur] \in {"build", "recv", "gone"} /\ (at[cur] = "recv" <=> ready = {cur})
        /\ requests[cur] = <<>> /\ replies[cur] = <<>>
        /\ pending_once[cur] = Nothing /\ previous[cur] = Unkept
        /\ ~in_flight /\ ~discard /\ asked = 0

\* Where the request of a tick is: on its way, worked on, answered, or nowhere.
Waits(t)   == at[t] = "recv" /\ requests[t] # <<>> /\ replies[t] = <<>>
Works(t)   == at[t] \in {"think", "reply"} /\ requests[t] = <<>> /\ replies[t] = <<>>
Replied(t) == /\ at[t] \in {"recv", "gone"} /\ requests[t] = <<>> /\ replies[t] # <<>>
              /\ at[t] = "gone" => Head(replies[t]).bad
Rests(t)   == at[t] = "recv" /\ requests[t] = <<>> /\ replies[t] = <<>>

\* What is in flight is in one place, and what the caller waits for is the tick it
\* asked about; what it no longer waits for it will throw away.
Flight ==
    /\ pc \in {"drain", "wait"} => in_flight
    /\ pc = "send" => ~in_flight
    /\ open # {} /\ in_flight => (discard <=> pc # "wait")
    /\ open # {} /\ pc # "starting" =>
         IF in_flight THEN Waits(cur) \/ Works(cur) \/ Replied(cur) ELSE Rests(cur)
    /\ pc = "wait" =>
         /\ requests[cur] # <<>> => Head(requests[cur]).tick = tick
         /\ at[cur] \in {"think", "reply"} => turn[cur].tick = tick
         /\ replies[cur] # <<>> => Head(replies[cur]).tick = tick

\* A request kept as launched was: the hero's last launch is later than it.
OnceTrue(x) == x.launched => x.tick # 0 /\ x.tick < launched

\* A turn that is no error: the worker that sent it remembers what the caller will
\* have sent out, and its stop is for a blow that was launched.
Stops(o) == o # <<>> /\ Head(o) = "stop"
Thought(u) ==
    ~u.bad => /\ pc = "wait" => pending_once[cur].tick = AskedAfter(u.orders)
              /\ Stops(u.orders) => asked # 0 /\ launched > asked

\* What the worker remembers of an attack is what went out, in its state or in the
\* checkpoint it will go back to.
Memory ==
    open # {} =>
        /\ OnceTrue(pending_once[cur])
        /\ previous[cur] # Unkept => OnceTrue(previous[cur])
        /\ ~in_flight /\ ~discard => pending_once[cur].tick = asked
        /\ ~in_flight /\ discard => previous[cur] # Unkept /\ previous[cur].tick = asked
        /\ requests[cur] # <<>> =>
             /\ Head(requests[cur]).seen <= launched
             /\ IF Head(requests[cur]).discarded
                THEN previous[cur] # Unkept /\ previous[cur].tick = asked
                ELSE pending_once[cur].tick = asked
        /\ at[cur] = "think" =>
             /\ pending_once[cur] = previous[cur] /\ previous[cur].tick = asked
             /\ turn[cur].seen <= launched /\ ~turn[cur].bad /\ ~turn[cur].ends
             /\ turn[cur].orders = <<>>
        /\ at[cur] = "reply" =>
             /\ previous[cur] # Unkept /\ previous[cur].tick = asked
             /\ Thought(turn[cur]) /\ (turn[cur].ends => turn[cur].bad)
        /\ replies[cur] # <<>> =>
             /\ previous[cur] # Unkept /\ previous[cur].tick = asked
             /\ Thought(Head(replies[cur]))

\* The inductive invariant.
WorkerInv ==
    /\ WorkerTypes /\ OnePlace /\ OneTeam /\ Starting /\ Flight /\ Memory
    /\ PermitsHeld /\ live_workers <= Permits /\ OwnTurn

-----------------------------------------------------------------------------
(* A channel, a team, and how many workers there are. *)

LEMMA OneMessage ==
    ASSUME NEW S, NEW s \in Seq(S), Len(s) <= 1, s # <<>>
    PROVE  Head(s) \in S /\ Tail(s) = <<>> /\ Len(s) = 1
  <1>1. Len(s) \in Nat \ {0}
    OBVIOUS
  <1>2. Len(s) = 1
    <2> DEFINE n == Len(s)
    <2>1. n \in Nat \ {0} /\ n <= 1
      BY <1>1
    <2> HIDE DEF n
    <2>2. n = 1
      BY <2>1
    <2> QED
      BY <2>2 DEF n
  <1>3. Tail(s) \in Seq(S) /\ Len(Tail(s)) = 0 /\ Head(s) \in S
    BY <1>2
  <1>4. \A z \in Seq(S) : Len(z) = 0 => z = <<>>
    OBVIOUS
  <1> QED
    BY <1>2, <1>3, <1>4

LEMMA WorkerBasics ==
    ASSUME WorkerAssumption, WorkerInv
    PROVE  /\ MaxLate \in Nat \ {0} /\ Permits \in Nat \ {0} /\ MaxTeams \in Nat /\ LastTick \in Nat
           /\ WorkerTypes /\ OnePlace /\ OneTeam /\ Starting /\ Flight /\ Memory
           /\ cur \in Nat /\ tick \in Nat /\ late \in Nat /\ launched \in Nat /\ asked \in Nat
           /\ Teams \subseteq Nat \ {0} /\ \A t \in Teams : t <= MaxTeams
           /\ open = {} \/ (open = {cur} /\ cur \in Teams)
           /\ cur # 0 => cur \in Teams
  <1>1. MaxLate \in Nat \ {0} /\ Permits \in Nat \ {0} /\ MaxTeams \in Nat /\ LastTick \in Nat
    BY DEF WorkerAssumption
  <1>2. WorkerTypes /\ OnePlace /\ OneTeam /\ Starting /\ Flight /\ Memory
    BY DEF WorkerInv
  <1>3. cur \in Nat /\ tick \in Nat /\ late \in Nat /\ launched \in Nat /\ asked \in Nat
    BY <1>1, <1>2 DEF WorkerTypes, CallerTypes, TeamTypes
  <1>4. Teams \subseteq Nat \ {0} /\ \A t \in Teams : t <= MaxTeams
    BY <1>1 DEF Teams
  <1>5. open = {} \/ (open = {cur} /\ cur \in Teams)
    BY <1>2 DEF WorkerTypes, CallerTypes, TeamTypes, OneTeam
  <1>6. cur # 0 => cur \in Teams
    BY <1>1, <1>2 DEF WorkerTypes, CallerTypes, TeamTypes, Teams
  <1> QED
    BY <1>1, <1>2, <1>3, <1>4, <1>5, <1>6

\* What the messages of the team in hand are, and the records its worker keeps.
LEMMA WorkerHolds ==
    ASSUME WorkerAssumption, WorkerInv, NEW t \in Teams
    PROVE  /\ requests[t] \in Seq(Request) /\ replies[t] \in Seq(Turn)
           /\ requests[t] # <<>> => Head(requests[t]) \in Request /\ Tail(requests[t]) = <<>>
           /\ replies[t] # <<>> => Head(replies[t]) \in Turn /\ Tail(replies[t]) = <<>>
           /\ pending_once[t] \in OnceKept /\ previous[t] \in OnceKept /\ turn[t] \in Turn
           /\ at[t] \in {"unborn", "build", "recv", "think", "reply", "gone"}
  <1>1. WorkerTypes /\ OnePlace
    BY WorkerBasics
  <1>2. /\ requests[t] \in Seq(Request) /\ replies[t] \in Seq(Turn)
        /\ Len(requests[t]) <= 1 /\ Len(replies[t]) <= 1
    BY <1>1 DEF WorkerTypes, CallerTypes, TeamTypes, OnePlace
  <1>3. requests[t] # <<>> => Head(requests[t]) \in Request /\ Tail(requests[t]) = <<>>
    BY <1>2, OneMessage
  <1>4. replies[t] # <<>> => Head(replies[t]) \in Turn /\ Tail(replies[t]) = <<>>
    BY <1>2, OneMessage
  <1>5. /\ pending_once[t] \in OnceKept /\ previous[t] \in OnceKept /\ turn[t] \in Turn
        /\ at[t] \in {"unborn", "build", "recv", "think", "reply", "gone"}
    BY <1>1 DEF WorkerTypes, CallerTypes, TeamTypes
  <1> QED
    BY <1>2, <1>3, <1>4, <1>5

Running == {t \in Teams : at[t] \notin {"unborn", "gone"}}

LEMMA RunningCounted ==
    ASSUME WorkerAssumption
    PROVE  IsFiniteSet(Running) /\ Cardinality(Running) \in Nat
  <1>1. MaxTeams \in Nat
    BY DEF WorkerAssumption
  <1>2. 1 \in Int /\ MaxTeams \in Int
    BY <1>1
  <1>3. IsFiniteSet(Teams)
    BY <1>2, FS_Interval DEF Teams
  <1>4. IsFiniteSet(Running)
    BY <1>3, FS_Subset DEF Running
  <1> QED
    BY <1>4, FS_CardinalityType

LEMMA OneMoreRuns ==
    ASSUME WorkerAssumption, WorkerInv, NEW t \in Teams, at[t] = "unborn",
           at' = [at EXCEPT ![t] = "build"], live_workers' = live_workers + 1, live_workers < Permits
    PROVE  PermitsHeld' /\ live_workers' <= Permits
  <1>1. IsFiniteSet(Running) /\ Cardinality(Running) \in Nat /\ live_workers = Cardinality(Running)
    BY RunningCounted DEF WorkerInv, PermitsHeld, Running
  <1>2. at \in [Teams -> {"unborn", "build", "recv", "think", "reply", "gone"}]
    BY DEF WorkerInv, WorkerTypes, TeamTypes
  <1>3. Running' = Running \cup {t} /\ t \notin Running
    BY <1>2 DEF Running
  <1>4. Cardinality(Running') = Cardinality(Running) + 1
    BY <1>1, <1>3, FS_AddElement
  <1>5. Permits \in Nat
    BY DEF WorkerAssumption
  <1> QED
    BY <1>1, <1>4, <1>5 DEF PermitsHeld, Running

LEMMA OneRunsLess ==
    ASSUME WorkerAssumption, WorkerInv, NEW t \in Teams, at[t] \notin {"unborn", "gone"}, Ends(t)
    PROVE  PermitsHeld' /\ live_workers' <= Permits
  <1>1. IsFiniteSet(Running) /\ Cardinality(Running) \in Nat /\ live_workers = Cardinality(Running)
    BY RunningCounted DEF WorkerInv, PermitsHeld, Running
  <1>2. at \in [Teams -> {"unborn", "build", "recv", "think", "reply", "gone"}]
    BY DEF WorkerInv, WorkerTypes, TeamTypes
  <1>3. Running' = Running \ {t} /\ t \in Running
    BY <1>2 DEF Running, Ends
  <1>4. Cardinality(Running') = Cardinality(Running) - 1
    BY <1>1, <1>3, FS_RemoveElement
  <1>5. Permits \in Nat /\ live_workers <= Permits /\ live_workers' = live_workers - 1
    BY DEF WorkerAssumption, WorkerInv, Ends
  <1> QED
    BY <1>1, <1>4, <1>5 DEF PermitsHeld, Running

LEMMA AllRunOn ==
    ASSUME WorkerAssumption, WorkerInv, NEW t \in Teams, NEW a \in {"recv", "think", "reply"},
           at[t] \notin {"unborn", "gone"},
           at' = [at EXCEPT ![t] = a], live_workers' = live_workers
    PROVE  PermitsHeld' /\ live_workers' <= Permits
  <1>1. at \in [Teams -> {"unborn", "build", "recv", "think", "reply", "gone"}]
    BY DEF WorkerInv, WorkerTypes, TeamTypes
  <1>2. Running' = Running
    BY <1>1 DEF Running
  <1> QED
    BY <1>2 DEF PermitsHeld, Running, WorkerInv

LEMMA NobodyMoved ==
    ASSUME WorkerInv, UNCHANGED <<at, live_workers>>
    PROVE  PermitsHeld' /\ live_workers' <= Permits
  BY DEF PermitsHeld, WorkerInv

-----------------------------------------------------------------------------
(* Starting and dropping a team. *)

LEMMA WorkerStarts ==
    ASSUME WorkerAssumption, WorkerInit
    PROVE  WorkerInv
  <1>1. MaxLate \in Nat \ {0} /\ Permits \in Nat \ {0} /\ MaxTeams \in Nat /\ LastTick \in Nat
    BY DEF WorkerAssumption
  <1>2. Nothing \in OnceKept /\ Unkept \in OnceKept
    BY <1>1 DEF Nothing, Unkept, OnceKept
  <1>3. NoTurn \in Turn
    BY <1>1 DEF NoTurn, Turn
  <1>4. WorkerTypes
    <2>1. CallerTypes
      BY <1>1 DEF WorkerInit, CallerTypes
    <2>2. <<>> \in Seq(Request) /\ <<>> \in Seq(Turn)
      OBVIOUS
    <2>3. TeamTypes
      BY <1>2, <1>3, <2>2 DEF WorkerInit, TeamTypes
    <2>4. FlagTypes
      BY DEF WorkerInit, FlagTypes
    <2> QED
      BY <2>1, <2>3, <2>4 DEF WorkerTypes
  <1>5. OnePlace
    BY DEF WorkerInit, OnePlace
  <1>6. OneTeam
    BY <1>1 DEF WorkerInit, OneTeam, Teams
  <1>7. Starting /\ Flight /\ Memory /\ OwnTurn
    BY DEF WorkerInit, Starting, Flight, Memory, OwnTurn
  <1>8. Running = {}
    BY DEF Running, WorkerInit
  <1>9. PermitsHeld /\ live_workers <= Permits
    <2>1. Cardinality(Running) = 0 /\ live_workers = 0
      BY <1>8, FS_EmptySet DEF WorkerInit
    <2> QED
      BY <1>1, <2>1 DEF PermitsHeld, Running
  <1> QED
    BY <1>4, <1>5, <1>6, <1>7, <1>9 DEF WorkerInv

LEMMA TeamStarts ==
    ASSUME WorkerAssumption, WorkerInv, Start
    PROVE  WorkerInv'
  <1>a. /\ MaxLate \in Nat \ {0} /\ MaxTeams \in Nat /\ LastTick \in Nat /\ WorkerTypes /\ OnePlace
        /\ OneTeam /\ cur \in Nat /\ Teams \subseteq Nat \ {0}
    BY WorkerBasics
  <1>b. /\ pc = "none" /\ pc' = "starting" /\ cur' = cur + 1 /\ open' = {cur'} /\ late' = 0
        /\ ~in_flight' /\ ~discard' /\ tick' = tick /\ ready' = ready /\ requests' = requests
        /\ replies' = replies /\ pending_once' = pending_once /\ previous' = previous
        /\ turn' = turn /\ launched' = launched /\ asked' = asked /\ got' = got
        /\ at' = [at EXCEPT ![cur'] = "build"] /\ in_flight' = FALSE /\ discard' = FALSE
    BY <1>a DEF Start, match, OneTeam
  <1>c. cur' \in Teams /\ cur' \in 0 .. MaxTeams /\ cur' \in Nat
    BY <1>a, <1>b DEF Start, Teams
  <1>d. at'[cur'] = "build" /\ \A t \in Teams : t # cur' => at'[t] = at[t]
    BY <1>a, <1>b, <1>c DEF WorkerTypes, CallerTypes, TeamTypes
  <1>1. WorkerTypes'
    <2>1. CallerTypes'
      BY <1>a, <1>b, <1>c DEF WorkerTypes, CallerTypes
    <2>2. TeamTypes'
      BY <1>a, <1>b, <1>c DEF WorkerTypes, TeamTypes
    <2>3. FlagTypes'
      BY ONLY <1>b DEF FlagTypes
    <2> QED
      BY <2>1, <2>2, <2>3 DEF WorkerTypes
  <1>2. OnePlace'
    BY <1>a, <1>b DEF OnePlace
  <1>3. OneTeam'
    <2>1. \A t \in Teams : at'[t] = "unborn" <=> t > cur'
      <3> SUFFICES ASSUME NEW t \in Teams PROVE at'[t] = "unborn" <=> t > cur'
        OBVIOUS
      <3>1. t \in Nat
        BY <1>a
      <3>2. CASE t = cur'
        BY <1>c, <1>d, <3>2
      <3>3. CASE t # cur'
        <4>1. t > cur' <=> t > cur
          BY <1>a, <1>b, <3>1, <3>3
        <4> QED
          BY <1>a, <1>d, <3>3, <4>1 DEF OneTeam
      <3> QED
        BY <3>2, <3>3
    <2>2. \A t \in Teams : t > cur' => t > cur
      BY <1>a, <1>b
    <2>3. \A t \in Teams : t > cur' => /\ requests'[t] = <<>> /\ replies'[t] = <<>>
                                       /\ pending_once'[t] = Nothing /\ previous'[t] = Unkept
      BY <1>a, <1>b, <2>2 DEF OneTeam
    <2>4. ready = {} /\ asked = 0
      BY <1>a, <1>b DEF OneTeam
    <2>5. ~(late' >= MaxLate)
      BY <1>a, <1>b
    <2>6. launched' <= tick'
      BY <1>a, <1>b DEF OneTeam
    <2> QED
      BY <1>b, <2>1, <2>3, <2>4, <2>5, <2>6 DEF OneTeam
  <1>4. /\ at[cur'] = "unborn" /\ requests[cur'] = <<>> /\ replies[cur'] = <<>>
        /\ pending_once[cur'] = Nothing /\ previous[cur'] = Unkept /\ ready = {} /\ asked = 0
    <2>1. cur' > cur
      BY <1>a, <1>b
    <2> QED
      BY <1>a, <1>b, <1>c, <2>1 DEF OneTeam
  <1>5. Starting'
    BY <1>b, <1>d, <1>4 DEF Starting
  <1>6. Flight'
    BY <1>b DEF Flight
  <1>7. Memory'
    BY <1>b, <1>d, <1>4 DEF Memory, OnceTrue, Nothing
  <1>8. PermitsHeld' /\ live_workers' <= Permits'
    BY <1>b, <1>c, <1>4, OneMoreRuns DEF Start
  <1>9. OwnTurn'
    BY <1>b DEF OwnTurn, WorkerInv
  <1> QED
    BY <1>1, <1>2, <1>3, <1>5, <1>6, <1>7, <1>8, <1>9 DEF WorkerInv

LEMMA TeamStarted ==
    ASSUME WorkerAssumption, WorkerInv, Started
    PROVE  WorkerInv'
  <1>a. WorkerTypes /\ OnePlace /\ OneTeam /\ Starting /\ Flight /\ Memory
    BY WorkerBasics
  <1>b. /\ pc = "starting" /\ cur \in ready /\ pc' = "idle" /\ ready' = {} /\ cur' = cur /\ tick' = tick
        /\ late' = late /\ in_flight' = in_flight /\ discard' = discard /\ open' = open
        /\ requests' = requests /\ replies' = replies /\ at' = at /\ pending_once' = pending_once
        /\ previous' = previous /\ turn' = turn /\ launched' = launched /\ asked' = asked
        /\ got' = got /\ live_workers' = live_workers
    BY <1>a DEF Started, worker, match, OneTeam
  <1>1. WorkerTypes' /\ OnePlace'
    BY <1>a, <1>b DEF WorkerTypes, CallerTypes, TeamTypes, FlagTypes, OnePlace
  <1>2. OneTeam'
    BY <1>a, <1>b DEF OneTeam
  <1>3. /\ at[cur] = "recv" /\ requests[cur] = <<>> /\ replies[cur] = <<>> /\ ~in_flight
    BY <1>a, <1>b DEF Starting, OneTeam
  <1>4. Starting' /\ Flight'
    BY <1>b, <1>3 DEF Starting, Flight, Rests
  <1>5. Memory'
    BY <1>a, <1>b, <1>3 DEF Memory, OnceTrue
  <1>6. PermitsHeld' /\ live_workers' <= Permits' /\ OwnTurn'
    BY <1>b, NobodyMoved DEF OwnTurn, WorkerInv
  <1> QED
    BY <1>1, <1>2, <1>4, <1>5, <1>6 DEF WorkerInv

\* Without a team there is nothing to hold.
LEMMA TeamDropped ==
    ASSUME WorkerAssumption, WorkerInv, NotStarted \/ Drop
    PROVE  WorkerInv'
  <1>a. WorkerTypes /\ OnePlace /\ OneTeam /\ Starting /\ MaxLate \in Nat \ {0} /\ LastTick \in Nat
    BY WorkerBasics
  <1>b. /\ pc' = "none" /\ open' = {} /\ ready' = {} /\ cur' = cur /\ tick' = tick /\ late' = late
        /\ in_flight' = in_flight /\ discard' = discard /\ asked' = 0
        /\ requests' = requests /\ replies' = replies /\ at' = at /\ pending_once' = pending_once
        /\ previous' = previous /\ turn' = turn /\ launched' = launched
        /\ got' = got /\ live_workers' = live_workers
    BY <1>a DEF NotStarted, Drop, worker, match, OneTeam, Starting
  <1>1. WorkerTypes' /\ OnePlace'
    BY <1>a, <1>b DEF WorkerTypes, CallerTypes, TeamTypes, FlagTypes, OnePlace
  <1>2. OneTeam'
    BY <1>a, <1>b DEF OneTeam
  <1>3. Starting' /\ Flight' /\ Memory'
    BY <1>b DEF Starting, Flight, Memory
  <1>4. PermitsHeld' /\ live_workers' <= Permits' /\ OwnTurn'
    BY <1>b, NobodyMoved DEF OwnTurn, WorkerInv
  <1> QED
    BY <1>1, <1>2, <1>3, <1>4 DEF WorkerInv

-----------------------------------------------------------------------------
(* A tick, from the caller's side. *)

\* A team retired is not held to anything.
LEMMA TeamRetires ==
    ASSUME WorkerAssumption, WorkerInv, WorkerTypes', OnePlace', OwnTurn',
           open' = {}, asked' = 0, pc' = "idle",
           UNCHANGED <<cur, tick, launched, at, live_workers, pending_once, previous>>, ready = {}, ready' = {},
           \A t \in Teams : t > cur => requests'[t] = requests[t] /\ replies'[t] = replies[t]
    PROVE  WorkerInv'
  <1>1. OneTeam
    BY WorkerBasics
  <1>2. OneTeam'
    BY <1>1 DEF OneTeam
  <1>3. Starting' /\ Flight' /\ Memory'
    BY DEF Starting, Flight, Memory
  <1>4. PermitsHeld' /\ live_workers' <= Permits'
    BY NobodyMoved
  <1> QED
    BY <1>2, <1>3, <1>4 DEF WorkerInv

LEMMA TurnBegins ==
    ASSUME WorkerAssumption, WorkerInv, ThinkBegins
    PROVE  WorkerInv'
  <1>a. /\ WorkerTypes /\ OnePlace /\ OneTeam /\ Flight /\ Memory /\ LastTick \in Nat
        /\ tick \in Nat /\ launched \in Nat /\ asked \in Nat
    BY WorkerBasics
  <1>b. /\ pc = "idle" /\ open = {cur} /\ pc' = First /\ ready' = ready /\ cur' = cur
        /\ tick' = tick + 1 /\ tick' <= LastTick
        /\ late' = late /\ in_flight' = in_flight /\ discard' = discard /\ open' = open
        /\ requests' = requests /\ replies' = replies /\ at' = at /\ pending_once' = pending_once
        /\ previous' = previous /\ turn' = turn /\ asked' = asked
        /\ got' = got /\ live_workers' = live_workers
    BY <1>a DEF ThinkBegins, worker, match, OneTeam
  <1>c. launched' = launched \/ launched' = tick + 1
    BY DEF ThinkBegins
  <1>d. launched' \in 0 .. LastTick /\ launched <= launched' /\ launched' <= tick'
    BY <1>a, <1>b, <1>c DEF OneTeam
  <1>e. pc' \in {"drain", "send"} /\ (pc' = "drain" <=> in_flight)
    BY <1>b DEF First
  <1>1. WorkerTypes'
    <2>1. CallerTypes'
      BY <1>a, <1>b, <1>d, <1>e DEF WorkerTypes, CallerTypes
    <2>2. TeamTypes'
      BY <1>a, <1>b DEF WorkerTypes, TeamTypes
    <2>3. FlagTypes'
      BY <1>a, <1>b DEF WorkerTypes, FlagTypes
    <2> QED
      BY <2>1, <2>2, <2>3 DEF WorkerTypes
  <1>2. OnePlace'
    BY <1>a, <1>b DEF OnePlace
  <1>3. OneTeam'
    BY <1>a, <1>b, <1>d, <1>e DEF OneTeam
  <1>4. Starting'
    BY <1>e DEF Starting
  <1>5. Flight'
    BY <1>a, <1>b, <1>e DEF Flight, Waits, Works, Replied, Rests
  <1>6. Memory'
    <2>t. cur \in Teams
      BY WorkerBasics, <1>b
    <2>1. \A x \in OnceKept : OnceTrue(x) => OnceTrue(x)'
      BY <1>a, <1>d DEF OnceTrue, OnceKept
    <2>2. pending_once[cur] \in OnceKept /\ previous[cur] \in OnceKept
      BY <2>t, WorkerHolds
    <2>3. \A u \in Turn : Thought(u) => Thought(u)'
      BY <1>a, <1>b, <1>d, <1>e DEF Thought, Turn
    <2>4. requests[cur] # <<>> => Head(requests[cur]).seen <= launched'
      <3>1. requests[cur] # <<>> => Head(requests[cur]).seen <= launched
        BY <1>a, <1>b DEF Memory
      <3>2. requests[cur] # <<>> => Head(requests[cur]) \in Request
        BY <2>t, WorkerHolds
      <3>3. \A r \in Request : r.seen \in Nat
        BY <1>a DEF Request
      <3> QED
        BY <1>a, <1>d, <3>1, <3>2, <3>3
    <2>5. at[cur] = "think" => turn[cur].seen <= launched'
      <3>1. at[cur] = "think" => turn[cur].seen <= launched
        BY <1>a, <1>b DEF Memory
      <3>2. turn[cur] \in Turn
        BY <2>t, WorkerHolds
      <3>3. turn[cur].seen \in Nat
        BY <1>a, <3>2 DEF Turn
      <3> QED
        BY <1>a, <1>d, <3>1, <3>3
    <2>6. OnceTrue(pending_once[cur])' /\ (previous'[cur'] # Unkept => OnceTrue(previous[cur])')
      BY <1>a, <1>b, <2>1, <2>2 DEF Memory, OnceTrue
    <2>7. at[cur] = "reply" => Thought(turn[cur])'
      BY <1>a, <1>b, <2>t, <2>3, WorkerHolds DEF Memory, Thought
    <2>8. replies[cur] # <<>> => Thought(Head(replies[cur]))'
      BY <1>a, <1>b, <2>t, <2>3, WorkerHolds DEF Memory, Thought
    <2> QED
      BY <1>a, <1>b, <2>4, <2>5, <2>6, <2>7, <2>8 DEF Memory
  <1>7. PermitsHeld' /\ live_workers' <= Permits' /\ OwnTurn'
    BY <1>b, NobodyMoved DEF OwnTurn, WorkerInv
  <1> QED
    BY <1>1, <1>2, <1>3, <1>4, <1>5, <1>6, <1>7 DEF WorkerInv

\* What late does to the count and the team.
LEMMA CountedLate ==
    ASSUME WorkerAssumption, WorkerInv, open = {cur}, Late
    PROVE  /\ late' = late + 1 /\ late' \in 0 .. MaxLate
           /\ \/ open' = {} /\ asked' = 0
              \/ open' = open /\ asked' = asked /\ ~(late' >= MaxLate)
  <1>1. OneTeam /\ late \in Nat /\ MaxLate \in Nat \ {0}
    BY WorkerBasics
  <1>2. late < MaxLate
    BY <1>1 DEF OneTeam
  <1>3. late' = late + 1 /\ late' \in 0 .. MaxLate
    <2>1. late' = late + 1
      BY DEF Late
    <2> QED
      BY ONLY <1>1, <1>2, <2>1
  <1>4. CASE late + 1 >= MaxLate
    <2>1. open' = open \ {cur} /\ asked' = 0
      BY <1>4 DEF Late, Retired
    <2> QED
      BY <1>3, <2>1
  <1>5. CASE ~(late + 1 >= MaxLate)
    BY <1>3, <1>5 DEF Late
  <1> QED
    BY <1>3, <1>4, <1>5

LEMMA TurnLate ==
    ASSUME WorkerAssumption, WorkerInv, OutOfTime
    PROVE  WorkerInv'
  <1>a. /\ WorkerTypes /\ OnePlace /\ OneTeam /\ Flight /\ Memory
        /\ LastTick \in Nat
    BY WorkerBasics
  <1>b. /\ pc \in {"drain", "send"} /\ open = {cur} /\ pc' = "idle" /\ ready = {} /\ ready' = {}
        /\ cur' = cur /\ tick' = tick /\ launched' = launched
        /\ in_flight' = in_flight /\ discard' = discard
        /\ requests' = requests /\ replies' = replies /\ at' = at /\ pending_once' = pending_once
        /\ previous' = previous /\ turn' = turn
        /\ got' = got /\ live_workers' = live_workers
    BY <1>a DEF OutOfTime, worker, OneTeam
  <1>c. /\ late' = late + 1 /\ late' \in 0 .. MaxLate
        /\ \/ open' = {} /\ asked' = 0
           \/ open' = open /\ asked' = asked /\ ~(late' >= MaxLate)
    BY <1>b, CountedLate DEF OutOfTime
  <1>1. WorkerTypes'
    <2>1. CallerTypes'
      BY <1>a, <1>b, <1>c DEF WorkerTypes, CallerTypes
    <2>2. TeamTypes'
      BY <1>a, <1>b DEF WorkerTypes, TeamTypes
    <2>3. FlagTypes'
      BY <1>a, <1>b DEF WorkerTypes, FlagTypes
    <2> QED
      BY <2>1, <2>2, <2>3 DEF WorkerTypes
  <1>2. OnePlace'
    BY <1>a, <1>b DEF OnePlace
  <1>3. OwnTurn'
    BY <1>b DEF OwnTurn, WorkerInv
  <1>4. CASE open' = {} /\ asked' = 0
    BY <1>b, <1>1, <1>2, <1>3, <1>4, TeamRetires
  <1>5. CASE open' = open /\ asked' = asked /\ ~(late' >= MaxLate)
    <2>1. OneTeam'
      BY <1>a, <1>b, <1>5 DEF OneTeam
    <2>2. Starting'
      BY <1>b DEF Starting
    <2>3. Flight'
      BY <1>a, <1>b, <1>5 DEF Flight, Waits, Works, Replied, Rests
    <2>4. \A u : Thought(u) => Thought(u)'
      BY <1>b, <1>5 DEF Thought
    <2>5. \A x : OnceTrue(x) => OnceTrue(x)'
      BY <1>b DEF OnceTrue
    <2>6. OnceTrue(pending_once[cur])' /\ (previous'[cur'] # Unkept => OnceTrue(previous[cur])')
      BY <1>a, <1>b, <2>5 DEF Memory, OnceTrue
    <2>7. at[cur] = "reply" => Thought(turn[cur])'
      BY <1>a, <1>b, <2>4 DEF Memory, Thought
    <2>8. replies[cur] # <<>> => Thought(Head(replies[cur]))'
      BY <1>a, <1>b, <2>4 DEF Memory, Thought
    <2>9. Memory'
      BY <1>a, <1>b, <1>5, <2>6, <2>7, <2>8 DEF Memory
    <2>10. PermitsHeld' /\ live_workers' <= Permits'
      BY <1>b, NobodyMoved
    <2> QED
      BY <1>1, <1>2, <1>3, <2>1, <2>2, <2>3, <2>9, <2>10 DEF WorkerInv
  <1> QED
    BY <1>c, <1>4, <1>5

\* What is read leaves the channel empty, and the others' as they were.
LEMMA ReplyRead ==
    ASSUME WorkerAssumption, WorkerInv, cur \in Teams, replies[cur] # <<>>,
           replies' = [replies EXCEPT ![cur] = Tail(@)]
    PROVE  /\ replies' \in [Teams -> Seq(Turn)]
           /\ replies'[cur] = <<>> /\ \A t \in Teams : t # cur => replies'[t] = replies[t]
           /\ \A t \in Teams : Len(replies'[t]) <= 1
  <1>1. WorkerTypes /\ OnePlace
    BY WorkerBasics
  <1>2. Tail(replies[cur]) = <<>> /\ replies \in [Teams -> Seq(Turn)]
    BY <1>1, WorkerHolds DEF WorkerTypes, TeamTypes
  <1>3. replies' = [replies EXCEPT ![cur] = <<>>]
    BY <1>2
  <1>4. replies'[cur] = <<>> /\ \A t \in Teams : t # cur => replies'[t] = replies[t]
    BY <1>2, <1>3
  <1>5. replies' \in [Teams -> Seq(Turn)]
    BY <1>2, <1>3
  <1>6. Len(<<>>) = 0
    OBVIOUS
  <1>7. \A t \in Teams : Len(replies'[t]) <= 1
    BY <1>1, <1>4, <1>6 DEF OnePlace
  <1> QED
    BY <1>4, <1>5, <1>7

\* A reply that waits is the only thing in flight.
LEMMA ReplyWaits ==
    ASSUME WorkerAssumption, WorkerInv, pc \in {"drain", "wait"}, replies[cur] # <<>>
    PROVE  /\ open = {cur} /\ cur \in Teams /\ ready = {} /\ requests[cur] = <<>>
           /\ ~Head(replies[cur]).bad => at[cur] = "recv"
           /\ previous[cur] # Unkept /\ previous[cur].tick = asked
           /\ Thought(Head(replies[cur]))
           /\ pc = "wait" => Head(replies[cur]).tick = tick
           /\ discard <=> pc # "wait"
           /\ OnceTrue(pending_once[cur]) /\ OnceTrue(previous[cur])
  <1>1. OneTeam /\ Flight /\ Memory
    BY WorkerBasics
  <1>2. open = {cur} /\ ready = {} /\ in_flight
    BY <1>1 DEF OneTeam, Flight
  <1>3. cur \in Teams
    BY <1>2, WorkerBasics
  <1>4. Replied(cur) /\ (discard <=> pc # "wait") /\ (pc = "wait" => Head(replies[cur]).tick = tick)
    BY <1>1, <1>2 DEF Flight, Waits, Works
  <1>5. requests[cur] = <<>> /\ (~Head(replies[cur]).bad => at[cur] = "recv")
    BY <1>4 DEF Replied
  <1>6. /\ previous[cur] # Unkept /\ previous[cur].tick = asked
        /\ Thought(Head(replies[cur]))
        /\ OnceTrue(pending_once[cur]) /\ OnceTrue(previous[cur])
    BY <1>1, <1>2 DEF Memory
  <1> QED
    BY <1>2, <1>3, <1>4, <1>5, <1>6

\* After a turn was read, taken or thrown away, the worker waits for the next
\* request and remembers what went out, or will be told to go back to it.
LEMMA TurnRead ==
    ASSUME WorkerAssumption, WorkerInv, pc \in {"drain", "wait"}, replies[cur] # <<>>,
           ~Head(replies[cur]).bad, replies' = [replies EXCEPT ![cur] = Tail(@)],
           in_flight' = FALSE, pc' \in {"idle", "send"}, open' = open, FlagTypes',
           asked' \in 0 .. LastTick, late' \in 0 .. MaxLate, ~(late' >= MaxLate), OwnTurn',
           \/ discard' /\ asked' = asked
           \/ ~discard' /\ asked' = pending_once[cur].tick,
           UNCHANGED <<cur, tick, launched, ready, requests, at, pending_once, previous, turn, live_workers>>
    PROVE  WorkerInv'
  <1>a. WorkerTypes /\ OnePlace /\ OneTeam
    BY WorkerBasics
  <1>b. /\ open = {cur} /\ cur \in Teams /\ ready = {} /\ requests[cur] = <<>>
        /\ at[cur] = "recv" /\ previous[cur] # Unkept /\ previous[cur].tick = asked
        /\ OnceTrue(pending_once[cur]) /\ OnceTrue(previous[cur])
    BY ReplyWaits
  <1>c. /\ replies' \in [Teams -> Seq(Turn)]
        /\ replies'[cur] = <<>> /\ \A t \in Teams : t # cur => replies'[t] = replies[t]
        /\ \A t \in Teams : Len(replies'[t]) <= 1
    BY <1>b, ReplyRead
  <1>d. \A t \in Teams : t > cur => t # cur
    BY WorkerBasics
  <1>1. WorkerTypes'
    <2>1. CallerTypes'
      BY <1>a DEF WorkerTypes, CallerTypes
    <2>2. TeamTypes'
      BY <1>a, <1>c DEF WorkerTypes, TeamTypes
    <2> QED
      BY <2>1, <2>2 DEF WorkerTypes
  <1>2. OnePlace'
    BY <1>a, <1>c DEF OnePlace
  <1>3. OneTeam'
    BY <1>a, <1>b, <1>c, <1>d DEF OneTeam
  <1>4. Starting'
    BY DEF Starting
  <1>5. Flight'
    BY <1>b, <1>c DEF Flight, Rests
  <1>6. Memory'
    BY <1>b, <1>c DEF Memory, OnceTrue
  <1>7. PermitsHeld' /\ live_workers' <= Permits'
    BY NobodyMoved
  <1> QED
    BY <1>1, <1>2, <1>3, <1>4, <1>5, <1>6, <1>7 DEF WorkerInv

\* A reply read of a team that is then retired: it was an error, or late once too
\* often.
LEMMA LastRead ==
    ASSUME WorkerAssumption, WorkerInv, pc \in {"drain", "wait"},
           \/ replies' = replies
           \/ replies[cur] # <<>> /\ replies' = [replies EXCEPT ![cur] = Tail(@)],
           FlagTypes', pc' = "idle", open' = {}, asked' = 0, late' \in 0 .. MaxLate, OwnTurn',
           UNCHANGED <<cur, tick, launched, ready, requests, at, pending_once, previous, turn, live_workers>>
    PROVE  WorkerInv'
  <1>a. WorkerTypes /\ OnePlace /\ OneTeam /\ LastTick \in Nat
    BY WorkerBasics
  <1>b. open = {cur} /\ ready = {}
    BY <1>a DEF OneTeam
  <1>c. cur \in Teams
    BY <1>b, WorkerBasics
  <1>d. \A t \in Teams : t > cur => t # cur
    BY WorkerBasics
  <1>e. /\ replies' \in [Teams -> Seq(Turn)]
        /\ \A t \in Teams : t # cur => replies'[t] = replies[t]
        /\ \A t \in Teams : Len(replies'[t]) <= 1
    <2>1. CASE replies' = replies
      BY <1>a, <2>1 DEF WorkerTypes, TeamTypes, OnePlace
    <2>2. CASE replies[cur] # <<>> /\ replies' = [replies EXCEPT ![cur] = Tail(@)]
      BY <1>c, <2>2, ReplyRead
    <2> QED
      BY <2>1, <2>2
  <1>1. WorkerTypes'
    <2>1. CallerTypes'
      BY <1>a DEF WorkerTypes, CallerTypes
    <2>2. TeamTypes'
      BY <1>a, <1>e DEF WorkerTypes, TeamTypes
    <2> QED
      BY <2>1, <2>2 DEF WorkerTypes
  <1>2. OnePlace'
    BY <1>a, <1>e DEF OnePlace
  <1> QED
    BY <1>b, <1>d, <1>e, <1>1, <1>2, TeamRetires

LEMMA TurnDrained ==
    ASSUME WorkerAssumption, WorkerInv, Drain \/ Refused
    PROVE  WorkerInv'
  <1>a. WorkerTypes /\ OneTeam /\ late \in Nat /\ MaxLate \in Nat \ {0} /\ LastTick \in Nat
    BY WorkerBasics
  <1>b. /\ pc \in {"drain", "wait"} /\ replies[cur] # <<>> /\ in_flight' = FALSE
        /\ replies' = [replies EXCEPT ![cur] = Tail(@)] /\ late' = late /\ discard' = discard
        /\ UNCHANGED <<cur, tick, launched, ready, requests, at, pending_once, previous, turn, live_workers>>
        /\ got' = got
    BY DEF Drain, Refused, Received, worker
  <1>c. \/ Head(replies[cur]).bad /\ pc' = "idle" /\ open' = open \ {cur} /\ asked' = 0
        \/ ~Head(replies[cur]).bad /\ pc = "drain" /\ pc' = "send" /\ open' = open /\ asked' = asked
    BY DEF Drain, Refused, Received, Retired
  <1>d. open = {cur} /\ (discard <=> pc # "wait")
    BY <1>b, ReplyWaits
  <1>e. FlagTypes'
    <2>1. discard \in BOOLEAN
      BY <1>a DEF WorkerTypes, FlagTypes
    <2> QED
      BY ONLY <1>b, <2>1 DEF FlagTypes
  <1>f. OwnTurn'
    BY <1>b DEF OwnTurn, WorkerInv
  <1>g. late' \in 0 .. MaxLate /\ ~(late' >= MaxLate) /\ asked \in 0 .. LastTick
    BY <1>a, <1>b, <1>d DEF WorkerTypes, CallerTypes, OneTeam
  <1>1. CASE Head(replies[cur]).bad /\ pc' = "idle" /\ open' = open \ {cur} /\ asked' = 0
    <2>1. open' = {}
      BY <1>d, <1>1
    <2> QED
      BY <1>b, <1>e, <1>f, <1>g, <1>1, <2>1, LastRead
  <1>2. CASE ~Head(replies[cur]).bad /\ pc = "drain" /\ pc' = "send" /\ open' = open /\ asked' = asked
    <2>1. discard'
      BY <1>b, <1>d, <1>2
    <2> QED
      BY <1>b, <1>e, <1>f, <1>g, <1>2, <2>1, TurnRead
  <1> QED
    BY <1>c, <1>1, <1>2

LEMMA TurnTaken ==
    ASSUME WorkerAssumption, WorkerInv, Accept
    PROVE  WorkerInv'
  <1>a. MaxLate \in Nat \ {0} /\ LastTick \in Nat
    BY WorkerBasics
  <1>b. /\ pc = "wait" /\ replies[cur] # <<>> /\ ~Head(replies[cur]).bad /\ in_flight' = FALSE
        /\ replies' = [replies EXCEPT ![cur] = Tail(@)] /\ late' = 0 /\ discard' = discard
        /\ UNCHANGED <<cur, tick, launched, ready, requests, at, pending_once, previous, turn, live_workers>>
        /\ pc' = "idle" /\ open' = open /\ got' = [of |-> Head(replies[cur]).tick, at |-> tick]
        /\ asked' = AskedAfter(Head(replies[cur]).orders)
    BY DEF Accept, worker
  <1>c. /\ cur \in Teams /\ Head(replies[cur]).tick = tick /\ Thought(Head(replies[cur]))
        /\ (discard <=> pc # "wait")
    BY <1>b, ReplyWaits
  <1>d. asked' = pending_once[cur].tick
    BY <1>b, <1>c DEF Thought
  <1>e. asked' \in 0 .. LastTick
    BY <1>c, <1>d, WorkerHolds DEF OnceKept
  <1>f. FlagTypes' /\ ~discard'
    <2>1. discard \in BOOLEAN
      BY WorkerBasics DEF WorkerTypes, FlagTypes
    <2>2. ~discard'
      BY <1>b, <1>c
    <2> QED
      BY ONLY <1>b, <2>1, <2>2 DEF FlagTypes
  <1>g. OwnTurn'
    BY <1>b, <1>c DEF OwnTurn
  <1>h. late' \in 0 .. MaxLate /\ ~(late' >= MaxLate)
    BY <1>a, <1>b
  <1> QED
    BY <1>b, <1>d, <1>e, <1>f, <1>g, <1>h, TurnRead

LEMMA TurnMissed ==
    ASSUME WorkerAssumption, WorkerInv, NEW read \in BOOLEAN, Miss(read)
    PROVE  WorkerInv'
  <1>a. /\ WorkerTypes /\ OnePlace /\ OneTeam /\ Flight /\ Memory /\ LastTick \in Nat
    BY WorkerBasics
  <1>b. /\ pc = "wait" /\ discard' = TRUE /\ pc' = "idle" /\ Late
        /\ UNCHANGED <<cur, tick, launched, ready, requests, at, pending_once, previous, turn, live_workers>>
        /\ got' = got
    BY DEF Miss, Missed, worker
  <1>c. \/ /\ read /\ replies[cur] # <<>> /\ ~Head(replies[cur]).bad /\ in_flight' = FALSE
           /\ replies' = [replies EXCEPT ![cur] = Tail(@)]
        \/ ~read /\ replies' = replies /\ in_flight' = TRUE
    BY DEF Miss
  <1>d. open = {cur} /\ ready = {}
    BY <1>a, <1>b DEF OneTeam
  <1>e. /\ late' \in 0 .. MaxLate
        /\ \/ open' = {} /\ asked' = 0
           \/ open' = open /\ asked' = asked /\ ~(late' >= MaxLate)
    BY <1>b, <1>d, CountedLate
  <1>f. FlagTypes'
    <2>1. in_flight' \in BOOLEAN
      BY <1>c
    <2> QED
      BY ONLY <1>b, <2>1 DEF FlagTypes
  <1>g. OwnTurn'
    BY <1>b DEF OwnTurn, WorkerInv
  <1>1. CASE open' = {} /\ asked' = 0
    BY <1>b, <1>c, <1>e, <1>f, <1>g, <1>1, LastRead
  <1>2. CASE read /\ open' = open /\ asked' = asked /\ ~(late' >= MaxLate)
    <2>1. asked' \in 0 .. LastTick
      BY <1>a, <1>2 DEF WorkerTypes, CallerTypes
    <2> QED
      BY <1>b, <1>c, <1>e, <1>f, <1>g, <1>2, <2>1, TurnRead
  <1>3. CASE ~read /\ open' = open /\ asked' = asked /\ ~(late' >= MaxLate)
    <2>a. replies' = replies /\ in_flight' /\ in_flight
      BY <1>a, <1>b, <1>c, <1>3 DEF Flight
    <2>1. WorkerTypes'
      <3>1. CallerTypes'
        BY <1>a, <1>b, <1>d, <1>e, <1>3 DEF WorkerTypes, CallerTypes
      <3>2. TeamTypes'
        BY <1>a, <1>b, <2>a DEF WorkerTypes, TeamTypes
      <3> QED
        BY <1>f, <3>1, <3>2 DEF WorkerTypes
    <2>2. OnePlace'
      BY <1>a, <1>b, <2>a DEF OnePlace
    <2>3. OneTeam'
      BY <1>a, <1>b, <1>d, <1>3, <2>a DEF OneTeam
    <2>4. Starting'
      BY <1>b DEF Starting
    <2>5. Flight'
      BY <1>a, <1>b, <1>d, <1>3, <2>a DEF Flight, Waits, Works, Replied, Rests
    <2>6. OnceTrue(pending_once[cur])' /\ (previous'[cur'] # Unkept => OnceTrue(previous[cur])')
      BY <1>a, <1>b, <1>d DEF Memory, OnceTrue
    <2>7. at[cur] = "reply" => Thought(turn[cur])'
      BY <1>a, <1>b, <1>d, <1>3 DEF Memory, Thought
    <2>8. replies[cur] # <<>> => Thought(Head(replies[cur]))'
      BY <1>a, <1>b, <1>d, <1>3, <2>a DEF Memory, Thought
    <2>9. Memory'
      BY <1>a, <1>b, <1>d, <1>3, <2>a, <2>6, <2>7, <2>8 DEF Memory
    <2>10. PermitsHeld' /\ live_workers' <= Permits'
      BY <1>b, NobodyMoved
    <2> QED
      BY <1>g, <2>1, <2>2, <2>3, <2>4, <2>5, <2>9, <2>10 DEF WorkerInv
  <1> QED
    BY <1>c, <1>e, <1>1, <1>2, <1>3

LEMMA TurnSent ==
    ASSUME WorkerAssumption, WorkerInv, SendRequest
    PROVE  WorkerInv'
  <1>a. /\ WorkerTypes /\ OnePlace /\ OneTeam /\ Flight /\ Memory /\ LastTick \in Nat
        /\ launched \in Nat /\ MaxLate \in Nat \ {0}
    BY WorkerBasics
  <1>b. /\ pc = "send" /\ open = {cur} /\ ready = {} /\ ~in_flight /\ Rests(cur)
    BY <1>a DEF SendRequest, OneTeam, Flight
  <1>c. cur \in Teams
    BY <1>b, WorkerBasics
  <1> DEFINE r == [tick |-> tick, seen |-> launched, discarded |-> discard]
  <1>d. at[cur] # "gone" /\ requests[cur] = <<>> /\ at[cur] = "recv" /\ replies[cur] = <<>>
    BY <1>b DEF Rests
  <1>e. /\ pc' = "wait" /\ requests' = [requests EXCEPT ![cur] = <<r>>]
        /\ discard' = FALSE /\ in_flight' = TRUE /\ open' = open /\ asked' = asked
        /\ UNCHANGED <<cur, tick, late, ready, replies, at, pending_once, previous, turn, launched,
                       live_workers>>
        /\ got' = got
    BY <1>d DEF SendRequest, worker
  <1>f. r \in Request
    <2>1. discard \in BOOLEAN
      BY <1>a DEF WorkerTypes, FlagTypes
    <2>2. tick \in 0 .. LastTick /\ launched \in 0 .. LastTick
      BY <1>a DEF WorkerTypes, CallerTypes
    <2> QED
      BY <2>1, <2>2 DEF Request
  <1>g. r.tick = tick /\ r.seen = launched /\ r.discarded = discard
    OBVIOUS
  <1> HIDE DEF r
  <1>h. <<r>> \in Seq(Request) /\ Len(<<r>>) = 1 /\ Head(<<r>>) = r /\ <<r>> # <<>>
    BY <1>f
  <1>i. /\ requests'[cur] = <<r>> /\ \A t \in Teams : t # cur => requests'[t] = requests[t]
        /\ requests' \in [Teams -> Seq(Request)]
    BY <1>a, <1>c, <1>e, <1>h DEF WorkerTypes, TeamTypes
  <1>j. \A t \in Teams : t > cur => t # cur
    BY WorkerBasics
  <1>k. requests'[cur] # <<>> /\ Head(requests'[cur]) = r
    BY <1>h, <1>i
  <1>1. WorkerTypes'
    <2>1. CallerTypes'
      BY <1>a, <1>e DEF WorkerTypes, CallerTypes
    <2>2. TeamTypes'
      BY <1>a, <1>e, <1>i DEF WorkerTypes, TeamTypes
    <2>3. FlagTypes'
      BY ONLY <1>e DEF FlagTypes
    <2> QED
      BY <2>1, <2>2, <2>3 DEF WorkerTypes
  <1>2. OnePlace'
    BY <1>a, <1>e, <1>h, <1>i DEF OnePlace
  <1>3. OneTeam'
    BY <1>a, <1>b, <1>e, <1>i, <1>j DEF OneTeam
  <1>4. Starting'
    BY <1>e DEF Starting
  <1>5. Flight'
    BY <1>b, <1>d, <1>e, <1>g, <1>k DEF Flight, Waits
  <1>6. Memory'
    <2>1. OnceTrue(pending_once[cur])' /\ (previous'[cur'] # Unkept => OnceTrue(previous[cur])')
      BY <1>a, <1>b, <1>e DEF Memory, OnceTrue
    <2>2. discard => previous[cur] # Unkept /\ previous[cur].tick = asked
      BY <1>a, <1>b DEF Memory
    <2>3. ~discard => pending_once[cur].tick = asked
      BY <1>a, <1>b DEF Memory
    <2>4. r.seen <= launched
      BY <1>a, <1>g
    <2> QED
      BY <1>d, <1>e, <1>g, <1>k, <2>1, <2>2, <2>3, <2>4 DEF Memory
  <1>7. PermitsHeld' /\ live_workers' <= Permits' /\ OwnTurn'
    BY <1>e, NobodyMoved DEF OwnTurn, WorkerInv
  <1> QED
    BY <1>1, <1>2, <1>3, <1>4, <1>5, <1>6, <1>7 DEF WorkerInv

-----------------------------------------------------------------------------
(* The worker's side. *)

\* A worker whose team was let go touches nothing the caller still holds.
LEMMA StrangerMoves ==
    ASSUME WorkerAssumption, WorkerInv, NEW t \in Teams, t \notin open,
           at[t] \notin {"unborn", "gone"}, at'[t] # "unborn",
           TeamTypes', OnePlace', PermitsHeld', live_workers' <= Permits,
           \A s \in Teams : s # t =>
               /\ at'[s] = at[s] /\ requests'[s] = requests[s] /\ replies'[s] = replies[s]
               /\ pending_once'[s] = pending_once[s] /\ previous'[s] = previous[s] /\ turn'[s] = turn[s],
           UNCHANGED <<caller, open, ready, match>>
    PROVE  WorkerInv'
  <1>a. /\ WorkerTypes /\ OneTeam /\ Starting /\ Flight /\ Memory
        /\ cur \in Nat /\ Teams \subseteq Nat \ {0}
    BY WorkerBasics
  <1>b. UNCHANGED <<pc, cur, tick, late, in_flight, discard, open, ready, launched, asked, got>>
    BY DEF caller, match
  <1>c. open # {} => open = {cur} /\ cur \in Teams /\ cur # t
    BY WorkerBasics
  <1>d. open # {} =>
          /\ at'[cur] = at[cur] /\ requests'[cur] = requests[cur] /\ replies'[cur] = replies[cur]
          /\ pending_once'[cur] = pending_once[cur] /\ previous'[cur] = previous[cur]
          /\ turn'[cur] = turn[cur]
    BY <1>c
  <1>e. pc \notin {"none", "idle"} => open # {}
    BY <1>a DEF OneTeam
  <1>1. WorkerTypes'
    <2>1. CallerTypes' /\ FlagTypes'
      BY <1>a, <1>b DEF WorkerTypes, CallerTypes, FlagTypes
    <2> QED
      BY <2>1 DEF WorkerTypes
  <1>2. OneTeam'
    <2>1. ~(t > cur)
      BY <1>a DEF OneTeam
    <2>2. \A s \in Teams : s > cur => s # t
      BY <2>1
    <2>3. \A s \in Teams : at'[s] = "unborn" <=> s > cur
      BY <1>a, <2>1 DEF OneTeam
    <2>4. \A s \in Teams : s > cur => /\ requests'[s] = <<>> /\ replies'[s] = <<>>
                                      /\ pending_once'[s] = Nothing /\ previous'[s] = Unkept
      BY <1>a, <2>2 DEF OneTeam
    <2> QED
      BY <1>a, <1>b, <2>3, <2>4 DEF OneTeam
  <1>3. Starting'
    BY <1>a, <1>b, <1>d, <1>e DEF Starting
  <1>4. Flight'
    BY <1>a, <1>b, <1>d, <1>e DEF Flight, Waits, Works, Replied, Rests
  <1>5. Memory'
    <2> SUFFICES ASSUME open # {} PROVE Memory'
      BY <1>b DEF Memory
    <2>1. OnceTrue(pending_once[cur])' /\ (previous'[cur'] # Unkept => OnceTrue(previous[cur])')
      BY <1>a, <1>b, <1>d DEF Memory, OnceTrue
    <2>2. at[cur] = "reply" => Thought(turn[cur])'
      BY <1>a, <1>b, <1>d DEF Memory, Thought, AskedAfter
    <2>3. replies[cur] # <<>> => Thought(Head(replies[cur]))'
      BY <1>a, <1>b, <1>d DEF Memory, Thought, AskedAfter
    <2> QED
      BY <1>a, <1>b, <1>d, <2>1, <2>2, <2>3 DEF Memory
  <1>6. OwnTurn'
    BY <1>b DEF OwnTurn, WorkerInv
  <1> QED
    BY <1>1, <1>2, <1>3, <1>4, <1>5, <1>6 DEF WorkerInv

\* The worker of the caller's team moves: what is left to show is about it alone.
LEMMA OwnMoves ==
    ASSUME WorkerAssumption, WorkerInv, open = {cur},
           at[cur] \notin {"unborn", "gone"}, at'[cur] # "unborn",
           TeamTypes', OnePlace', PermitsHeld', live_workers' <= Permits,
           \A s \in Teams : s # cur =>
               /\ at'[s] = at[s] /\ requests'[s] = requests[s] /\ replies'[s] = replies[s]
               /\ pending_once'[s] = pending_once[s] /\ previous'[s] = previous[s],
           UNCHANGED <<caller, open, match>>,
           ready' = ready \/ (pc = "starting" /\ ready' = {cur}),
           Starting', Flight', Memory'
    PROVE  WorkerInv'
  <1>a. /\ WorkerTypes /\ OneTeam /\ cur \in Teams /\ cur \in Nat /\ Teams \subseteq Nat \ {0}
    BY WorkerBasics
  <1>b. UNCHANGED <<pc, cur, tick, late, in_flight, discard, open, launched, asked, got>>
    BY DEF caller, match
  <1>1. WorkerTypes'
    <2>1. CallerTypes'
      BY <1>a, <1>b DEF WorkerTypes, CallerTypes
    <2>2. FlagTypes'
      BY <1>a, <1>b DEF WorkerTypes, FlagTypes
    <2> QED
      BY <2>1, <2>2 DEF WorkerTypes
  <1>2. OneTeam'
    <2>1. \A s \in Teams : s > cur => s # cur
      BY <1>a
    <2>2. \A s \in Teams : at'[s] = "unborn" <=> s > cur
      BY <1>a, <2>1 DEF OneTeam
    <2>3. \A s \in Teams : s > cur => /\ requests'[s] = <<>> /\ replies'[s] = <<>>
                                      /\ pending_once'[s] = Nothing /\ previous'[s] = Unkept
      BY <1>a, <2>1 DEF OneTeam
    <2> QED
      BY <1>a, <1>b, <2>2, <2>3 DEF OneTeam
  <1>3. OwnTurn'
    BY <1>b DEF OwnTurn, WorkerInv
  <1> QED
    BY <1>1, <1>2, <1>3 DEF WorkerInv

LEMMA WorkerBuilds ==
    ASSUME WorkerAssumption, WorkerInv, NEW t \in Teams, Build(t)
    PROVE  WorkerInv'
  <1>a. /\ WorkerTypes /\ OnePlace /\ OneTeam /\ Starting /\ Flight /\ Memory
        /\ open = {} \/ (open = {cur} /\ cur \in Teams)
    BY WorkerBasics
  <1>b. /\ at[t] = "build" /\ UNCHANGED <<caller, open, match, requests, replies, pending_once, previous, turn>>
    BY DEF Build
  <1>c. UNCHANGED <<pc, cur, tick, late, in_flight, discard, open, launched, asked, got>>
    BY <1>b DEF caller, match
  <1>d. OnePlace'
    BY <1>a, <1>b DEF OnePlace
  <1>1. CASE pc = "starting" /\ t = cur /\ t \in open /\ at' = [at EXCEPT ![t] = "recv"]
             /\ ready' = ready \cup {t} /\ UNCHANGED live_workers
    <2>1. at'[cur] = "recv" /\ \A s \in Teams : s # cur => at'[s] = at[s]
      BY <1>a, <1>1 DEF WorkerTypes, TeamTypes
    <2>2. TeamTypes'
      BY <1>a, <1>b, <1>1 DEF WorkerTypes, TeamTypes
    <2>3. PermitsHeld' /\ live_workers' <= Permits
      BY <1>b, <1>1, AllRunOn
    <2>4. open = {cur} /\ ready' = {cur}
      BY <1>a, <1>1 DEF OneTeam
    <2>5. Starting'
      BY <1>a, <1>b, <1>c, <1>1, <2>1, <2>4 DEF Starting
    <2>6. Flight'
      BY <1>a, <1>b, <1>c, <1>1 DEF Flight, Starting
    <2>7. Memory'
      BY <1>a, <1>b, <1>c, <1>1, <2>1, <2>4 DEF Memory, Starting, OnceTrue, Nothing
    <2> QED
      BY <1>b, <1>d, <1>1, <2>1, <2>2, <2>3, <2>4, <2>5, <2>6, <2>7, OwnMoves
  <1>2. CASE Ends(t) /\ UNCHANGED ready
    <2>1. at'[t] = "gone" /\ \A s \in Teams : s # t => at'[s] = at[s]
      BY <1>a, <1>2 DEF WorkerTypes, TeamTypes, Ends
    <2>2. TeamTypes'
      BY <1>a, <1>b, <1>2 DEF WorkerTypes, TeamTypes, Ends
    <2>3. PermitsHeld' /\ live_workers' <= Permits
      BY <1>b, <1>2, OneRunsLess
    <2>4. CASE t \notin open
      BY <1>b, <1>d, <1>2, <2>1, <2>2, <2>3, <2>4, StrangerMoves
    <2>5. CASE t \in open
      <3>1. open = {cur} /\ t = cur
        BY <1>a, <2>5
      <3>2. pc = "starting"
        BY <1>a, <1>b, <3>1 DEF Flight, Waits, Works, Replied, Rests
      <3>3. ready = {}
        BY <1>a, <1>b, <3>1, <3>2 DEF Starting, OneTeam
      <3>4. Starting'
        BY <1>a, <1>b, <1>c, <1>2, <2>1, <3>1, <3>2, <3>3 DEF Starting
      <3>5. Flight'
        BY <1>a, <1>b, <1>c, <3>2 DEF Flight, Starting
      <3>6. Memory'
        BY <1>a, <1>b, <1>c, <2>1, <3>1, <3>2 DEF Memory, Starting, OnceTrue, Nothing
      <3> QED
        BY <1>b, <1>d, <1>2, <2>1, <2>2, <2>3, <3>1, <3>4, <3>5, <3>6, OwnMoves
    <2> QED
      BY <2>4, <2>5
  <1> QED
    BY <1>1, <1>2 DEF Build

LEMMA WorkerTakes ==
    ASSUME WorkerAssumption, WorkerInv, NEW t \in Teams, Recv(t)
    PROVE  WorkerInv'
  <1>a. /\ WorkerTypes /\ OnePlace /\ OneTeam /\ Starting /\ Flight /\ Memory
        /\ open = {} \/ (open = {cur} /\ cur \in Teams)
    BY WorkerBasics
  <1>b. /\ at[t] = "recv" /\ UNCHANGED <<caller, open, ready, match, replies>>
    BY DEF Recv
  <1>c. UNCHANGED <<pc, cur, tick, late, in_flight, discard, open, launched, asked, got>>
    BY <1>b DEF caller, match
  <1>1. CASE Closed(t) /\ Ends(t) /\ UNCHANGED <<pending_once, previous, turn, requests>>
    <2>1. at'[t] = "gone" /\ \A s \in Teams : s # t => at'[s] = at[s]
      BY <1>a, <1>1 DEF WorkerTypes, TeamTypes, Ends
    <2>2. TeamTypes' /\ OnePlace'
      BY <1>a, <1>b, <1>1 DEF WorkerTypes, TeamTypes, Ends, OnePlace
    <2>3. PermitsHeld' /\ live_workers' <= Permits
      BY <1>b, <1>1, OneRunsLess
    <2> QED
      BY <1>b, <1>1, <2>1, <2>2, <2>3, StrangerMoves DEF Closed
  <1>2. CASE requests[t] # <<>> /\ live_workers' = live_workers
    <2> DEFINE r == Head(requests[t])
               p == Restored(t)
               u == [NoTurn EXCEPT !.tick = r.tick, !.seen = r.seen]
    <2>a. /\ at' = [at EXCEPT ![t] = "think"] /\ pending_once' = [pending_once EXCEPT ![t] = p]
          /\ previous' = [previous EXCEPT ![t] = p] /\ turn' = [turn EXCEPT ![t] = u]
          /\ requests' = [requests EXCEPT ![t] = Tail(@)]
      BY <1>2 DEF Recv, Closed
    <2>b. /\ r \in Request /\ Tail(requests[t]) = <<>> /\ pending_once[t] \in OnceKept
          /\ previous[t] \in OnceKept
      BY <1>2, WorkerHolds
    <2>c. p \in OnceKept
      BY <2>b DEF Restored
    <2>d. /\ u \in Turn /\ u.tick = r.tick /\ u.seen = r.seen /\ ~u.bad /\ ~u.ends /\ u.orders = <<>>
      <3>1. r.tick \in 0 .. LastTick /\ r.seen \in 0 .. LastTick
        BY <2>b DEF Request
      <3>2. NoTurn \in Turn
        BY WorkerBasics DEF NoTurn, Turn
      <3> HIDE DEF r
      <3>3. u \in Turn
        BY <3>1, <3>2 DEF Turn
      <3>4. u.tick = r.tick /\ u.seen = r.seen /\ u.orders = <<>> /\ u.ends = FALSE /\ u.bad = FALSE
        BY DEF NoTurn
      <3> QED
        BY <3>3, <3>4
    <2>e. p = IF previous[t] # Unkept /\ r.discarded THEN previous[t] ELSE pending_once[t]
      BY DEF Restored
    <2> HIDE DEF r, p, u
    <2>1. /\ at'[t] = "think" /\ pending_once'[t] = p /\ previous'[t] = p /\ turn'[t] = u
          /\ requests'[t] = <<>>
          /\ \A s \in Teams : s # t =>
               /\ at'[s] = at[s] /\ requests'[s] = requests[s] /\ replies'[s] = replies[s]
               /\ pending_once'[s] = pending_once[s] /\ previous'[s] = previous[s] /\ turn'[s] = turn[s]
      BY <1>a, <1>b, <2>a, <2>b DEF WorkerTypes, TeamTypes
    <2>2. TeamTypes'
      <3>1. requests' = [requests EXCEPT ![t] = <<>>]
        BY <2>a, <2>b
      <3>2. requests' \in [Teams -> Seq(Request)]
        BY <1>a, <3>1 DEF WorkerTypes, TeamTypes
      <3> QED
        BY <1>a, <1>b, <2>a, <2>c, <2>d, <3>2 DEF WorkerTypes, TeamTypes
    <2>3. OnePlace'
      <3>1. Len(<<>>) = 0
        OBVIOUS
      <3> QED
        BY <1>a, <1>b, <2>1, <3>1 DEF OnePlace
    <2>4. PermitsHeld' /\ live_workers' <= Permits
      BY <1>b, <1>2, <2>a, AllRunOn
    <2>5. CASE t \notin open
      BY <1>b, <2>1, <2>2, <2>3, <2>4, <2>5, StrangerMoves
    <2>6. CASE t \in open
      <3>1. open = {cur} /\ t = cur /\ pc # "starting"
        BY <1>a, <1>2, <2>6 DEF Starting
      <3>2. in_flight /\ replies[cur] = <<>>
        BY <1>a, <1>b, <1>2, <3>1 DEF Flight, Waits, Works, Replied, Rests
      <3>3. Starting'
        BY <1>c, <3>1 DEF Starting
      <3>4. pc = "wait" => r.tick = tick
        BY <1>a, <1>2, <3>1 DEF Flight, r
      <3>5. Flight'
        BY <1>a, <1>b, <1>c, <2>1, <2>d, <3>1, <3>2, <3>4 DEF Flight, Works
      <3>6. /\ r.seen <= launched
            /\ IF r.discarded THEN previous[cur] # Unkept /\ previous[cur].tick = asked
               ELSE pending_once[cur].tick = asked
            /\ OnceTrue(pending_once[cur]) /\ (previous[cur] # Unkept => OnceTrue(previous[cur]))
        BY <1>a, <1>2, <3>1 DEF Memory, r
      <3>7. p.tick = asked /\ OnceTrue(p)
        BY <2>e, <3>1, <3>6
      <3>8. p.launched => p.tick # 0 /\ p.tick < launched
        BY <3>7 DEF OnceTrue
      <3>9. Memory'
        BY <1>b, <1>c, <2>1, <2>d, <3>1, <3>2, <3>6, <3>7, <3>8 DEF Memory, OnceTrue
      <3> QED
        BY <1>b, <2>1, <2>2, <2>3, <2>4, <3>1, <3>3, <3>5, <3>9, OwnMoves
    <2> QED
      BY <2>5, <2>6
  <1> QED
    BY <1>1, <1>2 DEF Recv

\* What a script may give, o, and what then is remembered, x, of what was asked
\* for, p, when the snapshot of tick `now' shows a launch at `seen'.
Chosen(p, seen, turnTick, o, x) ==
    LET once == Completed(p, seen)
        stop == IF once.launched THEN <<"stop">> ELSE <<>>
    IN  \/ o = stop /\ x = IF once.launched THEN Nothing ELSE once
        \/ o = Append(stop, "attack") /\ x = Asked(once, turnTick)
        \/ o = Append(stop, "move") /\ x = Nothing
        \/ o = <<>> /\ x = once

Words == Seq({"attack", "stop", "move"})

LEMMA WordsSaid ==
    /\ <<>> \in Words /\ <<"stop">> \in Words
    /\ Append(<<>>, "attack") \in Words /\ Append(<<>>, "move") \in Words
    /\ Append(<<"stop">>, "attack") \in Words /\ Append(<<"stop">>, "move") \in Words
  BY DEF Words

LEMMA SaidAfter ==
    ASSUME NEW v, NEW w
    PROVE  Append(<<v>>, w) = <<v, w>>
  <1>1. <<v>> \in Seq({v, w}) /\ <<v, w>> \in Seq({v, w})
    OBVIOUS
  <1>2. Append(<<v>>, w) \in Seq({v, w}) /\ Len(Append(<<v>>, w)) = 2
    BY <1>1
  <1>3. Append(<<v>>, w)[1] = v /\ Append(<<v>>, w)[2] = w
    BY <1>1
  <1>4. \A i \in 1 .. 2 : Append(<<v>>, w)[i] = <<v, w>>[i]
    BY <1>3
  <1> DEFINE s == Append(<<v>>, w)
  <1>5. s = [i \in 1 .. 2 |-> s[i]]
    BY <1>2
  <1>6. <<v, w>> = [i \in 1 .. 2 |-> <<v, w>>[i]]
    BY <1>1
  <1> QED
    BY <1>4, <1>5, <1>6

\* What a turn's orders come to for the caller.
LEMMA OrdersMean ==
    /\ AskedAfter(<<>>) = asked /\ AskedAfter(<<"stop">>) = 0
    /\ AskedAfter(Append(<<>>, "attack")) = IF asked = 0 THEN tick ELSE asked
    /\ AskedAfter(Append(<<>>, "move")) = 0
    /\ AskedAfter(Append(<<"stop">>, "attack")) = tick /\ AskedAfter(Append(<<"stop">>, "move")) = 0
    /\ ~Stops(<<>>) /\ ~Stops(Append(<<>>, "attack")) /\ ~Stops(Append(<<>>, "move"))
  <1>1. AskedAfter(<<>>) = asked /\ ~Stops(<<>>)
    BY DEF AskedAfter, Stops
  <1>2. AskedAfter(<<"stop">>) = 0
    <2>1. <<"stop">> # <<>> /\ Head(<<"stop">>) = "stop" /\ Tail(<<"stop">>) = <<>>
      OBVIOUS
    <2> QED
      BY <2>1 DEF AskedAfter
  <1>3. Append(<<>>, "attack") = <<"attack">> /\ Append(<<>>, "move") = <<"move">>
    OBVIOUS
  <1>4. <<"attack">> # <<>> /\ Head(<<"attack">>) = "attack"
    OBVIOUS
  <1>5. <<"move">> # <<>> /\ Head(<<"move">>) = "move" /\ <<"move">> # <<"attack">>
    OBVIOUS
  <1>6. AskedAfter(<<"attack">>) = (IF asked = 0 THEN tick ELSE asked) /\ ~Stops(<<"attack">>)
    BY <1>4 DEF AskedAfter, Stops
  <1>7. AskedAfter(<<"move">>) = 0 /\ ~Stops(<<"move">>)
    BY <1>5 DEF AskedAfter, Stops
  <1>8. Append(<<"stop">>, "attack") = <<"stop", "attack">> /\ Append(<<"stop">>, "move") = <<"stop", "move">>
    BY SaidAfter
  <1>9. AskedAfter(<<"stop", "attack">>) = tick
    <2>1. <<"stop", "attack">> # <<>> /\ Head(<<"stop", "attack">>) = "stop"
      OBVIOUS
    <2>2. Tail(<<"stop", "attack">>) = <<"attack">>
      OBVIOUS
    <2> QED
      BY <1>4, <2>1, <2>2 DEF AskedAfter
  <1>10. AskedAfter(<<"stop", "move">>) = 0
    <2>1. <<"stop", "move">> # <<>> /\ Head(<<"stop", "move">>) = "stop"
      OBVIOUS
    <2>2. Tail(<<"stop", "move">>) = <<"move">>
      OBVIOUS
    <2> QED
      BY <1>5, <2>1, <2>2 DEF AskedAfter
  <1> QED
    BY <1>1, <1>2, <1>3, <1>6, <1>7, <1>8, <1>9, <1>10

LEMMA OnceCompleted ==
    ASSUME LastTick \in Nat, NEW p \in OnceKept, NEW seen \in 0 .. LastTick
    PROVE  /\ Completed(p, seen) \in OnceKept /\ Completed(p, seen).tick = p.tick
           /\ Completed(p, seen).launched <=> p.tick # 0 /\ (p.launched \/ seen > p.tick)
  <1>1. p.launched \in BOOLEAN /\ p.tick \in 0 .. LastTick
    BY DEF OnceKept
  <1> DEFINE b == p.tick # 0 /\ (p.launched \/ seen > p.tick)
  <1>2. b \in BOOLEAN
    OBVIOUS
  <1>3. Completed(p, seen) = [p EXCEPT !.launched = b]
    BY DEF Completed
  <1> HIDE DEF b
  <1>4. Completed(p, seen) \in OnceKept /\ Completed(p, seen).tick = p.tick /\ Completed(p, seen).launched = b
    BY <1>2, <1>3 DEF OnceKept
  <1> QED
    BY <1>4 DEF b

LEMMA ChoiceTyped ==
    ASSUME LastTick \in Nat, NEW p \in OnceKept, NEW seen \in 0 .. LastTick, NEW turnTick \in 0 .. LastTick,
           NEW o, NEW x, Chosen(p, seen, turnTick, o, x)
    PROVE  o \in Words /\ x \in OnceKept
  <1> DEFINE once == Completed(p, seen)
  <1>1. once \in OnceKept
    BY OnceCompleted
  <1>2. \/ o = (IF once.launched THEN <<"stop">> ELSE <<>>) /\ x = IF once.launched THEN Nothing ELSE once
        \/ o = Append(IF once.launched THEN <<"stop">> ELSE <<>>, "attack") /\ x = Asked(once, turnTick)
        \/ o = Append(IF once.launched THEN <<"stop">> ELSE <<>>, "move") /\ x = Nothing
        \/ o = <<>> /\ x = once
    BY DEF Chosen
  <1> HIDE DEF once
  <1>3. Nothing \in OnceKept /\ Asked(once, turnTick) \in OnceKept
    BY <1>1 DEF Nothing, OnceKept, Asked
  <1>4. x \in OnceKept
    BY <1>1, <1>2, <1>3
  <1>5. CASE once.launched
    BY <1>2, <1>4, <1>5, WordsSaid
  <1>6. CASE ~once.launched
    BY <1>2, <1>4, <1>6, WordsSaid
  <1> QED
    BY <1>4, <1>5, <1>6

\* Whatever the script gives, the worker remembers what the caller will have sent
\* out when it takes the turn, and says stop for a blow that was launched.
LEMMA ChoiceTrue ==
    ASSUME LastTick \in Nat, launched \in 0 .. LastTick, NEW p \in OnceKept, p.tick = asked, OnceTrue(p),
           NEW seen \in 0 .. LastTick, seen <= launched, NEW turnTick \in 0 .. LastTick,
           NEW o, NEW x, Chosen(p, seen, turnTick, o, x)
    PROVE  /\ turnTick = tick => x.tick = AskedAfter(o)
           /\ Stops(o) => asked # 0 /\ launched > asked
           /\ OnceTrue(x)
  <1> DEFINE once == Completed(p, seen)
  <1>1. /\ once \in OnceKept /\ once.tick = asked
        /\ once.launched => asked # 0 /\ asked < launched
    <2>1. once \in OnceKept /\ once.tick = asked
      BY OnceCompleted
    <2>2. once.launched => asked # 0 /\ (p.launched \/ seen > asked)
      BY OnceCompleted
    <2>3. p.launched => asked < launched
      BY DEF OnceTrue
    <2>4. seen > asked => asked < launched
      <3>1. asked \in Nat /\ seen \in Nat /\ launched \in Nat
        BY DEF OnceKept
      <3> QED
        BY <3>1
    <2> QED
      BY <2>1, <2>2, <2>3, <2>4
  <1>2. \/ o = (IF once.launched THEN <<"stop">> ELSE <<>>) /\ x = IF once.launched THEN Nothing ELSE once
        \/ o = Append(IF once.launched THEN <<"stop">> ELSE <<>>, "attack") /\ x = Asked(once, turnTick)
        \/ o = Append(IF once.launched THEN <<"stop">> ELSE <<>>, "move") /\ x = Nothing
        \/ o = <<>> /\ x = once
    BY DEF Chosen
  <1> HIDE DEF once
  <1>3. Nothing.tick = 0 /\ OnceTrue(Nothing)
    BY DEF Nothing, OnceTrue
  <1>4. OnceTrue(once)
    BY <1>1 DEF OnceTrue
  <1>5. CASE once.launched
    <2>1. Asked(once, turnTick).tick = turnTick /\ OnceTrue(Asked(once, turnTick))
      BY <1>5 DEF Asked, OnceTrue
    <2>2. \/ o = <<"stop">> /\ x = Nothing
          \/ o = Append(<<"stop">>, "attack") /\ x = Asked(once, turnTick)
          \/ o = Append(<<"stop">>, "move") /\ x = Nothing
          \/ o = <<>> /\ x = once
      BY <1>2, <1>5
    <2> QED
      BY <1>1, <1>3, <1>4, <1>5, <2>1, <2>2, OrdersMean
  <1>6. CASE ~once.launched
    <2>1. /\ asked # 0 => Asked(once, turnTick) = once
          /\ asked = 0 => Asked(once, turnTick).tick = turnTick /\ OnceTrue(Asked(once, turnTick))
      BY <1>1, <1>6 DEF Asked, OnceTrue
    <2>2. \/ o = <<>> /\ x = once
          \/ o = Append(<<>>, "attack") /\ x = Asked(once, turnTick)
          \/ o = Append(<<>>, "move") /\ x = Nothing
      BY <1>2, <1>6
    <2> QED
      BY <1>1, <1>3, <1>4, <2>1, <2>2, OrdersMean
  <1> QED
    BY <1>5, <1>6

\* The two ways a turn ends: orders and what is remembered of them, or an error.
LEMMA ThinkChooses ==
    ASSUME NEW t \in Teams, Think(t)
    PROVE  \/ \E o, x : /\ Chosen(pending_once[t], turn[t].seen, turn[t].tick, o, x)
                        /\ turn' = [turn EXCEPT ![t].orders = o]
                        /\ pending_once' = [pending_once EXCEPT ![t] = x]
           \/ \E ends \in BOOLEAN : /\ turn' = [turn EXCEPT ![t].bad = TRUE, ![t].ends = ends]
                                    /\ pending_once' = pending_once
  <1> DEFINE once == Completed(pending_once[t], turn[t].seen)
             stop == IF once.launched THEN <<"stop">> ELSE <<>>
             turnTick  == turn[t].tick
             Gives(o, x) == /\ turn' = [turn EXCEPT ![t].orders = o]
                            /\ pending_once' = [pending_once EXCEPT ![t] = x]
  <1>1. \/ Gives(stop, IF once.launched THEN Nothing ELSE once)
        \/ Gives(Append(stop, "attack"), Asked(once, turnTick))
        \/ Gives(Append(stop, "move"), Nothing)
        \/ Gives(<<>>, once)
        \/ \E ends \in BOOLEAN : /\ turn' = [turn EXCEPT ![t].bad = TRUE, ![t].ends = ends]
                                 /\ UNCHANGED pending_once
    BY DEF Think
  <1>2. /\ Chosen(pending_once[t], turn[t].seen, turnTick, stop, IF once.launched THEN Nothing ELSE once)
        /\ Chosen(pending_once[t], turn[t].seen, turnTick, Append(stop, "attack"), Asked(once, turnTick))
        /\ Chosen(pending_once[t], turn[t].seen, turnTick, Append(stop, "move"), Nothing)
        /\ Chosen(pending_once[t], turn[t].seen, turnTick, <<>>, once)
    BY DEF Chosen
  <1> HIDE DEF once, stop
  <1> QED
    BY <1>1, <1>2

LEMMA WorkerThinks ==
    ASSUME WorkerAssumption, WorkerInv, NEW t \in Teams, Think(t)
    PROVE  WorkerInv'
  <1>a. /\ WorkerTypes /\ OnePlace /\ OneTeam /\ Starting /\ Flight /\ Memory /\ LastTick \in Nat
        /\ open = {} \/ (open = {cur} /\ cur \in Teams)
    BY WorkerBasics
  <1>b. /\ at[t] = "think" /\ at' = [at EXCEPT ![t] = "reply"]
        /\ UNCHANGED <<caller, open, ready, match, requests, replies, previous, live_workers>>
    BY DEF Think
  <1>c. UNCHANGED <<pc, cur, tick, late, in_flight, discard, open, launched, asked, got>>
    BY <1>b DEF caller, match
  <1>d. /\ at'[t] = "reply" /\ \A s \in Teams : s # t => at'[s] = at[s]
        /\ at' \in [Teams -> {"unborn", "build", "recv", "think", "reply", "gone"}]
    BY <1>a, <1>b DEF WorkerTypes, TeamTypes
  <1>e. OnePlace'
    BY <1>a, <1>b DEF OnePlace
  <1>f. PermitsHeld' /\ live_workers' <= Permits
    BY <1>b, AllRunOn
  <1>g. /\ turn[t] \in Turn /\ turn[t].seen \in 0 .. LastTick /\ turn[t].tick \in 0 .. LastTick
        /\ pending_once[t] \in OnceKept /\ previous[t] \in OnceKept
    BY WorkerHolds DEF Turn
  <1>h. /\ turn \in [Teams -> Turn] /\ pending_once \in [Teams -> OnceKept]
        /\ previous \in [Teams -> OnceKept] /\ requests \in [Teams -> Seq(Request)]
        /\ replies \in [Teams -> Seq(Turn)]
    BY <1>a DEF WorkerTypes, TeamTypes
  <1>i. t \in open => /\ open = {cur} /\ t = cur /\ pc # "starting" /\ in_flight
                      /\ requests[cur] = <<>> /\ replies[cur] = <<>>
                      /\ pending_once[cur] = previous[cur] /\ previous[cur].tick = asked
                      /\ turn[cur].seen <= launched /\ ~turn[cur].bad /\ ~turn[cur].ends
                      /\ OnceTrue(pending_once[cur]) /\ (pc = "wait" => turn[cur].tick = tick)
    BY <1>a, <1>b DEF Starting, Flight, Waits, Works, Replied, Rests, Memory
  <1>1. CASE \E ends \in BOOLEAN : /\ turn' = [turn EXCEPT ![t].bad = TRUE, ![t].ends = ends]
                                   /\ pending_once' = pending_once
    <2> PICK ends \in BOOLEAN : /\ turn' = [turn EXCEPT ![t].bad = TRUE, ![t].ends = ends]
                                /\ pending_once' = pending_once
      BY <1>1
    <2>1. /\ turn'[t].bad = TRUE /\ turn'[t].tick = turn[t].tick
          /\ \A s \in Teams : s # t => turn'[s] = turn[s]
      BY <1>g, <1>h DEF Turn
    <2>2. turn' \in [Teams -> Turn]
      BY <1>g, <1>h DEF Turn
    <2>3. TeamTypes'
      BY <1>b, <1>d, <1>h, <2>2 DEF TeamTypes
    <2>4. CASE t \notin open
      BY <1>b, <1>d, <1>e, <1>f, <2>1, <2>3, <2>4, StrangerMoves
    <2>5. CASE t \in open
      <3>1. Starting'
        BY <1>c, <1>i, <2>5 DEF Starting
      <3>2. Flight'
        BY <1>a, <1>b, <1>c, <1>d, <1>i, <2>1, <2>5 DEF Flight, Works
      <3>3. pending_once[cur] # Unkept
        BY <1>i, <2>5 DEF OnceTrue, Unkept
      <3>4. turn'[cur].bad /\ Thought(turn[cur])'
        BY <1>c, <1>i, <2>1, <2>5 DEF Thought
      <3>5. Memory'
        BY <1>b, <1>c, <1>d, <1>i, <2>5, <3>3, <3>4 DEF Memory, OnceTrue
      <3> QED
        BY <1>b, <1>d, <1>e, <1>f, <1>i, <2>3, <2>5, <3>1, <3>2, <3>5, OwnMoves
    <2> QED
      BY <2>4, <2>5
  <1>2. CASE \E o, x : /\ Chosen(pending_once[t], turn[t].seen, turn[t].tick, o, x)
                       /\ turn' = [turn EXCEPT ![t].orders = o]
                       /\ pending_once' = [pending_once EXCEPT ![t] = x]
    <2> PICK o, x : /\ Chosen(pending_once[t], turn[t].seen, turn[t].tick, o, x)
                    /\ turn' = [turn EXCEPT ![t].orders = o]
                    /\ pending_once' = [pending_once EXCEPT ![t] = x]
      BY <1>2
    <2>a. o \in Words /\ x \in OnceKept
      BY <1>a, <1>g, ChoiceTyped
    <2>b. o \in Seq({"attack", "stop", "move"})
      BY <2>a DEF Words
    <2>1. /\ turn'[t].orders = o /\ turn'[t].tick = turn[t].tick /\ turn'[t].bad = turn[t].bad
          /\ turn'[t].ends = turn[t].ends /\ pending_once'[t] = x
          /\ \A s \in Teams : s # t => turn'[s] = turn[s] /\ pending_once'[s] = pending_once[s]
      BY <1>g, <1>h DEF Turn
    <2>2. turn' \in [Teams -> Turn] /\ pending_once' \in [Teams -> OnceKept]
      BY <1>g, <1>h, <2>a, <2>b DEF Turn
    <2>3. TeamTypes'
      BY <1>b, <1>d, <1>h, <2>2 DEF TeamTypes
    <2>4. CASE t \notin open
      BY <1>b, <1>d, <1>e, <1>f, <2>1, <2>3, <2>4, StrangerMoves
    <2>5. CASE t \in open
      <3>1. Starting'
        BY <1>c, <1>i, <2>5 DEF Starting
      <3>2. Flight'
        BY <1>a, <1>b, <1>c, <1>d, <1>i, <2>1, <2>5 DEF Flight, Works
      <3>3. previous[cur] # Unkept
        BY <1>i, <2>5 DEF OnceTrue, Unkept
      <3>4. /\ turn[t].tick = tick => x.tick = AskedAfter(o)
            /\ Stops(o) => asked # 0 /\ launched > asked
            /\ OnceTrue(x)
        <4>1. launched \in 0 .. LastTick
          BY <1>a DEF WorkerTypes, CallerTypes
        <4> QED
          BY <1>a, <1>g, <1>i, <2>5, <4>1, ChoiceTrue
      <3>6. Thought(turn[cur])'
        BY <1>c, <1>i, <2>1, <2>5, <3>4 DEF Thought, AskedAfter
      <3>7. OnceTrue(pending_once[cur])' /\ OnceTrue(previous[cur])'
        BY <1>b, <1>c, <1>i, <2>1, <2>5, <3>4 DEF OnceTrue
      <3>8. turn'[cur].ends => turn'[cur].bad
        BY <1>i, <2>1, <2>5
      <3>9. Memory'
        BY <1>b, <1>c, <1>d, <1>i, <2>5, <3>3, <3>6, <3>7, <3>8 DEF Memory
      <3> QED
        BY <1>b, <1>d, <1>e, <1>f, <1>i, <2>1, <2>3, <2>5, <3>1, <3>2, <3>9, OwnMoves
    <2> QED
      BY <2>4, <2>5
  <1> QED
    BY <1>1, <1>2, ThinkChooses

LEMMA WorkerReplies ==
    ASSUME WorkerAssumption, WorkerInv, NEW t \in Teams, Reply(t)
    PROVE  WorkerInv'
  <1>a. /\ WorkerTypes /\ OnePlace /\ OneTeam /\ Starting /\ Flight /\ Memory
        /\ open = {} \/ (open = {cur} /\ cur \in Teams)
    BY WorkerBasics
  <1>b. /\ at[t] = "reply"
        /\ UNCHANGED <<caller, open, ready, match, requests, pending_once, previous, turn>>
    BY DEF Reply
  <1>c. UNCHANGED <<pc, cur, tick, late, in_flight, discard, open, launched, asked, got>>
    BY <1>b DEF caller, match
  <1>d. turn[t] \in Turn /\ replies[t] \in Seq(Turn)
    BY WorkerHolds
  <1>1. CASE t \notin open
    <2>1. Ends(t) /\ replies' = replies
      BY <1>1 DEF Reply
    <2>2. at'[t] = "gone" /\ \A s \in Teams : s # t => at'[s] = at[s]
      BY <1>a, <2>1 DEF WorkerTypes, TeamTypes, Ends
    <2>3. TeamTypes' /\ OnePlace'
      BY <1>a, <1>b, <2>1 DEF WorkerTypes, TeamTypes, Ends, OnePlace
    <2>4. PermitsHeld' /\ live_workers' <= Permits
      BY <1>b, <2>1, OneRunsLess
    <2> QED
      BY <1>b, <1>1, <2>1, <2>2, <2>3, <2>4, StrangerMoves
  <1>2. CASE t \in open
    <2>a. /\ open = {cur} /\ t = cur /\ pc # "starting" /\ in_flight
          /\ requests[cur] = <<>> /\ replies[cur] = <<>>
          /\ (pc = "wait" => turn[cur].tick = tick)
      BY <1>a, <1>b, <1>2 DEF Starting, Flight, Waits, Works, Replied, Rests
    <2>b. /\ OnceTrue(pending_once[cur]) /\ previous[cur] # Unkept /\ previous[cur].tick = asked
          /\ OnceTrue(previous[cur])
          /\ Thought(turn[cur]) /\ (turn[cur].ends => turn[cur].bad)
      BY <1>a, <1>b, <2>a DEF Memory
    <2>c. replies' = [replies EXCEPT ![t] = <<turn[t]>>]
      BY <1>2 DEF Reply
    <2>d. \/ turn[t].ends /\ Ends(t) /\ at' = [at EXCEPT ![t] = "gone"]
          \/ ~turn[t].ends /\ at' = [at EXCEPT ![t] = "recv"] /\ live_workers' = live_workers
      BY <1>2 DEF Reply, Ends
    <2>e. /\ <<turn[t]>> \in Seq(Turn) /\ Len(<<turn[t]>>) = 1 /\ Head(<<turn[t]>>) = turn[t]
          /\ <<turn[t]>> # <<>>
      BY <1>d
    <2>f. /\ replies'[t] = <<turn[t]>> /\ replies' \in [Teams -> Seq(Turn)]
          /\ \A s \in Teams : s # t => replies'[s] = replies[s]
      BY <1>a, <2>c, <2>e DEF WorkerTypes, TeamTypes
    <2>g. /\ at' \in [Teams -> {"unborn", "build", "recv", "think", "reply", "gone"}]
          /\ at'[t] = IF turn[t].ends THEN "gone" ELSE "recv"
          /\ \A s \in Teams : s # t => at'[s] = at[s]
      BY <1>a, <2>d DEF WorkerTypes, TeamTypes
    <2>h. replies'[cur] # <<>> /\ Head(replies'[cur]) = turn[cur]
      BY <2>a, <2>e, <2>f
    <2>i. at'[cur] \in {"recv", "gone"} /\ (at'[cur] = "gone" => turn[cur].bad)
      BY <2>a, <2>b, <2>g
    <2>1. TeamTypes'
      BY <1>a, <1>b, <2>f, <2>g DEF WorkerTypes, TeamTypes
    <2>2. OnePlace'
      <3>1. Len(replies'[t]) <= 1
        <4>1. Len(<<turn[t]>>) <= 1
          OBVIOUS
        <4> QED
          BY <2>f, <4>1
      <3> SUFFICES ASSUME NEW s \in Teams PROVE Len(requests'[s]) <= 1 /\ Len(replies'[s]) <= 1
        BY DEF OnePlace
      <3>2. Len(requests[s]) <= 1 /\ Len(replies[s]) <= 1 /\ requests' = requests
        BY <1>a, <1>b DEF OnePlace
      <3>3. CASE s = t
        BY <3>1, <3>2, <3>3
      <3>4. CASE s # t
        BY <2>f, <3>2, <3>4
      <3> QED
        BY <3>3, <3>4
    <2>3. PermitsHeld' /\ live_workers' <= Permits
      <3>1. CASE turn[t].ends
        BY <1>b, <2>d, <3>1, OneRunsLess
      <3>2. CASE ~turn[t].ends
        BY <1>b, <2>d, <3>2, AllRunOn
      <3> QED
        BY <3>1, <3>2
    <2>4. Starting'
      BY <1>c, <2>a DEF Starting
    <2>5. Flight'
      BY <1>a, <1>b, <1>c, <2>a, <2>h, <2>i DEF Flight, Replied
    <2>6. Thought(turn[cur])'
      BY <1>b, <1>c, <2>b DEF Thought, AskedAfter
    <2>7. Thought(Head(replies[cur]))'
      BY <1>b, <1>c, <2>h, <2>6 DEF Thought, AskedAfter
    <2>8. OnceTrue(pending_once[cur])' /\ OnceTrue(previous[cur])'
      BY <1>b, <1>c, <2>b DEF OnceTrue
    <2>9. Memory'
      BY <1>b, <1>c, <2>a, <2>b, <2>i, <2>7, <2>8 DEF Memory
    <2> QED
      BY <1>b, <2>a, <2>f, <2>g, <2>1, <2>2, <2>3, <2>4, <2>5, <2>9, OwnMoves
  <1> QED
    BY <1>1, <1>2

LEMMA WorkerKept ==
    ASSUME WorkerAssumption, WorkerInv, [WorkerNext]_workerVars
    PROVE  WorkerInv'
  <1>1. CASE Start \/ Started \/ NotStarted \/ Drop
    BY <1>1, TeamStarts, TeamStarted, TeamDropped
  <1>2. CASE ThinkBegins \/ OutOfTime \/ Drain \/ SendRequest
    BY <1>2, TurnBegins, TurnLate, TurnDrained, TurnSent
  <1>3. CASE Accept \/ Refused \/ Miss(TRUE) \/ Miss(FALSE)
    BY <1>3, TurnTaken, TurnDrained, TurnMissed
  <1>4. CASE \E t \in Teams : Build(t) \/ Recv(t) \/ Think(t) \/ Reply(t)
    BY <1>4, WorkerBuilds, WorkerTakes, WorkerThinks, WorkerReplies
  <1>5. CASE UNCHANGED workerVars
    <2>1. UNCHANGED <<pc, cur, tick, late, in_flight, discard, open, ready, requests, replies, at,
                      pending_once, previous, turn, live_workers, launched, asked, got>>
      BY <1>5 DEF workerVars, caller, worker, match
    <2>2. WorkerTypes' /\ OnePlace' /\ OneTeam'
      BY <2>1 DEF WorkerInv, WorkerTypes, CallerTypes, TeamTypes, FlagTypes, OnePlace, OneTeam
    <2>3. Starting' /\ Flight'
      BY <2>1 DEF WorkerInv, Starting, Flight, Waits, Works, Replied, Rests
    <2>4. Memory'
      BY <2>1 DEF WorkerInv, Memory, OnceTrue, Thought, AskedAfter
    <2>5. PermitsHeld' /\ live_workers' <= Permits' /\ OwnTurn'
      BY <2>1 DEF WorkerInv, PermitsHeld, OwnTurn
    <2> QED
      BY <2>2, <2>3, <2>4, <2>5 DEF WorkerInv
  <1> QED
    BY <1>1, <1>2, <1>3, <1>4, <1>5 DEF WorkerNext

\* The inductive invariant gives what is said of a state ...
LEMMA WorkerStates ==
    ASSUME WorkerAssumption, WorkerInv
    PROVE  WorkerTypeOK /\ OwnTurn /\ OnceRemembered /\ ReplyFits /\ NeverClosed /\ PermitsHeld
  <1>a. /\ WorkerTypes /\ OnePlace /\ OneTeam /\ Starting /\ Flight /\ Memory
        /\ open = {} \/ (open = {cur} /\ cur \in Teams)
    BY WorkerBasics
  <1>1. WorkerTypeOK
    <2>1. live_workers \in 0 .. Permits
      <3>1. live_workers \in Nat /\ live_workers <= Permits
        BY RunningCounted DEF WorkerInv, PermitsHeld, Running
      <3> QED
        BY <3>1, WorkerBasics
    <2>2. \A t \in Teams : /\ Len(requests[t]) <= 1 /\ Len(replies[t]) <= 1
                           /\ pending_once[t] \in OnceKept /\ previous[t] \in OnceKept
                           /\ turn[t] \in Turn
      BY <1>a DEF WorkerTypes, TeamTypes, OnePlace
    <2> QED
      BY <1>a, <2>1, <2>2 DEF WorkerTypeOK, WorkerTypes, CallerTypes, TeamTypes, FlagTypes
  <1>2. OnceRemembered
    BY <1>a DEF OnceRemembered, Memory
  <1>3. ReplyFits
    BY <1>a DEF ReplyFits, Starting, Flight, Waits, Works, Replied, Rests
  <1>4. NeverClosed
    BY <1>a DEF NeverClosed, OneTeam, Flight, Waits, Works, Replied, Rests
  <1> QED
    BY <1>1, <1>2, <1>3, <1>4 DEF WorkerInv

\* ... and of a step.
LEMMA StopsForCause ==
    ASSUME WorkerAssumption, WorkerInv, [WorkerNext]_workerVars, NEW t \in Teams,
           t = cur, replies[t] # <<>>, got' # got, Len(Head(replies[t]).orders) > 0,
           Head(Head(replies[t]).orders) = "stop"
    PROVE  asked # 0 /\ launched > asked
  <1>1. Accept
    <2>1. CASE Start \/ Started \/ NotStarted \/ Drop
      BY <2>1 DEF Start, Started, NotStarted, Drop, match
    <2>2. CASE ThinkBegins \/ OutOfTime \/ Drain \/ SendRequest
      BY <2>2 DEF ThinkBegins, OutOfTime, Drain, SendRequest
    <2>3. CASE Refused \/ Miss(TRUE) \/ Miss(FALSE)
      BY <2>3 DEF Refused, Miss
    <2>4. CASE \E s \in Teams : Build(s) \/ Recv(s) \/ Think(s) \/ Reply(s)
      BY <2>4 DEF Build, Recv, Think, Reply, match
    <2>5. CASE UNCHANGED workerVars
      BY <2>5 DEF workerVars, match
    <2> QED
      BY <2>1, <2>2, <2>3, <2>4, <2>5 DEF WorkerNext
  <1>2. pc = "wait" /\ ~Head(replies[cur]).bad
    BY <1>1 DEF Accept
  <1>3. Thought(Head(replies[cur]))
    BY <1>2, ReplyWaits
  <1>4. Head(replies[cur]).orders \in Seq({"attack", "stop", "move"})
    BY WorkerHolds DEF Turn
  <1>5. Stops(Head(replies[cur]).orders)
    BY <1>4 DEF Stops
  <1> QED
    BY <1>2, <1>3, <1>5 DEF Thought

\* The inductive invariant of a team and its worker.
THEOREM WorkerInvariant ==
    ASSUME WorkerAssumption
    PROVE  WorkerSpec => []WorkerInv
  <1>1. WorkerInit => WorkerInv
    BY WorkerStarts
  <1>2. WorkerInv /\ [WorkerNext]_workerVars => WorkerInv'
    BY WorkerKept
  <1> QED
    BY <1>1, <1>2, PTL DEF WorkerSpec

\* However late the caller, the worker or the script is (native/worker.rs, think and
\* run): a turn is acted on in its own tick or never, what the worker remembers of
\* an attack is what went out, neither channel is ever full when something is put
\* in it nor closed in a team that runs, each thread holds one permit, and a stop
\* is sent once, for a blow that was launched.  For any bounds and any number of
\* teams and ticks.
THEOREM TurnsAlwaysMatch ==
    ASSUME WorkerAssumption
    PROVE  WorkerSpec => TurnsMatch
  <1>1. WorkerInv =>
          WorkerTypeOK /\ OwnTurn /\ OnceRemembered /\ ReplyFits /\ NeverClosed /\ PermitsHeld
    BY WorkerStates
  <1>2. WorkerInv /\ [WorkerNext]_workerVars =>
          [\A t \in Teams :
              t = cur /\ replies[t] # <<>> /\ got' # got /\ Len(Head(replies[t]).orders) > 0
                 /\ Head(Head(replies[t]).orders) = "stop"
              => asked # 0 /\ launched > asked]_workerVars
    BY StopsForCause
  <1> QED
    BY <1>1, <1>2, WorkerInvariant, PTL DEF WorkerSpec, TurnsMatch, StopsOnce

-----------------------------------------------------------------------------
(* The replay writer. *)

\* How far a stream that may still be whole is: an open one holds every record and
\* nothing was said of it, one closed at the end of the match holds every record
\* too, and whatever was cut is marked.
StreamFollows ==
    /\ out = "open" => stored = records /\ ~truncated /\ answer = Nil
    /\ out = "closed" /\ ~truncated => stored = records /\ answer # Nil
    /\ out = "failed" => truncated
    /\ answer # Nil => answer = truncated

\* SizeCapped is not inductive: an open stream is further from its cap than the
\* margin, which is what a last record, what is held back and the end need.
CapKept ==
    opts.max # Nil =>
        IF out = "open" THEN written + Margin(opts) < Limit(opts)
                        ELSE written <= opts.max

LEMMA GreaterOfTwo ==
    ASSUME NEW a \in Int, NEW b \in Int
    PROVE  Max({a, b}) = IF a >= b THEN a ELSE b
  <1> DEFINE m == IF a >= b THEN a ELSE b
  <1>1. m \in {a, b} /\ \A y \in {a, b} : m >= y
    OBVIOUS
  <1>2. \A x \in {a, b} : (\A y \in {a, b} : x >= y) => x = m
    OBVIOUS
  <1>3. QED
    BY <1>1, <1>2 DEF Max

LEMMA LesserOfTwo ==
    ASSUME NEW a \in Int, NEW b \in Int
    PROVE  Min({a, b}) = IF a <= b THEN a ELSE b
  <1> DEFINE m == IF a <= b THEN a ELSE b
  <1>1. m \in {a, b} /\ \A y \in {a, b} : m <= y
    OBVIOUS
  <1>2. \A x \in {a, b} : (\A y \in {a, b} : x <= y) => x = m
    OBVIOUS
  <1>3. QED
    BY <1>1, <1>2 DEF Min

\* The longest record is one.
LEMMA LongestRecord ==
    ASSUME ReplayWriterAssumption
    PROVE  Max(Sizes) \in Sizes /\ Max(Sizes) \in Nat
  <1>1. \E b \in Sizes : \A c \in Sizes : b >= c
    BY DEF ReplayWriterAssumption
  <1>2. Max(Sizes) \in Sizes
    BY <1>1 DEF Max
  <1>3. QED
    BY <1>2 DEF ReplayWriterAssumption

\* What a cap leaves: the margin is under the stream's cap, and the stream's cap,
\* with the trailer's reserve if there is one, within the file's.
LEMMA CapFacts ==
    ASSUME ReplayWriterAssumption, RoomToClose, NEW o \in Options, o.max # Nil
    PROVE  /\ o.max \in Nat /\ Limit(o) \in Nat /\ Margin(o) \in Nat
           /\ Margin(o) < Limit(o) /\ Limit(o) <= o.max
           /\ o.trailer => Limit(o) + Reserve <= o.max
           /\ \A b \in Sizes : Block + b + EndBytes <= Margin(o) + 1
  <1>1. o.max \in Nat /\ Reserve \in Nat /\ CloseMargin \in Nat
    BY DEF ReplayWriterAssumption
  <1>2. /\ Limit(o) >= 1
        /\ \A b \in Sizes : Block + b + EndBytes <= Margin(o) + 1
        /\ o.trailer => o.max >= 2 * Reserve
    BY DEF RoomToClose
  <1>3. o.max \div 2 \in Nat /\ 2 * (o.max \div 2) <= o.max
    BY <1>1
  <1>4. ASSUME o.trailer PROVE Limit(o) = o.max - Reserve
    <2>1. o.max - Reserve >= o.max \div 2
      BY <1>1, <1>2, <1>3, <1>4
    <2>2. Max({o.max - Reserve, o.max \div 2}) = o.max - Reserve
      BY <1>1, <1>3, <2>1, GreaterOfTwo
    <2>3. QED
      BY <1>4, <2>2 DEF Limit
  <1>5. ASSUME ~o.trailer PROVE Limit(o) = o.max
    BY <1>5 DEF Limit
  <1>6. /\ Limit(o) \in Nat /\ Limit(o) <= o.max
        /\ o.trailer => Limit(o) + Reserve <= o.max
    BY <1>1, <1>2, <1>4, <1>5
  <1>7. Limit(o) \div 4 \in Nat /\ Limit(o) \div 4 < Limit(o)
    BY <1>2, <1>6
  <1>8. Margin(o) = IF CloseMargin <= Limit(o) \div 4 THEN CloseMargin ELSE Limit(o) \div 4
    BY <1>1, <1>7, LesserOfTwo DEF Margin
  <1>9. Margin(o) \in Nat /\ Margin(o) < Limit(o)
    BY <1>1, <1>6, <1>7, <1>8
  <1>10. QED
    BY <1>1, <1>2, <1>6, <1>9

\* The numbers of a stream.
LEMMA StreamCounts ==
    ASSUME ReplayWriterAssumption, ReplayTypeOK
    PROVE  /\ Block \in Nat /\ EndBytes \in Nat /\ Reserve \in Nat /\ MaxRecords \in Nat
           /\ records \in Nat /\ written \in Nat /\ block \in Nat /\ block <= Block
           /\ stored \in Nat /\ stored <= records
  BY DEF ReplayWriterAssumption, ReplayTypeOK

\* What a closed or broken end leaves of the file.
LEMMA EndOfStream ==
    ASSUME ReplayWriterAssumption, NEW bytes \in Nat, NEW h \in Nat, NEW m,
           CloseStream(bytes, h, m)
    PROVE  /\ out' \in {"closed", "broken"} /\ block' = 0 /\ written' \in Nat
           /\ written' <= bytes + h + EndBytes + (IF opts.trailer THEN Reserve ELSE 0)
  <1>1. EndBytes \in Nat /\ Reserve \in Nat
    BY DEF ReplayWriterAssumption
  <1>2. PICK trailer \in IF opts.trailer /\ m # Nil THEN {0, Reserve} ELSE {0} :
            \/ out' = "closed" /\ written' = bytes + h + EndBytes + trailer
            \/ out' = "broken" /\ written' \in bytes..(bytes + h + EndBytes + trailer)
    BY DEF CloseStream
  <1>3. trailer \in Nat /\ trailer <= IF opts.trailer THEN Reserve ELSE 0
    BY <1>1, <1>2
  <1>4. (IF opts.trailer THEN Reserve ELSE 0) \in Nat
    BY <1>1
  <1>5. out' \in {"closed", "broken"}
    BY <1>2
  <1>6. written' \in Nat /\ written' <= bytes + h + EndBytes + trailer
    BY <1>1, <1>2, <1>3
  <1>7. written' <= bytes + h + EndBytes + (IF opts.trailer THEN Reserve ELSE 0)
    BY <1>1, <1>3, <1>4, <1>6
  <1>8. block' = 0
    BY DEF CloseStream
  <1>9. QED
    BY <1>5, <1>6, <1>7, <1>8

\* The four ways a record goes: not at all, badly, into the file or into its end.
RecordTaken(m) ==
    \/ out # "open" /\ meta' = m /\ UNCHANGED <<out, written, block, stored, truncated, left>>
    \/ out = "open" /\ WriteFails(m)
    \/ /\ out = "open"
       /\ \E b \in Sizes, h \in 0..Block : WriteRecord(m, b, h)

LEMMA RecordWays ==
    ASSUME record
    PROVE  /\ answer = Nil /\ records < MaxRecords /\ records' = records + 1
           /\ opts' = opts /\ answer' = answer
           /\ RecordTaken(IF meta = Nil THEN Nil ELSE meta + 1)
  BY DEF record, RecordTaken

\* A record is written: where the file stands, and what of it is held.
LEMMA RecordWritten ==
    ASSUME ReplayWriterAssumption, ReplayTypeOK, NEW m, NEW b \in Sizes,
           NEW h \in 0..Block, WriteRecord(m, b, h)
    PROVE  LET bytes == written + block + b - h
           IN  /\ b \in Nat /\ h \in Nat /\ bytes \in Nat
               /\ stored' = stored + 1
               /\ \/ /\ ~Near(bytes) /\ written' = bytes /\ block' = h /\ meta' = m
                     /\ UNCHANGED <<out, truncated, left>>
                  \/ /\ Near(bytes) /\ CloseStream(bytes, h, m) /\ TakeMeta(m)
                     /\ truncated' = TRUE
  <1>1. b \in Nat /\ h \in Nat /\ written \in Nat /\ block \in Nat
    <2>1. written \in Nat /\ block \in Nat /\ Block \in Nat
      BY StreamCounts
    <2>2. b \in Nat
      BY DEF ReplayWriterAssumption
    <2>3. h \in Nat
      BY <2>1
    <2>4. QED
      BY <2>1, <2>2, <2>3
  <1>2. h <= block + b
    BY DEF WriteRecord
  <1>3. written + block + b - h \in Nat
    BY <1>1, <1>2
  <1>4. QED
    BY <1>1, <1>3 DEF WriteRecord

\* What the metadata file holds once the recorder, at m, was taken.
LEMMA MetaTaken ==
    ASSUME ReplayTypeOK, NEW n \in Nat, records <= n, NEW m \in 0..n \cup {Nil},
           TakeMeta(m)
    PROVE  meta' \in 0..n \cup {Nil} /\ left' \in 0..n \cup {Nil}
  <1>1. records \in Nat /\ left \in 0..records \cup {Nil}
    BY DEF ReplayTypeOK
  <1>2. left \in 0..n \cup {Nil}
    BY <1>1
  <1>3. meta' = Nil /\ left' \in {m, left}
    BY DEF TakeMeta
  <1>4. QED
    BY <1>2, <1>3

LEMMA ReplayStarts ==
    ASSUME ReplayWriterAssumption, ReplayInit
    PROVE  ReplayTypeOK /\ StreamFollows
  <1>1. ReplayTypeOK
    <2>1. MaxRecords \in Nat /\ MaxRecords >= 1 /\ Block \in Nat
      BY DEF ReplayWriterAssumption
    <2>2. opts \in Options /\ records \in 1..MaxRecords /\ written \in Nat /\ block \in 0..Block
      BY <2>1 DEF ReplayInit
    <2>3. stored \in 0..records /\ meta \in 0..records \cup {Nil}
      BY DEF ReplayInit
    <2>4. left \in 0..records \cup {Nil} /\ answer \in BOOLEAN \cup {Nil}
      BY DEF ReplayInit
    <2>5. out \in {"open", "failed", "closed", "broken"} /\ truncated \in BOOLEAN
      BY DEF ReplayInit
    <2>6. QED
      BY <2>2, <2>3, <2>4, <2>5 DEF ReplayTypeOK
  <1>2. StreamFollows
    BY DEF ReplayInit, StreamFollows
  <1>3. QED
    BY <1>1, <1>2

LEMMA RecordKeepsTypes ==
    ASSUME ReplayWriterAssumption, ReplayTypeOK, record
    PROVE  ReplayTypeOK'
  <1> DEFINE m == IF meta = Nil THEN Nil ELSE meta + 1
  <1>1. /\ records < MaxRecords /\ records' = records + 1 /\ opts' = opts
        /\ answer' = answer /\ RecordTaken(m)
    BY RecordWays
  <1>2. /\ records \in Nat /\ written \in Nat /\ block \in Nat /\ Block \in Nat
        /\ MaxRecords \in Nat /\ stored \in Nat /\ stored <= records /\ block <= Block
    BY StreamCounts
  <1>3. m \in 0..records' \cup {Nil} /\ left \in 0..records' \cup {Nil}
    BY <1>1, <1>2 DEF ReplayTypeOK
  <1> HIDE DEF m
  <1>4. opts' \in Options /\ records' \in 1..MaxRecords
    BY <1>1, <1>2 DEF ReplayTypeOK
  <1>5. answer' \in BOOLEAN \cup {Nil}
    BY <1>1 DEF ReplayTypeOK
  <1>6. /\ out \in {"open", "failed", "closed", "broken"} /\ truncated \in BOOLEAN
    BY DEF ReplayTypeOK
  <1> DEFINE Typed == /\ out' \in {"open", "failed", "closed", "broken"}
                      /\ written' \in Nat /\ block' \in 0..Block
                      /\ stored' \in 0..records'
                      /\ meta' \in 0..records' \cup {Nil}
                      /\ left' \in 0..records' \cup {Nil}
  <1>7. Typed /\ truncated' \in BOOLEAN
    <2>1. CASE out # "open" /\ meta' = m
               /\ UNCHANGED <<out, written, block, stored, truncated, left>>
      <3>1. Typed
        BY <2>1, <1>1, <1>2, <1>3, <1>6
      <3>2. truncated' \in BOOLEAN
        BY <2>1, <1>6
      <3>3. QED
        BY <3>1, <3>2
    <2>2. CASE WriteFails(m)
      <3>1. Max(Sizes) \in Nat
        BY LongestRecord
      <3>2. written' \in Nat
        BY <2>2, <3>1, <1>2 DEF WriteFails
      <3>3. Typed
        BY <2>2, <3>2, <1>1, <1>2, <1>3, <1>6 DEF WriteFails
      <3>4. truncated' \in BOOLEAN
        BY <2>2 DEF WriteFails
      <3>5. QED
        BY <3>3, <3>4
    <2>3. ASSUME NEW b \in Sizes, NEW h \in 0..Block, WriteRecord(m, b, h)
          PROVE  Typed /\ truncated' \in BOOLEAN
      <3> DEFINE bytes == written + block + b - h
      <3>1. /\ h \in Nat /\ bytes \in Nat /\ stored' = stored + 1
            /\ \/ /\ written' = bytes /\ block' = h /\ meta' = m
                  /\ UNCHANGED <<out, truncated, left>>
               \/ CloseStream(bytes, h, m) /\ TakeMeta(m) /\ truncated' = TRUE
        BY <2>3, RecordWritten
      <3> HIDE DEF bytes
      <3>2. CASE /\ written' = bytes /\ block' = h /\ meta' = m
                 /\ UNCHANGED <<out, truncated, left>>
        <4>1. Typed
          BY <3>1, <3>2, <2>3, <1>1, <1>2, <1>3, <1>6
        <4>2. truncated' \in BOOLEAN
          BY <3>2, <1>6
        <4>3. QED
          BY <4>1, <4>2
      <3>3. CASE CloseStream(bytes, h, m) /\ TakeMeta(m) /\ truncated' = TRUE
        <4>1. out' \in {"closed", "broken"} /\ block' = 0 /\ written' \in Nat
          BY <3>1, <3>3, EndOfStream
        <4>2. meta' \in 0..records' \cup {Nil} /\ left' \in 0..records' \cup {Nil}
          BY <3>3, <1>1, <1>2, <1>3, MetaTaken
        <4>3. Typed
          BY <4>1, <4>2, <3>1, <1>1, <1>2
        <4>4. truncated' \in BOOLEAN
          BY <3>3
        <4>5. QED
          BY <4>3, <4>4
      <3>4. QED
        BY <3>1, <3>2, <3>3
    <2>4. QED
      BY <1>1, <2>1, <2>2, <2>3 DEF RecordTaken
  <1>8. QED
    BY <1>4, <1>5, <1>7 DEF ReplayTypeOK

LEMMA FinishKeepsTypes ==
    ASSUME ReplayWriterAssumption, ReplayTypeOK, finish
    PROVE  ReplayTypeOK'
  <1>1. /\ records \in Nat /\ written \in Nat /\ block \in Nat
    BY StreamCounts
  <1>2. /\ answer' = truncated /\ TakeMeta(meta)
        /\ opts' = opts /\ records' = records /\ stored' = stored /\ truncated' = truncated
    BY DEF finish
  <1>3. meta' \in 0..records' \cup {Nil} /\ left' \in 0..records' \cup {Nil}
    BY <1>1, <1>2, MetaTaken DEF ReplayTypeOK
  <1>4. /\ out' \in {"open", "failed", "closed", "broken"}
        /\ written' \in Nat /\ block' \in 0..Block
    <2>1. CASE CloseStream(written, block, meta)
      <3>1. out' \in {"closed", "broken"} /\ block' = 0 /\ written' \in Nat
        BY <2>1, <1>1, EndOfStream
      <3>2. QED
        BY <3>1 DEF ReplayWriterAssumption
    <2>2. CASE UNCHANGED <<out, written, block>>
      BY <2>2 DEF ReplayTypeOK
    <2>3. QED
      BY <2>1, <2>2 DEF finish
  <1>5. answer' \in BOOLEAN \cup {Nil} /\ truncated' \in BOOLEAN
    BY <1>2 DEF ReplayTypeOK
  <1>6. opts' \in Options /\ records' \in 1..MaxRecords /\ stored' \in 0..records'
    BY <1>2 DEF ReplayTypeOK
  <1>7. QED
    BY <1>3, <1>4, <1>5, <1>6 DEF ReplayTypeOK

\* A record goes only into a stream that holds all those before it, and what cannot
\* be written marks the replay.
LEMMA RecordFollows ==
    ASSUME ReplayWriterAssumption, ReplayTypeOK, StreamFollows, record
    PROVE  StreamFollows' /\ (stored' > stored => stored = records)
  <1> DEFINE m == IF meta = Nil THEN Nil ELSE meta + 1
  <1>1. answer = Nil /\ records' = records + 1 /\ answer' = answer /\ RecordTaken(m)
    BY RecordWays
  <1> HIDE DEF m
  <1>2. records \in Nat /\ stored \in Nat
    BY StreamCounts
  <1>3. CASE out # "open" /\ UNCHANGED <<out, stored, truncated>>
    <2>1. ~(out = "closed" /\ ~truncated)
      BY <1>1 DEF StreamFollows
    <2>2. out' # "open" /\ ~(out' = "closed" /\ ~truncated')
      BY <1>3, <2>1
    <2>3. out' = "failed" => truncated'
      BY <1>3 DEF StreamFollows
    <2>4. StreamFollows'
      BY <2>2, <2>3, <1>1 DEF StreamFollows
    <2>5. QED
      BY <2>4, <1>3, <1>2
  <1>4. CASE out = "open" /\ WriteFails(m)
    <2>1. out' = "failed" /\ truncated' = TRUE /\ stored' = stored
      BY <1>4 DEF WriteFails
    <2>2. StreamFollows'
      BY <2>1, <1>1 DEF StreamFollows
    <2>3. QED
      BY <2>1, <2>2, <1>2
  <1>5. ASSUME out = "open", NEW b \in Sizes, NEW h \in 0..Block, WriteRecord(m, b, h)
        PROVE  StreamFollows' /\ (stored' > stored => stored = records)
    <2> DEFINE bytes == written + block + b - h
    <2>1. stored = records /\ ~truncated /\ stored' = stored + 1
      BY <1>5, RecordWritten DEF StreamFollows
    <2>2. /\ h \in Nat /\ bytes \in Nat
          /\ \/ UNCHANGED <<out, truncated>>
             \/ CloseStream(bytes, h, m) /\ truncated' = TRUE
      BY <1>5, RecordWritten
    <2> HIDE DEF bytes
    <2>3. CASE UNCHANGED <<out, truncated>>
      BY <2>1, <2>3, <1>1, <1>5 DEF StreamFollows
    <2>4. CASE CloseStream(bytes, h, m) /\ truncated' = TRUE
      <3>1. out' # "open"
        BY <2>2, <2>4, EndOfStream
      <3>2. QED
        BY <3>1, <2>1, <2>4, <1>1 DEF StreamFollows
    <2>5. QED
      BY <2>1, <2>2, <2>3, <2>4
  <1>6. QED
    BY <1>1, <1>3, <1>4, <1>5 DEF RecordTaken

LEMMA FinishFollows ==
    ASSUME ReplayWriterAssumption, ReplayTypeOK, StreamFollows, finish
    PROVE  StreamFollows' /\ stored' = stored
  <1>1. /\ answer = Nil /\ answer' = truncated /\ records' = records /\ stored' = stored
        /\ truncated' = truncated
    BY DEF finish
  <1>2. written \in Nat /\ block \in Nat
    BY StreamCounts
  <1>3. answer' # Nil
    BY <1>1 DEF ReplayTypeOK, ReplayWriterAssumption
  <1>4. CASE out = "open" /\ CloseStream(written, block, meta)
    <2>1. out' \in {"closed", "broken"}
      BY <1>2, <1>4, EndOfStream
    <2>2. stored = records
      BY <1>4 DEF StreamFollows
    <2>3. QED
      BY <2>1, <2>2, <1>1, <1>3 DEF StreamFollows
  <1>5. CASE out # "open" /\ out' = out
    <2>1. ~(out = "closed" /\ ~truncated)
      BY <1>1 DEF StreamFollows
    <2>2. out = "failed" => truncated
      BY DEF StreamFollows
    <2>3. QED
      BY <2>1, <2>2, <1>1, <1>5 DEF StreamFollows
  <1>6. QED
    BY <1>4, <1>5 DEF finish

\* An open stream keeps its margin, and what it ends with fits it.
LEMMA RecordCapped ==
    ASSUME ReplayWriterAssumption, RoomToClose, ReplayTypeOK, CapKept, record
    PROVE  CapKept'
  <1> SUFFICES ASSUME opts'.max # Nil
               PROVE  IF out' = "open" THEN written' + Margin(opts') < Limit(opts')
                                       ELSE written' <= opts'.max
    BY DEF CapKept
  <1> DEFINE m == IF meta = Nil THEN Nil ELSE meta + 1
  <1>1. opts' = opts /\ RecordTaken(m)
    BY RecordWays
  <1> HIDE DEF m
  <1>2. /\ written \in Nat /\ block \in Nat /\ block <= Block /\ Block \in Nat
        /\ EndBytes \in Nat /\ Reserve \in Nat
    BY StreamCounts
  <1>3. opts \in Options /\ opts.max # Nil
    BY <1>1 DEF ReplayTypeOK
  <1>4. /\ opts.max \in Nat /\ Limit(opts) \in Nat /\ Margin(opts) \in Nat
        /\ Limit(opts) <= opts.max
        /\ opts.trailer => Limit(opts) + Reserve <= opts.max
        /\ \A b \in Sizes : Block + b + EndBytes <= Margin(opts) + 1
    BY <1>3, CapFacts
  <1>5. CASE out # "open" /\ UNCHANGED <<out, written>>
    BY <1>1, <1>3, <1>5 DEF CapKept
  <1>6. CASE out = "open" /\ WriteFails(m)
    <2>1. Max(Sizes) \in Sizes /\ Max(Sizes) \in Nat
      BY LongestRecord
    <2>2. written' \in Int /\ written' <= written + block + Max(Sizes) /\ out' = "failed"
      BY <1>2, <1>6, <2>1 DEF WriteFails
    <2>3. written + Margin(opts) < Limit(opts)
      BY <1>3, <1>6 DEF CapKept
    <2>4. Block + Max(Sizes) + EndBytes <= Margin(opts) + 1
      BY <1>4, <2>1
    <2>5. written' <= opts.max
      BY <1>2, <1>4, <2>1, <2>2, <2>3, <2>4
    <2>6. QED
      BY <1>1, <2>2, <2>5
  <1>7. ASSUME out = "open", NEW b \in Sizes, NEW h \in 0..Block, WriteRecord(m, b, h)
        PROVE  IF out' = "open" THEN written' + Margin(opts') < Limit(opts')
                                ELSE written' <= opts'.max
    <2> DEFINE bytes == written + block + b - h
    <2>1. /\ b \in Nat /\ h \in Nat /\ bytes \in Nat
          /\ \/ ~Near(bytes) /\ written' = bytes /\ out' = out
             \/ CloseStream(bytes, h, m)
      BY <1>7, RecordWritten
    <2>2. written + Margin(opts) < Limit(opts)
      BY <1>3, <1>7 DEF CapKept
    <2>3. bytes + h = written + block + b
      BY <1>2, <2>1
    <2> HIDE DEF bytes
    <2>4. CASE ~Near(bytes) /\ written' = bytes /\ out' = out
      <3>1. ~(bytes + Margin(opts) >= Limit(opts))
        BY <1>3, <2>4 DEF Near
      <3>2. QED
        BY <3>1, <2>1, <2>4, <1>1, <1>4, <1>7
    <2>5. CASE CloseStream(bytes, h, m)
      <3>1. /\ out' \in {"closed", "broken"} /\ written' \in Nat
            /\ written' <= bytes + h + EndBytes + (IF opts.trailer THEN Reserve ELSE 0)
        BY <2>1, <2>5, EndOfStream
      <3>2. Block + b + EndBytes <= Margin(opts) + 1
        BY <1>4
      <3>3. bytes + h + EndBytes <= Limit(opts)
        BY <1>2, <1>4, <2>1, <2>2, <2>3, <3>2
      <3>4. written' <= opts.max
        BY <1>2, <1>4, <2>1, <3>1, <3>3
      <3>5. QED
        BY <1>1, <3>1, <3>4
    <2>6. QED
      BY <2>1, <2>4, <2>5
  <1>8. QED
    BY <1>1, <1>5, <1>6, <1>7 DEF RecordTaken

LEMMA FinishCapped ==
    ASSUME ReplayWriterAssumption, RoomToClose, ReplayTypeOK, CapKept, finish
    PROVE  CapKept'
  <1> SUFFICES ASSUME opts'.max # Nil
               PROVE  IF out' = "open" THEN written' + Margin(opts') < Limit(opts')
                                       ELSE written' <= opts'.max
    BY DEF CapKept
  <1>1. opts' = opts
    BY DEF finish
  <1>2. /\ written \in Nat /\ block \in Nat /\ block <= Block /\ Block \in Nat
        /\ EndBytes \in Nat /\ Reserve \in Nat
    BY StreamCounts
  <1>3. opts \in Options /\ opts.max # Nil
    BY <1>1 DEF ReplayTypeOK
  <1>4. /\ opts.max \in Nat /\ Limit(opts) \in Nat /\ Margin(opts) \in Nat
        /\ Limit(opts) <= opts.max
        /\ opts.trailer => Limit(opts) + Reserve <= opts.max
        /\ \A b \in Sizes : Block + b + EndBytes <= Margin(opts) + 1
    BY <1>3, CapFacts
  <1>5. CASE out = "open" /\ CloseStream(written, block, meta)
    <2>1. /\ out' \in {"closed", "broken"} /\ written' \in Nat
          /\ written' <= written + block + EndBytes + (IF opts.trailer THEN Reserve ELSE 0)
      BY <1>2, <1>5, EndOfStream
    <2>2. written + Margin(opts) < Limit(opts)
      BY <1>3, <1>5 DEF CapKept
    <2>3. PICK b \in Sizes : b \in Nat
      BY LongestRecord
    <2>4. Block + b + EndBytes <= Margin(opts) + 1
      BY <1>4
    <2>5. written + block + EndBytes <= Limit(opts)
      BY <1>2, <1>4, <2>2, <2>3, <2>4
    <2>6. written' <= opts.max
      BY <1>2, <1>4, <2>1, <2>5
    <2>7. QED
      BY <1>1, <2>1, <2>6
  <1>6. CASE out # "open" /\ UNCHANGED <<out, written>>
    BY <1>1, <1>3, <1>6 DEF CapKept
  <1>7. QED
    BY <1>5, <1>6 DEF finish

\* Whatever caps were given, and whichever writes fail: a record is only left out
\* behind the last one the file holds, and finish says that nothing was left out
\* only where the file holds every record, its very end aside (ReplayWriter::write,
\* after_write, finish).
THEOREM ReplayHasNoHoles ==
    ASSUME ReplayWriterAssumption
    PROVE  ReplaySpec => [](ReplayTypeOK /\ StreamFollows /\ SaysTruncated) /\ NoHoles
  <1>1. ReplayInit => ReplayTypeOK /\ StreamFollows
    BY ReplayStarts
  <1>2. ReplayTypeOK /\ StreamFollows /\ [ReplayNext]_replayVars
            => /\ (ReplayTypeOK /\ StreamFollows)'
               /\ [stored' > stored => stored = records]_replayVars
    <2> SUFFICES ASSUME ReplayTypeOK, StreamFollows, [ReplayNext]_replayVars
                 PROVE  /\ (ReplayTypeOK /\ StreamFollows)'
                        /\ [stored' > stored => stored = records]_replayVars
      OBVIOUS
    <2>1. CASE record
      BY <2>1, RecordKeepsTypes, RecordFollows
    <2>2. CASE finish
      <3>1. stored \in Nat
        BY StreamCounts
      <3>2. QED
        BY <2>2, <3>1, FinishKeepsTypes, FinishFollows
    <2>3. CASE UNCHANGED replayVars
      BY <2>3 DEF replayVars, ReplayTypeOK, StreamFollows
    <2>4. QED
      BY <2>1, <2>2, <2>3 DEF ReplayNext
  <1>3. ReplayTypeOK /\ StreamFollows => SaysTruncated
    <2> SUFFICES ASSUME ReplayTypeOK, StreamFollows, answer = FALSE, out # "broken"
                 PROVE  out = "closed" /\ stored = records
      BY DEF SaysTruncated
    <2>1. answer # Nil
      BY DEF ReplayWriterAssumption
    <2>2. ~truncated
      BY <2>1 DEF StreamFollows
    <2>3. out # "open" /\ out # "failed"
      BY <2>1, <2>2 DEF StreamFollows
    <2>4. QED
      BY <2>2, <2>3 DEF StreamFollows, ReplayTypeOK
  <1>4. QED
    BY <1>1, <1>2, <1>3, PTL DEF ReplaySpec, NoHoles

\* With margins that hold what they are set aside for, the file never grows past
\* the cap it was given, trailer and all, closed whole, failed or broken at its end;
\* and the rest of what a replay may be relied on for (ReplayWriter::after_write, end).
THEOREM ReplayIsWhole ==
    ASSUME ReplayWriterAssumption, RoomToClose
    PROVE  ReplaySpec => ReplayWhole
  <1>1. ReplayInit => CapKept
    <2> SUFFICES ASSUME ReplayInit, opts.max # Nil
                 PROVE  written + Margin(opts) < Limit(opts)
      BY DEF CapKept, ReplayInit
    <2>1. opts \in Options /\ written = 0
      BY DEF ReplayInit
    <2>2. Margin(opts) \in Nat /\ Margin(opts) < Limit(opts)
      BY <2>1, CapFacts
    <2>3. QED
      BY <2>1, <2>2
  <1>2. ReplayTypeOK /\ CapKept /\ [ReplayNext]_replayVars => CapKept'
    <2> SUFFICES ASSUME ReplayTypeOK, CapKept, [ReplayNext]_replayVars
                 PROVE  CapKept'
      OBVIOUS
    <2>1. CASE UNCHANGED replayVars
      BY <2>1 DEF replayVars, CapKept
    <2>2. QED
      BY <2>1, RecordCapped, FinishCapped DEF ReplayNext
  <1>3. ReplayTypeOK /\ CapKept => SizeCapped
    <2> SUFFICES ASSUME ReplayTypeOK, CapKept, opts.max # Nil
                 PROVE  written <= opts.max
      BY DEF SizeCapped
    <2>1. /\ opts.max \in Nat /\ Limit(opts) \in Nat /\ Margin(opts) \in Nat
          /\ Limit(opts) <= opts.max
      BY CapFacts DEF ReplayTypeOK
    <2>2. written \in Nat
      BY DEF ReplayTypeOK
    <2>3. CASE out = "open"
      BY <2>1, <2>2, <2>3 DEF CapKept
    <2>4. CASE out # "open"
      BY <2>4 DEF CapKept
    <2>5. QED
      BY <2>3, <2>4
  <1>4. ReplaySpec => [](ReplayTypeOK /\ SaysTruncated) /\ NoHoles
    BY ReplayHasNoHoles, PTL
  <1>5. QED
    BY <1>1, <1>2, <1>3, <1>4, PTL DEF ReplaySpec, ReplayWhole

-----------------------------------------------------------------------------
(* The client's order ledger. *)

Bodies == [deaths : Nat, up : BOOLEAN]
Settlements == [connection : Nat, seq : Nat]
OrdersOnTheWay ==
    [proc : Nat, connection : Nat, seq : Nat, to : game.places \cup {Cast, "nowhere"},
     wait : BOOLEAN, again : Nat]
Mails ==
    [kind : {"refused"}, proc : Nat, seq : Nat]
        \cup [kind : {"snapshot"}, body : Bodies, settled : Settlements]

\* What the client keeps: numbers of orders it has given.
ClientSide ==
    /\ current \in Held /\ rollback \in [seq : Seqs, previous : Held]
    /\ next_seq \in Seqs /\ through \in Seqs /\ sent \subseteq Seqs
    /\ current.seq <= next_seq /\ rollback.previous.seq <= next_seq
    /\ rollback.seq <= next_seq /\ through <= next_seq
    /\ \A n \in sent : through < n /\ n <= next_seq
    /\ proc \in Nat /\ connection \in Nat /\ view \in Bodies

\* What is on the way, and what the server keeps.
Ways ==
    /\ line \in Seq(OrdersOnTheWay) /\ toClient \in Seq(Mails)
    /\ arrived \in 0 .. Len(line)
ServerSideTypes ==
    /\ stands \in [proc : Nat, seq : Nat, to : game.places \cup {"nowhere"}]
    /\ body \in Bodies /\ settled \in Settlements
    /\ reconnects \in Nat /\ restarts \in Nat

\* Whatever a snapshot tells of as settled was settled.
WasAnswered(s) == s.seq # 0 => <<s.connection, s.seq>> \in answered
MailAnswered ==
    \A i \in DOMAIN toClient : toClient[i].kind = "snapshot" => WasAnswered(toClient[i].settled)
SettledAnswered == WasAnswered(settled) /\ MailAnswered

LedgerTypes == game \in Games /\ queued \in BOOLEAN /\ ClientSide /\ Ways /\ ServerSideTypes
LedgerInv == LedgerTypes /\ SettledAnswered /\ ConfirmedMine

\* Bodies grow older: a fall, and standing up again.
Age(b) == 2 * b.deaths + (IF b.up THEN 1 ELSE 0)

RefusalAt(i) == i \in DOMAIN toClient /\ toClient[i].kind = "refused"
SnapshotAt(i) == i \in DOMAIN toClient /\ toClient[i].kind = "snapshot"

\* One process on one connection has one order unanswered, and hears one snapshot
\* after another.
OneOnTheWay ==
    /\ ~queued /\ proc = 1 /\ Len(line) <= 1
    /\ \A i \in DOMAIN line : line[i].proc = 1 /\ ~line[i].wait
    /\ \A i \in DOMAIN toClient : RefusalAt(i) => toClient[i].proc = 1 /\ line = <<>>
    /\ \A i, j \in DOMAIN toClient : RefusalAt(i) /\ RefusalAt(j) => i = j
    /\ \A i, j \in DOMAIN toClient : SnapshotAt(i) /\ SnapshotAt(j) => i = j
    /\ Age(view) <= Age(body)
    /\ \A i \in DOMAIN toClient : SnapshotAt(i) =>
          Age(view) <= Age(toClient[i].body) /\ Age(toClient[i].body) <= Age(body)

\* The hero carries the order out, if it is one.
Fits(o) == o # NoOrder => stands.to = o.to

\* A refusal of order n brings back what the hero carries out, or the ledger was
\* cleared since.
Undoes(n) ==
    \/ current = NoOrder /\ rollback = Unrolled
    \/ rollback # Unrolled /\ rollback.seq = n /\ Fits(rollback.previous)

\* While the client knows the hero's life: an order on the way will stand as the
\* ledger has it or be undone, and without one the ledger has what stands.
LedgerFollows ==
    view = body =>
        /\ line = <<>> /\ (\A i \in DOMAIN toClient : ~RefusalAt(i)) => Fits(current)
        /\ \A i \in DOMAIN line :
              /\ Undoes(line[i].seq)
              /\ current = NoOrder \/ (line[i].to # Cast /\ current.to = line[i].to)
        /\ \A i \in DOMAIN toClient : RefusalAt(i) => Undoes(toClient[i].seq)

QuietInv == OneAtATime => OneOnTheWay /\ LedgerFollows

LEMMA PutLast ==
    ASSUME NEW S, NEW s \in Seq(S), NEW x \in S
    PROVE  /\ Append(s, x) \in Seq(S) /\ Append(s, x) # <<>> /\ Len(Append(s, x)) = Len(s) + 1
           /\ \A i \in DOMAIN s : i \in DOMAIN Append(s, x) /\ Append(s, x)[i] = s[i]
           /\ \A i \in DOMAIN Append(s, x) :
                 (i \in DOMAIN s /\ Append(s, x)[i] = s[i]) \/ (i = Len(s) + 1 /\ i \notin DOMAIN s /\ Append(s, x)[i] = x)
  <1>1. Len(Append(s, x)) = Len(s) + 1 /\ Append(s, x) \in Seq(S) /\ Len(s) \in Nat
    OBVIOUS
  <1>2. DOMAIN s = 1..Len(s) /\ DOMAIN Append(s, x) = 1..(Len(s) + 1)
    BY <1>1
  <1>3. \A i \in 1..Len(s) : Append(s, x)[i] = s[i]
    OBVIOUS
  <1>4. Append(s, x)[Len(s) + 1] = x
    OBVIOUS
  <1>5. Append(s, x) # <<>>
    BY <1>1
  <1>6. QED
    BY <1>1, <1>2, <1>3, <1>4, <1>5

LEMMA TakeFirst ==
    ASSUME NEW S, NEW s \in Seq(S), s # <<>>
    PROVE  /\ Tail(s) \in Seq(S) /\ Len(Tail(s)) = Len(s) - 1 /\ Len(s) \in Nat \ {0}
           /\ Head(s) = s[1] /\ 1 \in DOMAIN s /\ s[1] \in S
           /\ \A i \in DOMAIN Tail(s) :
                 i \in Nat \ {0} /\ i + 1 \in DOMAIN s /\ i + 1 # 1 /\ Tail(s)[i] = s[i + 1]
  <1>1. Tail(s) \in Seq(S) /\ Len(Tail(s)) = Len(s) - 1 /\ Len(s) \in Nat \ {0}
    OBVIOUS
  <1>2. DOMAIN s = 1..Len(s) /\ DOMAIN Tail(s) = 1..(Len(s) - 1)
    BY <1>1
  <1>3. \A i \in 1..(Len(s) - 1) : Tail(s)[i] = s[i + 1]
    OBVIOUS
  <1>4. Head(s) = s[1] /\ s[1] \in S
    BY <1>1, <1>2
  <1>5. QED
    BY <1>1, <1>2, <1>3, <1>4

LEMMA KeepFirst ==
    ASSUME NEW S, NEW s \in Seq(S), NEW k \in 0 .. Len(s)
    PROVE  SubSeq(s, 1, k) \in Seq(S) /\ Len(SubSeq(s, 1, k)) = k
  <1>1. Len(s) \in Nat /\ k \in Nat /\ k <= Len(s)
    OBVIOUS
  <1>2. \A i \in 1..k : s[i] \in S
    BY <1>1
  <1>3. SubSeq(s, 1, k) = [i \in 1..k |-> s[i]]
    BY <1>1
  <1>4. QED
    BY <1>1, <1>2, <1>3

LEMMA JoinedParts ==
    ASSUME NEW S, NEW s \in Seq(S), NEW t \in Seq(S)
    PROVE  s \o t \in Seq(S) /\ Len(s \o t) = Len(s) + Len(t)
  OBVIOUS

LEMMA LeaveOut ==
    ASSUME NEW S, NEW s \in Seq(S), NEW k \in Nat, k < Len(s)
    PROVE  LET t == SubSeq(s, 1, k) \o SubSeq(s, k + 2, Len(s))
           IN  t \in Seq(S) /\ Len(t) = Len(s) - 1 /\ s[k + 1] \in S
  <1> DEFINE a == SubSeq(s, 1, k)
             b == SubSeq(s, k + 2, Len(s))
  <1>1. Len(s) \in Nat
    OBVIOUS
  <1>2. a \in Seq(S) /\ Len(a) = k
    BY <1>1, KeepFirst
  <1>3. b \in Seq(S) /\ Len(b) = Len(s) - k - 1
    BY <1>1
  <1>4. s[k + 1] \in S
    BY <1>1
  <1> HIDE DEF a, b
  <1>5. a \o b \in Seq(S) /\ Len(a \o b) = Len(a) + Len(b)
    BY <1>2, <1>3, JoinedParts
  <1>6. a \o b \in Seq(S) /\ Len(a \o b) = Len(s) - 1 /\ s[k + 1] \in S
    BY <1>1, <1>2, <1>3, <1>4, <1>5
  <1>7. QED
    BY <1>6 DEF a, b

LEMMA EmptyLine ==
    ASSUME NEW S, NEW s \in Seq(S), Len(s) <= 0
    PROVE  s = <<>>
  <1>1. Len(s) \in Nat
    OBVIOUS
  <1>2. Len(s) = 0
    BY <1>1
  <1>3. QED
    BY <1>2

LEMMA GameFacts ==
    ASSUME LedgerAssumption, game \in Games
    PROVE  /\ game.window \in Nat /\ game.orders \in Nat /\ game.deaths \in Nat
           /\ game.reconnects \in Nat /\ game.restarts \in Nat /\ game.shift \in BOOLEAN
           /\ Cast \notin game.places
  BY DEF LedgerAssumption

\* The parts of what the client holds.
LEMMA HeldParts ==
    ASSUME LedgerAssumption, game \in Games, ClientSide
    PROVE  /\ current.seq \in Nat /\ current.to \in game.places \cup {"nowhere"}
           /\ rollback.seq \in Nat /\ rollback.previous \in Held
           /\ next_seq \in Nat /\ next_seq <= game.orders /\ through \in Nat
           /\ NoOrder \in Held /\ NoOrder.seq = 0 /\ Unrolled \in [seq : Seqs, previous : Held]
           /\ Unrolled.seq = 0 /\ Unrolled.previous = NoOrder
  <1>1. game.orders \in Nat
    BY GameFacts
  <1>2. \A n \in Seqs : n \in Nat /\ n <= game.orders
    BY <1>1 DEF Seqs
  <1>3. 0 \in Seqs
    BY <1>1 DEF Seqs
  <1>4. current.seq \in Seqs /\ current.to \in game.places \cup {"nowhere"}
    BY DEF ClientSide, Held
  <1>5. rollback.seq \in Seqs /\ rollback.previous \in Held
    BY DEF ClientSide
  <1>6. NoOrder \in Held /\ NoOrder.seq = 0
    BY <1>3 DEF NoOrder, Held
  <1>7. Unrolled \in [seq : Seqs, previous : Held] /\ Unrolled.seq = 0 /\ Unrolled.previous = NoOrder
    BY <1>3, <1>6 DEF Unrolled
  <1>8. next_seq \in Seqs /\ through \in Seqs
    BY DEF ClientSide
  <1>9. QED
    BY <1>2, <1>4, <1>5, <1>6, <1>7, <1>8

\* An order is given with the next number.
LEMMA TransitionTyped ==
    ASSUME LedgerAssumption, game \in Games, ClientSide, NEW n \in Seqs, n = next_seq + 1,
           NEW o \in Held, o.seq <= n, Transition(n, o)
    PROVE  /\ current' \in Held /\ rollback' \in [seq : Seqs, previous : Held]
           /\ current'.seq <= n /\ rollback'.previous.seq <= n /\ rollback'.seq <= n
           /\ queued' = FALSE
  <1>1. current' = o /\ rollback' = [seq |-> n, previous |-> current] /\ queued' = FALSE
    BY DEF Transition
  <1>2. current \in Held /\ current.seq <= next_seq
    BY DEF ClientSide
  <1>3. rollback'.seq = n /\ rollback'.previous = current
    BY <1>1
  <1>4. n \in Nat /\ current.seq \in Nat /\ next_seq \in Nat
    BY HeldParts, GameFacts DEF Seqs
  <1>5. rollback' \in [seq : Seqs, previous : Held]
    BY <1>1, <1>2
  <1>6. QED
    BY <1>1, <1>2, <1>3, <1>4, <1>5

LEMMA LedgerStarts ==
    ASSUME LedgerAssumption, LedgerInit
    PROVE  LedgerInv
  <1>1. game \in Games /\ queued \in BOOLEAN
    BY DEF LedgerInit
  <1>2. 0 \in Seqs
    BY <1>1, GameFacts DEF Seqs
  <1>3. NoOrder \in Held /\ NoOrder.seq = 0
    BY <1>2 DEF NoOrder, Held
  <1>4. Unrolled \in [seq : Seqs, previous : Held] /\ Unrolled.seq = 0 /\ Unrolled.previous = NoOrder
    BY <1>2, <1>3 DEF Unrolled
  <1>5. view \in Bodies /\ body \in Bodies
    BY DEF LedgerInit, Bodies
  <1>6. ClientSide
    BY <1>2, <1>3, <1>4, <1>5 DEF LedgerInit, ClientSide
  <1>7. Ways
    BY DEF LedgerInit, Ways
  <1>8. stands \in [proc : Nat, seq : Nat, to : game.places \cup {"nowhere"}]
    BY DEF LedgerInit, Idle
  <1>9. settled \in Settlements
    BY DEF LedgerInit, Settlements
  <1>10. ServerSideTypes
    BY <1>5, <1>8, <1>9 DEF LedgerInit, ServerSideTypes
  <1>11. SettledAnswered
    BY DEF LedgerInit, SettledAnswered, MailAnswered, WasAnswered
  <1>12. ConfirmedMine
    BY DEF LedgerInit, ConfirmedMine
  <1>13. QED
    BY <1>1, <1>6, <1>7, <1>10, <1>11, <1>12 DEF LedgerInv, LedgerTypes

LEMMA IssueTyped ==
    ASSUME LedgerAssumption, LedgerInv, NEW to \in game.places \cup {Cast},
           NEW wait \in BOOLEAN, to = Cast => ~wait, Issue(to, wait)
    PROVE  LedgerInv'
  <1> DEFINE n == next_seq + 1
             m == Message(n, to, wait)
  <1>1. game \in Games /\ queued \in BOOLEAN /\ ClientSide /\ Ways /\ ServerSideTypes
    BY DEF LedgerInv, LedgerTypes
  <1>2. /\ next_seq \in Nat /\ through \in Nat /\ NoOrder \in Held /\ NoOrder.seq = 0
        /\ current.seq \in Nat /\ rollback.previous \in Held /\ rollback.seq \in Nat
    BY <1>1, HeldParts
  <1>3. /\ next_seq < game.orders /\ next_seq' = n /\ sent' = sent \cup {n}
        /\ line' = Append(line, m)
        /\ CASE wait -> queued' = TRUE /\ UNCHANGED <<current, rollback>>
             [] ~wait /\ to = Cast -> Transition(n, NoOrder)
             [] OTHER -> Transition(n, [seq |-> n, to |-> to])
    BY DEF Issue
  <1>4. /\ UNCHANGED <<proc, connection, through, view, arrived, toClient, wronged, emptied>>
        /\ UNCHANGED <<stands, behind, body, settled, answered, game, reconnects, restarts>>
    BY DEF Issue, serverSide, bounds
  <1>5. n \in Seqs /\ n \in Nat
    BY <1>1, <1>2, <1>3, GameFacts DEF Seqs
  <1>6. m \in OrdersOnTheWay
    BY <1>1, <1>5 DEF Message, OrdersOnTheWay, ClientSide
  <1> HIDE DEF m
  <1>7. Seqs' = Seqs /\ Held' = Held /\ OrdersOnTheWay' = OrdersOnTheWay
    BY <1>4 DEF Seqs, Held, OrdersOnTheWay
  <1>8. /\ current' \in Held /\ rollback' \in [seq : Seqs, previous : Held]
        /\ current'.seq <= n /\ rollback'.previous.seq <= n /\ rollback'.seq <= n
        /\ queued' \in BOOLEAN
    <2>1. CASE wait
      <3>1. queued' = TRUE /\ current' = current /\ rollback' = rollback
        BY <2>1, <1>3
      <3>2. rollback.previous.seq \in Nat
        BY <1>1, <1>2, GameFacts DEF Held, Seqs
      <3>3. QED
        BY <3>1, <3>2, <1>1, <1>2 DEF ClientSide
    <2>2. CASE ~wait /\ to = Cast
      <3>1. Transition(n, NoOrder)
        BY <2>2, <1>3
      <3>2. NoOrder.seq <= n
        BY <1>2, <1>5
      <3> HIDE DEF n
      <3>3. QED
        BY <3>1, <3>2, <1>1, <1>2, <1>5, TransitionTyped DEF n
    <2>3. CASE ~wait /\ to # Cast
      <3>1. Transition(n, [seq |-> n, to |-> to])
        BY <2>3, <1>3
      <3>2. [seq |-> n, to |-> to] \in Held
        BY <2>3, <1>5 DEF Held
      <3>3. [seq |-> n, to |-> to].seq <= n
        BY <1>5
      <3> HIDE DEF n
      <3>4. QED
        BY <3>1, <3>2, <3>3, <1>1, <1>5, TransitionTyped DEF n
    <2>4. QED
      BY <2>1, <2>2, <2>3
  <1>9. \A k \in sent' : through < k /\ k <= n
    BY <1>1, <1>2, <1>3, GameFacts DEF ClientSide, Seqs
  <1>10. ClientSide'
    BY <1>1, <1>2, <1>3, <1>4, <1>5, <1>7, <1>8, <1>9 DEF ClientSide
  <1>11. Ways'
    <2>1. line \in Seq(OrdersOnTheWay) /\ toClient \in Seq(Mails) /\ arrived \in 0 .. Len(line)
      BY <1>1 DEF Ways
    <2>2. line' \in Seq(OrdersOnTheWay) /\ Len(line') = Len(line) + 1
      BY <2>1, <1>3, <1>6, PutLast
    <2>3. QED
      BY <2>1, <2>2, <1>4, <1>7 DEF Ways
  <1>12. ServerSideTypes' /\ game' \in Games
    BY <1>1, <1>4 DEF ServerSideTypes
  <1>13. SettledAnswered' /\ ConfirmedMine'
    BY <1>4 DEF LedgerInv, SettledAnswered, MailAnswered, WasAnswered, ConfirmedMine
  <1>14. QED
    BY <1>8, <1>10, <1>11, <1>12, <1>13 DEF LedgerInv, LedgerTypes

\* A refusal is heard, or a snapshot.
LEMMA HearTyped ==
    ASSUME LedgerAssumption, LedgerInv, Hear
    PROVE  LedgerInv'
  <1> DEFINE m == Head(toClient)
  <1>1. game \in Games /\ queued \in BOOLEAN /\ ClientSide /\ Ways /\ ServerSideTypes
    BY DEF LedgerInv, LedgerTypes
  <1>2. /\ next_seq \in Nat /\ through \in Nat /\ NoOrder \in Held /\ NoOrder.seq = 0
        /\ current.seq \in Nat /\ rollback.previous \in Held /\ rollback.seq \in Nat
        /\ Unrolled \in [seq : Seqs, previous : Held]
        /\ Unrolled.seq = 0 /\ Unrolled.previous = NoOrder
    BY <1>1, HeldParts
  <1>3. toClient \in Seq(Mails) /\ toClient # <<>> /\ toClient' = Tail(toClient)
    BY <1>1 DEF Hear, Ways
  <1>4. UNCHANGED <<next_seq, proc, connection, line, arrived, stands, behind, body, settled,
                    answered, emptied, game, reconnects, restarts>>
    BY DEF Hear, serverSide, bounds
  <1>5. /\ toClient' \in Seq(Mails) /\ m = toClient[1] /\ 1 \in DOMAIN toClient /\ m \in Mails
        /\ \A i \in DOMAIN toClient' : i + 1 \in DOMAIN toClient /\ toClient'[i] = toClient[i + 1]
    BY <1>3, TakeFirst
  <1>6. \/ m.kind = "refused" /\ Reject(m) /\ UNCHANGED <<queued, sent, through, view>>
        \/ /\ m.kind = "snapshot" /\ view' = m.body
           /\ IF m.body = view
              THEN UNCHANGED <<current, rollback, queued>>
              ELSE current' = NoOrder /\ rollback' = Unrolled /\ queued' = FALSE
           /\ through' = IF Confirms(m.settled) /\ m.settled.seq > through
                         THEN m.settled.seq ELSE through
           /\ sent' = {n \in sent : n > through'}
    BY DEF Hear
  <1> HIDE DEF m
  <1>7. Seqs' = Seqs /\ Held' = Held /\ OrdersOnTheWay' = OrdersOnTheWay
    BY <1>4 DEF Seqs, Held, OrdersOnTheWay
  <1>8. /\ current' \in Held /\ rollback' \in [seq : Seqs, previous : Held]
        /\ current'.seq <= next_seq /\ rollback'.previous.seq <= next_seq
        /\ rollback'.seq <= next_seq
    <2>0. /\ current \in Held /\ rollback \in [seq : Seqs, previous : Held]
          /\ current.seq <= next_seq /\ rollback.previous.seq <= next_seq
          /\ rollback.seq <= next_seq
      BY <1>1 DEF ClientSide
    <2>1. CASE UNCHANGED <<current, rollback>>
      BY <2>0, <2>1
    <2>2. CASE current' = rollback.previous /\ rollback' = Unrolled
      BY <2>0, <2>2, <1>2
    <2>3. CASE current' = NoOrder /\ rollback' = Unrolled
      BY <2>3, <1>2
    <2>4. QED
      BY <2>1, <2>2, <2>3, <1>6 DEF Reject
  <1>9. queued' \in BOOLEAN
    BY <1>1, <1>6
  <1>10. m.kind = "snapshot" => m.body \in Bodies /\ m.settled \in Settlements
    BY <1>5 DEF Mails
  <1>11. view' \in Bodies
    BY <1>1, <1>6, <1>10 DEF ClientSide
  <1>12. /\ through' \in Seqs /\ sent' \subseteq Seqs /\ through' <= next_seq
         /\ \A n \in sent' : through' < n /\ n <= next_seq
         /\ through' # 0 => <<connection, through'>> \in answered
    <2>0. /\ through \in Seqs /\ sent \subseteq Seqs /\ through <= next_seq
          /\ \A n \in sent : through < n /\ n <= next_seq
          /\ through # 0 => <<connection, through>> \in answered
      BY <1>1 DEF ClientSide, LedgerInv, ConfirmedMine
    <2>1. CASE m.kind = "refused" /\ UNCHANGED <<sent, through>>
      BY <2>0, <2>1
    <2>2. CASE /\ through' = through /\ sent' = {n \in sent : n > through'}
      BY <2>0, <2>2
    <2>3. CASE /\ m.kind = "snapshot" /\ Confirms(m.settled) /\ through' = m.settled.seq
               /\ sent' = {n \in sent : n > through'}
      <3>1. m.settled.connection = connection /\ m.settled.seq \in sent
        BY <2>3 DEF Confirms
      <3>2. WasAnswered(m.settled)
        BY <2>3, <1>5 DEF LedgerInv, SettledAnswered, MailAnswered
      <3>3. through' # 0 => <<connection, through'>> \in answered
        BY <2>3, <3>1, <3>2 DEF WasAnswered
      <3>4. through' \in Seqs /\ through' <= next_seq
        BY <2>0, <2>3, <3>1
      <3>5. sent' \subseteq Seqs /\ \A n \in sent' : through' < n /\ n <= next_seq
        BY <2>0, <2>3, <3>4, GameFacts, <1>1 DEF Seqs
      <3>6. QED
        BY <3>3, <3>4, <3>5
    <2>4. QED
      BY <2>1, <2>2, <2>3, <1>6
  <1>13. ClientSide'
    BY <1>1, <1>4, <1>7, <1>8, <1>11, <1>12 DEF ClientSide
  <1>14. Ways'
    BY <1>1, <1>4, <1>5, <1>7 DEF Ways
  <1>15. ServerSideTypes' /\ game' \in Games
    BY <1>1, <1>4 DEF ServerSideTypes
  <1>16. SettledAnswered'
    BY <1>4, <1>5 DEF LedgerInv, SettledAnswered, MailAnswered, WasAnswered
  <1>17. ConfirmedMine'
    BY <1>4, <1>12 DEF ConfirmedMine
  <1>18. QED
    BY <1>9, <1>13, <1>14, <1>15, <1>16, <1>17 DEF LedgerInv, LedgerTypes

\* A fresh connection, on which the standing order goes out again.
LEMMA ReconnectTyped ==
    ASSUME LedgerAssumption, LedgerInv, Reconnect
    PROVE  LedgerInv'
  <1> DEFINE n == next_seq + 1
             m == [Message(n, current.to, FALSE)
                      EXCEPT !.connection = connection + 1, !.again = current.seq]
  <1>1. game \in Games /\ queued \in BOOLEAN /\ ClientSide /\ Ways /\ ServerSideTypes
    BY DEF LedgerInv, LedgerTypes
  <1>2. /\ next_seq \in Nat /\ current.seq \in Nat /\ rollback.seq \in Nat
        /\ current.to \in game.places \cup {"nowhere"} /\ proc \in Nat /\ connection \in Nat
    BY <1>1, HeldParts DEF ClientSide
  <1>3. /\ reconnects' = reconnects + 1 /\ connection' = connection + 1 /\ through' = 0
        /\ toClient' = <<>>
        /\ \/ /\ next_seq < game.orders /\ line' = Append(KeptLine, m)
              /\ next_seq' = n /\ sent' = {n}
              /\ Transition(n, [seq |-> n, to |-> current.to])
           \/ /\ line' = KeptLine /\ sent' = {}
              /\ UNCHANGED <<next_seq, current, rollback, queued>>
    BY DEF Reconnect
  <1>4. UNCHANGED <<proc, view, arrived, stands, behind, body, settled, answered, game, restarts>>
    BY DEF Reconnect, serverSide
  <1>5. m \in OrdersOnTheWay
    <2> DEFINE k == Message(n, current.to, FALSE)
               l == [k EXCEPT !.connection = connection + 1]
    <2>1. k \in OrdersOnTheWay
      BY <1>2 DEF Message, OrdersOnTheWay
    <2> HIDE DEF k
    <2>2. l \in OrdersOnTheWay
      BY <2>1, <1>2 DEF OrdersOnTheWay
    <2> HIDE DEF l
    <2>3. [l EXCEPT !.again = current.seq] \in OrdersOnTheWay
      BY <2>2, <1>2 DEF OrdersOnTheWay
    <2>4. QED
      BY <2>3 DEF k, l
  <1> HIDE DEF m
  <1>6. Seqs' = Seqs /\ Held' = Held /\ OrdersOnTheWay' = OrdersOnTheWay
    BY <1>4 DEF Seqs, Held, OrdersOnTheWay
  <1>7. KeptLine \in Seq(OrdersOnTheWay) /\ Len(KeptLine) = arrived /\ arrived \in Nat
    BY <1>1, KeepFirst DEF KeptLine, Ways
  <1>8. line' \in Seq(OrdersOnTheWay) /\ arrived' \in 0 .. Len(line')
    <2>1. CASE line' = KeptLine
      BY <2>1, <1>4, <1>7
    <2>2. CASE line' = Append(KeptLine, m)
      <3>1. line' \in Seq(OrdersOnTheWay) /\ Len(line') = Len(KeptLine) + 1
        BY <2>2, <1>5, <1>7, PutLast
      <3>2. QED
        BY <3>1, <1>4, <1>7
    <2>3. QED
      BY <2>1, <2>2, <1>3
  <1>9. Ways'
    BY <1>3, <1>6, <1>8 DEF Ways
  <1>10. game.orders \in Nat /\ 0 \in Seqs
    BY <1>1, GameFacts DEF Seqs
  <1>11. ClientSide' /\ queued' \in BOOLEAN
    <2>1. CASE /\ next_seq < game.orders /\ next_seq' = n /\ sent' = {n}
               /\ Transition(n, [seq |-> n, to |-> current.to])
      <3>1. n \in Seqs /\ n \in Nat /\ 0 < n /\ n <= n
        BY <2>1, <1>2, <1>10 DEF Seqs
      <3>2. [seq |-> n, to |-> current.to] \in Held /\ [seq |-> n, to |-> current.to].seq <= n
        BY <3>1, <1>2 DEF Held
      <3> HIDE DEF n
      <3>3. /\ current' \in Held /\ rollback' \in [seq : Seqs, previous : Held]
            /\ current'.seq <= n /\ rollback'.previous.seq <= n /\ rollback'.seq <= n
            /\ queued' = FALSE
        BY <2>1, <3>1, <3>2, <1>1, TransitionTyped DEF n
      <3>4. next_seq' \in Seqs /\ through' \in Seqs /\ sent' \subseteq Seqs
        BY <2>1, <3>1, <1>3, <1>10
      <3>5. through' <= next_seq' /\ \A k \in sent' : through' < k /\ k <= next_seq'
        BY <2>1, <3>1, <1>3
      <3>6. proc' \in Nat /\ connection' \in Nat /\ view' \in Bodies
        BY <1>1, <1>2, <1>3, <1>4 DEF ClientSide
      <3>7. ClientSide'
        BY <2>1, <3>3, <3>4, <3>5, <3>6, <1>6 DEF ClientSide
      <3>8. QED
        BY <3>3, <3>7
    <2>2. CASE sent' = {} /\ UNCHANGED <<next_seq, current, rollback, queued>>
      <3>1. connection' \in Nat
        BY <1>2, <1>3
      <3>2. through' \in Seqs /\ through' <= next_seq
        BY <1>2, <1>3, <1>10
      <3>3. ClientSide'
        BY <2>2, <3>1, <3>2, <1>1, <1>4, <1>6 DEF ClientSide
      <3>4. QED
        BY <2>2, <3>3, <1>1
    <2>3. QED
      BY <2>1, <2>2, <1>3
  <1>12. ServerSideTypes' /\ game' \in Games
    BY <1>1, <1>3, <1>4 DEF ServerSideTypes
  <1>13. SettledAnswered'
    BY <1>3, <1>4 DEF LedgerInv, SettledAnswered, MailAnswered, WasAnswered
  <1>14. ConfirmedMine'
    BY <1>3 DEF ConfirmedMine
  <1>15. QED
    BY <1>9, <1>11, <1>12, <1>13, <1>14 DEF LedgerInv, LedgerTypes

\* Another process of the seat.
LEMMA RestartTyped ==
    ASSUME LedgerAssumption, LedgerInv, Restart
    PROVE  LedgerInv'
  <1>1. game \in Games /\ ClientSide /\ Ways /\ ServerSideTypes
    BY DEF LedgerInv, LedgerTypes
  <1>2. /\ NoOrder \in Held /\ NoOrder.seq = 0 /\ Unrolled \in [seq : Seqs, previous : Held]
        /\ Unrolled.seq = 0 /\ Unrolled.previous = NoOrder
    BY <1>1, HeldParts
  <1>3. /\ restarts' = restarts + 1 /\ proc' = proc + 1 /\ connection' = connection + 1
        /\ current' = NoOrder /\ rollback' = Unrolled /\ queued' = FALSE
        /\ next_seq' = 0 /\ sent' = {} /\ through' = 0 /\ view' = body
        /\ line' = KeptLine /\ toClient' = <<>>
    BY DEF Restart
  <1>4. UNCHANGED <<arrived, stands, behind, body, settled, answered, game, reconnects>>
    BY DEF Restart, serverSide
  <1>5. Seqs' = Seqs /\ Held' = Held /\ OrdersOnTheWay' = OrdersOnTheWay
    BY <1>4 DEF Seqs, Held, OrdersOnTheWay
  <1>6. KeptLine \in Seq(OrdersOnTheWay) /\ Len(KeptLine) = arrived /\ arrived \in Nat
    BY <1>1, KeepFirst DEF KeptLine, Ways
  <1>7. Ways'
    BY <1>3, <1>4, <1>5, <1>6 DEF Ways
  <1>8. 0 \in Seqs
    BY <1>1, GameFacts DEF Seqs
  <1>9. proc' \in Nat /\ connection' \in Nat /\ view' \in Bodies
    BY <1>1, <1>3 DEF ClientSide, ServerSideTypes
  <1>10. ClientSide'
    BY <1>2, <1>3, <1>5, <1>8, <1>9 DEF ClientSide
  <1>11. ServerSideTypes' /\ game' \in Games /\ queued' \in BOOLEAN
    <2>1. ServerSideTypes' /\ game' \in Games
      BY <1>1, <1>3, <1>4 DEF ServerSideTypes
    <2>2. queued' \in BOOLEAN
      BY <1>3
    <2>3. QED
      BY <2>1, <2>2
  <1>12. SettledAnswered'
    BY <1>3, <1>4 DEF LedgerInv, SettledAnswered, MailAnswered, WasAnswered
  <1>13. ConfirmedMine'
    BY <1>3 DEF ConfirmedMine
  <1>14. QED
    BY <1>7, <1>10, <1>11, <1>12, <1>13 DEF LedgerInv, LedgerTypes

\* What the client keeps does not change when the server acts.
LEMMA ClientStays ==
    ASSUME ClientSide, UNCHANGED <<game, client>>
    PROVE  ClientSide' /\ queued' = queued
  <1>1. Seqs' = Seqs /\ Held' = Held
    BY DEF Seqs, Held
  <1>2. QED
    BY <1>1 DEF ClientSide, client

\* A message more for the client, none of them a settlement nobody made.
LEMMA OneMoreMail ==
    ASSUME SettledAnswered, toClient \in Seq(Mails), NEW m \in Mails,
           toClient' = Append(toClient, m), answered \subseteq answered',
           m.kind = "snapshot" => WasAnswered(m.settled)
    PROVE  toClient' \in Seq(Mails) /\ MailAnswered'
  <1>1. /\ toClient' \in Seq(Mails)
        /\ \A i \in DOMAIN toClient' :
              (i \in DOMAIN toClient /\ toClient'[i] = toClient[i]) \/ toClient'[i] = m
    BY PutLast
  <1>2. \A i \in DOMAIN toClient' :
            toClient'[i].kind = "snapshot" => WasAnswered(toClient'[i].settled)
    BY <1>1 DEF SettledAnswered, MailAnswered
  <1>3. QED
    BY <1>1, <1>2 DEF MailAnswered, WasAnswered

LEMMA RefusalTyped ==
    ASSUME NEW o \in OrdersOnTheWay
    PROVE  Refusal(o) \in Mails /\ Refusal(o).kind = "refused"
  BY DEF Refusal, Mails, OrdersOnTheWay

\* An order is taken into the line or refused at once.
LEMMA AdmitTyped ==
    ASSUME LedgerAssumption, LedgerInv, Admit
    PROVE  LedgerInv'
  <1>1. game \in Games /\ queued \in BOOLEAN /\ ClientSide /\ Ways /\ ServerSideTypes
    BY DEF LedgerInv, LedgerTypes
  <1>2. UNCHANGED <<game, client>>
    BY DEF Admit, bounds
  <1>3. UNCHANGED <<stands, behind, body, settled, answered, reconnects, restarts>>
    BY DEF Admit, serverSide, bounds
  <1>4. /\ line \in Seq(OrdersOnTheWay) /\ toClient \in Seq(Mails) /\ arrived \in Nat
        /\ arrived < Len(line) /\ Len(line) \in Nat /\ OrdersOnTheWay' = OrdersOnTheWay
    BY <1>1, <1>2 DEF Admit, Ways, OrdersOnTheWay
  <1>5. Ways' /\ SettledAnswered'
    <2>1. CASE arrived' = arrived + 1 /\ UNCHANGED <<line, toClient>>
      <3>1. Ways'
        BY <2>1, <1>4 DEF Ways
      <3>2. SettledAnswered'
        BY <2>1, <1>3 DEF LedgerInv, SettledAnswered, MailAnswered, WasAnswered
      <3>3. QED
        BY <3>1, <3>2
    <2>2. CASE /\ toClient' = Append(toClient, Refusal(line[arrived + 1]))
               /\ line' = KeptLine \o SubSeq(line, arrived + 2, Len(line))
               /\ UNCHANGED arrived
      <3>1. /\ line' \in Seq(OrdersOnTheWay) /\ Len(line') = Len(line) - 1
            /\ line[arrived + 1] \in OrdersOnTheWay
        BY <2>2, <1>4, LeaveOut DEF KeptLine
      <3>2. /\ Refusal(line[arrived + 1]) \in Mails
            /\ Refusal(line[arrived + 1]).kind # "snapshot"
        BY <3>1, RefusalTyped
      <3>3. toClient' \in Seq(Mails) /\ MailAnswered'
        BY <2>2, <3>2, <1>3, <1>4, OneMoreMail DEF LedgerInv
      <3>4. WasAnswered(settled)'
        BY <1>3 DEF LedgerInv, SettledAnswered, MailAnswered, WasAnswered
      <3>5. SettledAnswered'
        BY <3>3, <3>4 DEF SettledAnswered
      <3>6. Ways'
        BY <2>2, <3>1, <3>3, <1>4 DEF Ways
      <3>7. QED
        BY <3>5, <3>6
    <2>3. QED
      BY <2>1, <2>2 DEF Admit
  <1>6. ClientSide' /\ queued' = queued
    BY <1>1, <1>2, ClientStays
  <1>7. ServerSideTypes' /\ game' \in Games
    BY <1>1, <1>2, <1>3 DEF ServerSideTypes
  <1>8. ConfirmedMine'
    BY <1>2, <1>3 DEF LedgerInv, ConfirmedMine, client
  <1>9. QED
    BY <1>1, <1>5, <1>6, <1>7, <1>8 DEF LedgerInv, LedgerTypes

\* The first order of the line is settled.
LEMMA SettlesTyped ==
    ASSUME LedgerInv, game' = game, NEW m, Settles(m)
    PROVE  /\ m \in OrdersOnTheWay /\ m = line[1] /\ 1 \in DOMAIN line
           /\ line' \in Seq(OrdersOnTheWay) /\ Len(line') = Len(line) - 1 /\ Len(line) \in Nat
           /\ arrived' \in 0 .. Len(line')
           /\ settled' \in Settlements /\ answered \subseteq answered' /\ WasAnswered(settled)'
  <1>1. line \in Seq(OrdersOnTheWay) /\ arrived \in 0 .. Len(line) /\ Len(line) \in Nat
    BY DEF LedgerInv, LedgerTypes, Ways
  <1>2. arrived > 0 /\ m = Head(line) /\ line' = Tail(line) /\ arrived' = arrived - 1
    BY DEF Settles
  <1>3. line # <<>>
    BY <1>1, <1>2
  <1>4. /\ line' \in Seq(OrdersOnTheWay) /\ Len(line') = Len(line) - 1
        /\ m = line[1] /\ 1 \in DOMAIN line /\ m \in OrdersOnTheWay
    BY <1>1, <1>2, <1>3, TakeFirst
  <1>5. arrived' \in 0 .. Len(line')
    BY <1>1, <1>2, <1>4
  <1>6. /\ settled' = [connection |-> m.connection, seq |-> m.seq]
        /\ answered' = answered \cup {<<m.connection, m.seq>>}
    BY DEF Settles
  <1>7. m.connection \in Nat /\ m.seq \in Nat
    BY <1>4 DEF OrdersOnTheWay
  <1>8. settled' \in Settlements
    BY <1>6, <1>7 DEF Settlements
  <1>9. settled'.connection = m.connection /\ settled'.seq = m.seq
    BY <1>6
  <1>10. WasAnswered(settled)'
    BY <1>6, <1>9 DEF WasAnswered
  <1>11. QED
    BY <1>1, <1>4, <1>5, <1>6, <1>8, <1>10

LEMMA ApplyTyped ==
    ASSUME LedgerAssumption, LedgerInv, Apply
    PROVE  LedgerInv'
  <1>1. game \in Games /\ queued \in BOOLEAN /\ ClientSide /\ Ways /\ ServerSideTypes
    BY DEF LedgerInv, LedgerTypes
  <1>2. UNCHANGED <<game, client, toClient, body, reconnects, restarts>>
    BY DEF Apply, bounds
  <1>3. PICK m : /\ Settles(m)
                 /\ stands' = CASE m.wait -> stands
                                [] ~m.wait /\ m.to = Cast -> Idle
                                [] OTHER -> [proc |-> m.proc, seq |-> m.seq, to |-> m.to]
    BY DEF Apply
  <1>4. /\ m \in OrdersOnTheWay /\ line' \in Seq(OrdersOnTheWay) /\ arrived' \in 0 .. Len(line')
        /\ settled' \in Settlements /\ answered \subseteq answered' /\ WasAnswered(settled)'
    BY <1>2, <1>3, SettlesTyped
  <1>5. OrdersOnTheWay' = OrdersOnTheWay
    BY <1>2 DEF OrdersOnTheWay
  <1>6. stands' \in [proc : Nat, seq : Nat, to : game.places \cup {"nowhere"}]
    <2>1. m.proc \in Nat /\ m.seq \in Nat /\ m.to \in game.places \cup {Cast, "nowhere"}
          /\ m.wait \in BOOLEAN
      BY <1>4 DEF OrdersOnTheWay
    <2>2. CASE m.wait
      BY <2>2, <1>1, <1>3 DEF ServerSideTypes
    <2>3. CASE ~m.wait /\ m.to = Cast
      BY <2>3, <1>3 DEF Idle
    <2>4. CASE ~m.wait /\ m.to # Cast
      <3>1. stands' = [proc |-> m.proc, seq |-> m.seq, to |-> m.to]
        BY <2>4, <1>3
      <3>2. QED
        BY <2>1, <2>4, <3>1
    <2>5. QED
      BY <2>2, <2>3, <2>4
  <1>7. Ways'
    BY <1>1, <1>2, <1>4, <1>5 DEF Ways
  <1>8. SettledAnswered'
    BY <1>2, <1>4 DEF LedgerInv, SettledAnswered, MailAnswered, WasAnswered
  <1>9. ConfirmedMine'
    BY <1>2, <1>4 DEF LedgerInv, ConfirmedMine, client
  <1>10. ClientSide' /\ queued' = queued
    BY <1>1, <1>2, ClientStays
  <1>11. ServerSideTypes' /\ game' \in Games
    BY <1>1, <1>2, <1>4, <1>6 DEF ServerSideTypes
  <1>12. QED
    BY <1>1, <1>7, <1>8, <1>9, <1>10, <1>11 DEF LedgerInv, LedgerTypes

LEMMA RefuseTyped ==
    ASSUME LedgerAssumption, LedgerInv, RefuseDue
    PROVE  LedgerInv'
  <1>1. game \in Games /\ queued \in BOOLEAN /\ ClientSide /\ Ways /\ ServerSideTypes
    BY DEF LedgerInv, LedgerTypes
  <1>2. UNCHANGED <<game, client, stands, behind, body, reconnects, restarts>>
    BY DEF RefuseDue, bounds
  <1>3. PICK m : Settles(m) /\ toClient' = Append(toClient, Refusal(m))
    BY DEF RefuseDue
  <1>4. /\ m \in OrdersOnTheWay /\ line' \in Seq(OrdersOnTheWay) /\ arrived' \in 0 .. Len(line')
        /\ settled' \in Settlements /\ answered \subseteq answered' /\ WasAnswered(settled)'
    BY <1>2, <1>3, SettlesTyped
  <1>5. OrdersOnTheWay' = OrdersOnTheWay
    BY <1>2 DEF OrdersOnTheWay
  <1>6. Refusal(m) \in Mails /\ Refusal(m).kind # "snapshot"
    BY <1>4, RefusalTyped
  <1>7. toClient' \in Seq(Mails) /\ MailAnswered'
    BY <1>1, <1>3, <1>4, <1>6, OneMoreMail DEF LedgerInv, Ways
  <1>8. Ways'
    BY <1>4, <1>5, <1>7 DEF Ways
  <1>9. SettledAnswered'
    BY <1>4, <1>7 DEF SettledAnswered
  <1>10. ConfirmedMine'
    BY <1>2, <1>4 DEF LedgerInv, ConfirmedMine, client
  <1>11. ClientSide' /\ queued' = queued
    BY <1>1, <1>2, ClientStays
  <1>12. ServerSideTypes' /\ game' \in Games
    BY <1>1, <1>2, <1>4 DEF ServerSideTypes
  <1>13. QED
    BY <1>1, <1>8, <1>9, <1>10, <1>11, <1>12 DEF LedgerInv, LedgerTypes

LEMMA FallTyped ==
    ASSUME LedgerAssumption, LedgerInv, Fall
    PROVE  LedgerInv'
  <1>1. game \in Games /\ queued \in BOOLEAN /\ ClientSide /\ Ways /\ ServerSideTypes
    BY DEF LedgerInv, LedgerTypes
  <1>2. UNCHANGED <<game, client, line, arrived, toClient, settled, answered, reconnects, restarts>>
    BY DEF Fall, bounds
  <1>3. body' \in Bodies
    <2>1. body \in Bodies /\ body.deaths \in Nat /\ body.up \in BOOLEAN
      BY <1>1 DEF ServerSideTypes, Bodies
    <2>2. CASE body.up
      <3>1. body' = [deaths |-> body.deaths + 1, up |-> FALSE]
        BY <2>2 DEF Fall
      <3>2. QED
        BY <2>1, <3>1 DEF Bodies
    <2>3. CASE ~body.up
      <3>1. body' = [body EXCEPT !.up = TRUE]
        BY <2>3 DEF Fall
      <3>2. QED
        BY <2>1, <3>1 DEF Bodies
    <2>4. QED
      BY <2>2, <2>3
  <1>4. stands' \in [proc : Nat, seq : Nat, to : game.places \cup {"nowhere"}]
    BY DEF Fall, Idle
  <1>5. ServerSideTypes' /\ game' \in Games
    BY <1>1, <1>2, <1>3, <1>4 DEF ServerSideTypes
  <1>6. Ways'
    BY <1>1, <1>2 DEF Ways, OrdersOnTheWay
  <1>7. SettledAnswered' /\ ConfirmedMine'
    BY <1>2 DEF LedgerInv, SettledAnswered, MailAnswered, WasAnswered, ConfirmedMine, client
  <1>8. ClientSide' /\ queued' = queued
    BY <1>1, <1>2, ClientStays
  <1>9. QED
    BY <1>1, <1>5, <1>6, <1>7, <1>8 DEF LedgerInv, LedgerTypes

LEMMA SnapshotTyped ==
    ASSUME LedgerAssumption, LedgerInv, Snapshot
    PROVE  LedgerInv'
  <1> DEFINE m == [kind |-> "snapshot", body |-> body, settled |-> settled]
  <1>1. game \in Games /\ queued \in BOOLEAN /\ ClientSide /\ Ways /\ ServerSideTypes
    BY DEF LedgerInv, LedgerTypes
  <1>2. /\ UNCHANGED <<game, client, line, arrived, reconnects, restarts>>
        /\ UNCHANGED <<stands, behind, body, settled, answered>>
    BY DEF Snapshot, bounds, serverSide
  <1>3. toClient' = Append(toClient, m)
    BY DEF Snapshot
  <1>4. m \in Mails /\ m.settled = settled
    BY <1>1 DEF Mails, ServerSideTypes
  <1>5. WasAnswered(settled)
    BY DEF LedgerInv, SettledAnswered
  <1> HIDE DEF m
  <1>6. toClient' \in Seq(Mails) /\ MailAnswered'
    BY <1>1, <1>2, <1>3, <1>4, <1>5, OneMoreMail DEF LedgerInv, Ways
  <1>7. SettledAnswered'
    BY <1>2, <1>5, <1>6 DEF SettledAnswered, WasAnswered
  <1>8. Ways'
    BY <1>1, <1>2, <1>6 DEF Ways, OrdersOnTheWay
  <1>9. ServerSideTypes' /\ game' \in Games
    BY <1>1, <1>2 DEF ServerSideTypes
  <1>10. ConfirmedMine'
    BY <1>2 DEF LedgerInv, ConfirmedMine, client
  <1>11. ClientSide' /\ queued' = queued
    BY <1>1, <1>2, ClientStays
  <1>12. QED
    BY <1>1, <1>7, <1>8, <1>9, <1>10, <1>11 DEF LedgerInv, LedgerTypes

\* The inductive invariant of the ledger: every number it keeps is one the process
\* gave, and whatever a snapshot says is settled was.
THEOREM LedgerInvariant ==
    ASSUME LedgerAssumption
    PROVE  LedgerSpec => []LedgerInv
  <1>1. LedgerInit => LedgerInv
    BY LedgerStarts
  <1>2. LedgerInv /\ [LedgerNext]_ledgerVars => LedgerInv'
    <2> SUFFICES ASSUME LedgerInv, [LedgerNext]_ledgerVars
                 PROVE  LedgerInv'
      OBVIOUS
    <2>1. ASSUME NEW to \in game.places, NEW wait \in BOOLEAN, Issue(to, wait)
          PROVE  LedgerInv'
      <3>1. Cast \notin game.places
        BY GameFacts DEF LedgerInv, LedgerTypes
      <3>2. QED
        BY <2>1, <3>1, IssueTyped
    <2>2. CASE Issue(Cast, FALSE)
      BY <2>2, IssueTyped
    <2>3. CASE UNCHANGED ledgerVars
      <3>1. /\ UNCHANGED <<game, client, line, arrived, toClient, reconnects, restarts>>
            /\ UNCHANGED <<stands, behind, body, settled, answered>>
        BY <2>3 DEF ledgerVars, bounds, serverSide
      <3>2. game \in Games /\ queued \in BOOLEAN /\ ClientSide /\ Ways /\ ServerSideTypes
        BY DEF LedgerInv, LedgerTypes
      <3>3. ClientSide' /\ queued' = queued
        BY <3>1, <3>2, ClientStays
      <3>4. Ways' /\ ServerSideTypes' /\ game' \in Games
        BY <3>1, <3>2 DEF Ways, OrdersOnTheWay, ServerSideTypes
      <3>5. SettledAnswered' /\ ConfirmedMine'
        BY <3>1 DEF LedgerInv, SettledAnswered, MailAnswered, WasAnswered, ConfirmedMine, client
      <3>6. QED
        BY <3>2, <3>3, <3>4, <3>5 DEF LedgerInv, LedgerTypes
    <2>4. QED
      BY <2>1, <2>2, <2>3, HearTyped, RestartTyped, ReconnectTyped, AdmitTyped, ApplyTyped,
         RefuseTyped, FallTyped, SnapshotTyped DEF LedgerNext
  <1>3. QED
    BY <1>1, <1>2, PTL DEF LedgerSpec

LEMMA LedgerTyped ==
    ASSUME LedgerInv
    PROVE  LedgerTypeOK /\ ConfirmedMine
  <1>1. game \in Games /\ queued \in BOOLEAN /\ ClientSide /\ Ways /\ ServerSideTypes
    BY DEF LedgerInv, LedgerTypes
  <1>2. arrived \in 0 .. Len(line)
    BY <1>1 DEF Ways
  <1>3. stands.to \in game.places \cup {"nowhere"}
    BY <1>1 DEF ServerSideTypes
  <1>4. LedgerTypeOK
    BY <1>1, <1>2, <1>3 DEF LedgerTypeOK, ClientSide
  <1>5. QED
    BY <1>4 DEF LedgerInv

-----------------------------------------------------------------------------
(* A client that has one order on the way at a time. *)

\* What is kept of the game, the process and its bounds by every step of it.
LEMMA StaysAlone ==
    ASSUME LedgerInv, OneAtATime, Reconnect \/ Restart
    PROVE  FALSE
  <1>1. reconnects \in Nat /\ restarts \in Nat
    BY DEF LedgerInv, LedgerTypes, ServerSideTypes
  <1>2. game.reconnects = 0 /\ game.restarts = 0
    BY DEF OneAtATime
  <1>3. reconnects < 0 \/ restarts < 0
    BY <1>2 DEF Reconnect, Restart
  <1>4. QED
    BY <1>1, <1>3

LEMMA AgeIsNat ==
    ASSUME NEW b \in Bodies
    PROVE  Age(b) \in Nat
  <1>1. b.deaths \in Nat
    BY DEF Bodies
  <1>2. (IF b.up THEN 1 ELSE 0) \in Nat
    OBVIOUS
  <1>3. QED
    BY <1>1, <1>2 DEF Age

\* With nothing unanswered, nothing of this process is on the way.
LEMMA NothingUnanswered ==
    ASSUME LedgerAssumption, LedgerInv, OneAtATime, OneOnTheWay, Unanswered < game.window
    PROVE  line = <<>> /\ \A i \in DOMAIN toClient : ~RefusalAt(i)
  <1> DEFINE L == {i \in DOMAIN line : line[i].proc = proc}
             R == {i \in DOMAIN toClient : toClient[i].kind = "refused" /\ toClient[i].proc = proc}
  <1>1. line \in Seq(OrdersOnTheWay) /\ toClient \in Seq(Mails)
    BY DEF LedgerInv, LedgerTypes, Ways
  <1>2. /\ DOMAIN line = 1 .. Len(line) /\ Len(line) \in Nat
        /\ DOMAIN toClient = 1 .. Len(toClient) /\ Len(toClient) \in Nat
    BY <1>1
  <1>3. IsFiniteSet(DOMAIN line) /\ IsFiniteSet(DOMAIN toClient)
    <2>1. IsFiniteSet(1 .. Len(line)) /\ IsFiniteSet(1 .. Len(toClient))
      BY <1>2, FS_Interval
    <2>2. QED
      BY <2>1, <1>2
  <1>4. IsFiniteSet(L) /\ IsFiniteSet(R)
    <2>1. L \subseteq DOMAIN line /\ R \subseteq DOMAIN toClient
      OBVIOUS
    <2>2. QED
      BY <1>3, <2>1, FS_Subset
  <1>5. Cardinality(L) \in Nat /\ Cardinality(R) \in Nat
    BY <1>4, FS_CardinalityType
  <1>6. Cardinality(L) + Cardinality(R) < game.window
    BY DEF Unanswered
  <1>7. game.window \in Nat /\ game.window <= 1
    BY GameFacts DEF OneAtATime, LedgerInv, LedgerTypes
  <1>8. Cardinality(L) = 0 /\ Cardinality(R) = 0
    BY <1>5, <1>6, <1>7
  <1>9. L = {} /\ R = {}
    BY <1>4, <1>8, FS_EmptySet
  <1>10. DOMAIN line = {}
    BY <1>9 DEF OneOnTheWay
  <1>11. line = <<>>
    BY <1>1, <1>2, <1>10
  <1>12. \A i \in DOMAIN toClient : ~RefusalAt(i)
    BY <1>9 DEF OneOnTheWay, RefusalAt
  <1>13. QED
    BY <1>11, <1>12

LEMMA QuietStarts ==
    ASSUME LedgerInit
    PROVE  QuietInv
  <1>1. line = <<>> /\ toClient = <<>> /\ current = NoOrder /\ ~queued /\ proc = 1
        /\ view = body /\ view \in Bodies
    BY DEF LedgerInit, Bodies
  <1>2. Age(view) \in Nat
    BY <1>1, AgeIsNat
  <1>3. OneOnTheWay
    BY <1>1, <1>2 DEF OneOnTheWay
  <1>4. LedgerFollows
    BY <1>1 DEF LedgerFollows, Fits
  <1>5. QED
    BY <1>3, <1>4 DEF QuietInv

\* The order given is the only one on the way, and undone if it is refused.
LEMMA QuietIssue ==
    ASSUME LedgerAssumption, LedgerInv, OneAtATime, OneOnTheWay, LedgerFollows,
           NEW to, NEW wait \in BOOLEAN, Issue(to, wait)
    PROVE  OneOnTheWay' /\ LedgerFollows'
  <1> DEFINE n == next_seq + 1
             m == Message(n, to, wait)
  <1>1. line = <<>> /\ \A i \in DOMAIN toClient : ~RefusalAt(i)
    BY NothingUnanswered DEF Issue
  <1>2. ~wait
    BY DEF Issue, OneAtATime
  <1>3. /\ line' = Append(line, m)
        /\ IF to = Cast THEN Transition(n, NoOrder) ELSE Transition(n, [seq |-> n, to |-> to])
    BY <1>2 DEF Issue
  <1>4. UNCHANGED <<proc, view, toClient, stands, body>>
    BY DEF Issue, serverSide
  <1>5. next_seq \in Nat /\ n # 0
    BY HeldParts DEF LedgerInv, LedgerTypes
  <1>6. m.proc = proc /\ m.seq = n /\ m.to = to /\ m.wait = wait
    BY DEF Message
  <1> HIDE DEF m
  <1>7. line' = <<m>>
    BY <1>1, <1>3
  <1>8. Len(line') = 1 /\ DOMAIN line' = {1} /\ line'[1] = m /\ line' # <<>>
    BY <1>7
  <1>9. queued' = FALSE /\ rollback' = [seq |-> n, previous |-> current]
    BY <1>3 DEF Transition
  <1>10. OneOnTheWay'
    <2>1. ~queued' /\ proc' = 1 /\ Len(line') <= 1
      BY <1>4, <1>8, <1>9 DEF OneOnTheWay
    <2>2. \A i \in DOMAIN line' : line'[i].proc = 1 /\ ~line'[i].wait
      BY <1>2, <1>6, <1>8 DEF OneOnTheWay
    <2>3. \A i \in DOMAIN toClient' : ~(RefusalAt(i)')
      BY <1>1, <1>4 DEF RefusalAt
    <2>4. /\ \A i, j \in DOMAIN toClient' : SnapshotAt(i)' /\ SnapshotAt(j)' => i = j
          /\ Age(view') <= Age(body')
          /\ \A i \in DOMAIN toClient' : SnapshotAt(i)' =>
                Age(view') <= Age(toClient'[i].body) /\ Age(toClient'[i].body) <= Age(body')
      BY <1>4 DEF OneOnTheWay, SnapshotAt
    <2>5. QED
      BY <2>1, <2>2, <2>3, <2>4 DEF OneOnTheWay, Age
  <1>11. LedgerFollows'
    <2> SUFFICES ASSUME view' = body'
                 PROVE  /\ Undoes(line[1].seq)'
                        /\ current' = NoOrder \/ (line'[1].to # Cast /\ current'.to = line'[1].to)
      <3>1. \A i \in DOMAIN toClient' : ~(RefusalAt(i)')
        BY <1>1, <1>4 DEF RefusalAt
      <3>2. QED
        BY <3>1, <1>8 DEF LedgerFollows
    <2>1. Fits(current)
      BY <1>1, <1>4 DEF LedgerFollows
    <2>2. rollback'.seq = n /\ rollback'.previous = current /\ rollback' # Unrolled
      BY <1>5, <1>9 DEF Unrolled
    <2>3. Undoes(line[1].seq)'
      BY <2>1, <2>2, <1>4, <1>6, <1>8 DEF Undoes, Fits
    <2>4. current' = NoOrder \/ (to # Cast /\ current'.to = to)
      BY <1>3 DEF Transition
    <2>5. QED
      BY <2>3, <2>4, <1>6, <1>8
  <1>12. QED
    BY <1>10, <1>11

\* A message is heard: a refusal undoes the order it is about, another body clears
\* the ledger.
LEMMA QuietHear ==
    ASSUME LedgerAssumption, LedgerInv, OneAtATime, OneOnTheWay, LedgerFollows, Hear
    PROVE  OneOnTheWay' /\ LedgerFollows'
  <1> DEFINE m == Head(toClient)
  <1>1. toClient \in Seq(Mails) /\ toClient # <<>> /\ toClient' = Tail(toClient)
    BY DEF Hear, LedgerInv, LedgerTypes, Ways
  <1>2. UNCHANGED <<proc, line, stands, body>>
    BY DEF Hear, serverSide
  <1>3. /\ m = toClient[1] /\ 1 \in DOMAIN toClient
        /\ \A i \in DOMAIN toClient' : /\ i \in Nat \ {0} /\ i + 1 \in DOMAIN toClient
                                       /\ i + 1 # 1 /\ toClient'[i] = toClient[i + 1]
    BY <1>1, TakeFirst
  <1>4. \/ m.kind = "refused" /\ Reject(m) /\ UNCHANGED <<queued, view>>
        \/ /\ m.kind = "snapshot" /\ view' = m.body
           /\ IF m.body = view
              THEN UNCHANGED <<current, rollback, queued>>
              ELSE current' = NoOrder /\ rollback' = Unrolled /\ queued' = FALSE
    BY DEF Hear
  <1> HIDE DEF m
  <1>5. \A i \in DOMAIN toClient' :
            /\ RefusalAt(i)' => RefusalAt(i + 1)
            /\ SnapshotAt(i)' => SnapshotAt(i + 1)
    BY <1>3 DEF RefusalAt, SnapshotAt
  <1>6. OneOnTheWay'
    <2>1. ~queued' /\ proc' = 1 /\ Len(line') <= 1
      BY <1>2, <1>4 DEF OneOnTheWay
    <2>2. \A i \in DOMAIN line' : line'[i].proc = 1 /\ ~line'[i].wait
      BY <1>2 DEF OneOnTheWay
    <2>3. \A i \in DOMAIN toClient' : RefusalAt(i)' => toClient'[i].proc = 1 /\ line' = <<>>
      BY <1>2, <1>3, <1>5 DEF OneOnTheWay
    <2>4. \A i, j \in DOMAIN toClient' :
              /\ RefusalAt(i)' /\ RefusalAt(j)' => i + 1 = j + 1
              /\ SnapshotAt(i)' /\ SnapshotAt(j)' => i + 1 = j + 1
      BY <1>3, <1>5 DEF OneOnTheWay
    <2>5. \A i, j \in DOMAIN toClient' :
              /\ RefusalAt(i)' /\ RefusalAt(j)' => i = j
              /\ SnapshotAt(i)' /\ SnapshotAt(j)' => i = j
      BY <2>4, <1>3
    <2>6. /\ Age(view') <= Age(body')
          /\ \A i \in DOMAIN toClient' : SnapshotAt(i)' =>
                Age(view') <= Age(toClient'[i].body) /\ Age(toClient'[i].body) <= Age(body')
      <3>1. CASE m.kind = "refused" /\ view' = view
        BY <3>1, <1>2, <1>3, <1>5 DEF OneOnTheWay
      <3>2. CASE m.kind = "snapshot" /\ view' = m.body
        <4>1. SnapshotAt(1)
          BY <3>2, <1>3 DEF SnapshotAt
        <4>2. \A i \in DOMAIN toClient' : ~(SnapshotAt(i)')
          BY <4>1, <1>3, <1>5 DEF OneOnTheWay
        <4>3. Age(view') <= Age(body')
          BY <4>1, <3>2, <1>2, <1>3 DEF OneOnTheWay
        <4>4. QED
          BY <4>2, <4>3
      <3>3. QED
        BY <3>1, <3>2, <1>4
    <2>7. QED
      BY <2>1, <2>2, <2>3, <2>5, <2>6 DEF OneOnTheWay, Age
  <1>7. LedgerFollows'
    <2>1. CASE m.kind = "refused" /\ Reject(m) /\ view' = view
      <3> SUFFICES ASSUME view' = body'
                   PROVE  Fits(current)' /\ line' = <<>> /\ \A i \in DOMAIN toClient' : ~(RefusalAt(i)')
        BY DEF LedgerFollows
      <3>1. RefusalAt(1)
        BY <2>1, <1>3 DEF RefusalAt
      <3>2. line = <<>> /\ \A i \in DOMAIN toClient' : ~(RefusalAt(i)')
        BY <3>1, <1>3, <1>5 DEF OneOnTheWay
      <3>3. Undoes(m.seq)
        BY <2>1, <3>1, <1>2, <1>3 DEF LedgerFollows
      <3>4. Fits(current)'
        <4>1. CASE current = NoOrder /\ rollback = Unrolled
          BY <4>1, <2>1 DEF Reject, Fits
        <4>2. CASE rollback # Unrolled /\ rollback.seq = m.seq /\ Fits(rollback.previous)
          BY <4>2, <2>1, <1>2 DEF Reject, Fits
        <4>3. QED
          BY <3>3, <4>1, <4>2 DEF Undoes
      <3>5. QED
        BY <3>2, <3>4, <1>2
    <2>2. CASE m.kind = "snapshot" /\ view' = view /\ UNCHANGED <<current, rollback>>
      <3> SUFFICES ASSUME view' = body'
                   PROVE  LedgerFollows'
        BY DEF LedgerFollows
      <3>1. ~RefusalAt(1)
        BY <2>2, <1>3 DEF RefusalAt
      <3>2. (\A i \in DOMAIN toClient' : ~(RefusalAt(i)')) => \A i \in DOMAIN toClient : ~RefusalAt(i)
        <4>1. DOMAIN toClient = 1 .. Len(toClient) /\ Len(toClient) \in Nat
              /\ DOMAIN toClient' = 1 .. (Len(toClient) - 1)
          BY <1>1
        <4>2. ASSUME NEW i \in DOMAIN toClient, RefusalAt(i)
              PROVE  i - 1 \in DOMAIN toClient' /\ RefusalAt(i - 1)'
          <5>1. i # 1 /\ i \in Nat
            BY <3>1, <4>1, <4>2
          <5>2. i - 1 \in DOMAIN toClient' /\ (i - 1) + 1 = i
            BY <4>1, <5>1
          <5>3. toClient'[i - 1] = toClient[i]
            BY <5>2, <1>3
          <5>4. QED
            BY <5>2, <5>3, <4>2 DEF RefusalAt
        <4>3. QED
          BY <4>2
      <3>3. line' = <<>> /\ (\A i \in DOMAIN toClient' : ~(RefusalAt(i)')) => Fits(current)'
        BY <2>2, <3>2, <1>2 DEF LedgerFollows, Fits
      <3>4. \A i \in DOMAIN line' :
                /\ Undoes(line[i].seq)'
                /\ current' = NoOrder \/ (line'[i].to # Cast /\ current'.to = line'[i].to)
        BY <2>2, <1>2 DEF LedgerFollows, Undoes, Fits
      <3>5. \A i \in DOMAIN toClient' : RefusalAt(i)' => Undoes(toClient[i].seq)'
        <4>1. ASSUME NEW i \in DOMAIN toClient', RefusalAt(i)'
              PROVE  Undoes(toClient[i].seq)'
          <5>1. Undoes(toClient[i + 1].seq)
            BY <4>1, <2>2, <1>2, <1>3, <1>5 DEF LedgerFollows
          <5>2. toClient'[i] = toClient[i + 1]
            BY <4>1, <1>3
          <5>3. QED
            BY <5>1, <5>2, <2>2, <1>2 DEF Undoes, Fits
        <4>2. QED
          BY <4>1
      <3>6. QED
        BY <3>3, <3>4, <3>5 DEF LedgerFollows
    <2>3. CASE current' = NoOrder /\ rollback' = Unrolled
      BY <2>3 DEF LedgerFollows, Fits, Undoes
    <2>4. QED
      BY <2>1, <2>2, <2>3, <1>4
  <1>8. QED
    BY <1>6, <1>7

\* The order on the way is refused, in its line or at once.
LEMMA QuietRefused ==
    ASSUME LedgerInv, OneOnTheWay, LedgerFollows, 1 \in DOMAIN line, line' = <<>>,
           toClient' = Append(toClient, Refusal(line[1])), UNCHANGED <<client, stands, body>>
    PROVE  OneOnTheWay' /\ LedgerFollows'
  <1> DEFINE m == Refusal(line[1])
  <1>1. toClient \in Seq(Mails) /\ line \in Seq(OrdersOnTheWay)
    BY DEF LedgerInv, LedgerTypes, Ways
  <1>2. line[1] \in OrdersOnTheWay
    BY <1>1
  <1>3. m \in Mails /\ m.kind = "refused" /\ m.proc = line[1].proc /\ m.seq = line[1].seq
    BY <1>2, RefusalTyped DEF Refusal
  <1> HIDE DEF m
  <1>4. \A i \in DOMAIN toClient' :
            \/ i \in DOMAIN toClient /\ toClient'[i] = toClient[i]
            \/ i = Len(toClient) + 1 /\ toClient'[i] = m
    BY <1>1, <1>3, PutLast DEF m
  <1>5. UNCHANGED <<queued, proc, view, current, rollback>>
    BY DEF client
  <1>6. line # <<>> /\ \A i \in DOMAIN toClient : ~RefusalAt(i)
    BY DEF OneOnTheWay
  <1>7. \A i \in DOMAIN toClient' : RefusalAt(i)' => i = Len(toClient) + 1 /\ toClient'[i] = m
    BY <1>4, <1>6 DEF RefusalAt
  <1>8. \A i \in DOMAIN toClient' : SnapshotAt(i)' => SnapshotAt(i) /\ toClient'[i] = toClient[i]
    BY <1>3, <1>4 DEF SnapshotAt
  <1>9. OneOnTheWay'
    <2>1. ~queued' /\ proc' = 1 /\ Len(line') <= 1 /\ DOMAIN line' = {}
      BY <1>5 DEF OneOnTheWay
    <2>2. \A i \in DOMAIN toClient' : RefusalAt(i)' => toClient'[i].proc = 1 /\ line' = <<>>
      BY <1>3, <1>7 DEF OneOnTheWay
    <2>3. \A i, j \in DOMAIN toClient' :
              /\ RefusalAt(i)' /\ RefusalAt(j)' => i = j
              /\ SnapshotAt(i)' /\ SnapshotAt(j)' => i = j
      BY <1>7, <1>8 DEF OneOnTheWay, SnapshotAt
    <2>4. /\ Age(view') <= Age(body')
          /\ \A i \in DOMAIN toClient' : SnapshotAt(i)' =>
                Age(view') <= Age(toClient'[i].body) /\ Age(toClient'[i].body) <= Age(body')
      BY <1>5, <1>8 DEF OneOnTheWay, SnapshotAt
    <2>5. QED
      BY <2>1, <2>2, <2>3, <2>4 DEF OneOnTheWay, Age
  <1>10. LedgerFollows'
    <2> SUFFICES ASSUME view' = body'
                 PROVE  LedgerFollows'
      BY DEF LedgerFollows
    <2>1. Undoes(m.seq)
      BY <1>3, <1>5 DEF LedgerFollows
    <2>2. \A i \in DOMAIN toClient' : RefusalAt(i)' => Undoes(toClient[i].seq)'
      BY <2>1, <1>5, <1>7 DEF Undoes, Fits
    <2>3. ~\A i \in DOMAIN toClient' : ~(RefusalAt(i)')
      <3>1. PICK i \in DOMAIN toClient' : toClient'[i] = m
        BY <1>1, <1>3 DEF m
      <3>2. RefusalAt(i)'
        BY <3>1, <1>3 DEF RefusalAt
      <3>3. QED
        BY <3>2
    <2>4. DOMAIN line' = {}
      OBVIOUS
    <2>5. QED
      BY <2>2, <2>3, <2>4 DEF LedgerFollows
  <1>11. QED
    BY <1>9, <1>10

LEMMA QuietAdmit ==
    ASSUME LedgerAssumption, LedgerInv, OneOnTheWay, LedgerFollows, Admit
    PROVE  OneOnTheWay' /\ LedgerFollows'
  <1>1. UNCHANGED <<client, stands, body>>
    BY DEF Admit, serverSide
  <1>2. /\ line \in Seq(OrdersOnTheWay) /\ arrived \in 0 .. Len(line) /\ Len(line) \in Nat
        /\ arrived < Len(line) /\ Len(line) <= 1
    BY DEF LedgerInv, LedgerTypes, Ways, Admit, OneOnTheWay
  <1>3. arrived = 0 /\ Len(line) = 1 /\ arrived \in Nat
    <2> DEFINE n == Len(line)
    <2>1. arrived \in 0 .. n /\ n \in Nat /\ arrived < n /\ n <= 1
      BY <1>2
    <2> HIDE DEF n
    <2>2. arrived = 0 /\ n = 1
      BY <2>1
    <2>3. QED
      BY <2>2 DEF n
  <1>3a. arrived + 1 = 1 /\ 1 \in DOMAIN line
    BY <1>2, <1>3
  <1>4. CASE UNCHANGED <<line, toClient>>
    BY <1>1, <1>4 DEF OneOnTheWay, LedgerFollows, client, RefusalAt, SnapshotAt, Undoes, Fits, Age
  <1>5. CASE /\ toClient' = Append(toClient, Refusal(line[arrived + 1]))
             /\ line' = KeptLine \o SubSeq(line, arrived + 2, Len(line))
    <2>1. line' \in Seq(OrdersOnTheWay) /\ Len(line') = Len(line) - 1
      BY <1>2, <1>3, <1>5, LeaveOut DEF KeptLine
    <2>2. Len(line') <= 0
      BY <2>1, <1>3
    <2>3. line' = <<>>
      BY <2>1, <2>2, EmptyLine
    <2>4. QED
      BY <2>3, <1>1, <1>3a, <1>5, QuietRefused
  <1>6. QED
    BY <1>4, <1>5 DEF Admit

\* The one order of the line falls due.
LEMMA QuietSettles ==
    ASSUME LedgerInv, OneOnTheWay, game' = game, NEW m, Settles(m)
    PROVE  m = line[1] /\ 1 \in DOMAIN line /\ line' = <<>>
  <1>1. /\ m = line[1] /\ 1 \in DOMAIN line /\ line' \in Seq(OrdersOnTheWay)
        /\ Len(line') = Len(line) - 1 /\ Len(line) \in Nat
    BY SettlesTyped
  <1>2. Len(line) <= 1
    BY DEF OneOnTheWay
  <1>3. Len(line') <= 0
    BY <1>1, <1>2
  <1>4. QED
    BY <1>1, <1>3, EmptyLine

LEMMA QuietRefuse ==
    ASSUME LedgerInv, OneOnTheWay, LedgerFollows, RefuseDue
    PROVE  OneOnTheWay' /\ LedgerFollows'
  <1>1. UNCHANGED <<client, stands, body>> /\ game' = game
    BY DEF RefuseDue, bounds
  <1>2. PICK m : Settles(m) /\ toClient' = Append(toClient, Refusal(m))
    BY DEF RefuseDue
  <1>3. m = line[1] /\ 1 \in DOMAIN line /\ line' = <<>>
    BY <1>1, <1>2, QuietSettles
  <1>4. QED
    BY <1>1, <1>2, <1>3, QuietRefused

\* The order on the way is carried out: what the ledger has of it now stands.
LEMMA QuietApply ==
    ASSUME LedgerInv, OneOnTheWay, LedgerFollows, Apply
    PROVE  OneOnTheWay' /\ LedgerFollows'
  <1>1. UNCHANGED <<client, toClient, body>> /\ game' = game
    BY DEF Apply, bounds
  <1>2. PICK m : /\ Settles(m)
                 /\ stands' = CASE m.wait -> stands
                                [] ~m.wait /\ m.to = Cast -> Idle
                                [] OTHER -> [proc |-> m.proc, seq |-> m.seq, to |-> m.to]
    BY DEF Apply
  <1>3. m = line[1] /\ 1 \in DOMAIN line /\ line' = <<>>
    BY <1>1, <1>2, QuietSettles
  <1>4. UNCHANGED <<queued, proc, view, current, rollback>>
    BY <1>1 DEF client
  <1>5. line # <<>> /\ ~m.wait /\ \A i \in DOMAIN toClient : ~RefusalAt(i)
    BY <1>3 DEF OneOnTheWay
  <1>6. Len(line') <= 1 /\ DOMAIN line' = {}
    BY <1>3
  <1>7. OneOnTheWay'
    BY <1>1, <1>3, <1>4, <1>6 DEF OneOnTheWay, RefusalAt, SnapshotAt, Age
  <1>8. LedgerFollows'
    <2> SUFFICES ASSUME view' = body'
                 PROVE  Fits(current)'
      <3>1. \A i \in DOMAIN toClient' : ~(RefusalAt(i)')
        BY <1>1, <1>5 DEF RefusalAt
      <3>2. QED
        BY <3>1, <1>6 DEF LedgerFollows
    <2>1. current = NoOrder \/ (m.to # Cast /\ current.to = m.to)
      BY <1>1, <1>3, <1>4 DEF LedgerFollows
    <2>2. CASE current = NoOrder
      BY <2>2, <1>4 DEF Fits
    <2>3. CASE m.to # Cast /\ current.to = m.to
      <3>1. stands' = [proc |-> m.proc, seq |-> m.seq, to |-> m.to]
        BY <2>3, <1>2, <1>5
      <3>2. stands'.to = m.to
        BY <3>1
      <3>3. QED
        BY <2>3, <3>2, <1>4 DEF Fits
    <2>4. QED
      BY <2>1, <2>2, <2>3
  <1>9. QED
    BY <1>7, <1>8

\* The hero falls or stands up: the client does not know its life any more.
LEMMA QuietFall ==
    ASSUME LedgerInv, OneOnTheWay, Fall
    PROVE  OneOnTheWay' /\ LedgerFollows'
  <1>1. UNCHANGED <<client, line, toClient>>
    BY DEF Fall
  <1>2. /\ body \in Bodies /\ view \in Bodies /\ toClient \in Seq(Mails)
    BY DEF LedgerInv, LedgerTypes, ServerSideTypes, ClientSide, Ways
  <1>3. body.deaths \in Nat /\ body.up \in BOOLEAN /\ Age(body) \in Nat /\ Age(view) \in Nat
    BY <1>2, AgeIsNat DEF Bodies
  <1>4. Age(body') = Age(body) + 1
    <2>1. CASE body.up
      <3>1. body' = [deaths |-> body.deaths + 1, up |-> FALSE]
        BY <2>1 DEF Fall
      <3>2. body'.deaths = body.deaths + 1 /\ ~body'.up
        BY <3>1
      <3>3. QED
        BY <2>1, <3>2, <1>3 DEF Age
    <2>2. CASE ~body.up
      <3>1. body' = [body EXCEPT !.up = TRUE]
        BY <2>2 DEF Fall
      <3>2. body'.deaths = body.deaths /\ body'.up
        BY <3>1, <1>2 DEF Bodies
      <3>3. QED
        BY <2>2, <3>2, <1>3 DEF Age
    <2>3. QED
      BY <2>1, <2>2
  <1>5. UNCHANGED <<queued, proc, view>>
    BY <1>1 DEF client
  <1>6. Age(view) <= Age(body)
    BY DEF OneOnTheWay
  <1>7. Age(view') < Age(body')
    BY <1>3, <1>4, <1>5, <1>6
  <1>8. view' # body'
    BY <1>3, <1>5, <1>7
  <1>9. LedgerFollows'
    BY <1>8 DEF LedgerFollows
  <1>10. OneOnTheWay'
    <2>1. ASSUME NEW i \in DOMAIN toClient', SnapshotAt(i)'
          PROVE  Age(view') <= Age(toClient'[i].body) /\ Age(toClient'[i].body) <= Age(body')
      <3>1. SnapshotAt(i) /\ i \in DOMAIN toClient /\ toClient'[i] = toClient[i]
        BY <2>1, <1>1 DEF SnapshotAt
      <3>2. Age(view) <= Age(toClient[i].body) /\ Age(toClient[i].body) <= Age(body)
        BY <3>1 DEF OneOnTheWay
      <3>3. toClient[i] \in Mails
        BY <3>1, <1>2
      <3>4. toClient[i].body \in Bodies
        BY <3>1, <3>3 DEF SnapshotAt, Mails
      <3>5. Age(toClient[i].body) \in Nat
        BY <3>4, AgeIsNat
      <3>6. QED
        BY <3>1, <3>2, <3>5, <1>3, <1>4, <1>5
    <2>2. Age(view') <= Age(body')
      BY <1>3, <1>4, <1>5, <1>6
    <2>3. ~queued' /\ proc' = 1 /\ Len(line') <= 1
      BY <1>1, <1>5 DEF OneOnTheWay
    <2>4. \A i \in DOMAIN line' : line'[i].proc = 1 /\ ~line'[i].wait
      BY <1>1 DEF OneOnTheWay
    <2>5. /\ \A i \in DOMAIN toClient' : RefusalAt(i)' => toClient'[i].proc = 1 /\ line' = <<>>
          /\ \A i, j \in DOMAIN toClient' : RefusalAt(i)' /\ RefusalAt(j)' => i = j
          /\ \A i, j \in DOMAIN toClient' : SnapshotAt(i)' /\ SnapshotAt(j)' => i = j
      BY <1>1 DEF OneOnTheWay, RefusalAt, SnapshotAt
    <2>6. QED
      BY <2>1, <2>2, <2>3, <2>4, <2>5 DEF OneOnTheWay, Age
  <1>11. QED
    BY <1>9, <1>10

LEMMA QuietSnapshot ==
    ASSUME LedgerInv, OneOnTheWay, LedgerFollows, Snapshot
    PROVE  OneOnTheWay' /\ LedgerFollows'
  <1> DEFINE m == [kind |-> "snapshot", body |-> body, settled |-> settled]
  <1>1. UNCHANGED <<client, line, stands, body>>
    BY DEF Snapshot, serverSide
  <1>2. UNCHANGED <<queued, proc, view, current, rollback>>
    BY <1>1 DEF client
  <1>3. body \in Bodies /\ settled \in Settlements /\ toClient \in Seq(Mails)
    BY DEF LedgerInv, LedgerTypes, ServerSideTypes, Ways
  <1>4. m \in Mails /\ m.kind = "snapshot" /\ m.body = body
    BY <1>3 DEF Mails
  <1>5. toClient' = Append(toClient, m) /\ \A i \in DOMAIN toClient : ~SnapshotAt(i)
    BY DEF Snapshot, SnapshotAt
  <1> HIDE DEF m
  <1>6. /\ \A i \in DOMAIN toClient : i \in DOMAIN toClient' /\ toClient'[i] = toClient[i]
        /\ \A i \in DOMAIN toClient' :
              \/ i \in DOMAIN toClient /\ toClient'[i] = toClient[i]
              \/ i = Len(toClient) + 1 /\ toClient'[i] = m
    BY <1>3, <1>4, <1>5, PutLast
  <1>7. \A i \in DOMAIN toClient' : RefusalAt(i)' => RefusalAt(i) /\ toClient'[i] = toClient[i]
    BY <1>4, <1>6 DEF RefusalAt
  <1>8. \A i \in DOMAIN toClient' : SnapshotAt(i)' => i = Len(toClient) + 1 /\ toClient'[i] = m
    BY <1>5, <1>6 DEF SnapshotAt
  <1>9. Age(body) \in Nat
    BY <1>3, AgeIsNat
  <1>10. OneOnTheWay'
    <2>1. ~queued' /\ proc' = 1 /\ Len(line') <= 1
      BY <1>1, <1>2 DEF OneOnTheWay
    <2>2. \A i \in DOMAIN line' : line'[i].proc = 1 /\ ~line'[i].wait
      BY <1>1 DEF OneOnTheWay
    <2>3. /\ \A i \in DOMAIN toClient' : RefusalAt(i)' => toClient'[i].proc = 1 /\ line' = <<>>
          /\ \A i, j \in DOMAIN toClient' : RefusalAt(i)' /\ RefusalAt(j)' => i = j
      BY <1>1, <1>7 DEF OneOnTheWay, RefusalAt
    <2>4. \A i, j \in DOMAIN toClient' : SnapshotAt(i)' /\ SnapshotAt(j)' => i = j
      BY <1>8
    <2>5. Age(view') <= Age(body')
      BY <1>1, <1>2 DEF OneOnTheWay
    <2>6. ASSUME NEW i \in DOMAIN toClient', SnapshotAt(i)'
          PROVE  Age(view') <= Age(toClient'[i].body) /\ Age(toClient'[i].body) <= Age(body')
      <3>1. toClient'[i].body = body
        BY <2>6, <1>4, <1>8
      <3>2. QED
        BY <2>5, <3>1, <1>1, <1>9
    <2>7. QED
      BY <2>1, <2>2, <2>3, <2>4, <2>5, <2>6 DEF OneOnTheWay, Age
  <1>11. LedgerFollows'
    <2> SUFFICES ASSUME view' = body'
                 PROVE  LedgerFollows'
      BY DEF LedgerFollows
    <2>0. view = body
      BY <1>1, <1>2
    <2>1. (\A i \in DOMAIN toClient' : ~(RefusalAt(i)')) => \A i \in DOMAIN toClient : ~RefusalAt(i)
      BY <1>6 DEF RefusalAt
    <2>2. line' = <<>> /\ (\A i \in DOMAIN toClient' : ~(RefusalAt(i)')) => Fits(current)'
      BY <2>0, <2>1, <1>1, <1>2 DEF LedgerFollows, Fits
    <2>3. \A i \in DOMAIN line' :
              /\ Undoes(line[i].seq)'
              /\ current' = NoOrder \/ (line'[i].to # Cast /\ current'.to = line'[i].to)
      BY <2>0, <1>1, <1>2 DEF LedgerFollows, Undoes, Fits
    <2>4. ASSUME NEW i \in DOMAIN toClient', RefusalAt(i)'
          PROVE  Undoes(toClient[i].seq)'
      <3>1. Undoes(toClient[i].seq) /\ toClient'[i] = toClient[i]
        BY <2>0, <2>4, <1>7 DEF LedgerFollows, RefusalAt
      <3>2. QED
        BY <3>1, <1>1, <1>2 DEF Undoes, Fits
    <2>5. QED
      BY <2>2, <2>3, <2>4 DEF LedgerFollows
  <1>12. QED
    BY <1>10, <1>11

\* What a client takes for settled was settled, and it was its own order, sent on the
\* connection it is on, whatever other connections and processes sent under the same
\* number; and a client with one order on the way at a time leaves an order unsent as
\* a repeat only while its hero carries it out, through refusals and deaths.  For any
\* places, numbers of orders, deaths, reconnects and restarts.
THEOREM LedgerIsTrue ==
    ASSUME LedgerAssumption
    PROVE  LedgerSpec => []LedgerTrue
  <1>1. LedgerInit => QuietInv
    BY QuietStarts
  <1>2. LedgerInv /\ QuietInv /\ [LedgerNext]_ledgerVars => QuietInv'
    <2> SUFFICES ASSUME LedgerInv, QuietInv, [LedgerNext]_ledgerVars
                 PROVE  QuietInv'
      OBVIOUS
    <2>1. game' = game
      BY DEF LedgerNext, ledgerVars, bounds, Issue, Hear, Restart, Reconnect, Admit, Apply,
             RefuseDue, Fall, Snapshot
    <2>2. SUFFICES ASSUME OneAtATime
                   PROVE  OneOnTheWay' /\ LedgerFollows'
      BY <2>1 DEF QuietInv, OneAtATime
    <2>3. OneOnTheWay /\ LedgerFollows
      BY <2>2 DEF QuietInv
    <2>4. ASSUME NEW to, NEW wait \in BOOLEAN, Issue(to, wait)
          PROVE  OneOnTheWay' /\ LedgerFollows'
      BY <2>2, <2>3, <2>4, QuietIssue
    <2>5. CASE UNCHANGED ledgerVars
      <3>1. UNCHANGED <<queued, proc, view, current, rollback, line, toClient, body, stands>>
        BY <2>5 DEF ledgerVars, client, serverSide
      <3>2. OneOnTheWay'
        BY <2>3, <3>1 DEF OneOnTheWay, RefusalAt, SnapshotAt, Age
      <3>3. LedgerFollows'
        BY <2>3, <3>1 DEF LedgerFollows, RefusalAt, Undoes, Fits
      <3>4. QED
        BY <3>2, <3>3
    <2>6. ~Reconnect /\ ~Restart
      BY <2>2, StaysAlone
    <2>7. QED
      BY <2>2, <2>3, <2>4, <2>5, <2>6, QuietHear, QuietAdmit, QuietApply, QuietRefuse, QuietFall,
         QuietSnapshot DEF LedgerNext
  <1>3. LedgerInv /\ QuietInv => LedgerTrue
    <2> SUFFICES ASSUME LedgerInv, QuietInv
                 PROVE  OneAtATime => RepeatsStand
      BY LedgerTyped DEF LedgerTrue
    <2> SUFFICES ASSUME OneAtATime, line = <<>>, toClient = <<>>, view = body,
                        NEW to \in game.places, repeats(to)
                 PROVE  stands.to = to
      BY DEF RepeatsStand
    <2>1. Fits(current)
      BY DEF QuietInv, LedgerFollows
    <2>2. QED
      BY <2>1 DEF Fits, repeats
  <1>4. QED
    BY <1>1, <1>2, <1>3, LedgerInvariant, PTL DEF LedgerSpec

-----------------------------------------------------------------------------
(* LateFeed: who hears a line and when.                                     *)

\* The ticks held back are the last Delay of those published, so that the newest
\* held is the one the match is on, and what was shown is the tick before them.
FeedClock ==
    /\ ~ended => held = {h \in 1..feedTick : h + Delay > feedTick}
    /\ ~ended => shown = IF feedTick > Delay THEN feedTick - Delay ELSE Unset
    /\ ended => held = {} /\ waiting = {} /\ shown = feedTick /\ feedTick > 0

\* Late spectators were shown nothing that DelayedFeed::shown is not past.
SawWasShown ==
    \A c \in Behind : saw[c] # Unset => saw[c] \in Nat /\ shown \in Nat /\ saw[c] <= shown

\* A line that waits was said live, for others than a side, on the tick it waits on;
\* later lines wait on no earlier ticks.
LinesWait ==
    \A x \in waiting :
        /\ said[x.line].tick = x.on /\ said[x.line].from \notin Behind
        /\ said[x.line].to # "team"
        /\ \A y \in waiting : x.line < y.line => x.on <= y.on

\* What was sent was sent on a step before; a late spectator was sent nothing that
\* waits for it, nor what the same speaker said after that.
HeardApart ==
    /\ ~ended => \A c \in Hearers : \A x \in heard[c] : x.at <= Len(said) + feedTick
    /\ \A c \in Behind : \A x \in heard[c], y \in waiting :
          /\ x.line # y.line
          /\ said[x.line].from = said[y.line].from => x.line < y.line

\* A line for all was heard by whoever was there, or waits for it.
NoneLost ==
    \A n \in SaidLines :
        /\ said[n].there \subseteq present
        /\ said[n].to = "all" => \A c \in said[n].there :
              n \in LinesHeard(c) \/ (c \in Behind /\ \E x \in waiting : x.line = n)

\* Invariant: the inductive one of LateFeed.
FeedInv ==
    /\ FeedTypeOK /\ FeedClock /\ SawWasShown /\ LinesWait /\ HeardApart /\ NoneLost
    /\ NeverEarly /\ HeardInOrder /\ SidesKept

\* The largest of one number is that number.
LEMMA MaxOfOne == ASSUME NEW i \in Int PROVE Max({i}) = i
  BY DEF Max

\* The newest tick held is the one the match is on (DelayedFeed::held.back()).
LEMMA NewestHeld ==
  ASSUME LateFeedAssumption, FeedTypeOK, FeedClock, ~ended
  PROVE  /\ held = {} <=> feedTick = 0
         /\ feedTick > 0 => Max(held) = feedTick
  <1>1. feedTick \in Nat /\ Delay \in Nat \ {0}
    BY DEF LateFeedAssumption, FeedTypeOK, FeedTicks
  <1>2. held = {h \in 1..feedTick : h + Delay > feedTick}
    BY DEF FeedClock
  <1>3. feedTick > 0 => feedTick \in held
    BY <1>1, <1>2
  <1>4. \A h \in held : h \in Int /\ h <= feedTick
    BY <1>1, <1>2
  <1>5. feedTick > 0 => Max(held) = feedTick
    BY <1>1, <1>3, <1>4 DEF Max
  <1> QED BY <1>1, <1>2, <1>3, <1>5

\* On a new tick the one that is Delay ticks old is due, if there is one, and those
\* after it stay (DelayedFeed::push).
LEMMA DueOnPublish ==
  ASSUME LateFeedAssumption, FeedTypeOK, FeedClock, publish
  PROVE  LET feed == held \cup {feedTick'}
         IN  /\ feedTick' = feedTick + 1 /\ feedTick' \in Nat
             /\ feedTick' <= Delay => Due(feed, feedTick') = {}
             /\ feedTick' > Delay => /\ Due(feed, feedTick') = {feedTick' - Delay}
                                     /\ Max(Due(feed, feedTick')) = feedTick' - Delay
             /\ held' = {h \in 1..feedTick' : h + Delay > feedTick'}
             /\ Cardinality(held') <= Delay
  <1> DEFINE feed == held \cup {feedTick'}
  <1>1. feedTick \in Nat /\ Delay \in Nat \ {0}
    BY DEF LateFeedAssumption, FeedTypeOK, FeedTicks
  <1>2. held = {h \in 1..feedTick : h + Delay > feedTick}
    BY DEF FeedClock, publish
  <1>3. feedTick' = feedTick + 1 /\ held' = feed \ Due(feed, feedTick')
    BY DEF publish
  <1>4. feedTick' \in Nat
    BY <1>1, <1>3
  <1>5. Due(feed, feedTick') = {h \in {feedTick' - Delay} : h > 0}
    BY <1>1, <1>2, <1>3 DEF Due
  <1>6. held' = {h \in 1..feedTick' : h + Delay > feedTick'}
    BY <1>1, <1>2, <1>3, <1>5
  <1>7. Cardinality(held') <= Delay
    <2> DEFINE all == (feedTick' - Delay + 1)..feedTick'
    <2>1. held' \subseteq all
      BY <1>1, <1>4, <1>6
    <2>2. IsFiniteSet(all) /\ Cardinality(all) = Delay
      BY <1>1, <1>4, FS_Interval, feedTick' - Delay + 1 \in Int, feedTick' \in Int
    <2>3. IsFiniteSet(held') /\ Cardinality(held') <= Cardinality(all)
      BY <2>1, <2>2, FS_Subset
    <2> QED BY <2>2, <2>3
  <1>8. feedTick' <= Delay => Due(feed, feedTick') = {}
    BY <1>1, <1>2, <1>3 DEF Due
  <1>9. ASSUME feedTick' > Delay
        PROVE  /\ Due(feed, feedTick') = {feedTick' - Delay}
               /\ Max(Due(feed, feedTick')) = feedTick' - Delay
    <2>1. Due(feed, feedTick') = {feedTick' - Delay} /\ feedTick' - Delay \in Int
      BY <1>1, <1>2, <1>3, <1>9 DEF Due
    <2>2. Max({feedTick' - Delay}) = feedTick' - Delay
      BY <2>1, MaxOfOne
    <2> QED BY <2>1, <2>2
  <1> QED BY <1>3, <1>4, <1>6, <1>7, <1>8, <1>9

\* A line said is the next one, and the lines before it stay.
LEMMA SayGrows ==
  ASSUME LateFeedAssumption, FeedTypeOK, NEW c \in Hearers, NEW to \in Audiences, say(c, to)
  PROVE  /\ Len(said) \in Nat /\ Len(said') = Len(said) + 1
         /\ SaidLines' = SaidLines \cup {Len(said) + 1} /\ Len(said) + 1 \notin SaidLines
         /\ \A n \in SaidLines : said'[n] = said[n]
         /\ said'[Len(said) + 1] = [from |-> c, to |-> to, there |-> present,
                                    tick |-> IF SpeaksLate(c) THEN shown ELSE feedTick]
  <1> DEFINE words == [from |-> c, to |-> to,
                      tick |-> IF SpeaksLate(c) THEN shown ELSE feedTick, there |-> present]
  <1>1. said' = Append(said, words)
    BY DEF say
  <1>2. said \in Seq([from : Hearers, to : Audiences, tick : FeedTicks \cup {Unset},
                      there : SUBSET Hearers])
    BY DEF FeedTypeOK
  <1>3. Len(said) \in Nat /\ Len(said') = Len(said) + 1
    BY <1>1, <1>2
  <1>4. \A n \in 1..Len(said) : said'[n] = said[n]
    BY <1>1, <1>2
  <1>5. said'[Len(said) + 1] = words
    BY <1>1, <1>2
  <1> QED BY <1>3, <1>4, <1>5 DEF SaidLines

\* The steps that send something keep the types.
LEMMA FeedTypes ==
  ASSUME LateFeedAssumption, FeedTypeOK, FeedClock, [FeedNext]_feedVars
  PROVE  FeedTypeOK'
  <1> DEFINE Line == [from : Hearers, to : Audiences, tick : FeedTicks \cup {Unset},
                      there : SUBSET Hearers]
             Piece == [line : SaidLines, at : Nat, nth : FeedTicks \cup {1}]
  <1>c. Delay \in Nat \ {0} /\ MaxFeedTick \in Nat /\ feedTick \in Nat /\ Len(said) \in Nat
        /\ SaidLines = 1..Len(said) /\ feedTick \in FeedTicks /\ FeedTicks \subseteq Nat
    BY DEF LateFeedAssumption, FeedTypeOK, FeedTicks, SaidLines
  <1>1. ASSUME NEW c \in Hearers, arrive(c) PROVE FeedTypeOK'
    BY <1>1 DEF FeedTypeOK, arrive, SaidLines, FeedTicks
  <1>2. ASSUME NEW c \in Hearers, NEW to \in Audiences, say(c, to) PROVE FeedTypeOK'
    <2> DEFINE words == [from |-> c, to |-> to,
                        tick |-> IF SpeaksLate(c) THEN shown ELSE feedTick, there |-> present]
               n == Len(said) + 1
    <2>1. /\ UNCHANGED <<present, feedTick, held, shown, ended, saw>>
          /\ said' = Append(said, words) /\ tell(words, n) /\ ~ended
          /\ keptLines' = IF Keeps(words) THEN Append(keptLines, n) ELSE keptLines
      BY <1>2 DEF say
    <2>2. said' \in Seq(Line)
      <3>1. said \in Seq(Line) /\ words \in Line
        BY <1>2 DEF FeedTypeOK, say
      <3> QED BY <2>1, <3>1
    <2>3. SaidLines \subseteq SaidLines' /\ n \in SaidLines' /\ FeedTicks' = FeedTicks
      BY <1>2, SayGrows DEF FeedTicks
    <2>4. keptLines' \in Seq(SaidLines')
      <3>1. keptLines \in Seq(SaidLines')
        BY <2>3 DEF FeedTypeOK
      <3> QED BY <2>1, <2>3, <3>1
    <2>5. waiting' \subseteq [line : SaidLines', on : held]
      <3>1. waiting \subseteq [line : SaidLines', on : held]
        BY <2>3 DEF FeedTypeOK
      <3>2. held # {} => Max(held) \in held
        <4> SUFFICES ASSUME held # {} PROVE Max(held) = feedTick /\ feedTick \in held
          OBVIOUS
        <4>1. Max(held) = feedTick /\ feedTick > 0
          BY <1>c, <2>1, NewestHeld
        <4> QED BY <1>c, <2>1, <4>1 DEF FeedClock
      <3> QED BY <2>1, <2>3, <3>1, <3>2 DEF tell
    <2>6. heard' \in [Hearers -> SUBSET Piece']
      <3>1. \A d \in Hearers : heard[d] \subseteq Piece'
        BY <2>3 DEF FeedTypeOK
      <3>2. Sent(n, 0) \in Piece' /\ Sent(n, 1) \in Piece'
        <4>1. Len(said) + feedTick + 1 \in Nat /\ 0 \in FeedTicks
          BY <1>c DEF FeedTicks
        <4> QED BY <2>3, <4>1 DEF Sent
      <3> QED BY <2>1, <3>1, <3>2 DEF tell
    <2> QED BY <2>1, <2>2, <2>3, <2>4, <2>5, <2>6 DEF FeedTypeOK
  <1>3. ASSUME NEW due, NEW dueLines, due = {} \/ Max(due) \in FeedTicks, Show(due, dueLines),
               dueLines \subseteq [line : SaidLines, on : FeedTicks], feedTick' \in FeedTicks,
               UNCHANGED said
        PROVE  /\ heard' \in [Hearers -> SUBSET Piece']
               /\ saw' \in [Hearers -> FeedTicks \cup {Unset}]
    <2>1. \A x \in dueLines : Sent(x.line, x.on) \in Piece
      BY <1>3, <1>c DEF Sent
    <2>2. Piece' = Piece
      BY <1>3 DEF SaidLines, FeedTicks
    <2>3. heard' \in [Hearers -> SUBSET Piece]
      <3>1. heard \in [Hearers -> SUBSET Piece]
        BY DEF FeedTypeOK
      <3> QED BY <1>3, <2>1, <3>1 DEF Show
    <2>4. saw' \in [Hearers -> FeedTicks \cup {Unset}]
      <3>1. saw \in [Hearers -> FeedTicks \cup {Unset}]
        BY DEF FeedTypeOK
      <3> QED BY <1>3, <3>1 DEF Show
    <2> QED BY <2>2, <2>3, <2>4
  <1>4. ASSUME publish PROVE FeedTypeOK'
    <2> DEFINE feed == held \cup {feedTick'}
               due == Due(feed, feedTick')
               dueLines == {x \in waiting : x.on \in due}
    <2>1. /\ feedTick' = feedTick + 1 /\ feedTick' \in FeedTicks
          /\ feedTick' <= Delay => due = {}
          /\ feedTick' > Delay => due = {feedTick' - Delay} /\ Max(due) = feedTick' - Delay
          /\ held' = {h \in 1..feedTick' : h + Delay > feedTick'}
          /\ Cardinality(held') <= Delay
      <3>1. feedTick' \in FeedTicks
        BY <1>4, <1>c DEF publish, FeedTicks
      <3> QED BY <1>4, <3>1, DueOnPublish
    <2>2. due = {} \/ Max(due) \in FeedTicks
      <3> HIDE DEF due
      <3>1. feedTick' > Delay => feedTick' - Delay \in FeedTicks
        BY <1>c, <2>1 DEF FeedTicks
      <3> QED BY <1>c, <2>1, <3>1
    <2>3. held' \subseteq FeedTicks /\ FeedTicks' = FeedTicks /\ SaidLines' = SaidLines
      <3>1. feedTick' \in 0..MaxFeedTick /\ held' = {h \in 1..feedTick' : h + Delay > feedTick'}
        BY <2>1 DEF FeedTicks
      <3>2. held' \subseteq 0..MaxFeedTick
        BY <1>c, <3>1
      <3> QED BY <1>4, <3>2 DEF FeedTicks, SaidLines, publish
    <2>4. Show(due, dueLines) /\ UNCHANGED said /\ held' = feed \ due /\ waiting' = waiting \ dueLines
      BY <1>4 DEF publish
    <2>5. heard' \in [Hearers -> SUBSET Piece'] /\ saw' \in [Hearers -> FeedTicks \cup {Unset}]
      <3>1. dueLines \subseteq [line : SaidLines, on : FeedTicks]
        BY DEF FeedTypeOK
      <3> HIDE DEF due, dueLines
      <3> QED BY <1>3, <2>1, <2>2, <2>4, <3>1
    <2>6. waiting' \subseteq [line : SaidLines', on : held']
      BY <2>3, <2>4 DEF FeedTypeOK
    <2>7. shown' \in FeedTicks \cup {Unset}
      BY <1>4, <2>2 DEF publish, FeedTypeOK
    <2>8. UNCHANGED <<present, ended, said, keptLines>>
      BY <1>4 DEF publish
    <2> QED BY <2>1, <2>3, <2>5, <2>6, <2>7, <2>8 DEF FeedTypeOK
  <1>5. ASSUME the_end PROVE FeedTypeOK'
    <2>1. /\ feedTick' = feedTick /\ held' = {} /\ waiting' = {} /\ ended' = TRUE
          /\ UNCHANGED <<present, said, keptLines>>
          /\ held # {} => shown' = Max(held) /\ Show({Max(held)}, waiting)
          /\ held = {} => UNCHANGED <<shown, heard, saw>>
      BY <1>5 DEF the_end
    <2>2. FeedTicks' = FeedTicks /\ SaidLines' = SaidLines
      BY <2>1 DEF FeedTicks, SaidLines
    <2>3. Cardinality(held') <= Delay
      BY <2>1, <1>c, FS_EmptySet
    <2>4. CASE held = {}
      BY <2>1, <2>2, <2>3, <2>4 DEF FeedTypeOK
    <2>5. CASE held # {}
      <3>1. Max(held) = feedTick /\ feedTick \in Int
        BY <1>c, <1>5, <2>5, NewestHeld DEF the_end
      <3>2. Max({Max(held)}) \in FeedTicks
        BY <3>1, <1>c, MaxOfOne
      <3>3. heard' \in [Hearers -> SUBSET Piece'] /\ saw' \in [Hearers -> FeedTicks \cup {Unset}]
        <4>1. waiting \subseteq [line : SaidLines, on : FeedTicks]
          BY DEF FeedTypeOK
        <4> QED BY <1>3, <1>c, <2>1, <2>5, <3>2, <4>1
      <3> QED BY <1>c, <2>1, <2>2, <2>3, <2>5, <3>1, <3>3 DEF FeedTypeOK
    <2> QED BY <2>4, <2>5
  <1>6. ASSUME UNCHANGED feedVars PROVE FeedTypeOK'
    BY <1>6 DEF FeedTypeOK, feedVars, SaidLines, FeedTicks
  <1> QED BY <1>1, <1>2, <1>4, <1>5, <1>6 DEF FeedNext

\* When a connection hears a line (Server::hearing): the late ones late, unless the
\* speaker is late too; whoever hears a side's line now is of the side or has its key.
LEMMA HearingIs ==
  ASSUME LateFeedAssumption, NEW d \in Hearers, NEW words,
         words.from \in Hearers, words.to \in Audiences
  PROVE  /\ d \in Behind => hearing(d, words) = IF words.to = "team" THEN "never"
                                               ELSE IF words.from \in Behind THEN "now" ELSE "late"
         /\ hearing(d, words) = "late" => d \in Behind
         /\ hearing(d, words) = "now" =>
               /\ d \in Players => words.from \in Players
               /\ words.to = "team" =>
                     IF d \in Players THEN Side[d] = Side[words.from]
                     ELSE Eyes[d] # Unset /\ Side[Eyes[d]] = Side[words.from]
         /\ words.to = "all" /\ words.from \in Players /\ d \notin Behind => hearing(d, words) = "now"
  <1>1. d \in Behind => d \in Viewers /\ d \notin Players /\ Eyes[d] = Unset
    BY DEF LateFeedAssumption
  <1>2. d \in Players \/ (d \in Viewers /\ d \notin Players)
    BY DEF LateFeedAssumption, Hearers
  <1>3. words.to = "all" \/ words.to = "team" \/ words.to = "spectators"
    BY DEF Audiences
  <1>4. CASE d \in Players
    <2>1. hearing(d, words) = IF words.from \in Players
                                /\ (words.to = "all" \/ Side[words.from] = Side[d])
                             THEN "now" ELSE "never"
      BY <1>4, <1>2, <1>3 DEF hearing, LateFeedAssumption
    <2> QED BY <1>1, <1>4, <2>1
  <1>5. CASE d \in Viewers /\ d \notin Players /\ words.to \in {"all", "spectators"}
    <2>1. hearing(d, words) = IF d \in Behind /\ words.from \notin Behind THEN "late" ELSE "now"
      BY <1>5 DEF hearing, SpeaksLate
    <2> QED BY <1>1, <1>5, <2>1
  <1>6. CASE d \in Viewers /\ d \notin Players /\ words.to = "team"
    <2>1. hearing(d, words) = IF Eyes[d] # Unset /\ Side[Eyes[d]] = Side[words.from]
                             THEN "now" ELSE "never"
      BY <1>6 DEF hearing
    <2> QED BY <1>1, <1>6, <2>1
  <1> QED BY <1>2, <1>3, <1>4, <1>5, <1>6

\* What Server::tell sends and holds back of a new line: one piece at most to each,
\* to a late spectator only if the speaker is late or nothing is held.
LEMMA TellOnce ==
  ASSUME LateFeedAssumption, FeedTypeOK, FeedClock,
         NEW c \in Hearers, NEW to \in Audiences, say(c, to)
  PROVE  LET n == Len(said) + 1
         IN  /\ \A d \in Hearers : \A x \in heard'[d] :
                   \/ x \in heard[d]
                   \/ /\ x.line = n /\ x.at = Len(said) + feedTick + 1
                      /\ d \in Players => c \in Players
                      /\ to = "team" =>
                            IF d \in Players THEN Side[d] = Side[c]
                            ELSE Eyes[d] # Unset /\ Side[Eyes[d]] = Side[c]
                      /\ d \in Behind =>
                            (c \in Behind /\ waiting' = waiting) \/ (feedTick = 0 /\ c \notin Behind)
                      /\ \A y \in heard'[d] : y \in heard[d] \/ y = x
             /\ \A d \in Hearers : heard[d] \subseteq heard'[d]
             /\ \A x \in waiting' : \/ x \in waiting
                                    \/ /\ x = [line |-> n, on |-> feedTick]
                                       /\ c \notin Behind /\ to # "team"
             /\ waiting \subseteq waiting'
             /\ \A d \in present : to = "all" =>
                   \/ \E x \in heard'[d] : x.line = n
                   \/ d \in Behind /\ \E x \in waiting' : x.line = n
  <1> DEFINE n == Len(said) + 1
             words == [from |-> c, to |-> to,
                      tick |-> IF SpeaksLate(c) THEN shown ELSE feedTick, there |-> present]
             anyLate == \E d \in present : hearing(d, words) = "late"
             turnTick == {d \in present : hearing(d, words) = "now"}
             later == {d \in Behind \cap present : anyLate /\ held = {}}
  <1>1. /\ ~ended /\ c \in present /\ present \subseteq Hearers /\ allows(c, to)
        /\ tell(words, n)
    BY DEF say, FeedTypeOK
  <1>2. /\ \A d \in Hearers : heard'[d] = heard[d] \cup (IF d \in turnTick THEN {Sent(n, 0)} ELSE {})
                                                  \cup (IF d \in later THEN {Sent(n, 1)} ELSE {})
        /\ waiting' = IF anyLate /\ held # {}
                      THEN waiting \cup {[line |-> n, on |-> Max(held)]} ELSE waiting
    BY <1>1 DEF tell
  <1>3. words.from = c /\ words.to = to
    OBVIOUS
  <1>h. \A d \in Hearers :
            /\ d \in Behind => hearing(d, words) = IF to = "team" THEN "never"
                                                  ELSE IF c \in Behind THEN "now" ELSE "late"
            /\ hearing(d, words) = "late" => d \in Behind
            /\ hearing(d, words) = "now" =>
                  /\ d \in Players => c \in Players
                  /\ to = "team" => IF d \in Players THEN Side[d] = Side[c]
                                    ELSE Eyes[d] # Unset /\ Side[Eyes[d]] = Side[c]
            /\ to = "all" /\ c \in Players /\ d \notin Behind => hearing(d, words) = "now"
    BY <1>3, HearingIs
  <1> HIDE DEF words
  <1>4. held = {} <=> feedTick = 0
    BY <1>1, NewestHeld
  <1>5. held # {} => Max(held) = feedTick
    <2>1. feedTick \in Nat
      BY DEF FeedTypeOK, FeedTicks, LateFeedAssumption
    <2> QED BY <1>1, <2>1, NewestHeld
  <1>6. anyLate => c \notin Behind /\ to # "team"
    BY <1>1, <1>h
  <1>7. \A d \in Hearers : d \in Behind => d \notin Players
    BY DEF LateFeedAssumption
  <1>8. \A d \in turnTick : d \notin later /\ (d \in Behind => c \in Behind /\ ~anyLate)
    BY <1>1, <1>6, <1>h
  <1>9. Sent(n, 0).line = n /\ Sent(n, 0).at = Len(said) + feedTick + 1
        /\ Sent(n, 1).line = n /\ Sent(n, 1).at = Len(said) + feedTick + 1
    BY DEF Sent
  <1>10. ASSUME NEW d \in Hearers, NEW x \in heard'[d], x \notin heard[d]
         PROVE  /\ x.line = n /\ x.at = Len(said) + feedTick + 1
                /\ d \in Players => c \in Players
                /\ to = "team" =>
                      IF d \in Players THEN Side[d] = Side[c]
                      ELSE Eyes[d] # Unset /\ Side[Eyes[d]] = Side[c]
                /\ d \in Behind =>
                      (c \in Behind /\ waiting' = waiting) \/ (feedTick = 0 /\ c \notin Behind)
                /\ \A y \in heard'[d] : y \in heard[d] \/ y = x
    <2>1. CASE d \in turnTick
      <3>1. heard'[d] = heard[d] \cup {Sent(n, 0)} /\ x = Sent(n, 0)
        BY <1>2, <1>8, <1>10, <2>1
      <3>2. d \in Behind => c \in Behind /\ waiting' = waiting
        BY <1>2, <1>8, <2>1
      <3> QED BY <1>h, <1>9, <2>1, <3>1, <3>2
    <2>2. CASE d \in later
      <3>1. heard'[d] = heard[d] \cup {Sent(n, 1)} /\ x = Sent(n, 1)
        BY <1>2, <1>8, <1>10, <2>2
      <3>2. d \in Behind /\ d \notin Players /\ c \notin Behind /\ to # "team" /\ feedTick = 0
        BY <1>4, <1>6, <1>7, <2>2
      <3> QED BY <1>9, <3>1, <3>2
    <2> QED BY <1>2, <1>10, <2>1, <2>2
  <1>11. \A d \in Hearers : heard[d] \subseteq heard'[d]
    BY <1>2
  <1>12. /\ \A x \in waiting' : \/ x \in waiting
                               \/ /\ x = [line |-> n, on |-> feedTick]
                                  /\ c \notin Behind /\ to # "team"
         /\ waiting \subseteq waiting'
    BY <1>2, <1>5, <1>6
  <1>13. ASSUME NEW d \in present, to = "all"
         PROVE  \/ \E x \in heard'[d] : x.line = n
                \/ d \in Behind /\ \E x \in waiting' : x.line = n
    <2>1. c \in Players /\ c \notin Behind /\ d \in Hearers
      BY <1>1, <1>7, <1>13 DEF allows
    <2>2. CASE d \notin Behind
      <3>1. d \in turnTick
        BY <1>h, <1>13, <2>1, <2>2
      <3>2. Sent(n, 0) \in heard'[d]
        BY <1>2, <2>1, <3>1
      <3> QED BY <1>9, <3>2
    <2>3. CASE d \in Behind /\ held = {}
      <3>1. d \in later
        BY <1>h, <1>13, <2>1, <2>3
      <3>2. Sent(n, 1) \in heard'[d]
        BY <1>2, <2>1, <3>1
      <3> QED BY <1>9, <3>2
    <2>4. CASE d \in Behind /\ held # {}
      <3>1. anyLate
        BY <1>h, <1>13, <2>1, <2>4
      <3>2. [line |-> n, on |-> Max(held)] \in waiting'
        BY <1>2, <2>4, <3>1
      <3> QED BY <2>4, <3>2
    <2> QED BY <2>2, <2>3, <2>4
  <1> QED BY <1>10, <1>11, <1>12, <1>13

\* What was sent and what waits is of lines said; ticks and steps are numbers.
LEMMA FeedRanges ==
  ASSUME LateFeedAssumption, FeedTypeOK
  PROVE  /\ feedTick \in Nat /\ Delay \in Nat \ {0} /\ Len(said) \in Nat
         /\ Behind \subseteq Hearers
         /\ \A d \in Behind : d \notin Players
         /\ SaidLines = 1..Len(said) /\ SaidLines \subseteq Nat
         /\ \A d \in Hearers : \A x \in heard[d] :
               x.line \in SaidLines /\ x.at \in Nat /\ x.nth \in Nat
         /\ \A x \in waiting : x.line \in SaidLines /\ x.on \in held /\ x.on \in Nat
         /\ Unset \notin Nat
  <1>1. /\ feedTick \in FeedTicks /\ held \subseteq FeedTicks /\ Len(said) \in Nat
        /\ waiting \subseteq [line : SaidLines, on : held]
        /\ heard \in [Hearers -> SUBSET [line : SaidLines, at : Nat, nth : FeedTicks \cup {1}]]
    BY DEF FeedTypeOK
  <1>2. /\ Delay \in Nat \ {0} /\ FeedTicks \subseteq Nat /\ Unset \notin Nat
        /\ Behind \subseteq Viewers /\ Players \cap Viewers = {}
    BY DEF LateFeedAssumption, FeedTicks
  <1>3. SaidLines = 1..Len(said) /\ SaidLines \subseteq Nat
    BY <1>1 DEF SaidLines
  <1>4. \A d \in Hearers : \A x \in heard[d] :
           x.line \in SaidLines /\ x.at \in Nat /\ x.nth \in Nat
    <2> SUFFICES ASSUME NEW d \in Hearers, NEW x \in heard[d]
                 PROVE  x.line \in SaidLines /\ x.at \in Nat /\ x.nth \in Nat
      OBVIOUS
    <2>1. x \in [line : SaidLines, at : Nat, nth : FeedTicks \cup {1}]
      BY <1>1
    <2>2. x.line \in SaidLines /\ x.at \in Nat /\ x.nth \in FeedTicks \cup {1}
      BY <2>1
    <2>3. FeedTicks \cup {1} \subseteq Nat
      BY <1>2
    <2> QED BY <2>2, <2>3
  <1>5. \A x \in waiting : x.line \in SaidLines /\ x.on \in held /\ x.on \in Nat
    BY <1>1, <1>2
  <1> QED BY <1>1, <1>2, <1>3, <1>4, <1>5 DEF Hearers

\* Server::say keeps the invariant: a line told now is heard by the late ones only
\* if a late one says it or nothing is held, and a line held waits on the present tick.
LEMMA SayKeepsFeed ==
  ASSUME LateFeedAssumption, FeedInv, NEW c \in Hearers, NEW to \in Audiences, say(c, to)
  PROVE  /\ FeedClock' /\ SawWasShown' /\ LinesWait' /\ HeardApart' /\ NoneLost'
         /\ NeverEarly' /\ HeardInOrder' /\ SidesKept'
  <1> DEFINE n == Len(said) + 1
  <1>t. FeedTypeOK /\ FeedClock
    BY DEF FeedInv
  <1>1. /\ feedTick \in Nat /\ Delay \in Nat \ {0} /\ Len(said) \in Nat
        /\ Behind \subseteq Hearers /\ n \in Nat
        /\ \A d \in Behind : d \notin Players
        /\ \A d \in Hearers : \A x \in heard[d] :
              x.line \in SaidLines /\ x.at \in Nat /\ x.nth \in Nat
        /\ \A x \in waiting : x.line \in SaidLines /\ x.on \in held /\ x.on \in Nat
        /\ \A i \in SaidLines : i \in Nat /\ i < n
    BY <1>t, FeedRanges
  <1>2. /\ Len(said') = n
        /\ SaidLines' = SaidLines \cup {n} /\ n \notin SaidLines
        /\ \A i \in SaidLines : said'[i] = said[i]
        /\ said'[n].from = c /\ said'[n].to = to /\ said'[n].there = present
        /\ said'[n].tick = IF SpeaksLate(c) THEN shown ELSE feedTick
    <2>1. said'[n] = [from |-> c, to |-> to, there |-> present,
                      tick |-> IF SpeaksLate(c) THEN shown ELSE feedTick]
      BY <1>t, SayGrows
    <2>2. /\ Len(said') = n /\ SaidLines' = SaidLines \cup {n} /\ n \notin SaidLines
          /\ \A i \in SaidLines : said'[i] = said[i]
      BY <1>t, SayGrows
    <2> QED BY <2>1, <2>2
  <1>3. /\ ~ended /\ c \in present /\ UNCHANGED <<present, feedTick, held, shown, ended, saw>>
    BY DEF say
  <1>4. held = {h \in 1..feedTick : h + Delay > feedTick}
    BY <1>t, <1>3 DEF FeedClock
  <1>5. \A d \in Hearers : \A x \in heard'[d] :
                   \/ x \in heard[d]
                   \/ /\ x.line = n /\ x.at = Len(said) + feedTick + 1
                      /\ d \in Players => c \in Players
                      /\ to = "team" =>
                            IF d \in Players THEN Side[d] = Side[c]
                            ELSE Eyes[d] # Unset /\ Side[Eyes[d]] = Side[c]
                      /\ d \in Behind =>
                            (c \in Behind /\ waiting' = waiting) \/ (feedTick = 0 /\ c \notin Behind)
                      /\ \A y \in heard'[d] : y \in heard[d] \/ y = x
    BY <1>t, TellOnce
  <1>6. /\ \A x \in waiting' : \/ x \in waiting
                               \/ /\ x = [line |-> n, on |-> feedTick]
                                  /\ c \notin Behind /\ to # "team"
        /\ waiting \subseteq waiting'
        /\ \A d \in Hearers : heard[d] \subseteq heard'[d]
    BY <1>t, TellOnce
  <1>7. \A d \in present : to = "all" =>
                   \/ \E x \in heard'[d] : x.line = n
                   \/ d \in Behind /\ \E x \in waiting' : x.line = n
    BY <1>t, TellOnce
  <1>9. FeedClock' /\ SawWasShown'
    BY <1>3 DEF FeedInv, FeedClock, SawWasShown
  <1>10. LinesWait'
    <2> SUFFICES ASSUME NEW x \in waiting'
                 PROVE  /\ said'[x.line].tick = x.on /\ said'[x.line].from \notin Behind
                        /\ said'[x.line].to # "team"
                        /\ \A y \in waiting' : x.line < y.line => x.on <= y.on
      BY DEF LinesWait
    <2>1. CASE x \in waiting
      <3>1. /\ said[x.line].tick = x.on /\ said[x.line].from \notin Behind
            /\ said[x.line].to # "team"
            /\ \A y \in waiting : x.line < y.line => x.on <= y.on
        BY <2>1 DEF FeedInv, LinesWait
      <3>2. x.on <= feedTick
        BY <1>1, <1>4, <2>1
      <3> QED BY <1>1, <1>2, <1>6, <2>1, <3>1, <3>2
    <2>2. CASE x = [line |-> n, on |-> feedTick] /\ c \notin Behind /\ to # "team"
      <3>1. \A y \in waiting' : ~(n < y.line)
        BY <1>1, <1>6
      <3> QED BY <1>2, <2>2, <3>1 DEF SpeaksLate
    <2> QED BY <1>6, <2>1, <2>2
  <1>11. HeardApart'
    <2>1. \A d \in Hearers : \A x \in heard'[d] : x.at <= n + feedTick
      <3>1. \A d \in Hearers : \A x \in heard[d] : x.at <= Len(said) + feedTick
        BY <1>3 DEF FeedInv, HeardApart
      <3> QED BY <1>1, <1>5, <3>1
    <2>2. ASSUME NEW d \in Behind, NEW x \in heard'[d], NEW y \in waiting'
          PROVE  /\ x.line # y.line
                 /\ said'[x.line].from = said'[y.line].from => x.line < y.line
      <3>1. CASE x \in heard[d] /\ y \in waiting
        <4>1. /\ x.line # y.line
              /\ said[x.line].from = said[y.line].from => x.line < y.line
          BY <3>1 DEF FeedInv, HeardApart
        <4> QED BY <1>1, <1>2, <3>1, <4>1
      <3>2. CASE x \in heard[d] /\ y \notin waiting
        <4>1. y.line = n
          BY <1>6, <3>2
        <4> QED BY <1>1, <3>2, <4>1
      <3>3. CASE x \notin heard[d]
        <4>1. x.line = n
              /\ ((c \in Behind /\ waiting' = waiting) \/ (feedTick = 0 /\ c \notin Behind))
          BY <1>1, <1>5, <3>3
        <4>2. CASE feedTick = 0
          <5>1. waiting = {}
            BY <1>1, <1>4, <4>2
          <5>2. waiting' = {}
            <6>1. held = {}
              BY <1>1, <1>4, <4>2
            <6> QED BY <1>t, <1>3, <6>1, <5>1, FeedTypes DEF FeedTypeOK, FeedNext
          <5> QED BY <5>2
        <4>3. CASE c \in Behind /\ waiting' = waiting
          <5>1. said[y.line].from \notin Behind /\ y.line \in SaidLines
            BY <1>1, <4>3 DEF FeedInv, LinesWait
          <5> QED BY <1>1, <1>2, <4>1, <4>3, <5>1
        <4> QED BY <4>1, <4>2, <4>3
      <3> QED BY <3>1, <3>2, <3>3
    <2> QED BY <1>2, <1>3, <2>1, <2>2 DEF HeardApart
  <1>12. NoneLost'
    <2> SUFFICES ASSUME NEW i \in SaidLines'
                 PROVE  /\ said'[i].there \subseteq present
                        /\ said'[i].to = "all" => \A d \in said'[i].there :
                              \/ \E x \in heard'[d] : x.line = i
                              \/ d \in Behind /\ \E x \in waiting' : x.line = i
      BY <1>3 DEF NoneLost, LinesHeard
    <2>1. CASE i \in SaidLines
      <3>1. /\ said[i].there \subseteq present
            /\ said[i].to = "all" => \A d \in said[i].there :
                              \/ \E x \in heard[d] : x.line = i
                              \/ d \in Behind /\ \E x \in waiting : x.line = i
        BY <2>1 DEF FeedInv, NoneLost, LinesHeard
      <3>2. present \subseteq Hearers
        BY <1>t DEF FeedTypeOK
      <3> QED BY <1>2, <1>6, <2>1, <3>1, <3>2
    <2>2. CASE i = n
      BY <1>2, <1>7, <2>2
    <2> QED BY <1>2, <2>1, <2>2
  <1>13. NeverEarly'
    <2> SUFFICES ASSUME NEW d \in Behind, NEW x \in heard'[d],
                        said'[x.line].tick \in FeedTicks \ {0}
                 PROVE  shown # Unset /\ shown >= said'[x.line].tick
      BY <1>3 DEF NeverEarly, LinesHeard, FeedTicks
    <2>1. CASE x \in heard[d]
      <3>1. said[x.line].tick \in FeedTicks \ {0} => shown # Unset /\ shown >= said[x.line].tick
        BY <2>1 DEF FeedInv, NeverEarly, LinesHeard
      <3> QED BY <1>1, <1>2, <2>1, <3>1
    <2>2. CASE x \notin heard[d]
      <3>1. x.line = n /\ (c \in Behind \/ (feedTick = 0 /\ c \notin Behind))
        BY <1>1, <1>5, <2>2
      <3>2. c \in Behind /\ shown \in FeedTicks /\ said'[x.line].tick = shown
        BY <1>2, <3>1 DEF SpeaksLate
      <3>3. shown \in Nat /\ Unset \notin Nat
        BY <3>2, <1>t, FeedRanges DEF FeedTicks
      <3> QED BY <3>2, <3>3
    <2> QED BY <2>1, <2>2
  <1>14. HeardInOrder'
    <2> SUFFICES ASSUME NEW d \in Hearers, NEW x \in heard'[d], NEW y \in heard'[d]
                 PROVE  /\ x # y => x.line # y.line
                        /\ said'[x.line].from = said'[y.line].from /\ SentBefore(x, y)
                              => x.line < y.line
      BY DEF HeardInOrder, SentBefore
    <2>1. CASE x \in heard[d] /\ y \in heard[d]
      <3>1. /\ x # y => x.line # y.line
            /\ said[x.line].from = said[y.line].from /\ SentBefore(x, y) => x.line < y.line
        BY <2>1 DEF FeedInv, HeardInOrder
      <3> QED BY <1>1, <1>2, <2>1, <3>1
    <2>2. CASE x \in heard[d] /\ y \notin heard[d]
      BY <1>1, <1>5, <2>2
    <2>3. CASE x \notin heard[d] /\ y \in heard[d]
      <3>1. y.at <= Len(said) + feedTick
        BY <1>3, <2>3 DEF FeedInv, HeardApart
      <3>2. x.at = Len(said) + feedTick + 1 /\ x.line = n
        BY <1>5, <2>3
      <3>3. ~SentBefore(x, y) /\ x.line # y.line
        BY <1>1, <2>3, <3>1, <3>2 DEF SentBefore
      <3> QED BY <3>3
    <2>4. CASE x \notin heard[d] /\ y \notin heard[d]
      <3>1. x = y /\ x.line = n /\ x.at = Len(said) + feedTick + 1
        BY <1>5, <2>4
      <3>2. x.nth \in Nat
        <4>1. FeedTypeOK'
          BY <1>t, FeedTypes DEF FeedNext
        <4> QED BY <4>1, FeedRanges DEF FeedTypeOK, FeedTicks, LateFeedAssumption
      <3>3. ~SentBefore(x, y)
        BY <1>1, <3>1, <3>2 DEF SentBefore
      <3> QED BY <3>1, <3>3
    <2> QED BY <2>1, <2>2, <2>3, <2>4
  <1>15. SidesKept'
    <2> SUFFICES ASSUME NEW d \in Hearers, NEW x \in heard'[d]
                 PROVE  /\ said'[x.line].to = "team" =>
                              IF d \in Players THEN Side[d] = Side[said'[x.line].from]
                              ELSE Eyes[d] # Unset /\ Side[Eyes[d]] = Side[said'[x.line].from]
                        /\ d \in Players => said'[x.line].from \in Players
      BY DEF SidesKept, LinesHeard
    <2>1. CASE x \in heard[d]
      <3>1. /\ said[x.line].to = "team" =>
                  IF d \in Players THEN Side[d] = Side[said[x.line].from]
                  ELSE Eyes[d] # Unset /\ Side[Eyes[d]] = Side[said[x.line].from]
            /\ d \in Players => said[x.line].from \in Players
        BY <2>1 DEF FeedInv, SidesKept, LinesHeard
      <3> QED BY <1>1, <1>2, <2>1, <3>1
    <2>2. CASE x \notin heard[d]
      BY <1>2, <1>5, <2>2
    <2> QED BY <2>1, <2>2
  <1> QED BY <1>9, <1>10, <1>11, <1>12, <1>13, <1>14, <1>15

\* Server::show_late of the oldest lines that wait keeps what is said of lines: they
\* come in order, after all the late ones have heard of the same speaker.
LEMMA ShowKeepsLines ==
  ASSUME LateFeedAssumption, FeedInv, ~ended, NEW due, NEW dueLines, Show(due, dueLines),
         UNCHANGED <<present, said>>, dueLines \subseteq waiting, waiting' = waiting \ dueLines,
         due = {} => dueLines = {},
         \A x \in dueLines : \A y \in waiting' : x.on < y.on,
         \A x \in dueLines : shown' \in Nat /\ x.on <= shown',
         shown # Unset => shown' \in Nat /\ shown <= shown'
  PROVE  /\ LinesWait' /\ NoneLost' /\ NeverEarly' /\ HeardInOrder' /\ SidesKept'
         /\ \A d \in Hearers : \A x \in heard'[d] : x.at <= Len(said) + feedTick + 1
         /\ \A d \in Behind : \A x \in heard'[d], y \in waiting' :
               /\ x.line # y.line
               /\ said[x.line].from = said[y.line].from => x.line < y.line
  <1>t. FeedTypeOK /\ FeedClock
    BY DEF FeedInv
  <1>1. /\ feedTick \in Nat /\ Len(said) \in Nat
        /\ Behind \subseteq Hearers
        /\ \A d \in Behind : d \notin Players
        /\ \A d \in Hearers : \A x \in heard[d] :
              x.line \in SaidLines /\ x.at \in Nat /\ x.nth \in Nat
        /\ \A x \in waiting : x.line \in SaidLines /\ x.on \in Nat
        /\ SaidLines \subseteq Nat
    BY <1>t, FeedRanges
  <1>2. SaidLines' = SaidLines /\ FeedTicks' = FeedTicks
    BY DEF SaidLines, FeedTicks
  <1>3. \A d \in Hearers : \A x \in heard'[d] :
            \/ x \in heard[d]
            \/ /\ d \in Behind /\ x.at = Len(said) + feedTick + 1
               /\ \E y \in dueLines : x.line = y.line /\ x.nth = y.on
    BY DEF Show, Sent
  <1>4. \A d \in Hearers : heard[d] \subseteq heard'[d]
    BY DEF Show
  <1>5. \A d \in Behind \cap present : \A y \in dueLines : \E x \in heard'[d] : x.line = y.line
    <2> SUFFICES ASSUME NEW d \in Behind \cap present, NEW y \in dueLines
                 PROVE  Sent(y.line, y.on) \in heard'[d]
      BY DEF Sent
    <2>1. due # {}
      OBVIOUS
    <2> QED BY <1>1, <2>1 DEF Show
  <1>6. \A x, y \in waiting :
           /\ said[x.line].tick = x.on /\ said[x.line].from \notin Behind
           /\ said[x.line].to # "team"
           /\ x.line < y.line => x.on <= y.on
    BY DEF FeedInv, LinesWait
  <1>7. \A x \in dueLines : \A y \in waiting' : x.line < y.line
    <2> SUFFICES ASSUME NEW x \in dueLines, NEW y \in waiting' PROVE x.line < y.line
      OBVIOUS
    <2>1. x \in waiting /\ y \in waiting /\ x.on < y.on
      OBVIOUS
    <2>2. said[x.line].tick = x.on /\ said[y.line].tick = y.on
          /\ (y.line < x.line => y.on <= x.on)
      BY <1>6, <2>1
    <2>3. x.line \in Nat /\ y.line \in Nat /\ x.on \in Nat /\ y.on \in Nat
      BY <1>1, <2>1
    <2> QED BY <2>1, <2>2, <2>3
  <1>8. \A d \in Behind : \A x \in heard[d], y \in waiting :
               /\ x.line # y.line
               /\ said[x.line].from = said[y.line].from => x.line < y.line
    BY DEF FeedInv, HeardApart
  <1>9. LinesWait'
    BY <1>6 DEF LinesWait
  <1>10. NoneLost'
    <2> SUFFICES ASSUME NEW i \in SaidLines
                 PROVE  /\ said[i].there \subseteq present
                        /\ said[i].to = "all" => \A d \in said[i].there :
                              \/ \E x \in heard'[d] : x.line = i
                              \/ d \in Behind /\ \E x \in waiting' : x.line = i
      BY <1>2 DEF NoneLost, LinesHeard
    <2>1. /\ said[i].there \subseteq present
          /\ said[i].to = "all" => \A d \in said[i].there :
                              \/ \E x \in heard[d] : x.line = i
                              \/ d \in Behind /\ \E x \in waiting : x.line = i
      BY DEF FeedInv, NoneLost, LinesHeard
    <2>2. present \subseteq Hearers
      BY <1>t DEF FeedTypeOK
    <2>3. ASSUME NEW d \in said[i].there, said[i].to = "all"
          PROVE  \/ \E x \in heard'[d] : x.line = i
                 \/ d \in Behind /\ \E x \in waiting' : x.line = i
      <3>1. CASE \E x \in heard[d] : x.line = i
        BY <1>4, <2>1, <2>2, <3>1
      <3>2. ASSUME d \in Behind, NEW x \in waiting, x.line = i
            PROVE  \/ \E z \in heard'[d] : z.line = i
                   \/ d \in Behind /\ \E z \in waiting' : z.line = i
        BY <1>5, <2>1, <3>2
      <3> QED BY <2>1, <2>3, <3>1, <3>2
    <2> QED BY <2>1, <2>3
  <1>11. NeverEarly'
    <2> SUFFICES ASSUME NEW d \in Behind, NEW x \in heard'[d],
                        said[x.line].tick \in FeedTicks \ {0}
                 PROVE  shown' # Unset /\ shown' >= said[x.line].tick
      BY <1>2 DEF NeverEarly, LinesHeard
    <2>0. Unset \notin Nat /\ FeedTicks \subseteq Nat /\ shown \in FeedTicks \cup {Unset}
      BY <1>t, FeedRanges DEF LateFeedAssumption, FeedTicks, FeedTypeOK
    <2>1. CASE x \in heard[d]
      <3>1. shown # Unset /\ shown >= said[x.line].tick
        BY <2>1 DEF FeedInv, NeverEarly, LinesHeard
      <3>2. shown \in Nat /\ shown' \in Nat /\ shown <= shown' /\ said[x.line].tick \in Nat
        BY <2>0, <3>1
      <3> QED BY <2>0, <3>1, <3>2
    <2>2. CASE x \notin heard[d]
      <3>1. PICK y \in dueLines : x.line = y.line
        BY <1>1, <1>3, <2>2
      <3>2. said[x.line].tick = y.on /\ y.on \in Nat
        BY <1>1, <1>6, <3>1
      <3>3. shown' \in Nat /\ y.on <= shown'
        OBVIOUS
      <3> QED BY <2>0, <3>2, <3>3
    <2> QED BY <2>1, <2>2
  <1>12. HeardInOrder'
    <2> SUFFICES ASSUME NEW d \in Hearers, NEW x \in heard'[d], NEW y \in heard'[d]
                 PROVE  /\ x # y => x.line # y.line
                        /\ said[x.line].from = said[y.line].from /\ SentBefore(x, y)
                              => x.line < y.line
      BY DEF HeardInOrder, SentBefore
    <2>1. CASE x \in heard[d] /\ y \in heard[d]
      BY <2>1 DEF FeedInv, HeardInOrder
    <2>2. CASE x \in heard[d] /\ y \notin heard[d]
      <3>1. PICK z \in dueLines : y.line = z.line
        BY <1>3, <2>2
      <3> QED BY <1>3, <1>8, <2>2, <3>1
    <2>3. CASE x \notin heard[d] /\ y \in heard[d]
      <3>1. PICK z \in dueLines : x.line = z.line
        BY <1>3, <2>3
      <3>2. x.line # y.line
        BY <1>3, <1>8, <2>3, <3>1
      <3>3. y.at <= Len(said) + feedTick /\ x.at = Len(said) + feedTick + 1
        BY <1>3, <2>3 DEF FeedInv, HeardApart
      <3>4. ~SentBefore(x, y)
        BY <1>1, <2>3, <3>3 DEF SentBefore
      <3> QED BY <3>2, <3>4
    <2>4. CASE x \notin heard[d] /\ y \notin heard[d]
      <3>1. PICK z \in dueLines : x.line = z.line /\ x.nth = z.on
        BY <1>3, <2>4
      <3>2. PICK w \in dueLines : y.line = w.line /\ y.nth = w.on
        BY <1>3, <2>4
      <3>3. x.at = Len(said) + feedTick + 1 /\ y.at = Len(said) + feedTick + 1
        BY <1>3, <2>4
      <3>4. /\ said[z.line].tick = z.on /\ said[w.line].tick = w.on
            /\ (w.line < z.line => w.on <= z.on)
        BY <1>6
      <3>5. z.line \in Nat /\ w.line \in Nat /\ z.on \in Nat /\ w.on \in Nat
        BY <1>1
      <3>6. SentBefore(x, y) => x.line < y.line
        BY <1>1, <3>1, <3>2, <3>3, <3>4, <3>5 DEF SentBefore
      <3>7. x.line = y.line => x = y
        <4> SUFFICES ASSUME x.line = y.line PROVE x = y
          OBVIOUS
        <4>1. z.on = w.on
          BY <3>1, <3>2, <3>4
        <4>2. \E z1 \in dueLines : x = Sent(z1.line, z1.on)
          BY <2>4 DEF Show
        <4>3. \E w1 \in dueLines : y = Sent(w1.line, w1.on)
          BY <2>4 DEF Show
        <4>4. x = Sent(x.line, x.nth)
          BY <4>2 DEF Sent
        <4>5. y = Sent(y.line, y.nth)
          BY <4>3 DEF Sent
        <4> QED BY <3>1, <3>2, <4>1, <4>4, <4>5
      <3> QED BY <3>6, <3>7
    <2> QED BY <2>1, <2>2, <2>3, <2>4
  <1>13. SidesKept'
    <2> SUFFICES ASSUME NEW d \in Hearers, NEW x \in heard'[d]
                 PROVE  /\ said[x.line].to = "team" =>
                              IF d \in Players THEN Side[d] = Side[said[x.line].from]
                              ELSE Eyes[d] # Unset /\ Side[Eyes[d]] = Side[said[x.line].from]
                        /\ d \in Players => said[x.line].from \in Players
      BY DEF SidesKept, LinesHeard
    <2>1. CASE x \in heard[d]
      BY <2>1 DEF FeedInv, SidesKept, LinesHeard
    <2>2. CASE x \notin heard[d]
      <3>1. d \in Behind /\ \E y \in dueLines : x.line = y.line
        BY <1>3, <2>2
      <3> QED BY <1>1, <1>6, <3>1
    <2> QED BY <2>1, <2>2
  <1>14. \A d \in Hearers : \A x \in heard'[d] : x.at <= Len(said) + feedTick + 1
    <2>1. \A d \in Hearers : \A x \in heard[d] : x.at <= Len(said) + feedTick
      BY DEF FeedInv, HeardApart
    <2> QED BY <1>1, <1>3, <2>1
  <1>15. \A d \in Behind : \A x \in heard'[d], y \in waiting' :
               /\ x.line # y.line
               /\ said[x.line].from = said[y.line].from => x.line < y.line
    <2> SUFFICES ASSUME NEW d \in Behind, NEW x \in heard'[d], NEW y \in waiting'
                 PROVE  /\ x.line # y.line
                        /\ said[x.line].from = said[y.line].from => x.line < y.line
      OBVIOUS
    <2>1. CASE x \in heard[d]
      BY <1>8, <2>1
    <2>2. CASE x \notin heard[d]
      <3>1. PICK z \in dueLines : x.line = z.line
        BY <1>1, <1>3, <2>2
      <3>2. z.line < y.line /\ z.line \in Nat /\ y.line \in Nat
        BY <1>1, <1>7
      <3> QED BY <3>1, <3>2
    <2> QED BY <2>1, <2>2
  <1> QED BY <1>9, <1>10, <1>11, <1>12, <1>13, <1>14, <1>15

\* A new tick keeps the invariant: the lines shown with the tick due are the oldest.
LEMMA PublishKeepsFeed ==
  ASSUME LateFeedAssumption, FeedInv, publish
  PROVE  /\ FeedClock' /\ SawWasShown' /\ LinesWait' /\ HeardApart' /\ NoneLost'
         /\ NeverEarly' /\ HeardInOrder' /\ SidesKept'
  <1> DEFINE due == Due(held \cup {feedTick'}, feedTick')
             dueLines == {x \in waiting : x.on \in due}
  <1>t. FeedTypeOK /\ FeedClock
    BY DEF FeedInv
  <1>1. /\ feedTick \in Nat /\ Delay \in Nat \ {0} /\ Len(said) \in Nat /\ Unset \notin Nat
        /\ \A x \in waiting : x.on \in held
    BY <1>t, FeedRanges
  <1>2. /\ ~ended /\ UNCHANGED <<present, ended, said, keptLines>>
        /\ held' = (held \cup {feedTick'}) \ due /\ waiting' = waiting \ dueLines
        /\ shown' = IF due = {} THEN shown ELSE Max(due)
        /\ Show(due, dueLines)
    BY DEF publish
  <1>3. /\ feedTick' = feedTick + 1 /\ feedTick' \in Nat
        /\ feedTick' <= Delay => due = {}
        /\ feedTick' > Delay => due = {feedTick' - Delay} /\ Max(due) = feedTick' - Delay
        /\ held' = {h \in 1..feedTick' : h + Delay > feedTick'}
    BY <1>t, DueOnPublish
  <1>4. /\ held = {h \in 1..feedTick : h + Delay > feedTick}
        /\ shown = IF feedTick > Delay THEN feedTick - Delay ELSE Unset
    BY <1>t, <1>2 DEF FeedClock
  <1> HIDE DEF due
  <1>5. shown' = IF feedTick' > Delay THEN feedTick' - Delay ELSE Unset
    <2>1. CASE feedTick' > Delay
      BY <1>2, <1>3, <2>1
    <2>2. CASE feedTick' <= Delay
      BY <1>1, <1>2, <1>3, <1>4, <2>2
    <2> QED BY <1>1, <1>3, <2>1, <2>2
  <1>a. ASSUME shown # Unset PROVE shown \in Nat /\ shown' \in Nat /\ shown <= shown'
    <2>1. feedTick > Delay
      BY <1>4, <1>a
    <2>2. feedTick' > Delay
      BY <1>1, <1>3, <2>1
    <2>3. shown = feedTick - Delay /\ shown' = feedTick' - Delay
      BY <1>4, <1>5, <2>1, <2>2
    <2> QED BY <1>1, <1>3, <2>1, <2>2, <2>3
  <1>6. FeedClock'
    BY <1>2, <1>3, <1>5 DEF FeedClock
  <1>7. SawWasShown'
    <2> SUFFICES ASSUME NEW d \in Behind, saw'[d] # Unset
                 PROVE  saw'[d] \in Nat /\ shown' \in Nat /\ saw'[d] <= shown'
      BY DEF SawWasShown
    <2>1. d \in Hearers
      BY <1>t, FeedRanges
    <2>2. saw[d] # Unset => saw[d] \in Nat /\ shown \in Nat /\ saw[d] <= shown
      BY DEF FeedInv, SawWasShown
    <2>3. CASE due = {} \/ d \notin present
      <3>1. saw'[d] = saw[d]
        BY <1>2, <2>1, <2>3 DEF Show
      <3>2. shown \in Nat => shown' \in Nat /\ shown <= shown'
        BY <1>1, <1>a
      <3>3. saw[d] \in Nat /\ shown \in Nat /\ saw[d] <= shown
        BY <2>2, <3>1
      <3> QED BY <3>1, <3>2, <3>3
    <2>4. CASE due # {} /\ d \in present
      <3>1. saw'[d] = Max(due) /\ shown' = Max(due)
        BY <1>2, <2>1, <2>4 DEF Show
      <3>2. feedTick' > Delay
        BY <1>1, <1>3, <2>4
      <3> QED BY <1>1, <1>3, <3>1, <3>2
    <2> QED BY <2>3, <2>4
  <1>8. \A x \in dueLines : \A y \in waiting' : x.on < y.on
    <2> SUFFICES ASSUME NEW x \in dueLines, NEW y \in waiting' PROVE x.on < y.on
      OBVIOUS
    <2>1. x.on \in due /\ y.on \notin due /\ x.on \in held /\ y.on \in held
      BY <1>1, <1>2
    <2>2. feedTick' > Delay /\ x.on = feedTick' - Delay /\ y.on # feedTick' - Delay
      BY <1>1, <1>3, <2>1
    <2> QED BY <1>1, <1>3, <1>4, <2>1, <2>2
  <1>9. \A x \in dueLines : shown' \in Nat /\ x.on <= shown'
    <2> SUFFICES ASSUME NEW x \in dueLines PROVE shown' \in Nat /\ x.on <= shown'
      OBVIOUS
    <2>1. feedTick' > Delay /\ x.on = feedTick' - Delay
      BY <1>1, <1>3
    <2> QED BY <1>1, <1>3, <1>5, <2>1
  <1>10. shown # Unset => shown' \in Nat /\ shown <= shown'
    BY <1>a
  <1>11. dueLines \subseteq waiting /\ (due = {} => dueLines = {})
    OBVIOUS
  <1>12. /\ LinesWait' /\ NoneLost' /\ NeverEarly' /\ HeardInOrder' /\ SidesKept'
         /\ \A d \in Hearers : \A x \in heard'[d] : x.at <= Len(said) + feedTick + 1
         /\ \A d \in Behind : \A x \in heard'[d], y \in waiting' :
               /\ x.line # y.line
               /\ said[x.line].from = said[y.line].from => x.line < y.line
    <2> HIDE DEF dueLines
    <2> QED BY <1>2, <1>8, <1>9, <1>10, <1>11, ShowKeepsLines
  <1>13. HeardApart'
    <2>1. Len(said') + feedTick' = Len(said) + feedTick + 1
      BY <1>1, <1>2, <1>3
    <2> QED BY <1>2, <1>12, <2>1 DEF HeardApart
  <1> QED BY <1>6, <1>7, <1>12, <1>13

\* The end keeps the invariant: all that waits is shown with the last tick.
LEMMA EndKeepsFeed ==
  ASSUME LateFeedAssumption, FeedInv, the_end
  PROVE  /\ FeedClock' /\ SawWasShown' /\ LinesWait' /\ HeardApart' /\ NoneLost'
         /\ NeverEarly' /\ HeardInOrder' /\ SidesKept'
  <1>t. FeedTypeOK /\ FeedClock
    BY DEF FeedInv
  <1>1. /\ feedTick \in Nat /\ Delay \in Nat \ {0} /\ Len(said) \in Nat /\ Unset \notin Nat
        /\ \A x \in waiting : x.on \in held /\ x.on \in Nat
    BY <1>t, FeedRanges
  <1>2. /\ ~ended /\ feedTick > 0 /\ ended' = TRUE /\ feedTick' = feedTick /\ held' = {}
        /\ waiting' = {} /\ UNCHANGED <<present, said, keptLines>>
    BY DEF the_end
  <1>3. held # {} /\ Max(held) = feedTick
    BY <1>t, <1>1, <1>2, NewestHeld
  <1>4. shown' = feedTick /\ Show({feedTick}, waiting)
    BY <1>3 DEF the_end
  <1>5. /\ held = {h \in 1..feedTick : h + Delay > feedTick}
        /\ shown = IF feedTick > Delay THEN feedTick - Delay ELSE Unset
    BY <1>t, <1>2 DEF FeedClock
  <1>6. FeedClock'
    BY <1>2, <1>4 DEF FeedClock
  <1>7. SawWasShown'
    <2> SUFFICES ASSUME NEW d \in Behind, saw'[d] # Unset
                 PROVE  saw'[d] \in Nat /\ saw'[d] <= feedTick
      BY <1>1, <1>4 DEF SawWasShown
    <2>1. d \in Hearers
      BY <1>t, FeedRanges
    <2>2. saw[d] # Unset => saw[d] \in Nat /\ shown \in Nat /\ saw[d] <= shown
      BY DEF FeedInv, SawWasShown
    <2>3. Max({feedTick}) = feedTick
      BY <1>1, MaxOfOne, feedTick \in Int
    <2>4. CASE d \in present
      <3>1. saw'[d] = feedTick
        BY <1>4, <2>1, <2>3, <2>4 DEF Show
      <3> QED BY <1>1, <3>1
    <2>5. CASE d \notin present
      <3>1. saw'[d] = saw[d]
        BY <1>4, <2>1, <2>5 DEF Show
      <3> QED BY <1>1, <1>5, <2>2, <3>1
    <2> QED BY <2>4, <2>5
  <1>8. waiting' = waiting \ waiting /\ (\A x \in waiting : \A y \in waiting' : x.on < y.on)
    BY <1>2
  <1>9. \A x \in waiting : shown' \in Nat /\ x.on <= shown'
    BY <1>1, <1>4, <1>5
  <1>10. shown # Unset => shown' \in Nat /\ shown <= shown'
    BY <1>1, <1>4, <1>5
  <1>11. LinesWait' /\ NoneLost' /\ NeverEarly' /\ HeardInOrder' /\ SidesKept'
    <2>1. {feedTick} = {} => waiting = {}
      OBVIOUS
    <2> QED BY <1>2, <1>4, <1>8, <1>9, <1>10, <2>1, ShowKeepsLines
  <1>12. HeardApart'
    BY <1>2 DEF HeardApart
  <1> QED BY <1>6, <1>7, <1>11, <1>12

\* Every step of chat and feed keeps the invariant.
LEMMA FeedKeepsInv ==
  ASSUME LateFeedAssumption, FeedInv, [FeedNext]_feedVars
  PROVE  FeedInv'
  <1>1. FeedTypeOK'
    BY FeedTypes DEF FeedInv
  <1>2. ASSUME NEW c \in Hearers, arrive(c) PROVE FeedInv'
    <2>1. /\ UNCHANGED <<feedTick, held, waiting, shown, ended, said, heard, saw, keptLines>>
          /\ present \subseteq present'
      BY <1>2 DEF arrive
    <2>2. NoneLost'
      <3>1. SaidLines' = SaidLines /\ \A d : LinesHeard(d)' = LinesHeard(d)
        BY <2>1 DEF SaidLines, LinesHeard
      <3> QED BY <2>1, <3>1 DEF FeedInv, NoneLost
    <2>3. FeedClock' /\ SawWasShown' /\ LinesWait' /\ HeardApart'
      BY <2>1 DEF FeedInv, FeedClock, SawWasShown, LinesWait, HeardApart
    <2>4. NeverEarly' /\ HeardInOrder' /\ SidesKept'
      BY <2>1 DEF FeedInv, NeverEarly, HeardInOrder, SidesKept, LinesHeard, FeedTicks, SentBefore
    <2> QED BY <1>1, <2>2, <2>3, <2>4 DEF FeedInv
  <1>3. ASSUME NEW c \in Hearers, NEW to \in Audiences, say(c, to) PROVE FeedInv'
    BY <1>1, <1>3, SayKeepsFeed DEF FeedInv
  <1>4. ASSUME publish PROVE FeedInv'
    BY <1>1, <1>4, PublishKeepsFeed DEF FeedInv
  <1>5. ASSUME the_end PROVE FeedInv'
    BY <1>1, <1>5, EndKeepsFeed DEF FeedInv
  <1>6. ASSUME UNCHANGED feedVars PROVE FeedInv'
    <2>1. UNCHANGED <<present, feedTick, held, waiting, shown, ended, said, heard, saw, keptLines>>
      BY <1>6 DEF feedVars
    <2>2. NoneLost' /\ FeedClock' /\ SawWasShown' /\ LinesWait' /\ HeardApart'
      BY <2>1 DEF FeedInv, NoneLost, FeedClock, SawWasShown, LinesWait, HeardApart,
                  SaidLines, LinesHeard
    <2>3. NeverEarly' /\ HeardInOrder' /\ SidesKept'
      BY <2>1 DEF FeedInv, NeverEarly, HeardInOrder, SidesKept, LinesHeard, FeedTicks, SentBefore
    <2> QED BY <1>1, <2>2, <2>3 DEF FeedInv
  <1> QED BY <1>2, <1>3, <1>4, <1>5, <1>6 DEF FeedNext

\* Theorem: FeedInv is an invariant of chat and the delayed feed, however long the
\* delay, whoever watches late and whatever may be said.
THEOREM LateFeedInvariant ==
  ASSUME LateFeedAssumption
  PROVE  FeedSpec => []FeedInv
  <1>1. FeedInit => FeedInv
    <2> SUFFICES ASSUME FeedInit PROVE FeedInv
      OBVIOUS
    <2>1. /\ present = Players /\ feedTick = 0 /\ held = {} /\ waiting = {} /\ shown = Unset
          /\ ended = FALSE /\ said = <<>> /\ keptLines = <<>>
          /\ heard = [c \in Hearers |-> {}] /\ saw = [c \in Hearers |-> Unset]
      BY DEF FeedInit
    <2>2. Cardinality(held) <= Delay /\ 0 \in FeedTicks
      BY <2>1, FS_EmptySet DEF LateFeedAssumption, FeedTicks
    <2>3. FeedTypeOK
      <3>1. said \in Seq([from : Hearers, to : Audiences, tick : FeedTicks \cup {Unset},
                          there : SUBSET Hearers])
            /\ keptLines \in Seq(SaidLines)
        BY <2>1
      <3>2. heard \in [Hearers -> SUBSET [line : SaidLines, at : Nat, nth : FeedTicks \cup {1}]]
        BY <2>1
      <3>3. saw \in [Hearers -> FeedTicks \cup {Unset}]
        BY <2>1
      <3>4. present \subseteq Hearers
        BY <2>1 DEF Hearers
      <3> QED BY <2>1, <2>2, <3>1, <3>2, <3>3, <3>4 DEF FeedTypeOK
    <2>4. FeedClock
      BY <2>1 DEF FeedClock, LateFeedAssumption
    <2>5. \A d \in Hearers : heard[d] = {} /\ saw[d] = Unset
      BY <2>1
    <2>6. Behind \subseteq Hearers /\ SaidLines = {}
      BY <2>1 DEF LateFeedAssumption, Hearers, SaidLines
    <2>7. SawWasShown /\ LinesWait /\ HeardApart /\ NoneLost
      BY <2>1, <2>5, <2>6 DEF SawWasShown, LinesWait, HeardApart, NoneLost
    <2>8. NeverEarly /\ HeardInOrder /\ SidesKept
      BY <2>5, <2>6 DEF NeverEarly, HeardInOrder, SidesKept, LinesHeard
    <2> QED BY <2>3, <2>4, <2>7, <2>8 DEF FeedInv
  <1>2. FeedInv /\ [FeedNext]_feedVars => FeedInv'
    BY FeedKeepsInv
  <1> QED BY <1>1, <1>2, PTL DEF FeedSpec

\* Theorem: whoever hears or watches does so in order, once, of its own side only,
\* never before its feed has come to it, and at the latest when the match is over
\* (the run's invariant FeedInOrder).
THEOREM FeedIsInOrder ==
  ASSUME LateFeedAssumption
  PROVE  FeedSpec => []FeedInOrder
  <1>1. FeedInv => FeedInOrder
    <2> SUFFICES ASSUME FeedInv PROVE FeedInOrder
      OBVIOUS
    <2>1. feedTick \in Nat /\ Delay \in Nat \ {0} /\ Unset \notin Nat
      BY FeedRanges DEF FeedInv
    <2>2. FeedIsLate
      <3> SUFFICES ASSUME ~ended, NEW d \in Behind, saw[d] # Unset
                   PROVE  saw[d] + Delay <= feedTick
        BY DEF FeedIsLate
      <3>1. saw[d] \in Nat /\ shown \in Nat /\ saw[d] <= shown
        BY DEF FeedInv, SawWasShown
      <3>2. shown = IF feedTick > Delay THEN feedTick - Delay ELSE Unset
        BY DEF FeedInv, FeedClock
      <3> QED BY <2>1, <3>1, <3>2
    <2>3. AllHeardAtLast
      BY DEF FeedInv, FeedClock, NoneLost, AllHeardAtLast
    <2> QED BY <2>2, <2>3 DEF FeedInv, FeedInOrder
  <1> QED BY <1>1, LateFeedInvariant, PTL

=============================================================================
