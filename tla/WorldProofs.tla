----------------------------- MODULE WorldProofs -----------------------------
(***************************************************************************)
(* Proofs about Deaths, for any seats, creeps, bounds and blows: the score *)
(* and the gold add up through every order of falls, and whoever a kill is *)
(* owed to is credited with it.  And about Handles, for any number of      *)
(* slots, names and ticks: whoever a name stands for, it stands for nobody *)
(* else, and a disguise gives nobody away.  And about Actions, for any kit  *)
(* of spells and any times: every channel is told of its end, and every     *)
(* order a hero is given is obeyed in its turn or answered.                 *)
(***************************************************************************)
EXTENDS Actions, Deaths, Handles, FiniteSetTheorems, SequenceTheorems, TLAPS

\* First Blood, once paid, is claimed.
BloodClaimed == bloods \in Nat /\ (bloods > 0 => claimed)

\* Only enemies are in a hero's ledger, and none from before the clock.
LedgerOpposed ==
    \A v, by \in Seats :
        hurt_by[v][by].at # Never \/ hurt_by[v][by].damage_at # Never => Side(by) # Side(v)

\* No hero stood up in the future.
RoseBefore == rose \in [Seats -> Nat] /\ \A s \in Seats : rose[s] <= tick

\* Under Map2 a verdict waits for the end of a batch, and a tower fallen since
\* the tick began is one of this batch's losses.
VerdictWaits ==
    Map2 => /\ winner # "none" => stage = "tick"
            /\ winner = "none" => lost = Sides \ towers
            /\ winner = "none" /\ stage = "tick" => lost = {}

\* What holds of the score and the gold, whatever the match.
ScoreInv ==
    /\ DeathsTypeOK /\ GoldNotOwed /\ KillsAreDeaths /\ FirstBloodOnce /\ NoTieWon
    /\ BloodClaimed /\ LedgerOpposed /\ VerdictWaits
    /\ felled \in Nat

\* Where nobody reincarnates: the ledger of a hero that lies is spent.
LedgerSpent ==
    /\ aegis = {}
    /\ \A v, by \in Seats : ~Stands(v) => hurt_by[v][by].at = Never

LedgerInv == RoseBefore /\ LedgerSpent /\ LedgerOfThisLife

-----------------------------------------------------------------------------
(* Sides and sums. *)

LEMMA SidesOfSeats ==
    ASSUME SeatsAssumption
    PROVE  /\ \A s \in Seats : Side(s) \in Sides
           /\ \A side \in Sides : Other(side) \in Sides /\ Other(side) # side
                                    /\ Other(Other(side)) = side
           /\ \A s, t \in Seats : Side(s) # Side(t) => Side(s) = Other(Side(t))
  BY DEF Side, Sides, Other

LEMMA TallyHas ==
    ASSUME NEW side, NEW f, NEW e
    PROVE  e \in Tally(side, f) <=> \E s \in SeatsOf(side) : \E n \in 1 .. f[s] : e = <<s, n>>
  BY DEF Tally

LEMMA TallyFinite ==
    ASSUME SeatsAssumption, NEW f \in [Seats -> Nat], NEW side
    PROVE  IsFiniteSet(Tally(side, f)) /\ Cardinality(Tally(side, f)) \in Nat
  <1> DEFINE column(s) == {s} \X (1 .. f[s])
             columns == {column(s) : s \in SeatsOf(side)}
  <1>1. IsFiniteSet(SeatsOf(side))
    BY FS_Subset DEF SeatsOf, SeatsAssumption
  <1>2. ASSUME NEW s \in SeatsOf(side) PROVE IsFiniteSet(column(s))
    <2>1. 1 \in Int /\ f[s] \in Int
      BY DEF SeatsOf
    <2>2. IsFiniteSet(1 .. f[s])
      BY <2>1, FS_Interval
    <2>3. IsFiniteSet({s})
      BY FS_Singleton
    <2> QED
      BY <2>2, <2>3, FS_Product
  <1> HIDE DEF column
  <1>3. IsFiniteSet(columns)
    <2> DEFINE F == [s \in SeatsOf(side) |-> column(s)]
    <2>1. F \in Surjection(SeatsOf(side), columns)
      BY DEF Surjection
    <2> QED
      BY <1>1, <2>1, FS_Surjection
  <1>4. \A c \in columns : IsFiniteSet(c)
    BY <1>2
  <1>5. IsFiniteSet(UNION columns)
    BY <1>3, <1>4, FS_UNION
  <1>6. Tally(side, f) = UNION columns
    BY DEF Tally, column
  <1> QED
    BY <1>5, <1>6, FS_CardinalityType

\* One more for x is one more for its side.
LEMMA TallyOneMore ==
    ASSUME SeatsAssumption, NEW f \in [Seats -> Nat], NEW g \in [Seats -> Nat],
           NEW x \in Seats, g[x] = f[x] + 1, \A s \in Seats : s # x => g[s] = f[s], NEW side
    PROVE  Cardinality(Tally(side, g)) =
               IF Side(x) = side THEN Cardinality(Tally(side, f)) + 1
               ELSE Cardinality(Tally(side, f))
  <1>1. CASE Side(x) # side
    <2>1. \A s \in SeatsOf(side) : s \in Seats /\ s # x
      BY <1>1 DEF SeatsOf
    <2>2. Tally(side, g) = Tally(side, f)
      BY <2>1 DEF Tally
    <2> QED
      BY <1>1, <2>2
  <1>2. CASE Side(x) = side
    <2> DEFINE new == <<x, f[x] + 1>>
    <2>1. x \in SeatsOf(side) /\ \A s \in SeatsOf(side) : s \in Seats
      BY <1>2 DEF SeatsOf
    <2>2. new \notin Tally(side, f)
      BY TallyHas
    <2>3. \A e : e \in Tally(side, g) <=> e \in Tally(side, f) \cup {new}
      <3>1. ASSUME NEW e, e \in Tally(side, g) PROVE e \in Tally(side, f) \cup {new}
        <4>1. PICK s \in SeatsOf(side) : \E n \in 1 .. g[s] : e = <<s, n>>
          BY <3>1, TallyHas
        <4>2. PICK n \in 1 .. g[s] : e = <<s, n>>
          BY <4>1
        <4>3. CASE s = x /\ n = f[x] + 1
          BY <4>2, <4>3
        <4>4. CASE ~(s = x /\ n = f[x] + 1)
          <5>1. n \in 1 .. f[s]
            BY <2>1, <4>4
          <5> QED
            BY <4>2, <5>1, TallyHas
        <4> QED
          BY <4>3, <4>4
      <3>2. ASSUME NEW e, e \in Tally(side, f) PROVE e \in Tally(side, g)
        <4>1. PICK s \in SeatsOf(side) : \E n \in 1 .. f[s] : e = <<s, n>>
          BY <3>2, TallyHas
        <4>2. PICK n \in 1 .. f[s] : e = <<s, n>>
          BY <4>1
        <4>3. n \in 1 .. g[s]
          BY <2>1
        <4> QED
          BY <4>2, <4>3, TallyHas
      <3>3. new \in Tally(side, g)
        <4>1. f[x] + 1 \in 1 .. g[x]
          OBVIOUS
        <4> QED
          BY <2>1, <4>1, TallyHas
      <3> QED
        BY <3>1, <3>2, <3>3
    <2>4. Tally(side, g) = Tally(side, f) \cup {new}
      BY <2>3
    <2> HIDE DEF new
    <2>5. IsFiniteSet(Tally(side, f))
      BY TallyFinite
    <2>6. Cardinality(Tally(side, f) \cup {new}) = Cardinality(Tally(side, f)) + 1
      BY <2>2, <2>5, FS_AddElement
    <2> QED
      BY <1>2, <2>4, <2>6
  <1> QED
    BY <1>1, <1>2

-----------------------------------------------------------------------------
(* Who is credited, and what a fall pays. *)

LEMMA QuotientIsNat ==
    ASSUME NEW a \in Nat, NEW b \in Nat \ {0}
    PROVE  a \div b \in Nat /\ a \div b <= a
  OBVIOUS

\* The one element of a set of one.
LEMMA SoleMember ==
    ASSUME NEW S, Cardinality(S) = 1
    PROVE  (CHOOSE d \in S : TRUE) \in S
  <1>1. S # {}
    BY FS_EmptySet
  <1> QED
    BY <1>1

\* hero_credit names an enemy of the fallen or nobody, and pays seats only.
LEMMA CreditIsFair ==
    ASSUME SeatsAssumption, DeathsTypeOK, LedgerOpposed, NEW v \in Seats, NEW k
    PROVE  /\ hero_credit(v, k).credited \in Seats \cup {Nobody}
           /\ hero_credit(v, k).earners \subseteq Seats
           /\ hero_credit(v, k).kill \in BOOLEAN /\ hero_credit(v, k).any \in BOOLEAN
           /\ hero_credit(v, k).credited # Nobody =>
                 Side(hero_credit(v, k).credited) = Other(Side(v)) /\ TeamOf(k) # Side(v)
  <1> DEFINE side == Other(Side(v))
             d == CHOOSE d \in Damagers(v) : TRUE
  <1>1. side \in Sides /\ side # Side(v) /\ SeatsOf(side) \subseteq Seats
    BY SidesOfSeats DEF SeatsOf
  <1>2. CASE TeamOf(k) # side
    <2>1. hero_credit(v, k) = NoCredit
      BY <1>2 DEF hero_credit
    <2> QED
      BY <2>1 DEF NoCredit
  <1>3. CASE TeamOf(k) = side /\ k \in Seats
    <2>1. hero_credit(v, k) = [credited |-> k, earners |-> {k}, kill |-> TRUE, any |-> TRUE]
      BY <1>3 DEF hero_credit
    <2>2. k \notin known /\ k # Camp
      BY <1>3 DEF DeathsTypeOK, SeatsAssumption
    <2>3. Side(k) = side
      BY <1>3, <2>2 DEF TeamOf
    <2> QED
      BY <1>1, <1>3, <2>1, <2>3
  <1>4. CASE TeamOf(k) = side /\ k \notin Seats /\ Cardinality(Damagers(v)) = 1
    <2>1. hero_credit(v, k) = [credited |-> d, earners |-> {d}, kill |-> TRUE, any |-> TRUE]
      BY <1>4 DEF hero_credit
    <2>2. d \in Damagers(v)
      BY <1>4, SoleMember
    <2>3. d \in Seats /\ hurt_by[v][d].damage_at # Never
      BY <2>2 DEF Damagers, Within
    <2>4. Side(d) # Side(v)
      BY <2>3 DEF LedgerOpposed
    <2>5. Side(d) = side
      BY <2>3, <2>4, SidesOfSeats
    <2> QED
      BY <1>1, <1>4, <2>1, <2>3, <2>5
  <1>5. CASE TeamOf(k) = side /\ k \notin Seats /\ Cardinality(Damagers(v)) > 1
    <2>1. Cardinality(Damagers(v)) # 1
      BY <1>5
    <2>2. hero_credit(v, k) =
             [credited |-> Nobody, earners |-> assisted_by(v, Nobody) \cap SeatsOf(side),
              kill |-> TRUE, any |-> TRUE]
      BY <1>5, <2>1 DEF hero_credit
    <2> QED
      BY <1>1, <2>2
  <1>6. CASE /\ TeamOf(k) = side /\ k \notin Seats
             /\ Cardinality(Damagers(v)) # 1 /\ ~(Cardinality(Damagers(v)) > 1)
    <2>1. hero_credit(v, k) =
             [credited |-> Nobody, earners |-> SeatsOf(side), kill |-> FALSE, any |-> TRUE]
      BY <1>6 DEF hero_credit
    <2> QED
      BY <1>1, <2>1
  <1> QED
    BY <1>2, <1>3, <1>4, <1>5, <1>6

\* What a fall costs the fallen: no more than it holds, nor than its worth.
LEMMA LossIsCovered ==
    ASSUME NumbersAssumption, DeathsTypeOK, GoldNotOwed, NEW v \in Seats
    PROVE  DeathLoss(v) \in Nat /\ DeathLoss(v) <= gold[v] /\ DeathLoss(v) <= worth[v]
  <1>1. gold[v] \in Nat /\ worth[v] \in Nat /\ LossShare \in Nat \ {0}
    BY DEF DeathsTypeOK, GoldNotOwed, NumbersAssumption
  <1>2. worth[v] \div LossShare \in Nat /\ worth[v] \div LossShare <= worth[v]
    BY <1>1, QuotientIsNat
  <1> QED
    BY <1>1, <1>2 DEF DeathLoss

\* Seats that pay out of what they hold and are paid stay as they should be.
LEMMA GoldKept ==
    ASSUME DeathsTypeOK, GoldNotOwed, NEW cost \in [Seats -> Nat], NEW income \in [Seats -> Nat],
           \A s \in Seats : cost[s] <= gold[s] /\ cost[s] <= worth[s],
           gold' = [s \in Seats |-> gold[s] - cost[s] + income[s]],
           worth' = [s \in Seats |-> worth[s] - cost[s] + income[s]]
    PROVE  gold' \in [Seats -> Int] /\ worth' \in [Seats -> Int] /\ GoldNotOwed'
  <1>1. \A s \in Seats : gold[s] \in Int /\ worth[s] \in Int /\ 0 <= gold[s] /\ 0 <= worth[s]
    BY DEF DeathsTypeOK, GoldNotOwed
  <1>2. ASSUME NEW s \in Seats PROVE 0 <= gold'[s] /\ 0 <= worth'[s]
    BY <1>1
  <1>3. gold' \in [Seats -> Int] /\ worth' \in [Seats -> Int]
    BY <1>1
  <1> QED
    BY <1>2, <1>3 DEF GoldNotOwed

LEMMA BuryHeroPays ==
    ASSUME SeatsAssumption, NumbersAssumption, DeathsTypeOK, GoldNotOwed, LedgerOpposed,
           NEW v \in Seats, NEW k, NEW near, BuryHero(v, k, near)
    PROVE  gold' \in [Seats -> Int] /\ worth' \in [Seats -> Int] /\ GoldNotOwed'
  <1> DEFINE credit  == hero_credit(v, k)
             striker == IF credit.credited # Nobody THEN credit.credited
                        ELSE IF k \in Seats THEN k ELSE Nobody
             denied  == TeamOf(k) = Side(v)
             bounty  == hero_bounty(v, credit)
             alone   == IF striker # Nobody /\ ~denied THEN {striker} ELSE {}
             sharers == IF striker = Nobody THEN credit.earners ELSE {}
             share   == IF sharers = {} THEN 0 ELSE bounty \div Cardinality(sharers)
             helped  == IF credit.any THEN near \cup assisted_by(v, Nobody) \cup alone ELSE {}
             income  == [s \in Seats |-> Paid(s, alone, bounty) + Paid(s, sharers, share)
                                           + Paid(s, helped, AssistGold)]
             cost    == [s \in Seats |-> IF s = v THEN DeathLoss(v) ELSE 0]
  <1>1. /\ gold' = [s \in Seats |-> gold[s] - cost[s] + income[s]]
        /\ worth' = [s \in Seats |-> worth[s] - cost[s] + income[s]]
    BY DEF BuryHero
  <1>2. credit.earners \subseteq Seats /\ credit.kill \in BOOLEAN
    BY CreditIsFair
  <1>3. bounty \in Nat
    <2>1. streak[v] \in Nat
      BY DEF DeathsTypeOK
    <2> HIDE DEF credit
    <2> QED
      BY <2>1 DEF hero_bounty
  <1>4. share \in Nat
    <2> HIDE DEF credit, bounty
    <2>1. sharers \subseteq Seats
      BY <1>2
    <2>2. IsFiniteSet(sharers)
      BY <2>1, FS_Subset DEF SeatsAssumption
    <2> HIDE DEF sharers
    <2>3. sharers # {} => Cardinality(sharers) \in Nat \ {0}
      BY <2>2, FS_CardinalityType, FS_EmptySet
    <2> QED
      BY <1>3, <2>3, QuotientIsNat
  <1> HIDE DEF credit, striker, denied, bounty, alone, sharers, share, helped
  <1>5. income \in [Seats -> Nat]
    BY <1>3, <1>4 DEF Paid, AssistGold
  <1>6. cost \in [Seats -> Nat] /\ \A s \in Seats : cost[s] <= gold[s] /\ cost[s] <= worth[s]
    <2>1. \A s \in Seats : gold[s] >= 0 /\ gold[s] \in Int /\ worth[s] >= 0 /\ worth[s] \in Int
      BY DEF GoldNotOwed, DeathsTypeOK
    <2>2. DeathLoss(v) \in Nat /\ DeathLoss(v) <= gold[v] /\ DeathLoss(v) <= worth[v]
      BY LossIsCovered
    <2> QED
      BY <2>1, <2>2
  <1> HIDE DEF income, cost
  <1> QED
    BY <1>1, <1>5, <1>6, GoldKept

\* The kill, if it is anybody's, is on the other side of the death.
LEMMA KillsKept ==
    ASSUME SeatsAssumption, DeathsTypeOK, KillsAreDeaths, NEW v \in Seats, NEW c \in Seats \cup {Nobody},
           c # Nobody => Side(c) = Other(Side(v)),
           kills' = [s \in Seats |-> kills[s] + IF s = c THEN 1 ELSE 0],
           deaths' = [deaths EXCEPT ![v] = @ + 1]
    PROVE  kills' \in [Seats -> Nat] /\ deaths' \in [Seats -> Nat] /\ KillsAreDeaths'
  <1>1. /\ kills \in [Seats -> Nat] /\ deaths \in [Seats -> Nat]
        /\ kills' \in [Seats -> Nat] /\ deaths' \in [Seats -> Nat]
    BY DEF DeathsTypeOK
  <1>2. deaths'[v] = deaths[v] + 1 /\ \A s \in Seats : s # v => deaths'[s] = deaths[s]
    BY <1>1
  <1>3. ASSUME NEW side \in Sides
        PROVE  Cardinality(Tally(side, kills')) <= Cardinality(Tally(Other(side), deaths'))
    <2> DEFINE kk == Cardinality(Tally(side, kills'))
               ko == Cardinality(Tally(side, kills))
               dd == Cardinality(Tally(Other(side), deaths'))
               do == Cardinality(Tally(Other(side), deaths))
    <2>1. kk \in Nat /\ ko \in Nat /\ dd \in Nat /\ do \in Nat
      BY <1>1, TallyFinite
    <2>2. ko <= do
      BY DEF KillsAreDeaths, DeathsOf
    <2>3. dd = IF Side(v) = Other(side) THEN do + 1 ELSE do
      <3> DEFINE z == Other(side)
                 g == deaths'
      <3>1. g \in [Seats -> Nat] /\ g[v] = deaths[v] + 1
            /\ \A s \in Seats : s # v => g[s] = deaths[s]
        BY <1>1, <1>2
      <3> HIDE DEF z, g
      <3>2. Cardinality(Tally(z, g)) =
               IF Side(v) = z THEN Cardinality(Tally(z, deaths)) + 1
               ELSE Cardinality(Tally(z, deaths))
        BY <1>1, <3>1, TallyOneMore
      <3> QED
        BY <3>2 DEF z, g
    <2>4. CASE c = Nobody
      <3>1. \A s \in Seats : s # c
        BY <2>4 DEF SeatsAssumption
      <3>2. kills' = kills
        BY <1>1, <3>1
      <3>3. kk = ko
        BY <3>2
      <3> HIDE DEF kk, ko, dd, do
      <3>4. kk <= dd
        BY <2>1, <2>2, <2>3, <3>3
      <3> QED
        BY <3>4 DEF kk, dd
    <2>5. CASE c \in Seats /\ c # Nobody
      <3>1. kills'[c] = kills[c] + 1 /\ \A s \in Seats : s # c => kills'[s] = kills[s]
        BY <1>1, <2>5
      <3>2. kk = IF Side(c) = side THEN ko + 1 ELSE ko
        BY <1>1, <2>5, <3>1, TallyOneMore
      <3>3. Side(c) = side => Side(v) = Other(side)
        BY <2>5, SidesOfSeats
      <3> HIDE DEF kk, ko, dd, do
      <3>4. kk <= dd
        BY <2>1, <2>2, <2>3, <3>2, <3>3
      <3> QED
        BY <3>4 DEF kk, dd
    <2> QED
      BY <2>4, <2>5
  <1> QED
    BY <1>1, <1>3 DEF KillsAreDeaths, DeathsOf

\* The rest of what a burial changes.
LEMMA BuryHeroScores ==
    ASSUME SeatsAssumption, NumbersAssumption, ScoreInv, NEW v \in Seats, NEW k, NEW near,
           BuryHero(v, k, near)
    PROVE  /\ kills' \in [Seats -> Nat] /\ deaths' \in [Seats -> Nat] /\ KillsAreDeaths'
           /\ streak' \in [Seats -> Nat] /\ assists' \in [Seats -> Nat]
           /\ claimed' \in BOOLEAN /\ BloodClaimed' /\ FirstBloodOnce'
           /\ hurt_by' = [hurt_by EXCEPT ![v] = Unhurt]
           /\ down' = [down EXCEPT ![v] = Wait]
           /\ UNCHANGED <<back, aegis, towers, lost>>
  <1> DEFINE credit  == hero_credit(v, k)
             striker == IF credit.credited # Nobody THEN credit.credited
                        ELSE IF k \in Seats THEN k ELSE Nobody
             denied  == TeamOf(k) = Side(v)
             alone   == IF striker # Nobody /\ ~denied THEN {striker} ELSE {}
             killer  == IF credit.credited # Nobody THEN credit.credited ELSE k
  <1>1. DeathsTypeOK /\ LedgerOpposed /\ BloodClaimed /\ FirstBloodOnce /\ KillsAreDeaths
    BY DEF ScoreInv
  <1>2. /\ claimed' = (claimed \/ credit.kill)
        /\ bloods' = bloods + IF FirstBlood(credit) THEN 1 ELSE 0
        /\ streak' = [s \in Seats |-> (IF s = v /\ credit.kill THEN 0 ELSE streak[s])
                                        + (IF s \in alone THEN 1 ELSE 0)]
        /\ assists' = [s \in Seats |-> assists[s]
                         + IF s \in assisted_by(v, killer) THEN 1 ELSE 0]
        /\ hurt_by' = Ledger(v)
        /\ deaths' = [deaths EXCEPT ![v] = @ + 1]
        /\ kills' = [s \in Seats |-> kills[s] + IF s = credit.credited /\ ~denied THEN 1 ELSE 0]
        /\ down' = [down EXCEPT ![v] = Wait]
        /\ UNCHANGED <<back, aegis, towers, lost>>
    BY DEF BuryHero, Scores
  <1>3. /\ credit.credited \in Seats \cup {Nobody} /\ credit.kill \in BOOLEAN
        /\ credit.credited # Nobody => Side(credit.credited) = Other(Side(v)) /\ ~denied
    BY <1>1, CreditIsFair
  <1> HIDE DEF credit, striker, denied, alone, killer
  <1>4. kills' = [s \in Seats |-> kills[s] + IF s = credit.credited THEN 1 ELSE 0]
    <2>1. \A s \in Seats : (s = credit.credited /\ ~denied) <=> s = credit.credited
      BY <1>3 DEF SeatsAssumption
    <2> QED
      BY <1>2, <2>1
  <1>5. kills' \in [Seats -> Nat] /\ deaths' \in [Seats -> Nat] /\ KillsAreDeaths'
    BY <1>1, <1>2, <1>3, <1>4, KillsKept
  <1>6. streak' \in [Seats -> Nat] /\ assists' \in [Seats -> Nat]
    BY <1>1, <1>2 DEF DeathsTypeOK
  <1>7. claimed' \in BOOLEAN
    BY <1>1, <1>2, <1>3 DEF DeathsTypeOK
  <1>8. BloodClaimed' /\ FirstBloodOnce'
    <2>1. CASE FirstBlood(credit)
      <3>1. bloods = 0 /\ bloods' = 1
        BY <1>1, <1>2, <2>1 DEF FirstBlood, BloodClaimed
      <3>2. claimed'
        BY <1>2, <2>1 DEF FirstBlood
      <3> QED
        BY <3>1, <3>2 DEF BloodClaimed, FirstBloodOnce
    <2>2. CASE ~FirstBlood(credit)
      <3>1. bloods \in Nat /\ bloods' = bloods + 0
        BY <1>1, <1>2, <2>2 DEF BloodClaimed
      <3>2. bloods' = bloods
        BY <3>1
      <3>3. claimed => claimed'
        BY Zenon, <1>2
      <3> QED
        BY <1>1, <3>2, <3>3 DEF BloodClaimed, FirstBloodOnce
    <2> QED
      BY <2>1, <2>2
  <1> QED
    BY <1>2, <1>5, <1>6, <1>7, <1>8 DEF Ledger

-----------------------------------------------------------------------------
(* Each step keeps the score. *)

\* A blow noted in the ledger of an enemy.
LEMMA NotedKept ==
    ASSUME DeathsTypeOK, LedgerOpposed, NEW v \in Seats, NEW by \in Seats, NEW damage \in BOOLEAN,
           Side(by) # Side(v), hurt_by' = [hurt_by EXCEPT ![v][by] = Noted(@, damage)]
    PROVE  /\ hurt_by' \in [Seats -> [Seats -> Hurt]] /\ LedgerOpposed'
           /\ hurt_by'[v][by].at = tick
           /\ \A w, b \in Seats : w # v \/ b # by => hurt_by'[w][b] = hurt_by[w][b]
  <1>1. hurt_by \in [Seats -> [Seats -> Hurt]] /\ tick \in 0 .. LastTick
    BY DEF DeathsTypeOK
  <1> DEFINE h == Noted(hurt_by[v][by], damage)
  <1>2. h \in Hurt /\ h.at = tick
    BY <1>1 DEF Noted, Hurt
  <1>3. hurt_by' = [hurt_by EXCEPT ![v] = [hurt_by[v] EXCEPT ![by] = h]]
    BY <1>1
  <1> HIDE DEF h
  <1>4. /\ hurt_by' \in [Seats -> [Seats -> Hurt]] /\ hurt_by'[v][by] = h
        /\ \A w, b \in Seats : w # v \/ b # by => hurt_by'[w][b] = hurt_by[w][b]
    BY <1>1, <1>2, <1>3
  <1>5. LedgerOpposed'
    BY <1>4 DEF LedgerOpposed
  <1> QED
    BY <1>2, <1>4, <1>5

\* Steps that touch neither score, gold nor ledger, nor the verdict.
LEMMA ScoreFrame ==
    ASSUME ScoreInv, DeathsTypeOK',
           UNCHANGED <<gold, worth, kills, deaths, hurt_by, towers, claimed, winner, bloods, felled>>,
           VerdictWaits'
    PROVE  ScoreInv'
  <1>1. GoldNotOwed' /\ FirstBloodOnce' /\ LedgerOpposed'
    BY DEF ScoreInv, GoldNotOwed, FirstBloodOnce, LedgerOpposed
  <1>2. KillsAreDeaths' /\ NoTieWon'
    BY DEF ScoreInv, KillsAreDeaths, NoTieWon, AtLimit, DeathsOf, Tally
  <1>3. BloodClaimed' /\ felled' \in Nat
    <2>1. bloods' \in Nat /\ felled' \in Nat /\ (bloods' > 0 => bloods > 0)
      BY DEF ScoreInv, BloodClaimed
    <2> QED
      BY <2>1 DEF ScoreInv, BloodClaimed
  <1> QED
    BY <1>1, <1>2, <1>3 DEF ScoreInv

LEMMA TickKeepsScore ==
    ASSUME NumbersAssumption, ScoreInv, NewTick
    PROVE  ScoreInv'
  <1>1. /\ stage = "tick" /\ tick < LastTick /\ winner = "none" /\ stage' = "blows" /\ tick' = tick + 1
        /\ down' = [s \in Seats |-> IF Stands(s) THEN 0 ELSE down[s] - 1]
        /\ back' = [s \in Seats |-> back[s] /\ down[s] # 1] /\ lost' = {}
        /\ UNCHANGED <<gold, worth, score, hurt_by, aegis, known, towers, claimed,
                       winner, batch, bloods, blows, felled, owed>>
    BY DEF NewTick
  <1>2. DeathsTypeOK /\ VerdictWaits
    BY DEF ScoreInv
  <1>3. down' \in [Seats -> Nat]
    <2>1. down \in [Seats -> Nat]
      BY <1>2 DEF DeathsTypeOK
    <2>2. down' = [s \in Seats |-> IF Stands(s) THEN 0 ELSE down[s] - 1]
      BY <1>1
    <2> QED
      BY <2>1, <2>2 DEF Stands
  <1>4. back' \in [Seats -> BOOLEAN]
    BY Zenon, <1>1
  <1>5. tick' \in 0 .. LastTick
    <2>1. tick \in 0 .. LastTick /\ LastTick \in Nat
      BY <1>2 DEF DeathsTypeOK, NumbersAssumption
    <2>2. tick < LastTick /\ tick' = tick + 1
      BY <1>1
    <2> QED
      BY <2>1, <2>2
  <1>6. /\ kills' = kills /\ deaths' = deaths /\ streak' = streak /\ assists' = assists
    BY <1>1 DEF score
  <1>7. DeathsTypeOK'
    BY <1>1, <1>2, <1>3, <1>4, <1>5, <1>6 DEF DeathsTypeOK
  <1>8. VerdictWaits'
    BY <1>1, <1>2 DEF VerdictWaits
  <1> QED
    BY <1>1, <1>6, <1>7, <1>8, ScoreFrame

LEMMA SmallStepKeepsScore ==
    ASSUME ScoreInv, ToBury \/ \E c \in Creeps : Reuse(c)
    PROVE  ScoreInv'
  <1>1. DeathsTypeOK /\ VerdictWaits
    BY DEF ScoreInv
  <1>2. CASE ToBury
    <2>1. DeathsTypeOK'
      BY <1>1, <1>2 DEF ToBury, DeathsTypeOK, score
    <2>2. VerdictWaits'
      BY <1>1, <1>2 DEF ToBury, VerdictWaits
    <2> QED
      BY <1>2, <2>1, <2>2, ScoreFrame DEF ToBury, score, history
  <1>3. ASSUME NEW c \in Creeps, Reuse(c) PROVE ScoreInv'
    <2>1. DeathsTypeOK'
      BY <1>1, <1>3 DEF Reuse, DeathsTypeOK, score
    <2>2. VerdictWaits'
      BY <1>1, <1>3 DEF Reuse, VerdictWaits
    <2> QED
      BY <1>3, <2>1, <2>2, ScoreFrame DEF Reuse, score, history
  <1> QED
    BY <1>2, <1>3

LEMMA TradeKeepsScore ==
    ASSUME ScoreInv, NEW s \in Seats, Trade(s)
    PROVE  ScoreInv'
  <1>1. /\ \/ gold[s] > 0 /\ gold' = [gold EXCEPT ![s] = @ - 1]
           \/ gold' = [gold EXCEPT ![s] = @ + 1]
        /\ UNCHANGED <<stage, tick, worth, score, hurt_by, down, back, aegis, known, towers,
                       claimed, winner, lost, batch, history>>
    BY DEF Trade
  <1>2. DeathsTypeOK /\ GoldNotOwed /\ VerdictWaits /\ NoTieWon /\ KillsAreDeaths
        /\ BloodClaimed /\ FirstBloodOnce /\ LedgerOpposed /\ felled \in Nat
    BY DEF ScoreInv
  <1>3. gold' \in [Seats -> Int] /\ GoldNotOwed'
    <2>1. \A x \in Seats : gold[x] \in Int /\ 0 <= gold[x] /\ 0 <= worth[x]
      BY <1>2 DEF DeathsTypeOK, GoldNotOwed
    <2>2. CASE gold[s] > 0 /\ gold' = [gold EXCEPT ![s] = @ - 1]
      BY <1>1, <1>2, <2>1, <2>2 DEF DeathsTypeOK, GoldNotOwed
    <2>3. CASE gold' = [gold EXCEPT ![s] = @ + 1]
      BY <1>1, <1>2, <2>1, <2>3 DEF DeathsTypeOK, GoldNotOwed
    <2> QED
      BY <1>1, <2>2, <2>3
  <1>4. /\ kills' = kills /\ deaths' = deaths /\ streak' = streak /\ assists' = assists
        /\ bloods' = bloods /\ felled' = felled
    BY <1>1 DEF score, history
  <1>5. DeathsTypeOK'
    BY <1>1, <1>2, <1>3, <1>4 DEF DeathsTypeOK
  <1>6. VerdictWaits' /\ NoTieWon' /\ KillsAreDeaths'
    BY <1>1, <1>2, <1>4 DEF VerdictWaits, NoTieWon, AtLimit, KillsAreDeaths, DeathsOf, Tally
  <1>7. BloodClaimed' /\ FirstBloodOnce'
    BY <1>1, <1>2, <1>4 DEF BloodClaimed, FirstBloodOnce
  <1>8. LedgerOpposed' /\ felled' \in Nat
    BY <1>1, <1>2, <1>4 DEF LedgerOpposed
  <1> QED
    BY <1>3, <1>5, <1>6, <1>7, <1>8 DEF ScoreInv

\* A blow, fatal or not, changes the ledger alone.
LEMMA BlowsKeepScore ==
    ASSUME ScoreInv,
           UNCHANGED <<stage, tick, gold, worth, score, down, back, aegis, known, towers,
                       claimed, winner, lost, bloods, felled>>,
           \/ UNCHANGED hurt_by
           \/ \E v, by \in Seats, damage \in BOOLEAN :
                 Side(by) # Side(v) /\ hurt_by' = [hurt_by EXCEPT ![v][by] = Noted(@, damage)]
    PROVE  ScoreInv'
  <1>1. DeathsTypeOK /\ GoldNotOwed /\ VerdictWaits /\ NoTieWon /\ KillsAreDeaths
        /\ BloodClaimed /\ FirstBloodOnce /\ LedgerOpposed /\ felled \in Nat
    BY DEF ScoreInv
  <1>2. hurt_by' \in [Seats -> [Seats -> Hurt]] /\ LedgerOpposed'
    <2>1. CASE UNCHANGED hurt_by
      BY <1>1, <2>1 DEF DeathsTypeOK, LedgerOpposed
    <2>2. ASSUME NEW v \in Seats, NEW by \in Seats, NEW damage \in BOOLEAN,
                 Side(by) # Side(v), hurt_by' = [hurt_by EXCEPT ![v][by] = Noted(@, damage)]
          PROVE  hurt_by' \in [Seats -> [Seats -> Hurt]] /\ LedgerOpposed'
      BY <1>1, <2>2, NotedKept
    <2> QED
      BY <2>1, <2>2
  <1>3. kills' = kills /\ deaths' = deaths /\ streak' = streak /\ assists' = assists
    BY DEF score
  <1>4. DeathsTypeOK'
    BY <1>1, <1>2, <1>3 DEF DeathsTypeOK
  <1>5. VerdictWaits' /\ NoTieWon' /\ KillsAreDeaths' /\ GoldNotOwed'
    BY <1>1, <1>3 DEF VerdictWaits, NoTieWon, AtLimit, KillsAreDeaths, DeathsOf, Tally,
                      GoldNotOwed
  <1>6. BloodClaimed' /\ FirstBloodOnce' /\ felled' \in Nat
    BY <1>1 DEF BloodClaimed, FirstBloodOnce
  <1> QED
    BY <1>2, <1>4, <1>5, <1>6 DEF ScoreInv

LEMMA BlowKeepsScore ==
    ASSUME ScoreInv, NEW by \in Seats, NEW hurt \in Seats, NEW damage \in BOOLEAN,
           Blow(by, hurt, damage)
    PROVE  ScoreInv'
  <1>1. /\ Side(by) # Side(hurt)
        /\ hurt_by' = [hurt_by EXCEPT ![hurt][by] = Noted(@, damage)]
        /\ UNCHANGED <<stage, tick, gold, worth, score, down, back, aegis, known, towers,
                       claimed, winner, lost, bloods, felled>>
    BY DEF Blow
  <1> QED
    BY <1>1, BlowsKeepScore

LEMMA FatalKeepsScore ==
    ASSUME ScoreInv, NEW e, NEW killer, Fatal(e, killer)
    PROVE  ScoreInv'
  <1>1. UNCHANGED <<stage, tick, gold, worth, score, down, back, aegis, known, towers,
                    claimed, winner, lost, bloods, felled>>
    BY DEF Fatal, history
  <1>2. \/ UNCHANGED hurt_by
        \/ /\ e \in Seats /\ killer \in Seats /\ Side(killer) # Side(e)
           /\ hurt_by' = [hurt_by EXCEPT ![e][killer] = Noted(@, TRUE)]
    BY DEF Fatal
  <1> QED
    BY <1>1, <1>2, BlowsKeepScore

\* Bury, its three cases.
LEMMA BuryKeepsScore ==
    ASSUME SeatsAssumption, NumbersAssumption, ScoreInv, Bury
    PROVE  ScoreInv'
  <1> DEFINE v == Head(batch).fallen
             k == Head(batch).killer
  <1>1. stage = "bury" /\ felled' = felled + 1 /\ UNCHANGED <<stage, tick, known, rose, blows>>
    BY DEF Bury
  <1>2. DeathsTypeOK /\ GoldNotOwed /\ VerdictWaits /\ NoTieWon /\ KillsAreDeaths
        /\ BloodClaimed /\ FirstBloodOnce /\ LedgerOpposed /\ felled \in Nat
    BY DEF ScoreInv
  <1>3. felled' \in Nat
    BY <1>1, <1>2
  <1>4. Map2 => winner = "none" /\ lost = Sides \ towers
    BY <1>1, <1>2 DEF VerdictWaits
  <1>5. ASSUME NEW side \in Sides
        PROVE  /\ Decided(side) \in Sides \cup {"none", "neutral"}
               /\ Map2 => Decided(side) = winner
    BY <1>2, SidesOfSeats DEF Decided, DeathsTypeOK
  <1>6. CASE v \in Seats /\ Reincarnate(v)
    <2>1. /\ aegis' = aegis \ {v} /\ back' = [back EXCEPT ![v] = TRUE]
          /\ down' = [down EXCEPT ![v] = AegisDelay]
          /\ UNCHANGED <<gold, worth, score, hurt_by, towers, claimed, winner, lost, bloods, owed>>
      BY <1>6 DEF Reincarnate
    <2>2. kills' = kills /\ deaths' = deaths /\ streak' = streak /\ assists' = assists
      BY <2>1 DEF score
    <2>3. back' \in [Seats -> BOOLEAN]
      BY Zenon, <1>2, <2>1 DEF DeathsTypeOK
    <2>4. down' \in [Seats -> Nat]
      BY <1>2, <2>1 DEF DeathsTypeOK, NumbersAssumption
    <2>5. DeathsTypeOK'
      BY <1>1, <1>2, <2>1, <2>2, <2>3, <2>4 DEF DeathsTypeOK
    <2>6. VerdictWaits' /\ NoTieWon' /\ KillsAreDeaths' /\ GoldNotOwed'
      BY <1>1, <1>2, <2>1, <2>2 DEF VerdictWaits, NoTieWon, AtLimit, KillsAreDeaths, DeathsOf,
                                    Tally, GoldNotOwed
    <2>7. BloodClaimed' /\ FirstBloodOnce' /\ LedgerOpposed'
      BY <1>2, <2>1 DEF BloodClaimed, FirstBloodOnce, LedgerOpposed
    <2> QED
      BY <1>3, <2>5, <2>6, <2>7 DEF ScoreInv
  <1>7. ASSUME v \in Seats, NEW near, BuryHero(v, k, near),
               winner' = IF AtLimit(Side(v), deaths') THEN Decided(Side(v)) ELSE winner
        PROVE  ScoreInv'
    <2>1. /\ kills' \in [Seats -> Nat] /\ deaths' \in [Seats -> Nat] /\ KillsAreDeaths'
          /\ streak' \in [Seats -> Nat] /\ assists' \in [Seats -> Nat]
          /\ claimed' \in BOOLEAN /\ BloodClaimed' /\ FirstBloodOnce'
          /\ hurt_by' = [hurt_by EXCEPT ![v] = Unhurt]
          /\ down' = [down EXCEPT ![v] = Wait]
          /\ UNCHANGED <<back, aegis, towers, lost>>
      BY <1>7, BuryHeroScores
    <2>2. gold' \in [Seats -> Int] /\ worth' \in [Seats -> Int] /\ GoldNotOwed'
      BY <1>2, <1>7, BuryHeroPays
    <2>3. Side(v) \in Sides
      BY <1>7, SidesOfSeats
    <2>4. winner' \in Sides \cup {"none", "neutral"} /\ (Map2 => winner' = winner)
      BY <1>2, <1>5, <1>7, <2>3 DEF DeathsTypeOK
    <2> HIDE DEF v, k
    <2>5. hurt_by' \in [Seats -> [Seats -> Hurt]] /\ LedgerOpposed'
      <3>1. Unhurt \in [Seats -> Hurt]
        BY DEF Unhurt, Hurt, Never, NumbersAssumption
      <3>2. hurt_by' \in [Seats -> [Seats -> Hurt]]
        BY <1>2, <1>7, <2>1, <3>1 DEF DeathsTypeOK
      <3>3. \A w, b \in Seats : hurt_by'[w][b] = IF w = v THEN Unhurt[b] ELSE hurt_by[w][b]
        BY <1>2, <1>7, <2>1 DEF DeathsTypeOK
      <3>4. \A b \in Seats : Unhurt[b].at = Never /\ Unhurt[b].damage_at = Never
        BY DEF Unhurt
      <3>5. LedgerOpposed'
        BY <1>2, <3>3, <3>4 DEF LedgerOpposed
      <3> QED
        BY <3>2, <3>5
    <2>6. down' \in [Seats -> Nat]
      BY <1>2, <1>7, <2>1 DEF DeathsTypeOK, NumbersAssumption
    <2>7. DeathsTypeOK'
      BY <1>1, <1>2, <2>1, <2>2, <2>4, <2>5, <2>6 DEF DeathsTypeOK
    <2>8. VerdictWaits'
      BY <1>1, <1>4, <2>1, <2>4 DEF VerdictWaits
    <2>9. NoTieWon'
      BY <1>4, <2>4 DEF NoTieWon, Sides
    <2> QED
      BY <1>3, <2>1, <2>2, <2>5, <2>7, <2>8, <2>9 DEF ScoreInv
  <1>8. ASSUME NEW side \in towers, v = Tower[side], towers' = towers \ {side},
               lost' = lost \cup {side}, winner' = Decided(side),
               gold' = [s \in Seats |-> gold[s] +
                          (IF TeamOf(k) = side THEN 1
                           ELSE Paid(s, SeatsOf(Other(side)), 2) + Paid(s, {k}, 1))],
               worth' = [s \in Seats |-> worth[s] +
                          (IF TeamOf(k) = side THEN 1
                           ELSE Paid(s, SeatsOf(Other(side)), 2) + Paid(s, {k}, 1))],
               UNCHANGED <<score, hurt_by, down, back, aegis, claimed, bloods, owed>>
        PROVE  ScoreInv'
    <2> DEFINE income == [s \in Seats |->
                            IF TeamOf(k) = side THEN 1
                            ELSE Paid(s, SeatsOf(Other(side)), 2) + Paid(s, {k}, 1)]
    <2>1. income \in [Seats -> Nat]
      BY DEF Paid
    <2>2. /\ gold' = [s \in Seats |-> gold[s] + income[s]]
          /\ worth' = [s \in Seats |-> worth[s] + income[s]]
      BY <1>8
    <2> HIDE DEF income
    <2>3. gold' \in [Seats -> Int] /\ worth' \in [Seats -> Int]
      BY <1>2, <2>1, <2>2 DEF DeathsTypeOK
    <2>4. GoldNotOwed'
      <3>1. \A s \in Seats : /\ gold[s] \in Int /\ worth[s] \in Int /\ income[s] \in Nat
                             /\ 0 <= gold[s] /\ 0 <= worth[s]
        BY <1>2, <2>1 DEF DeathsTypeOK, GoldNotOwed
      <3>2. \A s \in Seats : 0 <= gold'[s] /\ 0 <= worth'[s]
        BY <2>2, <3>1
      <3> QED
        BY <3>2 DEF GoldNotOwed
    <2>5. side \in Sides
      BY <1>2, <1>8 DEF DeathsTypeOK
    <2>6. winner' \in Sides \cup {"none", "neutral"} /\ (Map2 => winner' = winner)
      BY <1>5, <1>8, <2>5
    <2>7. kills' = kills /\ deaths' = deaths /\ streak' = streak /\ assists' = assists
      BY <1>8 DEF score
    <2>8. DeathsTypeOK'
      BY <1>1, <1>2, <1>8, <2>3, <2>5, <2>6, <2>7 DEF DeathsTypeOK
    <2>9. VerdictWaits'
      <3>1. Map2 => lost' = Sides \ towers'
        BY <1>4, <1>8, <2>5
      <3> QED
        BY <1>1, <1>4, <2>6, <3>1 DEF VerdictWaits
    <2>10. NoTieWon'
      BY <1>4, <2>6 DEF NoTieWon, Sides
    <2>11. KillsAreDeaths'
      BY <1>2, <2>7 DEF KillsAreDeaths, DeathsOf, Tally
    <2>12. BloodClaimed' /\ FirstBloodOnce' /\ LedgerOpposed'
      BY <1>2, <1>8 DEF BloodClaimed, FirstBloodOnce, LedgerOpposed
    <2> QED
      BY <1>3, <2>4, <2>8, <2>9, <2>10, <2>11, <2>12 DEF ScoreInv
  <1>9. \/ v \in Seats /\ Reincarnate(v)
        \/ /\ v \in Seats \ aegis
           /\ \E near \in SUBSET Bystanders(Other(Side(v))) : BuryHero(v, k, near)
           /\ winner' = IF AtLimit(Side(v), deaths') THEN Decided(Side(v)) ELSE winner
        \/ \E side \in towers :
              /\ v = Tower[side]
              /\ towers' = towers \ {side} /\ lost' = lost \cup {side} /\ winner' = Decided(side)
              /\ gold' = [s \in Seats |-> gold[s] +
                           (IF TeamOf(k) = side THEN 1
                            ELSE Paid(s, SeatsOf(Other(side)), 2) + Paid(s, {k}, 1))]
              /\ worth' = [s \in Seats |-> worth[s] +
                           (IF TeamOf(k) = side THEN 1
                            ELSE Paid(s, SeatsOf(Other(side)), 2) + Paid(s, {k}, 1))]
              /\ UNCHANGED <<score, hurt_by, down, back, aegis, claimed, bloods, owed>>
    BY DEF Bury
  <1> HIDE DEF v, k
  <1> QED
    BY <1>6, <1>7, <1>8, <1>9

\* The end of a batch: under Map2 the side that lost is the other one.
LEMMA FinishKeepsScore ==
    ASSUME SeatsAssumption, ScoreInv, Finish
    PROVE  ScoreInv'
  <1> DEFINE gone == {side \in Sides : side \in lost \/ AtLimit(side, deaths)}
  <1>1. /\ stage = "bury" /\ stage' = "tick"
        /\ winner' = IF Map2 /\ winner = "none"
                     THEN IF tick >= LastTick THEN "neutral" ELSE Verdict(gone)
                     ELSE winner
        /\ UNCHANGED <<tick, gold, worth, score, hurt_by, down, back, aegis, known,
                       towers, claimed, lost, batch, history>>
    BY DEF Finish
  <1>2. DeathsTypeOK /\ GoldNotOwed /\ VerdictWaits /\ NoTieWon /\ KillsAreDeaths
        /\ BloodClaimed /\ FirstBloodOnce /\ LedgerOpposed /\ felled \in Nat
    BY DEF ScoreInv
  <1>3. /\ kills' = kills /\ deaths' = deaths /\ streak' = streak /\ assists' = assists
        /\ bloods' = bloods /\ felled' = felled
    BY <1>1 DEF score, history
  <1>4. Map2 => winner = "none" /\ lost = Sides \ towers
    BY <1>1, <1>2 DEF VerdictWaits
  <1>5. /\ Verdict(gone) \in Sides \cup {"none", "neutral"}
        /\ Verdict(gone) \in Sides => Verdict(gone) \notin gone
        /\ Verdict(gone) = "none" => gone = {}
    <2>1. gone \subseteq Sides
      OBVIOUS
    <2> HIDE DEF gone
    <2>2. gone \in {{}, {"radiant"}, {"dire"}, Sides}
      BY <2>1 DEF Sides
    <2>3. CASE gone = Sides
      <3>1. gone # {"radiant"} /\ gone # {"dire"}
        BY <2>3 DEF Sides
      <3> QED
        BY <2>3, <3>1 DEF Verdict, Sides
    <2>4. CASE gone = {"radiant"}
      <3>1. gone # Sides /\ gone # {"dire"}
        BY <2>4 DEF Sides
      <3> QED
        BY <2>4, <3>1 DEF Verdict, Sides
    <2>5. CASE gone = {"dire"}
      <3>1. gone # Sides /\ gone # {"radiant"}
        BY <2>5 DEF Sides
      <3> QED
        BY <2>5, <3>1 DEF Verdict, Sides
    <2>6. CASE gone = {}
      <3>1. gone # Sides /\ gone # {"radiant"} /\ gone # {"dire"}
        BY <2>6 DEF Sides
      <3> QED
        BY <2>6, <3>1 DEF Verdict, Sides
    <2> QED
      BY <2>2, <2>3, <2>4, <2>5, <2>6
  <1>6. /\ winner' \in Sides \cup {"none", "neutral"}
        /\ Map2 /\ winner' \in Sides => winner' \notin gone
        /\ Map2 /\ winner' = "none" => gone = {}
    <2> HIDE DEF gone
    <2> QED
      BY <1>1, <1>2, <1>4, <1>5 DEF DeathsTypeOK, Sides
  <1>7. DeathsTypeOK'
    BY <1>1, <1>2, <1>3, <1>6 DEF DeathsTypeOK
  <1>8. VerdictWaits'
    <2>1. gone = {} => lost = {}
      BY <1>2 DEF DeathsTypeOK
    <2> HIDE DEF gone
    <2> QED
      BY <1>1, <1>4, <1>6, <2>1 DEF VerdictWaits
  <1>9. NoTieWon'
    <2>1. ASSUME Map2, winner' \in Sides
          PROVE  winner' \in towers' /\ ~AtLimit(winner', deaths)
      BY <1>1, <1>4, <1>6, <2>1
    <2> QED
      BY <1>3, <2>1 DEF NoTieWon, AtLimit, DeathsOf, Tally
  <1>10. GoldNotOwed' /\ KillsAreDeaths'
    BY <1>1, <1>2, <1>3 DEF GoldNotOwed, KillsAreDeaths, DeathsOf, Tally
  <1>11. BloodClaimed' /\ FirstBloodOnce' /\ LedgerOpposed' /\ felled' \in Nat
    BY <1>1, <1>2, <1>3 DEF BloodClaimed, FirstBloodOnce, LedgerOpposed
  <1> QED
    BY <1>7, <1>8, <1>9, <1>10, <1>11 DEF ScoreInv

LEMMA ScoreInit ==
    ASSUME SeatsAssumption, NumbersAssumption, DeathsInit
    PROVE  ScoreInv
  <1>1. /\ stage = "tick" /\ tick = 0 /\ gold = [s \in Seats |-> StartGold] /\ worth = gold
        /\ kills = [s \in Seats |-> 0] /\ deaths = kills /\ streak = kills /\ assists = kills
        /\ hurt_by = [s \in Seats |-> Unhurt] /\ down = [s \in Seats |-> 0]
        /\ back = [s \in Seats |-> FALSE] /\ aegis = Aegis /\ known = Creeps /\ towers = Sides
        /\ claimed = FALSE /\ winner = "none" /\ lost = {}
        /\ bloods = 0 /\ felled = 0
    BY DEF DeathsInit
  <1>2. Unhurt \in [Seats -> Hurt] /\ 0 \in 0 .. LastTick
    BY DEF Unhurt, Hurt, Never, NumbersAssumption
  <1>3. DeathsTypeOK
    <2>1. back \in [Seats -> BOOLEAN] /\ claimed \in BOOLEAN
      BY Zenon, <1>1
    <2>2. gold \in [Seats -> Int] /\ worth \in [Seats -> Int]
      BY <1>1 DEF NumbersAssumption
    <2>3. /\ kills \in [Seats -> Nat] /\ deaths \in [Seats -> Nat]
          /\ streak \in [Seats -> Nat] /\ assists \in [Seats -> Nat] /\ down \in [Seats -> Nat]
      BY <1>1
    <2>4. hurt_by \in [Seats -> [Seats -> Hurt]]
      BY <1>1, <1>2
    <2> QED
      BY <1>1, <1>2, <2>1, <2>2, <2>3, <2>4 DEF DeathsTypeOK, SeatsAssumption
  <1>4. GoldNotOwed
    BY <1>1 DEF GoldNotOwed, NumbersAssumption
  <1>5. KillsAreDeaths
    <2>1. \A side : Tally(side, kills) = {}
      <3>1. ASSUME NEW side, NEW s \in SeatsOf(side) PROVE 1 .. kills[s] = {}
        BY <1>1 DEF SeatsOf
      <3> QED
        BY <3>1 DEF Tally
    <2>2. Cardinality({}) = 0
      BY FS_EmptySet
    <2> QED
      BY <1>1, <2>1, <2>2 DEF KillsAreDeaths, DeathsOf
  <1>6. FirstBloodOnce /\ BloodClaimed /\ felled \in Nat
    BY <1>1 DEF FirstBloodOnce, BloodClaimed
  <1>7. NoTieWon /\ VerdictWaits
    BY <1>1 DEF NoTieWon, VerdictWaits, Sides
  <1>8. LedgerOpposed
    BY <1>1 DEF LedgerOpposed, Unhurt
  <1> QED
    BY <1>3, <1>4, <1>5, <1>6, <1>7, <1>8 DEF ScoreInv

\* The score's invariant holds of every match: with or without an Aegis, a map
\* that a tower or a death decides, slots that are taken again.
THEOREM ScoreInvariant ==
    ASSUME SeatsAssumption, NumbersAssumption
    PROVE  DeathsSpec => []ScoreInv
  <1>1. DeathsInit => ScoreInv
    BY ScoreInit
  <1>2. ScoreInv /\ [DeathsNext]_deathsVars => ScoreInv'
    <2> SUFFICES ASSUME ScoreInv, [DeathsNext]_deathsVars PROVE ScoreInv'
      OBVIOUS
    <2>1. CASE NewTick
      BY <2>1, TickKeepsScore
    <2>2. CASE ToBury \/ \E c \in Creeps : Reuse(c)
      BY <2>2, SmallStepKeepsScore
    <2>3. CASE Bury
      BY <2>3, BuryKeepsScore
    <2>4. CASE Finish
      BY <2>4, FinishKeepsScore
    <2>5. ASSUME NEW s \in Seats, Trade(s) PROVE ScoreInv'
      BY <2>5, TradeKeepsScore
    <2>6. ASSUME NEW by \in Seats, NEW hurt \in Seats, NEW damage \in BOOLEAN,
                 Blow(by, hurt, damage)
          PROVE  ScoreInv'
      BY <2>6, BlowKeepsScore
    <2>7. ASSUME NEW e \in Entities, NEW k \in Killers, Fatal(e, k) PROVE ScoreInv'
      BY <2>7, FatalKeepsScore
    <2>8. CASE UNCHANGED deathsVars
      <3>1. UNCHANGED <<stage, tick, gold, worth, score, hurt_by, down, back, aegis, known, towers,
                        claimed, winner, lost, bloods, felled>>
        BY <2>8 DEF deathsVars, history
      <3> QED
        BY <3>1, BlowsKeepScore
    <2> QED
      BY <2>1, <2>2, <2>3, <2>4, <2>5, <2>6, <2>7, <2>8 DEF DeathsNext
  <1> QED
    BY <1>1, <1>2, PTL DEF DeathsSpec

-----------------------------------------------------------------------------
(* The ledger of a life. *)

\* Steps after which no ledger is longer and nobody stands who did not.
LEMMA LedgerFrame ==
    ASSUME LedgerInv, UNCHANGED <<hurt_by, rose, tick, aegis, down>>
    PROVE  LedgerInv'
  <1>1. RoseBefore' /\ LedgerSpent' /\ LedgerOfThisLife'
    BY DEF LedgerInv, RoseBefore, LedgerSpent, LedgerOfThisLife, Stands
  <1> QED
    BY <1>1 DEF LedgerInv

\* A blow on one that stands.
LEMMA LedgerNotes ==
    ASSUME ScoreInv, LedgerInv, NEW v \in Seats, NEW by \in Seats, NEW damage \in BOOLEAN,
           Side(by) # Side(v), Stands(v), hurt_by' = [hurt_by EXCEPT ![v][by] = Noted(@, damage)],
           UNCHANGED <<rose, tick, aegis, down>>
    PROVE  LedgerInv'
  <1>1. /\ hurt_by'[v][by].at = tick
        /\ \A w, b \in Seats : w # v \/ b # by => hurt_by'[w][b] = hurt_by[w][b]
    BY NotedKept, ZenonT(40) DEF ScoreInv
  <1>2. RoseBefore /\ LedgerSpent /\ LedgerOfThisLife /\ tick \in Nat
    BY DEF LedgerInv, ScoreInv, DeathsTypeOK
  <1>3. RoseBefore'
    BY <1>2 DEF RoseBefore
  <1>4. LedgerSpent'
    <2>1. ASSUME NEW w \in Seats, NEW b \in Seats, ~Stands(w)' PROVE hurt_by'[w][b].at = Never
      <3>1. ~Stands(w) /\ w # v
        BY <2>1 DEF Stands
      <3> QED
        BY <1>1, <1>2, <3>1 DEF LedgerSpent
    <2> QED
      BY <1>2, <2>1 DEF LedgerSpent
  <1>5. LedgerOfThisLife'
    <2>1. ASSUME NEW w \in Seats, NEW b \in Seats, Stands(w)', hurt_by'[w][b].at # Never
          PROVE  hurt_by'[w][b].at >= rose'[w]
      <3>1. CASE w = v /\ b = by
        <4>1. rose[w] \in Nat /\ rose[w] <= tick /\ rose'[w] = rose[w]
          BY <1>2 DEF RoseBefore
        <4> QED
          BY <1>1, <1>2, <3>1, <4>1
      <3>2. CASE w # v \/ b # by
        BY <1>1, <1>2, <2>1, <3>2 DEF LedgerOfThisLife, Stands
      <3> QED
        BY <3>1, <3>2
    <2> QED
      BY <2>1 DEF LedgerOfThisLife
  <1> QED
    BY <1>3, <1>4, <1>5 DEF LedgerInv

LEMMA TickKeepsLedger ==
    ASSUME ScoreInv, LedgerInv, NewTick
    PROVE  LedgerInv'
  <1>1. /\ tick' = tick + 1 /\ hurt_by' = hurt_by /\ aegis' = aegis
        /\ down' = [s \in Seats |-> IF Stands(s) THEN 0 ELSE down[s] - 1]
        /\ rose' = [s \in Seats |-> IF down[s] = 1 THEN tick + 1 ELSE rose[s]]
    BY DEF NewTick
  <1>2. RoseBefore /\ LedgerSpent /\ LedgerOfThisLife /\ tick \in Nat /\ down \in [Seats -> Nat]
    BY DEF LedgerInv, ScoreInv, DeathsTypeOK
  <1>3. RoseBefore'
    BY <1>1, <1>2 DEF RoseBefore
  <1>4. LedgerSpent'
    BY <1>1, <1>2 DEF LedgerSpent, Stands
  <1>5. LedgerOfThisLife'
    <2>1. ASSUME NEW w \in Seats, NEW b \in Seats, Stands(w)', hurt_by'[w][b].at # Never
          PROVE  hurt_by'[w][b].at >= rose'[w]
      <3>1. Stands(w)
        BY <1>1, <1>2, <2>1 DEF LedgerSpent
      <3>2. rose'[w] = rose[w]
        BY <1>1, <3>1 DEF Stands
      <3> QED
        BY <1>1, <1>2, <2>1, <3>1, <3>2 DEF LedgerOfThisLife
    <2> QED
      BY <2>1 DEF LedgerOfThisLife
  <1> QED
    BY <1>3, <1>4, <1>5 DEF LedgerInv

LEMMA BuryKeepsLedger ==
    ASSUME SeatsAssumption, NumbersAssumption, ScoreInv, LedgerInv, Bury
    PROVE  LedgerInv'
  <1> DEFINE v == Head(batch).fallen
             k == Head(batch).killer
  <1>1. UNCHANGED <<tick, rose>>
    BY DEF Bury
  <1>2. RoseBefore /\ LedgerSpent /\ LedgerOfThisLife /\ DeathsTypeOK
    BY DEF LedgerInv, ScoreInv
  <1>3. ASSUME v \in Seats, NEW near, BuryHero(v, k, near) PROVE LedgerInv'
    <2>1. /\ hurt_by' = [hurt_by EXCEPT ![v] = Unhurt] /\ aegis' = aegis
          /\ down' = [down EXCEPT ![v] = Wait]
      BY <1>3, BuryHeroScores
    <2> HIDE DEF v, k
    <2>2. Wait # 0 /\ down'[v] = Wait /\ \A w \in Seats : w # v => down'[w] = down[w]
      BY <1>2, <1>3, <2>1 DEF DeathsTypeOK, NumbersAssumption
    <2>3. /\ \A b \in Seats : hurt_by'[v][b].at = Never
          /\ \A w, b \in Seats : w # v => hurt_by'[w][b] = hurt_by[w][b]
      BY <1>2, <1>3, <2>1 DEF DeathsTypeOK, Unhurt
    <2>4. RoseBefore'
      BY <1>1, <1>2 DEF RoseBefore
    <2>5. LedgerSpent'
      BY <1>2, <2>1, <2>2, <2>3 DEF LedgerSpent, Stands
    <2>6. LedgerOfThisLife'
      BY <1>1, <1>2, <2>2, <2>3 DEF LedgerOfThisLife, Stands
    <2> QED
      BY <2>4, <2>5, <2>6 DEF LedgerInv
  <1>4. CASE \E side \in towers : UNCHANGED <<hurt_by, down, aegis>>
    BY <1>1, <1>4, LedgerFrame
  <1>5. \/ v \in Seats /\ Reincarnate(v)
        \/ v \in Seats /\ \E near : BuryHero(v, k, near)
        \/ \E side \in towers : UNCHANGED <<hurt_by, down, aegis>>
    BY DEF Bury
  <1> HIDE DEF v, k
  <1>6. ~Reincarnate(v)
    BY <1>2 DEF Reincarnate, LedgerSpent
  <1> QED
    BY <1>3, <1>4, <1>5, <1>6

\* Where no hero reincarnates, the score, the gold and the ledger are in order:
\* no seat owes gold and none is worth less than nothing, no side has more kills than
\* the other has deaths, First Blood is paid once, a life's ledger holds no blow of
\* an earlier one, and no tie is won (econ.rs, fight.rs, seat.rs).
THEOREM AccountsAreKept ==
    ASSUME SeatsAssumption, NumbersAssumption, Aegis = {}
    PROVE  DeathsSpec => []Accounts
  <1>1. DeathsInit => LedgerInv
    <2> SUFFICES ASSUME DeathsInit PROVE LedgerInv
      OBVIOUS
    <2>1. /\ tick = 0 /\ rose = [s \in Seats |-> 0] /\ aegis = {}
          /\ hurt_by = [s \in Seats |-> Unhurt]
      BY DEF DeathsInit
    <2>2. \A w, b \in Seats : hurt_by[w][b].at = Never
      BY <2>1 DEF Unhurt
    <2>3. RoseBefore /\ LedgerSpent /\ LedgerOfThisLife
      BY <2>1, <2>2 DEF RoseBefore, LedgerSpent, LedgerOfThisLife
    <2> QED
      BY <2>3 DEF LedgerInv
  <1>2. ScoreInv /\ LedgerInv /\ [DeathsNext]_deathsVars => LedgerInv'
    <2> SUFFICES ASSUME ScoreInv, LedgerInv, [DeathsNext]_deathsVars PROVE LedgerInv'
      OBVIOUS
    <2>1. CASE NewTick
      BY <2>1, TickKeepsLedger
    <2>2. CASE Bury
      BY <2>2, BuryKeepsLedger
    <2>3. ASSUME NEW by \in Seats, NEW hurt \in Seats, NEW damage \in BOOLEAN,
                 Blow(by, hurt, damage)
          PROVE  LedgerInv'
      BY <2>3, LedgerNotes DEF Blow
    <2>4. ASSUME NEW e \in Entities, NEW k \in Killers, Fatal(e, k) PROVE LedgerInv'
      <3>1. UNCHANGED <<rose, tick, aegis, down>>
        BY <2>4 DEF Fatal, history
      <3>2. CASE UNCHANGED hurt_by
        BY <3>1, <3>2, LedgerFrame
      <3>3. CASE /\ e \in Seats /\ k \in Seats /\ Side(k) # Side(e)
                 /\ hurt_by' = [hurt_by EXCEPT ![e][k] = Noted(@, TRUE)]
        <4>1. Stands(e)
          BY <2>4, <3>3 DEF Fatal, IsUp
        <4> QED
          BY <3>1, <3>3, <4>1, LedgerNotes
      <3> QED
        BY <2>4, <3>2, <3>3 DEF Fatal
    <2>5. CASE ToBury \/ Finish \/ (\E c \in Creeps : Reuse(c)) \/ (\E s \in Seats : Trade(s))
                 \/ UNCHANGED deathsVars
      <3>1. UNCHANGED <<hurt_by, rose, tick, aegis, down>>
        BY <2>5 DEF ToBury, Finish, Reuse, Trade, deathsVars, history
      <3> QED
        BY <3>1, LedgerFrame
    <2> QED
      BY <2>1, <2>2, <2>3, <2>4, <2>5 DEF DeathsNext
  <1>3. ScoreInv /\ LedgerInv => Accounts
    BY DEF ScoreInv, LedgerInv, Accounts, ScoreKept
  <1> QED
    BY <1>1, <1>2, <1>3, ScoreInvariant, PTL DEF DeathsSpec

-----------------------------------------------------------------------------
(* Verdicts and kill credit. *)

\* A match decided stays decided, however many falls of the batch that decided it
\* are still to be buried (bury_entity, bury_seat, finish_map2_tick).
THEOREM WinnerStands == DeathsSpec => [][WinnerFinal]_deathsVars
  <1>1. [DeathsNext]_deathsVars => [WinnerFinal]_deathsVars
    <2> SUFFICES ASSUME [DeathsNext]_deathsVars, winner # "none" PROVE winner' = winner
      BY DEF WinnerFinal
    <2>1. CASE Bury
      <3>1. \A side : Decided(side) = winner
        BY DEF Decided
      <3> QED
        BY <2>1, <3>1 DEF Bury, Reincarnate
    <2>2. CASE Finish
      BY <2>2 DEF Finish
    <2>3. CASE NewTick \/ ToBury \/ (\E s \in Seats : Trade(s)) \/ (\E c \in Creeps : Reuse(c))
                 \/ UNCHANGED deathsVars
      BY <2>3 DEF NewTick, ToBury, Trade, Reuse, deathsVars
    <2>4. ASSUME NEW by \in Seats, NEW hurt \in Seats, NEW damage \in BOOLEAN,
                 Blow(by, hurt, damage)
          PROVE  winner' = winner
      BY <2>4 DEF Blow
    <2>5. ASSUME NEW e \in Entities, NEW k \in Killers, Fatal(e, k) PROVE winner' = winner
      BY <2>5 DEF Fatal
    <2> QED
      BY <2>1, <2>2, <2>3, <2>4, <2>5 DEF DeathsNext
  <1> QED
    BY <1>1, PTL DEF DeathsSpec

\* No slot is taken again: every creep's row answers.
AllKnown == known = Creeps

\* The hero owed a creep's kill is the one hero_credit names.
LEMMA OwedIsCredited ==
    ASSUME SeatsAssumption, DeathsTypeOK, LedgerOpposed, AllKnown, NEW v \in Seats, NEW k \in Creeps,
           NEW near, BuryHero(v, k, near), CreepSide[k] # Side(v), Cardinality(Damagers(v)) = 1
    PROVE  LET s == CHOOSE s \in Damagers(v) : TRUE IN kills'[s] = kills[s] + 1
  <1> DEFINE d == CHOOSE d \in Damagers(v) : TRUE
  <1>1. k \notin Seats /\ k # Camp /\ k \in known /\ CreepSide[k] \in Sides
    BY DEF SeatsAssumption, AllKnown
  <1>2. TeamOf(k) = CreepSide[k]
    BY <1>1 DEF TeamOf
  <1>3. TeamOf(k) = Other(Side(v))
    BY <1>1, <1>2 DEF Side, Sides, Other
  <1>4. hero_credit(v, k).credited = d
    BY <1>1, <1>3 DEF hero_credit
  <1>5. d \in Damagers(v)
    BY SoleMember
  <1>6. d \in Seats
    BY <1>5 DEF Damagers
  <1>7. TeamOf(k) # Side(v)
    BY <1>2
  <1>8. kills' = [s \in Seats |-> kills[s] +
                     IF s = hero_credit(v, k).credited /\ ~(TeamOf(k) = Side(v)) THEN 1 ELSE 0]
    BY DEF BuryHero, Scores
  <1> HIDE DEF d
  <1>9. kills'[d] = kills[d] + 1
    BY <1>4, <1>6, <1>7, <1>8
  <1> QED
    BY <1>9 DEF d

\* A burial by which somebody dies: whom its kill is owed to.
LEMMA BuriedAndOwed ==
    ASSUME Bury, deaths' # deaths, owed' # Nobody
    PROVE  \E v \in Seats, k \in Creeps, near \in SUBSET Seats :
              /\ BuryHero(v, k, near) /\ CreepSide[k] # Side(v)
              /\ Cardinality(Damagers(v)) = 1
              /\ owed' = CHOOSE s \in Damagers(v) : TRUE
  <1> DEFINE v == Head(batch).fallen
             k == Head(batch).killer
  <1>1. ~(v \in Seats /\ Reincarnate(v))
    BY DEF Reincarnate, score
  <1>2. /\ v \in Seats
        /\ \E near \in SUBSET Seats : BuryHero(v, k, near)
        /\ owed' = IF k \in Creeps /\ CreepSide[k] # Side(v) /\ Cardinality(Damagers(v)) = 1
                   THEN CHOOSE s \in Damagers(v) : TRUE ELSE Nobody
    BY <1>1 DEF Bury, Damagers, Bystanders, SeatsOf, score
  <1> HIDE DEF v, k
  <1>3. PICK near \in SUBSET Seats : BuryHero(v, k, near)
    BY <1>2
  <1>4. /\ k \in Creeps /\ CreepSide[k] # Side(v) /\ Cardinality(Damagers(v)) = 1
        /\ owed' = CHOOSE s \in Damagers(v) : TRUE
    BY <1>2
  <1> QED
    BY <1>2, <1>3, <1>4

\* Where no slot is taken again: a hero that alone damaged a fallen one of late is
\* credited when a hostile creep finishes it, and no verdict is taken back
\* (econ.rs, hero_credit; fight.rs, bury_entity).
THEOREM CreditsAreGiven ==
    ASSUME SeatsAssumption, NumbersAssumption, ~Reused
    PROVE  DeathsSpec => CreditsStand
  <1>1. DeathsInit => AllKnown
    BY DEF DeathsInit, AllKnown
  <1>2. AllKnown /\ [DeathsNext]_deathsVars => AllKnown'
    <2> SUFFICES ASSUME known = Creeps, [DeathsNext]_deathsVars PROVE known' = Creeps
      BY DEF AllKnown
    <2>1. CASE NewTick \/ ToBury \/ Bury \/ Finish \/ (\E s \in Seats : Trade(s)) \/ UNCHANGED deathsVars
      BY <2>1 DEF NewTick, ToBury, Bury, Finish, Trade, deathsVars
    <2>2. \A c \in Creeps : ~Reuse(c)
      BY DEF Reuse
    <2>3. ASSUME NEW by \in Seats, NEW hurt \in Seats, NEW damage \in BOOLEAN,
                 Blow(by, hurt, damage)
          PROVE  known' = Creeps
      BY <2>3 DEF Blow
    <2>4. ASSUME NEW e \in Entities, NEW k \in Killers, Fatal(e, k) PROVE known' = Creeps
      BY <2>4 DEF Fatal
    <2> QED
      BY <2>1, <2>2, <2>3, <2>4 DEF DeathsNext
  <1>3. ScoreInv /\ AllKnown /\ [DeathsNext]_deathsVars => SoleDamagerCredited
    <2> SUFFICES ASSUME ScoreInv, AllKnown, [DeathsNext]_deathsVars,
                        owed' # Nobody, felled' > felled, deaths' # deaths
                 PROVE  kills'[owed'] = kills[owed'] + 1
      BY DEF SoleDamagerCredited
    <2>1. CASE Bury
      <3>1. PICK v \in Seats, k \in Creeps, near \in SUBSET Seats :
               /\ BuryHero(v, k, near) /\ CreepSide[k] # Side(v)
               /\ Cardinality(Damagers(v)) = 1
               /\ owed' = CHOOSE s \in Damagers(v) : TRUE
        BY <2>1, BuriedAndOwed
      <3>2. DeathsTypeOK /\ LedgerOpposed
        BY DEF ScoreInv
      <3> QED
        BY <3>1, <3>2, OwedIsCredited
    <2>2. CASE ~Bury
      <3>1. deaths' = deaths
        <4>1. CASE NewTick \/ ToBury \/ Finish \/ (\E s \in Seats : Trade(s)) \/ UNCHANGED deathsVars
          BY <4>1 DEF NewTick, ToBury, Finish, Trade, deathsVars, score
        <4>2. ASSUME NEW c \in Creeps, Reuse(c) PROVE deaths' = deaths
          BY <4>2 DEF Reuse, score
        <4>3. ASSUME NEW by \in Seats, NEW hurt \in Seats, NEW damage \in BOOLEAN,
                     Blow(by, hurt, damage)
              PROVE  deaths' = deaths
          BY <4>3 DEF Blow, score
        <4>4. ASSUME NEW e \in Entities, NEW k \in Killers, Fatal(e, k) PROVE deaths' = deaths
          BY <4>4 DEF Fatal, score
        <4> QED
          BY <2>2, <4>1, <4>2, <4>3, <4>4 DEF DeathsNext
      <3> QED
        BY <3>1
    <2> QED
      BY <2>1, <2>2
  <1>4. ScoreInv /\ AllKnown /\ [DeathsNext]_deathsVars /\ [WinnerFinal]_deathsVars => [Credited]_deathsVars
    BY <1>3 DEF Credited
  <1> QED
    BY <1>1, <1>2, <1>4, ScoreInvariant, WinnerStands, PTL DEF DeathsSpec, CreditsStand

\* In Map2 two sides that lose on one tick draw, in whatever order their falls
\* are buried; the score and the gold add up, and a verdict stands (bury,
\* bury_seat, finish_map2_tick).
THEOREM TiesAreDrawn ==
    ASSUME SeatsAssumption, NumbersAssumption
    PROVE  DeathsSpec => TiesDrawn
  <1>1. ScoreInv => ScoreKept /\ NoTieWon
    BY DEF ScoreInv, ScoreKept
  <1> QED
    BY <1>1, ScoreInvariant, WinnerStands, PTL DEF TiesDrawn

-----------------------------------------------------------------------------
(* The names (Handles): the parts of the invariant.                        *)

Naming == [name : Nat, named : Nat, told : Nat]

\* Generations in range, every free slot listed once, and both heroes standing in
\* the slots they were given first.
SlotsInv ==
  /\ gen \in Seq(1 .. MaxGen) /\ Len(gen) <= Slots /\ 2 <= Len(gen)
  /\ free \in Seq(DOMAIN gen)
  /\ \A j, k \in DOMAIN free : free[j] = free[k] => j = k
  /\ gen[1] = 1 /\ gen[2] = 1
  /\ ~ Freed(1) /\ ~ Freed(2)

\* Illusions stand, are of a hero and are no heroes, and were made by now.
IllusionsInv ==
  /\ \A i \in illusion :
       /\ i.it \in Live \ {Hero, OwnHero} /\ i.of \in {Hero, OwnHero}
       /\ i.made \in Nat /\ i.made <= moment
  /\ \A i, j \in illusion : i.it = j.it => i = j

\* Two tables, of handles to names and back, answer each other.
Agree(g, b) ==
  /\ \A h \in DOMAIN g : g[h].name \in DOMAIN b /\ b[g[h].name] = h
  /\ \A n \in DOMAIN b : b[n] \in DOMAIN g /\ g[b[n]].name = n

\* The tables are of handles handed out and of names given out before the next.
TablesInv ==
  /\ next \in 0 .. MaxNames
  /\ given \in [DOMAIN given -> Naming] /\ DOMAIN given \subseteq Known
  /\ \A h \in DOMAIN given : given[h].named <= given[h].told /\ given[h].told <= moment
  /\ DOMAIN behind \subseteq 0 .. next - 1
  /\ Agree(given, behind)

\* Every name that stands was written down as given, and none to come is.
EverInv ==
  /\ \A x \in ever : x[1] \in 0 .. next - 1
  /\ \A x, y \in ever : x[1] = y[1] => x[2] = y[2]
  /\ \A n \in DOMAIN behind : <<n, behind[n]>> \in ever

\* What the view made of the disguises, and the names worn under one: none of them
\* is the hero's once no disguise was seen.
MaskInv ==
  /\ masked \subseteq {Hero} /\ worn \subseteq 0 .. next - 1
  /\ told => masked = Disguised \cap {Hero}
  /\ Hero \notin masked => \A n \in worn : n \in DOMAIN behind => behind[n] # Hero
  /\ told /\ Hero \in Disguised =>
       \A h \in Group(Hero) \cap DOMAIN given : ~ Predates(given[h].named, Hero)

\* An order that waits for no more than the next tick names whom it did when it was
\* given, and a unit set on a disguised hero is so by a name of that disguise.
AimInv ==
  Delay = 0 =>
    /\ line # Nothing =>
         /\ told /\ line[3] = moment
         /\ line[2] \in DOMAIN behind /\ behind[line[2]] = line[1]
    /\ aim # Nothing /\ aim[1] = Hero /\ Hero \in Disguised =>
         /\ aim[2] \in DOMAIN behind /\ behind[aim[2]] = Hero
         /\ Hero \in DOMAIN given /\ ~ Predates(given[Hero].named, Hero)

\* The tick last viewed, and the sweep at or before it.
Viewed == IF told THEN moment ELSE moment - 1
LastSweep == Viewed - (Viewed % Sweep)

\* Whatever is gone and still named went, or was told of, since about the last
\* sweep.
GoneInv ==
  /\ moment \in Nat \ {0} /\ told \in BOOLEAN
  /\ \A x \in went :
       /\ x[1] \in DOMAIN given /\ x[1] \notin Live /\ x[2] \in Nat
       /\ \/ x[2] > LastSweep
          \/ given[x[1]].told > LastSweep - Kept
          \/ given[x[1]].told >= LastSweep

HandlesInv ==
  SlotsInv /\ IllusionsInv /\ TablesInv /\ EverInv /\ MaskInv /\ AimInv /\ GoneInv

-----------------------------------------------------------------------------
(* The allocator. *)

\* The generations of the slots handed out, and a list of slots with none twice.
Slotted == gen \in Seq(1 .. MaxGen) /\ Len(gen) <= Slots /\ MaxGen \in Nat \ {0} /\ Slots \in Nat
FreeList(fr) ==
  fr \in Seq(1 .. Len(gen)) /\ \A j, k \in 1 .. Len(fr) : fr[j] = fr[k] => j = k
Wide(fr, n) == IF n <= Len(fr) THEN Len(gen) ELSE Len(gen) + (n - Len(fr))

LEMMA SeqOfFunction ==
  ASSUME NEW T, NEW w \in Nat, NEW f \in [1 .. w -> T]
  PROVE  f \in Seq(T) /\ Len(f) = w
  OBVIOUS

LEMMA SeqFacts ==
  ASSUME NEW T, NEW q \in Seq(T)
  PROVE  Len(q) \in Nat /\ DOMAIN q = 1 .. Len(q) /\ \A k \in 1 .. Len(q) : q[k] \in T
  OBVIOUS

LEMMA SlottedFacts ==
  ASSUME Slotted
  PROVE  /\ Len(gen) \in Nat /\ DOMAIN gen = 1 .. Len(gen) /\ Len(gen) <= Slots
         /\ \A s \in 1 .. Len(gen) : gen[s] \in 1 .. MaxGen
         /\ MaxGen \in Nat \ {0} /\ Slots \in Nat
  BY DEF Slotted

LEMMA FreeListFacts ==
  ASSUME NEW fr, FreeList(fr)
  PROVE  /\ Len(fr) \in Nat /\ DOMAIN fr = 1 .. Len(fr)
         /\ \A k \in 1 .. Len(fr) : fr[k] \in 1 .. Len(gen)
         /\ \A j, k \in 1 .. Len(fr) : fr[j] = fr[k] => j = k
  BY DEF FreeList

\* The slots of allocs in a row are in range: free ones first, then new ones.
LEMMA AllocRange ==
  ASSUME Slotted, NEW fr, FreeList(fr), NEW n \in Nat, NEW k \in 1 .. n
  PROVE  /\ k <= Len(fr) =>
              /\ Alloc(fr, k) = fr[(Len(fr) + 1) - k] /\ (Len(fr) + 1) - k \in 1 .. Len(fr)
              /\ Alloc(fr, k) \in 1 .. Len(gen)
         /\ ~ (k <= Len(fr)) =>
              Alloc(fr, k) \in Nat \ {0} /\ Alloc(fr, k) > Len(gen) /\ Alloc(fr, k) <= Wide(fr, n)
  <1> DEFINE a == Len(gen)
             l == Len(fr)
  <1>1. a \in Nat /\ l \in Nat /\ \A j \in 1 .. l : fr[j] \in 1 .. a
    BY SlottedFacts, FreeListFacts
  <1> HIDE DEF a, l
  <1>2. k \in Nat /\ 1 <= k /\ k <= n
    OBVIOUS
  <1>3. CASE k <= l
    <2>1. (l + 1) - k \in 1 .. l
      BY <1>1, <1>2, <1>3
    <2>2. fr[(l + 1) - k] \in 1 .. a
      BY <1>1, <2>1
    <2>3. l + 1 - k = (l + 1) - k
      BY <1>1, <1>2
    <2>4. Alloc(fr, k) = fr[(l + 1) - k]
      BY <1>3, <2>3 DEF Alloc, l
    <2> QED
      BY <1>3, <2>1, <2>2, <2>4 DEF a, l
  <1>4. CASE ~ (k <= l)
    <2>1. Alloc(fr, k) = a + (k - l) /\ Wide(fr, n) = a + (n - l)
      <3>1. ~ (n <= l)
        BY <1>1, <1>2, <1>4
      <3> QED
        BY <1>4, <3>1 DEF Alloc, Wide, a, l
    <2>2. a + (k - l) \in Nat \ {0} /\ a + (k - l) > a /\ a + (k - l) <= a + (n - l)
      BY <1>1, <1>2, <1>4
    <2> QED
      BY <1>4, <2>1, <2>2 DEF a, l
  <1> QED
    BY <1>3, <1>4 DEF l

\* Generations stay in range, and rise by one where a slot changes hands.
LEMMA RaisedFacts ==
  ASSUME Slotted, NEW fr, FreeList(fr), NEW n \in Nat, Room(fr, n)
  PROVE  /\ Raised(fr, n) \in Seq(1 .. MaxGen) /\ Len(Raised(fr, n)) = Wide(fr, n)
         /\ Wide(fr, n) \in Nat /\ Len(gen) <= Wide(fr, n) /\ Wide(fr, n) <= Slots
         /\ \A s \in 1 .. Len(gen) :
              /\ (\E k \in 1 .. n : Alloc(fr, k) = s) => Raised(fr, n)[s] = gen[s] + 1
              /\ (~ \E k \in 1 .. n : Alloc(fr, k) = s) => Raised(fr, n)[s] = gen[s]
  <1> DEFINE a == Len(gen)
             l == Len(fr)
             w == Wide(fr, n)
             drawn(s) == \E k \in 1 .. n : Alloc(fr, k) = s
             up(s) == IF s > a THEN 1 ELSE gen[s] + IF drawn(s) THEN 1 ELSE 0
             g == [s \in 1 .. w |-> up(s)]
  <1>1. a \in Nat /\ a <= Slots /\ l \in Nat /\ Slots \in Nat /\ MaxGen \in Nat \ {0}
    BY SlottedFacts, FreeListFacts
  <1>2. \A s \in 1 .. a : gen[s] \in 1 .. MaxGen /\ gen[s] < MaxGen
    BY SlottedFacts DEF Room
  <1>3. Raised(fr, n) = g
    BY DEF Raised, Wide
  <1>4. w \in Nat /\ a <= w /\ w <= Slots
    <2>1. w = IF n <= l THEN a ELSE a + (n - l)
      BY DEF Wide
    <2>2. a + (n - l) <= Slots
      BY DEF Room
    <2> HIDE DEF a, l, w
    <2> QED
      BY <1>1, <2>1, <2>2
  <1> HIDE DEF a, l, w, drawn
  <1>5. \A s \in 1 .. w : up(s) \in 1 .. MaxGen
    BY <1>1, <1>2, <1>4
  <1>6. \A s \in 1 .. a : s \in 1 .. w /\ ~ (s > a) /\ gen[s] \in Nat
    BY <1>1, <1>2, <1>4
  <1>7. \A s \in 1 .. a : (drawn(s) => g[s] = gen[s] + 1) /\ (~ drawn(s) => g[s] = gen[s])
    BY <1>6
  <1> HIDE DEF up
  <1>8. g \in [1 .. w -> 1 .. MaxGen]
    BY <1>5
  <1> HIDE DEF g
  <1>9. g \in Seq(1 .. MaxGen) /\ Len(g) = w
    BY <1>4, <1>8, SeqOfFunction
  <1> QED
    BY <1>3, <1>4, <1>7, <1>9 DEF drawn, a, w

\* What is left free is the beginning of what was.
LEMMA LeftFreeFacts ==
  ASSUME Slotted, NEW fr, FreeList(fr), NEW n \in Nat
  PROVE  /\ LeftFree(fr, n) \in Seq(1 .. Len(gen))
         /\ Len(LeftFree(fr, n)) = IF n <= Len(fr) THEN Len(fr) - n ELSE 0
         /\ \A k \in 1 .. Len(LeftFree(fr, n)) : LeftFree(fr, n)[k] = fr[k]
  <1> DEFINE l == Len(fr)
  <1>1. l \in Nat /\ fr \in Seq(1 .. Len(gen))
    BY DEF FreeList
  <1>2. CASE n <= l
    <2>1. l - n \in 0 .. l
      BY <1>1, <1>2
    <2>2. /\ SubSeq(fr, 1, l - n) \in Seq(1 .. Len(gen))
          /\ Len(SubSeq(fr, 1, l - n)) = l - n
          /\ \A k \in 1 .. l - n : SubSeq(fr, 1, l - n)[k] = fr[k]
      BY <1>1, <2>1
    <2> QED
      BY <1>2, <2>2 DEF LeftFree
  <1>3. CASE ~ (n <= l)
    <2>1. l - n < 1
      BY <1>1, <1>3
    <2>2. LeftFree(fr, n) = <<>>
      BY <1>1, <2>1 DEF LeftFree
    <2> QED
      BY <1>3, <2>2
  <1> QED
    BY <1>2, <1>3

\* Of the slots that were free, those no longer so have their next tenant, and
\* no other slot changes hands.
LEMMA AllocSlots ==
  ASSUME Slotted, NEW fr, FreeList(fr), NEW n \in Nat, Room(fr, n)
  PROVE  /\ \A s \in 1 .. Len(gen) :
              (\A k \in 1 .. Len(fr) : fr[k] # s) => Raised(fr, n)[s] = gen[s]
         /\ \A j \in 1 .. Len(fr) :
              \/ j \in 1 .. Len(LeftFree(fr, n))
              \/ Raised(fr, n)[fr[j]] = gen[fr[j]] + 1
         /\ \A j \in 1 .. Len(LeftFree(fr, n)) :
              j \in 1 .. Len(fr) /\ \A k \in 1 .. n : Alloc(fr, k) # fr[j]
  <1> DEFINE l == Len(fr)
             f == Len(LeftFree(fr, n))
  <1>1. l \in Nat /\ f = (IF n <= l THEN l - n ELSE 0)
        /\ (\A j \in 1 .. l : fr[j] \in 1 .. Len(gen)) /\ Len(gen) \in Nat
        /\ \A j, k \in 1 .. l : fr[j] = fr[k] => j = k
    BY FreeListFacts, LeftFreeFacts, SlottedFacts
  <1>2. \A k \in 1 .. n : k <= l =>
          Alloc(fr, k) = fr[(l + 1) - k] /\ (l + 1) - k \in 1 .. l
    BY AllocRange
  <1>3. \A k \in 1 .. n : ~ (k <= l) => Alloc(fr, k) \notin 1 .. Len(gen)
    <2> SUFFICES ASSUME NEW k \in 1 .. n, ~ (k <= l) PROVE Alloc(fr, k) \notin 1 .. Len(gen)
      OBVIOUS
    <2>1. Alloc(fr, k) \in Nat /\ Alloc(fr, k) > Len(gen)
      BY AllocRange
    <2> QED
      BY <1>1, <2>1
  <1> HIDE DEF l, f
  <1>4. ASSUME NEW s \in 1 .. Len(gen), \A k \in 1 .. l : fr[k] # s
        PROVE  Raised(fr, n)[s] = gen[s]
    <2>1. ~ \E k \in 1 .. n : Alloc(fr, k) = s
      BY <1>2, <1>3, <1>4
    <2> QED
      BY <2>1, RaisedFacts
  <1>5. ASSUME NEW j \in 1 .. l
        PROVE  j \in 1 .. f \/ Raised(fr, n)[fr[j]] = gen[fr[j]] + 1
    <2>1. CASE j \in 1 .. f
      BY <2>1
    <2>2. CASE j \notin 1 .. f
      <3> DEFINE k == (l + 1) - j
      <3>1. k \in 1 .. n /\ k <= l /\ (l + 1) - k = j
        BY <1>1, <2>2
      <3>2. Alloc(fr, k) = fr[j]
        BY <1>2, <3>1
      <3>3. fr[j] \in 1 .. Len(gen)
        BY <1>1
      <3> QED
        BY <3>1, <3>2, <3>3, RaisedFacts
    <2> QED
      BY <2>1, <2>2
  <1>6. ASSUME NEW j \in 1 .. f PROVE j \in 1 .. l /\ \A k \in 1 .. n : Alloc(fr, k) # fr[j]
    <2>1. j \in 1 .. l /\ j <= l - n
      BY <1>1
    <2>2. ASSUME NEW k \in 1 .. n, Alloc(fr, k) = fr[j] PROVE FALSE
      <3>1. fr[j] \in 1 .. Len(gen)
        BY <1>1, <2>1
      <3>2. k <= l
        BY <1>3, <2>2, <3>1
      <3>3. fr[(l + 1) - k] = fr[j] /\ (l + 1) - k \in 1 .. l
        BY <1>2, <2>2, <3>2
      <3>4. (l + 1) - k = j
        BY <1>1, <2>1, <3>3
      <3> QED
        BY <1>1, <2>1, <3>4
    <2> QED
      BY <2>1, <2>2
  <1> QED
    BY <1>4, <1>5, <1>6 DEF l, f

\* The world's handles after `n` allocs: whoever was gone stays gone, whoever stood
\* in a slot that was not free stands, and the new ones were never known before.
LEMMA AllocStep ==
  ASSUME HandlesAssumption, SlotsInv, NEW fr, FreeList(fr), NEW n \in Nat, Room(fr, n),
         \A k \in 1 .. Len(fr) : fr[k] # 1 /\ fr[k] # 2,
         \A j \in DOMAIN free : \E k \in 1 .. Len(fr) : fr[k] = free[j],
         gen' = Raised(fr, n), free' = LeftFree(fr, n)
  PROVE  /\ SlotsInv'
         /\ Known \subseteq Known'
         /\ \A h \in Known \ Live : h \notin Live'
         /\ \A h \in Live : (\A k \in 1 .. Len(fr) : fr[k] # h[1]) => h \in Live'
         /\ \A h \in Live : (\E k \in 1 .. Len(fr) : fr[k] = h[1]) => h \notin Live'
         /\ \A m \in Made(fr, n) : m \in Live' /\ m \notin Known
  <1>1. Slotted
    BY DEF Slotted, SlotsInv, HandlesAssumption
  <1>2. /\ Len(gen) \in Nat /\ DOMAIN gen = 1 .. Len(gen) /\ 2 <= Len(gen)
        /\ \A s \in 1 .. Len(gen) : gen[s] \in 1 .. MaxGen
        /\ MaxGen \in Nat
    BY <1>1, SlottedFacts DEF SlotsInv
  <1>3. /\ gen' \in Seq(1 .. MaxGen) /\ Len(gen') \in Nat /\ DOMAIN gen' = 1 .. Len(gen')
        /\ Len(gen) <= Len(gen') /\ Len(gen') <= Slots /\ Len(gen') = Wide(fr, n)
        /\ \A s \in 1 .. Len(gen') : gen'[s] \in 1 .. MaxGen
    <2>1. /\ gen' \in Seq(1 .. MaxGen) /\ Len(gen') = Wide(fr, n)
          /\ Len(gen) <= Wide(fr, n) /\ Wide(fr, n) <= Slots
      BY <1>1, RaisedFacts
    <2>2. Len(gen') \in Nat /\ DOMAIN gen' = 1 .. Len(gen')
          /\ \A s \in 1 .. Len(gen') : gen'[s] \in 1 .. MaxGen
      BY <2>1, SeqFacts
    <2> QED
      BY <2>1, <2>2
  <1>4. \A s \in 1 .. Len(gen) : gen'[s] \in {gen[s], gen[s] + 1}
    BY <1>1, RaisedFacts
  <1>5. /\ Len(fr) \in Nat
        /\ \A k \in 1 .. Len(fr) : fr[k] \in 1 .. Len(gen)
        /\ \A j, k \in 1 .. Len(fr) : fr[j] = fr[k] => j = k
    BY FreeListFacts
  <1>6. /\ free' \in Seq(1 .. Len(gen)) /\ DOMAIN free' = 1 .. Len(free')
        /\ \A k \in 1 .. Len(free') : free'[k] = fr[k]
    BY <1>1, LeftFreeFacts
  <1>7. /\ \A s \in 1 .. Len(gen) : (\A k \in 1 .. Len(fr) : fr[k] # s) => gen'[s] = gen[s]
        /\ \A j \in 1 .. Len(fr) : j \in 1 .. Len(free') \/ gen'[fr[j]] = gen[fr[j]] + 1
        /\ \A j \in 1 .. Len(free') :
             j \in 1 .. Len(fr) /\ \A k \in 1 .. n : Alloc(fr, k) # fr[j]
    BY <1>1, AllocSlots
  <1>8. free' \in Seq(DOMAIN gen')
    <2>1. 1 .. Len(gen) \subseteq DOMAIN gen'
      BY <1>2, <1>3
    <2> QED
      BY <1>6, <2>1
  <1> DEFINE freed(s) == \E k \in 1 .. Len(free') : fr[k] = s
  <1>9. \A s : (\E k \in DOMAIN free' : free'[k] = s) <=> freed(s)
    BY <1>6
  <1>10. SlotsInv'
    <2>1. ASSUME NEW j \in DOMAIN free', NEW k \in DOMAIN free', free'[j] = free'[k] PROVE j = k
      <3>1. j \in 1 .. Len(fr) /\ k \in 1 .. Len(fr) /\ fr[j] = fr[k]
        BY <1>6, <1>7, <2>1
      <3> QED
        BY <1>5, <3>1
    <2>2. gen'[1] = 1 /\ gen'[2] = 1
      <3>1. 1 \in 1 .. Len(gen) /\ 2 \in 1 .. Len(gen)
        BY <1>2
      <3>2. gen'[1] = gen[1] /\ gen'[2] = gen[2]
        BY <1>7, <3>1
      <3> QED
        BY <3>2 DEF SlotsInv
    <2>3. ~ freed(1) /\ ~ freed(2)
      BY <1>7
    <2>4. 2 <= Len(gen')
      BY <1>2, <1>3
    <2> QED
      BY <1>3, <1>8, <1>9, <2>1, <2>2, <2>3, <2>4 DEF SlotsInv, Freed
  <1>11. ASSUME NEW h
         PROVE  /\ h \in Known <=> /\ h \in (1 .. Len(gen)) \X (1 .. MaxGen)
                                   /\ h[2] <= gen[h[1]]
                /\ h \in Known' <=> /\ h \in (1 .. Len(gen')) \X (1 .. MaxGen)
                                    /\ h[2] <= gen'[h[1]]
                /\ h \in Live <=> h \in Known /\ h[2] = gen[h[1]] /\ ~ Freed(h[1])
                /\ h \in Live' <=> h \in Known' /\ h[2] = gen'[h[1]] /\ ~ freed(h[1])
    BY <1>9 DEF Known, Live, Freed
  <1>12. Known \subseteq Known'
    <2> SUFFICES ASSUME NEW h \in Known PROVE h \in Known'
      OBVIOUS
    <2>1. h \in (1 .. Len(gen)) \X (1 .. MaxGen) /\ h[2] <= gen[h[1]]
      BY <1>11
    <2>2. h \in (1 .. Len(gen')) \X (1 .. MaxGen)
      BY <1>2, <1>3, <2>1
    <2>3. h[2] <= gen'[h[1]]
      BY <1>2, <1>4, <2>1
    <2> QED
      BY <1>11, <2>2, <2>3
  <1>13. ASSUME NEW h \in Known \ Live PROVE h \notin Live'
    <2>1. h[1] \in 1 .. Len(gen) /\ h[2] \in Nat /\ h[2] <= gen[h[1]] /\ gen[h[1]] \in Nat
      BY <1>2, <1>11
    <2>2. CASE h[2] # gen[h[1]]
      BY <1>4, <1>11, <2>1, <2>2
    <2>3. CASE h[2] = gen[h[1]]
      <3>1. PICK j \in 1 .. Len(fr) : fr[j] = h[1]
        BY <1>11, <2>3 DEF Freed
      <3>2. CASE j \in 1 .. Len(free')
        BY <1>9, <1>11, <3>1, <3>2
      <3>3. CASE gen'[h[1]] = gen[h[1]] + 1
        BY <1>11, <2>1, <2>3, <3>3
      <3> QED
        BY <1>7, <3>1, <3>2, <3>3
    <2> QED
      BY <2>2, <2>3
  <1>14. ASSUME NEW h \in Live PROVE
           /\ (\A k \in 1 .. Len(fr) : fr[k] # h[1]) => h \in Live'
           /\ (\E k \in 1 .. Len(fr) : fr[k] = h[1]) => h \notin Live'
    <2>1. h \in Known /\ h \in Known' /\ h[1] \in 1 .. Len(gen) /\ h[2] = gen[h[1]] /\ gen[h[1]] \in Nat
      BY <1>2, <1>11, <1>12
    <2>2. ASSUME \A k \in 1 .. Len(fr) : fr[k] # h[1] PROVE h \in Live'
      <3>1. gen'[h[1]] = gen[h[1]] /\ ~ freed(h[1])
        BY <1>7, <1>9, <2>1, <2>2
      <3> QED
        BY <1>11, <2>1, <3>1
    <2>3. ASSUME NEW k \in 1 .. Len(fr), fr[k] = h[1] PROVE h \notin Live'
      <3>1. CASE k \in 1 .. Len(free')
        BY <1>9, <1>11, <2>3, <3>1
      <3>2. CASE gen'[h[1]] = gen[h[1]] + 1
        BY <1>11, <2>1, <3>2
      <3> QED
        BY <1>7, <2>3, <3>1, <3>2
    <2> QED
      BY <2>2, <2>3
  <1>15. ASSUME NEW m \in Made(fr, n) PROVE m \in Live' /\ m \notin Known
    <2>1. PICK k \in 1 .. n : m = <<Alloc(fr, k), gen'[Alloc(fr, k)]>>
      BY DEF Made
    <2> DEFINE s == Alloc(fr, k)
    <2>2. s \in 1 .. Len(gen')
      <3>1. CASE k <= Len(fr)
        <4>1. s \in 1 .. Len(gen)
          BY <1>1, <3>1, AllocRange
        <4> QED
          BY <1>2, <1>3, <4>1
      <3>2. CASE ~ (k <= Len(fr))
        <4>1. s \in Nat \ {0} /\ s <= Wide(fr, n)
          BY <1>1, <3>2, AllocRange
        <4> QED
          BY <1>3, <4>1
      <3> QED
        BY <3>1, <3>2
    <2>3. gen'[s] \in 1 .. MaxGen
      BY <1>3, <2>2
    <2>4. ~ freed(s)
      BY <1>7, <1>9
    <2>5. s \in 1 .. Len(gen) => gen'[s] = gen[s] + 1
      BY <1>1, RaisedFacts
    <2> HIDE DEF s
    <2>6. m[1] = s /\ m[2] = gen'[s] /\ m \in (1 .. Len(gen')) \X (1 .. MaxGen)
      BY <2>1, <2>2, <2>3 DEF s
    <2>7. m \in Live'
      BY <1>11, <2>3, <2>4, <2>6
    <2>8. m \notin Known
      BY <1>2, <1>11, <2>5, <2>6
    <2> QED
      BY <2>7, <2>8
  <1> QED
    BY <1>10, <1>12, <1>13, <1>14, <1>15

-----------------------------------------------------------------------------
(* The world's part of a tick. *)

\* What every step of the world has in common: whoever is gone stays so, whoever of
\* the named goes is written down, and either no illusion of the hero was made or
\* nothing is set on it.
WorldMoved ==
  /\ ~ told /\ SlotsInv' /\ IllusionsInv' /\ Known \subseteq Known'
  /\ \A h \in Known \ Live : h \notin Live'
  /\ \E S \in SUBSET Live : went' = Went(S) /\ \A h \in S : h \notin Live'
  /\ UNCHANGED <<moment, told, names, line>>
  /\ \/ /\ aim' = aim
        /\ \A i \in illusion' : i.of = Hero => i \in illusion
     \/ aim' = Nothing \/ aim'[1] # Hero

LEMMA KnownFacts ==
  ASSUME NEW h
  PROVE  /\ h \in Known <=> /\ h \in (1 .. Len(gen)) \X (1 .. MaxGen)
                            /\ h[2] <= gen[h[1]]
         /\ h \in Live <=> h \in Known /\ h[2] = gen[h[1]] /\ ~ Freed(h[1])
  BY DEF Known, Live

\* A slot has one tenant.
LEMMA OneTenant ==
  ASSUME NEW h \in Live, NEW k \in Live, h[1] = k[1]
  PROVE  h = k
  <1>1. h \in (1 .. Len(gen)) \X (1 .. MaxGen) /\ k \in (1 .. Len(gen)) \X (1 .. MaxGen)
        /\ h[2] = k[2]
    BY KnownFacts
  <1> QED
    BY <1>1

LEMMA HeroesStand ==
  ASSUME HandlesAssumption, SlotsInv
  PROVE  Hero \in Live /\ OwnHero \in Live
  <1>1. Len(gen) \in Nat /\ 2 <= Len(gen) /\ MaxGen \in Nat \ {0} /\ gen[1] = 1 /\ gen[2] = 1
    BY SeqFacts DEF SlotsInv, HandlesAssumption
  <1>2. Hero \in (1 .. Len(gen)) \X (1 .. MaxGen) /\ OwnHero \in (1 .. Len(gen)) \X (1 .. MaxGen)
    BY <1>1 DEF Hero, OwnHero
  <1>3. Hero[1] = 1 /\ Hero[2] = 1 /\ OwnHero[1] = 2 /\ OwnHero[2] = 1
    BY DEF Hero, OwnHero
  <1>4. ~ Freed(1) /\ ~ Freed(2)
    BY DEF SlotsInv
  <1>5. Hero \in Known /\ OwnHero \in Known
    BY <1>1, <1>2, <1>3, KnownFacts
  <1> QED
    BY <1>1, <1>3, <1>4, <1>5, KnownFacts

LEMMA FreeIsList ==
  ASSUME HandlesAssumption, SlotsInv
  PROVE  FreeList(free) /\ Slotted /\ \A k \in 1 .. Len(free) : free[k] # 1 /\ free[k] # 2
  <1>1. Slotted
    BY DEF Slotted, SlotsInv, HandlesAssumption
  <1>2. DOMAIN gen = 1 .. Len(gen) /\ DOMAIN free = 1 .. Len(free)
    BY <1>1, SlottedFacts, SeqFacts DEF SlotsInv
  <1> QED
    BY <1>1, <1>2 DEF FreeList, SlotsInv, Freed

\* An entity stands up.
LEMMA SpawnMoves ==
  ASSUME HandlesAssumption, SlotsInv, IllusionsInv, Spawn
  PROVE  WorldMoved
  <1>1. FreeList(free) /\ DOMAIN free = 1 .. Len(free)
        /\ \A k \in 1 .. Len(free) : free[k] # 1 /\ free[k] # 2
    BY FreeIsList, FreeListFacts
  <1>2. /\ SlotsInv' /\ Known \subseteq Known'
        /\ \A h \in Known \ Live : h \notin Live'
        /\ \A h \in Live : (\A k \in 1 .. Len(free) : free[k] # h[1]) => h \in Live'
    <2>1. Room(free, 1) /\ gen' = Raised(free, 1) /\ free' = LeftFree(free, 1)
      BY DEF Spawn
    <2> QED
      BY <1>1, <2>1, AllocStep
  <1>3. Live \subseteq Live'
    BY <1>1, <1>2, KnownFacts DEF Freed
  <1>4. illusion' = illusion /\ moment' = moment /\ aim' = aim
    BY DEF Spawn
  <1>5. IllusionsInv'
    BY <1>3, <1>4 DEF IllusionsInv, Hero, OwnHero
  <1>6. went' = Went({})
    BY DEF Spawn, Went
  <1>7. ~ told /\ UNCHANGED <<moment, told, names, line>>
    BY DEF Spawn
  <1> QED
    BY <1>2, <1>4, <1>5, <1>6, <1>7 DEF WorldMoved

\* An entity is gone.
LEMMA DespawnMoves ==
  ASSUME HandlesAssumption, SlotsInv, IllusionsInv, NEW h \in Live, Despawn(h)
  PROVE  WorldMoved
  <1> DEFINE s == h[1]
  <1>1. /\ gen' = gen /\ free' = Append(free, s) /\ h # Hero /\ h # OwnHero
        /\ illusion' = {i \in illusion : i.it # h} /\ went' = Went({h}) /\ ~ told
        /\ UNCHANGED <<moment, told, names, line, aim>>
    BY DEF Despawn
  <1>2. s \in 1 .. Len(gen) /\ ~ Freed(s)
    BY KnownFacts
  <1>3. s # 1 /\ s # 2
    <2>1. Hero \in Live /\ OwnHero \in Live /\ Hero[1] = 1 /\ OwnHero[1] = 2
      BY HeroesStand DEF Hero, OwnHero
    <2> QED
      BY <1>1, <2>1, OneTenant
  <1>4. Slotted /\ FreeList(free) /\ DOMAIN gen = 1 .. Len(gen)
    BY FreeIsList, SlottedFacts
  <1>5. /\ Len(free) \in Nat /\ DOMAIN free = 1 .. Len(free) /\ free \in Seq(1 .. Len(gen))
        /\ \A j, k \in 1 .. Len(free) : free[j] = free[k] => j = k
    BY <1>4, FreeListFacts DEF FreeList
  <1> HIDE DEF s
  <1>6. /\ free' \in Seq(1 .. Len(gen)) /\ Len(free') = Len(free) + 1
        /\ \A k \in 1 .. Len(free) : free'[k] = free[k]
        /\ free'[Len(free) + 1] = s
    <2>1. /\ Append(free, s) \in Seq(1 .. Len(gen)) /\ Len(Append(free, s)) = Len(free) + 1
          /\ \A k \in 1 .. Len(free) : Append(free, s)[k] = free[k]
          /\ Append(free, s)[Len(free) + 1] = s
      BY <1>2, <1>5
    <2> QED
      BY <1>1, <2>1
  <1>7. DOMAIN free' = 1 .. Len(free) + 1
    BY <1>6, SeqFacts
  <1>8. ASSUME NEW j \in DOMAIN free', NEW k \in DOMAIN free', free'[j] = free'[k] PROVE j = k
    <2>1. j \in 1 .. Len(free) \/ j = Len(free) + 1
      BY <1>5, <1>7
    <2>2. k \in 1 .. Len(free) \/ k = Len(free) + 1
      BY <1>5, <1>7
    <2>3. \A n \in 1 .. Len(free) : free[n] # s
      BY <1>2, <1>5 DEF Freed
    <2> QED
      BY <1>5, <1>6, <1>8, <2>1, <2>2, <2>3
  <1>9. ASSUME NEW t PROVE Freed(t)' <=> Freed(t) \/ t = s
    <2>1. 1 .. Len(free) \subseteq DOMAIN free' /\ Len(free) + 1 \in DOMAIN free'
      BY <1>5, <1>7
    <2>2. \A k \in DOMAIN free' : k \in 1 .. Len(free) \/ k = Len(free) + 1
      BY <1>5, <1>7
    <2> QED
      BY <1>5, <1>6, <2>1, <2>2 DEF Freed
  <1>10. SlotsInv'
    <2>1. ~ Freed(1)' /\ ~ Freed(2)'
      BY <1>3, <1>9 DEF SlotsInv
    <2> QED
      BY <1>1, <1>4, <1>6, <1>8, <2>1 DEF SlotsInv
  <1>11. Known' = Known /\ \A k : k \in Live' <=> k \in Live /\ k[1] # s
    <2>1. Known' = Known
      BY <1>1 DEF Known
    <2> QED
      BY <1>1, <1>9, <2>1 DEF Live
  <1>12. IllusionsInv'
    <2> SUFFICES ASSUME NEW i \in illusion, i.it # h PROVE i.it \in Live'
      BY <1>1 DEF IllusionsInv
    <2>1. i.it \in Live
      BY DEF IllusionsInv
    <2> QED
      BY <1>11, <2>1, OneTenant DEF s
  <1>13. h \notin Live' /\ \A k \in Known \ Live : k \notin Live'
    BY <1>11 DEF s
  <1>14. \A i \in illusion' : i \in illusion
    BY <1>1
  <1>15. \E S \in SUBSET Live : went' = Went(S) /\ \A k \in S : k \notin Live'
    <2>1. {h} \in SUBSET Live
      OBVIOUS
    <2> QED
      BY <1>1, <1>13, <2>1
  <1> QED
    BY <1>1, <1>10, <1>11, <1>12, <1>13, <1>14, <1>15 DEF WorldMoved

\* The slots of the illusions let go, behind those that were free.
LEMMA GoneIsFree ==
  ASSUME HandlesAssumption, SlotsInv, IllusionsInv, NEW old \in SUBSET illusion,
         NEW gone \in InSlotOrder({i.it[1] : i \in old})
  PROVE  /\ FreeList(free \o gone)
         /\ \A k \in 1 .. Len(free \o gone) :
              \/ \E j \in DOMAIN free : (free \o gone)[k] = free[j]
              \/ \E i \in old : (free \o gone)[k] = i.it[1]
         /\ \A j \in DOMAIN free : \E k \in 1 .. Len(free \o gone) : (free \o gone)[k] = free[j]
         /\ \A i \in old : \E k \in 1 .. Len(free \o gone) : (free \o gone)[k] = i.it[1]
  <1> DEFINE S == {i.it[1] : i \in old}
             c == Cardinality(S)
             f == Len(free)
             fr == free \o gone
  <1>1. Slotted /\ Len(gen) \in Nat /\ f \in Nat /\ DOMAIN free = 1 .. f
        /\ free \in Seq(1 .. Len(gen)) /\ \A j, k \in 1 .. f : free[j] = free[k] => j = k
    BY FreeIsList, SlottedFacts, FreeListFacts DEF FreeList
  <1>2. \A s \in S : s \in 1 .. Len(gen) /\ \A j \in 1 .. f : free[j] # s
    <2> SUFFICES ASSUME NEW i \in old
                 PROVE  i.it[1] \in 1 .. Len(gen) /\ \A j \in 1 .. f : free[j] # i.it[1]
      OBVIOUS
    <2>1. i.it \in Live
      BY DEF IllusionsInv
    <2>2. i.it[1] \in 1 .. Len(gen) /\ ~ Freed(i.it[1])
      BY <2>1 DEF Live, Known
    <2> QED
      BY <1>1, <2>2 DEF Freed
  <1>3. c \in Nat
    <2> HIDE DEF S
    <2>1. IsFiniteSet(1 .. Len(gen))
      BY <1>1, FS_Interval
    <2>2. IsFiniteSet(S)
      BY <1>2, <2>1, FS_Subset
    <2> QED
      BY <2>2, FS_CardinalityType
  <1>4. /\ gone \in [1 .. c -> S] /\ \A s \in S : \E k \in 1 .. c : gone[k] = s
        /\ \A j, k \in 1 .. c : gone[j] = gone[k] => j = k
    <2>1. gone \in Bijection(1 .. c, S)
      BY DEF InSlotOrder
    <2> HIDE DEF c, S
    <2>2. gone \in [1 .. c -> S] /\ IsInjective(gone) /\ \A s \in S : \E k \in 1 .. c : gone[k] = s
      BY <2>1 DEF Bijection, Injection, Surjection
    <2>3. \A j, k \in 1 .. c : gone[j] = gone[k] => j = k
      BY <2>2 DEF IsInjective
    <2> QED
      BY <2>2, <2>3
  <1> HIDE DEF c, S
  <1>5. gone \in Seq(1 .. Len(gen)) /\ Len(gone) = c
    <2>1. gone \in [1 .. c -> 1 .. Len(gen)]
      BY <1>2, <1>4
    <2> QED
      BY <1>3, <2>1, SeqOfFunction
  <1>6. /\ fr \in Seq(1 .. Len(gen)) /\ Len(fr) = f + c
        /\ \A k \in 1 .. f : fr[k] = free[k]
        /\ \A k \in 1 .. c : fr[f + k] = gone[k]
    <2> DEFINE T == 1 .. Len(gen)
    <2>1. free \in Seq(T) /\ gone \in Seq(T) /\ Len(gone) = c /\ f = Len(free)
      BY <1>1, <1>5
    <2> HIDE DEF T, f
    <2>2. fr \in Seq(T) /\ Len(fr) = f + c
      BY <2>1
    <2>3. \A k \in 1 .. f : fr[k] = free[k]
      BY <2>1, <1>1, <1>3
    <2>4. \A k \in 1 .. c : fr[f + k] = gone[k]
      BY <2>1, <1>1, <1>3
    <2> QED
      BY <2>2, <2>3, <2>4 DEF T
  <1> HIDE DEF f, fr
  <1>7. ASSUME NEW k \in 1 .. f + c
        PROVE  k \in 1 .. f \/ (k - f \in 1 .. c /\ k = f + (k - f))
    BY <1>1, <1>3
  <1>8. ASSUME NEW k \in 1 .. f + c
        PROVE  \/ k \in 1 .. f /\ fr[k] = free[k]
               \/ k - f \in 1 .. c /\ fr[k] = gone[k - f] /\ fr[k] \in S
    BY <1>4, <1>6, <1>7
  <1>9. ASSUME NEW j \in 1 .. f + c, NEW k \in 1 .. f + c, fr[j] = fr[k] PROVE j = k
    <2>1. CASE j \in 1 .. f /\ fr[j] = free[j] /\ k \in 1 .. f /\ fr[k] = free[k]
      BY <1>1, <1>9, <2>1
    <2>2. CASE j - f \in 1 .. c /\ fr[j] = gone[j - f] /\ k - f \in 1 .. c /\ fr[k] = gone[k - f]
      <3>1. j - f = k - f
        BY <1>4, <1>9, <2>2
      <3> QED
        BY <1>1, <1>3, <3>1
    <2>3. CASE j \in 1 .. f /\ fr[j] = free[j] /\ fr[k] \in S
      BY <1>2, <1>9, <2>3
    <2>4. CASE k \in 1 .. f /\ fr[k] = free[k] /\ fr[j] \in S
      BY <1>2, <1>9, <2>4
    <2> QED
      BY <1>8, <2>1, <2>2, <2>3, <2>4
  <1>10. FreeList(fr)
    BY <1>6, <1>9 DEF FreeList
  <1>11. \A k \in 1 .. Len(fr) :
           (\E j \in DOMAIN free : fr[k] = free[j]) \/ (\E i \in old : fr[k] = i.it[1])
    BY <1>1, <1>6, <1>8 DEF S
  <1>12. \A j \in 1 .. f : j \in 1 .. f + c
    BY <1>1, <1>3
  <1>13. \A k \in 1 .. c : f + k \in 1 .. f + c
    BY <1>1, <1>3
  <1>14. \A j \in DOMAIN free : \E k \in 1 .. Len(fr) : fr[k] = free[j]
    BY <1>1, <1>6, <1>12
  <1>15. \A i \in old : \E k \in 1 .. Len(fr) : fr[k] = i.it[1]
    <2> SUFFICES ASSUME NEW i \in old PROVE \E k \in 1 .. Len(fr) : fr[k] = i.it[1]
      OBVIOUS
    <2>1. i.it[1] \in S
      BY DEF S
    <2>2. PICK k \in 1 .. c : gone[k] = i.it[1]
      BY <1>4, <2>1
    <2> QED
      BY <1>6, <1>13, <2>2
  <1> QED
    BY <1>10, <1>11, <1>14, <1>15 DEF fr

\* A rune makes illusions of a hero in place of those it has.
LEMMA RuneMoves ==
  ASSUME HandlesAssumption, SlotsInv, IllusionsInv, moment \in Nat,
         NEW h \in {Hero, OwnHero}, MakeRuneIllusions(h)
  PROVE  WorldMoved
  <1> DEFINE old == {i \in illusion : i.of = h}
  <1>1. PICK gone \in InSlotOrder({i.it[1] : i \in old}) :
          LET fr == free \o gone
          IN  /\ ~ told /\ Room(fr, Count)
              /\ gen' = Raised(fr, Count) /\ free' = LeftFree(fr, Count)
              /\ illusion' = (illusion \ old)
                   \cup {[it |-> m, of |-> h, made |-> moment] : m \in Made(fr, Count)}
              /\ aim' = CallsOff(h) /\ went' = Went({i.it : i \in old})
              /\ UNCHANGED <<moment, told, names, line>>
    BY DEF MakeRuneIllusions
  <1> DEFINE fr == free \o gone
             new == Made(fr, Count)
  <1>2. /\ ~ told /\ Room(fr, Count)
        /\ gen' = Raised(fr, Count) /\ free' = LeftFree(fr, Count)
        /\ illusion' = (illusion \ old) \cup {[it |-> m, of |-> h, made |-> moment] : m \in new}
        /\ aim' = CallsOff(h) /\ went' = Went({i.it : i \in old})
        /\ UNCHANGED <<moment, told, names, line>>
    BY <1>1
  <1>3. /\ FreeList(fr)
        /\ \A k \in 1 .. Len(fr) :
             (\E j \in DOMAIN free : fr[k] = free[j]) \/ (\E i \in old : fr[k] = i.it[1])
        /\ \A j \in DOMAIN free : \E k \in 1 .. Len(fr) : fr[k] = free[j]
        /\ \A i \in old : \E k \in 1 .. Len(fr) : fr[k] = i.it[1]
    <2>1. old \in SUBSET illusion /\ gone \in InSlotOrder({i.it[1] : i \in old})
      OBVIOUS
    <2> HIDE DEF old
    <2> QED
      BY <2>1, GoneIsFree
  <1> HIDE DEF fr, old, new
  <1>4. \A i \in illusion : i.it \in Live /\ i.it # Hero /\ i.it # OwnHero
    BY DEF IllusionsInv
  <1>5. old \subseteq illusion /\ \A i \in illusion : i \in old <=> i.of = h
    BY DEF old
  <1>6. \A k \in 1 .. Len(fr) : fr[k] # 1 /\ fr[k] # 2
    <2>1. Hero \in Live /\ OwnHero \in Live /\ Hero[1] = 1 /\ OwnHero[1] = 2
      BY HeroesStand DEF Hero, OwnHero
    <2>2. \A i \in old : i.it[1] # 1 /\ i.it[1] # 2
      BY <1>4, <1>5, <2>1, OneTenant
    <2>3. \A j \in DOMAIN free : free[j] # 1 /\ free[j] # 2
      BY DEF SlotsInv, Freed
    <2> QED
      BY <1>3, <2>2, <2>3
  <1>7. Count \in Nat
    BY DEF HandlesAssumption
  <1>8. /\ SlotsInv' /\ Known \subseteq Known'
        /\ \A k \in Known \ Live : k \notin Live'
        /\ \A k \in Live : (\A n \in 1 .. Len(fr) : fr[n] # k[1]) => k \in Live'
        /\ \A k \in Live : (\E n \in 1 .. Len(fr) : fr[n] = k[1]) => k \notin Live'
        /\ \A m \in new : m \in Live' /\ m \notin Known
    BY <1>2, <1>3, <1>6, <1>7, AllocStep DEF new
  <1>9. ASSUME NEW i \in illusion \ old PROVE i.it \in Live'
    <2>1. \A j \in DOMAIN free : free[j] # i.it[1]
      BY <1>4, KnownFacts DEF Freed
    <2>2. ASSUME NEW j \in old, j.it[1] = i.it[1] PROVE FALSE
      <3>1. j.it = i.it
        BY <1>4, <1>5, <2>2, OneTenant
      <3> QED
        BY <1>5, <3>1 DEF IllusionsInv
    <2> QED
      BY <1>3, <1>4, <1>8, <2>1, <2>2
  <1>10. \A i \in old : i.it \in Live /\ i.it \notin Live'
    BY <1>3, <1>4, <1>5, <1>8
  <1>11. \A i \in illusion' :
           \/ i \in illusion \ old
           \/ \E m \in new : i = [it |-> m, of |-> h, made |-> moment]
    BY <1>2
  <1>12. Hero \in Known /\ OwnHero \in Known /\ \A i \in illusion : i.it \in Known
    BY <1>4, HeroesStand, KnownFacts
  <1>13. IllusionsInv'
    <2>1. ASSUME NEW i \in illusion'
          PROVE  /\ i.it \in Live' /\ i.it # Hero /\ i.it # OwnHero /\ i.of \in {Hero, OwnHero}
                 /\ i.made \in Nat /\ i.made <= moment
      <3>1. CASE i \in illusion \ old
        BY <1>9, <3>1 DEF IllusionsInv
      <3>2. ASSUME NEW m \in new, i = [it |-> m, of |-> h, made |-> moment]
            PROVE  /\ i.it \in Live' /\ i.it # Hero /\ i.it # OwnHero /\ i.of \in {Hero, OwnHero}
                   /\ i.made \in Nat /\ i.made <= moment
        <4>1. i.it = m /\ i.of = h /\ i.made = moment
          BY <3>2
        <4> QED
          BY <1>8, <1>12, <4>1
      <3> QED
        BY <1>11, <3>1, <3>2
    <2>2. ASSUME NEW i \in illusion', NEW j \in illusion', i.it = j.it PROVE i = j
      <3>1. CASE i \in illusion \ old /\ j \in illusion \ old
        BY <2>2, <3>1 DEF IllusionsInv
      <3>2. \A k \in illusion' : k \notin illusion \ old =>
              k = [it |-> k.it, of |-> h, made |-> moment] /\ k.it \notin Known
        BY <1>8, <1>11
      <3> QED
        BY <1>12, <2>2, <3>1, <3>2
    <2>3. moment' = moment /\ Hero' = Hero /\ OwnHero' = OwnHero
      BY <1>2 DEF Hero, OwnHero
    <2> QED
      BY <2>1, <2>2, <2>3 DEF IllusionsInv
  <1>14. \E S \in SUBSET Live : went' = Went(S) /\ \A k \in S : k \notin Live'
    <2>1. {i.it : i \in old} \in SUBSET Live /\ \A k \in {i.it : i \in old} : k \notin Live'
      BY <1>10
    <2> QED
      BY <1>2, <2>1
  <1>15. \/ aim' = aim /\ \A i \in illusion' : i.of = Hero => i \in illusion
         \/ aim' = Nothing \/ aim'[1] # Hero
    <2>1. CASE h = Hero
      BY <1>2, <2>1 DEF CallsOff
    <2>2. CASE h = OwnHero
      <3>1. OwnHero # Hero
        BY DEF Hero, OwnHero
      <3>2. \A i \in illusion' : i.of = Hero => i \in illusion
        BY <1>11, <2>2, <3>1
      <3> QED
        BY <1>2, <2>2, <3>1, <3>2 DEF CallsOff
    <2> QED
      BY <2>1, <2>2
  <1> QED
    BY <1>2, <1>8, <1>13, <1>14, <1>15 DEF WorldMoved

-----------------------------------------------------------------------------
(* The names. *)

\* The tables with the handles of D let go.
Dropped(g, b, D, g1, b1) ==
  /\ Agree(g1, b1) /\ DOMAIN g1 = DOMAIN g \ D
  /\ \A h \in DOMAIN g \ D : g1[h] = g[h]
  /\ \A n \in DOMAIN b : n \in DOMAIN b1 <=> b[n] \notin D
  /\ DOMAIN b1 \subseteq DOMAIN b /\ \A n \in DOMAIN b1 : b1[n] = b[n]

\* Handles let go take their names along, and the tables go on agreeing.
LEMMA DropAgrees ==
  ASSUME NEW g, NEW b, NEW D, Agree(g, b)
  PROVE  Dropped(g, b, D, Without(g, D), BehindLeft(b, g, D))
  <1> DEFINE N == Names(g, D)
             g1 == Without(g, D)
             b1 == BehindLeft(b, g, D)
  <1>1. DOMAIN g1 = DOMAIN g \ D /\ \A h \in DOMAIN g \ D : g1[h] = g[h]
    BY DEF Without
  <1>2. DOMAIN b1 = DOMAIN b \ N /\ \A n \in DOMAIN b \ N : b1[n] = b[n]
    BY DEF BehindLeft, Without
  <1>3. \A n \in DOMAIN b : n \in N <=> b[n] \in D
    BY DEF Agree, Names
  <1>4. \A h \in DOMAIN g \ D : g[h].name \in DOMAIN b /\ b[g[h].name] = h /\ g[h].name \notin N
    BY <1>3 DEF Agree
  <1> HIDE DEF N, g1, b1
  <1>5. Agree(g1, b1)
    <2>1. ASSUME NEW h \in DOMAIN g1 PROVE g1[h].name \in DOMAIN b1 /\ b1[g1[h].name] = h
      BY <1>1, <1>2, <1>4
    <2>2. ASSUME NEW n \in DOMAIN b1 PROVE b1[n] \in DOMAIN g1 /\ g1[b1[n]].name = n
      BY <1>1, <1>2, <1>3 DEF Agree
    <2> QED
      BY <2>1, <2>2 DEF Agree
  <1> QED
    BY <1>1, <1>2, <1>3, <1>5 DEF g1, b1, Dropped

\* Tables as rename finds them: of names given before the next, and agreeing.
Tabled(g, b) ==
  /\ g \in [DOMAIN g -> Naming] /\ DOMAIN b \subseteq 0 .. next - 1 /\ Agree(g, b)

\* What a telling makes of them: names that stood stand, and whoever had none has
\* one that was never given.
LEMMA TellFacts ==
  ASSUME HandlesAssumption, NEW g, NEW b, NEW ids, Tabled(g, b), IsFiniteSet(ids),
         next \in Nat, moment \in Nat, Tell(g, b, ids)
  PROVE  /\ next' \in Nat /\ next <= next' /\ next' <= MaxNames
         /\ DOMAIN given' = DOMAIN g \cup ids /\ given' \in [DOMAIN given' -> Naming]
         /\ \A h \in DOMAIN g :
              /\ given'[h].name = g[h].name /\ given'[h].named = g[h].named
              /\ given'[h].told = IF h \in ids THEN moment ELSE g[h].told
         /\ \A h \in ids \ DOMAIN g :
              /\ given'[h].name \in next .. next' - 1
              /\ given'[h].named = moment /\ given'[h].told = moment
         /\ DOMAIN behind' \subseteq 0 .. next' - 1
         /\ \A n \in DOMAIN b : n \in DOMAIN behind' /\ behind'[n] = b[n]
         /\ \A n \in DOMAIN behind' :
              n \in DOMAIN b \/ (n \in next .. next' - 1 /\ behind'[n] \in ids \ DOMAIN g)
         /\ Agree(given', behind')
  <1> DEFINE fresh == ids \ DOMAIN g
             n == Cardinality(fresh)
  <1>1. n \in Nat /\ MaxNames \in Nat
    <2>1. IsFiniteSet(fresh)
      BY FS_Subset
    <2> HIDE DEF fresh
    <2> QED
      BY <2>1, FS_CardinalityType DEF HandlesAssumption
  <1>2. PICK q \in InOrder(fresh) : Rename(g, b, ids, q)
    BY DEF Tell
  <1>3. next + n <= MaxNames
    BY DEF Tell
  <1>4. /\ q \in [1 .. n -> fresh] /\ \A h \in fresh : \E k \in 1 .. n : q[k] = h
        /\ \A j, k \in 1 .. n : q[j] = q[k] => j = k
    <2> HIDE DEF fresh
    <2>1. q \in Bijection(1 .. n, fresh)
      BY DEF InOrder
    <2> HIDE DEF n
    <2>2. q \in [1 .. n -> fresh] /\ IsInjective(q) /\ \A h \in fresh : \E k \in 1 .. n : q[k] = h
      BY <2>1 DEF Bijection, Injection, Surjection
    <2>3. \A j, k \in 1 .. n : q[j] = q[k] => j = k
      BY <2>2 DEF IsInjective
    <2> QED
      BY <2>2, <2>3
  <1>5. Len(q) = n
    <2> HIDE DEF n, fresh
    <2> QED
      BY <1>1, <1>4, SeqOfFunction
  <1> DEFINE at(h) == CHOOSE k \in 1 .. n : q[k] = h
             row(h) == IF h \in DOMAIN g
                       THEN IF h \in ids THEN [g[h] EXCEPT !.told = moment] ELSE g[h]
                       ELSE [name |-> next + (at(h) - 1), named |-> moment, told |-> moment]
             tag(m) == IF m >= next THEN q[(m - next) + 1] ELSE b[m]
  <1>6. given' = [h \in DOMAIN g \cup ids |-> row(h)]
    BY <1>2, <1>5 DEF Rename
  <1>7. behind' = [m \in DOMAIN b \cup (next .. next + (n - 1)) |-> tag(m)]
    BY <1>2, <1>5 DEF Rename
  <1>8. next' = next + n
    BY <1>2, <1>5 DEF Rename
  <1>9. \A h \in fresh : at(h) \in 1 .. n /\ q[at(h)] = h
    BY <1>4
  <1>10. \A k \in 1 .. n : q[k] \in fresh /\ at(q[k]) = k
    BY <1>4, <1>9
  <1>11. \A h \in DOMAIN g : g[h] \in Naming
    BY DEF Tabled
  <1>12. DOMAIN b \subseteq 0 .. next - 1 /\ Agree(g, b)
    BY DEF Tabled
  <1>13. \A h : h \in fresh <=> h \in ids /\ h \notin DOMAIN g
    OBVIOUS
  <1> HIDE DEF n, fresh, at
  <1>14. DOMAIN given' = DOMAIN g \cup ids /\ \A h \in DOMAIN g \cup ids : given'[h] = row(h)
    BY <1>6
  <1>15. ASSUME NEW h \in DOMAIN g
         PROVE  /\ given'[h] \in Naming
                /\ given'[h].name = g[h].name /\ given'[h].named = g[h].named
                /\ given'[h].told = IF h \in ids THEN moment ELSE g[h].told
    <2>1. g[h] \in Naming
      BY <1>11
    <2>2. given'[h] = IF h \in ids THEN [g[h] EXCEPT !.told = moment] ELSE g[h]
      BY <1>14
    <2> QED
      BY <2>1, <2>2 DEF Naming
  <1>16. ASSUME NEW h \in fresh
         PROVE  /\ given'[h] \in Naming
                /\ given'[h].name = next + (at(h) - 1) /\ given'[h].name \in next .. next' - 1
                /\ given'[h].named = moment /\ given'[h].told = moment
    <2>1. given'[h] = [name |-> next + (at(h) - 1), named |-> moment, told |-> moment]
      BY <1>13, <1>14
    <2>2. next + (at(h) - 1) \in Nat /\ next + (at(h) - 1) \in next .. next' - 1
      BY <1>1, <1>8, <1>9
    <2> QED
      BY <2>1, <2>2 DEF Naming
  <1> HIDE DEF row
  <1>17. given' \in [DOMAIN given' -> Naming]
    <2>1. \A h \in DOMAIN g \cup ids : given'[h] \in Naming
      BY <1>13, <1>15, <1>16
    <2>2. given' = [h \in DOMAIN given' |-> given'[h]]
      BY <1>6
    <2> QED
      BY <1>14, <2>1, <2>2
  <1>18. /\ DOMAIN behind' = DOMAIN b \cup (next .. next + (n - 1))
         /\ \A m \in DOMAIN b \cup (next .. next + (n - 1)) : behind'[m] = tag(m)
    BY <1>7
  <1>19. \A m \in DOMAIN b : m \in DOMAIN behind' /\ behind'[m] = b[m]
    <2> SUFFICES ASSUME NEW m \in DOMAIN b PROVE m \in DOMAIN behind' /\ behind'[m] = b[m]
      OBVIOUS
    <2>1. m \in Nat /\ ~ (m >= next)
      BY <1>12
    <2> QED
      BY <1>18, <2>1
  <1>20. ASSUME NEW m \in next .. next + (n - 1)
         PROVE  /\ m \in DOMAIN behind' /\ (m - next) + 1 \in 1 .. n
                /\ behind'[m] = q[(m - next) + 1]
    <2>1. m >= next /\ (m - next) + 1 \in 1 .. n
      BY <1>1
    <2> QED
      BY <1>18, <2>1
  <1>21. DOMAIN behind' \subseteq 0 .. next' - 1
    BY <1>1, <1>8, <1>12, <1>18
  <1>22. ASSUME NEW m \in DOMAIN behind', m \notin DOMAIN b
         PROVE  m \in next .. next' - 1 /\ behind'[m] \in fresh
    <2>1. m \in next .. next + (n - 1)
      BY <1>18, <1>22
    <2>2. behind'[m] \in fresh
      BY <1>10, <1>20, <2>1
    <2> QED
      BY <1>1, <1>8, <2>1, <2>2
  <1>23. Agree(given', behind')
    <2>1. ASSUME NEW h \in DOMAIN given'
          PROVE  given'[h].name \in DOMAIN behind' /\ behind'[given'[h].name] = h
      <3>1. CASE h \in DOMAIN g
        BY <1>12, <1>15, <1>19, <3>1 DEF Agree
      <3>2. CASE h \in fresh
        <4>1. at(h) \in 1 .. n /\ q[at(h)] = h /\ given'[h].name = next + (at(h) - 1)
          BY <1>9, <1>16, <3>2
        <4>2. next + (at(h) - 1) \in next .. next + (n - 1)
              /\ ((next + (at(h) - 1)) - next) + 1 = at(h)
          BY <1>1, <4>1
        <4> QED
          BY <1>20, <4>1, <4>2
      <3> QED
        BY <1>13, <1>14, <3>1, <3>2
    <2>2. ASSUME NEW m \in DOMAIN behind'
          PROVE  behind'[m] \in DOMAIN given' /\ given'[behind'[m]].name = m
      <3>1. CASE m \in DOMAIN b
        <4>1. b[m] \in DOMAIN g /\ g[b[m]].name = m
          BY <1>12, <3>1 DEF Agree
        <4> QED
          BY <1>14, <1>15, <1>19, <3>1, <4>1
      <3>2. CASE m \notin DOMAIN b
        <4>1. m \in next .. next + (n - 1)
          BY <1>18, <3>2
        <4> DEFINE k == (m - next) + 1
        <4>2. k \in 1 .. n /\ behind'[m] = q[k] /\ next + (k - 1) = m
          BY <1>1, <1>20, <4>1
        <4> HIDE DEF k
        <4>3. q[k] \in fresh /\ at(q[k]) = k
          BY <1>10, <4>2
        <4>4. given'[q[k]].name = next + (k - 1)
          BY <1>16, <4>3
        <4> QED
          BY <1>13, <1>14, <4>2, <4>3, <4>4
      <3> QED
        BY <3>1, <3>2
    <2> QED
      BY <2>1, <2>2 DEF Agree
  <1>24. next' \in Nat /\ next <= next' /\ next' <= MaxNames
    BY <1>1, <1>3, <1>8
  <1> QED
    BY <1>13, <1>14, <1>15, <1>16, <1>17, <1>19, <1>21, <1>22, <1>23, <1>24

\* A telling of `ids', after the handles of D were let go.
Retold(D, ids) ==
  LET kept == DOMAIN given \ D IN
  /\ next' \in Nat /\ next <= next' /\ next' <= MaxNames
  /\ DOMAIN given' = kept \cup ids /\ given' \in [DOMAIN given' -> Naming]
  /\ \A h \in kept :
       /\ given'[h].name = given[h].name /\ given'[h].named = given[h].named
       /\ given'[h].told = IF h \in ids THEN moment ELSE given[h].told
  /\ \A h \in ids \ kept :
       /\ given'[h].name \in next .. next' - 1
       /\ given'[h].named = moment /\ given'[h].told = moment
  /\ DOMAIN behind' \subseteq 0 .. next' - 1
  /\ \A n \in DOMAIN behind : behind[n] \notin D => n \in DOMAIN behind' /\ behind'[n] = behind[n]
  /\ \A n \in DOMAIN behind' :
       \/ n \in DOMAIN behind /\ behind[n] \notin D /\ behind'[n] = behind[n]
       \/ n \in next .. next' - 1 /\ behind'[n] \in ids \ kept
  /\ Agree(given', behind')
  /\ ever' = ever \cup {<<given'[h].name, h>> : h \in ids \ kept}
  /\ went' = {x \in went : x[1] \in DOMAIN given'}
  /\ worn' = worn \cup {given'[h].name : h \in ids \cap Disguised \cap {Hero}}

LEMMA TellRetells ==
  ASSUME HandlesAssumption, TablesInv, moment \in Nat, NEW D, NEW ids, IsFiniteSet(ids),
         NEW g, NEW b, Tell(g, b, ids), Agree(g, b),
         DOMAIN g = DOMAIN given \ D, \A h \in DOMAIN g : g[h] = given[h],
         g \in [DOMAIN g -> Naming], DOMAIN b \subseteq DOMAIN behind,
         \A n \in DOMAIN behind : n \in DOMAIN b <=> behind[n] \notin D,
         \A n \in DOMAIN b : b[n] = behind[n]
  PROVE  Retold(D, ids)
  <1>1. next \in Nat /\ DOMAIN behind \subseteq 0 .. next - 1
    BY DEF TablesInv, HandlesAssumption
  <1>2. Tabled(g, b)
    BY <1>1 DEF Tabled
  <1>3. /\ next' \in Nat /\ next <= next' /\ next' <= MaxNames
        /\ DOMAIN given' = DOMAIN g \cup ids /\ given' \in [DOMAIN given' -> Naming]
        /\ \A h \in DOMAIN g :
             /\ given'[h].name = g[h].name /\ given'[h].named = g[h].named
             /\ given'[h].told = IF h \in ids THEN moment ELSE g[h].told
        /\ \A h \in ids \ DOMAIN g :
             /\ given'[h].name \in next .. next' - 1
             /\ given'[h].named = moment /\ given'[h].told = moment
        /\ DOMAIN behind' \subseteq 0 .. next' - 1
        /\ \A n \in DOMAIN b : n \in DOMAIN behind' /\ behind'[n] = b[n]
        /\ \A n \in DOMAIN behind' :
             n \in DOMAIN b \/ (n \in next .. next' - 1 /\ behind'[n] \in ids \ DOMAIN g)
        /\ Agree(given', behind')
    BY <1>1, <1>2, TellFacts
  <1>4. /\ ever' = ever \cup {<<given'[h].name, h>> : h \in ids \ DOMAIN g}
        /\ went' = {x \in went : x[1] \in DOMAIN given'}
        /\ worn' = worn \cup {given'[h].name : h \in ids \cap Disguised \cap {Hero}}
    BY DEF Tell
  <1>5. \A n \in DOMAIN behind : behind[n] \notin D => n \in DOMAIN behind' /\ behind'[n] = behind[n]
    BY <1>3
  <1>6. \A n \in DOMAIN behind' :
          \/ n \in DOMAIN behind /\ behind[n] \notin D /\ behind'[n] = behind[n]
          \/ n \in next .. next' - 1 /\ behind'[n] \in ids \ DOMAIN g
    BY <1>3
  <1>7. \A h \in DOMAIN g :
          /\ given'[h].name = given[h].name /\ given'[h].named = given[h].named
          /\ given'[h].told = IF h \in ids THEN moment ELSE given[h].told
    BY <1>3
  <1> QED
    BY <1>3, <1>4, <1>5, <1>6, <1>7 DEF Retold

LEMMA KnownFinite ==
  ASSUME HandlesAssumption, SlotsInv
  PROVE  IsFiniteSet(Known)
  <1>1. Len(gen) \in Nat /\ MaxGen \in Nat
    BY SeqFacts DEF SlotsInv, HandlesAssumption
  <1>2. IsFiniteSet(1 .. Len(gen)) /\ IsFiniteSet(1 .. MaxGen)
    BY <1>1, FS_Interval
  <1>3. IsFiniteSet((1 .. Len(gen)) \X (1 .. MaxGen))
    BY <1>2, FS_Product
  <1> QED
    BY <1>3, FS_Subset DEF Known

\* tell_view lets go of what it sweeps and unmasks, then tells.
LEMMA ViewRetells ==
  ASSUME HandlesAssumption, HandlesInv, NEW ids \in SUBSET Live, TellView(ids)
  PROVE  Retold(Swept \cup Unmasked, ids)
  <1> DEFINE g1 == Without(given, Swept)
             b1 == BehindLeft(behind, given, Swept)
             g2 == Without(g1, Unmasked)
             b2 == BehindLeft(b1, g1, Unmasked)
             D == Swept \cup Unmasked
  <1>1. Tell(g2, b2, ids)
    BY DEF TellView
  <1>2. IsFiniteSet(ids)
    <2>1. ids \subseteq Known
      BY KnownFacts
    <2> QED
      BY <2>1, KnownFinite, FS_Subset DEF HandlesInv
  <1>3. Dropped(given, behind, Swept, g1, b1)
    BY DropAgrees DEF HandlesInv, TablesInv
  <1>4. Dropped(g1, b1, Unmasked, g2, b2)
    <2>1. Agree(g1, b1)
      BY <1>3 DEF Dropped
    <2> HIDE DEF g1, b1
    <2> QED
      BY <2>1, DropAgrees
  <1>5. g2 = [h \in DOMAIN g2 |-> g2[h]]
    BY DEF Without
  <1> HIDE DEF g1, b1, g2, b2
  <1>6. DOMAIN g2 = DOMAIN given \ D /\ \A h \in DOMAIN g2 : g2[h] = given[h]
    BY <1>3, <1>4 DEF Dropped
  <1>7. g2 \in [DOMAIN g2 -> Naming]
    BY <1>5, <1>6 DEF HandlesInv, TablesInv
  <1>8. /\ DOMAIN b2 \subseteq DOMAIN behind
        /\ \A n \in DOMAIN behind : n \in DOMAIN b2 <=> behind[n] \notin D
        /\ \A n \in DOMAIN b2 : b2[n] = behind[n]
    BY <1>3, <1>4 DEF Dropped
  <1>9. TablesInv /\ moment \in Nat /\ Agree(g2, b2)
    BY <1>4 DEF HandlesInv, GoneInv, Dropped
  <1> HIDE DEF D
  <1>10. Retold(D, ids)
    BY <1>1, <1>2, <1>6, <1>7, <1>8, <1>9, TellRetells
  <1> QED
    BY <1>10 DEF D

LEMMA EventRetells ==
  ASSUME HandlesAssumption, HandlesInv, NEW h \in Known, TellEvent(h)
  PROVE  Retold({}, {h})
  <1>1. Tell(given, behind, {h}) /\ IsFiniteSet({h})
    BY FS_Singleton DEF TellEvent
  <1>2. TablesInv /\ moment \in Nat /\ Agree(given, behind) /\ given \in [DOMAIN given -> Naming]
    BY DEF HandlesInv, TablesInv, GoneInv
  <1>3. /\ DOMAIN given = DOMAIN given \ {}
        /\ \A n \in DOMAIN behind : n \in DOMAIN behind <=> behind[n] \notin {}
    OBVIOUS
  <1> QED
    BY <1>1, <1>2, <1>3, TellRetells

-----------------------------------------------------------------------------
(* What each step keeps. *)

LEMMA SweepBefore ==
  ASSUME HandlesAssumption, moment \in Nat \ {0}, told \in BOOLEAN
  PROVE  /\ Viewed \in Nat /\ LastSweep \in Int /\ LastSweep <= Viewed
         /\ Viewed - LastSweep < Sweep /\ Viewed <= moment /\ (~ told => Viewed < moment)
  <1>1. Viewed \in Nat /\ Viewed <= moment /\ (~ told => Viewed < moment)
    BY DEF Viewed
  <1>2. Sweep \in Nat \ {0}
    BY DEF HandlesAssumption
  <1>3. Viewed % Sweep \in 0 .. Sweep - 1
    BY <1>1, <1>2
  <1> QED
    BY <1>1, <1>2, <1>3 DEF LastSweep

LEMMA WorldKeeps ==
  ASSUME HandlesAssumption, HandlesInv, WorldMoved
  PROVE  HandlesInv'
  <1>1. /\ moment' = moment /\ told' = told /\ given' = given /\ behind' = behind /\ next' = next
        /\ masked' = masked /\ ever' = ever /\ worn' = worn /\ line' = line /\ ~ told
    BY DEF WorldMoved, names
  <1>2. SlotsInv' /\ IllusionsInv' /\ Known \subseteq Known'
    BY DEF WorldMoved
  <1>3. TablesInv'
    BY <1>1, <1>2 DEF HandlesInv, TablesInv, Agree
  <1>4. EverInv'
    BY <1>1 DEF HandlesInv, EverInv
  <1>5. MaskInv'
    <2>1. Hero' = Hero
      BY DEF Hero
    <2> QED
      BY <1>1, <2>1 DEF HandlesInv, MaskInv
  <1>6. AimInv'
    <2> SUFFICES ASSUME Delay = 0
                 PROVE  /\ line = Nothing
                        /\ aim' # Nothing /\ aim'[1] = Hero /\ (\E i \in illusion' : i.of = Hero) =>
                             /\ aim'[2] \in DOMAIN behind /\ behind[aim'[2]] = Hero
                             /\ Hero \in DOMAIN given
                             /\ ~ \E i \in illusion' : i.of = Hero /\ given[Hero].named < i.made
      BY <1>1 DEF AimInv, Disguised, Predates, Hero, OwnHero, Nothing
    <2>1. line = Nothing
      BY <1>1 DEF HandlesInv, AimInv
    <2>2. ASSUME aim' # Nothing, aim'[1] = Hero, NEW i \in illusion', i.of = Hero
          PROVE  /\ aim'[2] \in DOMAIN behind /\ behind[aim'[2]] = Hero
                 /\ Hero \in DOMAIN given
                 /\ ~ \E j \in illusion' : j.of = Hero /\ given[Hero].named < j.made
      <3>1. aim' = aim /\ \A j \in illusion' : j.of = Hero => j \in illusion
        BY <2>2 DEF WorldMoved
      <3>2. Hero \in Disguised
        BY <2>2, <3>1 DEF Disguised
      <3> QED
        BY <2>2, <3>1, <3>2 DEF HandlesInv, AimInv, Predates
    <2> QED
      BY <2>1, <2>2
  <1>7. GoneInv'
    <2>1. moment \in Nat \ {0} /\ told \in BOOLEAN
      BY DEF HandlesInv, GoneInv
    <2>2. LastSweep' = LastSweep
      BY <1>1 DEF LastSweep, Viewed
    <2>3. PICK S \in SUBSET Live : went' = Went(S) /\ \A h \in S : h \notin Live'
      BY DEF WorldMoved
    <2>4. ASSUME NEW x \in went'
          PROVE  /\ x[1] \in DOMAIN given /\ x[1] \notin Live' /\ x[2] \in Nat
                 /\ \/ x[2] > LastSweep
                    \/ given[x[1]].told > LastSweep - Kept
                    \/ given[x[1]].told >= LastSweep
      <3>1. CASE x \in went
        <4>1. x[1] \in DOMAIN given /\ x[1] \notin Live
          BY <3>1 DEF HandlesInv, GoneInv
        <4>2. x[1] \notin Live'
          BY <4>1 DEF HandlesInv, TablesInv, WorldMoved
        <4> QED
          BY <3>1, <4>2 DEF HandlesInv, GoneInv
      <3>2. CASE x \notin went
        <4>1. PICK h \in S \cap DOMAIN given : x = <<h, moment>>
          BY <2>3, <3>2 DEF Went
        <4>2. x[1] = h /\ x[2] = moment
          BY <4>1
        <4>3. moment > LastSweep
          BY <1>1, <2>1, SweepBefore
        <4> QED
          BY <2>1, <2>3, <4>2, <4>3
      <3> QED
        BY <3>1, <3>2
    <2> QED
      BY <1>1, <2>1, <2>2, <2>4 DEF GoneInv
  <1> QED
    BY <1>2, <1>3, <1>4, <1>5, <1>6, <1>7 DEF HandlesInv

\* A telling keeps both tables in order.
LEMMA RetoldTables ==
  ASSUME HandlesAssumption, HandlesInv, NEW D, NEW ids \in SUBSET Known, Retold(D, ids),
         moment' = moment, Known' = Known
  PROVE  TablesInv' /\ EverInv'
  <1> DEFINE kept == DOMAIN given \ D
  <1>1. /\ next \in Nat /\ moment \in Nat /\ MaxNames \in Nat
        /\ DOMAIN given \subseteq Known /\ given \in [DOMAIN given -> Naming]
        /\ \A h \in DOMAIN given : given[h].named <= given[h].told /\ given[h].told <= moment
        /\ DOMAIN behind \subseteq 0 .. next - 1
    BY DEF HandlesInv, TablesInv, GoneInv, HandlesAssumption
  <1>2. /\ next' \in Nat /\ next <= next' /\ next' <= MaxNames
        /\ DOMAIN given' = kept \cup ids /\ given' \in [DOMAIN given' -> Naming]
        /\ \A h \in kept :
             /\ given'[h].name = given[h].name /\ given'[h].named = given[h].named
             /\ given'[h].told = IF h \in ids THEN moment ELSE given[h].told
        /\ \A h \in ids \ kept :
             /\ given'[h].name \in next .. next' - 1
             /\ given'[h].named = moment /\ given'[h].told = moment
        /\ DOMAIN behind' \subseteq 0 .. next' - 1
        /\ Agree(given', behind')
        /\ ever' = ever \cup {<<given'[h].name, h>> : h \in ids \ kept}
        /\ \A n \in DOMAIN behind' :
             \/ n \in DOMAIN behind /\ behind[n] \notin D /\ behind'[n] = behind[n]
             \/ n \in next .. next' - 1 /\ behind'[n] \in ids \ kept
    BY DEF Retold
  <1>3. \A h \in DOMAIN given : given[h].named \in Nat /\ given[h].told \in Nat
    BY <1>1 DEF Naming
  <1> HIDE DEF kept
  <1>4. kept \subseteq DOMAIN given
    BY DEF kept
  <1>5. \A h \in DOMAIN given' : given'[h].named <= given'[h].told /\ given'[h].told <= moment
    <2> SUFFICES ASSUME NEW h \in DOMAIN given'
                 PROVE  given'[h].named <= given'[h].told /\ given'[h].told <= moment
      OBVIOUS
    <2>1. CASE h \in kept
      BY <1>1, <1>2, <1>3, <1>4, <2>1
    <2>2. CASE h \in ids \ kept
      BY <1>1, <1>2, <2>2
    <2> QED
      BY <1>2, <2>1, <2>2
  <1>6. TablesInv'
    <2>1. DOMAIN given' \subseteq Known'
      BY <1>1, <1>2, <1>4
    <2>2. next' \in 0 .. MaxNames
      BY <1>1, <1>2
    <2> QED
      BY <1>2, <1>5, <2>1, <2>2 DEF TablesInv
  <1>7. /\ \A x \in ever : x[1] \in 0 .. next - 1
        /\ \A x, y \in ever : x[1] = y[1] => x[2] = y[2]
        /\ \A n \in DOMAIN behind : <<n, behind[n]>> \in ever
    BY DEF HandlesInv, EverInv
  <1>8. \A x \in ever' :
          x \in ever \/ (x[1] \in next .. next' - 1 /\ x[2] \in DOMAIN given' /\ x[1] = given'[x[2]].name)
    BY <1>2
  <1>9. \A x \in ever' : x[1] \in 0 .. next' - 1
    <2> SUFFICES ASSUME NEW x \in ever' PROVE x[1] \in 0 .. next' - 1
      OBVIOUS
    <2>1. x[1] \in 0 .. next - 1 \/ x[1] \in next .. next' - 1
      BY <1>7, <1>8
    <2> QED
      BY <1>1, <1>2, <2>1
  <1>10. ASSUME NEW x \in ever', NEW y \in ever', x[1] = y[1] PROVE x[2] = y[2]
    <2>1. CASE x \in ever /\ y \in ever
      BY <1>7, <1>10, <2>1
    <2>2. CASE x \notin ever /\ y \notin ever
      <3>1. x[2] \in DOMAIN given' /\ y[2] \in DOMAIN given' /\ given'[x[2]].name = given'[y[2]].name
        BY <1>8, <1>10, <2>2
      <3> QED
        BY <1>2, <3>1 DEF Agree
    <2>3. ASSUME NEW v \in ever', NEW w \in ever', v \in ever, w \notin ever PROVE v[1] # w[1]
      <3>1. v[1] \in 0 .. next - 1 /\ w[1] \in next .. next' - 1
        BY <1>7, <1>8, <2>3
      <3> QED
        BY <1>1, <1>2, <3>1
    <2> QED
      BY <1>10, <2>1, <2>2, <2>3
  <1>11. ASSUME NEW n \in DOMAIN behind' PROVE <<n, behind'[n]>> \in ever'
    <2>1. CASE n \in DOMAIN behind /\ behind'[n] = behind[n]
      BY <1>2, <1>7, <2>1
    <2>2. CASE behind'[n] \in ids \ kept
      <3>1. given'[behind'[n]].name = n
        BY <1>2 DEF Agree
      <3> QED
        BY <1>2, <2>2, <3>1
    <2> QED
      BY <1>2, <2>1, <2>2
  <1> QED
    BY <1>6, <1>9, <1>10, <1>11 DEF EverInv

LEMMA GivenBefore ==
  ASSUME NEW a \in Nat, NEW b \in Nat, a <= b, NEW n \in 0 .. a - 1
  PROVE  n \in 0 .. b - 1 /\ n \notin a .. b - 1
  OBVIOUS

\* A telling keeps the disguises, if what it keeps of the tables does.
LEMMA RetoldMask ==
  ASSUME HandlesAssumption, HandlesInv, NEW D, NEW ids, Retold(D, ids), TablesInv',
         illusion' = illusion, moment' = moment, masked' = Disguised \cap {Hero},
         Hero \notin Disguised =>
           \A n \in worn : n \in DOMAIN behind /\ behind[n] \notin D => behind[n] # Hero,
         Hero \in Disguised =>
           \A h \in Group(Hero) \cap (DOMAIN given \ D) : ~ Predates(given[h].named, Hero)
  PROVE  MaskInv'
  <1> DEFINE kept == DOMAIN given \ D
  <1>1. Disguised' = Disguised /\ Hero' = Hero /\ Group(Hero)' = Group(Hero)
    BY DEF Disguised, Hero, OwnHero, Group
  <1>2. ASSUME NEW t PROVE Predates(t, Hero)' <=> Predates(t, Hero)
    BY DEF Predates, Hero
  <1>3. /\ next \in Nat /\ next' \in Nat /\ next <= next'
        /\ DOMAIN given' = kept \cup ids
        /\ \A h \in kept : given'[h].named = given[h].named
        /\ \A h \in ids \ kept : given'[h].named = moment
        /\ \A n \in DOMAIN behind' :
             \/ n \in DOMAIN behind /\ behind[n] \notin D /\ behind'[n] = behind[n]
             \/ n \in next .. next' - 1 /\ behind'[n] \in ids \ kept
        /\ DOMAIN behind' \subseteq 0 .. next' - 1 /\ Agree(given', behind')
        /\ worn' = worn \cup {given'[h].name : h \in ids \cap Disguised \cap {Hero}}
    BY DEF Retold, HandlesInv, TablesInv, HandlesAssumption
  <1>4. \A n \in worn : n \in 0 .. next' - 1 /\ n \notin next .. next' - 1
    <2> SUFFICES ASSUME NEW n \in worn PROVE n \in 0 .. next' - 1 /\ n \notin next .. next' - 1
      OBVIOUS
    <2>1. n \in 0 .. next - 1
      BY DEF HandlesInv, MaskInv
    <2>2. next \in Nat /\ next' \in Nat /\ next <= next'
      BY <1>3
    <2> QED
      BY <2>1, <2>2, GivenBefore
  <1> HIDE DEF kept
  <1>5. worn' \subseteq 0 .. next' - 1
    <2> SUFFICES ASSUME NEW n \in worn' PROVE n \in 0 .. next' - 1
      OBVIOUS
    <2>1. CASE n \in worn
      BY <1>4, <2>1
    <2>2. CASE n \notin worn
      <3>1. PICK h \in ids : n = given'[h].name
        BY <1>3, <2>2
      <3>2. n \in DOMAIN behind'
        BY <1>3, <3>1 DEF Agree
      <3> QED
        BY <1>3, <3>2
    <2> QED
      BY <2>1, <2>2
  <1>6. ASSUME Hero \notin Disguised, NEW n \in worn', n \in DOMAIN behind'
        PROVE  behind'[n] # Hero
    <2>1. n \in worn
      BY <1>3, <1>6
    <2>2. n \notin next .. next' - 1
      BY <1>4, <2>1
    <2>3. n \in DOMAIN behind /\ behind[n] \notin D /\ behind'[n] = behind[n]
      BY <1>3, <1>6, <2>2
    <2> QED
      BY <1>6, <2>1, <2>3
  <1>7. ASSUME Hero \in Disguised, NEW h \in Group(Hero), h \in DOMAIN given'
        PROVE  ~ Predates(given'[h].named, Hero)
    <2>1. CASE h \in kept
      <3>1. ~ Predates(given[h].named, Hero)
        BY <1>7, <2>1 DEF kept
      <3> QED
        BY <1>3, <2>1, <3>1
    <2>2. CASE h \in ids \ kept
      <3>1. given'[h].named = moment
        BY <1>3, <2>2
      <3>2. moment \in Nat
        BY DEF HandlesInv, GoneInv
      <3>3. \A i \in illusion : i.made \in Nat /\ i.made <= moment
        BY DEF HandlesInv, IllusionsInv
      <3> QED
        BY <3>1, <3>2, <3>3 DEF Predates
    <2> QED
      BY <1>3, <1>7, <2>1, <2>2
  <1>8. \A h \in Group(Hero) \cap DOMAIN given' :
          Hero \in Disguised => ~ \E i \in illusion' : i.of = Hero /\ given'[h].named < i.made
    BY <1>7 DEF Predates
  <1>9. masked' \subseteq {Hero} /\ masked' = Disguised' \cap {Hero'}
    BY <1>1
  <1>10. (told /\ Hero \in Disguised =>
            \A h \in Group(Hero) \cap DOMAIN given : ~ Predates(given[h].named, Hero))'
    BY <1>1, <1>8 DEF Predates
  <1> QED
    BY <1>1, <1>5, <1>6, <1>9, <1>10 DEF MaskInv

LEMMA ModStep ==
  ASSUME NEW s \in Nat, NEW w \in Nat \ {0}, (s + 1) % w # 0
  PROVE  (s + 1) - ((s + 1) % w) = s - (s % w)
  <1> DEFINE q == s \div w
             r == s % w
             p == (s + 1) \div w
             t == (s + 1) % w
  <1>1. /\ q \in Int /\ r \in 0 .. w - 1 /\ s = w * q + r
        /\ p \in Int /\ t \in 0 .. w - 1 /\ s + 1 = w * p + t
    OBVIOUS
  <1>2. t # 0
    OBVIOUS
  <1> HIDE DEF q, r, p, t
  <1>3. w * (p - q) = (r + 1) - t
    BY <1>1
  <1>4. p - q <= 0
    <2> SUFFICES ASSUME p - q >= 1 PROVE FALSE
      BY <1>1
    <2>1. w * (p - q) >= w
      BY <1>1
    <2> QED
      BY <1>1, <1>2, <1>3, <2>1
  <1>5. p - q >= 0
    <2> SUFFICES ASSUME p - q <= -1 PROVE FALSE
      BY <1>1
    <2>1. w * (p - q) <= -w
      BY <1>1
    <2> QED
      BY <1>1, <1>3, <2>1
  <1>6. p = q
    BY <1>1, <1>4, <1>5
  <1>7. w * p = w * q
    BY <1>6
  <1>8. w * p \in Int /\ w * q \in Int
    BY <1>1
  <1>9. (s + 1) - t = w * p /\ s - r = w * q
    BY <1>1, <1>8
  <1> QED
    BY <1>7, <1>9 DEF r, t

\* The view of a tick.
LEMMA ViewKeeps ==
  ASSUME HandlesAssumption, HandlesInv, NEW ids \in SUBSET Live, TellView(ids)
  PROVE  HandlesInv'
  <1> DEFINE D == Swept \cup Unmasked
             kept == DOMAIN given \ D
  <1>1. /\ ~ told /\ told' = TRUE /\ masked' = Disguised \cap {Hero}
        /\ gen' = gen /\ free' = free /\ illusion' = illusion
        /\ moment' = moment /\ line' = line /\ aim' = aim
    BY DEF TellView, world
  <1>2. Retold(D, ids)
    BY ViewRetells
  <1>3. ids \subseteq Known /\ Known' = Known /\ Live' = Live
    BY <1>1, KnownFacts DEF Known, Live, Freed
  <1>4. SlotsInv' /\ IllusionsInv'
    <2>1. SlotsInv /\ IllusionsInv
      BY DEF HandlesInv
    <2> QED
      BY <1>1, <1>3, <2>1 DEF SlotsInv, IllusionsInv, Freed, Hero, OwnHero
  <1>5. TablesInv' /\ EverInv'
    <2> HIDE DEF D
    <2> QED
      BY <1>1, <1>2, <1>3, RetoldTables
  <1>6. Hero \in Live
    BY HeroesStand DEF HandlesInv
  <1>7. MaskInv'
    <2>1. ASSUME Hero \notin Disguised, NEW n \in worn, n \in DOMAIN behind, behind[n] \notin D
          PROVE  behind[n] # Hero
      <3>1. Hero \in masked => Hero \in D
        BY <2>1 DEF Unmasked
      <3> QED
        BY <2>1, <3>1 DEF HandlesInv, MaskInv
    <2>2. Hero \in Disguised =>
            \A h \in Group(Hero) \cap (DOMAIN given \ D) : ~ Predates(given[h].named, Hero)
      BY DEF Unmasked
    <2> HIDE DEF D
    <2> QED
      BY <1>1, <1>2, <1>5, <2>1, <2>2, RetoldMask
  <1>8. AimInv'
    <2> SUFFICES ASSUME Delay = 0
                 PROVE  /\ line = Nothing
                        /\ aim # Nothing /\ aim[1] = Hero /\ Hero \in Disguised =>
                             /\ aim[2] \in DOMAIN behind' /\ behind'[aim[2]] = Hero
                             /\ Hero \in DOMAIN given'
                             /\ ~ \E i \in illusion : i.of = Hero /\ given'[Hero].named < i.made
      BY <1>1 DEF AimInv, Disguised, Predates, Hero, OwnHero, Nothing
    <2>1. line = Nothing
      BY <1>1 DEF HandlesInv, AimInv
    <2>2. ASSUME aim # Nothing, aim[1] = Hero, Hero \in Disguised
          PROVE  /\ aim[2] \in DOMAIN behind' /\ behind'[aim[2]] = Hero
                 /\ Hero \in DOMAIN given'
                 /\ ~ \E i \in illusion : i.of = Hero /\ given'[Hero].named < i.made
      <3>1. /\ aim[2] \in DOMAIN behind /\ behind[aim[2]] = Hero
            /\ Hero \in DOMAIN given /\ ~ Predates(given[Hero].named, Hero)
        BY <2>2 DEF HandlesInv, AimInv
      <3>2. Hero \notin D
        BY <1>6, <2>2, <3>1 DEF Swept, Unmasked
      <3> HIDE DEF D
      <3>3. aim[2] \in DOMAIN behind' /\ behind'[aim[2]] = Hero
        BY <1>2, <3>1, <3>2 DEF Retold
      <3>4. Hero \in DOMAIN given' /\ given'[Hero].named = given[Hero].named
        BY <1>2, <3>1, <3>2 DEF Retold
      <3> QED
        BY <3>1, <3>3, <3>4 DEF Predates
    <2> QED
      BY <2>1, <2>2
  <1>9. GoneInv'
    <2>1. moment \in Nat \ {0} /\ told \in BOOLEAN /\ Kept \in Nat /\ Sweep \in Nat \ {0}
      BY DEF HandlesInv, GoneInv, HandlesAssumption
    <2>2. Viewed = moment - 1 /\ LastSweep' = moment - (moment % Sweep)
      BY <1>1 DEF Viewed, LastSweep
    <2>3. ASSUME NEW x \in went'
          PROVE  /\ x[1] \in DOMAIN given' /\ x[1] \notin Live /\ x[2] \in Nat
                 /\ \/ x[2] > LastSweep'
                    \/ given'[x[1]].told > LastSweep' - Kept
                    \/ given'[x[1]].told >= LastSweep'
      <3>1. x \in went /\ x[1] \in DOMAIN given'
        BY <1>2 DEF Retold
      <3>2. /\ x[1] \in DOMAIN given /\ x[1] \notin Live /\ x[2] \in Nat
            /\ \/ x[2] > LastSweep
               \/ given[x[1]].told > LastSweep - Kept
               \/ given[x[1]].told >= LastSweep
        BY <3>1 DEF HandlesInv, GoneInv
      <3>3. x[1] \in kept /\ x[1] \notin Swept
        BY <1>2, <3>1, <3>2 DEF Retold
      <3>4. given'[x[1]].told = given[x[1]].told
        <4>1. x[1] \notin ids
          BY <3>2
        <4> HIDE DEF D
        <4> QED
          BY <1>2, <3>3, <4>1 DEF Retold
      <3>5. given[x[1]].told \in Nat
        BY <3>2 DEF HandlesInv, TablesInv, Naming
      <3>6. CASE moment % Sweep = 0
        <4>1. ~ (moment - given[x[1]].told >= Kept)
          BY <3>2, <3>3, <3>6 DEF Swept
        <4>2. LastSweep' = moment
          BY <2>1, <2>2, <3>6
        <4> QED
          BY <2>1, <3>1, <3>2, <3>4, <3>5, <4>1, <4>2
      <3>7. CASE moment % Sweep # 0
        <4>1. moment - 1 \in Nat /\ (moment - 1) + 1 = moment
          BY <2>1
        <4>2. moment - (moment % Sweep) = (moment - 1) - ((moment - 1) % Sweep)
          BY <2>1, <3>7, <4>1, ModStep
        <4>3. LastSweep' = LastSweep
          BY <2>2, <4>2 DEF LastSweep
        <4> QED
          BY <3>1, <3>2, <3>4, <4>3
      <3> QED
        BY <3>6, <3>7
    <2> QED
      BY <1>1, <1>3, <2>1, <2>3 DEF GoneInv
  <1> QED
    BY <1>4, <1>5, <1>7, <1>8, <1>9 DEF HandlesInv

\* An event or an order told after it.
LEMMA EventKeeps ==
  ASSUME HandlesAssumption, HandlesInv, NEW h \in Known, TellEvent(h)
  PROVE  HandlesInv'
  <1>1. /\ told /\ told' = told /\ masked' = masked
        /\ gen' = gen /\ free' = free /\ illusion' = illusion
        /\ moment' = moment /\ line' = line /\ aim' = aim
    BY DEF TellEvent, world
  <1>2. Retold({}, {h})
    BY EventRetells
  <1>3. {h} \subseteq Known /\ Known' = Known /\ Live' = Live
    BY <1>1 DEF Known, Live, Freed
  <1>4. SlotsInv' /\ IllusionsInv'
    <2>1. SlotsInv /\ IllusionsInv
      BY DEF HandlesInv
    <2> QED
      BY <1>1, <1>3, <2>1 DEF SlotsInv, IllusionsInv, Freed, Hero, OwnHero
  <1>5. TablesInv' /\ EverInv'
    BY <1>1, <1>2, <1>3, RetoldTables
  <1>6. MaskInv'
    <2>1. masked' = Disguised \cap {Hero}
      BY <1>1 DEF HandlesInv, MaskInv
    <2>2. Hero \notin Disguised =>
            \A n \in worn : n \in DOMAIN behind /\ behind[n] \notin {} => behind[n] # Hero
      BY <1>1, <2>1 DEF HandlesInv, MaskInv
    <2>3. Hero \in Disguised =>
            \A k \in Group(Hero) \cap (DOMAIN given \ {}) : ~ Predates(given[k].named, Hero)
      BY <1>1 DEF HandlesInv, MaskInv
    <2> QED
      BY <1>1, <1>2, <1>5, <2>1, <2>2, <2>3, RetoldMask
  <1>7. \A n \in DOMAIN behind : n \in DOMAIN behind' /\ behind'[n] = behind[n]
    BY <1>2 DEF Retold
  <1>8. \A k \in DOMAIN given :
          /\ k \in DOMAIN given' /\ given'[k].named = given[k].named
          /\ given'[k].told = IF k \in {h} THEN moment ELSE given[k].told
    BY <1>2 DEF Retold
  <1>9. AimInv'
    <2> SUFFICES ASSUME Delay = 0
                 PROVE  /\ line # Nothing =>
                             /\ told /\ line[3] = moment
                             /\ line[2] \in DOMAIN behind' /\ behind'[line[2]] = line[1]
                        /\ aim # Nothing /\ aim[1] = Hero /\ Hero \in Disguised =>
                             /\ aim[2] \in DOMAIN behind' /\ behind'[aim[2]] = Hero
                             /\ Hero \in DOMAIN given'
                             /\ ~ \E i \in illusion : i.of = Hero /\ given'[Hero].named < i.made
      BY <1>1 DEF AimInv, Disguised, Predates, Hero, OwnHero, Nothing
    <2> QED
      BY <1>7, <1>8 DEF HandlesInv, AimInv, Predates
  <1>10. GoneInv'
    <2>1. moment \in Nat \ {0} /\ told \in BOOLEAN
      BY DEF HandlesInv, GoneInv
    <2>2. LastSweep' = LastSweep /\ LastSweep <= moment /\ LastSweep \in Int
      <3>1. LastSweep' = LastSweep
        BY <1>1 DEF LastSweep, Viewed
      <3> QED
        BY <2>1, <3>1, SweepBefore
    <2>3. ASSUME NEW x \in went'
          PROVE  /\ x[1] \in DOMAIN given' /\ x[1] \notin Live /\ x[2] \in Nat
                 /\ \/ x[2] > LastSweep
                    \/ given'[x[1]].told > LastSweep - Kept
                    \/ given'[x[1]].told >= LastSweep
      <3>1. x \in went
        BY <1>2 DEF Retold
      <3>2. /\ x[1] \in DOMAIN given /\ x[1] \notin Live /\ x[2] \in Nat
            /\ \/ x[2] > LastSweep
               \/ given[x[1]].told > LastSweep - Kept
               \/ given[x[1]].told >= LastSweep
        BY <3>1 DEF HandlesInv, GoneInv
      <3>3. CASE x[1] = h
        BY <1>8, <2>1, <2>2, <3>2, <3>3
      <3>4. CASE x[1] # h
        BY <1>8, <3>2, <3>4
      <3> QED
        BY <3>3, <3>4
    <2> QED
      BY <1>1, <1>3, <2>1, <2>2, <2>3 DEF GoneInv
  <1> QED
    BY <1>4, <1>5, <1>6, <1>9, <1>10 DEF HandlesInv

\* An order is heard.
LEMMA OrderKeeps ==
  ASSUME HandlesAssumption, HandlesInv, NEW n \in Orders, GiveOrder(n)
  PROVE  HandlesInv'
  <1>1. /\ told /\ line = Nothing /\ Heard(n) # Nothing /\ line' = <<Heard(n), n, moment + Delay>>
        /\ gen' = gen /\ free' = free /\ illusion' = illusion /\ moment' = moment /\ told' = told
        /\ given' = given /\ behind' = behind /\ next' = next /\ masked' = masked /\ ever' = ever
        /\ worn' = worn /\ went' = went /\ aim' = aim
    BY DEF GiveOrder, world, names
  <1>2. n \in DOMAIN behind /\ Heard(n) = behind[n]
    BY <1>1 DEF Heard
  <1>3. Known' = Known /\ Live' = Live /\ LastSweep' = LastSweep /\ Disguised' = Disguised
        /\ Group(Hero)' = Group(Hero)
    BY <1>1 DEF Known, Live, Freed, LastSweep, Viewed, Disguised, Group, Hero, OwnHero
  <1>4. SlotsInv' /\ IllusionsInv' /\ TablesInv' /\ EverInv'
    BY <1>1, <1>3 DEF HandlesInv, SlotsInv, IllusionsInv, TablesInv, EverInv, Freed, Agree, Hero, OwnHero
  <1>5. MaskInv'
    BY <1>1, <1>3 DEF HandlesInv, MaskInv, Predates, Hero
  <1>6. AimInv'
    <2> SUFFICES ASSUME Delay = 0
                 PROVE  /\ told /\ line'[3] = moment
                        /\ line'[2] \in DOMAIN behind /\ behind[line'[2]] = line'[1]
                        /\ aim # Nothing /\ aim[1] = Hero /\ Hero \in Disguised =>
                             /\ aim[2] \in DOMAIN behind /\ behind[aim[2]] = Hero
                             /\ Hero \in DOMAIN given
                             /\ ~ \E i \in illusion : i.of = Hero /\ given[Hero].named < i.made
      BY <1>1 DEF AimInv, Disguised, Predates, Hero, OwnHero, Nothing
    <2>1. line'[1] = behind[n] /\ line'[2] = n /\ line'[3] = moment + Delay
      BY <1>1, <1>2
    <2>2. moment + Delay = moment
      BY DEF HandlesInv, GoneInv
    <2> QED
      BY <1>1, <1>2, <2>1, <2>2 DEF HandlesInv, AimInv, Predates
  <1>7. GoneInv'
    BY <1>1, <1>3 DEF HandlesInv, GoneInv
  <1> QED
    BY <1>4, <1>5, <1>6, <1>7 DEF HandlesInv

\* The next tick takes the order that is due.
LEMMA TickKeeps ==
  ASSUME HandlesAssumption, HandlesInv, NextTick
  PROVE  HandlesInv'
  <1> DEFINE due == line # Nothing /\ line[3] <= moment
  <1>1. /\ told /\ told' = FALSE /\ moment' = moment + 1
        /\ line' = (IF due THEN Nothing ELSE line)
        /\ aim' = (IF due /\ line[1] \in Live THEN <<line[1], line[2]>>
                   ELSE IF aim # Nothing /\ aim[1] \notin Live THEN Nothing ELSE aim)
        /\ gen' = gen /\ free' = free /\ illusion' = illusion
        /\ given' = given /\ behind' = behind /\ next' = next /\ masked' = masked /\ ever' = ever
        /\ worn' = worn /\ went' = went
    BY DEF NextTick, world, names
  <1>2. moment \in Nat \ {0}
    BY DEF HandlesInv, GoneInv
  <1>3. Known' = Known /\ Live' = Live
    BY <1>1 DEF Known, Live, Freed
  <1>4. LastSweep' = LastSweep
    <2>1. Viewed' = Viewed
      BY <1>1, <1>2 DEF Viewed
    <2> QED
      BY <2>1 DEF LastSweep
  <1>5. SlotsInv' /\ EverInv'
    BY <1>1 DEF HandlesInv, SlotsInv, EverInv, Freed
  <1>6. IllusionsInv'
    <2>1. \A i \in illusion : i.made \in Nat /\ i.made <= moment + 1
      BY <1>2 DEF HandlesInv, IllusionsInv
    <2> QED
      BY <1>1, <1>3, <2>1 DEF HandlesInv, IllusionsInv, Hero, OwnHero
  <1>7. TablesInv'
    <2>1. \A k \in DOMAIN given : given[k].told <= moment + 1
      BY <1>2 DEF HandlesInv, TablesInv, Naming
    <2> QED
      BY <1>1, <1>3, <2>1 DEF HandlesInv, TablesInv, Agree
  <1>8. MaskInv'
    BY <1>1 DEF HandlesInv, MaskInv, Hero
  <1>9. AimInv'
    <2> SUFFICES ASSUME Delay = 0
                 PROVE  /\ line' = Nothing
                        /\ aim' # Nothing /\ aim'[1] = Hero /\ Hero \in Disguised =>
                             /\ aim'[2] \in DOMAIN behind /\ behind[aim'[2]] = Hero
                             /\ Hero \in DOMAIN given
                             /\ ~ \E i \in illusion : i.of = Hero /\ given[Hero].named < i.made
      BY <1>1 DEF AimInv, Disguised, Predates, Hero, OwnHero, Nothing
    <2>1. line # Nothing => line[3] = moment /\ line[2] \in DOMAIN behind /\ behind[line[2]] = line[1]
      BY DEF HandlesInv, AimInv
    <2>2. line' = Nothing
      BY <1>1, <1>2, <2>1
    <2>3. ASSUME aim' # Nothing, aim'[1] = Hero, Hero \in Disguised
          PROVE  /\ aim'[2] \in DOMAIN behind /\ behind[aim'[2]] = Hero
                 /\ Hero \in DOMAIN given /\ ~ Predates(given[Hero].named, Hero)
      <3>1. CASE due /\ line[1] \in Live
        <4>1. aim'[1] = line[1] /\ aim'[2] = line[2]
          BY <1>1, <3>1
        <4>2. aim'[2] \in DOMAIN behind /\ behind[aim'[2]] = Hero
          BY <2>1, <2>3, <3>1, <4>1
        <4>3. Hero \in DOMAIN given
          BY <4>2 DEF HandlesInv, TablesInv, Agree
        <4>4. Hero \in Group(Hero)
          BY DEF Group
        <4> QED
          BY <1>1, <2>3, <4>2, <4>3, <4>4 DEF HandlesInv, MaskInv
      <3>2. CASE ~ (due /\ line[1] \in Live)
        <4>1. aim' = aim
          BY <1>1, <2>3, <3>2
        <4> QED
          BY <2>3, <4>1 DEF HandlesInv, AimInv
      <3> QED
        BY <3>1, <3>2
    <2> QED
      BY <2>2, <2>3 DEF Predates
  <1>10. GoneInv'
    <2>1. moment' = moment + 1 /\ told' = FALSE /\ went' = went /\ given' = given
      BY <1>1
    <2>2. moment' \in Nat \ {0}
      BY <1>2, <2>1
    <2>3. \A x \in went :
            /\ x[1] \in DOMAIN given /\ x[1] \notin Live /\ x[2] \in Nat
            /\ \/ x[2] > LastSweep
               \/ given[x[1]].told > LastSweep - Kept
               \/ given[x[1]].told >= LastSweep
      BY DEF HandlesInv, GoneInv
    <2> QED
      BY <1>3, <1>4, <2>1, <2>2, <2>3 DEF GoneInv
  <1> QED
    BY <1>5, <1>6, <1>7, <1>8, <1>9, <1>10 DEF HandlesInv

LEMMA HandlesInitInv ==
  ASSUME HandlesAssumption
  PROVE  HandlesInit => HandlesInv
  <1> SUFFICES ASSUME HandlesInit PROVE HandlesInv
    OBVIOUS
  <1>1. Founding \in Nat /\ 2 <= Founding /\ Founding <= Slots /\ Slots \in Nat
        /\ MaxGen \in Nat \ {0} /\ MaxNames \in Nat
    BY DEF HandlesAssumption
  <1>2. /\ gen = [s \in 1 .. Founding |-> 1] /\ free = <<>> /\ illusion = {} /\ moment = 1
        /\ told = FALSE /\ given = [h \in {} |-> 0] /\ behind = [n \in {} |-> 0] /\ next = 0
        /\ masked = {} /\ line = Nothing /\ aim = Nothing /\ ever = {} /\ went = {} /\ worn = {}
    BY DEF HandlesInit
  <1>3. gen \in Seq(1 .. MaxGen) /\ Len(gen) = Founding /\ gen[1] = 1 /\ gen[2] = 1
    <2>1. gen \in [1 .. Founding -> 1 .. MaxGen] /\ gen[1] = 1 /\ gen[2] = 1
      BY <1>1, <1>2
    <2> QED
      BY <1>1, <2>1, SeqOfFunction
  <1>4. SlotsInv
    <2>1. free \in Seq(DOMAIN gen) /\ DOMAIN free = {}
      BY <1>2
    <2> QED
      BY <1>1, <1>3, <2>1 DEF SlotsInv, Freed
  <1>5. DOMAIN given = {} /\ DOMAIN behind = {}
    BY <1>2
  <1>6. TablesInv
    <2>1. given \in [DOMAIN given -> Naming]
      BY <1>2
    <2> QED
      BY <1>1, <1>2, <1>5, <2>1 DEF TablesInv, Agree
  <1>7. IllusionsInv
    BY <1>2 DEF IllusionsInv
  <1>8. EverInv
    BY <1>2, <1>5 DEF EverInv
  <1>9. MaskInv
    BY <1>2, <1>5 DEF MaskInv
  <1>10. AimInv
    BY <1>2 DEF AimInv
  <1>11. GoneInv
    <2>1. moment \in Nat \ {0} /\ \A x \in went : FALSE
      BY <1>2
    <2>2. told \in BOOLEAN
      BY <1>2, Zenon
    <2> QED
      BY <2>1, <2>2, Zenon DEF GoneInv
  <1> QED
    BY <1>4, <1>6, <1>7, <1>8, <1>9, <1>10, <1>11 DEF HandlesInv

-----------------------------------------------------------------------------
(* The theorems. *)

\* Every step keeps the invariant.
LEMMA HandlesStep ==
  ASSUME HandlesAssumption, HandlesInv, HandlesNext
  PROVE  HandlesInv'
  <1>1. moment \in Nat /\ SlotsInv /\ IllusionsInv
    BY DEF HandlesInv, GoneInv
  <1>2. CASE Spawn
    BY <1>1, <1>2, SpawnMoves, WorldKeeps
  <1>3. ASSUME NEW h \in Live, Despawn(h) PROVE HandlesInv'
    BY <1>1, <1>3, DespawnMoves, WorldKeeps
  <1>4. ASSUME NEW h \in {Hero, OwnHero}, MakeRuneIllusions(h) PROVE HandlesInv'
    BY <1>1, <1>4, RuneMoves, WorldKeeps
  <1>5. ASSUME NEW ids \in SUBSET Live, TellView(ids) PROVE HandlesInv'
    BY <1>5, ViewKeeps
  <1>6. ASSUME NEW h \in Known, TellEvent(h) PROVE HandlesInv'
    BY <1>6, EventKeeps
  <1>7. ASSUME NEW n \in Orders, GiveOrder(n) PROVE HandlesInv'
    BY <1>7, OrderKeeps
  <1>8. CASE NextTick
    BY <1>8, TickKeeps
  <1> QED
    BY <1>2, <1>3, <1>4, <1>5, <1>6, <1>7, <1>8 DEF HandlesNext

\* What the sweep has left of whoever is gone is young.
LEMMA GoneIsYoung ==
  ASSUME HandlesAssumption, HandlesInv
  PROVE  GoneLetGo
  <1> SUFFICES ASSUME told, NEW x \in went, x[1] \in DOMAIN given
               PROVE  \/ moment - given[x[1]].told < Kept + Sweep
                      \/ moment - x[2] < Sweep
    BY DEF GoneLetGo
  <1> DEFINE t == given[x[1]].told
             w == x[2]
             s == LastSweep
  <1>1. /\ moment \in Nat \ {0} /\ told \in BOOLEAN /\ w \in Nat
        /\ w > s \/ t > s - Kept \/ t >= s
    BY DEF HandlesInv, GoneInv
  <1>2. t \in Nat
    BY DEF HandlesInv, TablesInv, Naming
  <1>3. Viewed = moment
    BY DEF Viewed
  <1>4. s \in Int /\ moment - s < Sweep
    BY <1>1, <1>3, SweepBefore
  <1>5. Kept \in Nat /\ Sweep \in Nat
    BY DEF HandlesAssumption
  <1>6. moment \in Nat
    BY <1>1
  <1> HIDE DEF t, w, s
  <1>7. moment - t < Kept + Sweep \/ moment - w < Sweep
    BY <1>1, <1>2, <1>4, <1>5, <1>6
  <1> QED
    BY <1>7 DEF t, w

LEMMA NamesFollow ==
  ASSUME HandlesAssumption, HandlesInv
  PROVE  HandlesTypeOK /\ NamesRight
  <1>1. HandlesTypeOK
    <2>1. /\ gen \in Seq(1 .. MaxGen) /\ Len(gen) <= Slots /\ free \in Seq(DOMAIN gen)
          /\ \A j, k \in DOMAIN free : free[j] = free[k] => j = k
      BY DEF HandlesInv, SlotsInv
    <2>2. /\ DOMAIN given \subseteq Known /\ next \in 0 .. MaxNames
          /\ \A h \in DOMAIN given : given[h].name \in 0 .. next - 1
                                     /\ given[h].named <= given[h].told
      BY DEF HandlesInv, TablesInv, Agree
    <2>3. masked \subseteq {Hero}
      BY DEF HandlesInv, MaskInv
    <2> QED
      BY <2>1, <2>2, <2>3 DEF HandlesTypeOK
  <1>2. TablesAgree
    BY DEF HandlesInv, TablesInv, Agree, TablesAgree
  <1>3. NamedOnce
    BY DEF HandlesInv, EverInv, NamedOnce
  <1>4. DisguiseHolds
    <2>1. told /\ Hero \in Disguised =>
            \A h \in Group(Hero) \cap DOMAIN given : ~ Predates(given[h].named, Hero)
      BY DEF HandlesInv, MaskInv
    <2>2. told /\ Hero \notin Disguised =>
            \A n \in worn : n \notin DOMAIN behind \/ behind[n] # Hero
      BY DEF HandlesInv, MaskInv
    <2> QED
      BY <2>1, <2>2 DEF DisguiseHolds
  <1>5. GoneLetGo
    BY GoneIsYoung
  <1>6. Delay = 0 => AimsCalledOff
    BY DEF HandlesInv, AimInv, AimsCalledOff
  <1> QED
    BY <1>1, <1>2, <1>3, <1>4, <1>5, <1>6 DEF NamesRight

\* No step brings back a handle that stands for nobody, or takes a name from one
\* that stands and is neither the other side's hero nor an illusion of it.
LEMMA NamesKept ==
  ASSUME HandlesAssumption, HandlesInv, HandlesNext
  PROVE  NamesKeep
  <1>1. moment \in Nat /\ SlotsInv /\ IllusionsInv
    BY DEF HandlesInv, GoneInv
  <1>2. ASSUME WorldMoved PROVE NamesKeep
    BY <1>2 DEF WorldMoved, names, NamesKeep, StaleReachesNobody, NamesHold
  <1>3. ASSUME gen' = gen, free' = free, given' = given PROVE NamesKeep
    <2>1. Live' = Live
      BY <1>3 DEF Live, Known, Freed
    <2> QED
      BY <1>3, <2>1 DEF NamesKeep, StaleReachesNobody, NamesHold
  <1>4. CASE Spawn
    BY <1>1, <1>2, <1>4, SpawnMoves
  <1>5. ASSUME NEW h \in Live, Despawn(h) PROVE NamesKeep
    BY <1>1, <1>2, <1>5, DespawnMoves
  <1>6. ASSUME NEW h \in {Hero, OwnHero}, MakeRuneIllusions(h) PROVE NamesKeep
    BY <1>1, <1>2, <1>6, RuneMoves
  <1>7. ASSUME NEW ids \in SUBSET Live, TellView(ids) PROVE NamesKeep
    <2>1. gen' = gen /\ free' = free
      BY <1>7 DEF TellView, world
    <2>2. Live' = Live
      BY <2>1 DEF Live, Known, Freed
    <2>3. \A h \in DOMAIN given \ (Swept \cup Unmasked) :
            h \in DOMAIN given' /\ given'[h].name = given[h].name
      <3>1. Retold(Swept \cup Unmasked, ids)
        BY <1>7, ViewRetells
      <3> QED
        BY <3>1 DEF Retold
    <2>4. Swept \cap Live = {}
      BY DEF Swept
    <2>5. ASSUME NEW h \in Unmasked PROVE h = Hero \/ \E i \in illusion : i.it = h /\ i.of = Hero
      BY <2>5 DEF Unmasked, Group, HandlesInv, MaskInv
    <2> QED
      BY <2>2, <2>3, <2>4, <2>5 DEF NamesKeep, StaleReachesNobody, NamesHold
  <1>8. ASSUME NEW h \in Known, TellEvent(h) PROVE NamesKeep
    <2>1. gen' = gen /\ free' = free
      BY <1>8 DEF TellEvent, world
    <2>2. Live' = Live
      BY <2>1 DEF Live, Known, Freed
    <2>3. \A k \in DOMAIN given : k \in DOMAIN given' /\ given'[k].name = given[k].name
      BY <1>8, EventRetells DEF Retold
    <2> QED
      BY <2>2, <2>3 DEF NamesKeep, StaleReachesNobody, NamesHold
  <1>9. ASSUME NEW n \in Orders, GiveOrder(n) PROVE NamesKeep
    BY <1>3, <1>9 DEF GiveOrder, world, names
  <1>10. CASE NextTick
    BY <1>3, <1>10 DEF NextTick, world, names
  <1> QED
    BY <1>4, <1>5, <1>6, <1>7, <1>8, <1>9, <1>10 DEF HandlesNext

(***************************************************************************)
(* The tables of names, the allocator and the disguises keep the invariant *)
(* through any number of ticks, sweeps, runes and orders (entity.rs,       *)
(* handles.rs).                                                            *)
(***************************************************************************)
THEOREM HandlesInvariant ==
  ASSUME HandlesAssumption
  PROVE  HandlesSpec => []HandlesInv
  <1>1. HandlesInit => HandlesInv
    BY HandlesInitInv
  <1>2. HandlesInv /\ [HandlesNext]_handlesVars => HandlesInv'
    <2> SUFFICES ASSUME HandlesInv, [HandlesNext]_handlesVars PROVE HandlesInv'
      OBVIOUS
    <2>1. CASE HandlesNext
      BY <2>1, HandlesStep
    <2>2. CASE UNCHANGED handlesVars
      <3>1. Known' = Known /\ Live' = Live
        BY <2>2 DEF handlesVars, Known, Live, Freed
      <3>2. Disguised' = Disguised /\ Group(Hero)' = Group(Hero) /\ LastSweep' = LastSweep
        BY <2>2 DEF handlesVars, Disguised, Group, LastSweep, Viewed, Hero, OwnHero
      <3>3. SlotsInv' /\ IllusionsInv' /\ TablesInv'
        BY <2>2, <3>1 DEF handlesVars, HandlesInv, SlotsInv, IllusionsInv, TablesInv, Freed, Agree,
                          Hero, OwnHero
      <3>4. EverInv' /\ MaskInv'
        BY <2>2, <3>2 DEF handlesVars, HandlesInv, EverInv, MaskInv, Predates, Hero
      <3>5. AimInv' /\ GoneInv'
        BY <2>2, <3>1, <3>2 DEF handlesVars, HandlesInv, AimInv, GoneInv, Predates, Hero, Nothing
      <3> QED
        BY <3>3, <3>4, <3>5 DEF HandlesInv
    <2> QED
      BY <2>1, <2>2
  <1> QED
    BY <1>1, <1>2, PTL DEF HandlesSpec

(***************************************************************************)
(* The names a side is told: the two tables answer each other, no name is  *)
(* ever given to two handles and no handle to two tenants of its slot, a   *)
(* disguise leaves the side no older name of the hero or its illusions,    *)
(* whoever is gone is let go within a sweep of its time, a name holds      *)
(* while its bearer lives and is in no disguise, and, where orders wait    *)
(* for no more than the next tick, no unit is set on a disguised hero by a *)
(* name the hero no longer has (rename, unmask, sweep, heard,              *)
(* call_off_aims_at).                                                      *)
(***************************************************************************)
THEOREM NamesAreRight ==
  ASSUME HandlesAssumption
  PROVE  HandlesSpec => NamesAgree
  <1>1. HandlesSpec => []HandlesInv
    BY HandlesInvariant
  <1>2. HandlesInv => HandlesTypeOK /\ NamesRight
    BY NamesFollow
  <1>3. HandlesInv /\ [HandlesNext]_handlesVars => [NamesKeep]_handlesVars
    BY NamesKept
  <1> QED
    BY <1>1, <1>2, <1>3, PTL DEF HandlesSpec, NamesAgree

-----------------------------------------------------------------------------
(* Orders and casts (Actions). *)

Order == [kind : Kinds, seq : 1..MaxOrders]

\* Orders one behind another, in the order they were given.
Line(s) ==
    /\ s \in Seq(Order) /\ Len(s) <= MaxQueued
    /\ \A i \in 1..Len(s) : s[i].seq <= issued
    /\ \A i, j \in 1..Len(s) : i < j => s[i].seq < s[j].seq

\* No order stands in both lines.
Apart == \A i \in 1..Len(waiting), j \in 1..Len(queue) : waiting[i].seq # queue[j].seq

\* A swing has no channel; a hero whose body acts stands on the map; and what
\* comes due in a cast point was not broken off on this tick.
Acts ==
    /\ act.what = Swing => act.phase # "during"
    /\ pc \notin {"orders", "queues"} => alive
    /\ pc = "due" /\ CastPhase = "before" =>
          ~Held /\ (act.what \in Abilities => control = "free")

\* The channels that were set going and not told: that of the ability in hand,
\* and of the scroll while it is in its slot, if nobody can sell it.
Told ==
    /\ \A s \in live \cap Abilities : act.what = s /\ act.phase = "during"
    /\ ~Sells /\ Scroll \in live => act.what = Scroll /\ act.phase = "during" /\ scroll

\* The inductive invariant.
ActInv == TypeOK /\ Line(waiting) /\ Line(queue) /\ Apart /\ Acts /\ Told

-----------------------------------------------------------------------------
(* Lines of orders. *)

LEMMA OrderTyped ==
    ASSUME NEW o \in Order
    PROVE  o.kind \in Kinds /\ o.seq \in 1..MaxOrders /\ o = OrderOf(o.kind, o.seq)
  BY DEF Order, OrderOf

\* An order newer than all of a line may be put behind it.
LEMMA LineGrows ==
    ASSUME BoundsAssumption, NEW s, s \in Seq(Order), Len(s) < MaxQueued,
           \A i, j \in 1..Len(s) : i < j => s[i].seq < s[j].seq,
           NEW o \in Order, \A i \in 1..Len(s) : s[i].seq < o.seq
    PROVE  LET t == Append(s, o)
           IN  /\ t \in Seq(Order) /\ Len(t) = Len(s) + 1 /\ Len(t) <= MaxQueued
               /\ t[Len(t)] = o /\ \A i \in 1..Len(s) : t[i] = s[i]
               /\ \A i, j \in 1..Len(t) : i < j => t[i].seq < t[j].seq
  <1> DEFINE t == Append(s, o)
  <1>1. t \in Seq(Order) /\ Len(t) = Len(s) + 1 /\ Len(s) \in Nat
    OBVIOUS
  <1>2. t[Len(t)] = o /\ \A i \in 1..Len(s) : t[i] = s[i]
    OBVIOUS
  <1> HIDE DEF t
  <1>3. Len(t) <= MaxQueued
    BY <1>1 DEF BoundsAssumption
  <1>4. ASSUME NEW i \in 1..Len(t), NEW j \in 1..Len(t), i < j
        PROVE  t[i].seq < t[j].seq
    <2>1. i \in 1..Len(s)
      BY <1>1, <1>4
    <2>2. CASE j = Len(t)
      BY <1>2, <2>1, <2>2
    <2>3. CASE j # Len(t)
      <3>1. j \in 1..Len(s)
        BY <1>1, <2>3
      <3> QED
        BY <1>2, <1>4, <2>1, <3>1
    <2> QED
      BY <2>2, <2>3
  <1> QED
    BY <1>1, <1>2, <1>3, <1>4 DEF t

\* The line behind its first order is a line.
LEMMA LineShrinks ==
    ASSUME BoundsAssumption, NEW s, Line(s), s # <<>>
    PROVE  /\ Line(Tail(s)) /\ Len(Tail(s)) = Len(s) - 1 /\ Len(s) \in Nat \ {0}
           /\ Head(s) = s[1] /\ Head(s) \in Order /\ Head(s).seq <= issued
           /\ \A i \in 1..Len(Tail(s)) : i + 1 \in 1..Len(s) /\ Tail(s)[i] = s[i + 1]
  <1> DEFINE t == Tail(s)
  <1>1. s \in Seq(Order) /\ Len(s) \in Nat \ {0} /\ Len(s) <= MaxQueued /\ MaxQueued \in Nat
    BY DEF Line, BoundsAssumption
  <1>2. t \in Seq(Order) /\ Len(t) = Len(s) - 1 /\ Head(s) = s[1] /\ Head(s) \in Order
    BY <1>1
  <1>3. \A i \in 1..Len(t) : i + 1 \in 1..Len(s) /\ t[i] = s[i + 1]
    BY <1>1, <1>2
  <1> HIDE DEF t
  <1>4. Line(t)
    <2>1. Len(t) <= MaxQueued
      BY <1>1, <1>2
    <2>2. \A i \in 1..Len(t) : t[i].seq <= issued
      BY <1>3 DEF Line
    <2>3. \A i, j \in 1..Len(t) : i < j => t[i].seq < t[j].seq
      <3> TAKE i, j \in 1..Len(t)
      <3> HAVE i < j
      <3>1. i + 1 < j + 1
        BY <1>1, <1>2
      <3> QED
        BY <1>3, <3>1 DEF Line
    <2> QED
      BY <1>2, <2>1, <2>2, <2>3 DEF Line
  <1>5. Head(s).seq <= issued
    BY <1>1, <1>2 DEF Line
  <1> QED
    BY <1>1, <1>2, <1>3, <1>4, <1>5 DEF t

\* The empty line, and a line of one.
LEMMA LineEmpty ==
    ASSUME BoundsAssumption
    PROVE  Line(<<>>)
  BY DEF Line, BoundsAssumption

\* What call_off_aims leaves of a line is a line, of its own orders, and lacks none
\* that does not name the mark.
LEMMA SparedLine ==
    ASSUME BoundsAssumption, NEW s, Line(s), NEW t \in Spared(s)
    PROVE  /\ Line(t)
           /\ \A k \in 1..Len(t) : \E i \in 1..Len(s) : t[k] = s[i]
           /\ \A i \in 1..Len(s) : ~NamesMark(s[i]) => \E k \in 1..Len(t) : t[k] = s[i]
  <1> DEFINE kept == {i \in DOMAIN s : ~NamesMark(s[i])}
             left == {s[i] : i \in kept}
  <1>1. /\ s \in Seq(Order) /\ Len(s) \in Nat /\ Len(s) <= MaxQueued /\ MaxQueued \in Nat
        /\ DOMAIN s = 1..Len(s)
    BY DEF Line, BoundsAssumption
  <1>2. PICK n \in 0..Len(s) : t \in [1..n -> left]
    BY DEF Spared
  <1>3. /\ \A i \in kept : \E k \in DOMAIN t : t[k] = s[i]
        /\ \A k, l \in DOMAIN t : k < l => \E i, j \in kept : i < j /\ t[k] = s[i] /\ t[l] = s[j]
    BY DEF Spared
  <1>4. left \subseteq Order
    BY <1>1
  <1>5. kept \subseteq 1..Len(s) /\ \A i \in 1..Len(s) : ~NamesMark(s[i]) => i \in kept
    BY <1>1
  <1>6. \A x \in left : \E i \in kept : x = s[i]
    OBVIOUS
  <1> HIDE DEF kept, left
  <1>7. t \in Seq(Order) /\ Len(t) = n /\ DOMAIN t = 1..n
    BY <1>1, <1>2, <1>4
  <1>8. \A k \in 1..n : \E i \in 1..Len(s) : t[k] = s[i]
    BY <1>2, <1>5, <1>6
  <1>9. \A k \in 1..n : t[k].seq <= issued
    BY <1>8 DEF Line
  <1>10. ASSUME NEW k \in 1..n, NEW l \in 1..n, k < l
         PROVE  t[k].seq < t[l].seq
    <2>1. PICK i \in kept, j \in kept : i < j /\ t[k] = s[i] /\ t[l] = s[j]
      BY <1>3, <1>7, <1>10
    <2>2. i \in 1..Len(s) /\ j \in 1..Len(s)
      BY <1>5, <2>1
    <2> QED
      BY <2>1, <2>2 DEF Line
  <1>11. Len(t) <= MaxQueued
    BY <1>1, <1>7
  <1>12. Line(t)
    BY <1>7, <1>9, <1>10, <1>11 DEF Line
  <1> QED
    BY <1>3, <1>5, <1>7, <1>8, <1>12

-----------------------------------------------------------------------------
(* Carrying an order out. *)

\* The body with what it is told of, and what it does next.
Body ==
    /\ act \in [what : Spells \cup {Swing, None}, phase : Phases \cup {None}, at : Nat]
    /\ (act.what = None) <=> (act.phase = None)
    /\ act.what = Swing => act.phase # "during"
    /\ pending \in Spells \cup {None}
    /\ immediate \in Immediate \cup {None}
    /\ current \in {"idle", "stand", "hold", "move", "there", "attack"}
    /\ live \subseteq Spells
    /\ Told

LEMMA BodyHolds ==
    ASSUME ActInv
    PROVE  Body
  BY DEF ActInv, TypeOK, Acts, Body

\* A body made ready was told of the channel it breaks off.
LEMMA BodyReadied ==
    ASSUME SpellsAssumption, Body, UNCHANGED scroll,
           act' = act \/ act' = Ready,
           live' = live \/ live' = live \ ToldOf(act),
           act' # act => live' = live \ ToldOf(act),
           pending' \in Spells \cup {None}, immediate' \in Immediate \cup {None},
           current' \in {"idle", "stand", "hold", "move", "there", "attack"}
    PROVE  Body'
  <1>1. Ready \in [what : Spells \cup {Swing, None}, phase : Phases \cup {None}, at : Nat]
        /\ Ready.what = None /\ Ready.phase = None /\ None # Swing
    BY DEF Ready, None, Swing
  <1>2. /\ act' \in [what : Spells \cup {Swing, None}, phase : Phases \cup {None}, at : Nat]
        /\ (act'.what = None) <=> (act'.phase = None)
        /\ act'.what = Swing => act'.phase # "during"
        /\ live' \subseteq Spells
    BY <1>1 DEF Body
  <1>3. Told'
    <2>1. CASE act' = act
      BY <2>1 DEF Body, Told, HasDef
    <2>2. CASE act' # act
      <3>1. live' = live \ ToldOf(act)
        BY <2>2
      <3>2. ASSUME NEW s \in live', s \in Abilities
            PROVE  FALSE
        <4>1. s \in live /\ act.what = s /\ act.phase = "during" /\ s # Scroll
          BY <3>1, <3>2 DEF Body, Told, SpellsAssumption
        <4> QED
          BY <3>1, <3>2, <4>1 DEF ToldOf, HasDef
      <3>3. ~Sells => Scroll \notin live'
        BY <3>1 DEF Body, Told, ToldOf, HasDef
      <3> QED
        BY <3>2, <3>3 DEF Told
    <2> QED
      BY <2>1, <2>2
  <1> QED
    BY <1>2, <1>3 DEF Body

\* carry_out readies the body or leaves it.
LEMMA CarryBody ==
    ASSUME SpellsAssumption, Body, UNCHANGED scroll,
           NEW o \in Order, NEW w, NEW rest, carry_out(o, w, rest)
    PROVE  Body'
  <1>1. o.kind \in Kinds
    BY OrderTyped
  <1>2. Cancelled(act) \in {act, Ready}
    BY DEF Cancelled
  <1>3. pending \in Spells \cup {None} /\ immediate \in Immediate \cup {None}
        /\ current \in {"idle", "stand", "hold", "move", "there", "attack"}
    BY DEF Body
  <1>4. Standing(o) \in {"idle", "stand", "hold", "move", "there", "attack"}
    BY <1>1, <1>3 DEF Standing
  <1>5. CASE IsImmediate(o)
    <2>1. /\ immediate' = o.kind /\ pending' = pending /\ current' = current
          /\ \/ act' = act /\ live' = live
             \/ act' = Cancelled(act) /\ live' = live \ ToldOf(act)
      BY <1>5 DEF carry_out
    <2>2. immediate' \in Immediate
      BY <1>5, <2>1 DEF IsImmediate
    <2> QED
      BY <1>2, <1>3, <2>1, <2>2, BodyReadied
  <1>6. CASE ~IsImmediate(o) /\ is_channelling /\ o.kind \in Ignores
    <2>1. pending' = o.kind /\ current' = Standing(o) /\ UNCHANGED <<act, immediate, live>>
      BY <1>6 DEF carry_out, WaitsForCast, is_casting, is_channelling
    <2>2. o.kind \in Spells
      BY <1>6 DEF SpellsAssumption, Spells
    <2> QED
      BY <1>3, <1>4, <2>1, <2>2, BodyReadied
  <1>7. CASE ~IsImmediate(o) /\ is_channelling /\ o.kind \in Keeps \ Ignores
    <2>1. UNCHANGED <<act, pending, immediate, current, live>>
      BY <1>7 DEF carry_out
    <2> QED
      BY <1>3, <2>1, BodyReadied
  <1>8. CASE ~IsImmediate(o) /\ WaitsForCast(o)
    <2>1. UNCHANGED <<act, pending, immediate, current, live>>
      BY <1>8 DEF carry_out, WaitsForCast, is_casting, is_channelling
    <2> QED
      BY <1>3, <2>1, BodyReadied
  <1>9. CASE /\ ~IsImmediate(o) /\ ~WaitsForCast(o)
             /\ ~(is_channelling /\ o.kind \in Ignores)
             /\ ~(is_channelling /\ o.kind \in Keeps \ Ignores)
    <2>1. /\ \E same \in BOOLEAN : act' = Interrupted(o, same)
          /\ live' = live \ ToldOf(act)
          /\ pending' = IF is_cast(o) THEN o.kind ELSE None
          /\ current' = Standing(o) /\ immediate' = immediate
      BY <1>9 DEF carry_out
    <2>2. act' \in {act, Ready}
      BY <1>2, <2>1 DEF Interrupted
    <2>3. pending' \in Spells \cup {None}
      BY <2>1 DEF is_cast
    <2> QED
      BY <1>3, <1>4, <2>1, <2>2, <2>3, BodyReadied
  <1> QED
    BY <1>5, <1>6, <1>7, <1>8, <1>9

\* An order that has to wait for a cast point is put behind the others or
\* refused; any other is taken, and what was to wait still does.
LEMMA CarryLine ==
    ASSUME NEW o \in Order, NEW w, NEW rest, carry_out(o, w, rest)
    PROVE  /\ ~IsImmediate(o) /\ WaitsForCast(o) =>
                 /\ waiting' = IF rest = <<>> THEN WaitBehind(w, o) ELSE rest
                 /\ act' = act
                 /\ \/ /\ \E i \in DOMAIN WaitBehind(w, o) : WaitBehind(w, o)[i] = o
                       /\ UNCHANGED <<taken, refused>>
                    \/ Refuse(o)
           /\ IsImmediate(o) \/ ~WaitsForCast(o) =>
                 /\ waiting' \in {rest, IF rest = <<>> THEN w ELSE rest}
                 /\ IsImmediate(o) => waiting' = IF rest = <<>> THEN w ELSE rest
                 /\ Take(o)
           /\ IsImmediate(o) /\ is_casting => act' = act
  <1>1. CASE IsImmediate(o)
    BY <1>1 DEF carry_out, is_casting, is_channelling
  <1>2. CASE ~IsImmediate(o) /\ is_channelling /\ o.kind \in Ignores
    BY <1>2 DEF carry_out, WaitsForCast, is_casting, is_channelling
  <1>3. CASE ~IsImmediate(o) /\ is_channelling /\ o.kind \in Keeps \ Ignores
    BY <1>3 DEF carry_out, WaitsForCast, is_casting, is_channelling
  <1>4. CASE ~IsImmediate(o) /\ WaitsForCast(o)
    BY <1>4 DEF carry_out, WaitsForCast, is_casting, is_channelling
  <1>5. CASE /\ ~IsImmediate(o) /\ ~WaitsForCast(o)
             /\ ~(is_channelling /\ o.kind \in Ignores)
             /\ ~(is_channelling /\ o.kind \in Keeps \ Ignores)
    BY <1>5 DEF carry_out
  <1> QED
    BY <1>1, <1>2, <1>3, <1>4, <1>5

-----------------------------------------------------------------------------
(* The steps of a tick. *)

Counts ==
    /\ control \in {"free", "silenced", "held"}
    /\ alive \in BOOLEAN /\ scroll \in BOOLEAN /\ gain \in {0, 1}
    /\ issued \in 0 .. MaxOrders /\ fell \in 0 .. MaxOrders /\ falls \in 0 .. Deaths
    /\ taken \subseteq 1 .. MaxOrders /\ refused \subseteq 1 .. MaxOrders

Places == {"orders", "queues", "world", "immediate", "pending", "carry", "due", "release", "damage"}

LEMMA Parts ==
    ASSUME ActInv
    PROVE  /\ Body /\ Counts /\ pc \in Places /\ Acts
           /\ Line(waiting) /\ Line(queue) /\ Apart
  BY BodyHolds DEF ActInv, TypeOK, Counts, Places

\* The parts of the invariant after a step make it up.
LEMMA WholeDue ==
    ASSUME Body', Counts', pc' \in Places,
           Line(waiting)', Line(queue)', Apart',
           pc' \notin {"orders", "queues"} => alive',
           pc' = "due" /\ CastPhase' = "before" =>
              ~Held' /\ (act'.what \in Abilities => control' = "free")
    PROVE  ActInv'
  <1>1. Acts'
    BY DEF Acts, Body
  <1>2. \A i \in DOMAIN waiting' : waiting'[i].kind \in Kinds
    BY OrderTyped DEF Line
  <1>3. \A i \in DOMAIN queue' : queue'[i].kind \in Kinds
    BY OrderTyped DEF Line
  <1>4. Len(waiting') <= MaxQueued /\ Len(queue') <= MaxQueued
    BY DEF Line
  <1>5. TypeOK'
    BY <1>2, <1>3, <1>4 DEF TypeOK, Body, Counts, Places
  <1> QED
    BY <1>1, <1>5 DEF ActInv, Body

LEMMA Whole ==
    ASSUME Body', Counts', pc' \in Places,
           Line(waiting)', Line(queue)', Apart',
           pc' \notin {"orders", "queues"} => alive',
           pc' # "due"
    PROVE  ActInv'
  BY WholeDue

\* Lines left alone stay as they are.
LEMMA LinesStay ==
    ASSUME Line(waiting), Line(queue), Apart, UNCHANGED <<waiting, queue, issued>>
    PROVE  Line(waiting)' /\ Line(queue)' /\ Apart'
  BY DEF Line, Apart

LEMMA BodyStays ==
    ASSUME Body, UNCHANGED <<act, pending, immediate, current, live, scroll>>
    PROVE  Body'
  BY DEF Body, Told, HasDef

\* What waits once an order newer than all of it is put behind it.
LEMMA WaitBehindLine ==
    ASSUME BoundsAssumption, NEW w, Line(w), NEW o \in Order, issued \in Nat, o.seq = issued + 1
    PROVE  LET v == WaitBehind(w, o)
           IN  /\ v \in Seq(Order) /\ Len(v) <= MaxQueued
               /\ \A i \in 1..Len(v) : v[i].seq <= issued + 1
               /\ \A i, j \in 1..Len(v) : i < j => v[i].seq < v[j].seq
  <1> DEFINE kept == IF is_cast(o) /\ (\A i \in DOMAIN w : is_cast(w[i])) THEN w ELSE <<>>
             v == WaitBehind(w, o)
  <1>1. Line(kept)
    BY LineEmpty
  <1>2. v = IF Len(kept) < MaxQueued THEN Append(kept, o) ELSE kept
    BY DEF WaitBehind
  <1> HIDE DEF kept, v
  <1>3. \A i \in 1..Len(kept) : kept[i].seq \in Nat /\ kept[i].seq <= issued
    BY <1>1, OrderTyped DEF Line
  <1>4. CASE Len(kept) < MaxQueued
    <2>1. \A i \in 1..Len(kept) : kept[i].seq < o.seq
      BY <1>3
    <2>2. /\ Append(kept, o) \in Seq(Order) /\ Len(Append(kept, o)) = Len(kept) + 1
          /\ Len(Append(kept, o)) <= MaxQueued
          /\ Append(kept, o)[Len(Append(kept, o))] = o
          /\ \A i \in 1..Len(kept) : Append(kept, o)[i] = kept[i]
          /\ \A i, j \in 1..Len(Append(kept, o)) :
                i < j => Append(kept, o)[i].seq < Append(kept, o)[j].seq
      BY <1>1, <1>4, <2>1, LineGrows DEF Line
    <2>3. v = Append(kept, o)
      BY <1>2, <1>4
    <2>4. ASSUME NEW i \in 1..Len(v) PROVE v[i].seq <= issued + 1
      <3>1. Len(kept) \in Nat
        BY <1>1 DEF Line
      <3>2. CASE i = Len(v)
        BY <2>2, <2>3, <3>2
      <3>3. CASE i # Len(v)
        <4>1. i \in 1..Len(kept)
          BY <2>2, <2>3, <3>1, <3>3
        <4> QED
          BY <1>3, <2>2, <2>3, <4>1
      <3> QED
        BY <3>2, <3>3
    <2> QED
      BY <2>2, <2>3, <2>4 DEF v
  <1>5. CASE ~(Len(kept) < MaxQueued)
    <2>1. v = kept
      BY <1>2, <1>5
    <2>2. \A i \in 1..Len(v) : v[i].seq <= issued + 1
      BY <1>3, <2>1
    <2> QED
      BY <1>1, <2>1, <2>2 DEF v, Line
  <1> QED
    BY <1>4, <1>5

\* An order is given.
LEMMA GiveKeeps ==
    ASSUME SpellsAssumption, BoundsAssumption, ActInv,
           NEW kind \in Kinds, NEW queued \in BOOLEAN, Give(kind, queued)
    PROVE  ActInv'
  <1> DEFINE o == OrderOf(kind, issued + 1)
  <1>1. /\ Body /\ Counts /\ Line(waiting) /\ Line(queue) /\ Apart
        /\ pc = "orders" /\ issued < MaxOrders /\ issued' = issued + 1
        /\ UNCHANGED <<pc, control, alive, scroll, gain, fell, falls>>
    BY Parts DEF Give
  <1>2. issued \in Nat /\ MaxOrders \in Nat /\ issued' \in 0..MaxOrders
        /\ issued + 1 \in 1..MaxOrders
    BY <1>1 DEF Counts, BoundsAssumption
  <1>3. o \in Order /\ o.seq = issued + 1 /\ o.kind = kind
    BY <1>2 DEF OrderOf, Order
  <1>4. \A s : Line(s) => /\ s \in Seq(Order) /\ Len(s) <= MaxQueued
                          /\ \A i \in 1..Len(s) : s[i].seq <= issued'
                          /\ \A i, j \in 1..Len(s) : i < j => s[i].seq < s[j].seq
    <2> TAKE s
    <2> HAVE Line(s)
    <2>1. \A i \in 1..Len(s) : s[i].seq \in Nat /\ s[i].seq <= issued
      BY OrderTyped DEF Line
    <2>2. \A i \in 1..Len(s) : s[i].seq <= issued'
      BY <1>1, <1>2, <2>1
    <2> QED
      BY <2>2 DEF Line
  <1>5. \A i \in 1..Len(waiting) : waiting[i].seq # issued + 1
    <2>1. \A i \in 1..Len(waiting) : waiting[i].seq \in Nat /\ waiting[i].seq <= issued
      BY <1>1, OrderTyped DEF Line
    <2> QED
      BY <1>2, <2>1
  <1> HIDE DEF o
  <1>6. CASE queued /\ (queue # <<>> \/ ~order_done)
    <2>1. /\ UNCHANGED <<act, pending, immediate, current, waiting, live>>
          /\ \/ /\ Len(queue) < MaxQueued
                /\ queue' = Append(queue, o) /\ UNCHANGED <<taken, refused>>
             \/ Refuse(o) /\ UNCHANGED queue
      BY <1>6 DEF Give, bodyVars, o
    <2>2. Body'
      BY <1>1, <2>1, BodyStays
    <2>3. Counts'
      BY <1>1, <1>2, <1>3, <2>1 DEF Counts, Refuse
    <2>4. Line(waiting)'
      BY <1>1, <1>4, <2>1 DEF Line
    <2>5. CASE UNCHANGED queue
      <3>1. Line(queue)' /\ Apart'
        BY <1>1, <1>4, <2>1, <2>5 DEF Line, Apart
      <3> QED
        BY <1>1, <2>2, <2>3, <2>4, <3>1, Whole DEF Places
    <2>6. CASE Len(queue) < MaxQueued /\ queue' = Append(queue, o)
      <3>1. \A i \in 1..Len(queue) : queue[i].seq \in Nat /\ queue[i].seq <= issued
        BY <1>1, OrderTyped DEF Line
      <3>2. \A i \in 1..Len(queue) : queue[i].seq < o.seq
        BY <1>2, <1>3, <3>1
      <3>3. /\ queue' \in Seq(Order) /\ Len(queue') = Len(queue) + 1
            /\ Len(queue') <= MaxQueued
            /\ queue'[Len(queue')] = o
            /\ \A i \in 1..Len(queue) : queue'[i] = queue[i]
            /\ \A i, j \in 1..Len(queue') : i < j => queue'[i].seq < queue'[j].seq
        BY <1>1, <1>3, <2>6, <3>2, LineGrows DEF Line
      <3>4. \A i \in 1..Len(queue') : i = Len(queue') \/ i \in 1..Len(queue)
        BY <1>1, <3>3 DEF Line
      <3>5. \A i \in 1..Len(queue') : queue'[i].seq <= issued'
        BY <1>1, <1>2, <1>3, <3>1, <3>3, <3>4
      <3>6. Apart'
        BY <1>1, <1>3, <1>5, <2>1, <3>3, <3>4 DEF Apart
      <3>7. Line(queue)'
        BY <3>3, <3>5 DEF Line
      <3> QED
        BY <1>1, <2>2, <2>3, <2>4, <3>6, <3>7, Whole DEF Places
    <2> QED
      BY <2>1, <2>5, <2>6
  <1>7. CASE ~(queued /\ (queue # <<>> \/ ~order_done))
    <2>1. queue' = (IF IsImmediate(o) THEN queue ELSE <<>>) /\ carry_out(o, waiting, <<>>)
      BY <1>7 DEF Give, o
    <2>2. Body'
      BY <1>1, <1>3, <2>1, CarryBody
    <2>3. taken' \subseteq taken \cup {o.seq} /\ refused' \subseteq refused \cup {o.seq}
          /\ (waiting' \in {<<>>, waiting} \/ (~IsImmediate(o) /\ waiting' = WaitBehind(waiting, o)))
          /\ (IsImmediate(o) => waiting' = waiting)
      BY <1>3, <2>1, CarryLine DEF Take, Refuse
    <2>4. Counts'
      BY <1>1, <1>2, <1>3, <2>3 DEF Counts
    <2>5. Line(<<>>) /\ Line(queue)'
      BY <1>1, <1>4, <2>1, LineEmpty DEF Line
    <2>6. Line(waiting)'
      <3>1. CASE waiting' \in {<<>>, waiting}
        BY <1>1, <1>4, <2>5, <3>1 DEF Line
      <3>2. CASE waiting' = WaitBehind(waiting, o)
        BY <1>1, <1>2, <1>3, <3>2, WaitBehindLine DEF Line
      <3> QED
        BY <2>3, <3>1, <3>2
    <2>7. Apart'
      <3>1. CASE IsImmediate(o)
        BY <1>1, <2>1, <2>3, <3>1 DEF Apart
      <3>2. CASE ~IsImmediate(o)
        BY <2>1, <3>2 DEF Apart
      <3> QED
        BY <3>1, <3>2
    <2> QED
      BY <1>1, <2>2, <2>4, <2>5, <2>6, <2>7, Whole DEF Places
  <1> QED
    BY <1>6, <1>7

\* An order is taken up from the queue: none waits, and no cast is in hand.
LEMMA TakeUpKeeps ==
    ASSUME SpellsAssumption, BoundsAssumption, ActInv, TakeUp
    PROVE  ActInv'
  <1>1. /\ Body /\ Counts /\ Line(waiting) /\ Line(queue) /\ Apart
        /\ pc = "queues" /\ queue # <<>> /\ order_done /\ queue' = Tail(queue)
        /\ UNCHANGED <<pc, control, alive, scroll, gain, issued, fell, falls>>
    BY Parts DEF TakeUp, histVars
  <1> DEFINE o == Head(queue)
  <1>2. Line(Tail(queue)) /\ o \in Order
    BY <1>1, LineShrinks
  <1>3. waiting = <<>> /\ ~is_casting
    BY <1>1 DEF order_done, is_casting, CastPhase, None
  <1>4. o.seq \in 1..MaxOrders
    BY <1>2, OrderTyped
  <1>5. Body' /\ waiting' = <<>> /\ taken' \subseteq taken \cup {o.seq}
        /\ refused' \subseteq refused \cup {o.seq}
    <2>1. CASE carry_out(o, waiting, <<>>)
      <3>1. Body'
        BY <1>1, <1>2, <2>1, CarryBody
      <3>2. ~WaitsForCast(o)
        BY <1>3 DEF WaitsForCast
      <3> QED
        BY <1>2, <1>3, <2>1, <3>1, <3>2, CarryLine DEF Take
    <2>2. CASE Refuse(o) /\ UNCHANGED <<bodyVars, waiting, live>>
      BY <1>1, <1>3, <2>2, BodyStays DEF Refuse, bodyVars
    <2> QED
      BY <2>1, <2>2 DEF TakeUp, NextOf
  <1> HIDE DEF o
  <1>6. Counts'
    BY <1>1, <1>4, <1>5 DEF Counts
  <1>7. Line(queue)' /\ Line(waiting)'
    BY <1>1, <1>2, <1>5, LineEmpty DEF Line
  <1>8. Apart'
    BY <1>5 DEF Apart
  <1> QED
    BY <1>1, <1>5, <1>6, <1>7, <1>8, Whole DEF Places

\* What a cast point made wait is released, the first of it.
LEMMA ReleaseKeeps ==
    ASSUME SpellsAssumption, BoundsAssumption, ActInv, ReleaseWaiting
    PROVE  ActInv'
  <1>1. /\ Body /\ Counts /\ Line(waiting) /\ Line(queue) /\ Apart /\ alive
        /\ pc = "release" /\ pc' = "damage"
        /\ UNCHANGED <<queue, control, alive, scroll, gain, issued, fell, falls>>
    BY Parts DEF ReleaseWaiting, histVars, Acts
  <1>2. CASE ~Releases
    <2>1. UNCHANGED <<act, pending, immediate, current, waiting, live, taken, refused>>
      BY <1>2 DEF ReleaseWaiting, bodyVars
    <2>2. Body' /\ Counts'
      BY <1>1, <2>1, BodyStays DEF Counts
    <2>3. Line(waiting)' /\ Line(queue)' /\ Apart'
      BY <1>1, <2>1, LinesStay
    <2> QED
      BY <1>1, <2>2, <2>3, Whole DEF Places
  <1>3. CASE Releases
    <2> DEFINE o == Head(waiting)
    <2>1. waiting # <<>> /\ ~is_casting
      BY <1>3 DEF Releases, is_casting
    <2>2. /\ Line(Tail(waiting)) /\ o \in Order
          /\ \A i \in 1..Len(Tail(waiting)) :
                i + 1 \in 1..Len(waiting) /\ Tail(waiting)[i] = waiting[i + 1]
      BY <1>1, <2>1, LineShrinks
    <2>3. o.seq \in 1..MaxOrders
      BY <2>2, OrderTyped
    <2>4. Body' /\ waiting' = Tail(waiting) /\ taken' \subseteq taken \cup {o.seq}
          /\ refused' \subseteq refused \cup {o.seq}
      <3>1. CASE carry_out(o, <<>>, Tail(waiting))
        <4>1. Body'
          BY <1>1, <2>2, <3>1, CarryBody
        <4>2. ~WaitsForCast(o)
          BY <2>1 DEF WaitsForCast
        <4>3. waiting' = Tail(waiting) /\ Take(o)
          <5> DEFINE rest == Tail(waiting)
          <5> HIDE DEF rest, o
          <5>1. carry_out(o, <<>>, rest)
            BY <3>1 DEF rest
          <5>2. waiting' \in {rest, IF rest = <<>> THEN <<>> ELSE rest} /\ Take(o)
            BY <2>2, <4>2, <5>1, CarryLine
          <5> QED
            BY <5>2 DEF rest
        <4> QED
          BY <4>1, <4>3 DEF Take
      <3>2. CASE Refuse(o) /\ waiting' = Tail(waiting) /\ UNCHANGED <<bodyVars, live>>
        BY <1>1, <3>2, BodyStays DEF Refuse, bodyVars
      <3> QED
        BY <1>3, <3>1, <3>2 DEF ReleaseWaiting, Rest
    <2> HIDE DEF o
    <2>5. Counts'
      BY <1>1, <2>3, <2>4 DEF Counts
    <2>6. Line(queue)' /\ Line(waiting)'
      BY <1>1, <2>2, <2>4 DEF Line
    <2>7. Apart'
      <3>1. \A i \in 1..Len(Tail(waiting)), j \in 1..Len(queue) :
               Tail(waiting)[i].seq # queue[j].seq
        BY <1>1, <2>2 DEF Apart
      <3> QED
        BY <1>1, <2>4, <3>1 DEF Apart
    <2> QED
      BY <1>1, <2>4, <2>5, <2>6, <2>7, Whole DEF Places
  <1> QED
    BY <1>2, <1>3

\* The steps that leave both lines alone and are not followed by what comes due.
LEMMA OthersKeep ==
    ASSUME SpellsAssumption, BoundsAssumption, ActInv,
           Deal \/ Step \/ World \/ Respawn \/ TryImmediate \/ TryPending
    PROVE  ActInv'
  <1>1. /\ Body /\ Counts /\ pc \in Places /\ Acts
        /\ Line(waiting) /\ Line(queue) /\ Apart
    BY Parts
  <1>2. UNCHANGED <<waiting, queue, issued, fell, falls, taken, refused>>
    BY DEF Deal, Step, World, Respawn, TryImmediate, TryPending, histVars
  <1>3. Line(waiting)' /\ Line(queue)' /\ Apart'
    BY <1>1, <1>2, LinesStay
  <1>4. CASE Deal
    <2>1. scroll' = ~scroll /\ Sells
          /\ UNCHANGED <<pc, act, pending, immediate, current, control, alive, live, gain>>
      BY <1>4 DEF Deal, bodyVars
    <2>2. Counts'
      BY <1>1, <1>2, <2>1 DEF Counts
    <2>3. Body'
      BY <1>1, <2>1 DEF Body, Told
    <2>4. pc' = "orders"
      BY <1>4, <2>1 DEF Deal
    <2> QED
      BY <1>3, <2>2, <2>3, <2>4, Whole DEF Places
  <1>5. CASE Step
    <2>1. pc' = "queues"
          /\ UNCHANGED <<act, pending, immediate, current, control, alive, scroll, live, gain>>
      BY <1>5 DEF Step, bodyVars
    <2>2. Counts' /\ Body'
      BY <1>1, <1>2, <2>1, BodyStays DEF Counts
    <2> QED
      BY <1>3, <2>1, <2>2, Whole DEF Places
  <1>6. CASE World
    <2>1. /\ pc' = "immediate" /\ alive /\ control' \in {"free", "silenced", "held"}
          /\ UNCHANGED <<act, pending, immediate, alive, scroll, live, gain>>
      BY <1>6 DEF World
    <2>2. current' \in {"idle", "stand", "hold", "move", "there", "attack"}
      BY <1>1, <1>6 DEF World, Body
    <2>3. Counts'
      BY <1>1, <1>2, <2>1 DEF Counts
    <2>4. Body'
      BY <1>1, <2>1, <2>2 DEF Body, Told
    <2> QED
      BY <1>3, <2>1, <2>3, <2>4, Whole DEF Places
  <1>7. CASE Respawn
    <2>1. /\ \/ alive' = TRUE /\ pc' = "immediate"
             \/ alive' = FALSE /\ pc' = "orders"
          /\ control' = "free"
          /\ UNCHANGED <<act, pending, immediate, current, scroll, live, gain>>
      BY <1>7 DEF Respawn, bodyVars
    <2>2. Counts' /\ Body'
      BY <1>1, <1>2, <2>1, BodyStays DEF Counts
    <2> QED
      BY <1>3, <2>1, <2>2, Whole DEF Places
  <1>8. CASE TryImmediate
    <2>1. /\ pc = "immediate" /\ pc' = "pending" /\ immediate' = None
          /\ UNCHANGED <<act, pending, current, control, alive, scroll, live, gain>>
      BY <1>8 DEF TryImmediate
    <2>2. Counts'
      BY <1>1, <1>2, <2>1 DEF Counts
    <2>3. Body'
      BY <1>1, <2>1 DEF Body, Told
    <2>4. alive'
      BY <1>1, <2>1 DEF Acts
    <2> QED
      BY <1>3, <2>1, <2>2, <2>3, <2>4, Whole DEF Places
  <1>9. CASE TryPending
    <2>1. /\ pc = "pending" /\ pc' = "carry" /\ gain' \in {0, 1}
          /\ UNCHANGED <<immediate, current, control, alive, scroll, live>>
      BY <1>9 DEF TryPending
    <2>2. Counts'
      BY <1>1, <1>2, <2>1 DEF Counts
    <2>3. alive'
      BY <1>1, <2>1 DEF Acts
    <2>4. CASE UNCHANGED act /\ pending' \in {pending, None}
      <3>1. Body'
        BY <1>1, <2>1, <2>4 DEF Body, Told
      <3> QED
        BY <1>3, <2>1, <2>2, <2>3, <3>1, Whole DEF Places
    <2>5. CASE /\ pending # None /\ act.what \notin Spells /\ pending' = None
               /\ act' = [what |-> pending, phase |-> "before", at |-> 0]
      <3>1. pending \in Spells /\ pending # Swing
        BY <1>1, <2>5 DEF Body, SpellsAssumption
      <3>2. /\ act' \in [what : Spells \cup {Swing, None}, phase : Phases \cup {None}, at : Nat]
            /\ act'.what = pending /\ act'.phase = "before"
        BY <2>5, <3>1 DEF Phases
      <3>3. live \cap Abilities = {} /\ (~Sells => Scroll \notin live)
        BY <1>1, <2>5 DEF Body, Told, Spells
      <3>4. Body'
        BY <1>1, <2>1, <2>5, <3>1, <3>2, <3>3 DEF Body, Told, None
      <3> QED
        BY <1>3, <2>1, <2>2, <2>3, <3>4, Whole DEF Places
    <2> QED
      BY <1>9, <2>4, <2>5 DEF TryPending
  <1> QED
    BY <1>4, <1>5, <1>6, <1>7, <1>8, <1>9

\* Aims called off leave lines, and the body in what it does.
LEMMA CallOffKeeps ==
    ASSUME SpellsAssumption, BoundsAssumption, ActInv, CallOffAims
    PROVE  ActInv'
  <1>1. /\ Body /\ Counts /\ pc \in Places /\ Acts
        /\ Line(waiting) /\ Line(queue) /\ Apart
    BY Parts
  <1>2. UNCHANGED <<pc, act, immediate, control, alive, scroll, live, gain, issued, fell, falls,
                    taken, refused>>
    BY DEF CallOffAims, histVars
  <1>3. queue' \in Spared(queue) /\ waiting' \in Spared(waiting)
    BY DEF CallOffAims
  <1>4. pending' \in {pending, None} /\ current' \in {current, "idle"}
    BY DEF CallOffAims
  <1>5. Counts'
    BY <1>1, <1>2 DEF Counts
  <1>6. Body'
    BY <1>1, <1>2, <1>4 DEF Body, Told
  <1>7. Line(queue') /\ Line(waiting')
        /\ (\A k \in 1..Len(queue') : \E i \in 1..Len(queue) : queue'[k] = queue[i])
        /\ (\A k \in 1..Len(waiting') : \E i \in 1..Len(waiting) : waiting'[k] = waiting[i])
    BY <1>1, <1>3, SparedLine
  <1>8. Line(queue)' /\ Line(waiting)'
    BY <1>2, <1>7 DEF Line
  <1>9. Apart'
    BY <1>1, <1>7 DEF Apart
  <1>10. /\ pc' \notin {"orders", "queues"} => alive'
         /\ pc' = "due" /\ CastPhase' = "before" =>
               ~Held' /\ (act'.what \in Abilities => control' = "free")
    BY <1>1, <1>2 DEF Acts, CastPhase, Held
  <1> QED
    BY <1>1, <1>2, <1>5, <1>6, <1>8, <1>9, <1>10, WholeDue

\* The next phase of an action begins as far on as the last one overran.
LEMMA IntoTyped ==
    ASSUME SpellsAssumption, Body, act.what # None, Crossed(act), NEW phase \in Phases
    PROVE  /\ Into(phase) \in [what : Spells \cup {Swing, None}, phase : Phases \cup {None}, at : Nat]
           /\ Into(phase).what = act.what /\ Into(phase).phase = phase
  <1>1. /\ act \in [what : Spells \cup {Swing, None}, phase : Phases \cup {None}, at : Nat]
        /\ act.what \in Spells \cup {Swing} /\ act.at \in Nat
        /\ act.what = Swing => act.phase # "during"
    BY DEF Body
  <1>2. PhaseLength(act) \in Nat
    <2>1. CASE act.phase = "before"
      BY <1>1, <2>1 DEF PhaseLength, SpellsAssumption
    <2>2. CASE act.phase = "during"
      BY <1>1, <2>2 DEF PhaseLength, SpellsAssumption
    <2>3. CASE act.phase \notin {"before", "during"}
      BY <1>1, <2>3 DEF PhaseLength, SpellsAssumption
    <2> QED
      BY <2>1, <2>2, <2>3
  <1>3. act.at - PhaseLength(act) \in Nat
    BY <1>1, <1>2 DEF Crossed
  <1> QED
    BY <1>1, <1>3 DEF Into

\* An action goes on, or is broken off and comes due no more on this tick.
LEMMA CarryOnKeeps ==
    ASSUME SpellsAssumption, BoundsAssumption, ActInv, CarryOn
    PROVE  ActInv'
  <1>1. /\ Body /\ Counts /\ Line(waiting) /\ Line(queue) /\ Apart /\ alive
        /\ UNCHANGED <<pending, immediate, current, waiting, queue, control, alive,
                       scroll, gain, issued, fell, falls, taken, refused>>
    BY Parts DEF CarryOn, histVars, Acts
  <1>2. Line(waiting)' /\ Line(queue)' /\ Apart'
    BY <1>1, LinesStay
  <1>3. Counts'
    BY <1>1 DEF Counts
  <1>4. CASE live' = live \ ToldOf(act) /\ act' = Ready /\ pc' = "release"
    <2>1. Body'
      BY <1>1, <1>4, BodyReadied DEF Body
    <2> QED
      BY <1>1, <1>2, <1>3, <1>4, <2>1, Whole DEF Places
  <1>5. CASE /\ ~Breaks(act) /\ pc' = "due" /\ UNCHANGED live
             /\ act' = IF act.what = None THEN act
                       ELSE [act EXCEPT !.at = @ + IF act.what = Swing THEN 1 ELSE gain]
    <2>1. act \in [what : Spells \cup {Swing, None}, phase : Phases \cup {None}, at : Nat]
          /\ gain \in {0, 1}
      BY <1>1 DEF Body, Counts
    <2>2. /\ act' \in [what : Spells \cup {Swing, None}, phase : Phases \cup {None}, at : Nat]
          /\ act'.what = act.what /\ act'.phase = act.phase
      BY <1>5, <2>1
    <2>3. Body'
      BY <1>1, <1>5, <2>2 DEF Body, Told
    <2>4. CastPhase' = "before" => ~Held' /\ (act'.what \in Abilities => control' = "free")
      <3>1. CastPhase' = CastPhase /\ Held' = Held
        BY <1>1, <2>2 DEF CastPhase, Held
      <3>2. CastPhase = "before" => act.what \in Spells /\ act.phase = "before"
        BY DEF CastPhase, None
      <3>3. CastPhase = "before" => ~Held /\ (act.what \in Abilities => control # "silenced")
        BY <1>5, <3>2 DEF Breaks
      <3> QED
        BY <1>1, <2>2, <3>1, <3>3 DEF Held, Counts
    <2> QED
      BY <1>1, <1>2, <1>3, <1>5, <2>3, <2>4, WholeDue DEF Places
  <1> QED
    BY <1>4, <1>5 DEF CarryOn

\* What comes due, as far as it touches the body.
LEMMA DueBody ==
    ASSUME SpellsAssumption, Body, UNCHANGED <<pending, immediate>>,
           SwingDue \/ CastBegins \/ CastCompletes \/ CastReadies \/ SwingBegins
    PROVE  Body' /\ CastPhase' # "before"
  <1> DEFINE A == [what : Spells \cup {Swing, None}, phase : Phases \cup {None}, at : Nat]
             Typed(a) == /\ a \in A /\ (a.what = None <=> a.phase = None)
                         /\ a.what = Swing => a.phase # "during"
  <1>1. /\ Typed(act) /\ live \subseteq Spells /\ Told
        /\ pending' \in Spells \cup {None} /\ immediate' \in Immediate \cup {None}
        /\ current \in {"idle", "stand", "hold", "move", "there", "attack"}
    BY DEF Body
  <1>2. current' \in {"idle", "stand", "hold", "move", "there", "attack"}
    BY <1>1 DEF SwingDue, CastBegins, CastCompletes, CastReadies, SwingBegins
  <1>3. Swing \notin Spells /\ None \notin Spells /\ None # Swing /\ None \notin Phases
        /\ Scroll \in Spells /\ Scroll \notin Abilities
    BY DEF SpellsAssumption, Swing, None, Spells, Phases
  <1>4. Typed(Ready) /\ Ready.what = None /\ Ready.phase = None
    BY <1>3 DEF Ready
  <1>6. ASSUME Typed(act'), act'.phase # "before" \/ act'.what = Swing, live' \subseteq Spells, Told'
        PROVE  Body' /\ CastPhase' # "before"
    <2>1. CastPhase' # "before"
      BY <1>3, <1>6 DEF CastPhase, None
    <2>2. Body'
      BY <1>1, <1>2, <1>6 DEF Body
    <2> QED
      BY <2>1, <2>2
  <1>7. \A phase \in Phases : Crossed(act) /\ act.what # None =>
           Into(phase) \in A /\ Into(phase).what = act.what /\ Into(phase).phase = phase
    BY IntoTyped
  <1> HIDE DEF A
  <1>8. ASSUME live' = {} \/ (live' \subseteq {Scroll} /\ Sells) PROVE Told'
    BY <1>3, <1>8 DEF Told
  <1>9. (act.phase # "during") => live = {} \/ (live \subseteq {Scroll} /\ Sells)
    BY <1>1 DEF Told, Spells
  <1>10. CASE SwingDue
    <2>1. act.what = Swing /\ live' = live /\ act.phase # "during"
          /\ ((act' = Into("after") /\ Crossed(act)) \/ act' = Ready)
      BY <1>1, <1>10 DEF SwingDue
    <2>2. Told'
      BY <1>8, <1>9, <2>1
    <2>3. Typed(act') /\ act'.phase # "before"
      BY <1>3, <1>4, <1>7, <2>1 DEF Phases, None
    <2> QED
      BY <1>1, <1>6, <2>1, <2>2, <2>3
  <1>11. CASE CastBegins
    <2>1. act.what \in Spells /\ act.phase = "before" /\ HasDef(act.what) /\ Crossed(act)
          /\ scroll' = scroll
      BY <1>11 DEF CastBegins, CastPhase, None
    <2>2. CASE act' = Into("during") /\ live' = live \cup {act.what}
      <3>1. Typed(act') /\ act'.what = act.what /\ act'.phase = "during"
        BY <1>3, <1>7, <2>1, <2>2 DEF Phases, None
      <3>2. Told'
        BY <1>9, <1>3, <2>1, <2>2, <3>1 DEF Told, HasDef
      <3> QED
        BY <1>1, <1>6, <2>1, <2>2, <3>1, <3>2
    <2>3. CASE (act' = Into("after") \/ act' = Ready) /\ live' = live
      <3>1. Typed(act') /\ act'.phase # "before"
        BY <1>3, <1>4, <1>7, <2>1, <2>3 DEF Phases, None
      <3>2. Told'
        BY <1>8, <1>9, <2>1, <2>3
      <3> QED
        BY <1>1, <1>6, <2>3, <3>1, <3>2
    <2> QED
      BY <1>11, <2>2, <2>3 DEF CastBegins
  <1>12. CASE CastCompletes
    <2>1. /\ act.what \in Spells /\ act.phase = "during" /\ HasDef(act.what) /\ Crossed(act)
          /\ live' = live \ ToldOf(act) /\ act' = Into("after")
      BY <1>12 DEF CastCompletes, CastPhase, None
    <2>2. live' = live \ {act.what}
      BY <2>1 DEF ToldOf
    <2>3. live' = {} \/ (live' \subseteq {Scroll} /\ Sells)
      BY <1>1, <2>2 DEF Told, Spells
    <2>4. Typed(act') /\ act'.phase # "before"
      BY <1>3, <1>7, <2>1 DEF Phases, None
    <2> QED
      BY <1>1, <1>6, <1>8, <2>2, <2>3, <2>4
  <1>13. CASE CastReadies
    <2>1. /\ act' = Ready /\ live' = live
          /\ act.phase = "after" \/ (act.what = Scroll /\ ~scroll)
      BY <1>13 DEF CastReadies, CastPhase, None, HasDef
    <2>2. live' = {} \/ (live' \subseteq {Scroll} /\ Sells)
      BY <1>1, <1>3, <1>9, <2>1 DEF Told, Spells
    <2> QED
      BY <1>1, <1>4, <1>6, <1>8, <2>1, <2>2 DEF None
  <1>14. CASE SwingBegins
    <2>1. act = Ready /\ act' = [what |-> Swing, phase |-> "before", at |-> 0] /\ live' = live
      BY <1>14 DEF SwingBegins
    <2>2. Typed(act') /\ act'.what = Swing
      BY <1>3, <2>1 DEF A, Phases, None
    <2>3. Told'
      BY <1>4, <1>8, <1>9, <2>1 DEF None
    <2> QED
      BY <1>1, <1>6, <2>1, <2>2, <2>3
  <1> QED
    BY <1>10, <1>11, <1>12, <1>13, <1>14

LEMMA ComeDueKeeps ==
    ASSUME SpellsAssumption, BoundsAssumption, ActInv, ComeDue
    PROVE  ActInv'
  <1>1. /\ Body /\ Counts /\ Line(waiting) /\ Line(queue) /\ Apart /\ alive /\ pc = "due"
        /\ UNCHANGED <<pending, immediate, waiting, queue, control, alive, gain,
                       issued, fell, falls, taken, refused>>
    BY Parts DEF ComeDue, histVars, Acts
  <1>2. Line(waiting)' /\ Line(queue)' /\ Apart'
    BY <1>1, LinesStay
  <1>3. CASE (SwingDue \/ CastBegins \/ CastCompletes \/ CastReadies \/ SwingBegins) /\ UNCHANGED pc
    <2>1. Body' /\ CastPhase' # "before"
      BY <1>1, <1>3, DueBody
    <2>3. scroll' \in BOOLEAN
      BY <1>1, <1>3 DEF Counts, SwingDue, CastBegins, CastCompletes, CastReadies, SwingBegins
    <2>4. Counts'
      BY <1>1, <2>3 DEF Counts
    <2> QED
      BY <1>1, <1>2, <1>3, <2>1, <2>4, WholeDue DEF Places
  <1>4. CASE ~IsDue /\ pc' = "release" /\ UNCHANGED <<act, live, scroll, current>>
    <2>1. Body' /\ Counts'
      BY <1>1, <1>4, BodyStays DEF Counts
    <2> QED
      BY <1>1, <1>2, <1>4, <2>1, Whole DEF Places
  <1> QED
    BY <1>3, <1>4 DEF ComeDue

\* The hero falls, or stands on.
LEMMA DamageKeeps ==
    ASSUME SpellsAssumption, BoundsAssumption, ActInv, Damage
    PROVE  ActInv'
  <1>1. /\ Body /\ Counts /\ Line(waiting) /\ Line(queue) /\ Apart /\ pc' = "orders"
        /\ UNCHANGED <<waiting, control, scroll, gain, issued, taken, refused>>
    BY Parts DEF Damage
  <1>2. CASE UNCHANGED <<bodyVars, alive, live, queue, fell, falls>>
    <2>1. UNCHANGED <<act, pending, immediate, current, alive, live, queue, fell, falls>>
      BY <1>2 DEF bodyVars
    <2>2. Body' /\ Counts'
      BY <1>1, <2>1, BodyStays DEF Counts
    <2>3. Line(waiting)' /\ Line(queue)' /\ Apart'
      BY <1>1, <2>1, LinesStay
    <2> QED
      BY <1>1, <2>2, <2>3, Whole DEF Places
  <1>3. CASE /\ falls < Deaths /\ falls' = falls + 1 /\ fell' = issued /\ alive' = FALSE
             /\ live' = live \ ToldOf(act) /\ act' = Ready
             /\ pending' = None /\ immediate' = None /\ current' = "idle" /\ queue' = <<>>
    <2>1. Body'
      BY <1>1, <1>3, BodyReadied
    <2>2. Counts'
      <3>1. falls \in 0..Deaths /\ issued \in 0..MaxOrders
        BY <1>1 DEF Counts
      <3>2. falls' \in 0..Deaths
        BY <1>3, <3>1 DEF BoundsAssumption
      <3> QED
        BY <1>1, <1>3, <3>1, <3>2 DEF Counts
    <2>3. Line(waiting)' /\ Line(queue)' /\ Apart'
      BY <1>1, <1>3, LineEmpty DEF Line, Apart
    <2> QED
      BY <1>1, <2>1, <2>2, <2>3, Whole DEF Places
  <1> QED
    BY <1>2, <1>3 DEF Damage

-----------------------------------------------------------------------------
(* The invariant, and what it says of channels. *)

LEMMA InitActs ==
    ASSUME SpellsAssumption, BoundsAssumption, Init
    PROVE  ActInv
  <1>1. /\ act \in [what : Spells \cup {Swing, None}, phase : Phases \cup {None}, at : Nat]
        /\ act.what = None /\ act.phase = None /\ None # Swing
    BY DEF Init, Ready, None, Swing
  <1>2. Line(waiting) /\ Line(queue) /\ Len(waiting) = 0 /\ Len(queue) = 0
    BY LineEmpty DEF Init
  <1>3. Apart
    BY <1>2 DEF Apart
  <1>4. Acts /\ Told
    BY <1>1 DEF Init, Acts, Told, CastPhase
  <1>5. DOMAIN waiting = {} /\ DOMAIN queue = {}
    BY DEF Init
  <1>6. /\ 0 <= MaxQueued /\ 0 \in 0..MaxOrders /\ 0 \in 0..Deaths
    BY DEF BoundsAssumption
  <1>7. TypeOK
    BY <1>1, <1>2, <1>5, <1>6 DEF Init, TypeOK
  <1> QED
    BY <1>2, <1>3, <1>4, <1>7 DEF ActInv

LEMMA ActStep ==
    ASSUME SpellsAssumption, BoundsAssumption, ActInv, [Next]_vars
    PROVE  ActInv'
  <1>1. ASSUME NEW kind \in Kinds, NEW queued \in BOOLEAN, Give(kind, queued)
        PROVE  ActInv'
    BY <1>1, GiveKeeps
  <1>2. CASE UNCHANGED vars
    <2>1. UNCHANGED <<pc, act, pending, immediate, current, waiting, queue, control, alive,
                      scroll, live, gain, issued, taken, refused, fell, falls>>
      BY <1>2 DEF vars
    <2>2. Body' /\ Counts'
      BY <2>1, Parts, BodyStays DEF Counts
    <2>3. Line(waiting)' /\ Line(queue)' /\ Apart'
      BY <2>1, Parts, LinesStay
    <2>4. pc' \in Places /\ Acts'
      BY <2>1, Parts DEF Acts, CastPhase, Held
    <2> QED
      BY <2>2, <2>3, <2>4, WholeDue DEF Acts
  <1> QED
    BY <1>1, <1>2, TakeUpKeeps, ReleaseKeeps, OthersKeep, CallOffKeeps, CarryOnKeeps, ComeDueKeeps,
       DamageKeeps
    DEF Next, Tick

\* The state of a body stays well formed, whatever it is ordered and whatever
\* comes over it (match_world.rs, actions.rs, queue.rs).
THEOREM BodyInvariant ==
    ASSUME SpellsAssumption, BoundsAssumption
    PROVE  Spec => []ActInv
  <1>1. Init => ActInv
    BY InitActs
  <1>2. ActInv /\ [Next]_vars => ActInv'
    BY ActStep
  <1> QED
    BY <1>1, <1>2, PTL DEF Spec

\* Where nobody sells the scroll, every channel that was set going is told of its
\* end on the step that ends it (actions.rs, call_cancel and call_complete).
THEOREM ChannelsAreTold ==
    ASSUME SpellsAssumption, BoundsAssumption, ~Sells
    PROVE  Spec => []ChannelsTold
  <1>1. ActInv => ChannelsTold
    BY DEF ActInv, TypeOK, Told, ChannelsTold, Spells
  <1> QED
    BY <1>1, BodyInvariant, PTL

AbilitiesTold == \A s \in live \cap Abilities : act.what = s /\ act.phase = "during"

\* And whatever is sold, the channel of every ability is (actions.rs).
THEOREM AbilitiesAreTold ==
    ASSUME SpellsAssumption, BoundsAssumption
    PROVE  Spec => []AbilitiesTold
  <1>1. ActInv => AbilitiesTold
    BY DEF ActInv, Told, AbilitiesTold
  <1> QED
    BY <1>1, BodyInvariant, PTL

-----------------------------------------------------------------------------
(* What holds of the steps. *)

LEMMA CarryLive ==
    ASSUME NEW o, NEW w, NEW rest, carry_out(o, w, rest)
    PROVE  live' \subseteq live
  <1>1. CASE IsImmediate(o)
    BY <1>1 DEF carry_out
  <1>2. CASE ~IsImmediate(o) /\ is_channelling /\ o.kind \in Ignores
    BY <1>2 DEF carry_out, WaitsForCast, is_casting, is_channelling
  <1>3. CASE ~IsImmediate(o) /\ is_channelling /\ o.kind \in Keeps \ Ignores
    BY <1>3 DEF carry_out
  <1>4. CASE ~IsImmediate(o) /\ WaitsForCast(o)
    BY <1>4 DEF carry_out, WaitsForCast, is_casting, is_channelling
  <1>5. CASE /\ ~IsImmediate(o) /\ ~WaitsForCast(o)
             /\ ~(is_channelling /\ o.kind \in Ignores)
             /\ ~(is_channelling /\ o.kind \in Keeps \ Ignores)
    BY <1>5 DEF carry_out
  <1> QED
    BY <1>1, <1>2, <1>3, <1>4, <1>5

\* A channel begins only as a cast point comes due.
LEMMA LiveGrows ==
    ASSUME Next, NEW s \in live' \ live
    PROVE  ComeDue /\ CastBegins /\ s = act.what
  <1>1. ASSUME NEW kind \in Kinds, NEW queued \in BOOLEAN, Give(kind, queued)
        PROVE  live' \subseteq live
    BY <1>1, CarryLive DEF Give
  <1>2. CASE TakeUp
    BY <1>2, CarryLive DEF TakeUp
  <1>3. CASE ReleaseWaiting
    BY <1>3, CarryLive DEF ReleaseWaiting
  <1>4. CASE Deal \/ CallOffAims \/ Step \/ World \/ Respawn \/ TryImmediate \/ TryPending
               \/ CarryOn \/ Damage
    BY <1>4 DEF Deal, CallOffAims, Step, World, Respawn, TryImmediate, TryPending, CarryOn, Damage
  <1>5. CASE ComeDue
    BY <1>5 DEF ComeDue, SwingDue, CastBegins, CastCompletes, CastReadies, SwingBegins
  <1> QED
    BY <1>1, <1>2, <1>3, <1>4, <1>5 DEF Next, Tick

\* No cast that takes the body over goes off while its caster is held or lies dead,
\* and no ability while it is silenced (actions.rs, carry_cast_on).
THEOREM NothingGoesOffHeld ==
    ASSUME SpellsAssumption, BoundsAssumption
    PROVE  Spec => NeverWhileHeld
  <1> DEFINE Goes == \A s \in live' \ live :
                        alive /\ ~Held /\ (s \in Abilities => control = "free")
  <1>1. ActInv /\ [Next]_vars => [Goes]_vars
    <2> SUFFICES ASSUME ActInv, Next, NEW s \in live' \ live
                 PROVE  alive /\ ~Held /\ (s \in Abilities => control = "free")
      OBVIOUS
    <2>1. ComeDue /\ CastBegins /\ s = act.what
      BY LiveGrows
    <2>2. pc = "due" /\ CastPhase = "before"
      BY <2>1 DEF ComeDue, CastBegins
    <2> QED
      BY <2>1, <2>2 DEF ActInv, Acts
  <1> QED
    BY <1>1, BodyInvariant, PTL DEF Spec, NeverWhileHeld

LEMMA NumbersOf ==
    ASSUME NEW s, Line(s)
    PROVE  \A n : n \in Numbers(s) <=> \E i \in 1..Len(s) : s[i].seq = n
  BY DEF Line, Numbers

LEMMA FirstOrRest ==
    ASSUME BoundsAssumption, NEW s, Line(s), s # <<>>, NEW n \in Numbers(s)
    PROVE  n = Head(s).seq \/ n \in Numbers(Tail(s))
  <1>1. /\ Line(Tail(s)) /\ Len(Tail(s)) = Len(s) - 1 /\ Len(s) \in Nat \ {0}
        /\ Head(s) = s[1]
        /\ \A i \in 1..Len(Tail(s)) : i + 1 \in 1..Len(s) /\ Tail(s)[i] = s[i + 1]
    BY LineShrinks
  <1>2. PICK i \in 1..Len(s) : s[i].seq = n
    BY NumbersOf
  <1> DEFINE t == Tail(s)
  <1> HIDE DEF t
  <1>3. CASE i = 1
    BY <1>1, <1>2, <1>3
  <1>4. CASE i # 1
    <2>1. i - 1 \in 1..Len(t) /\ (i - 1) + 1 = i
      BY <1>1, <1>4 DEF t
    <2>2. t[i - 1].seq = n
      BY <1>1, <1>2, <2>1 DEF t
    <2> QED
      BY <1>1, <2>1, <2>2, NumbersOf DEF t
  <1> QED
    BY <1>3, <1>4

\* The first of a line was given before the others.
LEMMA FirstIsLeast ==
    ASSUME BoundsAssumption, NEW s, Line(s), s # <<>>, NEW n \in Numbers(s)
    PROVE  Head(s).seq <= n
  <1>1. Len(s) \in Nat \ {0} /\ Head(s) = s[1]
    BY LineShrinks
  <1>2. PICK i \in 1..Len(s) : s[i].seq = n
    BY NumbersOf
  <1>3. \A k \in 1..Len(s) : s[k].seq \in Nat
    BY OrderTyped DEF Line
  <1>4. 1 < i => s[1].seq < s[i].seq
    BY <1>1 DEF Line
  <1>5. s[1].seq <= s[i].seq
    BY <1>1, <1>3, <1>4
  <1> QED
    BY <1>1, <1>2, <1>5

\* The order taken up from the queue, and the one released, is carried out or
\* refused.
LEMMA TakeUpAnswers ==
    ASSUME BoundsAssumption, ActInv, TakeUp
    PROVE  /\ waiting = <<>> /\ queue # <<>> /\ queue' = Tail(queue)
           /\ Take(Head(queue)) \/ Refuse(Head(queue))
  <1> DEFINE o == Head(queue)
  <1>1. queue # <<>> /\ order_done /\ queue' = Tail(queue) /\ Line(queue)
    BY Parts DEF TakeUp
  <1>2. o \in Order
    BY <1>1, LineShrinks
  <1>3. waiting = <<>> /\ ~WaitsForCast(o)
    BY <1>1 DEF order_done, is_casting, CastPhase, None, WaitsForCast
  <1>4. carry_out(o, waiting, <<>>) \/ Refuse(o)
    BY DEF TakeUp, NextOf
  <1> HIDE DEF o
  <1>5. Take(o) \/ Refuse(o)
    BY <1>2, <1>3, <1>4, CarryLine
  <1> QED
    BY <1>1, <1>3, <1>5 DEF o

LEMMA ReleaseAnswers ==
    ASSUME BoundsAssumption, ActInv, ReleaseWaiting, Releases
    PROVE  /\ waiting # <<>> /\ waiting' = Tail(waiting)
           /\ Take(Head(waiting)) \/ Refuse(Head(waiting))
  <1> DEFINE o == Head(waiting)
             rest == Tail(waiting)
  <1>1. waiting # <<>> /\ Line(waiting)
    BY Parts DEF Releases
  <1>2. o \in Order
    BY <1>1, LineShrinks
  <1>3. ~WaitsForCast(o)
    BY DEF Releases, is_casting, WaitsForCast
  <1>4. carry_out(o, <<>>, rest) \/ (Refuse(o) /\ waiting' = rest)
    BY DEF ReleaseWaiting, Rest
  <1> HIDE DEF o, rest
  <1>5. (Take(o) \/ Refuse(o)) /\ waiting' = rest
    <2>1. CASE carry_out(o, <<>>, rest)
      <3>1. waiting' \in {rest, IF rest = <<>> THEN <<>> ELSE rest} /\ Take(o)
        BY <1>2, <1>3, <2>1, CarryLine
      <3> QED
        BY <3>1
    <2> QED
      BY <1>4, <2>1
  <1> QED
    BY <1>1, <1>5 DEF o, rest

\* The other steps of a tick move no order, unless the hero falls.
LEMMA OthersLeaveLines ==
    ASSUME Deal \/ Step \/ World \/ Respawn \/ TryImmediate \/ TryPending
             \/ CarryOn \/ ComeDue \/ Damage \/ (ReleaseWaiting /\ ~Releases)
    PROVE  /\ UNCHANGED <<waiting, taken, refused>>
           /\ UNCHANGED queue \/ ~alive'
  BY DEF Deal, Step, World, Respawn, TryImmediate, TryPending, CarryOn, ComeDue, Damage,
         ReleaseWaiting, histVars

\* Orders given: a queued one goes behind the queue or is refused; an immediate
\* one leaves both lines alone; any other clears the queue.
LEMMA GiveAnswers ==
    ASSUME BoundsAssumption, ActInv, NEW kind \in Kinds, NEW queued \in BOOLEAN,
           Give(kind, queued)
    PROVE  LET o == OrderOf(kind, issued + 1)
           IN  /\ o \in Order /\ o.kind = kind /\ o.seq = issued + 1
               /\ taken' \subseteq taken \cup {issued + 1}
               /\ \/ /\ waiting' = waiting /\ act' = act
                     /\ queue' = queue \/ queue' = Append(queue, o)
                  \/ /\ carry_out(o, waiting, <<>>)
                     /\ Give(kind, FALSE)
                     /\ queue' = IF IsImmediate(o) THEN queue ELSE <<>>
  <1> DEFINE o == OrderOf(kind, issued + 1)
  <1>1. issued \in 0..MaxOrders /\ issued < MaxOrders /\ MaxOrders \in Nat
    BY Parts DEF Give, Counts, BoundsAssumption
  <1>2. issued + 1 \in 1..MaxOrders
    BY <1>1
  <1>3. o \in Order /\ o.kind = kind /\ o.seq = issued + 1
    BY <1>2 DEF OrderOf, Order
  <1>4. CASE queued /\ (queue # <<>> \/ ~order_done)
    <2>1. waiting' = waiting /\ act' = act
          /\ \/ queue' = Append(queue, o) /\ taken' = taken
             \/ queue' = queue /\ Refuse(o)
      BY <1>4 DEF Give, bodyVars
    <2>2. taken' \subseteq taken \cup {issued + 1}
      BY <2>1 DEF Refuse
    <2> QED
      BY <1>3, <2>1, <2>2
  <1>5. CASE ~(queued /\ (queue # <<>> \/ ~order_done))
    <2>1. /\ queue' = (IF IsImmediate(o) THEN queue ELSE <<>>) /\ carry_out(o, waiting, <<>>)
      BY <1>5 DEF Give
    <2>2. Give(kind, FALSE)
      BY <1>5 DEF Give
    <2> HIDE DEF o
    <2>3. taken' \subseteq taken \cup {issued + 1}
      BY <1>3, <2>1, CarryLine DEF Take, Refuse
    <2> QED
      BY <1>3, <2>1, <2>2, <2>3 DEF o
  <1> QED
    BY <1>4, <1>5

\* Of the orders queued, and of the casts waiting, none is carried out before one
\* given earlier (queue.rs, take_up_queues; actions.rs, release_waiting).
THEOREM OrdersAreTakenInTurn ==
    ASSUME SpellsAssumption, BoundsAssumption
    PROVE  Spec => TakenInTurn
  <1> DEFINE InTurn == \A i \in taken' \ taken : \A q \in {queue, waiting} :
                          i \in Numbers(q) => \A j \in Numbers(q) : i <= j
  <1>1. ActInv /\ [Next]_vars => [InTurn]_vars
    <2> SUFFICES ASSUME ActInv, Next, NEW i \in taken' \ taken, NEW q \in {queue, waiting},
                        i \in Numbers(q), NEW j \in Numbers(q)
                 PROVE  i <= j
      OBVIOUS
    <2>1. Line(q) /\ Line(queue) /\ Line(waiting) /\ Apart /\ Counts
      BY Parts
    <2>2. ASSUME NEW kind \in Kinds, NEW queued \in BOOLEAN, Give(kind, queued)
          PROVE  FALSE
      <3>1. taken' \subseteq taken \cup {issued + 1}
        BY <2>2, GiveAnswers
      <3>2. i = issued + 1 /\ issued \in Nat
        BY <2>1, <3>1 DEF Counts
      <3>3. PICK k \in 1..Len(q) : q[k].seq = i
        BY <2>1, NumbersOf
      <3>4. q[k].seq <= issued
        BY <2>1, <3>3 DEF Line
      <3> QED
        BY <3>2, <3>3, <3>4
    <2>3. CASE TakeUp
      <3>1. waiting = <<>> /\ queue # <<>> /\ i = Head(queue).seq
        BY <2>3, TakeUpAnswers DEF Take, Refuse
      <3>2. Numbers(waiting) = {}
        BY <3>1 DEF Numbers
      <3>3. q = queue
        BY <3>2
      <3> QED
        BY <2>1, <3>1, <3>3, FirstIsLeast
    <2>4. CASE ReleaseWaiting /\ Releases
      <3>1. waiting # <<>> /\ i = Head(waiting).seq
        BY <2>4, ReleaseAnswers DEF Take, Refuse
      <3>2. Head(waiting) = waiting[1] /\ 1 \in 1..Len(waiting)
        BY <2>1, <3>1, LineShrinks
      <3>3. CASE q = waiting
        BY <2>1, <3>1, <3>3, FirstIsLeast
      <3>4. CASE q = queue
        <4>1. PICK k \in 1..Len(queue) : queue[k].seq = i
          BY <2>1, <3>4, NumbersOf
        <4> QED
          BY <2>1, <3>1, <3>2, <4>1 DEF Apart
      <3> QED
        BY <3>3, <3>4
    <2>5. ~CallOffAims
      BY DEF CallOffAims
    <2> QED
      BY <2>2, <2>3, <2>4, <2>5, OthersLeaveLines DEF Next, Tick
  <1> QED
    BY <1>1, BodyInvariant, PTL DEF Spec, TakenInTurn

\* An order other than a stop or a hold given in a cast point leaves the cast in
\* hand as it is (match_world.rs, carry_out).
THEOREM CastPointsAreKept ==
    ASSUME SpellsAssumption, BoundsAssumption
    PROVE  Spec => CastPointKept
  <1> DEFINE CastStays == \A kind \in Kinds \ {"stop", "hold"}, queued \in BOOLEAN :
                        is_casting /\ Give(kind, queued) => act' = act
  <1>1. ActInv /\ [Next]_vars => [CastStays]_vars
    <2> SUFFICES ASSUME ActInv, NEW kind \in Kinds \ {"stop", "hold"}, NEW queued \in BOOLEAN,
                        is_casting, Give(kind, queued)
                 PROVE  act' = act
      OBVIOUS
    <2> DEFINE o == OrderOf(kind, issued + 1)
    <2>1. o \in Order /\ o.kind = kind
          /\ (act' = act \/ carry_out(o, waiting, <<>>))
      BY GiveAnswers
    <2> HIDE DEF o
    <2>2. WaitsForCast(o)
      BY <2>1 DEF WaitsForCast, is_halt
    <2> QED
      BY <2>1, <2>2, CarryLine
  <1> QED
    BY <1>1, BodyInvariant, PTL DEF Spec, CastPointKept

\* Casts waiting are not forgotten for a cast given behind them.
LEMMA CastsStayWaiting ==
    ASSUME BoundsAssumption, Line(waiting), NEW o \in Order, is_cast(o),
           \A k \in DOMAIN waiting : is_cast(waiting[k]), NEW n \in Numbers(waiting)
    PROVE  n \in Numbers(WaitBehind(waiting, o))
  <1>1. WaitBehind(waiting, o) =
          IF Len(waiting) < MaxQueued THEN Append(waiting, o) ELSE waiting
    BY DEF WaitBehind
  <1>2. n \in Numbers(Append(waiting, o))
    <2>1. PICK i \in 1..Len(waiting) : waiting[i].seq = n
      BY NumbersOf
    <2>2. waiting \in Seq(Order)
      BY DEF Line
    <2>3. i \in DOMAIN Append(waiting, o) /\ Append(waiting, o)[i] = waiting[i]
      BY <2>2
    <2> QED
      BY <2>1, <2>3 DEF Numbers
  <1> QED
    BY <1>1, <1>2

\* An order that waits or is queued is carried out or refused, unless an order
\* given later takes its place, the hero falls or the unit the order names is
\* disguised or changes sides; a cast given in a cast point leaves the casts already
\* waiting be (match_world.rs, wait_for_cast; queue.rs, take_up_queues; actions.rs,
\* release_waiting; illusion.rs, call_off_aims).
THEOREM NoOrdersVanish ==
    ASSUME SpellsAssumption, BoundsAssumption
    PROVE  Spec => NoOrderVanishes
  <1> DEFINE Named(i) ==
                /\ CallOffAims
                /\ \E s \in {waiting, queue} : \E k \in DOMAIN s : s[k].seq = i /\ NamesMark(s[k])
             Gone(i) ==
                \E kind \in Kinds \ Immediate :
                   /\ Give(kind, FALSE)
                   /\ i \in Numbers(waiting) /\ kind \in Spells /\ is_casting
                         => \E k \in DOMAIN waiting : ~is_cast(waiting[k])
             Stay == \A i \in Numbers(waiting) \cup Numbers(queue) :
                \/ i \in taken' \cup refused' \cup Numbers(waiting') \cup Numbers(queue')
                \/ ~alive'
                \/ /\ CallOffAims
                   /\ \E s \in {waiting, queue} : \E k \in DOMAIN s : s[k].seq = i /\ NamesMark(s[k])
                \/ \E kind \in Kinds \ Immediate :
                      /\ Give(kind, FALSE)
                      /\ i \in Numbers(waiting) /\ kind \in Spells /\ is_casting
                            => \E k \in DOMAIN waiting : ~is_cast(waiting[k])
  <1>1. ActInv /\ [Next]_vars => [Stay]_vars
    <2> SUFFICES ASSUME ActInv, Next, NEW i \in Numbers(waiting) \cup Numbers(queue),
                        i \notin taken' \cup refused' \cup Numbers(waiting') \cup Numbers(queue'),
                        alive'
                 PROVE  Named(i) \/ Gone(i)
      OBVIOUS
    <2>1. Line(queue) /\ Line(waiting)
      BY Parts
    <2>2. ASSUME NEW kind \in Kinds, NEW queued \in BOOLEAN, Give(kind, queued)
          PROVE  Gone(i)
      <3> DEFINE o == OrderOf(kind, issued + 1)
      <3>1. o \in Order /\ o.kind = kind /\ o.seq = issued + 1
        BY <2>2, GiveAnswers
      <3>2. ~(/\ waiting' = waiting /\ act' = act
              /\ queue' = queue \/ queue' = Append(queue, o))
        <4> SUFFICES ASSUME waiting' = waiting, queue' = queue \/ queue' = Append(queue, o)
                     PROVE  FALSE
          OBVIOUS
        <4>1. i \in Numbers(queue)
          OBVIOUS
        <4>2. PICK k \in 1..Len(queue) : queue[k].seq = i
          BY <2>1, <4>1, NumbersOf
        <4>3. queue \in Seq(Order)
          BY <2>1 DEF Line
        <4> HIDE DEF o
        <4>4. k \in DOMAIN Append(queue, o) /\ Append(queue, o)[k] = queue[k]
          BY <3>1, <4>3
        <4>5. i \in Numbers(Append(queue, o))
          BY <4>2, <4>4 DEF Numbers
        <4> QED
          BY <4>1, <4>5
      <3>3. carry_out(o, waiting, <<>>) /\ Give(kind, FALSE)
            /\ queue' = (IF IsImmediate(o) THEN queue ELSE <<>>)
        BY <2>2, <3>2, GiveAnswers
      <3> HIDE DEF o
      <3>4. ~IsImmediate(o)
        BY <3>1, <3>3, CarryLine
      <3>5. kind \notin Immediate
        BY <3>1, <3>4 DEF IsImmediate
      <3>6. ASSUME i \in Numbers(waiting), kind \in Spells, is_casting,
                   \A k \in DOMAIN waiting : is_cast(waiting[k])
            PROVE  FALSE
        <4>1. is_cast(o)
          BY <3>1, <3>6 DEF is_cast
        <4>2. i \in Numbers(WaitBehind(waiting, o))
          BY <2>1, <3>1, <3>6, <4>1, CastsStayWaiting
        <4>3. CASE WaitsForCast(o)
          BY <3>1, <3>3, <3>4, <4>2, <4>3, CarryLine
        <4>4. CASE ~WaitsForCast(o)
          <5>1. is_halt(o)
            BY <3>6, <4>4 DEF WaitsForCast
          <5> QED
            BY <3>1, <3>6, <5>1 DEF is_halt, SpellsAssumption
        <4> QED
          BY <4>3, <4>4
      <3> QED
        BY <3>3, <3>5, <3>6
    <2>3. ~TakeUp
      <3> SUFFICES ASSUME TakeUp PROVE FALSE
        OBVIOUS
      <3>1. /\ waiting = <<>> /\ queue # <<>> /\ queue' = Tail(queue)
            /\ Head(queue).seq \in taken' \cup refused'
        BY TakeUpAnswers DEF Take, Refuse
      <3>2. i \in Numbers(queue)
        BY <3>1 DEF Numbers
      <3>3. i = Head(queue).seq \/ i \in Numbers(Tail(queue))
        BY <2>1, <3>1, <3>2, FirstOrRest
      <3> QED
        BY <3>1, <3>3
    <2>4. ~(ReleaseWaiting /\ Releases)
      <3> SUFFICES ASSUME ReleaseWaiting, Releases PROVE FALSE
        OBVIOUS
      <3>1. /\ waiting # <<>> /\ waiting' = Tail(waiting) /\ queue' = queue
            /\ Head(waiting).seq \in taken' \cup refused'
        BY ReleaseAnswers DEF Take, Refuse, ReleaseWaiting
      <3>2. i \in Numbers(waiting)
        BY <3>1
      <3>3. i = Head(waiting).seq \/ i \in Numbers(Tail(waiting))
        BY <2>1, <3>1, <3>2, FirstOrRest
      <3> QED
        BY <3>1, <3>3
    <2>5. ASSUME UNCHANGED waiting, UNCHANGED queue
          PROVE  FALSE
      BY <2>5
    <2>6. CASE CallOffAims
      <3> SUFFICES ASSUME NEW s \in {waiting, queue}, i \in Numbers(s)
                   PROVE  \E k \in DOMAIN s : s[k].seq = i /\ NamesMark(s[k])
        BY <2>6
      <3>1. /\ Line(s) /\ s \in Seq(Order) /\ DOMAIN s = 1..Len(s)
        BY <2>1 DEF Line
      <3>2. PICK k \in 1..Len(s) : s[k].seq = i
        BY <3>1, NumbersOf
      <3>3. PICK v \in Spared(s) : v \in {waiting', queue'}
        BY <2>6 DEF CallOffAims
      <3>4. ~NamesMark(s[k]) => \E l \in 1..Len(v) : v[l] = s[k]
        BY <3>1, <3>3, SparedLine
      <3>5. Line(v) /\ (i \in Numbers(v) => FALSE)
        BY <3>1, <3>3, SparedLine
      <3>6. ASSUME NEW l \in 1..Len(v), v[l] = s[k]
            PROVE  FALSE
        BY <3>2, <3>5, <3>6, NumbersOf
      <3> QED
        BY <3>1, <3>2, <3>4, <3>6
    <2> QED
      BY <2>2, <2>3, <2>4, <2>5, <2>6, OthersLeaveLines DEF Next, Tick
  <1> QED
    BY <1>1, BodyInvariant, PTL DEF Spec, NoOrderVanishes

\* An order is obeyed at the right time and in its turn, or answered
\* (match_world.rs, actions.rs, queue.rs).
THEOREM OrdersAreKept ==
    ASSUME SpellsAssumption, BoundsAssumption
    PROVE  Spec => OrdersKept
  BY NothingGoesOffHeld, NoOrdersVanish, OrdersAreTakenInTurn, CastPointsAreKept, PTL DEF OrdersKept

=============================================================================
