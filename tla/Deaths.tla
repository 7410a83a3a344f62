------------------------------- MODULE Deaths -------------------------------
(***************************************************************************)
(* Falls, and what they pay and cost (bota_server/src/game:                *)
(* systems/fight.rs, systems/econ.rs, systems/reincarnation.rs, seat.rs):  *)
(* who is credited with a hero's fall, First Blood, streaks, assists, gold *)
(* lost and earned, respawns, and when a match is decided.                 *)
(*                                                                         *)
(* A tick's blows land in an order drawn afresh; the fatal ones make up a  *)
(* batch of falls, buried one after another.  Amounts are small numbers;   *)
(* who stands near a fall is any subset of the living.                     *)
(***************************************************************************)
EXTENDS Integers, Sequences, FiniteSets

CONSTANTS
    Radiant, Dire,      \* the seats of each side
    Creeps,             \* lane creeps and towers that may strike the last blow
    CreepSide,          \* the side of each
    Window,             \* KILL_CREDIT_WINDOW_TICKS
    LossShare,          \* rules::DEATH_GOLD_LOSS_SHARE
    StartGold,          \* Seat::new
    Wait, AegisDelay,   \* respawn_wait, and the Aegis's
    DeathLimit,         \* MapDef::death_limit; 0 for none
    Map2,               \* whether the map is MAP2_ID, whose ties are draws
    Aegis,              \* seats that start with an item of reincarnation
    Reused,             \* whether a fallen creep's slot is taken again
    LastTick,           \* bound: ticks of the match
    MaxHand,            \* bound: gold up to which sales and the set-up add to it
    MaxBlows, MaxFalls  \* bounds: blows that are not fatal, and falls, in all

Seats == Radiant \cup Dire
Side(s) == IF s \in Radiant THEN "radiant" ELSE "dire"
Other(side) == CASE side = "radiant" -> "dire" [] side = "dire" -> "radiant" [] OTHER -> side
Sides == {"radiant", "dire"}
SeatsOf(side) == {s \in Seats : Side(s) = side}
Tower == [side \in Sides |-> <<side>>]
Camp == "camp"     \* a neutral camp, which pays and is credited as nobody is
Nobody == "nobody"
Never == 0

SeatsAssumption ==
    /\ IsFiniteSet(Seats) /\ Radiant \cap Dire = {}
    /\ Seats \cap Creeps = {} /\ Nobody \notin Seats /\ Camp \notin Seats \cup Creeps
    /\ CreepSide \in [Creeps -> Sides]
    /\ Aegis \subseteq Seats

NumbersAssumption ==
    /\ Window \in Nat /\ LossShare \in Nat \ {0} /\ StartGold \in Nat
    /\ Wait \in Nat \ {0} /\ AegisDelay \in Nat \ {0}
    /\ DeathLimit \in Nat /\ LastTick \in Nat /\ MaxBlows \in Nat /\ MaxFalls \in Nat /\ MaxHand \in Nat
    /\ Map2 \in BOOLEAN /\ Reused \in BOOLEAN

VARIABLES
    stage,    \* "tick", "blows" or "bury"
    tick,     \* World::tick
    gold,     \* Seat::gold
    worth,    \* Seat::net_worth
    kills, deaths, streak, assists,   \* the same fields of Seat
    hurt_by,  \* Seat::hurt_by: when a seat last hurt another, and damaged it
    down,     \* Seat::respawn_left
    back,     \* Seat::reincarnating_at: the fall is a reincarnation
    aegis,    \* seats whose hero carries the item
    known,    \* creeps whose row of World::team still answers
    towers,   \* sides whose tower stands
    claimed,  \* World::first_blood_claimed
    winner,   \* World::winner; "neutral" is a draw
    lost,     \* bury's tower_losses of this batch
    batch,    \* the falls to bury, in their order
    bloods,   \* history: how often First Blood was paid
    rose,     \* history: the tick each hero last stood up
    blows, felled,   \* history: blows that were not fatal, and falls, so far
    owed      \* history: whom the last fall should have been credited to

score == <<kills, deaths, streak, assists>>
history == <<bloods, rose, blows, felled, owed>>
deathsVars == <<stage, tick, gold, worth, score, hurt_by, down, back, aegis, known,
                towers, claimed, winner, lost, batch, history>>

Hurt == [at : 0 .. LastTick, damage_at : 0 .. LastTick]

DeathsTypeOK ==
    /\ stage \in {"tick", "blows", "bury"}
    /\ tick \in 0 .. LastTick
    /\ gold \in [Seats -> Int] /\ worth \in [Seats -> Int]
    /\ kills \in [Seats -> Nat] /\ deaths \in [Seats -> Nat]
    /\ streak \in [Seats -> Nat] /\ assists \in [Seats -> Nat]
    /\ hurt_by \in [Seats -> [Seats -> Hurt]]
    /\ down \in [Seats -> Nat] /\ back \in [Seats -> BOOLEAN]
    /\ aegis \subseteq Seats /\ known \subseteq Creeps /\ towers \subseteq Sides
    /\ claimed \in BOOLEAN
    /\ winner \in Sides \cup {"none", "neutral"}
    /\ lost \subseteq Sides

Unhurt == [by \in Seats |-> [at |-> Never, damage_at |-> Never]]

DeathsInit ==
    /\ stage = "tick" /\ tick = 0
    /\ gold = [s \in Seats |-> StartGold]
    /\ worth = gold
    /\ kills = [s \in Seats |-> 0] /\ deaths = kills /\ streak = kills /\ assists = kills
    /\ hurt_by = [s \in Seats |-> Unhurt]
    /\ down = [s \in Seats |-> 0]
    /\ back = [s \in Seats |-> FALSE]
    /\ aegis = Aegis /\ known = Creeps /\ towers = Sides
    /\ claimed = FALSE
    /\ winner = "none"
    /\ lost = {} /\ batch = <<>>
    /\ bloods = 0 /\ blows = 0 /\ felled = 0
    /\ rose = [s \in Seats |-> 0]
    /\ owed = Nobody

Stands(s) == down[s] = 0

-----------------------------------------------------------------------------
(* The tick up to its blows. *)

\* tick_respawns: a hero whose wait is over stands up, where it fell or at its
\* fountain.
NewTick ==
    /\ stage = "tick" /\ tick < LastTick /\ winner = "none"
    /\ stage' = "blows"
    /\ tick' = tick + 1
    /\ down' = [s \in Seats |-> IF Stands(s) THEN 0 ELSE down[s] - 1]
    /\ rose' = [s \in Seats |-> IF down[s] = 1 THEN tick + 1 ELSE rose[s]]
    /\ back' = [s \in Seats |-> back[s] /\ down[s] # 1]
    /\ lost' = {}
    /\ UNCHANGED <<gold, worth, score, hurt_by, aegis, known, towers, claimed,
                   winner, batch, bloods, blows, felled, owed>>

\* Gold that moves with the net worth left as it is: spent on a purchase or paid for a
\* sale, given or taken by the match's set-up (economy_events_due: never below nothing).
Trade(s) ==
    /\ stage = "tick"
    /\ \/ gold[s] > 0 /\ gold' = [gold EXCEPT ![s] = @ - 1]
       \/ gold[s] < MaxHand /\ gold' = [gold EXCEPT ![s] = @ + 1]
    /\ UNCHANGED <<stage, tick, worth, score, hurt_by, down, back, aegis, known, towers,
                   claimed, winner, lost, batch, history>>

\* A fallen creep's slot is given to a new entity: its rows answer no more, while
\* a missile of its may still be in the air.
Reuse(c) ==
    /\ Reused /\ stage = "tick" /\ c \in known
    /\ known' = known \ {c}
    /\ UNCHANGED <<stage, tick, gold, worth, score, hurt_by, down, back, aegis,
                   towers, claimed, winner, lost, batch, history>>

\* note_hurt_by and note_damage_by.
Noted(h, damage) ==
    [at |-> tick, damage_at |-> IF damage THEN tick ELSE h.damage_at]

\* note_hero_contribution of a blow that is not fatal, or of a debuff.
Blow(by, hurt, damage) ==
    /\ stage = "blows" /\ Side(by) # Side(hurt) /\ Stands(hurt) /\ batch = <<>>
    /\ blows < MaxBlows
    /\ blows' = blows + 1
    /\ hurt_by' = [hurt_by EXCEPT ![hurt][by] = Noted(@, damage)]
    /\ UNCHANGED <<stage, tick, gold, worth, score, down, back, aegis, known,
                   towers, claimed, winner, lost, batch, bloods, rose, felled, owed>>

Entities == Seats \cup {Tower[side] : side \in Sides}
IsUp(e) == IF e \in Seats THEN Stands(e) ELSE \E side \in towers : Tower[side] = e

\* A fatal blow: felt once, and noted as the others are.
Fatal(e, killer) ==
    /\ stage = "blows" /\ IsUp(e) /\ Len(batch) < 2
    /\ felled + Len(batch) < MaxFalls
    /\ \A i \in DOMAIN batch : batch[i].fallen # e
    /\ batch' = Append(batch, [fallen |-> e, killer |-> killer])
    /\ hurt_by' = IF e \in Seats /\ killer \in Seats /\ Side(killer) # Side(e)
                  THEN [hurt_by EXCEPT ![e][killer] = Noted(@, TRUE)] ELSE hurt_by
    /\ UNCHANGED <<stage, tick, gold, worth, score, down, back, aegis, known,
                   towers, claimed, winner, lost, history>>

ToBury ==
    /\ stage = "blows"
    /\ stage' = "bury"
    /\ UNCHANGED <<tick, gold, worth, score, hurt_by, down, back, aegis, known,
                   towers, claimed, winner, lost, batch, history>>

-----------------------------------------------------------------------------
(* Who is credited and paid. *)

\* World::team of a killer, absent for one whose slot was taken again.
TeamOf(k) ==
    CASE k \in Seats -> Side(k)
      [] k \in known -> CreepSide[k]
      [] k = Camp -> "neutral"
      [] OTHER -> "none"

Within(at) == at # Never /\ tick - at <= Window

\* Seat::assisted_by, and the seats whose damage counts for a kill.
assisted_by(v, but) == {by \in Seats \ {but} : Within(hurt_by[v][by].at)}
Damagers(v) == {by \in Seats : Within(hurt_by[v][by].damage_at)}

NoCredit == [credited |-> Nobody, earners |-> {}, kill |-> FALSE, any |-> FALSE]

\* hero_credit: a hero's own blow; a creep's or a tower's after the damage of one
\* hero, of several, or of none.
hero_credit(v, k) ==
    LET side == Other(Side(v)) IN
    CASE TeamOf(k) # side -> NoCredit
      [] TeamOf(k) = side /\ k \in Seats ->
           [credited |-> k, earners |-> {k}, kill |-> TRUE, any |-> TRUE]
      [] TeamOf(k) = side /\ k \notin Seats /\ Cardinality(Damagers(v)) = 1 ->
           LET s == CHOOSE d \in Damagers(v) : TRUE
           IN  [credited |-> s, earners |-> {s}, kill |-> TRUE, any |-> TRUE]
      [] TeamOf(k) = side /\ k \notin Seats /\ Cardinality(Damagers(v)) > 1 ->
           [credited |-> Nobody, earners |-> assisted_by(v, Nobody) \cap SeatsOf(side),
            kill |-> TRUE, any |-> TRUE]
      [] OTHER ->
           [credited |-> Nobody, earners |-> SeatsOf(side), kill |-> FALSE, any |-> TRUE]

FirstBlood(credit) == credit.kill /\ ~claimed /\ \A s \in Seats : kills[s] = 0

\* hero_bounty: a price, more for the streak it ends and for First Blood.
hero_bounty(v, credit) ==
    1 + (IF credit.kill THEN streak[v] ELSE 0) + (IF FirstBlood(credit) THEN 1 ELSE 0)

\* price_of_fall: what its fall costs a seat, never more than it holds.
DeathLoss(v) == LET share == worth[v] \div LossShare
                IN  IF share > gold[v] THEN gold[v] ELSE share

AssistGold == 1

Paid(s, earners, amount) == IF s \in earners THEN amount ELSE 0

\* Mutant: a reincarnated hero's rule for every hero.
MutLedger(v) == hurt_by

\* credit_assists spends the ledger of the fallen.
Ledger(v) == [hurt_by EXCEPT ![v] = Unhurt]

\* Whose kill it is.
Scores(s, credit, striker, denied) == s = credit.credited /\ ~denied

\* bury_entity of a hero, in full: credit, price, bounty, assist gold, assists,
\* the seat's death, the kill.
BuryHero(v, k, near) ==
    LET credit  == hero_credit(v, k)
        striker == IF credit.credited # Nobody THEN credit.credited
                   ELSE IF k \in Seats THEN k ELSE Nobody
        denied  == TeamOf(k) = Side(v)
        bounty  == hero_bounty(v, credit)
        alone   == IF striker # Nobody /\ ~denied THEN {striker} ELSE {}
        sharers == IF striker = Nobody THEN credit.earners ELSE {}
        share   == IF sharers = {} THEN 0 ELSE bounty \div Cardinality(sharers)
        helped  == IF credit.any THEN near \cup assisted_by(v, Nobody) \cup alone
                   ELSE {}
        income(s) == Paid(s, alone, bounty) + Paid(s, sharers, share) + Paid(s, helped, AssistGold)
        cost(s)   == IF s = v THEN DeathLoss(v) ELSE 0
        killer  == IF credit.credited # Nobody THEN credit.credited ELSE k
    IN
    /\ gold' = [s \in Seats |-> gold[s] - cost(s) + income(s)]
    /\ worth' = [s \in Seats |-> worth[s] - cost(s) + income(s)]
    /\ claimed' = (claimed \/ credit.kill)
    /\ bloods' = bloods + IF FirstBlood(credit) THEN 1 ELSE 0
    /\ streak' = [s \in Seats |-> (IF s = v /\ credit.kill THEN 0 ELSE streak[s])
                                    + (IF s \in alone THEN 1 ELSE 0)]
    /\ assists' = [s \in Seats |-> assists[s]
                     + IF s \in assisted_by(v, killer) THEN 1 ELSE 0]
    /\ hurt_by' = Ledger(v)
    /\ deaths' = [deaths EXCEPT ![v] = @ + 1]
    /\ kills' = [s \in Seats |-> kills[s]
                   + IF Scores(s, credit, striker, denied) THEN 1 ELSE 0]
    /\ down' = [down EXCEPT ![v] = Wait]
    /\ UNCHANGED <<back, aegis, towers, lost>>

\* The sum of `count' over the seats of a side: as many pairs as it counts.
Tally(side, count) == UNION {{s} \X (1 .. count[s]) : s \in SeatsOf(side)}
DeathsOf(side, d) == Cardinality(Tally(side, d))
AtLimit(side, d) == DeathLimit > 0 /\ DeathsOf(side, d) >= DeathLimit

\* Mutant: each fall of a batch may decide the match over again.
MutDecided(side) == Other(side)

\* The winner once `side' has lost outside Map2, which waits for the whole batch.
Decided(side) == IF ~Map2 /\ winner = "none" THEN Other(side) ELSE winner

\* begin_reincarnation takes the item and lays the hero down, and nothing of the
\* fall is paid or counted.
Reincarnate(v) ==
    /\ v \in aegis
    /\ aegis' = aegis \ {v}
    /\ back' = [back EXCEPT ![v] = TRUE]
    /\ down' = [down EXCEPT ![v] = AegisDelay]
    /\ UNCHANGED <<gold, worth, score, hurt_by, towers, claimed, winner, lost, bloods, owed>>

\* seats_near: a hero that has fallen and is not buried yet is not there.
Bystanders(side) ==
    {s \in SeatsOf(side) : Stands(s) /\ \A i \in DOMAIN batch : batch[i].fallen # s}

\* bury of one fall of the batch: a hero, or a tower with its team bounty.
Bury ==
    /\ stage = "bury" /\ batch # <<>>
    /\ batch' = Tail(batch)
    /\ felled' = felled + 1
    /\ LET v == Head(batch).fallen
           k == Head(batch).killer
       IN  \/ v \in Seats /\ Reincarnate(v)
           \/ /\ v \in Seats \ aegis
              /\ \E near \in SUBSET Bystanders(Other(Side(v))) : BuryHero(v, k, near)
              /\ winner' = IF AtLimit(Side(v), deaths') THEN Decided(Side(v)) ELSE winner
              /\ owed' = LET struck == {s \in Seats : Within(hurt_by[v][s].damage_at)}
                         IN  IF k \in Creeps /\ CreepSide[k] # Side(v) /\ Cardinality(struck) = 1
                             THEN CHOOSE s \in struck : TRUE ELSE Nobody
           \/ \E side \in towers :
                /\ v = Tower[side]
                /\ towers' = towers \ {side}
                /\ lost' = lost \cup {side}
                /\ winner' = Decided(side)
                /\ LET denied == TeamOf(k) = side
                       income(s) == IF denied THEN 1
                                    ELSE Paid(s, SeatsOf(Other(side)), 2) + Paid(s, {k}, 1)
                   IN  /\ gold' = [s \in Seats |-> gold[s] + income(s)]
                       /\ worth' = [s \in Seats |-> worth[s] + income(s)]
                /\ UNCHANGED <<score, hurt_by, down, back, aegis, claimed, bloods, owed>>
    /\ UNCHANGED <<stage, tick, known, rose, blows>>

\* Mutant: the first side found to have lost has lost alone.
MutVerdict(gone) ==
    CASE "radiant" \in gone -> "dire"
      [] gone = {"dire"} -> "radiant"
      [] OTHER -> "none"

Verdict(gone) ==
    CASE gone = Sides -> "neutral"
      [] gone = {"radiant"} -> "dire"
      [] gone = {"dire"} -> "radiant"
      [] OTHER -> "none"

\* The end of bury: finish_map2_tick judges the batch as a whole.
Finish ==
    /\ stage = "bury" /\ batch = <<>>
    /\ stage' = "tick"
    /\ winner' = IF Map2 /\ winner = "none"
                 THEN IF tick >= LastTick THEN "neutral"
                      ELSE Verdict({side \in Sides : side \in lost \/ AtLimit(side, deaths)})
                 ELSE winner
    /\ UNCHANGED <<tick, gold, worth, score, hurt_by, down, back, aegis, known,
                   towers, claimed, lost, batch, history>>

Killers == Seats \cup Creeps \cup {Camp}

DeathsNext ==
    \/ NewTick \/ ToBury \/ Bury \/ Finish
    \/ \E s \in Seats : Trade(s)
    \/ \E c \in Creeps : Reuse(c)
    \/ \E by, hurt \in Seats, damage \in BOOLEAN : Blow(by, hurt, damage)
    \/ \E e \in Entities, k \in Killers : Fatal(e, k)

DeathsSpec == DeathsInit /\ [][DeathsNext]_deathsVars

-----------------------------------------------------------------------------
(* What holds of it. *)

\* A seat never owes gold and its net worth never falls below nothing, though trade
\* parts the two before a fall takes a share of the one out of the other (econ.rs,
\* price_of_fall: "never more than it holds").  Gold may exceed worth: a sale and the
\* set-up pay gold that was never counted.
GoldNotOwed == \A s \in Seats : 0 <= gold[s] /\ 0 <= worth[s]

\* Every kill on the board is a death on the other side's (fight.rs,
\* bury_entity).
KillsAreDeaths ==
    \A side \in Sides :
        Cardinality(Tally(side, kills)) <= DeathsOf(Other(side), deaths)

\* First Blood is paid once in a match, though a kill that is shared puts no kill
\* on the board (econ.rs, price_of_fall).
FirstBloodOnce == bloods <= 1

\* A hero's life carries the enemies that hurt it in that life, and none that
\* hurt it before (seat.rs, HeroContribution: "participation in this hero's
\* current life").
LedgerOfThisLife ==
    \A v, by \in Seats :
        Stands(v) /\ hurt_by[v][by].at # Never => hurt_by[v][by].at >= rose[v]

\* The one hero that damaged a fallen hero of late gets the kill when a hostile
\* creep or tower finishes it (econ.rs, pay_for).
SoleDamagerCredited ==
    owed' # Nobody /\ felled' > felled /\ deaths' # deaths =>
        kills'[owed'] = kills[owed'] + 1

\* A match decided stays decided (fight.rs, bury_entity and bury_seat).
WinnerFinal == winner # "none" => winner' = winner

\* In Map2 two sides that lose on the same tick draw, in whatever order their
\* falls are buried (tests/map2.rs: both sides losing on one tick draw in either
\* hit order).
NoTieWon ==
    Map2 /\ winner \in Sides => winner \in towers /\ ~AtLimit(winner, deaths)

\* What holds of the score and the gold at once.
ScoreKept == DeathsTypeOK /\ GoldNotOwed /\ KillsAreDeaths /\ FirstBloodOnce

\* And of ties, and of the ledger the score is read from.
Accounts == ScoreKept /\ NoTieWon /\ LedgerOfThisLife

\* The kill goes to whom it is owed, and the match to whom it went.
Credited == SoleDamagerCredited /\ WinnerFinal
CreditsStand == [][Credited]_deathsVars

\* Two sides that lose on one tick draw, the score adds up, and a verdict stands,
\* through reincarnations and slots given out again (fight.rs, finish_map2_tick).
TiesDrawn == [](ScoreKept /\ NoTieWon) /\ [][WinnerFinal]_deathsVars
=============================================================================
