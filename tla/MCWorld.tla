------------------------------ MODULE MCWorld ------------------------------
(***************************************************************************)
(* Casts, names and verdicts: systems of the world whose models share no    *)
(* state, each on small instances of its own.  A behaviour is one part's,   *)
(* as in MCNetwork.  The casts are those of Actions itself, the verdicts    *)
(* those of Deaths.                                                         *)
(***************************************************************************)
EXTENDS Actions, Deaths, Handles

CONSTANTS Parts,         \* the parts a run looks at
          r1, r2, d1     \* heroes

VARIABLES part

\* The names a side is told, with nobody ordering anything ("names") or with orders
\* that take effect on the next tick ("aims").
\*
\* Two heroes against one, and a lane creep: a tower or the second death loses,
\* ties are draws, and one hero carries an Aegis.
MCCreepSide == [c \in Creeps |-> "radiant"]

\* A kit with one ability of each sort: one with a cast point and a backswing, a
\* channel that an order for it leaves be, a toggle that ignores channels, an
\* immediate cast; and the scroll.
MCPoint == [s \in Spells \cup {Swing} |-> IF s \in {"raze", "grip", Swing} THEN 1 ELSE 0]
MCDur == [s \in Spells |-> IF s \in {"grip", "scroll"} THEN 1 ELSE 0]
MCBack == [s \in Spells \cup {Swing} |-> IF s = "raze" THEN 1 ELSE 0]

ASSUME /\ HandlesAssumption
       /\ SeatsAssumption /\ NumbersAssumption
       /\ SpellsAssumption /\ BoundsAssumption

-----------------------------------------------------------------------------
suiteVars == <<part, handlesVars, deathsVars, vars>>

SuiteInit ==
    /\ part \in Parts
    /\ HandlesInit /\ DeathsInit /\ Init

SuiteNext ==
    /\ UNCHANGED part
    /\ CASE part = "names" -> UNCHANGED line /\ HandlesNext
         [] part = "aims" -> HandlesNext /\ moment' < MaxTick
         [] OTHER -> UNCHANGED handlesVars
    /\ IF part = "duel" THEN DeathsNext ELSE UNCHANGED deathsVars
    /\ IF part = "casts" THEN Next ELSE UNCHANGED vars

SuiteSpec == SuiteInit /\ [][SuiteNext]_suiteVars
=============================================================================
