------------------------------ MODULE MCItems ------------------------------
(***************************************************************************)
(* Gold and goods: what falls pay and cost, the shop and what is built,    *)
(* backpacks, couriers, each on small instances of its own.  A behaviour   *)
(* is one part's, as in MCNetwork.  The falls are those of Deaths itself:  *)
(* two heroes against one, felled by heroes, a creep, a camp and nobody;   *)
(* the courier is that of Courier: it fetches, delivers, puts back and     *)
(* sells three purchases.                                                  *)
(***************************************************************************)
EXTENDS Deaths, Courier, TLC

CONSTANTS Parts,         \* the parts a run looks at
          r1, r2, d1     \* heroes, and their seats

MCCreepSide == [c \in Creeps |-> "radiant"]

\* Two heroes of one side fall, trade and hand things over, and nothing tells
\* the one from the other.
Twins == Permutations({r1, r2})

VARIABLES part

\* A catalogue in which a Tango comes by the two, a Bracer is built of a Circlet
\* and a branch, and prices divide evenly.  "market": two seats with a slot
\* each, who give.  "stock": one that fills a slot and a stash with two of what
\* stacks, so that purchases merge and wards pair up.  "builds": one whose hero may
\* fall, with parts to build of.
VARIABLES bags, stashes, purse, ground, atShop, dead, since, now, lots, paid, spent
marketVars == <<bags, stashes, purse, ground, atShop, dead, since, now, lots,
                paid, spent>>
Goods == {"observer", "sentry", "dispenser", "tango", "scroll", "shared", "branch",
          "circlet", "bracer"}
Prices == [i \in Goods |-> CASE i \in {"tango", "bracer"} -> 4
                             [] i \in {"observer", "dispenser"} -> 0
                             [] OTHER -> 2]
Charges == [i \in Goods |-> CASE i = "tango" -> 2
                              [] i \in {"sentry", "observer", "scroll", "shared"} -> 1
                              [] OTHER -> 0]
Recipes == [i \in Goods |-> IF i = "bracer" THEN <<"circlet", "branch">> ELSE <<>>]
Shops == INSTANCE Market WITH
    Byte <- 3, Grace <- 1, MuteTicks <- 1, Inv <- 1, Pack <- 0, Seats <- {r1, r2},
    Shop <- {"tango", "observer"}, Cost <- Prices,
    PerBuy <- Charges, Parts <- Recipes,
    StashSlots <- 0, StartGold <- 4, Mortal <- {}, MaxLots <- 2, MaxNow <- 2,
    bag <- bags, stash <- stashes, gold <- purse, fell <- since, lot <- lots, day <- paid
Stock == INSTANCE Market WITH
    Byte <- 3, Grace <- 1, MuteTicks <- 1, Inv <- 1, Pack <- 0, Seats <- {"s1"},
    Shop <- {"tango", "observer", "sentry", "scroll"}, Cost <- Prices,
    PerBuy <- Charges, Parts <- Recipes,
    StashSlots <- 2, StartGold <- 8, Mortal <- {}, MaxLots <- 2, MaxNow <- 2,
    bag <- bags, stash <- stashes, gold <- purse, fell <- since, lot <- lots, day <- paid
Builds == INSTANCE Market WITH
    Byte <- 1, Grace <- 1, MuteTicks <- 1, Inv <- 1, Pack <- 0, Seats <- {"s1"},
    Shop <- {"circlet", "branch", "bracer"}, Cost <- Prices,
    PerBuy <- Charges, Parts <- Recipes,
    StashSlots <- 1, StartGold <- 6, Mortal <- {"s1"}, MaxLots <- 2, MaxNow <- 2,
    bag <- bags, stash <- stashes, gold <- purse, fell <- since, lot <- lots, day <- paid

\* "pack": one hero shuffles two purchases between inventory, backpack, town
\* portal slot and ground.  "hands": two heroes hand stacks to one another.
\* "forge": one builds two parts and takes the build apart.
VARIABLES packs, floor, inShop, hour, bought, first
packVars == <<packs, floor, inShop, hour, bought, first>>
Alone == INSTANCE Backpack WITH
    Byte <- 3, Grace <- 1, MuteTicks <- 1, Inv <- 1, Pack <- 2, Heroes <- {"h1"},
    Kinds <- {"tango", "scroll", "observer", "sentry"}, MaxLots <- 2, Charges <- 2,
    MaxNow <- 3, bag <- packs, ground <- floor, atShop <- inShop, now <- hour, lot <- bought
Hands == INSTANCE Backpack WITH
    Byte <- 2, Grace <- 1, MuteTicks <- 1, Inv <- 1, Pack <- 1, Heroes <- {r1, r2},
    Kinds <- {"tango"}, MaxLots <- 2, Charges <- 1, MaxNow <- 2,
    bag <- packs, ground <- floor, atShop <- inShop, now <- hour, lot <- bought
Forge == INSTANCE Backpack WITH
    Byte <- 1, Grace <- 1, MuteTicks <- 1, Inv <- 1, Pack <- 2, Heroes <- {"h1"},
    Kinds <- {"circlet", "branch"}, MaxLots <- 2, Charges <- 1, MaxNow <- 3,
    bag <- packs, ground <- floor, atShop <- inShop, now <- hour, lot <- bought

ASSUME /\ SeatsAssumption /\ NumbersAssumption
       /\ Shops!StacksAssumption /\ Stock!StacksAssumption /\ Builds!StacksAssumption
       /\ Forge!StacksAssumption /\ Alone!StacksAssumption /\ Hands!StacksAssumption
       /\ StacksAssumption /\ CourierAssumption

-----------------------------------------------------------------------------
suiteVars == <<part, deathsVars, marketVars, packVars, vars>>

SuiteInit ==
    /\ part \in Parts
    /\ DeathsInit
    /\ CASE part = "builds" -> Builds!Init
         [] part = "stock" -> Stock!Init
         [] OTHER -> Shops!Init
    /\ IF part = "hands" THEN Hands!Init ELSE Alone!Init
    /\ Init

SuiteNext ==
    /\ UNCHANGED part
    /\ IF part = "fights" THEN DeathsNext ELSE UNCHANGED deathsVars
    /\ CASE part = "market" -> Shops!Next
         [] part = "stock" -> Stock!Next
         [] part = "builds" -> Builds!Next
         [] OTHER -> UNCHANGED marketVars
    /\ CASE part = "pack" -> Alone!Next
         [] part = "hands" -> Hands!Next
         [] part = "forge" -> Forge!Next
         [] OTHER -> UNCHANGED packVars
    /\ IF part = "errands" THEN Next ELSE UNCHANGED vars

SuiteSpec == SuiteInit /\ [][SuiteNext]_suiteVars

-----------------------------------------------------------------------------
(* What holds of each part: see the module of it. *)

\* Gold and goods balance, whatever is bought, merged, built, split, given and
\* sold, a locked stack is not built away, and a purchase counts on none (gear.rs,
\* purchase.rs).
BooksKept ==
    /\ [](part = "market" => Shops!Balanced)
    /\ [](part = "stock" => Stock!Balanced)
    /\ [](part = "builds" => Builds!Balanced)
    /\ [][part = "builds" => Builds!LockHolds]_suiteVars

\* A backpack's grace is the first entry's alone, and inactivity is served in
\* full by what stays what it is (components/items.rs).
GraceKept ==
    /\ [](part = "pack" => Alone!GraceRight)
    /\ [](part = "hands" => Hands!GraceRight)
    /\ [](part = "forge" => Forge!GraceRight)
    /\ [][part = "pack" => Alone!GraceServed]_suiteVars
    /\ [][part = "hands" => Hands!MuteIsServed]_suiteVars
    /\ [][part = "forge" => Forge!GraceServed]_suiteVars
=============================================================================
