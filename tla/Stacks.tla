-------------------------------- MODULE Stacks --------------------------------
(***************************************************************************)
(* The stacks of items a bag holds and the one rule of stacking and        *)
(* placing: bota_server's components/items.rs and bota_core's purchase.rs. *)
(*                                                                         *)
(* A stack is a record; a bag is a function from slot numbers to stacks or *)
(* to None, and a hero's bag has the slot Portal besides.  What an item is *)
(* set to (its mode), its level and its cooldown are left out: nothing     *)
(* here reads them but the merge, which asks that modes agree, and no item *)
(* that stacks has one.                                                    *)
(***************************************************************************)
EXTENDS Integers, FiniteSets

CONSTANTS Byte,         \* the largest count a byte holds (255): every item
                        \* that stacks stacks up to it
          Grace,        \* BACKPACK_GRACE_TICKS
          MuteTicks,    \* BACKPACK_MUTE_TICKS
          Inv,          \* INVENTORY_SLOTS
          Pack          \* BACKPACK_SLOTS

StacksAssumption ==
  /\ Byte \in Nat \ {0} /\ Grace \in Nat /\ MuteTicks \in Nat
  /\ Inv \in Nat /\ Pack \in Nat

\* A slot that holds nothing, and the number of the town portal slot.
None == [id |-> "none"]
Portal == -1

Wards == {"observer", "sentry", "dispenser"}
Stackable == {"tango", "observer", "sentry", "scroll"}
Items == Wards \cup Stackable \cup {"shared", "branch", "circlet", "bracer"}

InInventory(at) == at \in 0 .. Inv - 1
InBackpack(at) == at \in Inv .. Inv + Pack - 1
\* The slots of a hero whose bag has n.
SlotsWithPortal(n) == (0 .. n - 1) \cup {Portal}

Larger(a, b) == IF a > b THEN a ELSE b
Smaller(a, b) == IF a < b THEN a ELSE b

(***************************************************************************)
(* BackpackHistory: `seen` are the heroes whose backpack it has been in,   *)
(* `holder` the one whose backpack it is in now, `until` the end of the    *)
(* grace that entry gave.                                                  *)
(***************************************************************************)
NoHero == "nobody"

Enter(s, h, now) ==
  IF s.holder = h THEN s
  ELSE [s EXCEPT !.until = IF h \in s.seen THEN 0 ELSE now + Grace,
                 !.seen = @ \cup {h}, !.holder = h]

Leave(s) == [s EXCEPT !.holder = NoHero, !.until = 0]

Left(s, now) == IF s.until > now THEN s.until - now ELSE 0

InheritNothing(t, s) == t
Inherit(t, s) == [t EXCEPT !.seen = @ \cup s.seen]

\* A build cannot extend what is left of a used ingredient's grace.
InheritBuild(t, s) ==
  LET theirs == IF s.holder = t.holder THEN s.until ELSE 0
  IN  Inherit(IF t.holder # NoHero /\ t.holder \in s.seen
              THEN [t EXCEPT !.until = Smaller(@, theirs)] ELSE t, s)

(***************************************************************************)
(* A stack as it is bought.  `lots` is no field of the code's: it names    *)
(* the purchases whose last charge is in this stack, for the properties.   *)
(***************************************************************************)
Bought(item, owner, charges, tick, lots) ==
  [id |-> item, charges |-> charges, sentries |-> 0, sentryOn |-> FALSE,
   free |-> 0, owner |-> owner, sale |-> FALSE, locked |-> FALSE,
   touched |-> FALSE, bought |-> tick, mute |-> 0, seen |-> {},
   holder |-> NoHero, until |-> 0, lots |-> lots]

\* Observer Wards and Sentry Wards of a stack of the ward family.
WardCounts(s) ==
  CASE s.id = "observer" -> <<s.charges, 0>>
    [] s.id = "sentry" -> <<0, s.charges>>
    [] s.id = "dispenser" -> <<s.charges, s.sentries>>

(***************************************************************************)
(* How much of `s` may join `t`: of one kind up to the cap, and wards of   *)
(* two kinds whole, where the bag combines.                                *)
(***************************************************************************)
MergeRoom(t, s, combine) ==
  IF t.owner # s.owner \/ t.sale # s.sale \/ t.charges = 0 \/ s.charges = 0
  THEN 0
  ELSE IF t.id = s.id /\ t.id \in Stackable
  THEN Byte - t.charges
  ELSE IF t.id \in Wards /\ s.id \in Wards /\ combine
          /\ \A k \in 1 .. 2 : WardCounts(t)[k] + WardCounts(s)[k] <= Byte
  THEN Byte ELSE 0

\* What a merge keeps of two stacks beyond their charges: the strongest
\* restrictions of the two.
Settle(t, s) ==
  Inherit([t EXCEPT !.mute = Larger(@, s.mute),
                    !.bought = Smaller(@, s.bought),
                    !.touched = @ \/ s.touched, !.locked = @ \/ s.locked], s)

\* merge_from: what the two stacks become, and whether anything moved.
MergeFrom(t, s, combine) ==
  LET room == MergeRoom(t, s, combine)
      moved == Smaller(room, s.charges)
      free == Smaller(moved, s.free)
      left == [s EXCEPT !.charges = @ - moved, !.free = @ - free,
                        !.lots = IF moved = s.charges THEN {} ELSE @]
      o == WardCounts(t)[1] + WardCounts(s)[1]
      n == WardCounts(t)[2] + WardCounts(s)[2]
      fresh == t.id # "dispenser"
      ward == [t EXCEPT !.sentryOn = IF fresh THEN s.sentryOn ELSE @]
      built == IF fresh THEN InheritBuild(ward, s) ELSE ward
  IN  IF room = 0 THEN [ok |-> FALSE, to |-> t, from |-> s]
      ELSE IF t.id = s.id /\ t.id \in Stackable
      THEN [ok |-> TRUE, from |-> left,
            to |-> Settle([t EXCEPT !.charges = @ + moved, !.free = @ + free,
                                    !.lots = @ \cup (s.lots \ left.lots)], s)]
      ELSE [ok |-> TRUE,
            from |-> [s EXCEPT !.charges = 0, !.sentries = 0, !.lots = {}],
            to |-> Settle([built EXCEPT !.id = "dispenser", !.charges = o,
                                        !.sentries = n,
                                        !.lots = @ \cup s.lots], s)]

\* What is left in a slot a stack was merged out of.
OrNone(s) == IF s.charges > 0 THEN s ELSE None

(***************************************************************************)
(* Where a whole arriving stack goes: a scroll into the town portal slot   *)
(* where there is one; else the first stack it fits whole, else the first  *)
(* empty slot.  -2 when it has no place.                                   *)
(***************************************************************************)
NoSlot == -2

First(S) == CHOOSE a \in S : \A b \in S : a <= b

FitsIn(held, s, combine) ==
  held # None /\ s.charges > 0 /\ MergeRoom(held, s, combine) >= s.charges

ReceivingSlot(bag, s, combine) ==
  LET slots == DOMAIN bag \ {Portal}
      merge == {at \in slots : FitsIn(bag[at], s, combine)}
      empty == {at \in slots : bag[at] = None}
  IN  IF s.id = "scroll" /\ Portal \in DOMAIN bag
      THEN IF bag[Portal] = None \/ FitsIn(bag[Portal], s, FALSE)
           THEN Portal ELSE NoSlot
      ELSE IF merge # {} THEN First(merge)
      ELSE IF empty # {} THEN First(empty) ELSE NoSlot

PutIn(bag, at, s, combine) ==
  [bag EXCEPT ![at] = IF @ = None THEN s ELSE MergeFrom(@, s, combine).to]

\* receive: the whole stack, or nothing changes.
Fits(bag, s, combine) == ReceivingSlot(bag, s, combine) # NoSlot
Receive(bag, s, combine) ==
  PutIn(bag, ReceivingSlot(bag, s, combine), s, combine)

(***************************************************************************)
(* One charge spent, a free one first; one ward out of a dispenser, which  *)
(* leaves the other kind as the plain ward it is; one charge parted off.   *)
(***************************************************************************)
SpendOne(s) ==
  [s EXCEPT !.charges = @ - 1, !.free = IF @ > 0 THEN @ - 1 ELSE 0]

SpendWard(s) ==
  LET o == IF s.sentryOn THEN s.charges ELSE s.charges - 1
      n == IF s.sentryOn THEN s.sentries - 1 ELSE s.sentries
  IN  IF o > 0 /\ n > 0 THEN [s EXCEPT !.charges = o, !.sentries = n]
      ELSE [s EXCEPT !.id = IF o = 0 THEN "sentry" ELSE "observer",
                     !.charges = IF o = 0 THEN n ELSE o,
                     !.sentries = 0, !.sentryOn = FALSE]

PartOne(s, into) ==
  LET one == [s EXCEPT !.charges = 1, !.free = 0, !.sentries = 0,
                       !.sentryOn = FALSE, !.touched = TRUE, !.locked = FALSE,
                       !.id = IF @ # "dispenser" THEN @
                              ELSE IF s.sentryOn THEN "sentry" ELSE "observer",
                       !.lots = {}]
      rest == IF s.id = "dispenser" THEN SpendWard(s) ELSE SpendOne(s)
  IN  [rest |-> [rest EXCEPT !.touched = TRUE],
       one |-> IF into = "none" THEN one
               ELSE [one EXCEPT !.id = into, !.free = 1]]

(***************************************************************************)
(* Two slots of one bag swapped: a stack moved onto one it may join merges *)
(* into it, a scroll moved to the town portal slot joins it whole or not   *)
(* at all, and whatever lands in the inventory out of the backpack, the    *)
(* stack moved or the one displaced, is muted unless its grace runs or a   *)
(* shop waives it (mute = 0).  The bag as it was when nothing moved.       *)
(***************************************************************************)
Landed(s, origin, at, grace, mute) ==
  IF ~ (InBackpack(origin) /\ InInventory(at))
  THEN [s EXCEPT !.touched = TRUE]
  ELSE Leave([s EXCEPT !.touched = TRUE,
                       !.mute = IF mute = 0 THEN 0
                                ELSE IF grace THEN @ ELSE Larger(@, mute)])

\* The stack that was in the way goes the other way, by a grace of its own.
Displaced(s, origin, at, mute, now) ==
  IF s = None THEN None ELSE Landed(s, origin, at, Left(s, now) > 0, mute)

SwapSlots(bag, from, to, mute, now) ==
  LET moved == bag[from]
      onto == bag[to]
      join == MergeFrom(onto, moved, TRUE)
      grace == Left(moved, now) > 0
      scroll == [moved EXCEPT !.touched = TRUE]
  IN  IF moved = None THEN bag
      ELSE IF to = Portal
      THEN IF ReceivingSlot(bag, scroll, TRUE) # Portal THEN bag
           ELSE Receive([bag EXCEPT ![from] = None], scroll, TRUE)
      ELSE IF onto # None /\ join.ok
      THEN [bag EXCEPT ![to] = Landed(join.to, from, to, grace, mute),
                       ![from] = OrNone([join.from EXCEPT !.touched = TRUE])]
      ELSE [bag EXCEPT
              ![to] = Landed(moved, from, to, grace, mute),
              ![from] = Displaced(onto, to, from, mute, now)]

(***************************************************************************)
(* The wards of a bag brought together: each slot takes in, in slot order, *)
(* whatever later slots hold that it may join.                             *)
(***************************************************************************)
Pairs(n) == {p \in (0 .. n - 1) \X (0 .. n - 1) : p[1] < p[2]}

CombineWards(bag, n) ==
  LET order(k) == CHOOSE p \in Pairs(n) :
                    Cardinality({q \in Pairs(n) :
                       q[1] < p[1] \/ (q[1] = p[1] /\ q[2] < p[2])}) = k - 1
      Join(b, p) ==
        LET t == b[p[1]] s == b[p[2]] j == MergeFrom(t, s, TRUE)
        IN  IF t = None \/ s = None THEN b
            ELSE IF t.id \notin Wards \/ ~ j.ok THEN b
            ELSE [b EXCEPT ![p[1]] = j.to, ![p[2]] = OrNone(j.from)]
      fold[k \in 0 .. Cardinality(Pairs(n))] ==
        IF k = 0 THEN bag ELSE Join(fold[k - 1], order(k))
  IN  fold[Cardinality(Pairs(n))]
=============================================================================
