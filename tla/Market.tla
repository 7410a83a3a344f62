-------------------------------- MODULE Market --------------------------------
(***************************************************************************)
(* Gold and goods: what the seats of one side buy, build, take apart,      *)
(* lock, move between the hero and the stash, use, give each other, lay    *)
(* down, mark for sale and sell, with the hero standing and while it lies  *)
(* dead.  gear.rs, disassemble.rs, handling.rs and match_world.rs over the *)
(* rules of Stacks; bota_core's economy.rs for what a purchase lacks.      *)
(*                                                                         *)
(* Every unit of gold here is the same, so the books can be kept: `spent`  *)
(* is what uses, lapses and the discount of a sale have cost.              *)
(***************************************************************************)
EXTENDS Stacks, Sequences, FiniteSetsExt

CONSTANTS Seats,
          Shop,         \* the items on sale
          Cost,         \* [Items -> what a purchase costs]
          PerBuy,       \* [Items -> charges a purchase brings, 0 for one without]
          Parts,        \* [Items -> the parts it is built of, <<>> for one that is not]
          StashSlots, StartGold,
          Mortal,       \* the seats whose hero may fall in a run
          MaxLots, MaxNow

VARIABLES bag,          \* [Seats -> the hero's bag]
          stash,        \* [Seats -> the stash]
          gold,         \* [Seats -> gold in hand]
          ground,       \* the stacks that lie on the ground
          atShop,       \* the seats whose hero stands in a base shop
          dead, fell,   \* the seats whose hero lies dead, and since when
          now,          \* World.tick
          lot, day,     \* stacks made so far, and when each was paid for
          spent

vars == <<bag, stash, gold, ground, atShop, dead, fell, now, lot, day, spent>>
rest == <<atShop, dead, fell, now>>

\* The scroll every hero starts with: one charge, that came for nothing.
FreeScroll(s) == [Bought("scroll", s, 1, 0, {}) EXCEPT !.free = 1]

HeroSlots == SlotsWithPortal(Inv + Pack)
StashSlotSet == 0 .. StashSlots - 1

Init ==
  /\ bag = [s \in Seats |-> [at \in HeroSlots |->
              IF at = Portal THEN FreeScroll(s) ELSE None]]
  /\ stash = [s \in Seats |-> [at \in StashSlotSet |-> None]]
  /\ gold = [s \in Seats |-> StartGold]
  /\ ground = {} /\ atShop = Seats /\ dead = {} /\ fell = [s \in Seats |-> 0]
  /\ now = 1 /\ lot = 0 /\ day = [l \in 1 .. MaxLots |-> 0] /\ spent = 0

----------------------------------------------------------------------------
\* Every slot of a seat: its bag's, then its stash's (slot_of, stack_at).
Places == ({"bag"} \X HeroSlots) \cup ({"stash"} \X StashSlotSet)
StackAt(s, p) == IF p[1] = "bag" THEN bag[s][p[2]] ELSE stash[s][p[2]]
WithSlot(bs, p, x) ==
  IF p[1] = "bag" THEN [bs EXCEPT !.bag[p[2]] = x] ELSE [bs EXCEPT !.stash[p[2]] = x]
Holdings(s) == [bag |-> bag[s], stash |-> stash[s]]
NowHolds(s, bs) ==
  /\ bag' = [bag EXCEPT ![s] = bs.bag]
  /\ stash' = [stash EXCEPT ![s] = bs.stash]

\* What a stack costs in the shop, free charges apart (sale_price before any
\* share; a stack with a free charge is not bought back).
Worth(x) ==
  IF x.id \in Wards
  THEN WardCounts(x)[1] * Cost["observer"] + WardCounts(x)[2] * Cost["sentry"]
  ELSE IF x.id \in Stackable THEN (Cost[x.id] * (x.charges - x.free)) \div PerBuy[x.id]
  ELSE Cost[x.id]

\* What the shop pays: all of it for an untouched stack within its window,
\* half of it for any other.  Whether the window has run out is open.
SalePrices(x) == {Worth(x) \div 2} \cup (IF x.touched THEN {} ELSE {Worth(x)})

----------------------------------------------------------------------------
(***************************************************************************)
(* missing_parts: what buying `item` takes beyond what is held that        *)
(* counts.  An item built of nothing is bought whole; of one that is built *)
(* each part held is spent once and each other is asked the same question. *)
(***************************************************************************)
Without(q, x) ==
  LET k == CHOOSE i \in DOMAIN q : q[i] = x /\ \A j \in 1 .. i - 1 : q[j] # x
  IN  SubSeq(q, 1, k - 1) \o SubSeq(q, k + 1, Len(q))

PartStep(w) ==
  IF w.todo = <<>> THEN w
  ELSE LET x == Head(w.todo)
       IN  IF \E i \in DOMAIN w.held : w.held[i] = x
           THEN [w EXCEPT !.todo = Tail(@), !.held = Without(@, x)]
           ELSE IF Parts[x] = <<>>
           THEN [w EXCEPT !.todo = Tail(@), !.wanted = Append(@, x)]
           ELSE [w EXCEPT !.todo = Parts[x] \o Tail(@)]

MissingParts(item, held) ==
  LET work[k \in 0 .. 8] ==
        IF k = 0 THEN [todo |-> Parts[item], held |-> held, wanted |-> <<>>]
        ELSE PartStep(work[k - 1])
  IN  IF Parts[item] = <<>> THEN <<item>> ELSE work[8].wanted

\* purchase_pool: the buyer's own, neither marked for sale nor locked.
CountsLocked(x, s) == x # None /\ x.owner = s /\ ~ x.sale
Counts(x, s) == x # None /\ x.owner = s /\ ~ x.sale /\ ~ x.locked

\* The slots of a seat in the order a build and a purchase go through them.
InOrder ==
  [k \in 1 .. Inv + Pack + StashSlots |->
     IF k <= Inv + Pack THEN <<"bag", k - 1>> ELSE <<"stash", k - Inv - Pack - 1>>]

PoolIds(s) ==
  LET ps == SelectSeq(InOrder, LAMBDA p : Counts(StackAt(s, p), s))
  IN  [k \in DOMAIN ps |-> StackAt(s, ps[k]).id]

(***************************************************************************)
(* place_shop_purchase: every part finds its own slot before anything is   *)
(* paid or moved; the hero's bag while it stands in its shop or lies dead, *)
(* the stash when the bag has no room or is out of reach.                  *)
(***************************************************************************)
BerthOf(bs, s, x) ==
  LET reach == s \in atShop \/ s \in dead
      free(b) == IF x.id \in Stackable THEN ReceivingSlot(b, x, DOMAIN b = HeroSlots)
                 ELSE LET e == {at \in DOMAIN b \ {Portal} : b[at] = None}
                      IN  IF e = {} THEN NoSlot ELSE First(e)
  IN  IF reach /\ free(bs.bag) # NoSlot THEN <<"bag", free(bs.bag)>>
      ELSE <<"stash", free(bs.stash)>>

\* put_in at a berth; a part that stacks is bought alone, so placing parts
\* one after the other reserves each its slot.
Placed(bs, p, x) ==
  IF p[1] = "bag" THEN [bs EXCEPT !.bag = PutIn(@, p[2], x, TRUE)]
  ELSE [bs EXCEPT !.stash = PutIn(@, p[2], x, FALSE)]

Delivered(s, wanted) ==
  LET put[k \in 0 .. Len(wanted)] ==
        IF k = 0 THEN [ok |-> TRUE, bs |-> Holdings(s)]
        ELSE LET x == Bought(wanted[k], s, PerBuy[wanted[k]], now, {lot + k})
                 p == BerthOf(put[k - 1].bs, s, x)
             IN  IF ~ put[k - 1].ok \/ p[2] = NoSlot
                 THEN [put[k - 1] EXCEPT !.ok = FALSE]
                 ELSE [ok |-> TRUE, bs |-> Placed(put[k - 1].bs, p, x)]
  IN  put[Len(wanted)]

Price(wanted) == FoldSet(LAMBDA k, sum : sum + Cost[wanted[k]], 0, DOMAIN wanted)

Pays(s, item, wanted) == Price(wanted)

BuyParts(s, item, wanted, placed) ==
  LET n == Len(wanted)
  IN  /\ n > 0 /\ lot + n <= MaxLots
      /\ placed.ok /\ gold[s] >= Price(wanted)
      /\ NowHolds(s, placed.bs)
      /\ gold' = [gold EXCEPT ![s] = @ - Pays(s, item, wanted)]
      /\ lot' = lot + n
      /\ day' = [l \in DOMAIN day |-> IF l \in lot + 1 .. lot + n THEN now ELSE day[l]]
      /\ UNCHANGED <<ground, spent, rest>>

Buy(s, item) ==
  \E wanted \in {MissingParts(item, PoolIds(s))} :
    BuyParts(s, item, wanted, Delivered(s, wanted))

----------------------------------------------------------------------------
(***************************************************************************)
(* assemble_pool: the first item of the catalogue whose parts the pool     *)
(* holds is built in the lowest slot any of them was in, the others        *)
(* cleared.  Somebody else's part, one marked and one locked are passed by.*)
(***************************************************************************)
\* parts_in: a slot for each part, the lowest not yet taken.
SpentOn(bs, ps, parts, s) ==
  LET at(k) == ps[k]
      x(k) == IF ps[k][1] = "bag" THEN bs.bag[ps[k][2]] ELSE bs.stash[ps[k][2]]
      take[i \in 0 .. Len(parts)] ==
        IF i = 0 THEN {}
        ELSE LET c == {k \in DOMAIN ps \ take[i - 1] :
                         Counts(x(k), s) /\ x(k).id = parts[i]}
             IN  IF 0 \in take[i - 1] \/ c = {} THEN {0}
                 ELSE take[i - 1] \cup {First(c)}
  IN  take[Len(parts)]

BuildOf(bs, ps, item, s, spentOn) ==
  LET x(k) == IF ps[k][1] = "bag" THEN bs.bag[ps[k][2]] ELSE bs.stash[ps[k][2]]
      base == x(First(spentOn))
      built == FoldSet(LAMBDA k, b : InheritBuild(b, x(k)),
                       [Bought(item, s, PerBuy[item], now + 1,
                               UNION {x(k).lots : k \in spentOn})
                        EXCEPT !.touched = TRUE, !.seen = base.seen,
                               !.holder = base.holder, !.until = base.until],
                       spentOn)
      cleared == [bag |-> [at \in DOMAIN bs.bag |->
                             IF \E k \in spentOn : ps[k] = <<"bag", at>>
                             THEN None ELSE bs.bag[at]],
                  stash |-> [at \in DOMAIN bs.stash |->
                               IF \E k \in spentOn : ps[k] = <<"stash", at>>
                               THEN None ELSE bs.stash[at]]]
  IN  IF Parts[item] = <<>> \/ 0 \in spentOn THEN bs
      ELSE WithSlot(cleared, ps[First(spentOn)], built)

BuildOnce(bs, ps, item, s) ==
  BuildOf(bs, ps, item, s, SpentOn(bs, ps, Parts[item], s))

\* The pools of a seat: hero and stash together in the shop or while it lies
\* dead, else each alone.  The catalogue here has one build.
Assembled(s) ==
  LET bs == [bag |-> CombineWards(bag[s], Inv + Pack), stash |-> stash[s]]
      mine == SubSeq(InOrder, 1, Inv + Pack)
      theirs == SubSeq(InOrder, Inv + Pack + 1, Inv + Pack + StashSlots)
      Build(b, ps) == BuildOnce(b, ps, "bracer", s)
  IN  IF s \in atShop \cup dead THEN Build(bs, InOrder)
      ELSE Build(Build(bs, mine), theirs)

(***************************************************************************)
(* settle_sales: every marked stack in a stash, and in the bag of a hero   *)
(* that stands in the shop, is sold for its owner.                         *)
(***************************************************************************)
In(held, q) == IF q[2][1] = "bag" THEN held[q[1]].bag[q[2][2]]
               ELSE held[q[1]].stash[q[2][2]]

MarkedAt(held) ==
  {q \in Seats \X Places :
     LET s == q[1] p == q[2] x == In(held, q)
     IN  /\ x # None /\ x.sale /\ p[2] # Portal
         /\ p[1] = "bag" => s \in atShop /\ s \notin dead}

SettleSales(held, marked) ==
  LET At(q) == In(held, q)
  IN  /\ \E back \in [marked -> 0 .. 9] :
           /\ \A q \in marked : back[q] \in SalePrices(At(q))
           /\ gold' = [s \in Seats |-> gold[s] +
                 MapThenSumSet(LAMBDA q : back[q],
                               {q \in marked : At(q).owner = s})]
           /\ spent' = spent + MapThenSumSet(LAMBDA q : Worth(At(q)) - back[q], marked)
      /\ bag' = [s \in Seats |-> [at \in HeroSlots |->
                   IF <<s, <<"bag", at>>>> \in marked THEN None ELSE held[s].bag[at]]]
      /\ stash' = [s \in Seats |-> [at \in StashSlotSet |->
                     IF <<s, <<"stash", at>>>> \in marked THEN None
                     ELSE held[s].stash[at]]]

Tick ==
  /\ now < MaxNow /\ now' = now + 1
  /\ \E held \in {[s \in Seats |-> Assembled(s)]} : SettleSales(held, MarkedAt(held))
  /\ UNCHANGED <<ground, atShop, dead, fell, lot, day>>

----------------------------------------------------------------------------
(* sell_item and check_sale; away from the shop the order marks the stack, *)
(* or unmarks it.  While its hero lies dead a seat sells what it bought    *)
(* since the hero fell (sale_while_down).                                  *)
Sellable == Items \ {"shared"}
MaySell(s, x) ==
  /\ x # None /\ x.owner = s /\ x.id \in Sellable /\ x.free = 0

SellsWhileDown(s, p) ==
  s \in dead /\ p[2] # Portal /\ StackAt(s, p).bought >= fell[s]

Sell(s, p) ==
  LET x == StackAt(s, p)
  IN  /\ MaySell(s, x)
      /\ \/ s \notin dead /\ (p[1] = "stash" \/ s \in atShop)
         \/ SellsWhileDown(s, p)
      /\ NowHolds(s, WithSlot(Holdings(s), p, None))
      /\ \E back \in SalePrices(x) :
           /\ gold' = [gold EXCEPT ![s] = @ + back]
           /\ spent' = spent + Worth(x) - back
      /\ UNCHANGED <<ground, lot, day, rest>>

Mark(s, p) ==
  LET x == StackAt(s, p)
  IN  /\ MaySell(s, x) /\ s \notin dead \cup atShop /\ p[1] = "bag" /\ p[2] # Portal
      /\ NowHolds(s, WithSlot(Holdings(s), p, [x EXCEPT !.sale = ~ @]))
      /\ UNCHANGED <<gold, ground, lot, day, spent, rest>>

(* disassemble_item: the parts locked, the first where the build was, the  *)
(* rest in the bag it came out of, and on the ground without room.  The    *)
(* stash is in reach at the shop and while dead.                           *)
PartOf(x, k) ==
  [Bought(Parts[x.id][k], x.owner, PerBuy[Parts[x.id][k]], now,
          {l \in x.lots : Cardinality({m \in x.lots : m <= l}) = k})
   EXCEPT !.touched = TRUE, !.locked = TRUE, !.seen = x.seen,
          !.holder = x.holder, !.until = x.until]

TakesPart(b, y, combine) == IF Fits(b, y, combine) THEN Receive(b, y, combine) ELSE b

Disassemble(s, p) ==
  LET x == StackAt(s, p)
      first == WithSlot(Holdings(s), p, PartOf(x, 1))
      other == PartOf(x, 2)
      here == IF p[1] = "bag" THEN first.bag ELSE first.stash
      taken == TakesPart(here, other, p[1] = "bag")
  IN  /\ x # None /\ x.owner = s /\ Parts[x.id] # <<>>
      /\ p[1] = "stash" => s \in atShop \cup dead
      /\ NowHolds(s, IF p[1] = "bag" THEN [first EXCEPT !.bag = taken]
                     ELSE [first EXCEPT !.stash = taken])
      /\ ground' = IF Fits(here, other, p[1] = "bag") THEN ground
                   ELSE ground \cup {other}
      /\ UNCHANGED <<gold, lot, day, spent, rest>>

(* set_combine_lock. *)
Lock(s, p) ==
  LET x == StackAt(s, p)
  IN  /\ x # None /\ x.owner = s /\ x.id \in {"branch", "circlet"}
      /\ NowHolds(s, WithSlot(Holdings(s), p, [x EXCEPT !.locked = ~ @]))
      /\ UNCHANGED <<gold, ground, lot, day, spent, rest>>

(* move_item with the stash at one end: both slots taken, merged or        *)
(* swapped.  The stash is in reach at the shop and while dead.  A scroll   *)
(* goes whole into the town portal slot or stays (stow_scroll).            *)
Swap(s, p, q) ==
  LET x == StackAt(s, p)
      y == StackAt(s, q)
      join == MergeFrom(y, x, q[1] = "bag")
      Touch(z) == IF z = None THEN None ELSE [z EXCEPT !.touched = TRUE]
      swapped == WithSlot(WithSlot(Holdings(s), p, Touch(y)), q, Touch(x))
      merged == WithSlot(WithSlot(Holdings(s), p, OrNone(Touch(join.from))),
                         q, Touch(join.to))
      stowed == [WithSlot(Holdings(s), p, None) EXCEPT
                   !.bag = Receive(@, Touch(x), TRUE)]
  IN  /\ p # q /\ x # None /\ "stash" \in {p[1], q[1]} /\ p[2] # Portal
      /\ s \in atShop \cup dead
      /\ IF q[2] = Portal
         THEN /\ x.id = "scroll"
              /\ NowHolds(s, IF Fits(bag[s], x, TRUE) THEN stowed
                             ELSE WithSlot(Holdings(s), p, Touch(x)))
         ELSE NowHolds(s, IF y # None /\ join.ok THEN merged ELSE swapped)
      /\ UNCHANGED <<gold, ground, lot, day, spent, rest>>

----------------------------------------------------------------------------
(* give_one: one charge parted off for an ally, a Tango as a Tango         *)
(* (Shared), a ward as it is; at the ally's feet without room.             *)
Usable(s, at) ==
  /\ s \notin dead /\ (InInventory(at) \/ at = Portal)
  /\ bag[s][at] # None /\ bag[s][at].charges > 0

GiveKeeps(s, at, x) ==
  [bag EXCEPT ![s][at] = OrNone(PartOne(x, IF x.id = "tango" THEN "shared"
                                           ELSE "none").rest)]

Give(s, at, to) ==
  LET x == bag[s][at]
      into == IF x.id = "tango" THEN "shared" ELSE "none"
      parted == PartOne(x, into)
      one == [parted.one EXCEPT !.lots = {lot + 1}]
      bags == GiveKeeps(s, at, x)
  IN  /\ s # to /\ to \notin dead /\ lot < MaxLots
      /\ Usable(s, at) /\ x.id \in Wards \cup {"tango"}
      /\ IF Fits(bags[to], one, TRUE)
         THEN bag' = [bags EXCEPT ![to] = Receive(@, one, TRUE)] /\ UNCHANGED ground
         ELSE bag' = bags /\ ground' = ground \cup {one}
      /\ lot' = lot + 1
      /\ day' = [day EXCEPT ![lot + 1] = now]
      /\ UNCHANGED <<stash, gold, spent, rest>>

(* A use that went off: pay_for_use, dispense_ward, or spend_charge for a  *)
(* scroll read.                                                            *)
Use(s, at) ==
  LET x == bag[s][at]
      left == CASE x.id = "dispenser" -> SpendWard(x)
                [] x.id = "scroll" -> SpendOne(x)
                [] OTHER -> [x EXCEPT !.charges = @ - 1]
      kept == IF left.charges = 0 THEN None ELSE [left EXCEPT !.touched = TRUE]
  IN  /\ Usable(s, at) /\ x.mute = 0
      /\ bag' = [bag EXCEPT ![s][at] = kept]
      /\ spent' = spent + Worth(x) - (IF kept = None THEN 0 ELSE Worth(kept))
      /\ UNCHANGED <<stash, gold, ground, lot, day, rest>>

(* A Tango (Shared) lapses. *)
Lapse(s, at) ==
  /\ bag[s][at] # None /\ bag[s][at].id = "shared"
  /\ bag' = [bag EXCEPT ![s][at] = None]
  /\ spent' = spent + Worth(bag[s][at])
  /\ UNCHANGED <<stash, gold, ground, lot, day, rest>>

(* lay_at and take_from_ground. *)
Lay(s, at) ==
  /\ s \notin dead /\ at # Portal /\ bag[s][at] # None
  /\ ground' = ground \cup {[bag[s][at] EXCEPT !.touched = TRUE]}
  /\ bag' = [bag EXCEPT ![s][at] = None]
  /\ UNCHANGED <<stash, gold, lot, day, spent, rest>>
Take(s, x) ==
  /\ s \notin dead /\ x \in ground /\ Fits(bag[s], x, TRUE)
  /\ ground' = ground \ {x}
  /\ bag' = [bag EXCEPT ![s] = Receive(@, x, TRUE)]
  /\ UNCHANGED <<stash, gold, lot, day, spent, rest>>

(* The hero walks, falls and rises at its fountain.  What it carries when  *)
(* it falls is touched from then on, and a death dealt by the other side   *)
(* brings a scroll (bury_seat, lay_hero_down).                             *)
Walk(s) ==
  /\ s \notin dead
  /\ atShop' = IF s \in atShop THEN atShop \ {s} ELSE atShop \cup {s}
  /\ UNCHANGED <<bag, stash, gold, ground, dead, fell, now, lot, day, spent>>
Fall(s) ==
  LET worn == [at \in HeroSlots |->
                 IF bag[s][at] = None \/ at = Portal THEN bag[s][at]
                 ELSE [bag[s][at] EXCEPT !.touched = TRUE]]
      scroll == [FreeScroll(s) EXCEPT !.bought = now]
  IN  /\ s \in Mortal \ dead
      /\ dead' = dead \cup {s} /\ atShop' = atShop \ {s}
      /\ fell' = [fell EXCEPT ![s] = now]
      /\ \E due \in BOOLEAN :
           bag' = [bag EXCEPT ![s] = IF due /\ Fits(worn, scroll, TRUE)
                                     THEN Receive(worn, scroll, TRUE) ELSE worn]
      /\ UNCHANGED <<stash, gold, ground, now, lot, day, spent>>
Rise(s) ==
  /\ s \in dead
  /\ dead' = dead \ {s} /\ atShop' = atShop \cup {s}
  /\ UNCHANGED <<bag, stash, gold, ground, fell, now, lot, day, spent>>

Next ==
  \/ \E s \in Seats, item \in Shop : Buy(s, item)
  \/ \E s \in Seats, p \in Places :
       Sell(s, p) \/ Mark(s, p) \/ Disassemble(s, p) \/ Lock(s, p)
  \/ \E s \in Seats, p, q \in Places : Swap(s, p, q)
  \/ \E s, to \in Seats, at \in HeroSlots : Give(s, at, to)
  \/ \E s \in Seats, at \in HeroSlots : Use(s, at) \/ Lapse(s, at) \/ Lay(s, at)
  \/ \E s \in Seats : \E x \in ground : Take(s, x)
  \/ \E s \in Seats : Walk(s) \/ Fall(s) \/ Rise(s)
  \/ Tick

Spec == Init /\ [][Next]_vars

----------------------------------------------------------------------------
Held == {q \in Seats \X Places : StackAt(q[1], q[2]) # None}
Total ==
  MapThenSumSet(LAMBDA q : Worth(StackAt(q[1], q[2])), Held)
  + MapThenSumSet(LAMBDA x : Worth(x), ground)

\* Counts fit a byte, gold is never owed, and the town portal slot holds
\* scrolls alone.
TypeOK ==
  /\ \A q \in Held : LET x == StackAt(q[1], q[2])
                     IN  /\ x.id \in Items /\ x.charges \in 0 .. Byte
                         /\ x.sentries \in 0 .. Byte /\ x.free \in 0 .. x.charges
                         /\ x.id = "dispenser" => x.charges > 0 /\ x.sentries > 0
                         /\ q[2][2] = Portal => x.id = "scroll"
  /\ \A s \in Seats : gold[s] \in 0 .. StartGold * Cardinality(Seats)
  /\ now \in 1 .. MaxNow /\ lot \in 0 .. MaxLots

(***************************************************************************)
(* The books balance: the gold in hand, the shop's worth of everything the *)
(* side holds, and what uses, lapses and resale have cost are together     *)
(* what it began with.  No order of purchases, merges, wards brought       *)
(* together and planted, builds, disassemblies, gifts, moves, and sales    *)
(* makes or loses gold or goods (buy, merge_from, assemble_pool,           *)
(* disassemble_item, give_one, sell_item, settle_sales).                   *)
(***************************************************************************)
Books ==
  FoldSet(LAMBDA s, sum : sum + gold[s], 0, Seats) + Total + spent
    = StartGold * Cardinality(Seats)

\* No stack is in two places: each is where the code put it and nowhere
\* else, on the ground, in a bag or in a stash.
OnePlace ==
  \A l \in 1 .. MaxLots :
    Cardinality({q \in Held : l \in StackAt(q[1], q[2]).lots})
    + Cardinality({x \in ground : l \in x.lots}) <= 1

(***************************************************************************)
(* A lock holds: a locked stack is never built away (assemble_pool).       *)
(***************************************************************************)
LockedStays ==
  \A x \in {StackAt(q[1], q[2]) : q \in Held} : x.locked =>
    \A r \in Seats \X Places :
      LET y == StackAt(r[1], r[2])'
      IN  y # None /\ x.lots \subseteq y.lots => y.id = x.id \/ y.id \in Wards

(***************************************************************************)
(* A purchase never counts on a locked part, nor on one marked for sale or *)
(* another seat's: after it the buyer holds, in different slots, every     *)
(* part of what it bought that a build may use (purchase_pool).            *)
(***************************************************************************)
PurchaseSuffices ==
  lot' > lot => \A s \in Seats, item \in Shop : Parts[item] # <<>> /\ Buy(s, item) =>
    \E at \in [DOMAIN Parts[item] -> Places] :
      \A i \in DOMAIN at :
        /\ Counts(StackAt(s, at[i])', s) /\ StackAt(s, at[i])'.id = Parts[item][i]
        /\ \A j \in DOMAIN at : at[i] = at[j] => i = j

LockHolds == LockedStays /\ PurchaseSuffices

(***************************************************************************)
(* gear.rs on sell_while_down: what a dead hero's seat sells was paid for  *)
(* since the hero fell.  Not so: the check reads bought_tick, which builds *)
(* and disassemblies write afresh.                                         *)
(***************************************************************************)
DeadSellsOnlyNew ==
  [][\A s \in dead \cap dead' : gold'[s] > gold[s] /\ now' = now =>
       \A p \in Places : LET x == StackAt(s, p)
                         IN  x # None /\ StackAt(s, p)' = None =>
                               \A l \in x.lots : day[l] >= fell[s]]_vars

\* components/items.rs on part_one: no shop buys back what was given for
\* nothing.
\* Not so: part_one copies the mark for sale, and settle_sales asks for no more.
FreeNeverSold ==
  [][\A q \in Held : LET x == StackAt(q[1], q[2])
                     IN  (x.free > 0 /\ StackAt(q[1], q[2])' = None
                          /\ \A s \in Seats : gold'[s] >= gold[s])
                         => \A s \in Seats : gold'[s] = gold[s]]_vars

\* The books in every state, and the locks over every step.
Balanced == TypeOK /\ Books /\ OnePlace
BooksKept == []Balanced /\ [][LockHolds]_vars
=============================================================================
