------------------------------- MODULE Backpack -------------------------------
(***************************************************************************)
(* What the backpack costs: a stack carried in it is inert, and one taken  *)
(* out of it into the inventory waits MuteTicks before it works again,     *)
(* unless it left within Grace ticks of the first time it entered that     *)
(* hero's backpack, or at a shop, or is built into something or taken      *)
(* apart meanwhile.  gear.rs (move_item, tick_gear, track_backpack,        *)
(* assemble_bags), disassemble.rs, handling.rs (what is laid down, taken   *)
(* and handed over), and the tick of world.rs that calls them.  The one    *)
(* build is a Bracer of a Circlet and a branch, once in a run.             *)
(***************************************************************************)
EXTENDS Stacks

CONSTANTS Heroes,       \* the heroes, each the seat that drives it
          Kinds,        \* the items the run buys
          MaxLots,      \* purchases in a run
          Charges,      \* charges a purchase brings of what stacks
          MaxNow        \* ticks in a run

HeroSlots == SlotsWithPortal(Inv + Pack)

VARIABLES bag,          \* [Heroes -> [HeroSlots -> stack or None]]
          ground,       \* the stacks that lie on the ground
          atShop,       \* the heroes that stand in a shop
          now,          \* World.tick
          lot,          \* purchases so far
          first         \* [lot -> [hero -> the tick a stack of it first
                        \* entered that hero's backpack, 0 while none has]]

vars == <<bag, ground, atShop, now, lot, first>>

Init ==
  /\ bag = [h \in Heroes |-> [at \in HeroSlots |-> None]]
  /\ ground = {} /\ atShop = {} /\ now = 1 /\ lot = 0
  /\ first = [l \in 1 .. MaxLots |-> [h \in Heroes |-> 0]]

----------------------------------------------------------------------------
\* track_backpack: residence brought into line with where the stacks lie.
Track(b, h, t) ==
  [at \in HeroSlots |->
     IF b[at] = None \/ at = Portal THEN b[at]
     ELSE IF InBackpack(at) THEN Enter(b[at], h, t) ELSE Leave(b[at])]

\* The end of every action: the bags as refresh_stats tracks them, and the
\* entries it records.
Tracked(bags, t) ==
  /\ bag' = [h \in Heroes |-> Track(bags[h], h, t)]
  /\ first' = [l \in 1 .. MaxLots |-> [h \in Heroes |->
                 IF first[l][h] = 0
                    /\ \E at \in HeroSlots :
                         /\ InBackpack(at) /\ bags[h][at] # None
                         /\ l \in bags[h][at].lots
                 THEN t ELSE first[l][h]]]

----------------------------------------------------------------------------
(* A purchase of a hero at the shop, put where place_shop_purchase says. *)
Buy(h, item) ==
  LET s == Bought(item, h, IF item \in Stackable THEN Charges ELSE 0, 0, {lot + 1})
  IN  /\ lot < MaxLots /\ h \in atShop
      /\ Fits(bag[h], s, TRUE)
      /\ lot' = lot + 1
      /\ Tracked([bag EXCEPT ![h] = Receive(@, s, TRUE)], now)
      /\ UNCHANGED <<ground, atShop, now>>

(* move_item between two slots of the hero's own bag.  The town portal     *)
(* slot gives nothing up and takes scrolls alone (swap_refusal).           *)
Swap(h, from, to) ==
  LET mute == IF h \in atShop THEN 0 ELSE MuteTicks
      b == Track(bag[h], h, now)
  IN  /\ from # to /\ bag[h][from] # None /\ from # Portal
      /\ to = Portal => bag[h][from].id = "scroll"
      /\ Tracked([bag EXCEPT ![h] = SwapSlots(b, from, to, mute, now)], now)
      /\ UNCHANGED <<ground, atShop, now, lot>>

(* lay_at: a stack on the ground, in nobody's backpack. *)
Lay(h, at) ==
  LET s == Leave(Track(bag[h], h, now)[at])
  IN  /\ at # Portal /\ bag[h][at] # None
      /\ ground' = ground \cup {[s EXCEPT !.touched = TRUE]}
      /\ Tracked([bag EXCEPT ![h][at] = None], now)
      /\ UNCHANGED <<atShop, now, lot>>

(* take_from_ground: the whole stack into a bag with room for it. *)
Take(h, s) ==
  /\ s \in ground /\ Fits(bag[h], s, TRUE)
  /\ ground' = ground \ {s}
  /\ Tracked([bag EXCEPT ![h] = Receive(@, s, TRUE)], now)
  /\ UNCHANGED <<atShop, now, lot>>

(* hand_to: the same out of one bag into an ally's; refused whole. *)
HandTo(h, at, to) ==
  LET s == [Leave(Track(bag[h], h, now)[at]) EXCEPT !.touched = TRUE]
  IN  /\ h # to /\ at # Portal /\ bag[h][at] # None
      /\ Fits(bag[to], s, TRUE)
      /\ Tracked([bag EXCEPT ![h][at] = None, ![to] = Receive(@, s, TRUE)], now)
      /\ UNCHANGED <<ground, atShop, now, lot>>

(* disassemble_item: the parts locked and ready for use, the first where   *)
(* the build was, the other where the bag has room or on the ground.       *)
PartOf(x, k) ==
  [Bought(<<"circlet", "branch">>[k], x.owner, 0, 0,
          {l \in x.lots : Cardinality({m \in x.lots : m <= l}) = k})
   EXCEPT !.touched = TRUE, !.locked = TRUE, !.seen = x.seen,
          !.holder = x.holder, !.until = x.until]

Disassemble(h, at) ==
  LET x == Track(bag[h], h, now)[at]
      b == [bag[h] EXCEPT ![at] = PartOf(x, 1)]
      other == PartOf(x, 2)
  IN  /\ bag[h][at] # None /\ bag[h][at].id = "bracer" /\ bag[h][at].owner = h
      /\ IF Fits(b, other, TRUE)
         THEN Tracked([bag EXCEPT ![h] = Receive(b, other, TRUE)], now) /\ UNCHANGED ground
         ELSE Tracked([bag EXCEPT ![h] = b], now) /\ ground' = ground \cup {Leave(other)}
      /\ UNCHANGED <<atShop, now, lot>>

(* set_combine_lock of a part. *)
Lock(h, at) ==
  /\ bag[h][at] # None /\ bag[h][at].id \in {"circlet", "branch"} /\ bag[h][at].owner = h
  /\ Tracked([bag EXCEPT ![h][at].locked = ~ @], now)
  /\ UNCHANGED <<ground, atShop, now, lot>>

(* A hero walks into a shop's range or out of it. *)
Walk(h) ==
  /\ atShop' = IF h \in atShop THEN atShop \ {h} ELSE atShop \cup {h}
  /\ UNCHANGED <<bag, ground, now, lot, first>>

(* assemble_pool over a hero's bag: its own parts, none of them locked,    *)
(* are built in the lower of their two slots.  The build works at once,    *)
(* however long its parts would have waited.                               *)
Assembled(b, h) ==
  LET of(item) == {at \in HeroSlots \ {Portal} :
                     b[at] # None /\ b[at].id = item /\ b[at].owner = h /\ ~ b[at].locked}
      c == First(of("circlet"))
      r == First(of("branch"))
      low == Smaller(c, r)
      built == [Bought("bracer", h, 0, 0, b[c].lots \cup b[r].lots) EXCEPT
                  !.touched = TRUE, !.seen = b[low].seen,
                  !.holder = b[low].holder, !.until = b[low].until]
  IN  IF of("circlet") = {} \/ of("branch") = {} THEN b
      ELSE [b EXCEPT ![c] = None, ![r] = None,
                     ![low] = InheritBuild(InheritBuild(built, b[c]), b[r])]

(* A tick: inactivity runs down, or is over at once at a shop (tick_gear); *)
(* the wards of a bag come together and what it holds the parts of is      *)
(* built (assemble_bags).                                                  *)
TickGear(b, h) ==
  [at \in HeroSlots |->
     IF b[at] = None THEN None
     ELSE [b[at] EXCEPT !.mute = IF h \in atShop THEN 0
                                 ELSE IF @ > 0 THEN @ - 1 ELSE 0]]
Tick ==
  /\ now < MaxNow
  /\ now' = now + 1
  /\ LET Gathered(h) == CombineWards(Track(TickGear(bag[h], h), h, now + 1), Inv + Pack)
     IN  Tracked([h \in Heroes |-> Assembled(Gathered(h), h)], now + 1)
  /\ UNCHANGED <<ground, atShop, lot>>

Next ==
  \/ \E h \in Heroes, k \in Kinds : Buy(h, k)
  \/ \E h \in Heroes, from, to \in HeroSlots : Swap(h, from, to)
  \/ \E h \in Heroes, at \in HeroSlots : Lay(h, at) \/ Disassemble(h, at) \/ Lock(h, at)
  \/ \E h \in Heroes : \E s \in ground : Take(h, s)
  \/ \E h, to \in Heroes, at \in HeroSlots : HandTo(h, at, to)
  \/ \E h \in Heroes : Walk(h)
  \/ Tick

Spec == Init /\ [][Next]_vars

----------------------------------------------------------------------------
Stack ==
  [id : Items, charges : 0 .. Byte, sentries : 0 .. Byte, sentryOn : BOOLEAN,
   free : 0 .. Byte, owner : Heroes, sale : BOOLEAN, locked : BOOLEAN,
   touched : BOOLEAN, bought : {0}, mute : 0 .. MuteTicks, seen : SUBSET Heroes,
   holder : Heroes \cup {NoHero}, until : 0 .. MaxNow + Grace,
   lots : SUBSET (1 .. MaxLots)]

\* The bags hold stacks or nothing, the town portal slot scrolls alone.
TypeOK ==
  /\ \A h \in Heroes, at \in HeroSlots : bag[h][at] # None => bag[h][at] \in Stack
  /\ \A h \in Heroes : bag[h][Portal] # None => bag[h][Portal].id = "scroll"
  /\ \A h \in Heroes, at \in HeroSlots :
       bag[h][at] # None /\ bag[h][at].id \in Stackable => bag[h][at].charges > 0
  /\ ground \subseteq Stack /\ now \in 1 .. MaxNow /\ lot \in 0 .. MaxLots

Everything ==
  ground \cup {bag[p[1]][p[2]] : p \in {q \in Heroes \X HeroSlots :
                                          bag[q[1]][q[2]] # None}}

Holds(s, l) == s # None /\ l \in s.lots

(***************************************************************************)
(* A stack remembers every hero whose backpack anything in it has been in, *)
(* through every merge, hand-over and stay on the ground                   *)
(* (BackpackHistory::inherit): grants once used stay used.                 *)
(***************************************************************************)
HistoryKept ==
  \A s \in Everything : \A l \in s.lots : \A h \in Heroes :
    first[l][h] > 0 => h \in s.seen

(***************************************************************************)
(* Grace is the first entry's alone: a stack in a backpack that may still  *)
(* leave it unmuted holds a purchase which entered that backpack for the   *)
(* first time within the last Grace ticks (BackpackHistory::enter), a part *)
(* of a build no later than the build might, and nothing anywhere else has *)
(* any grace running.                                                      *)
(***************************************************************************)
GraceIsFirst ==
  \A s \in Everything : Left(s, now) > 0 =>
    \E l \in s.lots, h \in Heroes :
      s.holder = h /\ first[l][h] > 0 /\ s.until <= first[l][h] + Grace

(***************************************************************************)
(* Nothing comes out of the backpack into the inventory ready for use by a *)
(* move of slots: unless the hero stands in a shop or grace was running,   *)
(* the stack a purchase ends up in waits the full time, be it the stack    *)
(* moved, the one it joined or the one it displaced.  A build taken apart  *)
(* in the backpack is no move: a part of it may land in the inventory and  *)
(* work at once (disassemble_item, part_stack's mute).                     *)
(***************************************************************************)
NoFreeExit ==
  now' = now /\ lot' = lot /\ ground' = ground =>
    \A h \in Heroes \ atShop, a, b \in HeroSlots :
      (/\ InBackpack(a) /\ InInventory(b)
       /\ bag[h][a] # None /\ bag'[h][b] # None
       /\ bag[h][a].lots \cap bag'[h][b].lots # {}
       /\ Left(bag[h][a], now) = 0 /\ bag[h][a].id # "bracer"
       /\ \A g \in Heroes \ {h} : bag'[g] = bag[g])
      => bag'[h][b].mute >= MuteTicks

(***************************************************************************)
(* Inactivity is served in full while a stack stays what it is: moved,     *)
(* merged, laid down, taken and handed over away from the shops, it loses  *)
(* at most a tick of it a tick, and a merge keeps the longer of two.  What *)
(* a stack is built into or taken apart into works at once (assemble_once  *)
(* and part_stack give mute 0).                                            *)
(***************************************************************************)
MuteIsServed ==
  \A s \in {x \in Everything : x.mute > 0} : \A l \in s.lots :
    \A h \in Heroes \ atShop, at \in HeroSlots :
      (/\ Holds(bag'[h][at], l)
       /\ bag'[h][at].id = s.id \/ s.id \in Wards
       /\ \A g \in atShop, b \in HeroSlots : ~ Holds(bag[g][b], l))
      => bag'[h][at].mute >= s.mute - (now' - now)

\* The grace of every stack, and the inactivity every step owes.
GraceRight == TypeOK /\ HistoryKept /\ GraceIsFirst
GraceServed == NoFreeExit /\ MuteIsServed
GraceKept == []GraceRight /\ [][GraceServed]_vars
=============================================================================
