------------------------------- MODULE Courier -------------------------------
(***************************************************************************)
(* A seat's courier: the errands it is sent on, one tick at a time, and    *)
(* what moves between the stash, its own bag and its owner's while the     *)
(* owner walks, fights, dies, marks things for sale and buys.  courier.rs  *)
(* over the bags of Stacks, settle_sales of gear.rs, the falls of fight.rs *)
(* and spawn.rs, and the order that breaks an errand off (interrupt of     *)
(* match_world.rs).                                                        *)
(*                                                                         *)
(* Where the courier stands is one of four places.  Home and the stash's   *)
(* spot are both within the base shop; the owner is met in the field.      *)
(***************************************************************************)
EXTENDS Stacks, Sequences

CONSTANTS Kinds,        \* the items the seat buys
          Hold,         \* slots of the courier's bag
          StashSlots,
          MaxLots,      \* purchases in a run
          MaxCalls,     \* orders to the courier in a run
          MaxDowned,     \* falls of the courier and of its owner in a run
          MaxRuns,      \* times the owner walks off in a run
          MaxMarks      \* marks and locks set or lifted in a run

CourierAssumption ==
  /\ Kinds \subseteq Items /\ Hold \in Nat /\ StashSlots \in Nat /\ MaxLots \in Nat
  /\ MaxCalls \in Nat /\ MaxDowned \in Nat /\ MaxRuns \in Nat /\ MaxMarks \in Nat

VARIABLES errand,       \* Errand
          at,           \* where the courier stands
          up, ownerUp,  \* whether courier and owner are alive
          bag,          \* the owner's bag
          load,         \* the courier's
          stash,
          sold,         \* the lots sold
          lot,          \* purchases so far
          calls, falls, runs, marks

vars == <<errand, at, up, ownerUp, bag, load, stash, sold, lot,
          calls, falls, runs, marks>>
goods == <<bag, load, stash, sold, lot>>
bounds == <<calls, falls, runs, marks>>

Seat == "seat"
Errands == {"none", "toOwner", "toStash", "putBack", "home"}
Places == {"home", "stash", "owner", "field"}
HeroSlots == SlotsWithPortal(Inv + Pack)
LoadSlots == 0 .. Hold - 1
StashSlotSet == 0 .. StashSlots - 1

Init ==
  /\ errand = "none" /\ at = "home" /\ up = TRUE /\ ownerUp = TRUE
  /\ bag = [k \in HeroSlots |-> None]
  /\ load = [k \in LoadSlots |-> None]
  /\ stash = [k \in StashSlotSet |-> None]
  /\ sold = {} /\ lot = 0
  /\ calls = 0 /\ falls = 0 /\ runs = 0 /\ marks = 0

----------------------------------------------------------------------------
Empty(b) == \A k \in DOMAIN b : b[k] = None
AnyMarked(b) == \E k \in DOMAIN b : b[k] # None /\ b[k].sale

\* What an operation leaves where it is: Return Items what is locked,
\* collecting for sale what is not marked.
Skips(skips, x) ==
  (skips = "locked" /\ x.locked) \/ (skips = "unmarked" /\ ~ x.sale)

(***************************************************************************)
(* Stacks passed on from one bag to another in slot order, each whole: a   *)
(* slot that is empty or that `skips` leaves alone is passed by, and the   *)
(* first stack without room ends it.                                       *)
(***************************************************************************)
PassOneForgetsToTake(w, k, combine, skips) ==
  LET x == w.from[k]
  IN  IF ~ w.on \/ x = None THEN w
      ELSE IF Skips(skips, x) THEN w
      ELSE IF ~ Fits(w.to, x, combine) THEN [w EXCEPT !.on = FALSE]
      ELSE [w EXCEPT !.to = Receive(@, x, combine)]
PassOne(w, k, combine, skips) ==
  LET x == w.from[k]
  IN  IF ~ w.on \/ x = None THEN w
      ELSE IF Skips(skips, x) THEN w
      ELSE IF ~ Fits(w.to, x, combine) THEN [w EXCEPT !.on = FALSE]
      ELSE [from |-> [w.from EXCEPT ![k] = None], to |-> Receive(w.to, x, combine),
            on |-> TRUE]

PassOn(from, n, to, combine, skips) ==
  LET step[k \in 0 .. n] ==
        IF k = 0 THEN [from |-> from, to |-> to, on |-> TRUE]
        ELSE PassOne(step[k - 1], k - 1, combine, skips)
  IN  step[n]

(* settle_sales, later in the same tick: what is marked and in the stash,  *)
(* or in the bag of a courier at the shop, is sold.  The owner's own bag   *)
(* sells the same way; here it is met in the field.                        *)
Unsold(b) == [k \in DOMAIN b |-> IF b[k] # None /\ b[k].sale THEN None ELSE b[k]]
SoldOf(b) == UNION {b[k].lots : k \in {j \in DOMAIN b : b[j] # None /\ b[j].sale}}
Settled(there, owners, cargo, waiting) ==
  LET here == up /\ there \in {"home", "stash"}
  IN  /\ bag' = owners
      /\ load' = IF here THEN Unsold(cargo) ELSE cargo
      /\ stash' = Unsold(waiting)
      /\ sold' = sold \cup SoldOf(waiting) \cup (IF here THEN SoldOf(cargo) ELSE {})

(* Walking towards a spot: it gets there in one tick or is on its way. *)
Walks(to) == at' \in {"field", to}

----------------------------------------------------------------------------
(* A tick of each errand.  Every one ends with the sales of that tick.     *)

\* take_the_stash.
TickToStash ==
  LET moved == PassOn(stash, StashSlots, load, TRUE, "nothing")
  IN  /\ up /\ errand = "toStash"
      /\ IF Empty(stash)
         THEN /\ errand' = IF Empty(load) THEN "home" ELSE "toOwner"
              /\ at' = at /\ Settled(at, bag, load, stash)
         ELSE IF at # "stash"
         THEN Walks("stash") /\ Settled(at, bag, load, stash) /\ UNCHANGED errand
         ELSE /\ errand' = IF moved.from # stash THEN "toOwner" ELSE "toStash"
              /\ at' = at /\ Settled(at, bag, moved.to, moved.from)
      /\ UNCHANGED <<up, ownerUp, lot, bounds>>

\* put_the_stash_back: locked cargo stays aboard.
PutBackUntilEmpty ==
  LET moved == PassOn(load, Hold, stash, FALSE, "locked")
  IN  /\ up /\ errand = "putBack"
      /\ IF Empty(load)
         THEN errand' = "home" /\ at' = at /\ Settled(at, bag, load, stash)
         ELSE IF at # "stash"
         THEN Walks("stash") /\ Settled(at, bag, load, stash) /\ UNCHANGED errand
         ELSE UNCHANGED <<errand, at>> /\ Settled(at, bag, moved.from, moved.to)
      /\ UNCHANGED <<up, ownerUp, lot, bounds>>
TickPutBack ==
  LET moved == PassOn(load, Hold, stash, FALSE, "locked")
  IN  /\ up /\ errand = "putBack"
      /\ IF Empty(load)
         THEN errand' = "home" /\ at' = at /\ Settled(at, bag, load, stash)
         ELSE IF at # "stash"
         THEN Walks("stash") /\ Settled(at, bag, load, stash) /\ UNCHANGED errand
         ELSE /\ errand' = "home" /\ at' = at
              /\ Settled(at, bag, moved.from, moved.to)
      /\ UNCHANGED <<up, ownerUp, lot, bounds>>

\* deliver: hand_over, then collect_marked.
TickToOwner ==
  LET over == PassOn(load, Hold, bag, TRUE, "nothing")
      back == PassOn(over.to, Inv + Pack, over.from, TRUE, "unmarked")
  IN  /\ up /\ errand = "toOwner"
      /\ IF ~ ownerUp
         THEN /\ errand' = IF Empty(load) THEN "home" ELSE "putBack"
              /\ at' = at /\ Settled(at, bag, load, stash)
         ELSE IF Empty(load) /\ ~ AnyMarked(bag)
         THEN errand' = "home" /\ at' = at /\ Settled(at, bag, load, stash)
         ELSE IF at # "owner"
         THEN Walks("owner") /\ Settled(at, bag, load, stash) /\ UNCHANGED errand
         ELSE /\ errand' = IF Empty(back.to) THEN "home" ELSE "putBack"
              /\ at' = at /\ Settled(at, back.from, back.to, stash)
      /\ UNCHANGED <<up, ownerUp, lot, bounds>>

\* go_home.
TickHome ==
  /\ up /\ errand = "home"
  /\ IF at = "home" THEN errand' = "none" /\ at' = at
     ELSE Walks("home") /\ UNCHANGED errand
  /\ Settled(at, bag, load, stash)
  /\ UNCHANGED <<up, ownerUp, lot, bounds>>

\* A tick with nothing to do but the sales.
TickIdle ==
  /\ errand = "none" \/ ~ up
  /\ Settled(at, bag, load, stash)
  /\ UNCHANGED <<errand, at, up, ownerUp, lot, bounds>>

Errand == TickToStash \/ TickPutBack \/ TickToOwner \/ TickHome

----------------------------------------------------------------------------
(* The courier is told: courier_take_stash, courier_return_items,          *)
(* courier_deliver.                                                        *)
SendCourier(e) ==
  /\ up /\ calls < MaxCalls /\ calls' = calls + 1
  /\ errand' = e
  /\ UNCHANGED <<at, up, ownerUp, goods, falls, runs, marks>>

(* Any order to its body breaks the errand off (interrupt), here a walk. *)
Interrupt ==
  /\ up /\ calls < MaxCalls /\ calls' = calls + 1
  /\ errand' = "none" /\ at' = "field"
  /\ UNCHANGED <<up, ownerUp, goods, falls, runs, marks>>

(* It falls with what it carries, and stands again at home on no errand. *)
CourierFalls ==
  /\ up /\ falls < MaxDowned /\ falls' = falls + 1
  /\ up' = FALSE /\ at' = "field"
  /\ load' = [k \in LoadSlots |->
                IF load[k] = None THEN None ELSE [load[k] EXCEPT !.touched = TRUE]]
  /\ UNCHANGED <<errand, ownerUp, bag, stash, sold, lot, calls, runs, marks>>
CourierStands ==
  /\ ~ up /\ up' = TRUE /\ at' = "home" /\ errand' = "none"
  /\ UNCHANGED <<ownerUp, goods, bounds>>

(* The owner: walks off, falls and rises, buys from afar, marks, locks.    *)
OwnerRuns ==
  /\ at = "owner" /\ runs < MaxRuns /\ runs' = runs + 1
  /\ at' = "field"
  /\ UNCHANGED <<errand, up, ownerUp, goods, calls, falls, marks>>
OwnerFalls ==
  /\ ownerUp /\ falls < MaxDowned /\ falls' = falls + 1
  /\ ownerUp' = FALSE /\ at' = IF at = "owner" THEN "field" ELSE at
  /\ UNCHANGED <<errand, up, goods, calls, runs, marks>>
OwnerRises ==
  /\ ~ ownerUp /\ ownerUp' = TRUE
  /\ UNCHANGED <<errand, at, up, goods, bounds>>

\* Away from the shop a purchase goes to the stash (place_shop_purchase).
Buy(item) ==
  LET x == Bought(item, Seat, 1, 0, {lot + 1})
  IN  /\ lot < MaxLots /\ Fits(stash, x, FALSE)
      /\ lot' = lot + 1
      /\ stash' = Receive(stash, x, FALSE)
      /\ UNCHANGED <<errand, at, up, ownerUp, bag, load, sold, bounds>>

\* sell_item away from the shop, and set_combine_lock, on a slot of the
\* owner's or of the courier's.
Flip(b, k, f) ==
  IF f = "sale" THEN [b EXCEPT ![k].sale = ~ @] ELSE [b EXCEPT ![k].locked = ~ @]
Flag(f) ==
  /\ marks < MaxMarks /\ marks' = marks + 1
  /\ \/ /\ ownerUp
        /\ \E k \in HeroSlots \ {Portal} : bag[k] # None /\ bag' = Flip(bag, k, f)
        /\ UNCHANGED load
     \/ /\ up /\ f = "sale" => at \notin {"home", "stash"}
        /\ \E k \in LoadSlots : load[k] # None /\ load' = Flip(load, k, f)
        /\ UNCHANGED bag
  /\ UNCHANGED <<errand, at, up, ownerUp, stash, sold, lot, calls, falls, runs>>

Next ==
  \/ Errand \/ TickIdle
  \/ \E e \in {"toStash", "putBack", "toOwner"} : SendCourier(e)
  \/ Interrupt \/ CourierFalls \/ CourierStands
  \/ OwnerRuns \/ OwnerFalls \/ OwnerRises
  \/ \E item \in Kinds : Buy(item)
  \/ \E f \in {"sale", "lock"} : Flag(f)

Spec == Init /\ [][Next]_vars

(***************************************************************************)
(* Every tick runs the errand a step on, a courier walking to a spot gets  *)
(* there, and who fell stands up when the wait is out.                     *)
(***************************************************************************)
Arrives == Errand /\ (at' # at => at' # "field")
LiveSpec ==
  Spec /\ WF_vars(Arrives) /\ WF_vars(TickIdle) /\ WF_vars(CourierStands)
       /\ WF_vars(OwnerRises)

----------------------------------------------------------------------------
Stacked(b) == {b[k] : k \in {j \in DOMAIN b : b[j] # None}}

\* An errand of the five, a place of the four, and in every slot a stack of
\* the seat's own with its charges within the cap.
TypeOK ==
  /\ errand \in Errands /\ at \in Places
  /\ DOMAIN bag = HeroSlots /\ DOMAIN load = LoadSlots
  /\ DOMAIN stash = StashSlotSet
  /\ \A x \in Stacked(bag) \cup Stacked(load) \cup Stacked(stash) :
       x.id \in Items /\ x.charges \in 1 .. Byte /\ x.owner = Seat
  /\ sold \subseteq 1 .. lot

(***************************************************************************)
(* Nothing is lost on the way and nothing is in two places: each purchase  *)
(* is in exactly one slot of the owner, the courier or the stash, or sold, *)
(* whatever orders, falls and refusals meet it (pass_on, take_the_stash,   *)
(* put_the_stash_back, deliver).                                           *)
(***************************************************************************)
Slots == ({"bag"} \X HeroSlots) \cup ({"load"} \X LoadSlots)
         \cup ({"stash"} \X StashSlotSet)
In(s) == CASE s[1] = "bag" -> bag[s[2]] [] s[1] = "load" -> load[s[2]]
           [] OTHER -> stash[s[2]]
NothingLost ==
  \A l \in 1 .. lot :
    Cardinality({s \in Slots : In(s) # None /\ l \in In(s).lots})
    + (IF l \in sold THEN 1 ELSE 0) = 1

(***************************************************************************)
(* Only what its owner had marked is sold, and only at the shop: no errand *)
(* and no merge sells a stack nobody marked.                               *)
(***************************************************************************)
SoldWasMarked ==
  [][\A l \in sold' \ sold :
       \E s \in Slots : In(s) # None /\ l \in In(s).lots /\ In(s).sale]_vars

(***************************************************************************)
(* Return Items keeps combine-locked cargo aboard: a locked stack leaves   *)
(* the courier for the stash on no errand but by being sold                *)
(* (put_the_stash_back).                                                   *)
(***************************************************************************)
LockedStaysAboard ==
  [][\A k \in LoadSlots :
       (load[k] # None /\ load[k].locked)
       => ~ \E j \in StashSlotSet : stash'[j] # None
                                    /\ load[k].lots \subseteq stash'[j].lots]_vars

(***************************************************************************)
(* Every errand comes to an end whatever falls, marks, locks and full bags *)
(* it meets, for an owner that walks off from it finitely often (MaxRuns): *)
(* the code has no timeout for a courier after an owner that never stops.  *)
(* But one: sent for a stash while its bag has no room for the first stack *)
(* there, the courier stands by the stash until told something else        *)
(* (take_the_stash answers false with nothing moved).                      *)
(***************************************************************************)
Waiting ==
  /\ errand = "toStash" /\ at = "stash" /\ ~ Empty(stash)
  /\ PassOn(stash, StashSlots, load, TRUE, "nothing").from = stash
ErrandEnds == (errand # "none") ~> (errand = "none" \/ Waiting)

(***************************************************************************)
(* What the courier took aboard for sale is sold: once a marked stack is   *)
(* in its bag, it is sold in the end, unless its owner lifts the mark or   *)
(* gives the courier orders without end.                                   *)
(***************************************************************************)
Aboard(l) == \E k \in LoadSlots : load[k] # None /\ load[k].sale /\ l \in load[k].lots
MarkedIsSold ==
  \A l \in 1 .. MaxLots :
    (Aboard(l) /\ errand = "putBack")
    ~> (l \in sold \/ (~ Aboard(l)) \/ (errand = "none" /\ at = "field"))

\* The goods in every state, and what every step may do with them.
GoodsKept == [](TypeOK /\ NothingLost) /\ SoldWasMarked /\ LockedStaysAboard
=============================================================================
