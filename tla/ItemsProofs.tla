----------------------------- MODULE ItemsProofs -----------------------------
(***************************************************************************)
(* Proofs about Courier, for any slots, caps and numbers of purchases: no  *)
(* purchase is lost, doubled or sold unmarked on any errand.               *)
(*                                                                         *)
(* Stacks are passed on in a loop, so what a pass comes to takes induction *)
(* over the slots: SetInduction is induction for a set of numbers, from    *)
(* the least number outside it.                                            *)
(***************************************************************************)
EXTENDS Courier, FiniteSetTheorems, WellFoundedInduction, TLAPS

-----------------------------------------------------------------------------
(* Induction. *)

LEMMA LeastNatural ==
  ASSUME NEW T, T \subseteq Nat, T # {}
  PROVE  \E x \in T : \A y \in T : x <= y
  <1> DEFINE R == OpToRel(<, Nat)
  <1>1. IsWellFoundedOn(R, Nat)
    BY NatLessThanWellFounded
  <1>2. \A x, y \in Nat : <<y, x>> \in R <=> y < x
    BY DEF OpToRel
  <1> HIDE DEF R
  <1>3. PICK x \in T : \A y \in T : ~ (<<y, x>> \in R)
    BY <1>1, WFMin
  <1>4. ASSUME NEW y \in T PROVE x <= y
    <2>1. x \in Nat /\ y \in Nat
      OBVIOUS
    <2>2. ~ (y < x)
      BY <1>2, <1>3, <2>1
    <2> QED
      BY <2>1, <2>2
  <1> QED
    BY <1>4

LEMMA SetInduction ==
  ASSUME NEW S, 0 \in S, \A n \in Nat : n \in S => n + 1 \in S
  PROVE  Nat \subseteq S
  <1> SUFFICES ASSUME Nat \ S # {} PROVE FALSE
    OBVIOUS
  <1>1. PICK x \in Nat \ S : \A y \in Nat \ S : x <= y
    BY LeastNatural
  <1>2. x # 0 /\ x - 1 \in Nat /\ ~ (x <= x - 1) /\ (x - 1) + 1 = x
    OBVIOUS
  <1>3. x - 1 \in S
    BY <1>1, <1>2
  <1> QED
    BY <1>2, <1>3

\* A loop of n turns over states of V, turn k of which makes d[<<x, k>>] of x, has
\* a history.
Turns(V, n, d) == \A x \in V, k \in 1 .. n : d[<<x, k>>] \in V
History(V, n, v, d, f) ==
  f \in [0 .. n -> V] /\ f[0] = v /\ \A k \in 1 .. n : f[k] = d[<<f[k - 1], k>>]

LEMMA Iterates ==
  ASSUME NEW V, NEW n \in Nat, NEW v \in V, NEW d, Turns(V, n, d)
  PROVE  \E f : History(V, n, v, d, f)
  <1> USE DEF Turns, History
  <1> DEFINE Good(m, f) == f[0] = v /\ \A k \in 1 .. m : f[k] = d[<<f[k - 1], k>>]
             S == {m \in Nat : m <= n => \E f \in [0 .. m -> V] : Good(m, f)}
  <1>1. 0 \in S
    <2> DEFINE f == [k \in 0 .. 0 |-> v]
    <2>1. f \in [0 .. 0 -> V] /\ Good(0, f)
      OBVIOUS
    <2> QED
      BY <2>1
  <1>2. ASSUME NEW m \in Nat, m \in S PROVE m + 1 \in S
    <2> SUFFICES ASSUME m + 1 <= n PROVE \E f \in [0 .. m + 1 -> V] : Good(m + 1, f)
      OBVIOUS
    <2>1. PICK f \in [0 .. m -> V] : Good(m, f)
      BY <1>2
    <2> DEFINE g == [k \in 0 .. m + 1 |-> IF k = m + 1 THEN d[<<f[m], m + 1>>] ELSE f[k]]
    <2>2. g \in [0 .. m + 1 -> V]
      OBVIOUS
    <2>3. ASSUME NEW k \in 1 .. m + 1 PROVE g[k] = d[<<g[k - 1], k>>]
      <3>1. k - 1 \in 0 .. m + 1 /\ k - 1 # m + 1 /\ k \in 0 .. m + 1
        OBVIOUS
      <3>2. g[k - 1] = f[k - 1]
        BY <3>1
      <3>3. CASE k = m + 1
        <4>1. g[k] = d[<<f[m], m + 1>>] /\ k - 1 = m
          BY <3>1, <3>3
        <4> QED
          BY <3>2, <3>3, <4>1
      <3>4. CASE k # m + 1
        <4>1. g[k] = f[k] /\ k \in 1 .. m
          BY <3>1, <3>4
        <4>2. f[k] = d[<<f[k - 1], k>>]
          BY <2>1, <4>1
        <4> QED
          BY <3>2, <4>1, <4>2
      <3> QED
        BY <3>3, <3>4
    <2>4. g[0] = v
      BY <2>1
    <2> HIDE DEF g
    <2> QED
      BY <2>2, <2>3, <2>4
  <1> HIDE DEF S
  <1>3. Nat \subseteq S
    BY <1>1, <1>2, SetInduction
  <1> QED
    BY <1>3 DEF S

-----------------------------------------------------------------------------
(* Stacks and bags. *)

Stack ==
  [id : Items, charges : 1 .. Byte, sentries : 0 .. Byte, sentryOn : BOOLEAN, free : Nat,
   owner : {Seat}, sale : BOOLEAN, locked : BOOLEAN, touched : BOOLEAN, bought : Nat,
   mute : Nat, seen : {{}}, holder : {NoHero}, until : {0}, lots : (SUBSET Nat) \ {{}}]

Bags(D) == [D -> Stack \cup {None}]
LotsOf(y) == IF y = None THEN {} ELSE y.lots

LEMMA NoneIsNoStack ==
  None \notin Stack
  <1> SUFFICES ASSUME None \in Stack PROVE FALSE
    OBVIOUS
  <1>1. None.id \in Items
    BY DEF Stack
  <1> QED
    BY <1>1 DEF None, Items, Wards, Stackable

\* The fields of a stack, and a stack from its fields.
LEMMA StackFields ==
  ASSUME NEW s \in Stack
  PROVE  /\ s.id \in Items /\ s.charges \in 1 .. Byte /\ s.sentries \in 0 .. Byte
         /\ s.sentryOn \in BOOLEAN /\ s.free \in Nat /\ s.owner = Seat
         /\ s.sale \in BOOLEAN /\ s.locked \in BOOLEAN /\ s.touched \in BOOLEAN
         /\ s.bought \in Nat /\ s.mute \in Nat /\ s.seen = {} /\ s.holder = NoHero
         /\ s.until = 0 /\ s.lots \subseteq Nat /\ s.lots # {}
  BY DEF Stack

\* A stack with one field changed is a stack with the same purchases and mark, or
\* with the ones it was given.
LEMMA Recharged ==
  ASSUME NEW s \in Stack, NEW x \in 1 .. Byte
  PROVE  LET r == [s EXCEPT !.charges = x]
         IN  r \in Stack /\ r.lots = s.lots /\ r.sale = s.sale
  BY DEF Stack

LEMMA Refreed ==
  ASSUME NEW s \in Stack, NEW x \in Nat
  PROVE  LET r == [s EXCEPT !.free = x]
         IN  r \in Stack /\ r.lots = s.lots /\ r.sale = s.sale
  BY DEF Stack

LEMMA Remuted ==
  ASSUME NEW s \in Stack, NEW x \in Nat
  PROVE  LET r == [s EXCEPT !.mute = x]
         IN  r \in Stack /\ r.lots = s.lots /\ r.sale = s.sale
  BY DEF Stack

LEMMA Rebought ==
  ASSUME NEW s \in Stack, NEW x \in Nat
  PROVE  LET r == [s EXCEPT !.bought = x]
         IN  r \in Stack /\ r.lots = s.lots /\ r.sale = s.sale
  BY DEF Stack

LEMMA Retouched ==
  ASSUME NEW s \in Stack, NEW x \in BOOLEAN
  PROVE  LET r == [s EXCEPT !.touched = x]
         IN  r \in Stack /\ r.lots = s.lots /\ r.sale = s.sale
  BY DEF Stack

LEMMA Relocked ==
  ASSUME NEW s \in Stack, NEW x \in BOOLEAN
  PROVE  LET r == [s EXCEPT !.locked = x]
         IN  r \in Stack /\ r.lots = s.lots /\ r.sale = s.sale
  BY DEF Stack

LEMMA Reseen ==
  ASSUME NEW s \in Stack, NEW x \in {{}}
  PROVE  LET r == [s EXCEPT !.seen = x]
         IN  r \in Stack /\ r.lots = s.lots /\ r.sale = s.sale
  BY DEF Stack

LEMMA Sentried ==
  ASSUME NEW s \in Stack, NEW x \in 0 .. Byte
  PROVE  LET r == [s EXCEPT !.sentries = x]
         IN  r \in Stack /\ r.lots = s.lots /\ r.sale = s.sale
  BY DEF Stack

LEMMA SentryTurned ==
  ASSUME NEW s \in Stack, NEW x \in BOOLEAN
  PROVE  LET r == [s EXCEPT !.sentryOn = x]
         IN  r \in Stack /\ r.lots = s.lots /\ r.sale = s.sale
  BY DEF Stack

LEMMA Renamed ==
  ASSUME NEW s \in Stack, NEW x \in Items
  PROVE  LET r == [s EXCEPT !.id = x]
         IN  r \in Stack /\ r.lots = s.lots /\ r.sale = s.sale
  BY DEF Stack

LEMMA Relotted ==
  ASSUME NEW s \in Stack, NEW x \in (SUBSET Nat) \ {{}}
  PROVE  LET r == [s EXCEPT !.lots = x]
         IN  r \in Stack /\ r.lots = x /\ r.sale = s.sale
  BY DEF Stack

LEMMA Marked ==
  ASSUME NEW s \in Stack, NEW x \in BOOLEAN
  PROVE  LET r == [s EXCEPT !.sale = x]
         IN  r \in Stack /\ r.lots = s.lots /\ r.sale = x
  BY DEF Stack

\* The restrictions a merge takes over change neither purchases nor mark.
LEMMA SettleKeeps ==
  ASSUME NEW t \in Stack, NEW s \in Stack
  PROVE  /\ Settle(t, s) \in Stack
         /\ Settle(t, s).lots = t.lots /\ Settle(t, s).sale = t.sale
  <1> DEFINE mute == Larger(t.mute, s.mute)
             bought == Smaller(t.bought, s.bought)
             touched == t.touched \/ s.touched
             lock == t.locked \/ s.locked
             r1 == [t EXCEPT !.mute = mute]
             r2 == [r1 EXCEPT !.bought = bought]
             r3 == [r2 EXCEPT !.touched = touched]
             r4 == [r3 EXCEPT !.locked = lock]
             seen == r4.seen \cup s.seen
  <1>1. Settle(t, s) = [r4 EXCEPT !.seen = seen]
    BY DEF Settle, Inherit
  <1>2. mute \in Nat /\ bought \in Nat /\ touched \in BOOLEAN /\ lock \in BOOLEAN
    BY StackFields DEF Larger, Smaller
  <1> HIDE DEF mute, bought, touched, lock
  <1>3. r1 \in Stack /\ r1.lots = t.lots /\ r1.sale = t.sale
    BY <1>2, Remuted
  <1> HIDE DEF r1
  <1>4. r2 \in Stack /\ r2.lots = t.lots /\ r2.sale = t.sale
    BY <1>2, <1>3, Rebought
  <1> HIDE DEF r2
  <1>5. r3 \in Stack /\ r3.lots = t.lots /\ r3.sale = t.sale
    BY <1>2, <1>4, Retouched
  <1> HIDE DEF r3
  <1>6. r4 \in Stack /\ r4.lots = t.lots /\ r4.sale = t.sale
    BY <1>2, <1>5, Relocked
  <1> HIDE DEF r4
  <1>7. seen \in {{}}
    BY <1>6, StackFields
  <1> QED
    BY <1>1, <1>6, <1>7, Reseen

\* A stack that fits whole joins all of its charges and purchases to the other's,
\* which was marked for sale if and only if it was.
LEMMA MergesWhole ==
  ASSUME StacksAssumption, NEW t \in Stack, NEW s \in Stack, NEW c \in BOOLEAN,
         NEW combine \in BOOLEAN, c => combine, FitsIn(t, s, c)
  PROVE  /\ MergeFrom(t, s, combine).to \in Stack
         /\ MergeFrom(t, s, combine).to.lots = t.lots \cup s.lots
         /\ MergeFrom(t, s, combine).to.sale = s.sale /\ t.sale = s.sale
  <1>1. Byte \in Nat
    BY DEF StacksAssumption
  <1>2. /\ t.id \in Items /\ t.charges \in 1 .. Byte /\ t.sentries \in 0 .. Byte
        /\ t.sentryOn \in BOOLEAN /\ t.free \in Nat /\ t.owner = Seat
        /\ t.sale \in BOOLEAN /\ t.locked \in BOOLEAN /\ t.touched \in BOOLEAN
        /\ t.bought \in Nat /\ t.mute \in Nat /\ t.seen = {} /\ t.holder = NoHero
        /\ t.until = 0 /\ t.lots \subseteq Nat /\ t.lots # {}
    BY StackFields
  <1>3. /\ s.id \in Items /\ s.charges \in 1 .. Byte /\ s.sentries \in 0 .. Byte
        /\ s.sentryOn \in BOOLEAN /\ s.free \in Nat /\ s.owner = Seat
        /\ s.sale \in BOOLEAN /\ s.locked \in BOOLEAN /\ s.touched \in BOOLEAN
        /\ s.bought \in Nat /\ s.mute \in Nat /\ s.seen = {} /\ s.holder = NoHero
        /\ s.until = 0 /\ s.lots \subseteq Nat /\ s.lots # {}
    BY StackFields
  <1>4. MergeRoom(t, s, c) >= s.charges
    BY DEF FitsIn
  <1>5. t.sale = s.sale
    BY <1>1, <1>3, <1>4 DEF MergeRoom
  <1>6. CASE t.id = s.id /\ t.id \in Stackable
    <2> DEFINE room == Byte - t.charges
               moved == Smaller(room, s.charges)
               free == Smaller(moved, s.free)
               left == [s EXCEPT !.charges = @ - moved, !.free = @ - free,
                                 !.lots = IF moved = s.charges THEN {} ELSE @]
               sum == [t EXCEPT !.charges = @ + moved, !.free = @ + free,
                                !.lots = @ \cup (s.lots \ left.lots)]
               m == MergeFrom(t, s, combine)
    <2>1. MergeRoom(t, s, c) = room /\ MergeRoom(t, s, combine) = room
      BY <1>1, <1>2, <1>3, <1>5, <1>6 DEF MergeRoom
    <2>2. moved = s.charges /\ room # 0 /\ free \in Nat /\ t.charges + moved \in 1 .. Byte
      BY <1>1, <1>2, <1>3, <1>4, <2>1 DEF Smaller
    <2>3. left.lots = {}
      BY <2>2 DEF Stack
    <2>4. m.to = Settle(sum, s)
      BY <1>6, <2>1, <2>2 DEF MergeFrom
    <2> HIDE DEF m, left, free, moved, room
    <2>5. sum \in Stack /\ sum.lots = t.lots \cup s.lots /\ sum.sale = t.sale
      <3> DEFINE r1 == [t EXCEPT !.charges = t.charges + moved]
                 r2 == [r1 EXCEPT !.free = t.free + free]
                 all == t.lots \cup (s.lots \ left.lots)
      <3>1. sum = [r2 EXCEPT !.lots = all]
        OBVIOUS
      <3>2. all \in (SUBSET Nat) \ {{}} /\ all = t.lots \cup s.lots /\ t.free + free \in Nat
        BY <1>2, <1>3, <2>2, <2>3
      <3> HIDE DEF all, sum
      <3>3. r1 \in Stack /\ r1.sale = t.sale
        BY <2>2, Recharged
      <3> HIDE DEF r1
      <3>4. r2 \in Stack /\ r2.sale = t.sale
        BY <3>2, <3>3, Refreed
      <3> HIDE DEF r2
      <3> QED
        BY <3>1, <3>2, <3>4, Relotted
    <2> HIDE DEF sum
    <2>6. Settle(sum, s) \in Stack /\ Settle(sum, s).lots = sum.lots /\ Settle(sum, s).sale = sum.sale
      BY <2>5, SettleKeeps
    <2> QED
      BY <1>5, <2>4, <2>5, <2>6 DEF m
  <1>7. CASE ~ (t.id = s.id /\ t.id \in Stackable)
    <2> DEFINE o == WardCounts(t)[1] + WardCounts(s)[1]
               n == WardCounts(t)[2] + WardCounts(s)[2]
               fresh == t.id # "dispenser"
               ward == [t EXCEPT !.sentryOn = IF fresh THEN s.sentryOn ELSE @]
               built == IF fresh THEN InheritBuild(ward, s) ELSE ward
               sum == [built EXCEPT !.id = "dispenser", !.charges = o, !.sentries = n,
                                    !.lots = @ \cup s.lots]
               m == MergeFrom(t, s, combine)
    <2>1. /\ t.id \in Wards /\ s.id \in Wards /\ c = TRUE
          /\ \A k \in 1 .. 2 : WardCounts(t)[k] + WardCounts(s)[k] <= Byte
      BY <1>1, <1>3, <1>4, <1>7 DEF MergeRoom
    <2>2. MergeRoom(t, s, combine) = Byte /\ Byte # 0
      BY <1>1, <1>2, <1>3, <1>5, <1>7, <2>1 DEF MergeRoom, StacksAssumption
    <2>3. o \in 1 .. Byte /\ n \in 0 .. Byte
      <3>1. t.id # s.id \/ t.id = "dispenser"
        BY <1>7, <2>1 DEF Wards, Stackable
      <3>2. o <= Byte /\ n <= Byte
        BY <2>1
      <3>3. t.id = "observer" \/ t.id = "sentry" \/ t.id = "dispenser"
        BY <2>1 DEF Wards
      <3>4. s.id = "observer" \/ s.id = "sentry" \/ s.id = "dispenser"
        BY <2>1 DEF Wards
      <3>5. /\ WardCounts(t)[1] \in Nat /\ WardCounts(t)[2] \in Nat
            /\ t.id # "sentry" => WardCounts(t)[1] >= 1
        BY <1>1, <1>2, <3>3 DEF WardCounts
      <3>6. /\ WardCounts(s)[1] \in Nat /\ WardCounts(s)[2] \in Nat
            /\ s.id # "sentry" => WardCounts(s)[1] >= 1
        BY <1>1, <1>3, <3>4 DEF WardCounts
      <3> QED
        BY <1>1, <3>1, <3>2, <3>3, <3>4, <3>5, <3>6
    <2>4. m.to = Settle(sum, s)
      BY <1>7, <2>2 DEF MergeFrom
    <2> HIDE DEF m, o, n
    <2>5. ward \in Stack /\ ward.lots = t.lots /\ ward.sale = t.sale
      BY <1>2, <1>3 DEF Stack
    <2> HIDE DEF ward
    <2>6. built \in Stack /\ built.lots = ward.lots /\ built.sale = ward.sale
      <3>1. ward.holder = NoHero /\ ward.seen = {}
        BY <2>5 DEF Stack
      <3>2. InheritBuild(ward, s) = Inherit(ward, s)
        BY <3>1 DEF InheritBuild
      <3>3. /\ Inherit(ward, s) \in Stack /\ Inherit(ward, s).lots = ward.lots
            /\ Inherit(ward, s).sale = ward.sale
        BY <1>3, <2>5, <3>1 DEF Inherit, Stack
      <3> QED
        BY <2>5, <3>2, <3>3
    <2> HIDE DEF built
    <2>7. sum \in Stack /\ sum.lots = built.lots \cup s.lots /\ sum.sale = built.sale
      BY <1>3, <2>3, <2>6 DEF Stack, Items, Wards
    <2> HIDE DEF sum
    <2>8. Settle(sum, s) \in Stack /\ Settle(sum, s).lots = sum.lots /\ Settle(sum, s).sale = sum.sale
      BY <2>7, SettleKeeps
    <2> QED
      BY <1>5, <2>4, <2>5, <2>6, <2>7, <2>8 DEF m
  <1> QED
    BY <1>6, <1>7

\* The slots of a bag: numbers, and the town portal slot.
SlotSet(D) == D \subseteq Nat \cup {Portal}

LEMMA FirstIsOne ==
  ASSUME NEW S, S \subseteq Nat, S # {}
  PROVE  First(S) \in S
  <1>1. \E a \in S : \A b \in S : a <= b
    BY LeastNatural
  <1> QED
    BY <1>1 DEF First

\* A stack that fits has a slot, which is empty or holds a stack it joins whole.
LEMMA HasPlace ==
  ASSUME NEW D, SlotSet(D), NEW b \in Bags(D), NEW s \in Stack, NEW combine \in BOOLEAN,
         Fits(b, s, combine)
  PROVE  LET slot == ReceivingSlot(b, s, combine)
         IN  /\ slot \in D
             /\ \/ b[slot] = None
                \/ b[slot] # None /\ \E c \in BOOLEAN : (c => combine) /\ FitsIn(b[slot], s, c)
  <1> DEFINE slot == ReceivingSlot(b, s, combine)
             slots == DOMAIN b \ {Portal}
             merge == {k \in slots : FitsIn(b[k], s, combine)}
             empty == {k \in slots : b[k] = None}
  <1>1. slot # NoSlot
    BY DEF Fits
  <1>2. DOMAIN b = D
    BY DEF Bags
  <1>3. slots \subseteq Nat /\ merge \subseteq Nat /\ empty \subseteq Nat
    BY <1>2 DEF SlotSet
  <1>4. slot = IF s.id = "scroll" /\ Portal \in DOMAIN b
               THEN IF b[Portal] = None \/ FitsIn(b[Portal], s, FALSE) THEN Portal ELSE NoSlot
               ELSE IF merge # {} THEN First(merge)
               ELSE IF empty # {} THEN First(empty) ELSE NoSlot
    BY DEF ReceivingSlot
  <1>5. CASE s.id = "scroll" /\ Portal \in DOMAIN b
    <2>1. slot = Portal /\ (b[Portal] = None \/ FitsIn(b[Portal], s, FALSE))
      BY <1>1, <1>4, <1>5
    <2> QED
      BY <1>2, <1>5, <2>1
  <1>6. CASE ~ (s.id = "scroll" /\ Portal \in DOMAIN b) /\ merge # {}
    <2>1. slot = First(merge) /\ First(merge) \in merge
      BY <1>3, <1>4, <1>6, FirstIsOne
    <2>2. slot \in D /\ FitsIn(b[slot], s, combine)
      BY <1>2, <2>1
    <2> QED
      BY <2>2
  <1>7. CASE ~ (s.id = "scroll" /\ Portal \in DOMAIN b) /\ merge = {}
    <2>1. empty # {} /\ slot = First(empty)
      BY <1>1, <1>4, <1>7
    <2>2. slot \in empty
      BY <1>3, <2>1, FirstIsOne
    <2> QED
      BY <1>2, <2>2
  <1> QED
    BY <1>5, <1>6, <1>7

\* What a bag becomes by receiving a stack: in one slot, what was there and the
\* stack's purchases, with the stack's mark.
LEMMA Received ==
  ASSUME StacksAssumption, NEW D, SlotSet(D), NEW b \in Bags(D), NEW s \in Stack,
         NEW combine \in BOOLEAN, Fits(b, s, combine)
  PROVE  \E k \in D, y \in Stack :
           /\ Receive(b, s, combine) = [b EXCEPT ![k] = y]
           /\ y.lots = LotsOf(b[k]) \cup s.lots /\ y.sale = s.sale
           /\ b[k] # None => b[k].sale = s.sale
  <1> DEFINE k == ReceivingSlot(b, s, combine)
             y == IF b[k] = None THEN s ELSE MergeFrom(b[k], s, combine).to
  <1>1. /\ k \in D
        /\ \/ b[k] = None
           \/ b[k] # None /\ \E c \in BOOLEAN : (c => combine) /\ FitsIn(b[k], s, c)
    BY HasPlace
  <1>2. Receive(b, s, combine) = [b EXCEPT ![k] = y]
    BY DEF Receive, PutIn
  <1> HIDE DEF k
  <1>3. y \in Stack /\ y.lots = LotsOf(b[k]) \cup s.lots /\ y.sale = s.sale
        /\ (b[k] # None => b[k].sale = s.sale)
    <2>1. CASE b[k] = None
      BY <2>1 DEF LotsOf
    <2>2. CASE b[k] # None
      <3>1. PICK c \in BOOLEAN : (c => combine) /\ FitsIn(b[k], s, c)
        BY <1>1, <2>2
      <3>2. b[k] \in Stack
        BY <1>1, <2>2 DEF Bags
      <3>3. /\ MergeFrom(b[k], s, combine).to \in Stack
            /\ MergeFrom(b[k], s, combine).to.lots = b[k].lots \cup s.lots
            /\ MergeFrom(b[k], s, combine).to.sale = s.sale /\ b[k].sale = s.sale
        BY <3>1, <3>2, MergesWhole
      <3> QED
        BY <2>2, <3>3 DEF LotsOf
    <2> QED
      BY <2>1, <2>2
  <1> HIDE DEF y
  <1> QED
    BY <1>1, <1>2, <1>3

\* The purchases in a bag, and those marked for sale; a bag that has none twice.
Held(b) == {l \in Nat : \E k \in DOMAIN b : l \in LotsOf(b[k])}
Marks(b) == {l \in Nat : \E k \in DOMAIN b : b[k] # None /\ b[k].sale /\ l \in b[k].lots}
Apart(b) == \A j, k \in DOMAIN b : j # k => LotsOf(b[j]) \cap LotsOf(b[k]) = {}

\* Two bags that share no purchase.
Disjoint(f, t) == Apart(f) /\ Apart(t) /\ Held(f) \cap Held(t) = {}

\* Bags f2 and t2 are what stacks passed on from f to t make of them.
Passed(f, t, f2, t2, skips) ==
  /\ Disjoint(f2, t2)
  /\ Held(f2) \cup Held(t2) = Held(f) \cup Held(t)
  /\ Marks(f2) \cup Marks(t2) = Marks(f) \cup Marks(t)
  /\ \A k \in DOMAIN f : f2[k] = None \/ f2[k] = f[k]
  /\ \A k \in DOMAIN f : f[k] # None /\ Skips(skips, f[k]) => f2[k] = f[k]

\* What a slot of a bag holds.
LEMMA InBags ==
  ASSUME NEW D, NEW b \in Bags(D), NEW k \in D
  PROVE  /\ DOMAIN b = D
         /\ b[k] = None \/ b[k] \in Stack
         /\ LotsOf(b[k]) \subseteq Nat /\ LotsOf(b[k]) \subseteq Held(b)
         /\ b[k] # None => b[k].sale \in BOOLEAN /\ LotsOf(b[k]) = b[k].lots /\ b[k].lots # {}
  <1>1. DOMAIN b = D /\ (b[k] = None \/ b[k] \in Stack)
    BY DEF Bags
  <1>2. LotsOf(b[k]) \subseteq Nat
    BY <1>1, StackFields DEF LotsOf
  <1>3. LotsOf(b[k]) \subseteq Held(b)
    BY <1>1, <1>2 DEF Held
  <1>4. b[k] # None => b[k].sale \in BOOLEAN /\ LotsOf(b[k]) = b[k].lots /\ b[k].lots # {}
    BY <1>1, StackFields DEF LotsOf
  <1> QED
    BY <1>1, <1>2, <1>3, <1>4

\* A stack goes from slot i of one bag into slot k of another, which then holds y.
Goes(f, i, t, k, y) ==
  /\ f[i] # None /\ y.lots = LotsOf(t[k]) \cup f[i].lots /\ y.sale = f[i].sale
  /\ t[k] # None => t[k].sale = f[i].sale

SameGoods(f, t, f2, t2) ==
  /\ Disjoint(f2, t2)
  /\ Held(f2) \cup Held(t2) = Held(f) \cup Held(t)
  /\ Marks(f2) \cup Marks(t2) = Marks(f) \cup Marks(t)

LEMMA MovesOne ==
  ASSUME NEW DF, NEW DT, NEW f \in Bags(DF), NEW t \in Bags(DT), Disjoint(f, t),
         NEW i \in DF, NEW k \in DT, NEW y \in Stack, Goes(f, i, t, k, y)
  PROVE  SameGoods(f, t, [f EXCEPT ![i] = None], [t EXCEPT ![k] = y])
  <1> USE DEF Goes
  <1> DEFINE f2 == [f EXCEPT ![i] = None]
             t2 == [t EXCEPT ![k] = y]
  <1>1. DOMAIN f = DF /\ DOMAIN t = DT /\ DOMAIN f2 = DF /\ DOMAIN t2 = DT
    BY DEF Bags
  <1>2. f2 \in Bags(DF) /\ t2 \in Bags(DT)
    BY DEF Bags
  <1>3. /\ f2[i] = None /\ \A j \in DF : j # i => f2[j] = f[j]
        /\ t2[k] = y /\ \A j \in DT : j # k => t2[j] = t[j]
    BY <1>1
  <1> HIDE DEF f2, t2
  <1>4. y # None /\ LotsOf(y) = y.lots /\ f[i] \in Stack /\ LotsOf(f[i]) = f[i].lots
    BY NoneIsNoStack, InBags DEF LotsOf
  <1>5. /\ LotsOf(f2[i]) = {} /\ \A j \in DF : j # i => LotsOf(f2[j]) = LotsOf(f[j])
        /\ LotsOf(t2[k]) = LotsOf(t[k]) \cup LotsOf(f[i])
        /\ \A j \in DT : j # k => LotsOf(t2[j]) = LotsOf(t[j])
    BY <1>3, <1>4 DEF LotsOf
  <1>6. /\ \A j \in DF : LotsOf(f[j]) \subseteq Held(f)
        /\ \A j \in DT : LotsOf(t[j]) \subseteq Held(t)
    BY InBags
  <1>7. Held(f2) = Held(f) \ LotsOf(f[i])
    <2>1. ASSUME NEW l \in Nat PROVE l \in Held(f2) <=> l \in Held(f) /\ l \notin LotsOf(f[i])
      <3>1. l \in Held(f2) <=> \E j \in DF : j # i /\ l \in LotsOf(f[j])
        BY <1>1, <1>5 DEF Held
      <3>2. l \in Held(f) <=> \E j \in DF : l \in LotsOf(f[j])
        BY <1>1 DEF Held
      <3>3. \A j \in DF : j # i => LotsOf(f[j]) \cap LotsOf(f[i]) = {}
        BY <1>1 DEF Disjoint, Apart
      <3> QED
        BY <3>1, <3>2, <3>3
    <2> QED
      BY <2>1 DEF Held
  <1>8. Held(t2) = Held(t) \cup LotsOf(f[i])
    <2>1. ASSUME NEW l \in Nat PROVE l \in Held(t2) <=> l \in Held(t) \/ l \in LotsOf(f[i])
      <3>1. l \in Held(t2) <=> \E j \in DT : l \in LotsOf(t2[j])
        BY <1>1 DEF Held
      <3>2. l \in Held(t) <=> \E j \in DT : l \in LotsOf(t[j])
        BY <1>1 DEF Held
      <3> QED
        BY <1>5, <3>1, <3>2
    <2>2. LotsOf(f[i]) \subseteq Nat
      BY <1>6 DEF Held
    <2> QED
      BY <2>1, <2>2 DEF Held
  <1>9. Disjoint(f2, t2)
    <2>1. Apart(f2)
      BY <1>1, <1>5 DEF Disjoint, Apart
    <2>2. Apart(t2)
      <3> SUFFICES ASSUME NEW j \in DT, NEW m \in DT, j # m
                   PROVE  LotsOf(t2[j]) \cap LotsOf(t2[m]) = {}
        BY <1>1 DEF Apart
      <3>1. LotsOf(t[j]) \cap LotsOf(t[m]) = {}
        BY <1>1 DEF Disjoint, Apart
      <3>2. LotsOf(f[i]) \cap LotsOf(t[j]) = {} /\ LotsOf(f[i]) \cap LotsOf(t[m]) = {}
        BY <1>6 DEF Disjoint
      <3> QED
        BY <1>5, <3>1, <3>2
    <2>3. Held(f) \cap Held(t) = {}
      BY DEF Disjoint
    <2> QED
      BY <1>7, <1>8, <2>1, <2>2, <2>3 DEF Disjoint
  <1>10. Held(f2) \cup Held(t2) = Held(f) \cup Held(t)
    BY <1>6, <1>7, <1>8
  <1>11. Marks(f2) \cup Marks(t2) = Marks(f) \cup Marks(t)
    <2>1. ASSUME NEW l \in Nat
          PROVE l \in Marks(f2) \/ l \in Marks(t2) <=> l \in Marks(f) \/ l \in Marks(t)
      <3> DEFINE Has(b, D) == \E j \in D : b[j] # None /\ b[j].sale /\ l \in b[j].lots
      <3>1. /\ l \in Marks(f2) <=> Has(f2, DF)
            /\ l \in Marks(t2) <=> Has(t2, DT)
            /\ l \in Marks(f) <=> Has(f, DF)
            /\ l \in Marks(t) <=> Has(t, DT)
        BY <1>1 DEF Marks
      <3>2. Has(f, DF) => Has(f2, DF) \/ (f[i].sale /\ l \in f[i].lots)
        BY <1>3
      <3>3. Has(f2, DF) => Has(f, DF)
        BY <1>3
      <3>4. f[i].sale /\ l \in f[i].lots => Has(t2, DT) /\ Has(f, DF)
        BY <1>3, <1>4
      <3>5. Has(t, DT) => Has(t2, DT)
        BY <1>3, <1>4 DEF LotsOf
      <3>6. Has(t2, DT) => Has(t, DT) \/ (f[i].sale /\ l \in f[i].lots)
        <4> SUFFICES ASSUME NEW j \in DT, t2[j] # None /\ t2[j].sale /\ l \in t2[j].lots
                     PROVE  Has(t, DT) \/ (f[i].sale /\ l \in f[i].lots)
          OBVIOUS
        <4>1. CASE j # k
          BY <1>3, <4>1
        <4>2. CASE j = k
          BY <1>3, <4>2 DEF LotsOf
        <4> QED
          BY <4>1, <4>2
      <3> HIDE DEF Has
      <3> QED
        BY <3>1, <3>2, <3>3, <3>4, <3>5, <3>6
    <2> QED
      BY <2>1 DEF Marks
  <1> QED
    BY <1>9, <1>10, <1>11 DEF f2, t2, SameGoods

\* The loop that passes stacks on: one turn of it, of slot i.
Passing(DF, DT) == [from : Bags(DF), to : Bags(DT), on : BOOLEAN]

LEMMA PassesOne ==
  ASSUME StacksAssumption, NEW DF, NEW DT, SlotSet(DT), NEW w \in Passing(DF, DT),
         NEW i \in DF, NEW combine \in BOOLEAN, NEW skips
  PROVE  /\ PassOne(w, i, combine, skips) \in Passing(DF, DT)
         /\ \A f \in Bags(DF), t \in Bags(DT) :
              Passed(f, t, w.from, w.to, skips)
              => Passed(f, t, PassOne(w, i, combine, skips).from,
                        PassOne(w, i, combine, skips).to, skips)
  <1> DEFINE x == w.from[i]
             v == PassOne(w, i, combine, skips)
             there == Receive(w.to, x, combine)
             here == [w.from EXCEPT ![i] = None]
  <1>1. w.from \in Bags(DF) /\ w.to \in Bags(DT) /\ w.on \in BOOLEAN
    BY DEF Passing
  <1>2. CASE ~ w.on \/ x = None \/ Skips(skips, x)
    <2>1. v = w
      BY <1>2 DEF PassOne
    <2> QED
      BY <2>1
  <1>3. CASE w.on /\ x # None /\ ~ Skips(skips, x) /\ ~ Fits(w.to, x, combine)
    <2>1. v = [w EXCEPT !.on = FALSE]
      BY <1>3 DEF PassOne
    <2>2. v \in Passing(DF, DT) /\ v.from = w.from /\ v.to = w.to
      BY <2>1 DEF Passing
    <2> QED
      BY <2>2
  <1>4. CASE w.on /\ x # None /\ ~ Skips(skips, x) /\ Fits(w.to, x, combine)
    <2>1. v = [from |-> here, to |-> there, on |-> TRUE]
      BY <1>4 DEF PassOne
    <2>2. x \in Stack
      BY <1>1, <1>4, InBags
    <2> DEFINE to == w.to
    <2>a. to \in Bags(DT) /\ Fits(to, x, combine) /\ there = Receive(to, x, combine)
      BY <1>1, <1>4
    <2> HIDE DEF to, x, there
    <2>b. \E k \in DT, y \in Stack :
            /\ Receive(to, x, combine) = [to EXCEPT ![k] = y]
            /\ y.lots = LotsOf(to[k]) \cup x.lots /\ y.sale = x.sale
            /\ to[k] # None => to[k].sale = x.sale
      BY <2>2, <2>a, Received
    <2> USE DEF to, x, there
    <2>3. PICK k \in DT, y \in Stack :
             /\ there = [w.to EXCEPT ![k] = y]
             /\ y.lots = LotsOf(w.to[k]) \cup x.lots /\ y.sale = x.sale
             /\ w.to[k] # None => w.to[k].sale = x.sale
      BY <2>b
    <2>4. here \in Bags(DF) /\ there \in Bags(DT)
      BY <1>1, <2>3 DEF Bags
    <2>5. v \in Passing(DF, DT) /\ v.from = here /\ v.to = there
      BY <2>1, <2>4 DEF Passing
    <2>6. ASSUME NEW f \in Bags(DF), NEW t \in Bags(DT), Passed(f, t, w.from, w.to, skips)
          PROVE  Passed(f, t, here, there, skips)
      <3>1. Disjoint(w.from, w.to)
        BY <2>6 DEF Passed
      <3>2. /\ Disjoint(here, there)
            /\ Held(here) \cup Held(there) = Held(w.from) \cup Held(w.to)
            /\ Marks(here) \cup Marks(there) = Marks(w.from) \cup Marks(w.to)
        <4> DEFINE a == w.from
                   b == w.to
        <4>1. /\ a \in Bags(DF) /\ b \in Bags(DT) /\ Disjoint(a, b) /\ Goes(a, i, b, k, y)
              /\ here = [a EXCEPT ![i] = None] /\ there = [b EXCEPT ![k] = y]
          BY <1>1, <1>4, <2>3, <3>1 DEF Goes
        <4> HIDE DEF a, b, here, there
        <4>2. SameGoods(a, b, here, there)
          BY <4>1, MovesOne
        <4> QED
          BY <4>2 DEF a, b, SameGoods
      <3>3. DOMAIN f = DF /\ DOMAIN w.from = DF
        BY <1>1 DEF Bags
      <3>4. here[i] = None /\ \A j \in DF : j # i => here[j] = w.from[j]
        BY <3>3
      <3> HIDE DEF here, there
      <3>5. \A j \in DF : here[j] = None \/ here[j] = f[j]
        BY <2>6, <3>3, <3>4 DEF Passed
      <3>6. \A j \in DF : f[j] # None /\ Skips(skips, f[j]) => here[j] = f[j]
        <4> SUFFICES ASSUME NEW j \in DF, f[j] # None, Skips(skips, f[j]) PROVE here[j] = f[j]
          OBVIOUS
        <4>1. w.from[j] = f[j]
          BY <2>6, <3>3 DEF Passed
        <4>2. j # i
          BY <1>4, <4>1
        <4> QED
          BY <3>4, <4>1, <4>2
      <3> QED
        BY <2>6, <3>2, <3>3, <3>5, <3>6 DEF Passed
    <2> QED
      BY <2>5, <2>6
  <1> QED
    BY <1>2, <1>3, <1>4

\* And the whole of it.
LEMMA PassesOn ==
  ASSUME StacksAssumption, NEW DF, NEW DT, SlotSet(DT), NEW f \in Bags(DF), NEW t \in Bags(DT),
         Disjoint(f, t), NEW n \in Nat, 0 .. n - 1 \subseteq DF, NEW combine \in BOOLEAN, NEW skips
  PROVE  LET w == PassOn(f, n, t, combine, skips)
         IN  w.from \in Bags(DF) /\ w.to \in Bags(DT) /\ Passed(f, t, w.from, w.to, skips)
  <1> DEFINE V == Passing(DF, DT)
             v == [from |-> f, to |-> t, on |-> TRUE]
             d == [p \in V \X (1 .. n) |-> PassOne(p[1], p[2] - 1, combine, skips)]
             Step(g) == [k \in 0 .. n |-> IF k = 0 THEN v
                                          ELSE PassOne(g[k - 1], k - 1, combine, skips)]
             g == CHOOSE h : h = Step(h)
  <1>1. PassOn(f, n, t, combine, skips) = g[n]
    BY DEF PassOn
  <1>2. v \in V
    BY DEF Passing
  <1>3. ASSUME NEW x \in V, NEW k \in 1 .. n
        PROVE PassOne(x, k - 1, combine, skips) \in V /\ d[<<x, k>>] = PassOne(x, k - 1, combine, skips)
    <2>1. k - 1 \in DF
      OBVIOUS
    <2> QED
      BY <2>1, PassesOne
  <1> HIDE DEF V, v, d
  <1>a. PICK h : History(V, n, v, d, h)
    <2>1. Turns(V, n, d)
      BY <1>3 DEF Turns
    <2> QED
      BY <1>2, <2>1, Iterates
  <1>4. h \in [0 .. n -> V] /\ h[0] = v /\ \A k \in 1 .. n : h[k] = d[<<h[k - 1], k>>]
    BY <1>a DEF History
  <1>5. h = Step(h)
    <2>1. ASSUME NEW k \in 0 .. n
          PROVE  h[k] = IF k = 0 THEN v ELSE PassOne(h[k - 1], k - 1, combine, skips)
      <3>1. CASE k = 0
        BY <1>4, <3>1
      <3>2. CASE k # 0
        <4>1. k \in 1 .. n /\ k - 1 \in 0 .. n
          BY <3>2
        <4>2. h[k] = d[<<h[k - 1], k>>] /\ h[k - 1] \in V
          BY <1>4, <4>1
        <4> QED
          BY <1>3, <3>2, <4>1, <4>2
      <3> QED
        BY <3>1, <3>2
    <2> QED
      BY <1>4, <2>1
  <1>6. g = Step(g)
    BY <1>5
  <1> HIDE DEF g
  <1>7. g[0] = v /\ \A k \in 1 .. n : g[k] = PassOne(g[k - 1], k - 1, combine, skips)
    <2> DEFINE E == Step(g)
    <2>1. E[0] = v /\ \A k \in 1 .. n : E[k] = PassOne(g[k - 1], k - 1, combine, skips)
      OBVIOUS
    <2> HIDE DEF E
    <2>2. E = g
      BY <1>6 DEF E
    <2> QED
      BY <2>1, <2>2
  <1> DEFINE S == {k \in Nat : k <= n => g[k] \in V /\ Passed(f, t, g[k].from, g[k].to, skips)}
  <1>8. 0 \in S
    <2>1. g[0] \in V /\ g[0].from = f /\ g[0].to = t
      BY <1>2, <1>7 DEF v
    <2>2. Passed(f, t, f, t, skips)
      BY DEF Passed
    <2> QED
      BY <2>1, <2>2
  <1>9. ASSUME NEW k \in Nat, k \in S PROVE k + 1 \in S
    <2> SUFFICES ASSUME k + 1 <= n
                 PROVE  g[k + 1] \in V /\ Passed(f, t, g[k + 1].from, g[k + 1].to, skips)
      OBVIOUS
    <2>1. k + 1 \in 1 .. n /\ (k + 1) - 1 = k /\ k \in DF
      OBVIOUS
    <2>2. g[k] \in V /\ Passed(f, t, g[k].from, g[k].to, skips)
      BY <1>9
    <2>3. g[k + 1] = PassOne(g[k], k, combine, skips)
      BY <1>7, <2>1
    <2> QED
      BY <2>1, <2>2, <2>3, PassesOne DEF V
  <1> HIDE DEF S
  <1>10. Nat \subseteq S
    BY <1>8, <1>9, SetInduction
  <1>11. g[n] \in V /\ Passed(f, t, g[n].from, g[n].to, skips)
    BY <1>10 DEF S
  <1> QED
    BY <1>1, <1>11 DEF V, Passing

-----------------------------------------------------------------------------
(* The goods of a seat: every purchase in one slot of the three bags or sold. *)

Kept(b, c, s, x, n) ==
  /\ b \in Bags(HeroSlots) /\ c \in Bags(LoadSlots) /\ s \in Bags(StashSlotSet)
  /\ Disjoint(b, c) /\ Disjoint(c, s) /\ Disjoint(b, s)
  /\ (Held(b) \cup Held(c) \cup Held(s)) \cap x = {}
  /\ Held(b) \cup Held(c) \cup Held(s) \cup x = 1 .. n

\* The three kinds of slots.
LEMMA SlotsAreSlots ==
  ASSUME StacksAssumption, CourierAssumption
  PROVE  SlotSet(HeroSlots) /\ SlotSet(LoadSlots) /\ SlotSet(StashSlotSet)
  BY DEF SlotSet, HeroSlots, SlotsWithPortal, LoadSlots, StashSlotSet, Portal,
         StacksAssumption, CourierAssumption

\* What is sold of a bag is what is marked in it, and the rest of it stays.
LEMMA SellsMarked ==
  ASSUME NEW D, NEW b \in Bags(D), Apart(b)
  PROVE  /\ Unsold(b) \in Bags(D) /\ Apart(Unsold(b))
         /\ SoldOf(b) = Marks(b) /\ Marks(b) \subseteq Held(b)
         /\ Held(Unsold(b)) = Held(b) \ Marks(b)
  <1> DEFINE u == Unsold(b)
             Goes1(k) == b[k] # None /\ b[k].sale
  <1>1. DOMAIN b = D /\ \A k \in D : b[k] = None \/ b[k] \in Stack
    BY DEF Bags
  <1>2. /\ DOMAIN u = D
        /\ \A k \in D : u[k] = IF Goes1(k) THEN None ELSE b[k]
    BY <1>1 DEF Unsold
  <1>3. u \in Bags(D)
    BY <1>1 DEF Unsold, Bags
  <1> HIDE DEF u
  <1>4. \A k \in D : LotsOf(u[k]) = IF Goes1(k) THEN {} ELSE LotsOf(b[k])
    BY <1>2 DEF LotsOf
  <1>5. \A k \in D : Goes1(k) => LotsOf(b[k]) = b[k].lots /\ b[k].lots \subseteq Nat
    BY InBags
  <1>6. Apart(u)
    BY <1>1, <1>2, <1>4 DEF Apart
  <1>7. SoldOf(b) = Marks(b)
    <2>1. ASSUME NEW l PROVE l \in SoldOf(b) <=> \E k \in D : Goes1(k) /\ l \in b[k].lots
      BY <1>1 DEF SoldOf
    <2>2. ASSUME NEW l PROVE l \in Marks(b) <=> l \in Nat /\ \E k \in D : Goes1(k) /\ l \in b[k].lots
      BY <1>1 DEF Marks
    <2> QED
      BY <1>5, <2>1, <2>2
  <1>8. Marks(b) \subseteq Held(b)
    BY <1>1, <1>5 DEF Marks, Held
  <1>9. Held(u) = Held(b) \ Marks(b)
    <2>1. ASSUME NEW l \in Nat PROVE l \in Held(u) <=> l \in Held(b) /\ l \notin Marks(b)
      <3>1. l \in Held(u) <=> \E k \in D : ~ Goes1(k) /\ l \in LotsOf(b[k])
        BY <1>2, <1>4 DEF Held
      <3>2. l \in Held(b) <=> \E k \in D : l \in LotsOf(b[k])
        BY <1>1 DEF Held
      <3>3. l \in Marks(b) <=> \E k \in D : Goes1(k) /\ l \in LotsOf(b[k])
        BY <1>1, <1>5 DEF Marks
      <3>4. \A j, k \in D : j # k => LotsOf(b[j]) \cap LotsOf(b[k]) = {}
        BY <1>1 DEF Apart
      <3> HIDE DEF Goes1
      <3> QED
        BY <3>1, <3>2, <3>3, <3>4
    <2> QED
      BY <2>1 DEF Held
  <1> QED
    BY <1>3, <1>6, <1>7, <1>8, <1>9 DEF u

\* The sales at the end of a tick.
LEMMA SettlesKept ==
  ASSUME NEW b, NEW c, NEW s, Kept(b, c, s, sold, lot), NEW there, Settled(there, b, c, s),
         lot' = lot
  PROVE  /\ Kept(bag', load', stash', sold', lot')
         /\ sold' \ sold \subseteq Marks(c) \cup Marks(s)
         /\ Held(stash') \subseteq Held(s)
  <1> DEFINE here == up /\ there \in {"home", "stash"}
             c2 == IF here THEN Unsold(c) ELSE c
             gone == IF here THEN Marks(c) ELSE {}
  <1>1. /\ b \in Bags(HeroSlots) /\ c \in Bags(LoadSlots) /\ s \in Bags(StashSlotSet)
        /\ Apart(b) /\ Apart(c) /\ Apart(s)
        /\ Held(b) \cap Held(c) = {} /\ Held(c) \cap Held(s) = {} /\ Held(b) \cap Held(s) = {}
        /\ (Held(b) \cup Held(c) \cup Held(s)) \cap sold = {}
        /\ Held(b) \cup Held(c) \cup Held(s) \cup sold = 1 .. lot
    BY DEF Kept, Disjoint
  <1>2. /\ Unsold(c) \in Bags(LoadSlots) /\ Apart(Unsold(c)) /\ SoldOf(c) = Marks(c)
        /\ Marks(c) \subseteq Held(c) /\ Held(Unsold(c)) = Held(c) \ Marks(c)
    BY <1>1, SellsMarked
  <1>3. /\ Unsold(s) \in Bags(StashSlotSet) /\ Apart(Unsold(s)) /\ SoldOf(s) = Marks(s)
        /\ Marks(s) \subseteq Held(s) /\ Held(Unsold(s)) = Held(s) \ Marks(s)
    BY <1>1, SellsMarked
  <1>4. bag' = b /\ load' = c2 /\ stash' = Unsold(s) /\ sold' = sold \cup Marks(s) \cup gone
    BY <1>2, <1>3 DEF Settled
  <1>5. /\ c2 \in Bags(LoadSlots) /\ Apart(c2) /\ gone \subseteq Marks(c)
        /\ Held(c2) = Held(c) \ gone
    BY <1>1, <1>2
  <1> HIDE DEF c2, gone
  <1>6. /\ Held(bag') = Held(b) /\ Held(load') = Held(c) \ gone
        /\ Held(stash') = Held(s) \ Marks(s)
    BY <1>3, <1>4, <1>5
  <1>7. Disjoint(bag', load') /\ Disjoint(load', stash') /\ Disjoint(bag', stash')
    BY <1>1, <1>3, <1>4, <1>5, <1>6 DEF Disjoint
  <1>8. /\ (Held(bag') \cup Held(load') \cup Held(stash')) \cap sold' = {}
        /\ Held(bag') \cup Held(load') \cup Held(stash') \cup sold' = 1 .. lot'
    BY <1>1, <1>2, <1>3, <1>4, <1>5, <1>6
  <1>9. Kept(bag', load', stash', sold', lot')
    BY <1>1, <1>3, <1>4, <1>5, <1>7, <1>8 DEF Kept
  <1> QED
    BY <1>4, <1>5, <1>6, <1>9

-----------------------------------------------------------------------------
(* The three passes of the errands. *)

\* From the stash aboard.
LEMMA TakesStash ==
  ASSUME StacksAssumption, CourierAssumption, Kept(bag, load, stash, sold, lot)
  PROVE  LET w == PassOn(stash, StashSlots, load, TRUE, "nothing")
         IN  /\ Kept(bag, w.to, w.from, sold, lot)
             /\ Marks(w.to) \cup Marks(w.from) = Marks(load) \cup Marks(stash)
             /\ Held(w.from) \subseteq Held(stash)
  <1> DEFINE w == PassOn(stash, StashSlots, load, TRUE, "nothing")
             f2 == w.from
             t2 == w.to
  <1>1. /\ load \in Bags(LoadSlots) /\ stash \in Bags(StashSlotSet) /\ Disjoint(stash, load)
        /\ StashSlots \in Nat /\ 0 .. StashSlots - 1 \subseteq StashSlotSet /\ SlotSet(LoadSlots)
    BY SlotsAreSlots DEF Kept, Disjoint, StashSlotSet, CourierAssumption
  <1>2. /\ f2 \in Bags(StashSlotSet) /\ t2 \in Bags(LoadSlots)
        /\ Passed(stash, load, f2, t2, "nothing")
    BY <1>1, PassesOn
  <1> HIDE DEF w, f2, t2
  <1>3. /\ Apart(f2) /\ Apart(t2) /\ Held(f2) \cap Held(t2) = {}
        /\ Held(f2) \cup Held(t2) = Held(stash) \cup Held(load)
        /\ Marks(f2) \cup Marks(t2) = Marks(stash) \cup Marks(load)
    BY <1>2 DEF Passed, Disjoint
  <1>4. Held(f2) \subseteq Held(stash)
    <2>1. DOMAIN f2 = StashSlotSet /\ DOMAIN stash = StashSlotSet
      BY <1>1, <1>2 DEF Bags
    <2>2. \A k \in StashSlotSet : f2[k] = None \/ f2[k] = stash[k]
      BY <1>2, <2>1 DEF Passed
    <2> QED
      BY <2>1, <2>2 DEF Held, LotsOf
  <1>5. /\ bag \in Bags(HeroSlots) /\ Apart(bag) /\ Held(bag) \cap Held(load) = {}
        /\ Held(bag) \cap Held(stash) = {}
        /\ (Held(bag) \cup Held(load) \cup Held(stash)) \cap sold = {}
        /\ Held(bag) \cup Held(load) \cup Held(stash) \cup sold = 1 .. lot
    BY DEF Kept, Disjoint
  <1>6. Disjoint(bag, t2) /\ Disjoint(t2, f2) /\ Disjoint(bag, f2)
    BY <1>3, <1>5 DEF Disjoint
  <1>7. /\ (Held(bag) \cup Held(t2) \cup Held(f2)) \cap sold = {}
        /\ Held(bag) \cup Held(t2) \cup Held(f2) \cup sold = 1 .. lot
    BY <1>3, <1>5
  <1>8. Kept(bag, t2, f2, sold, lot)
    BY <1>2, <1>5, <1>6, <1>7 DEF Kept
  <1> QED
    BY <1>3, <1>4, <1>8 DEF f2, t2, w

\* Back into the stash, but for what is locked.
LEMMA PutsBack ==
  ASSUME StacksAssumption, CourierAssumption, Kept(bag, load, stash, sold, lot)
  PROVE  LET w == PassOn(load, Hold, stash, FALSE, "locked")
         IN  /\ Kept(bag, w.from, w.to, sold, lot)
             /\ Marks(w.from) \cup Marks(w.to) = Marks(load) \cup Marks(stash)
             /\ \A k \in LoadSlots :
                  load[k] # None /\ load[k].locked => load[k].lots \cap Held(w.to) = {}
  <1> DEFINE w == PassOn(load, Hold, stash, FALSE, "locked")
             f2 == w.from
             t2 == w.to
  <1>1. /\ load \in Bags(LoadSlots) /\ stash \in Bags(StashSlotSet) /\ Disjoint(load, stash)
        /\ Hold \in Nat /\ 0 .. Hold - 1 \subseteq LoadSlots /\ SlotSet(StashSlotSet)
    BY SlotsAreSlots DEF Kept, LoadSlots, CourierAssumption
  <1>2. /\ f2 \in Bags(LoadSlots) /\ t2 \in Bags(StashSlotSet)
        /\ Passed(load, stash, f2, t2, "locked")
    BY <1>1, PassesOn
  <1> HIDE DEF w, f2, t2
  <1>3. /\ Apart(f2) /\ Apart(t2) /\ Held(f2) \cap Held(t2) = {}
        /\ Held(f2) \cup Held(t2) = Held(load) \cup Held(stash)
        /\ Marks(f2) \cup Marks(t2) = Marks(load) \cup Marks(stash)
    BY <1>2 DEF Passed, Disjoint
  <1>4. ASSUME NEW k \in LoadSlots, load[k] # None, load[k].locked
        PROVE  load[k].lots \cap Held(t2) = {}
    <2>1. DOMAIN load = LoadSlots
      BY <1>1 DEF Bags
    <2>2. f2[k] = load[k]
      BY <1>2, <1>4, <2>1 DEF Passed, Skips
    <2>3. load[k].lots \subseteq Held(f2)
      BY <1>2, <1>4, <2>2, InBags
    <2> QED
      BY <1>3, <2>3
  <1>5. /\ bag \in Bags(HeroSlots) /\ Apart(bag) /\ Held(bag) \cap Held(load) = {}
        /\ Held(bag) \cap Held(stash) = {}
        /\ (Held(bag) \cup Held(load) \cup Held(stash)) \cap sold = {}
        /\ Held(bag) \cup Held(load) \cup Held(stash) \cup sold = 1 .. lot
    BY DEF Kept, Disjoint
  <1>6. Disjoint(bag, f2) /\ Disjoint(f2, t2) /\ Disjoint(bag, t2)
    BY <1>3, <1>5 DEF Disjoint
  <1>7. /\ (Held(bag) \cup Held(f2) \cup Held(t2)) \cap sold = {}
        /\ Held(bag) \cup Held(f2) \cup Held(t2) \cup sold = 1 .. lot
    BY <1>3, <1>5
  <1>8. Kept(bag, f2, t2, sold, lot)
    BY <1>2, <1>5, <1>6, <1>7 DEF Kept
  <1> QED
    BY <1>3, <1>4, <1>8 DEF f2, t2, w

\* To the owner, and what is marked back aboard.
LEMMA HandsOver ==
  ASSUME StacksAssumption, CourierAssumption, Kept(bag, load, stash, sold, lot)
  PROVE  LET over == PassOn(load, Hold, bag, TRUE, "nothing")
             back == PassOn(over.to, Inv + Pack, over.from, TRUE, "unmarked")
         IN  /\ Kept(back.from, back.to, stash, sold, lot)
             /\ Marks(back.from) \cup Marks(back.to) = Marks(bag) \cup Marks(load)
  <1> DEFINE over == PassOn(load, Hold, bag, TRUE, "nothing")
             f2 == over.from
             t2 == over.to
             back == PassOn(t2, Inv + Pack, f2, TRUE, "unmarked")
             f3 == back.from
             t3 == back.to
  <1>1. /\ load \in Bags(LoadSlots) /\ bag \in Bags(HeroSlots) /\ Disjoint(load, bag)
        /\ Hold \in Nat /\ 0 .. Hold - 1 \subseteq LoadSlots
    BY DEF Kept, Disjoint, LoadSlots, CourierAssumption
  <1>2. Inv + Pack \in Nat /\ SlotSet(HeroSlots) /\ SlotSet(LoadSlots)
    BY SlotsAreSlots DEF StacksAssumption
  <1>3. f2 \in Bags(LoadSlots) /\ t2 \in Bags(HeroSlots) /\ Passed(load, bag, f2, t2, "nothing")
    BY <1>1, <1>2, PassesOn
  <1>a. back = PassOn(over.to, Inv + Pack, over.from, TRUE, "unmarked")
    OBVIOUS
  <1> HIDE DEF over, f2, t2
  <1>4. /\ Apart(f2) /\ Apart(t2) /\ Held(f2) \cap Held(t2) = {}
        /\ Held(f2) \cup Held(t2) = Held(load) \cup Held(bag)
        /\ Marks(f2) \cup Marks(t2) = Marks(load) \cup Marks(bag)
    BY <1>3 DEF Passed, Disjoint
  <1>5. Disjoint(t2, f2)
    BY <1>4 DEF Disjoint
  <1>6. f3 \in Bags(HeroSlots) /\ t3 \in Bags(LoadSlots) /\ Passed(t2, f2, f3, t3, "unmarked")
    <2> DEFINE n == Inv + Pack
    <2>1. n \in Nat /\ 0 .. n - 1 \subseteq HeroSlots
      BY DEF HeroSlots, SlotsWithPortal, StacksAssumption
    <2> HIDE DEF n
    <2>2. LET v == PassOn(t2, n, f2, TRUE, "unmarked")
          IN  v.from \in Bags(HeroSlots) /\ v.to \in Bags(LoadSlots)
              /\ Passed(t2, f2, v.from, v.to, "unmarked")
      BY <1>2, <1>3, <1>5, <2>1, PassesOn
    <2> QED
      BY <2>2 DEF n
  <1> HIDE DEF back, f3, t3
  <1>7. /\ Apart(f3) /\ Apart(t3) /\ Held(f3) \cap Held(t3) = {}
        /\ Held(f3) \cup Held(t3) = Held(t2) \cup Held(f2)
        /\ Marks(f3) \cup Marks(t3) = Marks(t2) \cup Marks(f2)
    BY <1>6 DEF Passed, Disjoint
  <1>8. /\ stash \in Bags(StashSlotSet) /\ Apart(stash) /\ Held(bag) \cap Held(stash) = {}
        /\ Held(load) \cap Held(stash) = {}
        /\ (Held(bag) \cup Held(load) \cup Held(stash)) \cap sold = {}
        /\ Held(bag) \cup Held(load) \cup Held(stash) \cup sold = 1 .. lot
    BY DEF Kept, Disjoint
  <1>9. Disjoint(f3, t3) /\ Disjoint(t3, stash) /\ Disjoint(f3, stash)
    BY <1>4, <1>7, <1>8 DEF Disjoint
  <1>10. /\ (Held(f3) \cup Held(t3) \cup Held(stash)) \cap sold = {}
         /\ Held(f3) \cup Held(t3) \cup Held(stash) \cup sold = 1 .. lot
    BY <1>4, <1>7, <1>8
  <1>11. Kept(f3, t3, stash, sold, lot)
    BY <1>6, <1>8, <1>9, <1>10 DEF Kept
  <1>12. Marks(f3) \cup Marks(t3) = Marks(bag) \cup Marks(load)
    BY <1>4, <1>7
  <1> QED
    BY <1>a, <1>11, <1>12 DEF f3, t3, back, over, f2, t2

-----------------------------------------------------------------------------
(* What every step does with the goods. *)

Now == Kept(bag, load, stash, sold, lot)

GoodsStep ==
  /\ Kept(bag', load', stash', sold', lot')
  /\ sold' \ sold \subseteq Marks(bag) \cup Marks(load) \cup Marks(stash)
  /\ \A k \in LoadSlots :
       load[k] # None /\ load[k].locked => load[k].lots \cap Held(stash') = {}

\* What is aboard is in no stash that holds nothing new.
LEMMA AboardStays ==
  ASSUME Now, NEW s, Held(s) \subseteq Held(stash)
  PROVE  \A k \in LoadSlots :
           load[k] # None /\ load[k].locked => load[k].lots \cap Held(s) = {}
  <1> SUFFICES ASSUME NEW k \in LoadSlots, load[k] # None
               PROVE  load[k].lots \cap Held(s) = {}
    OBVIOUS
  <1>1. load \in Bags(LoadSlots) /\ Held(load) \cap Held(stash) = {}
    BY DEF Now, Kept, Disjoint
  <1>2. load[k].lots \subseteq Held(load)
    BY <1>1, InBags
  <1> QED
    BY <1>1, <1>2

\* A tick on which nothing is passed on.
LEMMA OnlySales ==
  ASSUME Now, Settled(at, bag, load, stash), lot' = lot
  PROVE  GoodsStep
  <1>1. /\ Kept(bag', load', stash', sold', lot')
        /\ sold' \ sold \subseteq Marks(load) \cup Marks(stash)
        /\ Held(stash') \subseteq Held(stash)
    BY SettlesKept DEF Now
  <1> QED
    BY <1>1, AboardStays DEF GoodsStep

LEMMA NoGoodsMove ==
  ASSUME Now, UNCHANGED goods
  PROVE  GoodsStep
  <1>1. bag' = bag /\ load' = load /\ stash' = stash /\ sold' = sold /\ lot' = lot
    BY DEF goods
  <1>2. \A k \in LoadSlots :
          load[k] # None /\ load[k].locked => load[k].lots \cap Held(stash) = {}
    BY AboardStays
  <1> QED
    BY <1>1, <1>2 DEF GoodsStep, Now

LEMMA StepToStash ==
  ASSUME StacksAssumption, CourierAssumption, Now, TickToStash
  PROVE  GoodsStep
  <1> DEFINE w == PassOn(stash, StashSlots, load, TRUE, "nothing")
             c == w.to
             s == w.from
  <1>1. lot' = lot
    BY DEF TickToStash
  <1>2. Settled(at, bag, load, stash) \/ Settled(at, bag, c, s)
    BY DEF TickToStash
  <1>3. CASE Settled(at, bag, c, s)
    <2>1. /\ Kept(bag, c, s, sold, lot) /\ Marks(c) \cup Marks(s) = Marks(load) \cup Marks(stash)
          /\ Held(s) \subseteq Held(stash)
      BY TakesStash DEF Now
    <2> HIDE DEF c, s
    <2>2. /\ Kept(bag', load', stash', sold', lot')
          /\ sold' \ sold \subseteq Marks(c) \cup Marks(s)
          /\ Held(stash') \subseteq Held(s)
      BY <1>1, <1>3, <2>1, SettlesKept
    <2>3. Held(stash') \subseteq Held(stash)
      BY <2>1, <2>2
    <2> QED
      BY <2>1, <2>2, <2>3, AboardStays DEF GoodsStep
  <1> QED
    BY <1>1, <1>2, <1>3, OnlySales

LEMMA StepPutBack ==
  ASSUME StacksAssumption, CourierAssumption, Now, TickPutBack
  PROVE  GoodsStep
  <1> DEFINE w == PassOn(load, Hold, stash, FALSE, "locked")
             c == w.from
             s == w.to
  <1>1. lot' = lot
    BY DEF TickPutBack
  <1>2. Settled(at, bag, load, stash) \/ Settled(at, bag, c, s)
    BY DEF TickPutBack
  <1>3. CASE Settled(at, bag, c, s)
    <2>1. /\ Kept(bag, c, s, sold, lot) /\ Marks(c) \cup Marks(s) = Marks(load) \cup Marks(stash)
          /\ \A k \in LoadSlots : load[k] # None /\ load[k].locked => load[k].lots \cap Held(s) = {}
      BY PutsBack DEF Now
    <2> HIDE DEF c, s
    <2>2. /\ Kept(bag', load', stash', sold', lot')
          /\ sold' \ sold \subseteq Marks(c) \cup Marks(s)
          /\ Held(stash') \subseteq Held(s)
      BY <1>1, <1>3, <2>1, SettlesKept
    <2>3. \A k \in LoadSlots :
            load[k] # None /\ load[k].locked => load[k].lots \cap Held(stash') = {}
      BY <2>1, <2>2
    <2> QED
      BY <2>1, <2>2, <2>3 DEF GoodsStep
  <1> QED
    BY <1>1, <1>2, <1>3, OnlySales

LEMMA StepToOwner ==
  ASSUME StacksAssumption, CourierAssumption, Now, TickToOwner
  PROVE  GoodsStep
  <1> DEFINE over == PassOn(load, Hold, bag, TRUE, "nothing")
             back == PassOn(over.to, Inv + Pack, over.from, TRUE, "unmarked")
             b == back.from
             c == back.to
  <1>1. lot' = lot
    BY DEF TickToOwner
  <1>2. Settled(at, bag, load, stash) \/ Settled(at, b, c, stash)
    BY DEF TickToOwner
  <1>3. CASE Settled(at, b, c, stash)
    <2>1. Kept(b, c, stash, sold, lot) /\ Marks(b) \cup Marks(c) = Marks(bag) \cup Marks(load)
      BY HandsOver DEF Now
    <2> HIDE DEF b, c
    <2>2. /\ Kept(bag', load', stash', sold', lot')
          /\ sold' \ sold \subseteq Marks(c) \cup Marks(stash)
          /\ Held(stash') \subseteq Held(stash)
      BY <1>1, <1>3, <2>1, SettlesKept
    <2> QED
      BY <2>1, <2>2, AboardStays DEF GoodsStep
  <1> QED
    BY <1>1, <1>2, <1>3, OnlySales

LEMMA StepHome ==
  ASSUME Now, TickHome \/ TickIdle
  PROVE  GoodsStep
  BY OnlySales DEF TickHome, TickIdle

\* A bag with the same purchases in every slot.
LEMMA SameLots ==
  ASSUME NEW D, NEW b \in Bags(D), NEW b2 \in Bags(D), \A k \in D : LotsOf(b2[k]) = LotsOf(b[k])
  PROVE  Held(b2) = Held(b) /\ (Apart(b) => Apart(b2))
  <1>1. DOMAIN b = D /\ DOMAIN b2 = D
    BY DEF Bags
  <1> QED
    BY <1>1 DEF Held, Apart

\* The goods of the owner and the courier with marks, locks and touches changed.
LEMMA OnlyFlags ==
  ASSUME Now, sold' = sold, lot' = lot, stash' = stash,
         bag' \in Bags(HeroSlots), \A k \in HeroSlots : LotsOf(bag'[k]) = LotsOf(bag[k]),
         load' \in Bags(LoadSlots), \A k \in LoadSlots : LotsOf(load'[k]) = LotsOf(load[k])
  PROVE  GoodsStep
  <1>1. Held(bag') = Held(bag) /\ Apart(bag') /\ Held(load') = Held(load) /\ Apart(load')
    BY SameLots DEF Now, Kept, Disjoint
  <1>2. Kept(bag', load', stash', sold', lot')
    BY <1>1 DEF Now, Kept, Disjoint
  <1>3. \A k \in LoadSlots :
          load[k] # None /\ load[k].locked => load[k].lots \cap Held(stash) = {}
    BY AboardStays
  <1> QED
    BY <1>2, <1>3 DEF GoodsStep

LEMMA StepFalls ==
  ASSUME Now, CourierFalls
  PROVE  GoodsStep
  <1>1. bag' = bag /\ stash' = stash /\ sold' = sold /\ lot' = lot
    BY DEF CourierFalls
  <1>2. bag \in Bags(HeroSlots) /\ load \in Bags(LoadSlots)
    BY DEF Now, Kept
  <1>3. load' = [k \in LoadSlots |->
                   IF load[k] = None THEN None ELSE [load[k] EXCEPT !.touched = TRUE]]
    BY DEF CourierFalls
  <1>4. ASSUME NEW k \in LoadSlots
        PROVE  (load'[k] = None \/ load'[k] \in Stack) /\ LotsOf(load'[k]) = LotsOf(load[k])
    <2>1. CASE load[k] = None
      BY <1>3, <2>1
    <2>2. CASE load[k] # None
      <3> DEFINE x == load[k]
                 r == [x EXCEPT !.touched = TRUE]
      <3>1. x \in Stack /\ load'[k] = r
        BY <1>2, <1>3, <2>2, InBags
      <3> HIDE DEF x
      <3>2. r \in Stack /\ r.lots = x.lots
        BY <3>1, Retouched
      <3>3. r # None
        BY <3>2, NoneIsNoStack
      <3> HIDE DEF r
      <3> QED
        BY <2>2, <3>1, <3>2, <3>3 DEF LotsOf, x
    <2> QED
      BY <2>1, <2>2
  <1>5. load' \in Bags(LoadSlots)
    BY <1>3, <1>4 DEF Bags
  <1> QED
    BY <1>1, <1>2, <1>4, <1>5, OnlyFlags

LEMMA FlipsOne ==
  ASSUME NEW D, NEW b \in Bags(D), NEW k \in D, b[k] # None, NEW f
  PROVE  Flip(b, k, f) \in Bags(D) /\ \A j \in D : LotsOf(Flip(b, k, f)[j]) = LotsOf(b[j])
  <1> DEFINE x == b[k]
             y == IF f = "sale" THEN [x EXCEPT !.sale = ~ x.sale]
                  ELSE [x EXCEPT !.locked = ~ x.locked]
  <1>1. x \in Stack /\ DOMAIN b = D
    BY InBags
  <1>2. Flip(b, k, f) = [b EXCEPT ![k] = y]
    BY DEF Flip
  <1> HIDE DEF x
  <1>3. y \in Stack /\ y.lots = x.lots
    <2>1. (~ x.sale) \in BOOLEAN /\ (~ x.locked) \in BOOLEAN
      OBVIOUS
    <2>2. [x EXCEPT !.sale = ~ x.sale] \in Stack /\ [x EXCEPT !.sale = ~ x.sale].lots = x.lots
      BY <1>1, <2>1, Marked
    <2>3. [x EXCEPT !.locked = ~ x.locked] \in Stack /\ [x EXCEPT !.locked = ~ x.locked].lots = x.lots
      BY <1>1, <2>1, Relocked
    <2> QED
      BY <2>2, <2>3
  <1>4. y # None
    BY <1>3, NoneIsNoStack
  <1> HIDE DEF y
  <1>5. Flip(b, k, f) \in Bags(D)
    BY <1>2, <1>3 DEF Bags
  <1>6. ASSUME NEW j \in D PROVE LotsOf(Flip(b, k, f)[j]) = LotsOf(b[j])
    <2>1. CASE j = k
      BY <1>1, <1>2, <1>3, <1>4, <2>1 DEF LotsOf, x
    <2>2. CASE j # k
      BY <1>1, <1>2, <2>2
    <2> QED
      BY <2>1, <2>2
  <1> QED
    BY <1>5, <1>6

LEMMA StepFlag ==
  ASSUME Now, NEW f, Flag(f)
  PROVE  GoodsStep
  <1>1. stash' = stash /\ sold' = sold /\ lot' = lot
    BY DEF Flag
  <1>2. bag \in Bags(HeroSlots) /\ load \in Bags(LoadSlots)
    BY DEF Now, Kept
  <1>3. CASE load' = load /\ \E k \in HeroSlots \ {Portal} : bag[k] # None /\ bag' = Flip(bag, k, f)
    <2>1. bag' \in Bags(HeroSlots) /\ \A k \in HeroSlots : LotsOf(bag'[k]) = LotsOf(bag[k])
      BY <1>2, <1>3, FlipsOne
    <2> QED
      BY <1>1, <1>2, <1>3, <2>1, OnlyFlags
  <1>4. CASE bag' = bag /\ \E k \in LoadSlots : load[k] # None /\ load' = Flip(load, k, f)
    <2>1. load' \in Bags(LoadSlots) /\ \A k \in LoadSlots : LotsOf(load'[k]) = LotsOf(load[k])
      BY <1>2, <1>4, FlipsOne
    <2> QED
      BY <1>1, <1>2, <1>4, <2>1, OnlyFlags
  <1> QED
    BY <1>3, <1>4 DEF Flag

\* A purchase as it is bought.
LEMMA BoughtIsStack ==
  ASSUME StacksAssumption, NEW item \in Items, NEW n \in Nat
  PROVE  LET x == Bought(item, Seat, 1, 0, {n})
         IN  x \in Stack /\ x.lots = {n} /\ x.sale = FALSE
  <1>1. 1 \in 1 .. Byte /\ 0 \in 0 .. Byte /\ {n} \in (SUBSET Nat) \ {{}}
    BY DEF StacksAssumption
  <1> QED
    BY <1>1 DEF Bought, Stack

LEMMA StepBuy ==
  ASSUME StacksAssumption, CourierAssumption, Now, lot \in Nat, NEW item \in Kinds, Buy(item)
  PROVE  GoodsStep
  <1> DEFINE x == Bought(item, Seat, 1, 0, {lot + 1})
  <1>1. /\ Fits(stash, x, FALSE) /\ lot' = lot + 1 /\ stash' = Receive(stash, x, FALSE)
        /\ bag' = bag /\ load' = load /\ sold' = sold
    BY DEF Buy
  <1>2. x \in Stack /\ x.lots = {lot + 1}
    <2>1. item \in Items /\ lot + 1 \in Nat
      BY DEF CourierAssumption
    <2> QED
      BY <2>1, BoughtIsStack
  <1> HIDE DEF x
  <1>3. stash \in Bags(StashSlotSet) /\ SlotSet(StashSlotSet)
    BY SlotsAreSlots DEF Now, Kept
  <1>4. PICK k \in StashSlotSet, y \in Stack :
           /\ Receive(stash, x, FALSE) = [stash EXCEPT ![k] = y]
           /\ y.lots = LotsOf(stash[k]) \cup x.lots /\ y.sale = x.sale
           /\ stash[k] # None => stash[k].sale = x.sale
    <2> DEFINE c == FALSE
    <2>1. c \in BOOLEAN /\ Fits(stash, x, c)
      BY <1>1
    <2> HIDE DEF c
    <2>2. \E k \in StashSlotSet, y \in Stack :
            /\ Receive(stash, x, c) = [stash EXCEPT ![k] = y]
            /\ y.lots = LotsOf(stash[k]) \cup x.lots /\ y.sale = x.sale
            /\ stash[k] # None => stash[k].sale = x.sale
      BY <1>2, <1>3, <2>1, Received
    <2> QED
      BY <2>2 DEF c
  <1>5. DOMAIN stash = StashSlotSet /\ stash' \in Bags(StashSlotSet)
    BY <1>1, <1>3, <1>4 DEF Bags
  <1>6. DOMAIN stash' = StashSlotSet
    BY <1>5 DEF Bags
  <1>7. y # None
    BY NoneIsNoStack
  <1>8. /\ stash'[k] = y /\ \A j \in StashSlotSet : j # k => stash'[j] = stash[j]
        /\ LotsOf(stash'[k]) = LotsOf(stash[k]) \cup {lot + 1}
    BY <1>1, <1>2, <1>4, <1>5, <1>7 DEF LotsOf
  <1>9. Held(stash') = Held(stash) \cup {lot + 1}
    <2>1. ASSUME NEW l \in Nat PROVE l \in Held(stash') <=> l \in Held(stash) \/ l = lot + 1
      <3>1. l \in Held(stash') <=> \E j \in StashSlotSet : l \in LotsOf(stash'[j])
        BY <1>6 DEF Held
      <3>2. l \in Held(stash) <=> \E j \in StashSlotSet : l \in LotsOf(stash[j])
        BY <1>5 DEF Held
      <3> QED
        BY <1>8, <3>1, <3>2
    <2> QED
      BY <2>1 DEF Held
  <1>10. /\ Apart(bag) /\ Apart(load) /\ Apart(stash) /\ Held(bag) \cap Held(load) = {}
         /\ Held(load) \cap Held(stash) = {} /\ Held(bag) \cap Held(stash) = {}
         /\ (Held(bag) \cup Held(load) \cup Held(stash)) \cap sold = {}
         /\ Held(bag) \cup Held(load) \cup Held(stash) \cup sold = 1 .. lot
         /\ bag \in Bags(HeroSlots) /\ load \in Bags(LoadSlots)
    BY DEF Now, Kept, Disjoint
  <1>11. lot + 1 \notin 1 .. lot /\ 1 .. lot + 1 = (1 .. lot) \cup {lot + 1}
    OBVIOUS
  <1>12. Apart(stash')
    <2> SUFFICES ASSUME NEW i \in StashSlotSet, NEW j \in StashSlotSet, i # j
                 PROVE  LotsOf(stash'[i]) \cap LotsOf(stash'[j]) = {}
      BY <1>6 DEF Apart
    <2>1. LotsOf(stash[i]) \cap LotsOf(stash[j]) = {}
      BY <1>5, <1>10 DEF Apart
    <2>2. lot + 1 \notin LotsOf(stash[i]) /\ lot + 1 \notin LotsOf(stash[j])
      BY <1>3, <1>10, <1>11, InBags
    <2> QED
      BY <1>8, <2>1, <2>2
  <1>13. Disjoint(bag, load) /\ Disjoint(load, stash') /\ Disjoint(bag, stash')
    BY <1>9, <1>10, <1>11, <1>12 DEF Disjoint
  <1>14. Kept(bag, load, stash', sold, lot + 1)
    BY <1>5, <1>9, <1>10, <1>11, <1>13 DEF Kept
  <1>15. ASSUME NEW j \in LoadSlots, load[j] # None PROVE load[j].lots \cap Held(stash') = {}
    <2>1. load[j].lots \subseteq Held(load)
      BY <1>10, <1>15, InBags
    <2> QED
      BY <1>13, <2>1 DEF Disjoint
  <1> QED
    BY <1>1, <1>14, <1>15 DEF GoodsStep

LEMMA StepKeepsGoods ==
  ASSUME StacksAssumption, CourierAssumption, Now, lot \in Nat, [Next]_vars
  PROVE  GoodsStep
  <1>1. CASE Errand
    BY <1>1, StepToStash, StepPutBack, StepToOwner, StepHome DEF Errand
  <1>2. CASE TickIdle
    BY <1>2, StepHome
  <1>3. ASSUME NEW e, SendCourier(e) PROVE GoodsStep
    BY <1>3, NoGoodsMove DEF SendCourier
  <1>4. CASE Interrupt \/ CourierStands \/ OwnerRuns \/ OwnerFalls \/ OwnerRises
    BY <1>4, NoGoodsMove DEF Interrupt, CourierStands, OwnerRuns, OwnerFalls, OwnerRises
  <1>5. CASE CourierFalls
    BY <1>5, StepFalls
  <1>6. ASSUME NEW item \in Kinds, Buy(item) PROVE GoodsStep
    BY <1>6, StepBuy
  <1>7. ASSUME NEW f, Flag(f) PROVE GoodsStep
    BY <1>7, StepFlag
  <1>8. CASE UNCHANGED vars
    BY <1>8, NoGoodsMove DEF vars, goods
  <1> QED
    BY <1>1, <1>2, <1>3, <1>4, <1>5, <1>6, <1>7, <1>8 DEF Next

-----------------------------------------------------------------------------
(* The invariant, and what follows from it and from a step. *)

CourierInv == errand \in Errands /\ at \in Places /\ lot \in Nat /\ Now

LEMMA StartsKept ==
  ASSUME StacksAssumption, CourierAssumption, Init
  PROVE  CourierInv
  <1>1. ASSUME NEW D, NEW b, b = [k \in D |-> None]
        PROVE  b \in Bags(D) /\ Apart(b) /\ Held(b) = {}
    <2>1. DOMAIN b = D /\ \A k \in D : LotsOf(b[k]) = {}
      BY <1>1 DEF LotsOf
    <2> QED
      BY <1>1, <2>1 DEF Bags, Apart, Held
  <1>2. /\ bag \in Bags(HeroSlots) /\ Apart(bag) /\ Held(bag) = {}
        /\ load \in Bags(LoadSlots) /\ Apart(load) /\ Held(load) = {}
        /\ stash \in Bags(StashSlotSet) /\ Apart(stash) /\ Held(stash) = {}
    BY <1>1 DEF Init
  <1>3. Now
    BY <1>2 DEF Init, Now, Kept, Disjoint
  <1> QED
    BY <1>3 DEF Init, CourierInv, Errands, Places

LEMMA StepKeepsPlaces ==
  ASSUME errand \in Errands, at \in Places, lot \in Nat, [Next]_vars
  PROVE  errand' \in Errands /\ at' \in Places /\ lot' \in Nat
  <1> USE DEF Errands, Places
  <1>1. CASE TickToStash
    BY <1>1 DEF TickToStash, Walks
  <1>2. CASE TickPutBack
    BY <1>2 DEF TickPutBack, Walks
  <1>3. CASE TickToOwner
    BY <1>3 DEF TickToOwner, Walks
  <1>4. CASE TickHome
    BY <1>4 DEF TickHome, Walks
  <1>5. CASE TickIdle
    BY <1>5 DEF TickIdle
  <1>6. CASE \E e \in {"toStash", "putBack", "toOwner"} : SendCourier(e)
    BY <1>6 DEF SendCourier, goods
  <1>7. CASE Interrupt \/ CourierStands \/ OwnerRuns \/ OwnerFalls \/ OwnerRises \/ CourierFalls
    BY <1>7 DEF Interrupt, CourierStands, OwnerRuns, OwnerFalls, OwnerRises, CourierFalls, goods
  <1>8. CASE \E item \in Kinds : Buy(item)
    BY <1>8 DEF Buy
  <1>9. CASE \E f \in {"sale", "lock"} : Flag(f)
    BY <1>9 DEF Flag
  <1>10. CASE UNCHANGED vars
    BY <1>10 DEF vars
  <1> QED
    BY <1>1, <1>2, <1>3, <1>4, <1>5, <1>6, <1>7, <1>8, <1>9, <1>10 DEF Next, Errand

\* The goods are kept in every state (Settled, PassOn): the inductive invariant.
THEOREM CourierInvariant ==
  ASSUME StacksAssumption, CourierAssumption
  PROVE  Spec => []CourierInv
  <1>1. Init => CourierInv
    BY StartsKept
  <1>2. CourierInv /\ [Next]_vars => CourierInv'
    <2> SUFFICES ASSUME CourierInv, [Next]_vars PROVE CourierInv'
      OBVIOUS
    <2>1. GoodsStep
      BY StepKeepsGoods DEF CourierInv
    <2>2. errand' \in Errands /\ at' \in Places /\ lot' \in Nat
      BY StepKeepsPlaces DEF CourierInv
    <2> QED
      BY <2>1, <2>2 DEF CourierInv, GoodsStep, Now
  <1> QED
    BY <1>1, <1>2, PTL DEF Spec

\* A slot of the three bags, and what it holds.
LEMMA SlotOf ==
  /\ \A k \in HeroSlots : <<"bag", k>> \in Slots /\ In(<<"bag", k>>) = bag[k]
  /\ \A k \in LoadSlots : <<"load", k>> \in Slots /\ In(<<"load", k>>) = load[k]
  /\ \A k \in StashSlotSet : <<"stash", k>> \in Slots /\ In(<<"stash", k>>) = stash[k]
  /\ \A s \in Slots : \/ \E k \in HeroSlots : s = <<"bag", k>>
                      \/ \E k \in LoadSlots : s = <<"load", k>>
                      \/ \E k \in StashSlotSet : s = <<"stash", k>>
  BY DEF Slots, In

LEMMA TypesFollow ==
  ASSUME CourierInv
  PROVE  TypeOK
  <1>1. /\ bag \in Bags(HeroSlots) /\ load \in Bags(LoadSlots) /\ stash \in Bags(StashSlotSet)
        /\ sold \subseteq 1 .. lot
    BY DEF CourierInv, Now, Kept
  <1>2. ASSUME NEW D, NEW b \in Bags(D), NEW x \in Stacked(b)
        PROVE  x.id \in Items /\ x.charges \in 1 .. Byte /\ x.owner = Seat
    <2>1. PICK k \in D : b[k] # None /\ x = b[k]
      BY DEF Stacked, Bags
    <2>2. x \in Stack
      BY <2>1, InBags
    <2> QED
      BY <2>2, StackFields
  <1>3. \A x \in Stacked(bag) \cup Stacked(load) \cup Stacked(stash) :
          x.id \in Items /\ x.charges \in 1 .. Byte /\ x.owner = Seat
    BY <1>1, <1>2
  <1>4. DOMAIN bag = HeroSlots /\ DOMAIN load = LoadSlots /\ DOMAIN stash = StashSlotSet
    BY <1>1 DEF Bags
  <1> QED
    BY <1>1, <1>3, <1>4 DEF TypeOK, CourierInv

LEMMA NothingLostFollows ==
  ASSUME CourierInv
  PROVE  NothingLost
  <1> SUFFICES ASSUME NEW l \in 1 .. lot
               PROVE  Cardinality({s \in Slots : In(s) # None /\ l \in In(s).lots})
                      + (IF l \in sold THEN 1 ELSE 0) = 1
    BY DEF NothingLost
  <1> DEFINE P == {s \in Slots : In(s) # None /\ l \in In(s).lots}
  <1>1. /\ bag \in Bags(HeroSlots) /\ load \in Bags(LoadSlots) /\ stash \in Bags(StashSlotSet)
        /\ Apart(bag) /\ Apart(load) /\ Apart(stash) /\ Held(bag) \cap Held(load) = {}
        /\ Held(load) \cap Held(stash) = {} /\ Held(bag) \cap Held(stash) = {}
        /\ (Held(bag) \cup Held(load) \cup Held(stash)) \cap sold = {}
        /\ Held(bag) \cup Held(load) \cup Held(stash) \cup sold = 1 .. lot
        /\ l \in Nat
    BY DEF CourierInv, Now, Kept, Disjoint
  <1>2. DOMAIN bag = HeroSlots /\ DOMAIN load = LoadSlots /\ DOMAIN stash = StashSlotSet
    BY <1>1 DEF Bags
  <1>3. \A s \in Slots : s \in P <=> l \in LotsOf(In(s))
    BY DEF LotsOf
  <1>4. P \subseteq Slots
    OBVIOUS
  <1> HIDE DEF P
  <1>5. /\ l \in Held(bag) <=> \E k \in HeroSlots : <<"bag", k>> \in P
        /\ l \in Held(load) <=> \E k \in LoadSlots : <<"load", k>> \in P
        /\ l \in Held(stash) <=> \E k \in StashSlotSet : <<"stash", k>> \in P
    BY <1>1, <1>2, <1>3, SlotOf DEF Held
  <1>6. /\ \A j, k \in HeroSlots : <<"bag", j>> \in P /\ <<"bag", k>> \in P => j = k
        /\ \A j, k \in LoadSlots : <<"load", j>> \in P /\ <<"load", k>> \in P => j = k
        /\ \A j, k \in StashSlotSet : <<"stash", j>> \in P /\ <<"stash", k>> \in P => j = k
    BY <1>1, <1>2, <1>3, SlotOf DEF Apart
  <1>7. \A s \in P : \/ \E k \in HeroSlots : s = <<"bag", k>>
                     \/ \E k \in LoadSlots : s = <<"load", k>>
                     \/ \E k \in StashSlotSet : s = <<"stash", k>>
    BY <1>4, SlotOf
  <1>8. CASE l \in sold
    <2>1. l \notin Held(bag) /\ l \notin Held(load) /\ l \notin Held(stash)
      BY <1>1, <1>8
    <2>2. P = {}
      BY <1>5, <1>7, <2>1
    <2>3. Cardinality(P) = 0
      BY <2>2, FS_EmptySet
    <2> QED
      BY <1>8, <2>3 DEF P
  <1>9. CASE l \notin sold
    <2>1. ASSUME NEW s \in P, \A r \in P : r = s PROVE Cardinality(P) = 1
      <3>1. P = {s}
        BY <2>1
      <3> QED
        BY <3>1, FS_Singleton
    <2>2. \E s \in P : \A r \in P : r = s
      <3>1. CASE l \in Held(bag)
        <4>1. l \notin Held(load) /\ l \notin Held(stash)
          BY <1>1, <3>1
        <4>2. PICK k \in HeroSlots : <<"bag", k>> \in P
          BY <1>5, <3>1
        <4> QED
          BY <1>5, <1>6, <1>7, <4>1, <4>2
      <3>2. CASE l \in Held(load)
        <4>1. l \notin Held(bag) /\ l \notin Held(stash)
          BY <1>1, <3>2
        <4>2. PICK k \in LoadSlots : <<"load", k>> \in P
          BY <1>5, <3>2
        <4> QED
          BY <1>5, <1>6, <1>7, <4>1, <4>2
      <3>3. CASE l \in Held(stash)
        <4>1. l \notin Held(bag) /\ l \notin Held(load)
          BY <1>1, <3>3
        <4>2. PICK k \in StashSlotSet : <<"stash", k>> \in P
          BY <1>5, <3>3
        <4> QED
          BY <1>5, <1>6, <1>7, <4>1, <4>2
      <3> QED
        BY <1>1, <1>9, <3>1, <3>2, <3>3
    <2>3. Cardinality(P) = 1
      BY <2>1, <2>2
    <2> QED
      BY <1>9, <2>3 DEF P
  <1> QED
    BY <1>8, <1>9

\* Marked goods are in a marked slot.
LEMMA MarksShow ==
  ASSUME Now, NEW l \in Marks(bag) \cup Marks(load) \cup Marks(stash)
  PROVE  \E s \in Slots : In(s) # None /\ l \in In(s).lots /\ In(s).sale
  <1>1. DOMAIN bag = HeroSlots /\ DOMAIN load = LoadSlots /\ DOMAIN stash = StashSlotSet
    BY DEF Now, Kept, Bags
  <1>2. CASE l \in Marks(bag)
    BY <1>1, <1>2, SlotOf DEF Marks
  <1>3. CASE l \in Marks(load)
    BY <1>1, <1>3, SlotOf DEF Marks
  <1>4. CASE l \in Marks(stash)
    BY <1>1, <1>4, SlotOf DEF Marks
  <1> QED
    BY <1>2, <1>3, <1>4

LEMMA LockedFollows ==
  ASSUME Now, GoodsStep, NEW k \in LoadSlots, load[k] # None, load[k].locked,
         NEW j \in StashSlotSet, stash'[j] # None
  PROVE  ~ (load[k].lots \subseteq stash'[j].lots)
  <1>1. load \in Bags(LoadSlots) /\ stash' \in Bags(StashSlotSet)
    BY DEF Now, GoodsStep, Kept
  <1>2. load[k].lots # {}
    BY <1>1, InBags
  <1>3. stash'[j].lots \subseteq Held(stash')
    BY <1>1, InBags
  <1>4. load[k].lots \cap Held(stash') = {}
    BY DEF GoodsStep
  <1> QED
    BY <1>2, <1>3, <1>4

(***************************************************************************)
(* A courier loses nothing: whatever it is told, whoever falls and however *)
(* full the bags are, each purchase is in one slot or sold, only what its  *)
(* owner had marked is sold, and Return Items leaves locked cargo aboard   *)
(* (pass_on, take_the_stash, put_the_stash_back, deliver, settle_sales).   *)
(***************************************************************************)
THEOREM GoodsAreKept ==
  ASSUME StacksAssumption, CourierAssumption
  PROVE  Spec => GoodsKept
  <1>1. Spec => []CourierInv
    BY CourierInvariant
  <1>2. CourierInv => TypeOK /\ NothingLost
    BY TypesFollow, NothingLostFollows
  <1>3. CourierInv /\ [Next]_vars =>
          [\A l \in sold' \ sold :
             \E s \in Slots : In(s) # None /\ l \in In(s).lots /\ In(s).sale]_vars
    <2> SUFFICES ASSUME CourierInv, [Next]_vars, NEW l \in sold' \ sold
                 PROVE  \E s \in Slots : In(s) # None /\ l \in In(s).lots /\ In(s).sale
      OBVIOUS
    <2>1. Now /\ GoodsStep
      BY StepKeepsGoods DEF CourierInv
    <2>2. l \in Marks(bag) \cup Marks(load) \cup Marks(stash)
      BY <2>1 DEF GoodsStep
    <2> QED
      BY <2>1, <2>2, MarksShow
  <1>4. CourierInv /\ [Next]_vars =>
          [\A k \in LoadSlots :
             (load[k] # None /\ load[k].locked)
             => ~ \E j \in StashSlotSet : stash'[j] # None
                                          /\ load[k].lots \subseteq stash'[j].lots]_vars
    <2> SUFFICES ASSUME CourierInv, [Next]_vars, NEW k \in LoadSlots,
                        load[k] # None, load[k].locked, NEW j \in StashSlotSet, stash'[j] # None
                 PROVE  ~ (load[k].lots \subseteq stash'[j].lots)
      OBVIOUS
    <2>1. Now /\ GoodsStep
      BY StepKeepsGoods DEF CourierInv
    <2> QED
      BY <2>1, LockedFollows
  <1> QED
    BY <1>1, <1>2, <1>3, <1>4, PTL DEF Spec, GoodsKept, SoldWasMarked, LockedStaysAboard

=============================================================================
