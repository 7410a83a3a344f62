-------------------------------- MODULE Handles --------------------------------
(***************************************************************************)
(* Who is who: the allocator that hands out entity handles (entity.rs of   *)
(* the engine) and the names one side knows those entities by (handles.rs  *)
(* of the game).  A handle is a slot and which tenant of it; a name counts *)
(* up, is never given twice and stands for one handle until it is let go.  *)
(* The names of the other side's hero are dropped whenever illusions of it *)
(* are made and when the last of them is gone, so that hero and illusions  *)
(* cannot be told apart by them.                                           *)
(*                                                                         *)
(* A tick is a step of the world, the view of it told to the side, then    *)
(* the events and orders of the tick told in the same names.  An order the *)
(* side gives is heard in the simulation's handles at once and takes       *)
(* effect Delay ticks later (delay.rs, game_loop.rs).                      *)
(***************************************************************************)
EXTENDS Integers, FiniteSets, Sequences, Functions

CONSTANTS Slots,        \* slots the allocator may hand out
          Founding,     \* slots the match was set up with: the first the other
                        \* side's hero, the second its own, then whatever else
          Count,        \* ILLUSION_RUNE_COUNT
          Kept,         \* KEPT_TICKS
          Sweep,        \* SWEEP_TICKS
          Delay,        \* ticks an order waits
          Orders,       \* the names an order of a run may name
          MaxGen, MaxTick, MaxNames

HandlesAssumption ==
  /\ Slots \in Nat /\ Founding \in 2 .. Slots /\ Count \in Nat \ {0}
  /\ Kept \in Nat /\ Sweep \in Nat \ {0} /\ Delay \in Nat
  /\ Orders \subseteq Nat /\ MaxGen \in Nat \ {0} /\ MaxTick \in Nat /\ MaxNames \in Nat

VARIABLES gen,          \* the generation of each slot's tenant or last one, for
                        \* every slot ever handed out
          free,         \* the free slots, the most recently freed last
          illusion,     \* the illusions standing: [it, of, made]
          moment, told, \* the tick, and whether its view has been told
          given,        \* [handle -> name, tick named, tick last told]
          behind,       \* [name -> handle]
          next,         \* the next name
          masked,       \* the other side's heroes disguised at the last view
          line,         \* the order on its way, and when it takes effect
          aim,          \* whom the side's unit is set on, and by which name
          ever,         \* the names ever given: <<name, handle>>
          went,         \* the named handles that stand for nobody, and since when
          worn          \* names told for a hero while illusions of it stood

handlesVars == <<gen, free, illusion, moment, told, given, behind, next, masked, line,
                 aim, ever, went, worn>>
world == <<gen, free, illusion>>
names == <<given, behind, next, masked, ever, worn>>
\* What a death adds to `went`.
Went(S) == went \cup {<<h, moment>> : h \in S \cap DOMAIN given}

Nothing == <<>>

\* contains: the handles ever handed out, and those that name somebody.
Known == {h \in (1 .. Len(gen)) \X (1 .. MaxGen) : h[2] <= gen[h[1]]}
Freed(s) == \E k \in DOMAIN free : free[k] = s
Live == {h \in Known : h[2] = gen[h[1]] /\ ~ Freed(h[1])}
Hero == <<1, 1>>
OwnHero == <<2, 1>>

HandlesInit ==
  /\ gen = [s \in 1 .. Founding |-> 1]
  /\ free = <<>> /\ illusion = {} /\ moment = 1 /\ told = FALSE
  /\ given = [h \in {} |-> 0] /\ behind = [n \in {} |-> 0] /\ next = 0
  /\ masked = {} /\ line = Nothing /\ aim = Nothing
  /\ ever = {} /\ went = {} /\ worn = {}

----------------------------------------------------------------------------
(* EntityAllocator: alloc takes the slot freed last, else a new one, and   *)
(* raises its generation; free gives it up.                                *)

\* The slot of the `k`th alloc in a row.
Alloc(fr, k) == IF k <= Len(fr) THEN fr[Len(fr) + 1 - k] ELSE Len(gen) + (k - Len(fr))

\* What `n` of them make of the generations and of the free slots.
Raised(fr, n) ==
  [s \in 1 .. (IF n <= Len(fr) THEN Len(gen) ELSE Len(gen) + (n - Len(fr))) |->
     IF s > Len(gen) THEN 1
     ELSE gen[s] + IF \E k \in 1 .. n : Alloc(fr, k) = s THEN 1 ELSE 0]
LeftFree(fr, n) == SubSeq(fr, 1, Len(fr) - n)
Made(fr, n) == {<<Alloc(fr, k), Raised(fr, n)[Alloc(fr, k)]>> : k \in 1 .. n}

\* The slots of handles let go one after another, in slot order.
InSlotOrder(S) ==
  {q \in Bijection(1 .. Cardinality(S), S) : \A j, k \in DOMAIN q : j < k => q[j] < q[k]}

Room(fr, n) ==
  /\ Len(gen) + (n - Len(fr)) <= Slots
  /\ \A s \in DOMAIN gen : gen[s] < MaxGen

(* The world's part of a tick: anything may stand up, anything but a hero  *)
(* may be gone, and a rune makes Count illusions of a hero, those made     *)
(* before gone first, and calls off what the other side aims at it.        *)
Spawn ==
  /\ ~ told /\ Room(free, 1)
  /\ gen' = Raised(free, 1) /\ free' = LeftFree(free, 1)
  /\ UNCHANGED <<illusion, moment, told, names, went, line, aim>>

Despawn(h) ==
  /\ ~ told /\ h \in Live \ {Hero, OwnHero}
  /\ free' = Append(free, h[1])
  /\ illusion' = {i \in illusion : i.it # h}
  /\ went' = Went({h})
  /\ UNCHANGED <<gen, moment, told, names, line, aim>>

CallsOff(h) == IF h = Hero /\ aim # Nothing /\ aim[1] = h THEN Nothing ELSE aim

MakeRuneIllusions(h) ==
  LET old == {i \in illusion : i.of = h}
  IN  \E gone \in InSlotOrder({i.it[1] : i \in old}) :
        LET fr == free \o gone
        IN  /\ ~ told /\ Room(fr, Count)
            /\ gen' = Raised(fr, Count) /\ free' = LeftFree(fr, Count)
            /\ illusion' = (illusion \ old)
                 \cup {[it |-> m, of |-> h, made |-> moment] : m \in Made(fr, Count)}
            /\ aim' = CallsOff(h) /\ went' = Went({i.it : i \in old})
            /\ UNCHANGED <<moment, told, names, line>>

----------------------------------------------------------------------------
(* disguises: a hero with illusions standing, and the newest of them. *)
Disguised == {h \in {Hero, OwnHero} : \E i \in illusion : i.of = h}
Group(h) == {h} \cup {i.it : i \in {j \in illusion : j.of = h}}
\* Before `newest' of a disguise.
Predates(t, h) == \E i \in illusion : i.of = h /\ t < i.made

Without(f, D) == [x \in DOMAIN f \ D |-> f[x]]
Names(g, D) == {g[h].name : h \in D \cap DOMAIN g}

(* sweep: the handles that stand for nobody and were not told lately. *)
Swept ==
  IF moment % Sweep # 0 THEN {}
  ELSE {h \in DOMAIN given : h \notin Live /\ moment - given[h].told >= Kept}

(* unmask: what the side's names for the other side's heroes lose. *)
\* Mutant: only a disguise that stands is looked at.
UnmaskedWhileDisguised ==
  {h \in DOMAIN given : Hero \in Disguised /\ h \in Group(Hero)
                        /\ Predates(given[h].named, Hero)}
Unmasked ==
  (masked \ Disguised)
  \cup {h \in DOMAIN given : Hero \in Disguised /\ h \in Group(Hero)
                             /\ Predates(given[h].named, Hero)}

(***************************************************************************)
(* rename: a name for every handle of `ids` that has none, those the match *)
(* was set up with first in slot order, the rest in an order of the side's *)
(* hidden stream; a hero with illusions standing is one of the rest.       *)
(***************************************************************************)
SetUp(h) == h[1] <= Founding /\ h[2] = 1 /\ h \notin Disguised

InOrder(fresh) ==
  {q \in Bijection(1 .. Cardinality(fresh), fresh) :
     \A j, k \in DOMAIN q : j < k /\ SetUp(q[k]) => SetUp(q[j]) /\ q[j][1] < q[k][1]}

Rename(g, b, ids, order) ==
  LET n == Len(order)
  IN  /\ given' = [h \in DOMAIN g \cup ids |->
                     IF h \in DOMAIN g
                     THEN IF h \in ids THEN [g[h] EXCEPT !.told = moment] ELSE g[h]
                     ELSE [name |-> next + ((CHOOSE k \in 1 .. n : order[k] = h) - 1),
                           named |-> moment, told |-> moment]]
      /\ behind' = [m \in DOMAIN b \cup (next .. next + (n - 1)) |->
                      IF m >= next THEN order[(m - next) + 1] ELSE b[m]]
      /\ next' = next + n

Tell(g, b, ids) ==
  LET fresh == ids \ DOMAIN g
  IN  /\ next + Cardinality(fresh) <= MaxNames
      /\ \E order \in InOrder(fresh) : Rename(g, b, ids, order)
      /\ ever' = ever \cup {<<given'[h].name, h>> : h \in fresh}
      /\ went' = {x \in went : x[1] \in DOMAIN given'}
      /\ worn' = worn \cup {given'[h].name : h \in ids \cap Disguised \cap {Hero}}

\* The names that go with the handles let go.
BehindLeft(b, g, drop) == Without(b, Names(g, drop))

(* tell_view, once a tick, of whatever the side sees. *)
TellView(ids) ==
  LET gone == Swept
      g1 == Without(given, gone)
      b1 == BehindLeft(behind, given, gone)
      drop == Unmasked
      g2 == Without(g1, drop)
      b2 == BehindLeft(b1, g1, drop)
  IN  /\ ~ told /\ told' = TRUE
      /\ masked' = Disguised \cap {Hero}
      /\ Tell(g2, b2, ids)
      /\ UNCHANGED <<world, moment, line, aim>>

(* tell_events and tell_orders, after it: an event may name who is gone. *)
TellEvent(h) ==
  /\ told /\ Tell(given, behind, {h})
  /\ UNCHANGED <<world, moment, told, masked, line, aim>>

(* heard: an order that names a unit, in the simulation's handles. *)
Heard(n) == IF n \in DOMAIN behind THEN behind[n] ELSE Nothing

GiveOrder(n) ==
  /\ told /\ line = Nothing /\ Heard(n) # Nothing
  /\ line' = <<Heard(n), n, moment + Delay>>
  /\ UNCHANGED <<world, moment, told, names, went, aim>>

(* The next tick: an order that falls due is taken if whom it names still  *)
(* stands, before the world moves.                                         *)
NextTick ==
  LET due == line # Nothing /\ line[3] <= moment
  IN  /\ told /\ moment < MaxTick
      /\ moment' = moment + 1 /\ told' = FALSE
      /\ line' = IF due THEN Nothing ELSE line
      /\ aim' = IF due /\ line[1] \in Live THEN <<line[1], line[2]>>
                ELSE IF aim # Nothing /\ aim[1] \notin Live THEN Nothing ELSE aim
      /\ UNCHANGED <<world, names, went>>

HandlesNext ==
  \/ Spawn
  \/ \E h \in Live : Despawn(h)
  \/ \E h \in {Hero, OwnHero} : MakeRuneIllusions(h)
  \/ \E ids \in SUBSET Live : TellView(ids)
  \/ \E h \in Known : TellEvent(h)
  \/ \E n \in Orders : GiveOrder(n)
  \/ NextTick

HandlesSpec == HandlesInit /\ [][HandlesNext]_handlesVars

----------------------------------------------------------------------------
\* The tables are functions over handles and names handed out.
HandlesTypeOK ==
  /\ gen \in Seq(1 .. MaxGen) /\ Len(gen) <= Slots /\ DOMAIN given \subseteq Known
  /\ free \in Seq(DOMAIN gen)
  /\ \A j, k \in DOMAIN free : free[j] = free[k] => j = k
  /\ \A h \in DOMAIN given : given[h].name \in 0 .. next - 1
                             /\ given[h].named <= given[h].told
  /\ next \in 0 .. MaxNames /\ masked \subseteq {Hero}

(***************************************************************************)
(* The two tables answer each other: the name of every handle leads back   *)
(* to it and every name leads to a handle that has it, through every sweep *)
(* and every change of disguise (rename, unmask, sweep).                   *)
(***************************************************************************)
TablesAgree ==
  /\ \A h \in DOMAIN given : given[h].name \in DOMAIN behind
                             /\ behind[given[h].name] = h
  /\ \A n \in DOMAIN behind : behind[n] \in DOMAIN given
                              /\ given[behind[n]].name = n

(***************************************************************************)
(* A name is given once: whoever a name ever stood for, nobody else does,  *)
(* the next tenant of the slot included, so an order that names somebody   *)
(* gone never reaches somebody else (heard, of_wire).                      *)
(***************************************************************************)
NamedOnce ==
  /\ \A x, y \in ever : x[1] = y[1] => x[2] = y[2]
  /\ \A n \in DOMAIN behind : <<n, behind[n]>> \in ever
StaleReachesNobody == \A h \in Known \ Live : h \notin Live'

(***************************************************************************)
(* Once the view is told, the names the side holds for the other side's    *)
(* disguised hero and for its illusions are no older than the newest of    *)
(* them, and a name the hero wore in disguise is no name of it after the   *)
(* last illusion is gone (unmask).                                         *)
(***************************************************************************)
DisguiseHolds ==
  told =>
    /\ Hero \in Disguised =>
         \A h \in Group(Hero) \cap DOMAIN given : ~ Predates(given[h].named, Hero)
    /\ Hero \notin Disguised =>
         \A n \in worn : n \notin DOMAIN behind \/ behind[n] # Hero

\* A name holds while its bearer lives, but for a disguise: the side's own
\* hero and whatever is no illusion keep the names they were told under.
NamesHold ==
  \A h \in Live \cap Live' \cap DOMAIN given :
    (h # Hero /\ \A i \in illusion : ~ (i.it = h /\ i.of = Hero))
    => h \in DOMAIN given' /\ given'[h].name = given[h].name

(***************************************************************************)
(* The tables stay small: a handle that stands for nobody is let go within *)
(* a sweep of its time: Kept ticks after it was last told, and gone.       *)
(***************************************************************************)
GoneLetGo ==
  told => \A x \in went : x[1] \in DOMAIN given =>
            \/ moment - given[x[1]].told < Kept + Sweep
            \/ moment - x[2] < Sweep

(***************************************************************************)
(* handles.rs: a hero must not be told apart from its illusions, and none  *)
(* of the aims at it follows the hero under the name told afresh           *)
(* (call_off_aims_at).  So no unit of the side is set on a disguised hero  *)
(* by a name that hero no longer has.  It holds where orders wait for no   *)
(* more than the next tick.                                                *)
(***************************************************************************)
AimsCalledOff ==
  (told /\ Hero \in Disguised /\ aim # Nothing /\ aim[1] = Hero)
    => aim[2] \in DOMAIN behind /\ behind[aim[2]] = Hero

\* What holds of the names at once, in every state and over every step.
NamesRight ==
  /\ TablesAgree /\ NamedOnce /\ DisguiseHolds /\ GoneLetGo
  /\ Delay = 0 => AimsCalledOff
NamesKeep == StaleReachesNobody /\ NamesHold
NamesAgree == [](HandlesTypeOK /\ NamesRight) /\ [][NamesKeep]_handlesVars
=============================================================================
