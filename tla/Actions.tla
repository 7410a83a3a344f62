------------------------------- MODULE Actions -------------------------------
(***************************************************************************)
(* What one hero's body does with the orders given to it                   *)
(* (bota_server/src/game: match_world.rs, systems/actions.rs,              *)
(* systems/queue.rs, systems/spawn.rs): a cast with its cast point, its    *)
(* channel and its backswing; the orders that wait for a cast point to be  *)
(* over; the orders queued behind the one in hand; stuns, silences, death  *)
(* and respawn.                                                            *)
(*                                                                         *)
(* A tick is the orders given, then World::step, whose systems run in the  *)
(* order of `pc'.  Where a spell is aimed, whether the body reaches it and *)
(* faces it, and whether an order still passes validate_order, is the      *)
(* world's to say: either answer is possible.                              *)
(***************************************************************************)
EXTENDS Integers, Sequences

CONSTANTS
    Abilities,          \* what Order::Cast casts
    Scroll,             \* the Town Portal Scroll, which Order::Use reads
    Point, Dur, Back,   \* Timing of each of them, and of "swing", in ticks
    Immediate,          \* AbilityDef::immediate
    Ignores,            \* AbilityDef::ignores_channel
    Keeps,              \* AbilityDef::dont_cancel_channel
    Own,                \* abilities with Aim::Own: they end no standing order
    Aimed,              \* the orders, by number, that name a certain unit, the mark
    MaxQueued,          \* MAX_QUEUED_ORDERS
    MaxOrders,          \* bound: orders given
    Sells,              \* whether the scroll is sold and bought meanwhile
    Deaths              \* bound: how often the hero falls

Spells == Abilities \cup {Scroll}
Swing == "swing"
None == "none"

SpellsAssumption ==
    /\ Scroll \notin Abilities
    /\ Spells \cap {Swing, None, "move", "stop", "hold", "attack"} = {}
    /\ Immediate \cup Ignores \cup Keeps \cup Own \subseteq Abilities
    /\ Point \in [Spells \cup {Swing} -> Nat]
    /\ Dur \in [Spells -> Nat]
    /\ Back \in [Spells \cup {Swing} -> Nat]
    /\ Aimed \subseteq Nat

\* A swing in no time at all would begin again on the tick it ended.
BoundsAssumption ==
    /\ Point[Swing] > 0
    /\ MaxQueued \in Nat \ {0}
    /\ MaxOrders \in Nat
    /\ Deaths \in Nat
    /\ Sells \in BOOLEAN

Phases == {"before", "during", "after"}
Ready == [what |-> None, phase |-> None, at |-> 0]

\* Queued: an order and the number its seat gave it.
Kinds == {"move", "stop", "hold", "attack"} \cup Spells
OrderOf(kind, seq) == [kind |-> kind, seq |-> seq]

VARIABLES
    pc,        \* the part of the tick that runs next
    act,       \* World::action: the body's Action
    pending,   \* Orders::pending
    immediate, \* Orders::immediate
    current,   \* Orders::current; "there" is a move walked to its end
    waiting,   \* World::waiting
    queue,     \* World::queue
    control,   \* what holds the hero: nothing, a silence, or a stun or a fear
    alive,     \* whether the hero stands on the map
    scroll,    \* whether the slot the scroll is read from holds it
    live,      \* spells whose channel has begun and was not told of its end
    gain,      \* cast_gain of this tick
    issued,    \* history: orders given
    taken,     \* history: orders carried out
    refused,   \* history: orders answered with a refusal
    fell,      \* history: orders given when the hero last fell
    falls      \* history: how often it fell

vars == <<pc, act, pending, immediate, current, waiting, queue, control, alive,
          scroll, live, gain, issued, taken, refused, fell, falls>>

bodyVars == <<act, pending, immediate, current>>
histVars == <<issued, fell, falls>>

TypeOK ==
    /\ pc \in {"orders", "queues", "world", "immediate", "pending", "carry",
               "due", "release", "damage"}
    /\ act \in [what : Spells \cup {Swing, None}, phase : Phases \cup {None}, at : Nat]
    /\ (act.what = None) <=> (act.phase = None)
    /\ pending \in Spells \cup {None}
    /\ immediate \in Immediate \cup {None}
    /\ current \in {"idle", "stand", "hold", "move", "there", "attack"}
    /\ Len(waiting) <= MaxQueued /\ Len(queue) <= MaxQueued
    /\ \A i \in DOMAIN waiting : waiting[i].kind \in Kinds
    /\ \A i \in DOMAIN queue : queue[i].kind \in Kinds
    /\ control \in {"free", "silenced", "held"}
    /\ alive \in BOOLEAN /\ scroll \in BOOLEAN
    /\ live \subseteq Spells
    /\ gain \in {0, 1}
    /\ issued \in 0 .. MaxOrders /\ fell \in 0 .. MaxOrders /\ falls \in 0 .. Deaths
    /\ taken \subseteq 1 .. MaxOrders /\ refused \subseteq 1 .. MaxOrders

Init ==
    /\ pc = "orders"
    /\ act = Ready
    /\ pending = None /\ immediate = None
    /\ current = "idle"
    /\ waiting = <<>> /\ queue = <<>>
    /\ control = "free"
    /\ alive = TRUE
    /\ scroll = TRUE
    /\ live = {}
    /\ gain = 1
    /\ issued = 0 /\ taken = {} /\ refused = {} /\ fell = 0 /\ falls = 0

-----------------------------------------------------------------------------
(* What a body is doing. *)

Held == control = "held"
CastPhase == IF act.what \in Spells THEN act.phase ELSE None
is_channelling == CastPhase = "during"
is_casting == CastPhase = "before"
is_halt(o) == o.kind \in {"stop", "hold"}
is_cast(o) == o.kind \in Spells

\* item_def_in: an ability is in its slot for good, the scroll while it is held.
HasDef(s) == s = Scroll => scroll

\* Mutant: an order breaks a channel off and tells nobody.
MutToldOf(a) == {}

\* call_cancel and call_complete: what a channel that ends is told through.
\* An item is told by the slot it was used from.
ToldOf(a) == {s \in {a.what} : a.phase = "during" /\ HasDef(s)}

\* cancel_action: a swing before its end is left to the attack cycle.
Cancelled(a) == IF a.what = Swing /\ a.phase # "after" THEN a ELSE Ready

\* order_done; free_to_take_up asks for an empty queue too.
order_done ==
    /\ pending = None /\ immediate = None /\ waiting = <<>>
    /\ act.what \notin Spells
    /\ current \in {"idle", "stand", "there"}

-----------------------------------------------------------------------------
(* Carrying an order out. *)

IsImmediate(o) == o.kind \in Immediate

\* break_swing_off, after cancel_action: a use leaves the swing be, and so does
\* an attack at what it swings at (`same').
Interrupted(o, same) ==
    IF /\ act.what = Swing /\ act.phase = "before"
       /\ o.kind # Scroll /\ ~(o.kind = "attack" /\ same)
    THEN Ready
    ELSE Cancelled(act)

\* What take_body_order leaves of the standing order.
Standing(o) ==
    CASE o.kind = "move"   -> "move"
      [] o.kind = "stop"   -> "stand"
      [] o.kind = "hold"   -> "hold"
      [] o.kind = "attack" -> "attack"
      [] o.kind \in Abilities \ Own -> "idle"
      [] OTHER -> current

\* wait_for_cast: what waits once `o' is put behind it.
WaitBehind(w, o) ==
    LET kept == IF is_cast(o) /\ (\A i \in DOMAIN w : is_cast(w[i])) THEN w ELSE <<>>
    IN  IF Len(kept) < MaxQueued THEN Append(kept, o) ELSE kept

Refuse(o) == refused' = refused \cup {o.seq} /\ UNCHANGED taken
Take(o) == taken' = taken \cup {o.seq} /\ UNCHANGED refused

\* An order given in a cast point waits, unless it is a stop or a hold.
WaitsForCast(o) == ~is_halt(o) /\ is_casting

\* carry_out of an order while `w' waits: the next value of `waiting' is
\* `rest' where it is not empty, whatever carry_out put there.
carry_out(o, w, rest) ==
    LET left == IF rest = <<>> THEN w ELSE rest IN
    CASE IsImmediate(o) ->
           /\ immediate' = o.kind
           /\ LET breaks == is_channelling /\ o.kind \notin Ignores IN
                /\ act' = IF breaks THEN Cancelled(act) ELSE act
                /\ live' = IF breaks THEN live \ ToldOf(act) ELSE live
           /\ waiting' = left
           /\ Take(o)
           /\ UNCHANGED <<pending, current>>
      [] ~IsImmediate(o) /\ is_channelling /\ o.kind \in Ignores ->
           /\ pending' = o.kind
           /\ current' = Standing(o)
           /\ waiting' = left
           /\ Take(o)
           /\ UNCHANGED <<act, immediate, live>>
      [] ~IsImmediate(o) /\ is_channelling /\ o.kind \in Keeps \ Ignores ->
           /\ waiting' = left
           /\ Take(o)
           /\ UNCHANGED <<act, pending, immediate, current, live>>
      [] ~IsImmediate(o) /\ WaitsForCast(o) ->
           /\ waiting' = IF rest = <<>> THEN WaitBehind(w, o) ELSE rest
           /\ IF \E i \in DOMAIN WaitBehind(w, o) : WaitBehind(w, o)[i] = o
              THEN UNCHANGED <<taken, refused>>
              ELSE Refuse(o)
           /\ UNCHANGED <<act, pending, immediate, current, live>>
      [] OTHER ->
           /\ \E same \in BOOLEAN : act' = Interrupted(o, same)
           /\ live' = live \ ToldOf(act)
           /\ pending' = IF is_cast(o) THEN o.kind ELSE None
           /\ current' = Standing(o)
           /\ waiting' = rest
           /\ Take(o)
           /\ UNCHANGED immediate

\* take_order of an order given queued or not, on its way to a standing hero.
Give(kind, queued) ==
    LET o == OrderOf(kind, issued + 1) IN
    /\ pc = "orders" /\ alive /\ issued < MaxOrders
    /\ issued' = issued + 1
    /\ IF queued /\ (queue # <<>> \/ ~order_done)
       THEN /\ IF Len(queue) < MaxQueued
               THEN queue' = Append(queue, o) /\ UNCHANGED <<taken, refused>>
               ELSE Refuse(o) /\ UNCHANGED queue
            /\ UNCHANGED <<bodyVars, waiting, live>>
       ELSE /\ queue' = IF IsImmediate(o) THEN queue ELSE <<>>
            /\ carry_out(o, waiting, <<>>)
    /\ UNCHANGED <<pc, control, alive, scroll, gain, fell, falls>>

\* Orders that move the scroll beside the body's action: at a shop it is sold
\* out of its slot, and one bought lands in it.
Deal ==
    /\ Sells /\ pc = "orders"
    /\ scroll' = ~scroll
    /\ UNCHANGED <<pc, bodyVars, waiting, queue, control, alive, live, gain,
                   histVars, taken, refused>>

Step ==
    /\ pc = "orders"
    /\ pc' = "queues"
    /\ UNCHANGED <<bodyVars, waiting, queue, control, alive, scroll, live, gain,
                   histVars, taken, refused>>

NextOf(s) == Head(s)

\* take_up_queues: one order taken up; one no longer valid is refused and the
\* next looked at.
TakeUp ==
    /\ pc = "queues" /\ queue # <<>> /\ order_done
    /\ queue' = Tail(queue)
    /\ \/ carry_out(NextOf(queue), waiting, <<>>)
       \/ Refuse(NextOf(queue)) /\ UNCHANGED <<bodyVars, waiting, live>>
    /\ UNCHANGED <<pc, control, alive, scroll, gain, histVars>>

\* step_upkeep to take_runes, as far as this body sees them: what holds it comes or
\* goes, its walk ends, what it attacks is gone, a rune it takes makes it stand.
World ==
    /\ pc = "queues" /\ (queue = <<>> \/ ~order_done) /\ alive
    /\ pc' = "immediate"
    /\ control' \in {"free", "silenced", "held"}
    /\ current' \in {"stand"} \cup
                     CASE current = "move"   -> {"move", "there"}
                       [] current = "attack" -> {"attack", "idle"}
                       [] OTHER -> {current}
    /\ UNCHANGED <<act, pending, immediate, waiting, queue, alive, scroll, live,
                   gain, histVars, taken, refused>>

\* tick_respawns raises a dead hero or leaves it down: stand_on_the_map gives it
\* a fresh action and fresh orders.
Respawn ==
    /\ pc = "queues" /\ ~alive
    /\ \/ alive' = TRUE /\ pc' = "immediate"
       \/ alive' = FALSE /\ pc' = "orders"
    /\ control' = "free"
    /\ UNCHANGED <<bodyVars, waiting, queue, scroll, live, gain, histVars,
                   taken, refused>>

-----------------------------------------------------------------------------
(* run_action, in its order. *)

\* try_immediate: it goes off, or its caster is held and it is dropped.
TryImmediate ==
    /\ pc = "immediate"
    /\ pc' = "pending"
    /\ immediate' = None
    /\ UNCHANGED <<act, pending, current, waiting, queue, control, alive, scroll,
                   live, gain, histVars, taken, refused>>

Instant(s) == Point[s] = 0 /\ Back[s] = 0 /\ Dur[s] = 0

\* try_pending: called off (its target is gone or its slot empty), waiting (held,
\* out of reach, not facing, or behind a cast), gone off at once, or taking the
\* body over.
TryPending ==
    /\ pc = "pending"
    /\ pc' = "carry"
    /\ \/ UNCHANGED <<act, pending>> /\ gain' = 1
       \/ pending # None /\ pending' = None /\ UNCHANGED act /\ gain' = 1
       \/ /\ pending # None /\ ~Held /\ HasDef(pending)
          /\ ~Instant(pending) /\ act.what \notin Spells
          /\ act' = [what |-> pending, phase |-> "before", at |-> 0]
          /\ pending' = None
          /\ gain' = 0
    /\ UNCHANGED <<immediate, current, waiting, queue, control, alive, scroll, live,
                   histVars, taken, refused>>

\* Held, or silenced while it casts an ability, in a cast point or a channel;
\* a swing only in its windup.
Breaks(a) ==
    \/ a.what \in Spells /\ a.phase \in {"before", "during"}
       /\ (Held \/ (control = "silenced" /\ a.what \in Abilities))
    \/ a.what = Swing /\ a.phase = "before" /\ Held

\* What the world alone may break off: a channel with nothing left to do
\* (call_during), a swing whose target is gone; and a channel whose slot is
\* empty always breaks.
MayBreak(a) == (a.what \in Spells /\ a.phase = "during") \/ (a.what = Swing /\ a.phase = "before")
MustBreak(a) == a.what \in Spells /\ a.phase = "during" /\ ~HasDef(a.what)

\* carry_swing_on and carry_cast_on: broken off, and then nothing comes due on
\* this tick; or a tick further on.
CarryOn ==
    /\ pc = "carry"
    /\ \/ /\ Breaks(act) \/ MayBreak(act)
          /\ live' = live \ ToldOf(act)
          /\ act' = Ready
          /\ pc' = "release"
       \/ /\ ~Breaks(act) /\ ~MustBreak(act)
          /\ act' = IF act.what = None THEN act
                    ELSE [act EXCEPT !.at = @ + IF act.what = Swing THEN 1 ELSE gain]
          /\ pc' = "due"
          /\ UNCHANGED live
    /\ UNCHANGED <<pending, immediate, current, waiting, queue, control, alive,
                   scroll, gain, histVars, taken, refused>>

\* cross: how long the phase the body is in lasts, and whether it is over.
PhaseLength(a) ==
    CASE a.phase = "before" -> Point[a.what]
      [] a.phase = "during" -> Dur[a.what]
      [] OTHER -> Back[a.what]

Crossed(a) == a.at >= PhaseLength(a)
IsDue == act.what # None /\ (~HasDef(act.what) \/ Crossed(act))

\* Mutant: the phase that is over begins anew.
MutInto(phase) == [act EXCEPT !.at = 0]

Into(phase) == [act EXCEPT !.phase = phase, !.at = @ - PhaseLength(act)]

\* swing_due: the blow struck at the attack point, the recovery run out.
SwingDue ==
    /\ act.what = Swing /\ Crossed(act)
    /\ act' = IF act.phase = "before" THEN Into("after") ELSE Ready
    /\ UNCHANGED <<live, scroll, current>>

\* cast_due at the cast point: begin applies it, finds it blocked or refuses it.
CastBegins ==
    /\ CastPhase = "before" /\ HasDef(act.what) /\ Crossed(act)
    /\ \/ /\ act' = Into("during")
          /\ live' = live \cup {act.what}
       \/ /\ act.what \in Abilities
          /\ act' = Into("after")
          /\ UNCHANGED live
       \/ act' = Ready /\ UNCHANGED live
    /\ UNCHANGED <<scroll, current>>

\* cast_due at the end of the channel: call_complete.  A scroll that lands leaves
\* the hero idle and is spent; where there is no open ground it is kept.
CastCompletes ==
    /\ CastPhase = "during" /\ HasDef(act.what) /\ Crossed(act)
    /\ live' = live \ ToldOf(act)
    /\ act' = Into("after")
    /\ IF act.what = Scroll
       THEN \/ current' = "idle" /\ scroll' \in BOOLEAN
            \/ UNCHANGED <<current, scroll>>
       ELSE UNCHANGED <<current, scroll>>

\* cast_due in the backswing, or with nothing in the slot any more.
CastReadies ==
    /\ \/ CastPhase = "after" /\ HasDef(act.what) /\ Crossed(act)
       \/ act.what = Scroll /\ ~HasDef(Scroll)
    /\ act' = Ready
    /\ UNCHANGED <<live, scroll, current>>

\* come_due with the body ready: a swing at something in reach.
SwingBegins ==
    /\ act = Ready /\ ~Held /\ current \in {"idle", "hold", "attack"}
    /\ act' = [what |-> Swing, phase |-> "before", at |-> 0]
    /\ UNCHANGED <<live, scroll, current>>

\* come_due goes round until nothing is due.
ComeDue ==
    /\ pc = "due"
    /\ \/ /\ SwingDue \/ CastBegins \/ CastCompletes \/ CastReadies \/ SwingBegins
          /\ UNCHANGED pc
       \/ ~IsDue /\ pc' = "release" /\ UNCHANGED <<act, live, scroll, current>>
    /\ UNCHANGED <<pending, immediate, waiting, queue, control, alive, gain,
                   histVars, taken, refused>>

Releases ==
    /\ waiting # <<>> /\ CastPhase \notin {"before", "during"}
    /\ pending = None /\ ~Held

\* Mutant: what waited behind the order released is forgotten.
MutRest(w) == <<>>

Rest(w) == Tail(w)

\* release_waiting: the next order a cast point made wait is carried out or
\* refused, and the ones behind it keep waiting.
ReleaseWaiting ==
    /\ pc = "release"
    /\ pc' = "damage"
    /\ \/ /\ Releases
          /\ \/ carry_out(Head(waiting), <<>>, Rest(waiting))
             \/ /\ Refuse(Head(waiting))
                /\ waiting' = Rest(waiting)
                /\ UNCHANGED <<bodyVars, live>>
       \/ ~Releases /\ UNCHANGED <<bodyVars, waiting, live, taken, refused>>
    /\ UNCHANGED <<queue, control, alive, scroll, gain, histVars>>

\* step_damage: bury_entity breaks the action off and leave_the_map takes the
\* action, the orders and the queue from the hero; or it stands on.
Damage ==
    /\ pc = "damage"
    /\ pc' = "orders"
    /\ \/ UNCHANGED <<bodyVars, alive, live, queue, fell, falls>>
       \/ /\ falls < Deaths
          /\ falls' = falls + 1
          /\ fell' = issued
          /\ alive' = FALSE
          /\ live' = live \ ToldOf(act)
          /\ act' = Ready
          /\ pending' = None /\ immediate' = None /\ current' = "idle"
          /\ queue' = <<>>
    /\ UNCHANGED <<waiting, control, scroll, gain, issued, taken, refused>>

\* An order that names the mark: to attack or follow it, or a cast at it.
NamesMark(o) == o.seq \in Aimed /\ ~is_halt(o)

\* drop_aimed_at: the others of a line, one behind another as they were.
Spared(s) ==
    LET kept == {i \in DOMAIN s : ~NamesMark(s[i])}
    IN  {t \in UNION {[1 .. n -> {s[i] : i \in kept}] : n \in 0 .. Len(s)} :
           /\ \A i \in kept : \E k \in DOMAIN t : t[k] = s[i]
           /\ \A k, l \in DOMAIN t : k < l =>
                 \E i, j \in kept : i < j /\ t[k] = s[i] /\ t[l] = s[j]}

\* call_off_aims: a rune disguised the mark or it changed sides, before this body's
\* run_action, in it (a capture of its own) or after it; the cast in hand and the
\* standing order may name it too.
CallOffAims ==
    /\ pc \in {"immediate", "due", "damage"} \/ (pc = "queues" /\ ~alive)
    /\ queue' \in Spared(queue) /\ waiting' \in Spared(waiting)
    /\ pending' \in {pending, None}
    /\ current' \in {current} \cup IF current \in {"move", "attack"} THEN {"idle"} ELSE {}
    /\ UNCHANGED <<pc, act, immediate, control, alive, scroll, live, gain, histVars,
                   taken, refused>>

Tick == Step \/ TakeUp \/ World \/ Respawn \/ TryImmediate \/ TryPending
          \/ CarryOn \/ ComeDue \/ ReleaseWaiting \/ Damage

Next == (\E kind \in Kinds, queued \in BOOLEAN : Give(kind, queued)) \/ Deal \/ CallOffAims \/ Tick

Spec == Init /\ [][Next]_vars

\* The simulation thread steps the world for as long as the match lasts.
LiveSpec == Spec /\ WF_vars(Tick)

-----------------------------------------------------------------------------
(* What holds of it. *)

\* What a channel set going (a teleport's sight, a hold on its victim) is told of
\* its end, however the channel ends: by an order, a stun, the caster falling,
\* its own end (actions.rs, call_cancel and call_complete); and the body's state
\* keeps its types.
ChannelsTold == TypeOK /\ \A s \in live : act.what = s /\ act.phase = "during"

\* No cast that takes the body over goes off while its caster is held or lies dead,
\* and no ability while it is silenced: what was begun before is broken off
\* (actions.rs, carry_cast_on).  Immediate casts, and those without a cast point, a
\* channel or a backswing, go off within one step and are not told apart here.
NeverWhileHeld ==
    [][\A s \in live' \ live :
          alive /\ ~Held /\ (s \in Abilities => control = "free")]_vars

Numbers(s) == {s[i].seq : i \in DOMAIN s}

\* An order that waits or is queued is carried out or refused, unless an order
\* given later takes its place, the hero falls, or the unit the order names is
\* disguised or changes sides (illusion.rs, call_off_aims: that order is dropped
\* without an answer, and no other); a cast given in a cast point leaves the casts
\* already waiting be (match_world.rs, wait_for_cast; actions.rs, release_waiting).
NoOrderVanishes ==
    [][\A i \in Numbers(waiting) \cup Numbers(queue) :
          \/ i \in taken' \cup refused' \cup Numbers(waiting') \cup Numbers(queue')
          \/ ~alive'
          \/ /\ CallOffAims
             /\ \E s \in {waiting, queue} : \E k \in DOMAIN s : s[k].seq = i /\ NamesMark(s[k])
          \/ \E kind \in Kinds \ Immediate :
                /\ Give(kind, FALSE)
                /\ i \in Numbers(waiting) /\ kind \in Spells /\ is_casting
                      => \E k \in DOMAIN waiting : ~is_cast(waiting[k])]_vars

\* Of the orders queued, and of the casts waiting, none is carried out before one
\* given earlier (queue.rs, take_up_queues).
TakenInTurn ==
    [][\A i \in taken' \ taken : \A q \in {queue, waiting} :
          i \in Numbers(q) => \A j \in Numbers(q) : i <= j]_vars

\* A cast, once ordered not to be broken off, goes off: an order other than a stop
\* or a hold given in a cast point leaves the cast in hand as it is
\* (match_world.rs, carry_out).
CastPointKept ==
    [][\A kind \in Kinds \ {"stop", "hold"}, queued \in BOOLEAN :
          is_casting /\ Give(kind, queued) => act' = act]_vars

\* A body comes free of casts again and again: no cast point, channel or
\* backswing lasts for ever (actions.rs, come_due).
BodyFreed == []<>(act.what \notin Spells)

\* A hero that stands up has been told nothing: no order given before it fell is
\* carried out after it (spawn.rs, stand_on_the_map: "ready to act and told
\* nothing").
\* Not so: leave_the_map leaves World::waiting as it is, and release_waiting
\* carries out what waits there once the hero stands up.
ToldNothing == [][\A i \in taken' \ taken : i > fell]_vars

\* An order is obeyed at the right time and in its turn, or answered.
OrdersKept == NeverWhileHeld /\ NoOrderVanishes /\ TakenInTurn /\ CastPointKept
=============================================================================
