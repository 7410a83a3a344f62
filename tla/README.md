# Verification of the bota match server

bota is a deterministic game server for matches of a Dota-like game, with its
clients, bots and tools. These TLA+ modules model the parts of it that are
concurrent or stateful and that unit tests cover badly: what happens between the
network and the simulation, the state machines of the world that several systems
move at once, and the client's and the bots' side of the protocol. TLC checks the
modules on small instances; TLAPS proves theorems about sixteen of them for every
value of their constants.

Sources are named relative to `src/crates/bota_server/src/` unless a crate is given.

## The system

| part | state | operations | talks to |
|---|---|---|---|
| order line (`game/delay.rs`) | per seat: orders held, burst, measured delay, settlement | `give_from`, `advance` | called by the match loop; asks the world whether an order passes |
| outbox (`net/outbox.rs`) | queue, urgent frames, closed, aborted, sent | `push*`, `push_tick`, `close`, `abort`, the writer's loop | shared by the simulation, the writer and the reader under one lock |
| connection (`net/conn.rs`) | two threads, a socket, an allowance | `spawn`, `read_loop`, `abort` | queues `NetEvent`s on one channel to the simulation |
| inbound budget (`net/inbound.rs`) | a counter of the server's and one of each peer | reserve, drop | readers and the simulation |
| admission (`game_loop.rs`, `net/pending.rs`, `net/source.rs`) | pending streams, connections listed and parting, seats, watchers, referees, public numbers | `adopt`, `make_room`, `greet`, `drop_conn`, `drop_strangers` | listeners, readers, roster |
| lobby (`lobby.rs`, `pick_clock.rs`) | seats, claims, picks, the clock | greet, pick, ready, leave, deadlines | driven by the simulation thread (`lobby_phase`) |
| match loop (`game_loop.rs`, `match_phase`) | roster, who left, acknowledgements, the empty timer | `gather_input`, `receive_in_match`, `deserted`, `forfeit` | hears the channel, advances the order line, publishes to outboxes |
| rates (`net/allowance.rs`, `chat.rs`) | schedules of what is paid for | `take`, `credit` | reader and chat |
| chat and delayed feed (`spectators.rs`, `game_loop/chat.rs`) | ticks and lines held back | say, push, end | outboxes |
| replay (`replay.rs`) | a file, a recorder | record, finish, drop | called by the simulation thread |
| names (`engine/entity.rs`, `game/handles.rs`) | slots and tenants, names of a side | spawn, despawn, tell, disguise, sweep | world, protocol |
| casts and orders (`game/match_world.rs`, `systems/actions.rs`, `systems/queue.rs`) | the action in hand, orders waiting and queued | give, tick | world |
| falls (`systems/fight.rs`, `systems/econ.rs`) | gold, score, ledger of who hurt whom, winner | blow, bury, finish | world |
| items (`components/items.rs`, `systems/gear.rs`, `systems/courier.rs`) | bags, stash, ground, a courier's errand | buy, build, split, merge, move, sell, deliver | world |
| client session (`bota_client_core`) | the order ledger, a socket with a reader thread | order, confirm, reject, redial | the server |
| Lua bots (`bota_lua`) | a worker thread with one request and one reply | begin, think, retire | the client |

One simulation thread owns the lobby, the roster and the world. Every connection
adds a reader and a writer. Readers push events into one channel; the simulation
pushes frames into one outbox per connection; a listener thread pushes new streams.
The hard behaviours are therefore: events heard in an order nobody planned, a seat
that changes hands while its old connection's events still wait, counters several
threads touch one after another, a slow peer whose ticks are coalesced while one is
in flight, deadlines that race with messages, answers that come after what they
answer has changed, and threads that have to end. Inside the world it is systems
that run one after another on one tick and read what the one before has changed.
The hazards, each at its line, are in `PROJECT.json`.

## Modules

### Network and simulation thread

**OrderLine** (`game/delay.rs`). Each seat's `VecDeque` is pushed at the back only, so
it is a set of orders numbered by arrival; the front is the least number. `Give` is the
whole of `give_from`: the due tick (with any jitter the stream could draw), the burst,
the orders replaced, the count, and the push or the refusal. `advance` is
`DelayLine::advance` with `release`: it takes the front off while it is due, settles,
measures, and steps the world, which may be played out after it. Which orders the world
accepts is nondeterministic. The view a sender stamps is its own word.

**Outbox, EventFeed** (`net/outbox.rs`, `net/conn.rs`). The simulation's operations, the
reader's, and the writer's loop cut where the lock is released: taking an entry and
sending it are two steps. A tick entry carries the set of ticks it replaced. `EventFeed`
is the abstract promise: each tick's events arrive once, in order, several together if
need be, unless the peer is cut off. The refinement maps `cut` to `aborted`, and
`offered` and `delivered` to the history of ticks queued and sent.

**Lobby** (`lobby.rs`, `pick_clock.rs`, `game_loop.rs` lobby phase). An `Instant` is kept
as the time left until it. `pc` is where the thread stands in `lobby_phase`. `hear` is one
network event with all that `hear` and `lobby_message` do about it. The options start as
anything in `Options` that `check_opts` accepts. Random draws are all the draws there may
be; a draw from no heroes is the state `"panicked"`.

**MatchLoop** (`game_loop.rs` match phase). The peers queue events; the thread drops
strangers, gathers, checks for desertion, and advances. Ticks are not numbered: who was
sent the present tick and who acknowledged it is all that matters. `key` merges reserved
keys and claims, which `greet` treats alike while a match runs. A second Hello takes no
seat, and is an acknowledgement of the tick the world stands on, as in `receive_in_match`.

**Inbound** (`net/inbound.rs`, `net/conn.rs`). Both counters are atomic, each on its own,
so every touch of one is a step: a reader is between the two when another takes the last
place. The simulation lets go of a message in two steps as well; the channel may be
dropped with messages in it.

**Admission** (`game_loop.rs` `adopt`, `make_room`, `greet`, `hear`; `net/pending.rs`,
`net/source.rs`; `game_loop/participants.rs`). Connections are numbered in the order they
are adopted. Each has a reader and a writer that end on their own; who holds a seat,
watches, referees, or was given a public number is kept in the server's own lists, which
have to agree.

**Rates** (`net/allowance.rs`, `chat.rs`). A rate is a schedule; the properties compare it
with the log of what was heard over every stretch of time. Messages and lines of chat are
two halves of one module; they share the clock alone. The tick counter wraps at `Width`.

**LateFeed** (`spectators.rs`, `chat.rs`, `game_loop/chat.rs`). A line is a number in the
order it was said. The deque of ticks held back and the lines of each are pushed at the back
only, so both are sets in the order of their numbers; what a connection was sent carries the
step it was sent in and its place among what that step sent.

**ReplayWriter** (`replay.rs`). The compressor holds bytes back, any write may fail, the
file is closed near its cap, at the end, or when dropped. `RoomToClose` says that the margins
hold what `CLOSE_MARGIN` and `TRAILER_RESERVE` are set aside for.

### World

**Handles** (`engine/entity.rs`, `game/handles.rs`). Slots with tenants, the names of one
side, and illusions; orders that carry names through the order delay. Slots count from one.
`Alloc(fr, k)` is the slot the `k`th of several allocations in a row takes, and `Raised` and
`LeftFree` what they make of the generations and of the free list, so that the illusions of a
rune are one step without a loop. `rename` gives fresh names in any of the orders the side's
hidden stream may draw.

**Actions** (`game/match_world.rs`, `systems/actions.rs`, `systems/queue.rs`,
`systems/spawn.rs`). One hero. A tick is the orders given, then the systems in the order
of `pc`. Whether a spell's target is reached and whether an order still passes is the
world's to say. `CallOffAims` is `call_off_aims` of the world's other systems: when a rune
of illusions disguises a unit, or a unit changes sides, the orders of `Aimed`, which name it, go
from both lines with no refusal, and the cast in hand and the standing order may go with
them; a rune the hero itself takes up leaves it standing.

**Deaths** (`systems/fight.rs`, `systems/econ.rs`, `systems/reincarnation.rs`, `seat.rs`).
Blows fill the ledger of who hurt whom; the fatal ones make up a batch, buried in order.
`Reincarnate` is a hero with an Aegis; `Reuse` gives a fallen creep's slot out again.
`Trade` is gold that moves while the net worth stands: purchases, sales, and the match's
set-up (`economy_events_due`), so gold may come to exceed the worth it is a share of.
Sums over a side are the number of the pairs `Tally` holds.

**Stacks, Backpack, Market, Courier** (`components/items.rs`, `systems/gear.rs`,
`systems/disassemble.rs`, `systems/handling.rs`, `systems/courier.rs`,
`bota_core/src/purchase.rs`, `economy.rs`). `Stacks` is the one rule of stacking and
placing, as operators; the others are state machines over it: the backpack's grace and
mute, gold and goods, and a courier's errands. Both Backpack and Market have builds and
disassemblies; what comes of either works at once (`mute: 0` in `assemble_once` and
`part_stack`), however long the stacks it was made of had to wait.

### Clients

**Ledger** (`bota_client_core` `orders.rs`, `session.rs`, `session/confirmations.rs`). What
a client believes of its orders beside what the server does with them, over reconnections
and restarts.

**ClientLink** (`bota_client_core` `socket.rs`, `redial.rs`). The caller, the reader
thread, the connections between, and a server that holds a seat until it finds its
connection dead, refuses a Hello because the seat is held or for good (another wire, nobody
admitted), pings from before any welcome, and lets a connection go with or without a word
(a stranger too many, a peer that does not read, a catalogue that differs). A refusal for good
ends a redial with attempts left, and a ping makes a redialed link "up" before its welcome;
`EndsForCause` and `UpAnswered` say so. `Partial` lets a greeting arrive in part.

**LuaWorker** (`bota_lua/src/native/worker.rs`, `team.rs`, `api.rs`, `native/play.rs`). A
caller and its worker thread; wherever the code asks how much of the budget is left,
either answer may come.

### Suites and MC modules

`MCOrderLine`, `MCLobby` and `MCMatchLoop` give the constants that a cfg cannot write.
`MCNetwork`, `MCWorld`, `MCItems` and `MCEnds` are suites. Each extends the components whose
properties its run checks as they are proved (Admission, ClientLink, LuaWorker, ReplayWriter,
Ledger, LateFeed and Rates; Actions, Deaths and Handles; Deaths and Courier; Inbound) and
instantiates others. None of them shares state with another. A behaviour of a suite is the
behaviour of one part, named by `part`, while the others stand still: the states are the sum of
the parts' and not the product. The suites state the components' assumptions as `ASSUME`, and
each property of an instantiated part is the property of the same or a similar name of the
component where that part runs.

## Runs

| run | shows | distinct states |
|---|---|---|
| order_line | delays, order, bounds, last command, refusals, settlement; every order leaves | 140 k |
| order_line_glyph | violation: two Glyphs due on one tick | |
| outbox | refinement of EventFeed; first tick; backlog; sent means sent; threads end | 241 k |
| lobby | complete and distinct heroes, one seat per key and connection, final picks, bounded penalty, a leaver cancels | 1.2 M |
| lobby_ends | the lobby ends | 373 k |
| match | lockstep and real time: ticks await the answers owed, leavers stay out, matches end, for a stated reason | 425 k |
| match_deaf | violation: lockstep without a connected seat hears nobody | |
| match_leavers | violation: a seat empty at the start can be left | |
| network | admissions, rates, feed, replay, link, ledger, worker (MCNetwork) | 1.0 M |
| world | casts and orders, names, a map both sides lose (MCWorld) | 1.07 M |
| items | falls and credit, market, builds, backpacks, courier (MCItems) | 803 k |
| ends | the inbound budget; liveness of connections, errands, casts, links, workers (MCEnds) | 165 k |

Every property of a passing run has a mutant in `PROJECT.json`: a plausible bug in one
definition under which TLC finds that property violated. Most properties are
conjunctions of parts that are named and explained in the component's module.

### Bounds

- OrderLine: one seat (seats share nothing but the tick), a base of 0 and a jitter of 2,
  so that a later draw can be smaller, two orders per tick, so that a tick fills up, and
  four arrivals over three ticks, so that a line holds a burst, an order behind it and a
  refusal at once. Orders name one unit or none.
- Outbox: four ticks, four entries and limits of two and one, so each limit is passed by
  coalescing and by queueing; one urgent frame and one ping.
- Lobby: two seats, three connections (one can always come back while another is there)
  in the safety run and two in the liveness run, two keys, two heroes, one second per
  phase and one of lag. `MCOptions` holds one lobby of each kind and two that `check_opts`
  refuses. Connections are interchangeable, and the safety run uses that symmetry.
- MatchLoop: a seat a side, three connections, two keys, two events queued. Line-ups: both
  seats held, and one held facing a dummy (`match`, `match_deaf`); one held and one awaited
  (`match_leavers`).
- Inbound (in `ends`): two peers, a budget of three and a share of two, so that the budget is spent
  by both and a share by one; three messages each.
- Admission: `flood`: a source and peers without an address, three places, four
  connections that never say a word, so that one source holds more strangers than another
  when the server is full. `hellos`: three connections of one source, which may have two
  strangers, that ask for a seat or to watch; threads may run short. `lists` (in `ends`): two
  places, three sources, everything a Hello may ask for, one public number.
- Rates: a burst of two, a counter that wraps at three, five messages or four lines, one half
  at a time (`messages`, `lines`).
- LateFeed: two seats, a watcher with a key and a late one, three lines over three ticks.
- ReplayWriter: no cap, a cap reached, and a cap that leaves room for the trailer.
- ClientLink: two attempts, one word besides the welcome on the way at a time; where
  `LinkSound` is checked two connections broken or let go and three orders, where
  `LinkSettles` is one of each, with greetings that arrive in part.
- Ledger: two games (`Games`): one order on the way at a time, four orders, two places and a
  death; and a window of two with queued orders, a reconnection and another process of the
  seat.
- LuaWorker: two teams over three ticks, so one starts while the other winds up.
- Handles: three slots of which two are in use at first, two tenants each, four ticks: `names`
  without orders, `aims` with them and a tick less.
- Deaths: two heroes against one and a creep, two ticks (`fights`, in `items`); `duel` (in
  `world`) is a Map2 with a death limit of two, an Aegis and a slot given out again. `Trade`
  adds gold up to `MaxHand`, one, and takes any. The two heroes of a side are
  interchangeable, here and in `market` and `hands`, and `items` uses that symmetry.
- Actions: one ability of each sort and the scroll, three orders, the second of which names
  the mark, one death.
- Market: `market`: two seats with a slot each, Tangos and wards to give. `stock`: one with
  a slot, a stash of two and gold for two purchases of Tangos, wards of both kinds and
  scrolls, so that two priced stacks merge, in whole or up to the cap, wards pair up, and a paid
  scroll joins a free one. `builds`: one that may fall, with parts to build of.
- Backpack: `pack`: a hero with an inventory slot and two of the backpack; `hands`: two
  heroes with one of each; `forge`: one with two parts to build and take apart, over three ticks
  of the match.
- Courier: three purchases, two calls, a fall, one mark, an owner that walks off once.

`CHECK_DEADLOCK FALSE` everywhere: each system really stops, with its match, its
connection or its bounds.

### Fairness

- OrderLine: the loop advances (`WF(advance)`); nobody has to order anything.
- Outbox: the writer runs on, and a send ends one way or the other (the socket has a write
  timeout); a reader whose side was shut ends. Nothing is assumed of the peer or of the
  simulation.
- Lobby: the thread runs on and time passes. `passes` needs strong fairness because a second is
  only let pass while the thread waits; real time passes regardless.
- MatchLoop: the thread runs on, deadlines and the empty timer pass. In real time
  `SF(begins_on_time)` and `SF(hears)` say that the server keeps its tick rate often enough to
  hear an event now and then; a host too slow for that is outside the model.
- `MCEnds` asks weak fairness of the part that runs: readers and the simulation (Inbound);
  threads of connections no longer listed, and the simulation hearing their end and dropping
  strangers when their time is up (Admission); a courier that walks to a spot getting there and
  the fallen standing up (Courier), for an owner that walks off from its courier finitely often
  (`MaxRuns`: the code has no timeout for a courier after an owner that never stops); the
  world's ticks (Actions); the reader thread and the server hearing what arrives (ClientLink),
  which need never find a connection dead, ping or let one go; the worker's own steps
  (LuaWorker), whose turns are bounded by fuel.

## Proofs

Each proof module extends the component it is about. The theorems hold for every value of
the constants that meets the component's assumptions, which TLC evaluates on the
instances. Assumptions are what the code checks when it starts (`check_order_delays`,
`check_opts`), that bounds are naturals and that model values differ. Where a component is
run inside a suite the assumption is a definition, a hypothesis of the theorems and an
`ASSUME` of the suite. Their properties are those a run checks: a run of a suite checks them
on behaviours in which the component takes its own steps or none.

### OrderLineProofs

`LineInv` is the inductive invariant. The properties alone are not inductive: that a new
order is due after those before it needs the burst to be tied to the line, so `LineInv`
adds `BurstOfLine` (the orders of the present tick are due with the burst, and the burst is
not before anything held) and `Numbered` (arrival numbers are below the counter, distinct,
and above the last settlement). `GiveKeepsLine` rests on `DueOfAnOrder`: the due tick is
within the delay of the present and no earlier than the back of the line. `AdvanceKeepsLine`
rests on `ReleaseTakesTheFront`: since due ticks never decrease along the line, the front
that is released is all that is due. `CountInv` adds finite lines, the count per due tick,
and `LastCommandWins`; an order that replaces another leaves room for itself
(`ReplacingMakesRoom`), hence `RefusalsCancelNothing`.

`LinesAreBounded` is the assertion in `give_from` on a line's length. A sum over ticks
would need induction; instead `SoManyPerTick` maps every order to its tick and its place
among those due with it, one to one, into a product of known size.

Listed theorems state `LineSound` and `AnswersRight`, which the run checks, and their parts.

### OutboxProofs

The refinement is not inductive by itself: that a delivery is exactly the next ticks has to
follow from what is in the queue, while the writer holds an entry that an abort no longer
reaches. `FeedInv` says so in named parts: `Numbered` (push numbers tell entries apart, and
a tick that may be replaced stands behind the first one), `Sending` and `Owed` (an entry in
flight is being sent; queued and flying ticks are offered and not delivered), `QueueOrder`
(ticks stand in order, the flying ones before all), `NothingLost` (until the abort every
tick is delivered, flying or queued), `FlyingIsNext` (no undelivered tick before the flying
one is missing from it: established from `NothingLost` when the front is taken, it survives
an abort between taking and sending). `StepsOfTheFeed` maps each operation to a step of
`EventFeed` or a stutter: `FeedImplemented`. `SentMeansAll`, `FirstTickFirst` (with
`FirstInv`) and `BacklogStaysBounded` (with `BacklogInv`) make up `OutboxIsSound`.

### LobbyProofs

`LobbyInv` holds what is true of each seat by itself (`SeatsFine`: a pick is final once
ready or tactical, penalties are within their phase, a dummy is nobody's, a pick is one of
the options', a holder is there) and of two seats (`SeatsDiffer`: holders, claims, and
heroes unless they may be shared). `check_opts` is carried along: that a draw never runs
out of heroes is a count. `draw_missing_picks` draws from the allowed heroes no seat holds;
`check_opts` asks for at least as many heroes as seats, and the other seats hold at most one
each, so there is one left for the seat that draws. The draw
looks at the seats one after another, so the lemmas speak of the heroes drawn so far
(`Right`). `DelaysFit` survives a seated start because the delays are cut with the seats.
Theorems: `LobbyInvariant`, `RosterIsSound`, `MatchStartsRightly`, `PicksStand`.

### MatchLoopProofs

`SeatsHeldOnce` is inductive with the types. `LeftOnce` makes `LeaversStayOut`: a seat is put
into `left` only while it is not there. `MatchEndsRightly` uses the seats: a forfeit goes to a
side that has somebody left. That a lockstep tick awaits the answers owed needs two more facts
(`WaitInv`): a connection comes once, so whoever was sent the tick is not somebody who dials in
later (`ComesOnce`), and a seat marked as acknowledged whose holder was sent the tick was
acknowledged by that holder (`AnswersKept`). `MatchAssumption` says that no line-up gives one
connection two seats.

### InboundProofs

`BudgetInv`: both counters equal the places held, as cardinalities of sets of channel
positions and of readers by where they stand (`BudgetExact`); a peer's end is told once,
behind all of its messages, after its reader's loop (`EndsLast`); while the simulation
listens the messages in flight are exactly those after what was heard, up to the last sent
(`InOrder`); and what was heard is a prefix (`Heard`). Each step of a reader moves a place
between two of the sets; each step of the simulation shifts the channel by one. The
bounds then follow: `BudgetsHold`.

*Rates.* A bound on every stretch of time is a statement about two messages and all that came
between. `RatesInv` keeps one about each message and now: the schedule pays for everything
taken from that message on, less the credit since (`Pays`), and where it is ahead of now it is
so by no more than what was taken since some message (`Owes`). A refusal while credit is left
is then impossible, because the schedule is never more than `Burst` ahead and a message costs
no more than that (`Spacing <= Burst`).

### NetworkProofs

Six components that share nothing, one part of the module each.

*Admission.* `RoomInv` adds to `RoomBounded` that numbers are given out once (`Fresh`: a
newcomer is nobody already listed or seated) and that whoever is listed and said Hello has a
public number and was welcomed (`Numbered`: a connection that loses its seat is no stranger
its source has to answer for). The steps are grouped by what they do to the lists: somebody
leaves (`Leaves`), is heard and gone, joins a list, is adopted. `FloodsSpareOthers` is the
action property: `make_room` lets go strangers only, and of a source that holds no fewer of
them than the newcomer's.

*ClientLink.* That a link ends only with the match, its attempts or a connection the server
refused for good or let go is not inductive: it takes what is on the way to the client.
`LinkInv` says that one connection at most is open (`OneOpen`), that a Hello is the first word
on a connection and the only one of its kind (`OneHello`), that what the server said is true
of it (`WordsTrue`), that a connection it shut because of a held seat still has that refusal on
it until the reader heard it (`ShutSaid`), and that the client's state follows from
what it heard (`Follows`). `OrderInv` is the order of orders: from what
was taken, over the wires in the order they were dialed, to what was not sent, numbers only
grow. `LinkIsSound` has the hypothesis `~Partial`: a greeting that fails half way has its
orders taken twice (below), and TLC shows it.

*LuaWorker.* `WorkerInv`: the caller has one team open, what is in flight is in exactly one
place (`Flight`: the request channel, the worker, the reply channel), and what the worker
remembers of an attack, or the checkpoint it will go back to when its turn is discarded, is
what went out (`Memory`). Which of the two it is depends on whether the caller gave up on the
turn, which the worker learns with the next request only: this is what `TurnsMatch` misses to
be inductive.

*ReplayWriter.* `StreamFollows` ties what is in the file to what was said of it: an open
stream holds every record. `CapKept`: an open stream is further from its cap than the margin,
which is what a last record, the bytes held back and the end of the stream need.
`ReplayHasNoHoles` holds for any caps; `ReplayIsWhole` adds the cap, for which `RoomToClose`
is needed and is what the constants of the code are chosen for.

*Ledger.* `LedgerInv` (what a snapshot on the way says is settled was, `SettledAnswered`)
gives `ConfirmedMine` over any reconnections and restarts. That an order left unsent as a
repeat is what the hero does is claimed of a client with one order on the way at a time, on
one connection (`OneAtATime`); `QuietInv` says there that one order or one refusal is unanswered
(`OneOnTheWay`), that snapshots are heard in the order of the hero's lives (`Age`), and that
while the client knows the hero's present life the ledger has what stands, or an order on the
way, or a refusal that undoes it (`LedgerFollows`).

*LateFeed.* `FeedInv`: the ticks held back are the last `Delay` published (`FeedClock`), a
late spectator saw nothing that was not shown (`SawWasShown`), a line that waits waits on the
tick it was said on (`LinesWait`), a late spectator was sent neither what waits nor what the
same speaker said after it (`HeardApart`), and every line for all was heard or waits
(`NoneLost`). What ends the match empties the deque in one step, and in that step the order
is the order of the ticks, then of the lines.

### WorldProofs

*Actions.* `ActInv`: the orders that wait and those queued stand in the order they were given
and no order is in both lines (`Line`, `Apart`), what a phase of the tick presumes of the body
(`Acts`), and of every channel set going, that its spell is the one in hand and in its
channel (`Told`). `ChannelsAreTold` has the hypothesis `~Sells`: with a scroll sold while it
is read the property is false (below), and TLC shows it; `AbilitiesAreTold` is what remains
without it. `NoOrdersVanish` says of an order that waits that it is taken, refused, replaced
by an unqueued one, lost with its hero, or called off because it names a unit that was
disguised or changed sides; `CallOffKeeps` is that what is called off leaves the rest in its
order. `OrdersAreKept` joins `NothingGoesOffHeld`, `NoOrdersVanish`,
`OrdersAreTakenInTurn` and `CastPointsAreKept`.

*Deaths.* `ScoreInv` holds with and without an Aegis, a reused slot and Map2: neither gold nor
worth below nothing, though a fall takes a share of the one from both, kills within the other
side's deaths, First Blood once because a claim outlives it (`BloodClaimed`), only enemies in a
ledger (`LedgerOpposed`), and in Map2 a verdict that waits for the end of its batch
(`VerdictWaits`). `TiesAreDrawn` follows, for any constants. That an entry of the ledger is of
this life needs that a hero that lies has a ledger that was spent (`LedgerSpent`), which an
Aegis breaks: hence the hypothesis `Aegis = {}` of `AccountsAreKept`. `CreditsAreGiven` needs
every creep's row to be its own (`AllKnown`): hence `~Reused`. `WinnerStands` needs nothing.

*Handles.* `HandlesInv` has a part for each table. `SlotsInv`: a free slot is listed once and
both heroes stand. `IllusionsInv`: illusions stand, and are of a hero. `TablesInv`: the tables
answer each other and hold names below the next. `EverInv`: every name that stands was written
down as given, none to come was. `MaskInv`: after a view what is masked is what is disguised,
and no name worn in a disguise is the hero's once none was seen. `AimInv`: with no delay, an
order is taken before the name in it can change hands, and whoever is set on a disguised hero
is so by a name of that disguise. `GoneInv`: whoever is gone and still named went, or was told
of, since about the last sweep; `GoneLetGo` is that with a sweep's length added. The proof has
three layers: lemmas on the allocator (`AllocStep`: whoever was gone stays gone, whoever stood
in a slot that was not free stands, and what is new was never known), what a step of the world
does to all handles at once (`WorldMoved`) and a telling to both tables (`Retold`: some
handles dropped with their names, the rest told, fresh ones in any order under fresh names);
then each part of the invariant against those two.

### ItemsProofs

`CourierInv` says of the owner's bag, the courier's and the stash that each holds whole
stacks of the seat's own, that no purchase is in two slots of one or in two of them, and that
what they hold and what was sold are together all that was bought. `NothingLost`, a count of
slots, follows because the slots that hold a purchase are then one or none
(`NothingLostFollows`). `GoodsAreKept` adds what a step may do: by `Passed`, which relates the
bags before and after stacks are passed on, purchases and marks change hands only together,
and a slot that is skipped, as one locked is, stays as it is.

That `Passed` holds of the whole loop takes induction over its turns. The library's induction
theorems take an operator, so `SetInduction` does it for a set of numbers: the least natural
outside the set, there by well-foundedness (`LeastNatural`), would follow one inside.
`Iterates` has from it that a loop has a history, the function `PassOn` defines by recursion;
`PassesOn` is then induction over it, with `PassesOne` for a turn. `Received` is what a bag
becomes by a stack, merged as `Merge` does it or put into an empty slot. That nothing is split
on the way needs that a stack fits only where all of it does (`MergesWhole`).

### Only model-checked

- Every liveness property, and whatever is said with `ENABLED`: outside what the prover does.
  These are `EveryOrderLeaves`, `EventsArrive`, `PartingEnds`, `LobbyEnds`, `MatchEnds`,
  `HeardInRealTime`, `ConnectionsEnd`, `ErrandsEnd`, `BodyFreed`, `LinkSettles` and
  `WorkersEnd`.
- Stacks, Backpack and Market: `BooksKept` and `GraceKept`. Wards of a bag brought together
  (`CombineWards`) and a build that takes its parts one after another are loops over a bag in
  which a step depends on the one before. `SetInduction` would serve for each, with an
  invariant of the loop; that is not done.

Every other property of a passing run is stated by a theorem.

## Findings

Three disagreements have a run that shows them:

1. The contract says a later Glyph replaces an earlier one; `give_from` keeps both, so the
   earlier is applied and the later refused as on cooldown (`order_line_glyph`).
2. A lockstep match with no connected seat never reads the network, so nobody can come back
   to it: `all_acked` holds for want of anybody to wait for (`match_deaf`).
3. The comment on `Inbox::seated` says only seats held at the start can leave the match;
   `leave_game` takes the departure of any holder (`match_leavers`).

Others were met while modelling. Those in the first table are stated as definitions of
their modules, with the words of the code and "Not so:" and the reason; no run carries them.

| definition | what the code says | what it does |
|---|---|---|
| `Actions.ToldNothing` | a risen unit is "told nothing" (`spawn.rs`) | `leave_the_map` leaves `World::waiting`; what waits there is carried out on the tick the hero stands up |
| `Admission.PartingAreRead` | a parting connection "leaves once its reader has ended" | one let go by its own last event stays until somebody cuts it short |
| `Admission.WelcomedOutsideBounds` | one that said Hello "is read on outside the bounds" | `hear_catalogue` releases the seat first, and the connection counts as a stranger |
| `Admission.SeatsHeldByConnections` | a seat's player is the connection holding it | with no public number left the connection is dropped and its seat stays held |
| `Ledger.QueueSpared` | the standing order is not given again while orders are queued behind it | a refusal does not bring `queued` back |
| `Ledger.RefusalIsMine` | a refusal rolls back the order it is about | it names a number alone, which another process of the seat may have used |
| `Market.DeadSellsOnlyNew` | only what was bought during a death is sold in it | what is built or split then counts as bought then |
| `Market.FreeNeverSold` | a part given away is bought by no shop | `part_one` copies the mark for sale, and `settle_sales` asks no more |
| `ReplayWriter.FinishTells` | `finish` tells whether records were left out | not when the end of the stream fails |
| `ReplayWriter.RecorderGoesOn` | the recorder goes on when the replay stops at its cap | `end` takes the recorder |

Three were read off the code and its comments, with no definition of their own: sends during
a redial "are kept for the fresh connection" (`socket.rs`), yet are forgotten once the socket
took them though a `SeatHeld` follows; "a second Hello changes nothing" (`greet`), yet it
acknowledges a tick; and a part of a build taken apart in the backpack may land in the
inventory and work at once, which nothing taken out of the backpack otherwise does.

The others are properties that hold with a constant set one way and not the other:

- `Actions.ChannelsTold` with `Sells`: `Order::Sell` takes a scroll out of its slot while it
  is read; `call_cancel` then finds no item and the teleport stays live.
- `Deaths.LedgerOfThisLife` with an Aegis: a reincarnation keeps the ledger of the life it
  ended. `Deaths.SoleDamagerCredited` with `Reused`: the missile of a creep whose slot was
  given out again is credited to nobody.
- `Handles.AimsCalledOff` with a delay: orders in the delay line already carry handles, and
  follow a hero through its disguise.
- `ClientLink.TakenInOrder` with `Partial`: a greeting that fails half way has its orders
  said, and taken, twice.
- `Ledger.RepeatsStand` without `OneAtATime`: with a window of two, after two refusals in a
  row the ledger rolls back to a refused order; it fails after a reconnection too.
- `ReplayWriter.SizeCapped` with a cap under twice the trailer's reserve: the trailer passes
  the cap.

## Not modelled

WebSocket framing and compression, the local match, the command line, the wire encoding, the
matchmaking client, drawing, names and logging. Of the world: movement, vision, combat
numbers, abilities, modifiers and auras, runes, objectives, camps and lane AI. To the
modelled parts these are nondeterminism: which orders pass, who is near, when somebody has
won. Of the repository's 108 thousand lines most are tables of terrain, units, abilities and
items, geometry and numeric rules, where a model would repeat the code; the modules cover
the state machines, which are about 8 thousand lines.

Spectators, referees and chat move no seat and are left out of Lobby and MatchLoop, and
connection caps are not part of their `adopt`; Admission has both. A client that
names a tick it was not sent in an acknowledgement is left out of MatchLoop. What
`NeverWhileHeld` says of a hero that is held is about casts that take its body over; immediate
casts and those that are over within the step are not part of it. OrderLine and MatchLoop are
not composed: who is told of a refusal after a seat changed hands is looked at from the
client's side, in Ledger.

## Plan

1. Done: the modules above; proofs of every safety property of a run but `BooksKept` and
   `GraceKept`.
2. Next models: MatchLoop with OrderLine (refusals and settlements across a reconnection),
   the matchmaking search and its retries.
