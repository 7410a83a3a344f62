------------------------------- MODULE MCEnds -------------------------------
(***************************************************************************)
(* What must happen in the end, of the parts that MCNetwork and MCWorld     *)
(* look at: the connections of a server, a courier, a hero's casts, a       *)
(* client's link, a bot's worker.  A behaviour is one part's, as there, and *)
(* fairness is asked of that part alone.  The inbound budget, with two      *)
(* readers and the simulation at it, is that of Inbound itself.             *)
(***************************************************************************)
EXTENDS Inbound

CONSTANTS Parts,    \* the parts a run looks at
          Nil

VARIABLES part

\* Everything a Hello may ask for, of a server with two places.
VARIABLES pending, next_player, listed, parting, from, readers, writer, roster,
          spectators, referees, numbered, given, welcomed
admissionVars == <<pending, next_player, listed, parting, from, readers, writer,
                   roster, spectators, referees, numbered, given, welcomed>>
Lists == INSTANCE Admission WITH
    None <- Nil, Sources <- {"a", "b"}, NoSource <- "nosource", Site <- [s \in {"a", "b"} |-> "site"],
    MaxPerSource <- 2, MaxPerSite <- 3, MaxPending <- 1, MaxConnections <- 2,
    ShareDivisor <- 2, MaxWatchers <- 1, MaxPerSeat <- 1, Numbers <- 1,
    Seats <- {1}, Peers <- {"a", "b", "nosource"},
    Messages <- {"player", "watcher", "keyed", "referee", "unfit", "misfit"}, MaxIds <- 2,
    conns <- listed, reader <- readers, told <- numbered

\* A courier with one place for two purchases.
VARIABLES errand, at, up, ownerUp, bag, load, stash, sold, lot, calls, falls, runs, marks
errandVars == <<errand, at, up, ownerUp, bag, load, stash, sold, lot, calls,
                falls, runs, marks>>
Errands == INSTANCE Courier WITH
    Byte <- 2, Grace <- 1, MuteTicks <- 1, Inv <- 1, Pack <- 0,
    Kinds <- {"tango", "branch"}, Hold <- 1, StashSlots <- 1, MaxLots <- 2,
    MaxCalls <- 2, MaxDowned <- 1, MaxRuns <- 1, MaxMarks <- 1

\* A hero with the kit of MCWorld, whose scroll is sold and bought meanwhile.
VARIABLES step, act, cast, immediate, current, waiting, queue, control, alive,
          scroll, live, gain, issued, taken, refused, fell, fallen
castsVars == <<step, act, cast, immediate, current, waiting, queue, control,
               alive, scroll, live, gain, issued, taken, refused, fell, fallen>>
Kit == {"raze", "grip", "rot", "feast"}
Casts == INSTANCE Actions WITH
    Abilities <- Kit, Scroll <- "scroll",
    Point <- [s \in Kit \cup {"scroll", "swing"} |-> IF s \in {"raze", "grip", "swing"} THEN 1 ELSE 0],
    Dur <- [s \in Kit \cup {"scroll"} |-> IF s \in {"grip", "scroll"} THEN 1 ELSE 0],
    Back <- [s \in Kit \cup {"scroll", "swing"} |-> IF s = "raze" THEN 1 ELSE 0],
    Immediate <- {"feast"}, Ignores <- {"rot"}, Keeps <- {"grip"}, Own <- {"rot"},
    Aimed <- {2}, MaxQueued <- 2, MaxOrders <- 2, Sells <- TRUE, Deaths <- 1,
    pc <- step, pending <- cast, falls <- fallen

\* A client's connection broken or let go, greetings failing half way too.
VARIABLES net, state, conn, broken, unsent, rejoining, finished, spent, orders,
          dials, link, c2s, s2c, holder, over, took, replied,
          dismissed, cuts
linkVars == <<net, state, conn, broken, unsent, rejoining, finished, spent,
              orders, dials, link, c2s, s2c, holder, over, took, replied,
              dismissed, cuts>>
Link == INSTANCE ClientLink WITH
    Attempts <- 2, MaxUnsent <- 2, Partial <- TRUE, MaxOrders <- 1, Cuts <- 1,
    taken <- took

\* A bot's worker thread: one team started while the other winds up.
VARIABLES caller, cur, tick, late, in_flight, unread, open, ready, requests,
          replies, where, running, once, previous, turn, launched, asked, got
luaVars == <<caller, cur, tick, late, in_flight, unread, open, ready, requests,
             replies, where, running, once, previous, turn, launched, asked,
             got>>
Lua == INSTANCE LuaWorker WITH
    MaxLate <- 3, Permits <- 2, MaxTeams <- 2, LastTick <- 2,
    pc <- caller, at <- where, live_workers <- running, pending_once <- once, discard <- unread

ASSUME /\ InboundAssumption /\ Lists!AdmissionAssumption
       /\ Errands!StacksAssumption /\ Errands!CourierAssumption
       /\ Casts!SpellsAssumption /\ Casts!BoundsAssumption
       /\ Link!LinkAssumption /\ Lua!WorkerAssumption

-----------------------------------------------------------------------------
suiteVars == <<part, vars, admissionVars, errandVars, castsVars, linkVars,
               luaVars>>

SuiteInit ==
    /\ part \in Parts
    /\ Init /\ Lists!Init /\ Errands!Init /\ Casts!Init /\ Link!LinkInit /\ Lua!WorkerInit

SuiteNext ==
    /\ UNCHANGED part
    /\ IF part = "inbound" THEN Next ELSE UNCHANGED vars
    /\ IF part = "lists" THEN Lists!Next ELSE UNCHANGED admissionVars
    /\ IF part = "errands" THEN Errands!Next ELSE UNCHANGED errandVars
    /\ IF part = "casts" THEN Casts!Next ELSE UNCHANGED castsVars
    /\ IF part = "link" THEN Link!LinkNext ELSE UNCHANGED linkVars
    /\ IF part = "lua" THEN Lua!WorkerNext ELSE UNCHANGED luaVars

\* Each part's own fairness (the comment on Fairness or LiveSpec in its module),
\* asked only where the part runs.
InboundFair ==
    /\ WF_vars(part = "inbound" /\ Simulation)
    /\ \A p \in Peers : WF_vars(part = "inbound" /\ ReaderSteps(p))
ListsFair ==
    \A i \in 1..2 :
        /\ WF_admissionVars(part = "lists" /\ i \notin listed /\ Lists!reader_ends(i, "gone"))
        /\ WF_admissionVars(part = "lists" /\ Lists!hear_end(i))
        /\ WF_admissionVars(part = "lists" /\ Lists!writer_ends(i))
        /\ WF_admissionVars(part = "lists" /\ Lists!drop_strangers(i))
ErrandsFair ==
    /\ WF_errandVars(part = "errands" /\ Errands!Arrives)
    /\ WF_errandVars(part = "errands" /\ Errands!TickIdle)
    /\ WF_errandVars(part = "errands" /\ Errands!CourierStands)
    /\ WF_errandVars(part = "errands" /\ Errands!OwnerRises)
CastsFair == WF_castsVars(part = "casts" /\ Casts!Tick)
LinkFair ==
    /\ WF_linkVars(part = "link" /\ Link!Read)
    /\ WF_linkVars(part = "link" /\ Link!ReadEnds)
    /\ WF_linkVars(part = "link" /\ Link!Dial)
    /\ WF_linkVars(part = "link" /\ Link!GiveUp)
    /\ \A c \in Link!Connections : WF_linkVars(part = "link" /\ Link!Serve(c))
LuaFair ==
    \A t \in 1..2 :
        WF_luaVars(/\ part = "lua"
                    /\ (Lua!Build(t) \/ Lua!Recv(t) \/ Lua!Think(t) \/ Lua!Reply(t)))

SuiteSpec ==
    /\ SuiteInit /\ [][SuiteNext]_suiteVars
    /\ InboundFair /\ ListsFair /\ ErrandsFair /\ CastsFair /\ LinkFair
    /\ LuaFair
-----------------------------------------------------------------------------
(* What comes about in each part: see the module of it. *)

\* Every end is told and every place of the inbound budget comes back; the lists
\* stay bounded and agree whatever a Hello asks for, and a connection is greeted
\* or its threads end (net/conn.rs, Server::greet, Server::drop_strangers).
ConnectionsEnd ==
    /\ [](part = "lists" => Lists!RoomBounded)
    /\ part = "inbound" => EndsTold
    /\ part = "lists" => Lists!StrangersEnd

\* Every errand of a courier comes to an end, but that of one told to fetch what
\* it has no room for, and what it put back for sale is sold (courier.rs).
ErrandsEnd == part = "errands" => Errands!ErrandEnds /\ Errands!MarkedIsSold

\* No cast point, channel or backswing lasts for ever (actions.rs, come_due).
BodyFreed == part = "casts" => Casts!BodyFreed

\* A redial ends, and a link ends with its match (socket.rs, redial.rs).
LinkSettles == part = "link" => Link!LinkSettles

\* The thread of a team let go ends and returns its permit (native/worker.rs).
WorkersEnd == part = "lua" => Lua!WorkersEnd
=============================================================================
