----------------------------- MODULE MCNetwork -----------------------------
(***************************************************************************)
(* The parts of the server's and the client's networking that share no     *)
(* state, each on small instances of its own.  A behaviour is one part's:  *)
(* `part` says whose, and the others stand at their initial states, so     *)
(* that the states to search are the sum of theirs and not the product.    *)
(***************************************************************************)
EXTENDS Sequences, Admission, ClientLink, LuaWorker, ReplayWriter, Ledger,
    LateFeed, Rates

CONSTANTS Parts     \* the parts a run looks at

VARIABLES part

\* Who is adopted, greeted and let go (Admission's own state).  "hellos": three
\* connections of one address, which may hold two strangers, say what they like.
\* "flood": four, of an address that may hold one and of peers without any; nobody
\* says a word, and there are threads for all.
MCSite == [s \in Sources |-> "site"]
HelloIds == 3
Address == INSTANCE Admission WITH Peers <- {"a"}
Flood == INSTANCE Admission WITH Messages <- {}, MaxPerSource <- 1

\* How fast a connection is heard, its ticks' counter wrapping ("messages"), and
\* how fast two spectators and a seat may talk ("lines"): Rates, one half at a time.

\* A seat a side, a spectator with the first one's key, and a late one ("feed").
MCSide == <<"Radiant", "Dire">>
MCEyes == [w \in Viewers |-> IF w = 3 THEN 1 ELSE Unset]

\* A replay without a cap, one with, and one that also carries its metadata.  A
\* record, what is held back and the end of the stream fit the margin.
Uncapped == [max |-> Nil, trailer |-> FALSE, meta |-> TRUE]
MCOptions == { Uncapped,
               [max |-> 18, trailer |-> FALSE, meta |-> TRUE],
               [max |-> 25, trailer |-> TRUE, meta |-> FALSE] }

\* One order on the way at a time, deaths included; and several connections and
\* processes of one seat, two orders on the way, some queued.
Alone == [places |-> {"a", "b"}, window |-> 1, shift |-> FALSE, orders |-> 4,
          deaths |-> 1, reconnects |-> 0, restarts |-> 0]
MCGames == { Alone,
             [places |-> {"a"}, window |-> 2, shift |-> TRUE, orders |-> 2,
              deaths |-> 0, reconnects |-> 1, restarts |-> 1] }

ASSUME /\ AdmissionAssumption
       /\ RatesAssumption /\ LateFeedAssumption /\ ReplayWriterAssumption /\ RoomToClose
       /\ LinkAssumption /\ LedgerAssumption /\ WorkerAssumption

-----------------------------------------------------------------------------
suiteVars == <<part, vars, ratesVars, feedVars, replayVars, linkVars,
          ledgerVars, workerVars>>

SuiteInit ==
    /\ part \in Parts
    /\ Init /\ RatesInit /\ FeedInit /\ LinkInit /\ WorkerInit
    /\ ReplayInit /\ (part # "replay" => opts = Uncapped)
    /\ LedgerInit /\ (part # "ledger" => game = Alone)

SuiteNext ==
    /\ UNCHANGED part
    /\ CASE part = "hellos" -> Address!Next /\ next_player' <= HelloIds + 1
         [] part = "flood" -> Flood!Next /\ (next_player' > next_player => Spawned)
         [] OTHER -> UNCHANGED vars
    /\ CASE part = "messages" -> UNCHANGED chat /\ RatesNext
         [] part = "lines" -> UNCHANGED allowance /\ RatesNext
         [] OTHER -> UNCHANGED ratesVars
    /\ IF part = "feed" THEN FeedNext ELSE UNCHANGED feedVars
    /\ IF part = "replay" THEN ReplayNext ELSE UNCHANGED replayVars
    /\ IF part = "link" THEN LinkNext ELSE UNCHANGED linkVars
    /\ IF part = "ledger" THEN LedgerNext ELSE UNCHANGED ledgerVars
    /\ IF part = "lua" THEN WorkerNext ELSE UNCHANGED workerVars

SuiteSpec == SuiteInit /\ [][SuiteNext]_suiteVars
-----------------------------------------------------------------------------
(* What holds of each part, and while another one moves too, is stated in the *)
(* module of it.                                                              *)
=============================================================================
