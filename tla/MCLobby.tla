------------------------------- MODULE MCLobby -------------------------------
(* Two seats, and lobbies of every kind: open ones with and without a seated  *)
(* start, a dummy, reserved seats, and one whose single hero is forced.  The  *)
(* last two are refused by check_opts.                                        *)
EXTENDS Lobby, TLC

CONSTANTS k1, k2, h1, h2

Open == [players |-> 2, reserved |-> <<>>, dummy |-> FALSE,
         seatedStart |-> FALSE, sameHeroes |-> FALSE, heroes |-> {h1, h2},
         delays |-> 2, startAfter |-> None, abandonUnjoined |-> FALSE]

MCOptions ==
    { Open,
      [Open EXCEPT !.seatedStart = TRUE, !.abandonUnjoined = TRUE],
      [Open EXCEPT !.startAfter = 2, !.abandonUnjoined = TRUE],
      [Open EXCEPT !.dummy = TRUE, !.delays = 1, !.startAfter = 1],
      [Open EXCEPT !.reserved = <<[key |-> k1, kind |-> None],
                                  [key |-> k2, kind |-> "Bot"]>>],
      [Open EXCEPT !.sameHeroes = TRUE, !.heroes = {h1}, !.delays = 0],
      [Open EXCEPT !.heroes = {h2}],
      [Open EXCEPT !.delays = 3] }

\* The lobbies that need not wait for every seat, and one that must.
MCLiveOptions ==
    { [Open EXCEPT !.seatedStart = TRUE, !.abandonUnjoined = TRUE],
      [Open EXCEPT !.startAfter = 1, !.sameHeroes = TRUE, !.heroes = {h1}] }

\* Connections are told apart by nothing.
Symmetry == Permutations(Connections)
=============================================================================
