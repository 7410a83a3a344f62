----------------------------- MODULE MCMatchLoop -----------------------------
(* A seat a side: both held and each claimed by a key; one held without a     *)
(* key, facing a dummy; one held, the other reserved for one who comes late.  *)
EXTENDS MatchLoop

CONSTANTS c1, c2, k1, k2

MCTeamOf == [s \in Seats |-> IF s % 2 = 0 THEN "Radiant" ELSE "Dire"]

Lineup(key0, player0, key1, player1) ==
    [s \in Seats |-> IF s = 0 THEN [key |-> key0, player |-> player0]
                              ELSE [key |-> key1, player |-> player1]]

Full == Lineup(k1, c1, k2, c2)
Dummy == Lineup(None, c1, None, None)
Late == Lineup(k1, c1, k2, None)

Under(mode, giveUp, lineups) ==
    {[opts |-> [mode |-> mode, emptyAfter |-> giveUp], lineup |-> l] : l \in lineups}

\* In lockstep an empty match is given up in time, in real time it is not.
MCMatches ==
    Under("Lockstep", TRUE, {Full, Dummy}) \cup Under("Realtime", FALSE, {Full, Dummy})
MCPatient == Under("Lockstep", FALSE, {Full})
MCHasty == Under("Lockstep", TRUE, {Late})
=============================================================================
