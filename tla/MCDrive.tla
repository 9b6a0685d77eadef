------------------------------ MODULE MCDrive ------------------------------
(* Small instances of Drive: one job after the other, or two beside each other. *)
EXTENDS Drive

CONSTANTS t1, t2, c1, c2, x1

MCThreads  == {t1, t2}
MCFetchers == {t1, t2, x1}
MCClients  == {c1, c2}

Scene == [kinds |-> {"sp", "server", "local", "capture"}, patient |-> TRUE, asks |-> 2, stops |-> 0, faults |-> 0,
          opens |-> 0, closes |-> 0, moves |-> 0, fetches |-> 0, late |-> 0,
          strayed |-> FALSE]

\* Two drives or joins, with lost answers and a player who works the menu ...
Joins    == [Scene EXCEPT !.kinds = {"sp", "server", "local"}, !.faults = 1, !.moves = 2, !.closes = 1]
\* ... captures, beside a player with a game of their own, who may open it while one is launched ...
Captures == [Scene EXCEPT !.kinds = {"capture"}, !.closes = 1, !.opens = 1]
\* ... or beside another who fetches the list; and a game that cannot be killed ...
Fetched  == [Scene EXCEPT !.kinds = {"capture"}, !.closes = 1, !.fetches = 1]
Clinging == [Scene EXCEPT !.kinds = {"capture"}, !.asks = 1, !.faults = 1, !.opens = 1]
\* ... jobs that are stopped ...
Stopping == [Scene EXCEPT !.stops = 2]
\* ... requests that do not wait for each other, and a fetch that is waited for too long.
Again    == [Scene EXCEPT !.kinds = {"server", "capture"}, !.patient = FALSE]
Late     == [Scene EXCEPT !.kinds = {"capture"}, !.asks = 1, !.fetches = 1, !.late = 1]
MCScenes == {Joins, Captures, Fetched, Clinging, Stopping, Again, Late}
=============================================================================
