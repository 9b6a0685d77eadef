---------------------------- MODULE MCConversion ----------------------------
(* Small instances of Conversion: one track converted and installed, a second id free. *)
EXTENDS Conversion

CONSTANTS t1, t2, i1, i2, good, bad

MCIds      == {i1, i2}
MCVersions == {good, bad}
MCGood     == {good}
MCThreads  == {t1, t2}

Scene == [kinds |-> {"convert", "install", "uninstall"}, serial |-> FALSE, fresh |-> FALSE, page |-> FALSE,
          asks |-> 2, faults |-> 0, kills |-> 0, stops |-> 0, games |-> 0, died |-> FALSE]

\* A conversion under a new id, once and again, with everything that can go wrong ...
Fresh  == [Scene EXCEPT !.kinds = {"convert"}, !.fresh = TRUE, !.serial = TRUE,
                        !.faults = 1, !.kills = 1, !.stops = 1, !.games = 1]
\* ... all requests, one after another ...
Serial == [Scene EXCEPT !.serial = TRUE, !.asks = 4]
\* ... and jobs beside each other and beside removals, stopped.
Beside == [Scene EXCEPT !.kinds = {"convert", "uninstall"}, !.asks = 3, !.stops = 2]
MCScenes == {Fresh, Serial, Beside}

\* What the page offers: a conversion stopped, then the last one installed.
Page == [Scene EXCEPT !.kinds = {"convert", "install"}, !.page = TRUE, !.serial = TRUE, !.asks = 3, !.stops = 1]
PageScenes == {Page}
=============================================================================
