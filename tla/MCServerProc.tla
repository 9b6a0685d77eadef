---------------------------- MODULE MCServerProc ----------------------------
(* Small instances of ServerProc: the profiles' ports and the requests made. *)
EXTENDS ServerProc

CONSTANTS p1, p2, k1, k2, n1, n2

MCProfiles == {p1, p2}
MCClients  == {k1, k2}
MCPids     == {n1, n2}

\* Game port 1; the status pages on 3, 4 or 5.
MCPorts == 1..5
MCTcp   == [p \in MCProfiles |-> 1]
MCAbove == {5}
Apart   == [p \in MCProfiles |-> IF p = p1 THEN 3 ELSE 4]
Shared  == [p \in MCProfiles |-> 3]

\* Two requests at a time on one profile: failed launches, deaths, another program.
Starts == [ops |-> [k \in MCClients |-> {"start", "status"}], profiles |-> {p1}, pages |-> Apart,
           ends |-> 2, others |-> 1, restarts |-> 0, dropped |-> FALSE, reused |-> {}]
\* One request at a time on two profiles with one game port and one status page, as they
\* are made.
Stops  == [ops |-> [k \in MCClients |-> IF k = k1 THEN {"start", "stop", "stop all", "status"} ELSE {}],
           profiles |-> {p1, p2}, pages |-> Shared,
           ends |-> 1, others |-> 1, restarts |-> 0, dropped |-> FALSE, reused |-> {}]
\* A stop beside a start.
Beside == [ops |-> [k \in MCClients |-> IF k = k1 THEN {"start"} ELSE {"stop"}],
           profiles |-> {p1}, pages |-> Apart,
           ends |-> 1, others |-> 0, restarts |-> 0, dropped |-> FALSE, reused |-> {}]
\* ACECM restarted between two starts, or in one.
Reopened == [ops |-> [k \in MCClients |-> IF k = k1 THEN {"start", "stop"} ELSE {}],
             profiles |-> {p1, p2}, pages |-> Apart,
             ends |-> 1, others |-> 0, restarts |-> 1, dropped |-> FALSE, reused |-> {}]
MCScenes == {Starts, Stops, Beside, Reopened}
=============================================================================
