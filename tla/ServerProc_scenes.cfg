\* Two starts at a time on one profile; all requests on two profiles with one status page; a
\* start beside a stop; ACECM restarted.
CONSTANTS
    p1 = p1
    p2 = p2
    k1 = k1
    k2 = k2
    n1 = n1
    n2 = n2
    NoPid = NoPid
    NoSnap = NoSnap
    Profiles <- MCProfiles
    Ports <- MCPorts
    Pids <- MCPids
    Clients <- MCClients
    Tcp <- MCTcp
    Above <- MCAbove
    Scenes <- MCScenes
SPECIFICATION FairSpec
INVARIANTS PortsUnique
PROPERTIES Restarted StopKillsOwn
CHECK_DEADLOCK FALSE
