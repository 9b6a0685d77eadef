----------------------------- MODULE ServerProc -----------------------------
(***************************************************************************)
(* serverproc.rs: starting, watching and stopping the dedicated servers.   *)
(* start holds START_LOCK to its end and claims its ports in LAUNCHING,    *)
(* for a server listens only about half a minute after its launch; stop    *)
(* and status do not take that lock, and runtime.json is read, changed and *)
(* saved without any.  procs.rs's snapshot of the processes is cached.     *)
(***************************************************************************)
EXTENDS Naturals, FiniteSets, Functions

CONSTANTS
    Profiles, Ports, Pids, Clients,
    Tcp,            \* each profile's game port
    Above,          \* ports an HTTP port can be moved to
    NoPid, NoSnap,
    Scenes          \* bounds: who makes which requests for which profiles with which status
                    \* pages, how many processes end by themselves, launches and kills
                    \* fail, other programs start, and how often ACECM is restarted

ASSUME ConstantsAssumption ==
    /\ Tcp \in [Profiles -> Ports]
    /\ Above \subseteq Ports
    /\ Scenes \subseteq
        [ops : [Clients -> SUBSET {"start", "stop", "stop all", "status"}],
         profiles : SUBSET Profiles, pages : [Profiles -> Ports],
         ends : Nat, others : Nat, restarts : Nat, dropped : {FALSE}, reused : {{}}]
    /\ NoPid \notin Pids

VARIABLES
    proc,       \* the process each pid names
    http,       \* profiles.json: each profile's HTTP port
    runtime,    \* runtime.json: each profile's pid
    snap,       \* SNAP: the server pids of the cached snapshot
    lock,       \* START_LOCK is held
    claims,     \* LAUNCHING: ports claimed less than STARTUP_GRACE ago
    c,          \* a client's step and what it has read
    left        \* the scene, with the ends, other programs and restarts still to come, and
                \* the history: a claim was dropped too early or not looked up, a known pid
                \* was given again

vars == <<proc, http, runtime, snap, lock, claims, c, left>>

Gone   == [kind |-> "none"]
Other(port) == [kind |-> "other", ports |-> {port}, up |-> TRUE]
Server(p, ports) == [kind |-> "server", prof |-> p, ports |-> ports, up |-> FALSE]
Resting == [pc |-> "idle"]

Init ==
    /\ proc = [n \in Pids |-> Gone]
    /\ runtime = [p \in Profiles |-> NoPid]
    /\ snap = NoSnap /\ lock = FALSE /\ claims = {}
    /\ c = [k \in Clients |-> Resting]
    /\ left \in Scenes /\ http = left.pages

Spend(what) == left[what] > 0 /\ left' = [left EXCEPT ![what] = @ - 1]
Does(k, step) == c' = [c EXCEPT ![k] = step]
Asks(k, request) == c[k].pc = "idle" /\ request \in left.ops[k]
At(k, pc) == c[k].pc = pc
Then(k, pc) == Does(k, [c[k] EXCEPT !.pc = pc])

Alive(n)   == proc[n].kind # "none"
Servers    == {n \in Pids : proc[n].kind = "server"}
Listeners(port) == {n \in Pids : Alive(n) /\ proc[n].up /\ port \in proc[n].ports}
Busy(port) == Listeners(port) # {}
PortsOf(p) == {Tcp[p], http[p]}

\* server_pids(): the cached snapshot, or one taken now.
Live == IF snap = NoSnap THEN Servers ELSE snap
See  == snap' = Live

Without(r, p) == [r EXCEPT ![p] = NoPid]

-----------------------------------------------------------------------------
(* start *)

\* try_lock: a start that finds another one running is refused.
AskStart(k) ==
    /\ Asks(k, "start")
    /\ ~lock /\ lock' = TRUE
    /\ \E p \in left.profiles : Does(k, [pc |-> "claimed?", prof |-> p])
    /\ UNCHANGED <<proc, http, runtime, snap, claims, left>>

Leave(k) == Does(k, Resting) /\ lock' = FALSE

Claimed(k) ==
    /\ At(k, "claimed?")
    /\ IF PortsOf(c[k].prof) \cap claims # {} THEN Leave(k)
       ELSE Then(k, "others") /\ UNCHANGED lock
    /\ UNCHANGED <<proc, http, runtime, snap, claims, left>>

\* Another profile's server runs on one of the ports.
Others(k) ==
    /\ At(k, "others")
    /\ See
    /\ LET p == c[k].prof
           clash(q) == runtime[q] \in Live /\ (Tcp[q] = Tcp[p] \/ http[q] = http[p])
       IN  IF \E q \in Profiles \ {p} : clash(q) THEN Leave(k)
           ELSE Does(k, [pc |-> "move", prof |-> p, pids |-> Live]) /\ UNCHANGED lock
    /\ UNCHANGED <<proc, http, runtime, claims, left>>

\* The HTTP port is moved when a program that is no server listens on it; the claims,
\* looked up before, are not looked up for the new one.
Spare(p) == {q \in Above : q \notin Range(http) /\ q # Tcp[p] /\ ~Busy(q)}

Move(k) ==
    /\ At(k, "move")
    /\ LET p == c[k].prof
           owners == Listeners(http[p])
       IN  IF owners # {} /\ owners \cap c[k].pids = {} /\ Spare(p) # {}
           THEN \E q \in Spare(p) :
                    /\ http' = [http EXCEPT ![p] = q]
                    /\ left' = [left EXCEPT !.dropped = @ \/ q \in claims]
           ELSE UNCHANGED <<http, left>>
    /\ Does(k, [pc |-> "busy?", prof |-> c[k].prof])
    /\ UNCHANGED <<proc, runtime, snap, lock, claims>>

PortBusy(k) ==
    /\ At(k, "busy?")
    /\ IF \E q \in PortsOf(c[k].prof) : Busy(q) THEN Leave(k)
       ELSE Then(k, "claim") /\ UNCHANGED lock
    /\ UNCHANGED <<proc, http, runtime, snap, claims, left>>

\* Mutant: the ports are not claimed.
Claim_Skipped(k) ==
    /\ At(k, "claim")
    /\ Then(k, "launch")
    /\ UNCHANGED <<proc, http, runtime, snap, lock, claims, left>>

Claim(k) ==
    /\ At(k, "claim")
    /\ claims' = claims \cup PortsOf(c[k].prof)
    /\ Then(k, "launch")
    /\ UNCHANGED <<proc, http, runtime, snap, lock, left>>

\* Pids that runtime.json, the snapshot or a request in progress still names ...
With(field) == {k \in Clients : field \in DOMAIN c[k]}
Named ==
    Range(runtime) \cup (IF snap = NoSnap THEN {} ELSE snap)
    \cup {c[k].pid : k \in With("pid")} \cup (UNION {c[k].pids : k \in With("pids")})
    \cup (UNION {Range(c[k].rt) : k \in With("rt")})

\* ... and that the system gives again like any other: of those nobody knows, which one
\* makes no difference.
Free == {n \in Pids : ~Alive(n)}
NewPids == (Free \cap Named) \cup {n \in Free \ Named : n = CHOOSE m \in Free \ Named : TRUE}
Known(n) == IF n \in Named THEN {n} ELSE {}

Launch(k) ==
    /\ At(k, "launch")
    /\ \E n \in NewPids :
        /\ proc' = [proc EXCEPT ![n] = Server(c[k].prof, PortsOf(c[k].prof))]
        /\ Does(k, [pc |-> "watch", prof |-> c[k].prof, pid |-> n])
        /\ left' = [left EXCEPT !.reused = @ \cup Known(n)]
    /\ UNCHANGED <<http, runtime, snap, lock, claims>>

LaunchFails(k) ==
    /\ At(k, "launch") /\ Spend("ends")
    /\ claims' = claims \ PortsOf(c[k].prof)
    /\ Leave(k)
    /\ UNCHANGED <<proc, http, runtime, snap>>

\* Six seconds: the server is dead, or it has come far enough.  The snapshot is kept
\* for a second and a half, so one that lacks the server is gone by then.
Watch(k) ==
    /\ At(k, "watch")
    /\ IF ~Alive(c[k].pid)
       THEN claims' = claims \ PortsOf(c[k].prof) /\ Leave(k)
       ELSE /\ IF snap = NoSnap THEN TRUE ELSE c[k].pid \in snap
            /\ Then(k, "bind") /\ UNCHANGED <<claims, lock>>
    /\ UNCHANGED <<proc, http, runtime, snap, left>>

\* bind_pid reads runtime.json ...
Bind(k) ==
    /\ At(k, "bind")
    /\ Does(k, [pc |-> "bound", prof |-> c[k].prof, pid |-> c[k].pid, rt |-> runtime])
    /\ UNCHANGED <<proc, http, runtime, snap, lock, claims, left>>

\* ... and saves it with the new pid.
Bound(k) ==
    /\ At(k, "bound")
    /\ runtime' = [c[k].rt EXCEPT ![c[k].prof] = c[k].pid]
    /\ Leave(k)
    /\ UNCHANGED <<proc, http, snap, claims, left>>

-----------------------------------------------------------------------------
(* stop *)

\* Mutant: any program that listens on the port is taken for the server.
OnPort_AnyListener(port) == Listeners(port)

\* pid_on_port
OnPort(port) == Listeners(port) \cap Live

\* The recorded pid if it is alive, else a server on the HTTP port.
AskStop(k) ==
    /\ Asks(k, "stop")
    /\ \E p \in left.profiles :
        IF runtime[p] # NoPid /\ Alive(runtime[p])
        THEN /\ Does(k, [pc |-> "kill", prof |-> p, pid |-> runtime[p], from |-> "record"])
             /\ UNCHANGED snap
        ELSE /\ See
             /\ IF OnPort(http[p]) = {} THEN UNCHANGED c
                ELSE \E n \in OnPort(http[p]) :
                        Does(k, [pc |-> "kill", prof |-> p, pid |-> n, from |-> "page"])
    /\ UNCHANGED <<proc, http, runtime, lock, claims, left>>

\* taskkill; the snapshot is dropped.
Kill(k) ==
    /\ At(k, "kill")
    /\ proc' = [proc EXCEPT ![c[k].pid] = Gone]
    /\ snap' = NoSnap
    /\ Does(k, [pc |-> "forget", prof |-> c[k].prof, rt |-> runtime])
    /\ UNCHANGED <<http, runtime, lock, claims, left>>

\* A server started as administrator cannot be killed.
KillDenied(k) ==
    /\ At(k, "kill") /\ Spend("ends")
    /\ snap' = NoSnap
    /\ Does(k, Resting)
    /\ UNCHANGED <<proc, http, runtime, lock, claims>>

\* History: a claim is dropped while a server is being launched on its port, or one that
\* is alive does not listen there yet.
Needed(port, servers) ==
    \/ \E n \in servers : ~proc[n].up /\ port \in proc[n].ports
    \/ \E l \in Clients : At(l, "launch") /\ port \in PortsOf(c[l].prof)
DroppedToo(ports, servers) == left.dropped \/ \E port \in ports \cap claims : Needed(port, servers)

Forget(k) ==
    /\ At(k, "forget")
    /\ runtime' = Without(c[k].rt, c[k].prof)
    /\ claims' = claims \ PortsOf(c[k].prof)
    /\ left' = [left EXCEPT !.dropped = DroppedToo(PortsOf(c[k].prof), Servers)]
    /\ Does(k, Resting)
    /\ UNCHANGED <<proc, http, snap, lock>>

\* stop("") lists the servers ...
AskStopAll(k) ==
    /\ Asks(k, "stop all")
    /\ See
    /\ Does(k, [pc |-> "kill all", pids |-> Live])
    /\ UNCHANGED <<proc, http, runtime, lock, claims, left>>

\* ... kills those it can, and empties LAUNCHING all the same.
KillAll(k) ==
    /\ At(k, "kill all")
    /\ \E stuck \in SUBSET c[k].pids :
        LET killed == c[k].pids \ stuck IN
        /\ stuck # {} => left.ends > 0
        /\ proc' = [n \in Pids |-> IF n \in killed THEN Gone ELSE proc[n]]
        /\ left' = [left EXCEPT !.ends = IF stuck = {} THEN @ ELSE @ - 1,
                                !.dropped = DroppedToo(claims, Servers \ killed)]
    /\ snap' = IF c[k].pids = {} THEN snap ELSE NoSnap
    /\ claims' = {}
    /\ Does(k, Resting)
    /\ UNCHANGED <<http, runtime, lock>>

-----------------------------------------------------------------------------
(* status: a record whose process is dead is removed *)

AskStatus(k) ==
    /\ Asks(k, "status")
    /\ See
    /\ \E p \in left.profiles :
        /\ runtime[p] # NoPid /\ runtime[p] \notin Live /\ ~Alive(runtime[p])
        /\ Does(k, [pc |-> "drop", prof |-> p])
    /\ UNCHANGED <<proc, http, runtime, lock, claims, left>>

Drop(k) ==
    /\ At(k, "drop")
    /\ Does(k, [pc |-> "dropped", prof |-> c[k].prof, rt |-> runtime])
    /\ UNCHANGED <<proc, http, runtime, snap, lock, claims, left>>

Dropped(k) ==
    /\ At(k, "dropped")
    /\ runtime' = Without(c[k].rt, c[k].prof)
    /\ Does(k, Resting)
    /\ UNCHANGED <<proc, http, snap, lock, claims, left>>

-----------------------------------------------------------------------------
(* The processes and the clock *)

\* The server listens on its ports.
Listen(n) ==
    /\ n \in Servers /\ ~proc[n].up /\ \A q \in proc[n].ports : ~Busy(q)
    /\ proc' = [proc EXCEPT ![n].up = TRUE]
    /\ UNCHANGED <<http, runtime, snap, lock, claims, c, left>>

\* A process ends by itself, or watch_memory kills a server that has run away.
Ends(n) ==
    /\ Alive(n) /\ Spend("ends")
    /\ proc' = [proc EXCEPT ![n] = Gone]
    /\ UNCHANGED <<http, runtime, snap, lock, claims, c>>

\* Another program starts and listens on a port no server has or is being started on.
OtherStarts ==
    /\ left.others > 0
    /\ \A k \in Clients : ~At(k, "claim")
    /\ \E q \in Ports \ (claims \cup Range(Tcp)), n \in NewPids :
        /\ ~Busy(q) /\ proc' = [proc EXCEPT ![n] = Other(q)]
        /\ left' = [left EXCEPT !.others = @ - 1, !.reused = @ \cup Known(n)]
    /\ UNCHANGED <<http, runtime, snap, lock, claims, c>>

\* Mutant: a claim has no time limit.
ClaimExpires_Never(port) == port \in claims /\ UNCHANGED vars

\* STARTUP_GRACE has passed: a server launched on the port listens by now, or is dead.
ClaimExpires(port) ==
    /\ port \in claims
    /\ \A k \in Clients : At(k, "launch") => port \notin PortsOf(c[k].prof)
    /\ \A n \in Servers : port \in proc[n].ports => proc[n].up
    /\ claims' = claims \ {port}
    /\ UNCHANGED <<proc, http, runtime, snap, lock, c, left>>

SnapExpires ==
    /\ snap # NoSnap /\ snap' = NoSnap
    /\ UNCHANGED <<proc, http, runtime, lock, claims, c, left>>

\* ACECM is closed and opened again; the servers go on.
Restart ==
    /\ left.restarts > 0
    /\ left' = [left EXCEPT !.restarts = @ - 1, !.dropped = DroppedToo(claims, Servers)]
    /\ snap' = NoSnap /\ lock' = FALSE /\ claims' = {} /\ c' = [k \in Clients |-> Resting]
    /\ UNCHANGED <<proc, http, runtime>>

Step(k) ==
    \/ Claimed(k) \/ Others(k) \/ Move(k) \/ PortBusy(k) \/ Claim(k) \/ Launch(k)
    \/ Watch(k) \/ Bind(k) \/ Bound(k)
    \/ Kill(k) \/ Forget(k) \/ KillAll(k)
    \/ Drop(k) \/ Dropped(k)

Ask(k) == AskStart(k) \/ AskStop(k) \/ AskStopAll(k) \/ AskStatus(k)

Next ==
    \/ \E k \in Clients : Ask(k) \/ Step(k) \/ LaunchFails(k) \/ KillDenied(k)
    \/ \E n \in Pids : Listen(n) \/ Ends(n)
    \/ \E q \in Ports : ClaimExpires(q)
    \/ SnapExpires \/ OtherStarts \/ Restart

Spec == Init /\ [][Next]_vars

\* Requests and servers go on, time passes, and the user presses Start again.
FairSpec ==
    /\ Spec
    /\ \A k \in Clients : WF_vars(Step(k))
    /\ \A n \in Pids : WF_vars(Listen(n))
    /\ \A q \in Ports : WF_vars(ClaimExpires(q))
    /\ WF_vars(SnapExpires)
    /\ \A k \in Clients, p \in Profiles : SF_vars(AskStart(k) /\ c'[k].prof = p)
-----------------------------------------------------------------------------
(* Properties *)

Starting(k) == c[k].pc \in {"claimed?", "others", "move", "busy?", "claim", "launch", "watch",
                            "bind", "bound"}

\* Every variable stays in its domain, and START_LOCK is held by the one start there is.
TypeOK ==
    /\ DOMAIN proc = Pids /\ http \in [Profiles -> Ports]
    /\ runtime \in [Profiles -> Pids \cup {NoPid}]
    /\ snap = NoSnap \/ snap \subseteq Pids
    /\ claims \subseteq Ports
    /\ Cardinality({k \in Clients : Starting(k)}) = IF lock THEN 1 ELSE 0

\* "claim the ports BEFORE launching: nothing listens for ~30 s" (start_inner): two
\* servers are never alive on one port - they would "spin and eat all memory" - unless a
\* stop, a stop of all that left one alive or a restart of ACECM dropped a claim within
\* that half minute, or a status page was moved onto a claimed port.
PortsUnique ==
    ~left.dropped =>
        \A n, m \in Servers : n # m => proc[n].ports \cap proc[m].ports = {}

\* "Identify the process first: a per-server Stop used to kill them all" (stop): what
\* Stop ends is a server of the profile it was pressed for, unless its pid was given
\* again since.  A server found by the status page's port is of another profile only
\* where the two were given one page, the page is or may be moved to another's game port,
\* or a claim was dropped too early.
Shares(p) ==
    \E q \in Profiles \ {p} :
        left.pages[q] = left.pages[p] \/ Tcp[q] \in Above \cup {left.pages[p]}

StopKillsOwn ==
    [][\A k \in Clients, n \in Pids :
        At(k, "kill") /\ c'[k].pc = "forget" /\ c[k].pid = n /\ Alive(n) /\ n \notin left.reused
        => /\ proc[n].kind = "server"
           /\ \/ proc[n].prof = c[k].prof
              \/ c[k].from = "page" /\ (Shares(c[k].prof) \/ left.dropped)]_vars

\* A profile whose server died, or was refused a port, can be started again, where nobody
\* stops it.
Restarted ==
    \A p \in Profiles :
        (\A k \in Clients : left.ops[k] \subseteq {"start", "status"}) /\ p \in left.profiles
        => <>[](\E n \in Servers : proc[n].prof = p /\ proc[n].up)
=============================================================================
