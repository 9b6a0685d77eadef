------------------------------- MODULE Drive -------------------------------
(***************************************************************************)
(* drive.rs: Quick Drive's one job - a single-player session, a join, or a *)
(* capture of the public list - run by a thread of its own that launches   *)
(* the game (launch.rs) and works its menu (gameui.rs) until it is there,  *)
(* gives up or is stopped; beside it the handlers of start, cancel and     *)
(* capture, the player, and the fetches of the list (LobbyFetch).          *)
(***************************************************************************)
EXTENDS LobbyFetch

CONSTANTS
    Threads,    \* of jobs; the other fetchers are the API's and the page's
    Clients,    \* handlers
    None,
    Scenes      \* bounds: what is asked for, how often, and what the player and the machine do

Bounds == [kinds : SUBSET {"sp", "server", "local", "capture"}, patient : BOOLEAN,
           asks : Nat, stops : Nat, faults : Nat, opens : Nat, closes : Nat, moves : Nat, fetches : Nat, late : Nat,
           strayed : {FALSE}]    \* the player left the page of this job's Connect (history)

ASSUME ConstantsAssumption ==
    Threads \subseteq Fetchers /\ None \notin Fetchers /\ Scenes \subseteq Bounds

VARIABLES
    job,      \* JOB's phase (all that are not told apart are "busy"), CANCEL and JOB_THREAD
    pressed,  \* Stop was pressed on the present job (history)
    op,       \* what each thread is doing; mixed: a game it did not launch was up when its launch
              \* returned, or was opened later; clung: a game outlived its forced end (history)
    game,     \* the game: its process, the job that launched it, its page
    mark,     \* the page's note that Connect was pressed (__acecmJoin)
    conn,     \* Connects of each job the game has not answered (history)
    srv,      \* the user's own server
    req,      \* what each handler is doing
    left      \* the scene, with what may still happen

driveVars == <<job, pressed, op, game, mark, conn, srv, req, left>>
vars == <<driveVars, lobbyVars>>

Terminal == {"idle", "launched", "failed", "cancelled"}
Resting  == [kind |-> "none", pc |-> "idle", saw |-> FALSE, ours |-> FALSE, made |-> FALSE, out |-> "none",
             mixed |-> FALSE, clung |-> FALSE]
Off      == [st |-> "off", by |-> None, page |-> "none"]
Opened(t, st) == [st |-> st, by |-> t, page |-> "boot"]

Init ==
    /\ InitLobby
    /\ job = [phase |-> "idle", cancel |-> FALSE, thread |-> None] /\ pressed = FALSE
    /\ op = [t \in Threads |-> Resting]
    /\ game \in {Off, [Opened(None, "up") EXCEPT !.page = "home"]}
    /\ mark = FALSE /\ conn = [t \in Threads |-> 0]
    /\ srv \in {"off", "starting", "open"}
    /\ req = [c \in Clients |-> "none"]
    /\ left \in Scenes /\ late = left.late

Up        == game.st = "up"
Listening == Up /\ game.page # "boot"
Live      == Up /\ game.page \in {"loading", "session"}
On(pages) == Up /\ game.page \in pages

Spend(what) == left[what] > 0 /\ left' = [left EXCEPT ![what] = @ - 1]
Fault       == Spend("faults")
At(t, pc)   == op[t].pc = pc
Does(t, step) == op' = [op EXCEPT ![t] = step]
Then(t, pc) == Does(t, [op[t] EXCEPT !.pc = pc])

\* A terminal phase clears CANCEL.
Set(phase) == job' = [job EXCEPT !.phase = phase, !.cancel = IF phase \in Terminal THEN FALSE ELSE @]
\* A job's end; the game it launched is the player's from here on.
End(t, phase) ==
    /\ Set(phase) /\ Does(t, Resting)
    /\ game' = [game EXCEPT !.by = IF @ = t THEN None ELSE @]
\* What run_sp, run_server and run_local make of what the menu gave: a game that is up is handed over.
Poked(t, ok) == End(t, IF ok \/ (op[t].kind = "sp" /\ Up) THEN "launched" ELSE "failed")

\* A page of its own, without the note.
Shows(page) == game' = [game EXCEPT !.page = page] /\ mark' = FALSE
\* A busy menu drops what it is asked for.
Goto(page) == Shows(page) \/ UNCHANGED <<game, mark>>

\* A step of a job's thread that leaves the rest alone: its menu, its server.
Rest  == UNCHANGED <<pressed, req, lobbyVars>>
Quiet == UNCHANGED <<mark, conn, srv>> /\ Rest
Free  == Quiet /\ UNCHANGED left

-----------------------------------------------------------------------------
(* start, capture_list and cancel *)

\* The page offers Drive when no job runs, and no other request is being answered.
Offered == left.patient => job.phase \in Terminal /\ \A c \in Clients : req[c] = "none"

\* A job that waits for the menu of a game that is not there is given up.
AskDrive(c, kind) ==
    /\ req[c] = "none" /\ kind \in left.kinds /\ Spend("asks") /\ Offered
    /\ \/ job.phase \in Terminal /\ UNCHANGED job
       \/ kind # "capture" /\ job.phase = "menu" /\ ~Up /\ Set("failed")
    /\ req' = [req EXCEPT ![c] = kind]
    /\ UNCHANGED <<pressed, op, game, mark, conn, srv, lobbyVars>>

Queues(c, t, cancel) ==
    /\ req[c] \notin {"none", "stop"}
    /\ Up => Listening
    /\ At(t, "idle") /\ Does(t, [Resting EXCEPT !.kind = req[c], !.pc = "begin"])
    /\ job' = [job EXCEPT !.phase = "busy", !.cancel = cancel] /\ pressed' = FALSE
    /\ conn' = [conn EXCEPT ![t] = 0]
    /\ IF req[c] = "capture" THEN Ages ELSE UNCHANGED list
    /\ req' = [req EXCEPT ![c] = "none"] /\ left' = [left EXCEPT !.strayed = FALSE]
    /\ UNCHANGED <<game, mark, srv, lobby, fetch, late>>

\* Mutant: a Stop that came too late for its job is left for the next one.
Queue_Stopped(c, t) == Queues(c, t, job.cancel)

Queue(c, t) == Queues(c, t, FALSE)

\* The game runs, but its menu cannot be worked.
Refuse(c) ==
    /\ req[c] \notin {"none", "stop"} /\ Up /\ ~Listening
    /\ req' = [req EXCEPT ![c] = "none"]
    /\ UNCHANGED <<job, pressed, op, game, mark, conn, srv, left, lobbyVars>>

AskStop(c) ==
    /\ req[c] = "none" /\ job.phase \notin Terminal /\ Spend("stops")
    /\ req' = [req EXCEPT ![c] = "stop"] /\ pressed' = TRUE
    /\ UNCHANGED <<job, op, game, mark, conn, srv, lobbyVars>>

Stop(c) ==
    /\ req[c] = "stop"
    /\ job' = [job EXCEPT !.cancel = TRUE] /\ req' = [req EXCEPT ![c] = "none"]
    /\ UNCHANGED <<pressed, op, game, mark, conn, srv, left, lobbyVars>>

\* sleep: only the job's own thread is stopped.
Sleeping == {"server", "listen", "wait", "on sp", "loads", "on mp", "pick", "sent", "open list", "list"}
Stops(t, closes) ==
    /\ op[t].pc \in Sleeping /\ job.cancel /\ job.thread = t
    /\ IF closes THEN Does(t, [op[t] EXCEPT !.pc = "close", !.out = "cancelled"]) /\ UNCHANGED <<job, game>>
       ELSE End(t, "cancelled")
    /\ Free

\* Mutant: a capture that is stopped leaves the game it launched.
Stopped_Leaves(t) == Stops(t, FALSE)

Stopped(t) == Stops(t, op[t].ours)

-----------------------------------------------------------------------------
(* run: what comes before the menu *)

Begin(t) ==
    /\ At(t, "begin")
    /\ job' = [job EXCEPT !.thread = t]
    /\ Then(t, CASE op[t].kind = "sp" -> "session" [] op[t].kind = "capture" -> "list?"
                 [] op[t].kind = "local" -> "server" [] OTHER -> "game?")
    /\ UNCHANGED game /\ Free

\* run_sp: a game that runs is worked as it is, else the session is written first.
Session(t) ==
    /\ At(t, "session")
    /\ \/ Up /\ Set("menu") /\ Then(t, "wait") /\ UNCHANGED <<game, left>>
       \/ ~Up /\ Set("busy") /\ Then(t, "launch") /\ UNCHANGED <<game, left>>
       \/ ~Up /\ Fault /\ End(t, "failed")
    /\ Quiet

\* run_local: a server that is marked running and does not listen is stopped and started again.
Server(t) ==
    /\ At(t, "server")
    /\ \/ srv = "open" /\ Then(t, "game?") /\ UNCHANGED <<job, game, srv, left>>
       \/ srv = "starting" /\ srv' = "off" /\ UNCHANGED <<job, op, game, left>>
       \/ srv = "off" /\ srv' = "starting" /\ Set("busy") /\ Then(t, "listen") /\ UNCHANGED <<game, left>>
       \/ Fault /\ End(t, "failed") /\ UNCHANGED srv
    /\ UNCHANGED <<mark, conn>> /\ Rest

\* wait_server
Listens(t) ==
    /\ At(t, "listen")
    /\ IF srv = "open" THEN Then(t, "game?") /\ UNCHANGED <<job, game>> ELSE End(t, "failed")
    /\ Free

\* run_server and run_local: the game is launched unless it runs.
Game(t) ==
    /\ At(t, "game?")
    /\ \/ Up /\ Set("menu") /\ Then(t, "wait") /\ UNCHANGED <<game, left>>
       \/ ~Up /\ Set("busy") /\ Then(t, "launch") /\ UNCHANGED <<game, left>>
       \/ Fault /\ End(t, "failed")
    /\ Quiet

\* launch_game: the program itself, which is there when this returns, or Steam, which starts it later
\* or never.  A game that came up meanwhile, the player's or one that was asked for before, is taken
\* for the one launched.
Launch(t) ==
    /\ At(t, "launch")
    /\ \/ /\ game' \in IF Up THEN {game} ELSE {Opened(t, "up"), Opened(t, "starting")}
          /\ Set("menu") /\ Does(t, [op[t] EXCEPT !.pc = "wait", !.ours = op[t].kind = "capture", !.mixed = Up])
          /\ UNCHANGED left
       \/ Fault /\ End(t, "failed")
    /\ Quiet

-----------------------------------------------------------------------------
(* wait_ready: until the menu can be worked *)

See(t) == At(t, "wait") /\ Up /\ ~op[t].saw /\ Does(t, [op[t] EXCEPT !.saw = TRUE]) /\ UNCHANGED <<job, game>> /\ Free

\* A menu left on Multiplayer does not come home by itself.
Home(t) ==
    /\ At(t, "wait") /\ On({"mp"})
    /\ Shows("home")
    /\ UNCHANGED <<job, op, conn, srv, left>> /\ Rest

\* Home or Single Player; or a session that is there already, all that a drive wants.
Menu(t, pages) ==
    /\ At(t, "wait")
    /\ \/ op[t].kind # "capture" /\ On(pages) /\ Then(t, "car") /\ UNCHANGED <<job, game>>
       \/ op[t].kind # "capture" /\ Live /\ Poked(t, TRUE)
       \/ op[t].kind = "capture" /\ (On(pages) \/ Live) /\ Set("busy") /\ Then(t, "open list") /\ UNCHANGED game
    /\ Free

\* Mutant: a menu on Multiplayer will do.
Ready_Anywhere(t) == Menu(t, {"home", "sp", "mp"})

Ready(t) == Menu(t, {"home", "sp"})

\* Mutant: the wait has no end but the game's.
NotReady_Patient(t) ==
    /\ At(t, "wait") /\ op[t].saw /\ ~Up
    /\ IF op[t].kind = "capture" THEN End(t, "failed") ELSE Poked(t, FALSE)
    /\ Free

\* The game closed, or ninety seconds are over.
NotReady(t) ==
    /\ At(t, "wait")
    /\ IF op[t].ours /\ ~(op[t].saw /\ ~Up)
       THEN Does(t, [op[t] EXCEPT !.pc = "close", !.out = "failed"]) /\ UNCHANGED <<job, game>>
       ELSE IF op[t].kind = "capture" THEN End(t, "failed") ELSE Poked(t, FALSE)
    /\ Free

Car(t) ==
    /\ At(t, "car")
    /\ \/ Live /\ op[t].kind = "sp" /\ Poked(t, TRUE) /\ UNCHANGED left
       \/ /\ Up /\ (Set("busy") \/ UNCHANGED job)
          /\ Then(t, IF op[t].kind = "sp" THEN "conditions" ELSE "go mp") /\ UNCHANGED <<game, left>>
       \/ ~Up /\ Poked(t, FALSE) /\ UNCHANGED left
       \/ Fault /\ Poked(t, FALSE)
    /\ Quiet

-----------------------------------------------------------------------------
(* enter_and_start *)

Conditions(t) ==
    /\ At(t, "conditions")
    /\ \/ Up /\ ~Live /\ Set("busy") /\ Then(t, "on sp") /\ Goto("sp") /\ UNCHANGED left
       \/ (~Up \/ Live) /\ Poked(t, FALSE) /\ UNCHANGED <<mark, left>>
       \/ Fault /\ Poked(t, FALSE) /\ UNCHANGED mark
    /\ UNCHANGED <<conn, srv>> /\ Rest

OnSp(t) ==
    /\ At(t, "on sp")
    /\ \/ On({"sp"}) /\ Then(t, "press") /\ UNCHANGED <<job, game>>
       \/ ~On({"sp"}) /\ Poked(t, FALSE)
    /\ Free

\* The track is set and Start pressed, again if the first answer was lost; by then the page may have gone.
Press(t) ==
    /\ At(t, "press") /\ Set("busy")
    /\ \/ On({"sp"}) /\ Shows("loading") /\ Then(t, "loads") /\ UNCHANGED left
       \/ On({"sp"}) /\ Shows("loading") /\ Then(t, "lost") /\ Fault
       \/ ~On({"sp"}) /\ Then(t, "lost") /\ UNCHANGED <<game, mark, left>>
       \/ Then(t, "lost") /\ Fault /\ UNCHANGED <<game, mark>>
    /\ UNCHANGED <<conn, srv>> /\ Rest

Lost(t) == At(t, "lost") /\ Poked(t, FALSE) /\ Free

\* Twenty-five seconds for the session.
Loads(t) == At(t, "loads") /\ (\E ok \in BOOLEAN : (ok => Live) /\ Poked(t, ok)) /\ Free

-----------------------------------------------------------------------------
(* enter_and_join *)

GoMp(t) ==
    /\ At(t, "go mp") /\ Set("busy") /\ Then(t, "on mp")
    /\ IF On({"home", "sp"}) THEN Goto("mp") ELSE UNCHANGED <<game, mark>>
    /\ UNCHANGED <<conn, srv, left>> /\ Rest

OnMp(t) ==
    /\ At(t, "on mp")
    /\ \/ (On({"mp"}) \/ Live) /\ Then(t, "pick") /\ UNCHANGED <<job, game, mark>>
       \/ ~On({"mp"}) /\ ~Live /\ Poked(t, FALSE) /\ UNCHANGED mark
    /\ UNCHANGED <<conn, srv, left>> /\ Rest

\* The list is asked for again, by a join as by a capture: a busy menu dropped it, or it was closed.
AsksAgain(t) ==
    /\ op[t].pc \in {"on mp", "open list"} /\ On({"home", "sp"})
    /\ Shows("mp")
    /\ UNCHANGED <<job, op, conn, srv, left>> /\ Rest

\* join_public: Connect, with a note for the next time; the answer may be lost.
Connects(t, noted) ==
    /\ At(t, "pick") /\ On({"mp"})
    /\ \/ noted /\ Then(t, "sent") /\ UNCHANGED <<mark, conn, left>>
       \/ /\ ~noted /\ mark' = TRUE /\ conn' = [conn EXCEPT ![t] = @ + 1]
          /\ \/ Does(t, [op[t] EXCEPT !.pc = "sent", !.made = TRUE]) /\ UNCHANGED left
             \/ Does(t, [op[t] EXCEPT !.made = TRUE]) /\ Fault
    /\ UNCHANGED <<job, game, srv>> /\ Rest

\* Mutant: the page keeps no note.
Connect_Again(t) == Connects(t, FALSE)

Connect(t) == Connects(t, mark)

\* The car is not allowed, or fifty seconds are over.
NotPicked(t) == At(t, "pick") /\ Poked(t, FALSE) /\ Free

\* The game says so, or it is told that Join was pressed once.
Sent(t) == At(t, "sent") /\ Poked(t, Up) /\ Free

-----------------------------------------------------------------------------
(* run_capture *)

\* The fast path: the lobby itself, when the game does not run.
AskLobby(t) ==
    /\ At(t, "list?")
    /\ IF Up THEN Then(t, "proxy") /\ UNCHANGED lobbyVars ELSE Then(t, "fetch") /\ AskFetch(t, TRUE, Up)
    /\ UNCHANGED <<job, pressed, game, mark, conn, srv, req, left>>

LobbySays(t) ==
    /\ At(t, "fetch") /\ fetch[t].pc = "answer" /\ Takes(t)
    /\ IF fetch[t].ok THEN End(t, "launched") ELSE Then(t, "proxy") /\ UNCHANGED <<job, game>>
    /\ UNCHANGED <<pressed, mark, conn, srv, req, left, lobby, list, late>>

Proxy(t) ==
    /\ At(t, "proxy")
    /\ \/ Listening /\ Set("menu") /\ Then(t, "wait") /\ UNCHANGED <<game, left>>
       \/ ~Up /\ Set("busy") /\ Then(t, "launch") /\ UNCHANGED <<game, left>>
       \/ Up /\ ~Listening /\ End(t, "failed") /\ UNCHANGED left
       \/ Fault /\ End(t, "failed")
    /\ Quiet

\* Asked for (AsksAgain) until it is open, or for forty-five seconds.
OpenList(t) ==
    /\ At(t, "open list")
    /\ \/ Up /\ Then(t, "list") /\ UNCHANGED <<job, game>>
       \/ ~Up /\ End(t, "failed")
    /\ Free

Closes(t, out) == Does(t, [op[t] EXCEPT !.pc = "close", !.out = out])

\* The list came through the proxy: the game is closed, whose ever it is.  If it did not, only our own is.
Lists(t, ours) ==
    /\ At(t, "list")
    /\ \/ Up /\ list = "new" /\ Set("busy") /\ Closes(t, "launched") /\ UNCHANGED game
       \/ list # "new" /\ Up /\ ours /\ Closes(t, "failed") /\ UNCHANGED <<job, game>>
       \/ list # "new" /\ Up /\ ~ours /\ End(t, "failed")
       \/ ~Up /\ End(t, "failed")
    /\ Free

\* Mutant: a capture that fails closes the game, whose ever it is.
List_Any(t) == Lists(t, TRUE)

List(t) == Lists(t, op[t].ours)

\* close_game: asked to quit, closed, killed; and when even that fails, run_capture goes on the same.
Close(t) ==
    /\ At(t, "close")
    /\ \/ Up /\ Then(t, "end") /\ game' = Off /\ mark' = FALSE /\ conn' = [u \in Threads |-> 0] /\ UNCHANGED left
       \/ ~Up /\ Then(t, "end") /\ UNCHANGED <<game, mark, conn, left>>
       \/ /\ Up /\ Fault /\ Does(t, [op[t] EXCEPT !.pc = "end", !.clung = TRUE])
          /\ UNCHANGED <<game, mark, conn>>
    /\ UNCHANGED <<job, srv>> /\ Rest

EndCapture(t) == At(t, "end") /\ End(t, op[t].out) /\ Free

-----------------------------------------------------------------------------
(* The game, the player, the server, and fetches of the list by others *)

Around == UNCHANGED <<job, pressed, op, req, lobbyVars>>

\* What Steam was asked for comes up, or does not.
Comes ==
    /\ game.st = "starting" /\ game' \in {Opened(game.by, "up"), Off}
    /\ UNCHANGED <<mark, conn, srv, left>> /\ Around

Boots == On({"boot"}) /\ Shows("home") /\ UNCHANGED <<conn, srv, left>> /\ Around

\* A Connect is answered: the session loads, or the server refused.
Answers ==
    /\ \E t \in Threads : conn[t] > 0
    /\ conn' = [t \in Threads |-> 0]
    /\ \/ On({"mp"}) /\ Shows("loading")
       \/ UNCHANGED <<game, mark>>
    /\ UNCHANGED <<srv, left>> /\ Around

InSession == On({"loading"}) /\ Shows("session") /\ UNCHANGED <<conn, srv, left>> /\ Around

\* The list passes through the proxy while the game shows it.
Captured ==
    /\ On({"mp"}) /\ list' = "new"
    /\ UNCHANGED <<driveVars, lobby, fetch, late>>

\* The player works the menu too ...
Moves ==
    /\ On({"home", "sp", "mp", "session"}) /\ left.moves > 0
    /\ left' = [left EXCEPT !.moves = @ - 1, !.strayed = @ \/ mark]
    /\ \E page \in {"home", "sp", "mp"} : page # game.page /\ (game.page = "session" => page = "home") /\ Shows(page)
    /\ UNCHANGED <<conn, srv>> /\ Around

\* ... closes the game, or it crashes ...
GameCloses ==
    /\ Up /\ Spend("closes") /\ game' = Off /\ mark' = FALSE /\ conn' = [t \in Threads |-> 0]
    /\ UNCHANGED srv /\ Around

\* ... and opens it, also while a job launches one, or before a capture has seen that its own is gone.
GameOpens ==
    /\ ~Up /\ Spend("opens") /\ game' = Opened(None, "up")
    /\ op' = [t \in Threads |-> [op[t] EXCEPT !.mixed = @ \/ op[t].ours]]
    /\ UNCHANGED <<job, pressed, mark, conn, srv, req, lobbyVars>>

ServerListens == srv = "starting" /\ srv' = "open" /\ UNCHANGED <<game, mark, conn, left>> /\ Around

\* lobby_fetch by the API, or by the page when the list is old.
AsksList(x) ==
    /\ x \notin Threads /\ Spend("fetches")
    /\ \E wait \in BOOLEAN : AskFetch(x, wait, Up)
    /\ UNCHANGED <<job, pressed, op, game, mark, conn, srv, req>>

HasList(x) ==
    /\ x \notin Threads /\ fetch[x].pc = "answer" /\ Takes(x)
    /\ UNCHANGED <<driveVars, lobby, list, late>>

-----------------------------------------------------------------------------

Step(t) ==
    \/ Stopped(t) \/ Begin(t) \/ Session(t) \/ Server(t) \/ Listens(t) \/ Game(t) \/ Launch(t)
    \/ See(t) \/ Ready(t) \/ NotReady(t) \/ Car(t)
    \/ Conditions(t) \/ OnSp(t) \/ Press(t) \/ Lost(t) \/ Loads(t)
    \/ GoMp(t) \/ OnMp(t) \/ Connect(t) \/ NotPicked(t) \/ Sent(t)
    \/ AskLobby(t) \/ LobbySays(t) \/ Proxy(t) \/ OpenList(t) \/ List(t) \/ Close(t) \/ EndCapture(t)

Lobby(x) == Fetches(x) /\ UNCHANGED driveVars

Handler(c) == (\E t \in Threads : Queue(c, t)) \/ Refuse(c) \/ Stop(c)

Machine == Comes \/ Boots \/ Answers \/ InSession \/ Captured \/ Moves \/ GameCloses \/ GameOpens \/ ServerListens

Next ==
    \/ \E c \in Clients : Handler(c) \/ AskStop(c) \/ \E kind \in left.kinds : AskDrive(c, kind)
    \/ \E t \in Threads : Step(t) \/ Home(t) \/ AsksAgain(t)
    \/ \E x \in Fetchers : Lobby(x) \/ AsksList(x) \/ HasList(x)
    \/ Machine

Spec == Init /\ [][Next]_vars

\* Threads run, and what they wait for in a menu, asking again or not, has a deadline; the game and
\* the player owe nothing.
FairSpec ==
    /\ Spec
    /\ \A t \in Threads : WF_vars(Step(t))
    /\ \A x \in Fetchers : WF_vars(Lobby(x))

-----------------------------------------------------------------------------
(* Properties *)

Serial  == left.patient
Ends(t) == op[t].pc # "idle" /\ op'[t].pc = "idle"

\* "The point where Stop takes effect" (sleep): as long as one request is answered at a time, a job
\* ends as stopped only if Stop was pressed on that job, however late the last one's came.
StopsOwn ==
    [][Serial => \A t \in Threads : (Ends(t) /\ job'.phase = "cancelled") => pressed]_vars

\* "Connect once on the list" (enter_and_join), for "a second Connect while physics loads
\* access-violates the physics thread": a job has one Connect with the game at a time, also when an
\* answer was lost, and what it says it has sent it has.  The note lives on the page (JOIN_PUBLIC): a
\* player who leaves the page between a lost answer and the next try takes it along.
ConnectsOnce ==
    Serial => \A t \in Threads :
        (At(t, "idle") \/ conn[t] <= 1 \/ left.strayed) /\ (At(t, "sent") => op[t].made)

\* A capture that got no list closes no game but its own, unless the player opened one while it
\* launched its own or had it: that one it takes for its own.  And none leaves behind a game that it
\* launched and saw, unless the game would not even be killed.
CaptureTidy ==
    [][Serial => \A t \in Threads :
        /\ (op[t].pc = "close" /\ op'[t].pc = "end" /\ Up) => (game.by = t \/ op[t].out = "launched" \/ op[t].mixed)
        /\ (Ends(t) /\ op[t].ours /\ op[t].saw) => (~(Up /\ game.by = t) \/ op[t].clung)]_vars

\* A capture that ends well has a list from after it was asked for, whether the game, its own fetch
\* or another's brought it; unless a fetch that was waited for too long is answered with the one before.
CaptureFresh ==
    [][(Serial /\ late = left.late) => \A t \in Threads : (Ends(t) /\ op[t].kind = "capture" /\ job'.phase = "launched") => list = "new"]_vars

\* "Not finished, not a list of busy phases" (start): a job that never ends would be in the way of
\* all later ones.  Each ends, whatever the game, the player and the lobby do.
JobEnds == job.phase \notin Terminal ~> job.phase \in Terminal
=============================================================================
