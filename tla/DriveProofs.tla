---------------------------- MODULE DriveProofs ----------------------------
(* Proofs about Drive and the list fetches beside it, for any number of     *)
(* threads, handlers and fetchers and any bounds: type correctness, a Stop  *)
(* that stops its own job, one Connect, the player's game left alone, and a *)
(* capture's new list.                                                      *)
EXTENDS Drive, TLAPS

(* The state, its types and what goes with each step.                       *)

Kinds     == {"sp", "server", "local", "capture"}
Phases    == Terminal \cup {"busy", "menu"}
Early     == {"begin", "session", "server", "listen", "game?", "list?", "fetch", "proxy", "launch"}
Driving   == {"car", "conditions", "on sp", "press", "lost", "loads", "go mp", "on mp", "pick", "sent"}
Capturing == {"open list", "list", "close", "end"}
Pcs       == {"idle", "wait"} \cup Early \cup Driving \cup Capturing
Outs      == {"none", "launched", "failed", "cancelled"}
Jobs      == [phase : Phases, cancel : BOOLEAN, thread : Threads \cup {None}]
Steps     == {s \in [kind : Kinds \cup {"none"}, pc : Pcs, saw : BOOLEAN, ours : BOOLEAN, made : BOOLEAN, out : Outs,
                    mixed : BOOLEAN, clung : BOOLEAN] :
              s.pc \in {"close", "end"} => s.out # "none"}
Pages     == {"none", "boot", "home", "sp", "mp", "loading", "session"}
Games     == [st : {"off", "starting", "up"}, by : Threads \cup {None}, page : Pages]
Lefts     == [kinds : SUBSET Kinds, patient : BOOLEAN,
              asks : Nat, stops : Nat, faults : Nat, opens : Nat, closes : Nat, moves : Nat, fetches : Nat,
              late : Nat, strayed : BOOLEAN]
Lobbies   == [running : BOOLEAN, last : {"none", "ok", "failed"}]
Fetchings == [pc : {"idle", "lock", "wait", "fetch", "written", "ok", "failed", "answer"},
              wait : BOOLEAN, ok : BOOLEAN]

TypeOK ==
    /\ job \in Jobs /\ pressed \in BOOLEAN /\ op \in [Threads -> Steps]
    /\ game \in Games /\ mark \in BOOLEAN /\ conn \in [Threads -> Nat]
    /\ srv \in {"off", "starting", "open"}
    /\ req \in [Clients -> Kinds \cup {"none", "stop"}]
    /\ left \in Lefts
    /\ lobby \in Lobbies /\ list \in {"old", "new"} /\ fetch \in [Fetchers -> Fetchings] /\ late \in Nat

\* While requests wait for each other, at most one job works, and none while another is asked for.
OneJob ==
    /\ job.phase \in Terminal => \A t \in Threads : op[t] = Resting
    /\ \A t, u \in Threads : ~At(t, "idle") /\ ~At(u, "idle") => t = u
    /\ \A c \in Clients : req[c] \in Kinds =>
        job.phase \in Terminal /\ \A d \in Clients : d = c \/ req[d] = "none"

\* A Stop on its way, or one that arrived, was pressed on the job that runs.
OwnStop == job.phase \notin Terminal /\ (job.cancel \/ \E c \in Clients : req[c] = "stop") => pressed

\* What goes with the place in the job: the fields of thread t's step s, its Connects, the game it
\* launched, and the list.
Place(s) ==
    /\ s.pc = "idle" => s = Resting
    /\ s.kind = "capture" => s.pc \notin {"session", "server", "listen", "game?"} \cup Driving
    /\ s.ours => s.kind = "capture" /\ s.pc \in {"wait"} \cup Capturing
    /\ s.saw => s.pc \notin Early
    /\ s.pc = "close" => s.ours \/ s.out = "launched"
    /\ s.pc = "sent" => s.made
    /\ s.out = "cancelled" => pressed
NoteOf(t, s) ==
    /\ s.pc \notin {"idle", "pick", "sent"} => conn[t] = 0
    /\ s.pc = "idle" \/ conn[t] <= 1 \/ left.strayed
    /\ s.pc = "pick" /\ conn[t] > 0 => mark \/ left.strayed
    /\ mark /\ s.pc \in {"car", "go mp", "on mp", "pick"} => s.made
GameOf(t, s) ==
    s.ours =>
        /\ game.by = t \/ game.st = "off" \/ s.mixed
        /\ s.saw => game.st # "starting" /\ (s.pc = "end" => game.st = "off" \/ game.by = None \/ s.clung)
InTime == late = left.late
ListOf(t, s) ==
    /\ fetch[t].pc # "idle" => s.pc = "fetch"
    /\ InTime /\ fetch[t].pc = "answer" /\ fetch[t].ok => list = "new"
    /\ InTime /\ fetch[t].pc = "wait" /\ ~lobby.running /\ lobby.last = "ok" => list = "new"
    /\ s.out = "launched" => list = "new"
Fits(t, s) == Place(s) /\ NoteOf(t, s) /\ GameOf(t, s) /\ ListOf(t, s)

\* The note is on the page, Connects wait in a menu that listens, and a list that was written is new.
Noted == (mark => On({"mp"})) /\ (~Listening => \A t \in Threads : conn[t] = 0)
Written == late <= left.late /\ \A x \in Fetchers : fetch[x].pc \in {"written", "ok"} => list = "new"

Orderly == OneJob /\ OwnStop /\ Noted /\ Written /\ \A t \in Threads : Fits(t, op[t])

IInv == TypeOK /\ (Serial => Orderly)

(* What the steps of a thread have in common.                               *)

\* What is left of the bounds but for the player's moves.
Spent == left' \in Lefts /\ left'.patient = left.patient /\ left'.late = left.late /\ left'.strayed = left.strayed

Works == job' \in Jobs /\ (Serial => job'.phase \notin Terminal /\ job'.cancel = job.cancel)

LEMMA FaultSpent == ASSUME TypeOK, Fault PROVE Spent
  BY DEF TypeOK, Fault, Spend, Spent, Lefts

LEMMA FreeSpent == ASSUME TypeOK, UNCHANGED left PROVE Spent
  BY DEF TypeOK, Spent

LEMMA SetWorks == ASSUME TypeOK, NEW phase \in {"busy", "menu"}, Set(phase) PROVE Works
  BY DEF TypeOK, Set, Works, Jobs, Phases, Terminal

\* Who works has the job to itself.
LEMMA Others ==
  ASSUME IInv, Serial, NEW t \in Threads, ~At(t, "idle")
  PROVE  job.phase \notin Terminal /\ \A u \in Threads : u # t => op[u] = Resting
  BY DEF IInv, TypeOK, Orderly, OneJob, At, Fits, Place, Resting

LEMMA SameWorks == ASSUME IInv, NEW t \in Threads, ~At(t, "idle"), UNCHANGED job PROVE Works
  BY Others DEF IInv, TypeOK, Works

\* A job that goes on: what holds of the rest, and of the thread, is to be seen.
LEMMA GoesOn ==
  ASSUME IInv, NEW t \in Threads, ~At(t, "idle"), NEW s \in Steps, s.pc # "idle", Does(t, s), Works,
         UNCHANGED <<pressed, req>>, Spent, TypeOK',
         Serial => Noted' /\ Written' /\ Fits(t, op[t])',
         \A u \in Threads : fetch'[u] = fetch[u] \/ u = t
  PROVE  IInv'
<1> SUFFICES ASSUME Serial' PROVE Orderly'
  BY DEF IInv
<1>1. Serial
  BY DEF Serial, Spent
<1>2. job.phase \notin Terminal /\ \A u \in Threads : u # t => op[u] = Resting
  BY <1>1, Others
<1>3. op'[t] = s /\ \A u \in Threads : u # t => op'[u] = Resting
  BY <1>2 DEF IInv, TypeOK, Does
<1>4. OneJob'
  BY <1>1, <1>2, <1>3 DEF IInv, Orderly, OneJob, Works, At, Resting
<1>5. OwnStop'
  BY <1>1, <1>2 DEF IInv, Orderly, OwnStop, Works
<1>6. \A u \in Threads : u # t => Fits(u, Resting)'
  <2> TAKE u \in Threads
  <2> HAVE u # t
  <2>1. fetch[u].pc = "idle"
    BY <1>1, <1>2 DEF IInv, Orderly, Fits, ListOf, Resting
  <2>2. fetch'[u].pc = "idle"
    BY <2>1
  <2> QED
    BY <2>2 DEF Fits, Place, NoteOf, GameOf, ListOf, Resting, Early, Driving, Capturing
<1>7. \A u \in Threads : Fits(u, op[u])'
  <2> SUFFICES ASSUME NEW u \in Threads PROVE Fits(u, op[u])'
    OBVIOUS
  <2>1. CASE u = t
    BY <1>1, <2>1
  <2>2. CASE u # t
    BY <1>3, <1>6, <2>2 DEF Fits, Place, NoteOf, GameOf, ListOf
  <2> QED
    BY <2>1, <2>2
<1> QED
  BY <1>1, <1>4, <1>5, <1>7 DEF Orderly

\* One that leaves the game, its page and the list alone.
LEMMA QuietGoes ==
  ASSUME IInv, NEW t \in Threads, ~At(t, "idle"), NEW s \in Steps, s.pc # "idle", Does(t, s), Works,
         UNCHANGED <<pressed, req, game, mark, conn, lobbyVars>>, srv' \in {"off", "starting", "open"}, Spent,
         Serial => Fits(t, s)
  PROVE  IInv'
<1>1. TypeOK'
  BY DEF IInv, TypeOK, Does, Works, Spent, lobbyVars
<1>2. op'[t] = s
  BY DEF IInv, TypeOK, Does
<1>3. ASSUME Serial PROVE Noted' /\ Written' /\ Fits(t, op[t])'
  <2>1. Noted' /\ Written'
    BY <1>3 DEF IInv, Orderly, Noted, Written, On, Up, Listening, lobbyVars, Spent
  <2>2. Place(s) /\ NoteOf(t, s) /\ GameOf(t, s) /\ ListOf(t, s)
    BY <1>3 DEF Fits
  <2>3. Place(op[t])'
    BY <1>2, <2>2 DEF Place, Resting
  <2>4. NoteOf(t, op[t])'
    BY <1>2, <2>2 DEF NoteOf, Spent
  <2>5. GameOf(t, op[t])'
    BY <1>2, <2>2 DEF GameOf
  <2>6. ListOf(t, op[t])'
    BY <1>2, <2>2 DEF ListOf, InTime, lobbyVars, Spent
  <2> QED
    BY <2>1, <2>3, <2>4, <2>5, <2>6 DEF Fits
<1> QED
  BY <1>1, <1>3, GoesOn DEF lobbyVars

\* One that ends.
LEMMA Ended ==
  ASSUME IInv, NEW t \in Threads, ~At(t, "idle"), NEW phase \in Terminal, End(t, phase),
         UNCHANGED <<pressed, req, mark, conn, lobby, list, late>>, srv' \in {"off", "starting", "open"}, Spent,
         (fetch' = fetch /\ ~At(t, "fetch")) \/ Takes(t)
  PROVE  IInv'
<1>1. game' \in Games /\ game'.st = game.st /\ game'.page = game.page
  BY DEF IInv, TypeOK, End, Games
<1>2. job' \in Jobs /\ job'.phase = phase /\ ~job'.cancel
  BY DEF IInv, TypeOK, End, Set, Jobs, Phases
<1>3. Resting \in Steps
  BY DEF Resting, Steps, Pcs, Outs
<1>4. fetch' \in [Fetchers -> Fetchings] /\ \A x \in Fetchers : fetch'[x] = fetch[x] \/ fetch'[x].pc = "idle"
  <2>1. CASE fetch' = fetch
    BY <2>1 DEF IInv, TypeOK
  <2>2. CASE Takes(t)
    <3>1. Away \in Fetchings /\ Away.pc = "idle"
      BY DEF Away, Fetchings
    <3> QED
      BY <2>2, <3>1 DEF IInv, TypeOK, Takes
  <2> QED
    BY <2>1, <2>2
<1>5. TypeOK'
  BY <1>1, <1>2, <1>3, <1>4 DEF IInv, TypeOK, End, Does, Spent
<1> SUFFICES ASSUME Serial' PROVE Orderly'
  BY <1>5 DEF IInv
<1>6. Serial
  BY DEF Serial, Spent
<1>7. job.phase \notin Terminal /\ \A u \in Threads : u # t => op[u] = Resting
  BY <1>6, Others
<1>8. \A u \in Threads : op'[u] = Resting
  BY <1>7 DEF IInv, TypeOK, End, Does
<1>9. OneJob'
  BY <1>2, <1>6, <1>7, <1>8 DEF IInv, Orderly, OneJob, At, Resting
<1>10. OwnStop' /\ Noted' /\ Written'
  BY <1>1, <1>2, <1>4, <1>6 DEF IInv, Orderly, OwnStop, Noted, Written, On, Up, Listening, Spent
<1>11. \A u \in Threads : fetch'[u].pc = "idle"
  <2> SUFFICES ASSUME NEW u \in Threads PROVE fetch'[u].pc = "idle"
    OBVIOUS
  <2>1. CASE u = t
    <3>1. ~At(t, "fetch") => fetch[t].pc = "idle"
      BY <1>6 DEF IInv, Orderly, Fits, ListOf, At
    <3>2. Takes(t) => fetch'[t].pc = "idle"
      BY ConstantsAssumption DEF IInv, TypeOK, Takes, Away
    <3> QED
      BY <2>1, <3>1, <3>2
  <2>2. CASE u # t
    <3>1. fetch[u].pc = "idle"
      BY <1>6, <1>7, <2>2 DEF IInv, Orderly, Fits, ListOf, Resting
    <3> QED
      BY <1>4, <3>1, ConstantsAssumption
  <2> QED
    BY <2>1, <2>2
<1>12. \A u \in Threads : Fits(u, op[u])'
  <2> TAKE u \in Threads
  <2>1. op'[u] = Resting /\ fetch'[u].pc = "idle"
    BY <1>8, <1>11
  <2>2. Resting.pc = "idle" /\ Resting.kind = "none" /\ ~Resting.ours /\ ~Resting.saw /\ Resting.out = "none"
    BY DEF Resting
  <2>3. Place(op[u])' /\ GameOf(u, op[u])' /\ ListOf(u, op[u])'
    BY <2>1, <2>2 DEF Place, GameOf, ListOf, Early
  <2>4. NoteOf(u, op[u])'
    BY <2>1, <2>2 DEF NoteOf
  <2> QED
    BY <2>3, <2>4 DEF Fits
<1> QED
  BY <1>9, <1>10, <1>12 DEF Orderly

\* The usual end: nothing but the game's owner changes beside the job.
LEMMA PlainEnd ==
  ASSUME IInv, NEW t \in Threads, ~At(t, "idle"), ~At(t, "fetch"), NEW phase \in Terminal, End(t, phase),
         UNCHANGED <<pressed, req, mark, conn, srv, lobbyVars>>, Spent
  PROVE  IInv'
  BY Ended DEF IInv, TypeOK, lobbyVars

LEMMA PokedEnd ==
  ASSUME IInv, NEW t \in Threads, ~At(t, "idle"), ~At(t, "fetch"), NEW ok, Poked(t, ok),
         UNCHANGED <<pressed, req, mark, conn, srv, lobbyVars>>, Spent
  PROVE  IInv'
<1>1. CASE End(t, "launched")
  BY <1>1, PlainEnd DEF Terminal
<1>2. CASE End(t, "failed")
  BY <1>2, PlainEnd DEF Terminal
<1> QED
  BY <1>1, <1>2 DEF Poked

LEMMA NoneYet == ASSUME NEW n, n = 0 PROVE n <= 1 /\ ~(n > 0)
  OBVIOUS

\* A step to another place, and what has to be seen of it.
Leads(t, pc) ==
    /\ pc \in Pcs \ {"idle", "close", "sent", "end"} /\ op[t].pc \notin {"idle", "fetch"}
    /\ pc \in Early => op[t].pc \in Early
    /\ pc \in Driving \cup {"session", "server", "listen", "game?"} => op[t].kind # "capture"
    /\ IF pc = "pick" THEN op[t].pc = "on mp" ELSE op[t].pc \notin {"pick", "sent"}
    /\ pc \in {"car", "go mp", "on mp"} => op[t].pc \in {"car", "go mp", "on mp"} \/ ~mark

LEMMA LeadsFits ==
  ASSUME IInv, Serial, NEW t \in Threads, NEW pc, Leads(t, pc),
         NEW s, s \in Steps, s = [op[t] EXCEPT !.pc = pc]
  PROVE  Fits(t, s)
<1>1. op[t] \in Steps
  BY DEF IInv, TypeOK
<1>2. s \in Steps /\ s.pc = pc /\ s.kind = op[t].kind /\ s.saw = op[t].saw /\ s.ours = op[t].ours
      /\ s.made = op[t].made /\ s.out = op[t].out /\ s.mixed = op[t].mixed /\ s.clung = op[t].clung
  BY <1>1 DEF Steps
<1>3. Place(op[t]) /\ NoteOf(t, op[t]) /\ GameOf(t, op[t]) /\ ListOf(t, op[t])
  BY DEF IInv, Orderly, Fits
<1>4. Place(s)
  <2>1. s.kind = "capture" => s.pc \notin {"session", "server", "listen", "game?"} \cup Driving
    BY <1>2 DEF Leads
  <2>2. s.ours => s.kind = "capture" /\ s.pc \in {"wait"} \cup Capturing
    <3>1. op[t].ours => op[t].kind = "capture" /\ op[t].pc \notin Early
      BY <1>3 DEF Place, Early, Capturing
    <3>2. op[t].ours => pc \in Pcs /\ pc \notin Driving /\ pc \notin Early /\ pc # "idle"
      BY <3>1 DEF Leads
    <3> QED
      BY <1>2, <3>1, <3>2 DEF Pcs
  <2>3. s.saw => s.pc \notin Early
    BY <1>2, <1>3 DEF Place, Leads
  <2>4. s.out = "cancelled" => pressed
    BY <1>2, <1>3 DEF Place
  <2> QED
    BY <1>2, <2>1, <2>2, <2>3, <2>4 DEF Place, Leads
<1>5. NoteOf(t, s)
  <2>1. conn[t] = 0
    BY <1>3 DEF NoteOf, Leads
  <2>2. mark /\ pc \in {"car", "go mp", "on mp", "pick"} => op[t].made
    BY <1>3 DEF NoteOf, Leads
  <2>3. conn[t] <= 1 /\ ~(conn[t] > 0)
    BY <2>1, NoneYet
  <2> QED
    BY <1>2, <2>1, <2>2, <2>3 DEF NoteOf
<1>6. GameOf(t, s)
  BY <1>2, <1>3 DEF GameOf, Leads
<1>7. ListOf(t, s)
  BY <1>2, <1>3 DEF ListOf, Leads
<1> QED
  BY <1>4, <1>5, <1>6, <1>7 DEF Fits

LEMMA LeadsStep ==
  ASSUME IInv, NEW t \in Threads, NEW pc \in Pcs \ {"close", "end"}
  PROVE  [op[t] EXCEPT !.pc = pc] \in Steps
  BY DEF IInv, TypeOK, Steps

\* It leaves all but the job and the server alone ...
LEMMA QuietThen ==
  ASSUME IInv, NEW t \in Threads, NEW pc \in Pcs \ {"idle", "close", "end"}, ~At(t, "idle"), Then(t, pc),
         Serial => Leads(t, pc), Works \/ UNCHANGED job,
         UNCHANGED <<pressed, req, game, mark, conn, lobbyVars>>, srv' \in {"off", "starting", "open"}, Spent
  PROVE  IInv'
<1>2. Works
  BY SameWorks
<1>3. PICK s : s = [op[t] EXCEPT !.pc = pc]
  OBVIOUS
<1>4. s \in Steps /\ s.pc # "idle" /\ Does(t, s)
  BY <1>3, LeadsStep DEF Then, Steps, IInv, TypeOK
<1>5. Serial => Fits(t, s)
  BY <1>3, <1>4, LeadsFits
<1> QED
  BY <1>2, <1>4, <1>5, QuietGoes

\* ... or shows another page.
LEMMA ShowsThen ==
  ASSUME IInv, NEW t \in Threads, NEW pc \in Pcs \ {"idle", "pick", "close", "end"}, ~At(t, "idle"), Then(t, pc),
         Serial => Leads(t, pc), Works \/ UNCHANGED job,
         Up, NEW page \in {"home", "sp", "mp", "loading"}, Goto(page),
         UNCHANGED <<pressed, req, conn, srv, lobbyVars>>, Spent
  PROVE  IInv'
<1>2. Works
  BY SameWorks
<1>3. PICK s : s = [op[t] EXCEPT !.pc = pc]
  OBVIOUS
<1>4. s \in Steps /\ s.pc = pc /\ Does(t, s)
  BY <1>3, LeadsStep DEF Then, Steps, IInv, TypeOK
<1>5. CASE UNCHANGED <<game, mark>>
  BY <1>5, QuietThen DEF IInv, TypeOK
<1>6. CASE Shows(page)
  <2>1. game' \in Games /\ game'.st = game.st /\ game'.by = game.by /\ game'.page = page /\ mark' = FALSE
    BY <1>6 DEF Shows, IInv, TypeOK, Games, Pages
  <2>2. op'[t] = s
    BY <1>4 DEF IInv, TypeOK, Does
  <2>3. TypeOK'
    BY <1>2, <1>4, <2>1 DEF IInv, TypeOK, Does, Works, Spent, lobbyVars
  <2>4. ASSUME Serial PROVE Noted' /\ Written' /\ Fits(t, op[t])'
    <3>1. Fits(t, s)
      BY <1>3, <1>4, <2>4, LeadsFits
    <3>2. Place(s) /\ NoteOf(t, s) /\ GameOf(t, s) /\ ListOf(t, s)
      BY <3>1 DEF Fits
    <3>3. Place(op[t])'
      BY <2>2, <3>2 DEF Place, Resting
    <3>4. conn'[t] = 0
      BY <2>4 DEF IInv, Orderly, Fits, NoteOf, Leads
    <3>5. ~(conn'[t] > 0) /\ conn'[t] <= 1
      BY <3>4, NoneYet
    <3>6. NoteOf(t, op[t])'
      BY <2>1, <3>4, <3>5 DEF NoteOf
    <3>7. GameOf(t, op[t])'
      BY <2>1, <2>2, <3>2 DEF GameOf
    <3>8. ListOf(t, op[t])'
      BY <2>2, <3>2 DEF ListOf, InTime, lobbyVars, Spent
    <3>9. Noted'
      BY <2>1 DEF Noted, On, Up, Listening
    <3>10. Written'
      BY <2>4 DEF IInv, Orderly, Written, lobbyVars, Spent
    <3> QED
      BY <3>3, <3>6, <3>7, <3>8, <3>9, <3>10 DEF Fits
  <2> QED
    BY <1>2, <1>4, <2>3, <2>4, GoesOn DEF lobbyVars
<1> QED
  BY <1>5, <1>6 DEF Goto

(* What comes before the menu.                                              *)

LEMMA BeginKeeps == ASSUME IInv, NEW t \in Threads, Begin(t) PROVE IInv'
<1>1. PICK pc \in {"session", "list?", "server", "game?"} :
        Then(t, pc) /\ (op[t].kind = "capture" => pc = "list?")
  BY DEF Begin
<1>2. Leads(t, pc) /\ pc \in Pcs /\ pc # "idle" /\ ~At(t, "idle")
  BY <1>1 DEF Begin, At, Leads, Pcs, Early, Driving, Capturing
<1>3. Works
  BY Others DEF Begin, At, IInv, TypeOK, Works, Jobs
<1>4. UNCHANGED <<pressed, req, game, mark, conn, lobbyVars>> /\ srv' \in {"off", "starting", "open"} /\ Spent
  BY FreeSpent DEF Begin, Free, Quiet, Rest, IInv, TypeOK
<1> QED
  BY <1>1, <1>2, <1>3, <1>4, QuietThen

\* run_sp, run_server, run_local and run_capture go on to the game.
LEMMA LaunchNext ==
  ASSUME IInv, NEW t \in Threads, op[t].pc \in {"session", "game?", "proxy"},
         UNCHANGED <<pressed, req, game, mark, conn, srv, lobbyVars>>, UNCHANGED left,
         \/ Set("menu") /\ Then(t, "wait")
         \/ Set("busy") /\ Then(t, "launch")
  PROVE  IInv'
<1>1. Leads(t, "wait") /\ Leads(t, "launch") /\ "wait" \in Pcs /\ "launch" \in Pcs /\ ~At(t, "idle")
  BY DEF At, Leads, Pcs, Early, Driving
<1>2. Works /\ Spent /\ srv' \in {"off", "starting", "open"}
  BY SetWorks, FreeSpent DEF IInv, TypeOK
<1> QED
  BY <1>1, <1>2, QuietThen

LEMMA SessionKeeps == ASSUME IInv, NEW t \in Threads, Session(t) PROVE IInv'
<1>1. UNCHANGED <<pressed, req, mark, conn, srv, lobbyVars>> /\ ~At(t, "idle") /\ ~At(t, "fetch")
  BY DEF Session, Quiet, Rest, At
<1>2. CASE Fault /\ End(t, "failed")
  BY <1>1, <1>2, FaultSpent, PlainEnd DEF Terminal, IInv
<1>3. CASE Set("menu") /\ Then(t, "wait") /\ UNCHANGED <<game, left>>
  BY <1>1, <1>3, LaunchNext DEF Session, At
<1>4. CASE Set("busy") /\ Then(t, "launch") /\ UNCHANGED <<game, left>>
  BY <1>1, <1>4, LaunchNext DEF Session, At
<1> QED
  BY <1>2, <1>3, <1>4 DEF Session

LEMMA GameKeeps == ASSUME IInv, NEW t \in Threads, Game(t) PROVE IInv'
<1>1. UNCHANGED <<pressed, req, mark, conn, srv, lobbyVars>> /\ ~At(t, "idle") /\ ~At(t, "fetch")
  BY DEF Game, Quiet, Rest, At
<1>2. CASE Fault /\ End(t, "failed")
  BY <1>1, <1>2, FaultSpent, PlainEnd DEF Terminal, IInv
<1>3. CASE Set("menu") /\ Then(t, "wait") /\ UNCHANGED <<game, left>>
  BY <1>1, <1>3, LaunchNext DEF Game, At
<1>4. CASE Set("busy") /\ Then(t, "launch") /\ UNCHANGED <<game, left>>
  BY <1>1, <1>4, LaunchNext DEF Game, At
<1> QED
  BY <1>2, <1>3, <1>4 DEF Game

LEMMA ProxyKeeps == ASSUME IInv, NEW t \in Threads, Proxy(t) PROVE IInv'
<1>1. UNCHANGED <<pressed, req, mark, conn, srv, lobbyVars>> /\ ~At(t, "idle") /\ ~At(t, "fetch")
  BY DEF Proxy, Quiet, Rest, At
<1>2. CASE End(t, "failed") /\ (Fault \/ UNCHANGED left)
  BY <1>1, <1>2, FaultSpent, FreeSpent, PlainEnd DEF Terminal, IInv
<1>3. CASE Set("menu") /\ Then(t, "wait") /\ UNCHANGED <<game, left>>
  BY <1>1, <1>3, LaunchNext DEF Proxy, At
<1>4. CASE Set("busy") /\ Then(t, "launch") /\ UNCHANGED <<game, left>>
  BY <1>1, <1>4, LaunchNext DEF Proxy, At
<1> QED
  BY <1>2, <1>3, <1>4 DEF Proxy

LEMMA NotCapture ==
  ASSUME IInv, Serial, NEW t \in Threads, op[t].pc \in {"session", "server", "listen", "game?"} \cup Driving
  PROVE  op[t].kind # "capture"
  BY DEF IInv, Orderly, Fits, Place

\* A step on the user's own server.
LEMMA ServerNext ==
  ASSUME IInv, NEW t \in Threads, op[t].pc \in {"server", "listen"}, NEW pc \in {"server", "listen", "game?"},
         UNCHANGED job \/ Set("busy"), Then(t, pc), srv' \in {"off", "starting", "open"},
         UNCHANGED <<pressed, req, game, mark, conn, left, lobbyVars>>
  PROVE  IInv'
<1>1. Serial => Leads(t, pc)
  BY NotCapture DEF Leads, Pcs, Early, Driving
<1>2. Spent /\ (Works \/ UNCHANGED job) /\ ~At(t, "idle") /\ pc \in Pcs /\ pc # "idle"
  BY SetWorks, FreeSpent DEF At, IInv, Pcs, Early
<1> QED
  BY <1>1, <1>2, QuietThen

LEMMA SameThen == ASSUME IInv, NEW t \in Threads, UNCHANGED op PROVE Then(t, op[t].pc)
<1>1. op[t] \in Steps
  BY DEF IInv, TypeOK
<1>2. [op[t] EXCEPT !.pc = op[t].pc] = op[t]
  BY <1>1 DEF Steps
<1> QED
  BY <1>2 DEF IInv, TypeOK, Then, Does

LEMMA ServerKeeps == ASSUME IInv, NEW t \in Threads, Server(t) PROVE IInv'
<1>1. UNCHANGED <<pressed, req, mark, conn, lobbyVars>> /\ op[t].pc = "server" /\ srv \in {"off", "starting", "open"}
  BY DEF Server, Rest, At, IInv, TypeOK
<1>2. CASE Fault /\ End(t, "failed") /\ UNCHANGED srv
  BY <1>1, <1>2, FaultSpent, PlainEnd DEF Terminal, IInv, At
<1>3. CASE srv = "open" /\ Then(t, "game?") /\ UNCHANGED <<job, game, srv, left>>
  BY <1>1, <1>3, ServerNext
<1>4. CASE srv' = "off" /\ UNCHANGED <<job, op, game, left>>
  BY <1>1, <1>4, SameThen, ServerNext
<1>5. CASE srv' = "starting" /\ Set("busy") /\ Then(t, "listen") /\ UNCHANGED <<game, left>>
  BY <1>1, <1>5, ServerNext
<1> QED
  BY <1>2, <1>3, <1>4, <1>5 DEF Server

LEMMA ListensKeeps == ASSUME IInv, NEW t \in Threads, Listens(t) PROVE IInv'
<1>1. UNCHANGED <<pressed, req, mark, conn, srv, left, lobbyVars>> /\ op[t].pc = "listen"
  BY DEF Listens, Free, Quiet, Rest, At
<1>2. CASE End(t, "failed")
  BY <1>1, <1>2, FreeSpent, PlainEnd DEF Terminal, IInv, At
<1>3. CASE Then(t, "game?") /\ UNCHANGED <<job, game>>
  BY <1>1, <1>3, ServerNext DEF IInv, TypeOK
<1> QED
  BY <1>2, <1>3 DEF Listens

LEMMA LaunchedKeeps ==
  ASSUME IInv, NEW t \in Threads, At(t, "launch"),
         game' \in IF Up THEN {game} ELSE {Opened(t, "up"), Opened(t, "starting")},
         Set("menu"), Does(t, [op[t] EXCEPT !.pc = "wait", !.ours = op[t].kind = "capture", !.mixed = Up]),
         UNCHANGED <<pressed, req, mark, conn, srv, left, lobbyVars>>
  PROVE  IInv'
<1>1. op[t] \in Steps /\ op[t].pc = "launch"
  BY DEF IInv, TypeOK, At
<1>2. PICK s : s = [op[t] EXCEPT !.pc = "wait", !.ours = op[t].kind = "capture", !.mixed = Up]
  OBVIOUS
<1>3. s \in Steps /\ s.pc = "wait" /\ s.kind = op[t].kind /\ s.saw = op[t].saw /\ s.out = op[t].out
      /\ (s.ours => op[t].kind = "capture") /\ s.mixed = Up
  <2>1. Up \in BOOLEAN
    BY DEF Up
  <2> QED
    BY <1>1, <1>2, <2>1 DEF Steps, Pcs
<1>4. op'[t] = s /\ Does(t, s)
  BY <1>2 DEF IInv, TypeOK, Does
<1>5. game' \in Games /\ (Up => game' = game) /\ (~Up => game'.by = t)
  BY DEF IInv, TypeOK, Games, Opened, Pages
<1>6. Works /\ Spent
  BY SetWorks, FreeSpent DEF IInv
<1>7. TypeOK'
  BY <1>3, <1>4, <1>5, <1>6 DEF IInv, TypeOK, Does, Works, lobbyVars
<1>8. ASSUME Serial PROVE Noted' /\ Written' /\ Fits(t, op[t])'
  <2>1. Noted /\ Written /\ Place(op[t]) /\ NoteOf(t, op[t]) /\ ListOf(t, op[t])
    BY <1>8 DEF IInv, Orderly, Fits
  <2>2. Noted'
    <3>1. CASE ~Up
      <4>1. ~mark /\ \A u \in Threads : conn[u] = 0
        BY <2>1, <3>1 DEF Noted, On, Listening
      <4> QED
        BY <4>1 DEF Noted
    <3>2. CASE Up
      BY <2>1, <1>5, <3>2 DEF Noted, On, Up, Listening
    <3> QED
      BY <3>1, <3>2
  <2>3. Written'
    BY <2>1 DEF Written, lobbyVars
  <2>4. Place(op[t])'
    <3>1. ~op[t].saw
      BY <1>1, <2>1 DEF Place, Early
    <3>2. ~s.saw /\ (s.out = "cancelled" => pressed)
      BY <1>3, <2>1, <3>1 DEF Place
    <3> QED
      BY <1>3, <1>4, <3>2 DEF Place, Driving
  <2>5. conn[t] = 0
    BY <1>1, <2>1 DEF NoteOf
  <2>6. NoteOf(t, op[t])'
    BY <1>3, <1>4, <2>5, NoneYet DEF NoteOf
  <2>7. GameOf(t, op[t])'
    <3>1. ~op[t].saw
      BY <1>1, <2>1 DEF Place, Early
    <3>2. ~s.saw
      BY <1>3, <3>1
    <3>3. game'.by = t \/ s.mixed
      BY <1>3, <1>5
    <3> QED
      BY <1>4, <3>2, <3>3 DEF GameOf
  <2>8. ListOf(t, op[t])'
    BY <1>1, <1>3, <1>4, <2>1 DEF ListOf, InTime, lobbyVars
  <2> QED
    BY <2>2, <2>3, <2>4, <2>6, <2>7, <2>8 DEF Fits
<1> QED
  BY <1>3, <1>4, <1>6, <1>7, <1>8, GoesOn DEF At, lobbyVars

LEMMA LaunchKeeps == ASSUME IInv, NEW t \in Threads, Launch(t) PROVE IInv'
<1>1. UNCHANGED <<pressed, req, mark, conn, srv, lobbyVars>> /\ At(t, "launch")
  BY DEF Launch, Quiet, Rest
<1>2. CASE Fault /\ End(t, "failed")
  BY <1>1, <1>2, FaultSpent, PlainEnd DEF Terminal, IInv, At
<1>3. CASE /\ game' \in IF Up THEN {game} ELSE {Opened(t, "up"), Opened(t, "starting")}
           /\ Set("menu") /\ Does(t, [op[t] EXCEPT !.pc = "wait", !.ours = op[t].kind = "capture", !.mixed = Up])
           /\ UNCHANGED left
  BY <1>1, <1>3, LaunchedKeeps
<1> QED
  BY <1>2, <1>3 DEF Launch

(* The wait for the menu.                                                   *)

LEMMA SeeKeeps == ASSUME IInv, NEW t \in Threads, See(t) PROVE IInv'
<1>1. op[t] \in Steps /\ op[t].pc = "wait" /\ game.st = "up"
  BY DEF IInv, TypeOK, See, At, Up
<1>2. PICK s : s = [op[t] EXCEPT !.saw = TRUE]
  OBVIOUS
<1>3. /\ s \in Steps /\ s.pc = "wait" /\ s.kind = op[t].kind
      /\ s.ours = op[t].ours /\ s.out = op[t].out /\ s.made = op[t].made /\ s.mixed = op[t].mixed
  BY <1>1, <1>2 DEF Steps
<1>4. Does(t, s) /\ UNCHANGED <<job, game>> /\ Free
  BY <1>2 DEF See
<1>5. ASSUME Serial PROVE Fits(t, s)
  <2>1. Place(op[t]) /\ NoteOf(t, op[t]) /\ GameOf(t, op[t]) /\ ListOf(t, op[t])
    BY <1>5 DEF IInv, Orderly, Fits
  <2>2. Place(s)
    <3>1. s.ours => s.kind = "capture"
      BY <1>3, <2>1 DEF Place
    <3>2. s.out = "cancelled" => pressed
      BY <1>3, <2>1 DEF Place
    <3> QED
      BY <1>3, <3>1, <3>2 DEF Place, Early, Driving
  <2>3. conn[t] = 0
    BY <1>1, <2>1 DEF NoteOf
  <2>4. NoteOf(t, s)
    BY <1>3, <2>3, NoneYet DEF NoteOf
  <2>5. GameOf(t, s)
    BY <1>1, <1>3, <2>1 DEF GameOf
  <2>6. ListOf(t, s)
    BY <1>1, <1>3, <2>1 DEF ListOf
  <2> QED
    BY <2>2, <2>4, <2>5, <2>6 DEF Fits
<1>6. Works /\ Spent /\ ~At(t, "idle")
  BY <1>1, <1>4, SameWorks, FreeSpent DEF At, IInv, Free
<1> QED
  BY <1>3, <1>4, <1>5, <1>6, QuietGoes DEF Free, Quiet, Rest, IInv, TypeOK

LEMMA HomeKeeps == ASSUME IInv, NEW t \in Threads, Home(t) PROVE IInv'
<1>1. op[t].pc = "wait" /\ UNCHANGED <<job, op, pressed, req, conn, srv, left, lobbyVars>> /\ Up /\ Shows("home")
  BY DEF Home, At, On, Rest
<1>2. Then(t, "wait")
  BY <1>1, SameThen
<1>3. Leads(t, "wait") /\ "wait" \in Pcs /\ ~At(t, "idle")
  BY <1>1 DEF Leads, At, Pcs, Early, Driving
<1>4. Spent /\ Goto("home")
  BY <1>1, FreeSpent DEF IInv, Goto
<1> QED
  BY <1>1, <1>2, <1>3, <1>4, ShowsThen

LEMMA OffMp == ASSUME IInv, Serial, On({"home", "sp"}) PROVE ~mark
  BY DEF IInv, Orderly, Noted, On

LEMMA ReadyKeeps == ASSUME IInv, NEW t \in Threads, Ready(t) PROVE IInv'
<1>1. op[t].pc = "wait" /\ UNCHANGED <<pressed, req, mark, conn, srv, left, lobbyVars>>
  BY DEF Ready, Menu, At, Free, Quiet, Rest
<1>2. Spent /\ ~At(t, "idle") /\ ~At(t, "fetch")
  BY <1>1, FreeSpent DEF IInv, At
<1>3. CASE op[t].kind # "capture" /\ On({"home", "sp"}) /\ Then(t, "car") /\ UNCHANGED <<job, game>>
  <2>1. Serial => Leads(t, "car")
    BY <1>1, <1>3, OffMp DEF Leads, Pcs, Early, Driving
  <2> QED
    BY <1>1, <1>2, <1>3, <2>1, QuietThen DEF IInv, TypeOK, Pcs, Driving
<1>4. CASE Poked(t, TRUE)
  BY <1>1, <1>2, <1>4, PokedEnd
<1>5. CASE Set("busy") /\ Then(t, "open list") /\ UNCHANGED game
  <2>1. Leads(t, "open list")
    BY <1>1 DEF Leads, Pcs, Early, Driving, Capturing
  <2> QED
    BY <1>1, <1>2, <1>5, <2>1, SetWorks, QuietThen DEF IInv, TypeOK, Pcs, Capturing
<1> QED
  BY <1>3, <1>4, <1>5 DEF Ready, Menu

\* A capture closes the game it launched.
LEMMA ClosesKeeps ==
  ASSUME IInv, NEW t \in Threads, op[t].pc \in Sleeping, Serial => op[t].pc \in {"wait", "open list", "list"},
         NEW out \in Outs \ {"none"}, Closes(t, out), UNCHANGED job \/ Set("busy"),
         UNCHANGED <<pressed, req, game, mark, conn, srv, left, lobbyVars>>,
         Serial => op[t].ours \/ out = "launched",
         Serial => (out = "cancelled" => pressed) /\ (out = "launched" => list = "new")
  PROVE  IInv'
<1>1. op[t] \in Steps
  BY DEF IInv, TypeOK
<1>2. PICK s : s = [op[t] EXCEPT !.pc = "close", !.out = out]
  OBVIOUS
<1>3. /\ s \in Steps /\ s.pc = "close" /\ s.kind = op[t].kind /\ s.ours = op[t].ours /\ s.saw = op[t].saw /\ s.out = out
      /\ s.mixed = op[t].mixed
  BY <1>1, <1>2 DEF Steps, Pcs, Capturing
<1>4. Does(t, s)
  BY <1>2 DEF Closes
<1>5. ASSUME Serial PROVE Fits(t, s)
  <2>1. Place(op[t]) /\ NoteOf(t, op[t]) /\ GameOf(t, op[t]) /\ ListOf(t, op[t])
    BY <1>5 DEF IInv, Orderly, Fits
  <2>2. op[t].pc \notin {"idle", "fetch", "pick", "sent", "end"}
    BY <1>5
  <2>3. Place(s)
    BY <1>3, <1>5, <2>1 DEF Place, Early, Driving, Capturing
  <2>4. conn[t] = 0
    BY <2>1, <2>2 DEF NoteOf
  <2>5. NoteOf(t, s)
    BY <1>3, <2>4, NoneYet DEF NoteOf
  <2>6. GameOf(t, s)
    BY <1>3, <2>1 DEF GameOf
  <2>7. ListOf(t, s)
    BY <1>3, <1>5, <2>1, <2>2 DEF ListOf
  <2> QED
    BY <2>3, <2>5, <2>6, <2>7 DEF Fits
<1>6. ~At(t, "idle")
  BY DEF At, Sleeping
<1>7. Works /\ Spent
  BY <1>6, SameWorks, SetWorks, FreeSpent DEF IInv
<1> QED
  BY <1>3, <1>4, <1>5, <1>6, <1>7, QuietGoes DEF IInv, TypeOK

LEMMA NotReadyKeeps == ASSUME IInv, NEW t \in Threads, NotReady(t) PROVE IInv'
<1>1. op[t].pc = "wait" /\ UNCHANGED <<pressed, req, mark, conn, srv, left, lobbyVars>>
  BY DEF NotReady, At, Free, Quiet, Rest
<1>2. Spent /\ ~At(t, "idle") /\ ~At(t, "fetch")
  BY <1>1, FreeSpent DEF IInv, At
<1>3. CASE op[t].ours /\ Does(t, [op[t] EXCEPT !.pc = "close", !.out = "failed"]) /\ UNCHANGED <<job, game>>
  <2>1. Closes(t, "failed") /\ "failed" \in Outs \ {"none"}
    BY <1>3 DEF Closes, Outs
  <2> QED
    BY <1>1, <1>3, <2>1, ClosesKeeps DEF Sleeping
<1>4. CASE End(t, "failed")
  BY <1>1, <1>2, <1>4, PlainEnd DEF Terminal
<1>5. CASE Poked(t, FALSE)
  BY <1>1, <1>2, <1>5, PokedEnd
<1> QED
  BY <1>3, <1>4, <1>5 DEF NotReady

LEMMA CarKeeps == ASSUME IInv, NEW t \in Threads, Car(t) PROVE IInv'
<1>1. op[t].pc = "car" /\ UNCHANGED <<pressed, req, mark, conn, srv, lobbyVars>> /\ ~At(t, "idle") /\ ~At(t, "fetch")
  BY DEF Car, At, Quiet, Rest
<1>2. CASE \E ok \in BOOLEAN : Poked(t, ok) /\ (Fault \/ UNCHANGED left)
  BY <1>1, <1>2, FaultSpent, FreeSpent, PokedEnd DEF IInv
<1>3. CASE /\ Set("busy") \/ UNCHANGED job
           /\ Then(t, IF op[t].kind = "sp" THEN "conditions" ELSE "go mp") /\ UNCHANGED <<game, left>>
  <2>1. PICK pc \in {"conditions", "go mp"} : Then(t, pc)
    BY <1>3
  <2>2. Serial => Leads(t, pc)
    BY <1>1, NotCapture DEF Leads, Pcs, Early, Driving
  <2> QED
    BY <1>1, <1>3, <2>1, <2>2, SetWorks, FreeSpent, QuietThen DEF IInv, TypeOK, Pcs, Driving
<1>4. CASE Fault /\ Poked(t, FALSE)
  BY <1>2, <1>4
<1>5. CASE Poked(t, FALSE) /\ UNCHANGED left
  BY <1>2, <1>5
<1>6. CASE Poked(t, TRUE) /\ UNCHANGED left
  BY <1>2, <1>6
<1> QED
  BY <1>3, <1>4, <1>5, <1>6 DEF Car

(* A single-player session.                                                 *)

LEMMA ConditionsKeeps == ASSUME IInv, NEW t \in Threads, Conditions(t) PROVE IInv'
<1>1. op[t].pc = "conditions" /\ UNCHANGED <<pressed, req, conn, srv, lobbyVars>> /\ ~At(t, "idle") /\ ~At(t, "fetch")
  BY DEF Conditions, At, Rest
<1>2. CASE Up /\ Set("busy") /\ Then(t, "on sp") /\ Goto("sp") /\ UNCHANGED left
  <2>1. Serial => Leads(t, "on sp")
    BY <1>1, NotCapture DEF Leads, Pcs, Early, Driving
  <2> QED
    BY <1>1, <1>2, <2>1, SetWorks, FreeSpent, ShowsThen DEF IInv, Pcs, Driving
<1>3. CASE Poked(t, FALSE) /\ UNCHANGED <<mark, left>>
  BY <1>1, <1>3, FreeSpent, PokedEnd DEF IInv
<1>4. CASE Fault /\ Poked(t, FALSE) /\ UNCHANGED mark
  BY <1>1, <1>4, FaultSpent, PokedEnd DEF IInv
<1> QED
  BY <1>2, <1>3, <1>4 DEF Conditions

LEMMA OnSpKeeps == ASSUME IInv, NEW t \in Threads, OnSp(t) PROVE IInv'
<1>1. /\ op[t].pc = "on sp" /\ UNCHANGED <<pressed, req, mark, conn, srv, lobbyVars>>
      /\ Spent /\ ~At(t, "idle") /\ ~At(t, "fetch")
  BY FreeSpent DEF OnSp, At, Free, Quiet, Rest, IInv
<1>2. CASE Then(t, "press") /\ UNCHANGED <<job, game>>
  <2>1. Serial => Leads(t, "press")
    BY <1>1, NotCapture DEF Leads, Pcs, Early, Driving
  <2> QED
    BY <1>1, <1>2, <2>1, QuietThen DEF IInv, TypeOK, Pcs, Driving
<1>3. CASE Poked(t, FALSE)
  BY <1>1, <1>3, PokedEnd
<1> QED
  BY <1>2, <1>3 DEF OnSp

LEMMA PressKeeps == ASSUME IInv, NEW t \in Threads, Press(t) PROVE IInv'
<1>1. op[t].pc = "press" /\ UNCHANGED <<pressed, req, conn, srv, lobbyVars>> /\ Set("busy")
  BY DEF Press, At, Rest
<1>2. Spent /\ ~At(t, "idle")
  BY <1>1, FaultSpent, FreeSpent DEF Press, IInv, At
<1>3. \A pc \in {"loads", "lost"} : pc \in Pcs /\ pc \notin {"idle", "pick"} /\ (Serial => Leads(t, pc))
  BY <1>1, NotCapture DEF Leads, Pcs, Early, Driving
<1>4. CASE \E pc \in {"loads", "lost"} : Then(t, pc) /\ On({"sp"}) /\ Shows("loading")
  <2>1. Up /\ Goto("loading")
    BY <1>4 DEF On, Goto
  <2> QED
    BY <1>1, <1>2, <1>3, <1>4, <2>1, SetWorks, ShowsThen DEF IInv
<1>5. CASE Then(t, "lost") /\ UNCHANGED <<game, mark>>
  BY <1>1, <1>2, <1>3, <1>5, SetWorks, QuietThen DEF IInv, TypeOK
<1>6. CASE On({"sp"}) /\ Shows("loading") /\ Then(t, "loads") /\ UNCHANGED left
  BY <1>4, <1>6
<1>7. CASE On({"sp"}) /\ Shows("loading") /\ Then(t, "lost") /\ Fault
  BY <1>4, <1>7
<1>8. CASE ~On({"sp"}) /\ Then(t, "lost") /\ UNCHANGED <<game, mark, left>>
  BY <1>5, <1>8
<1>9. CASE Then(t, "lost") /\ Fault /\ UNCHANGED <<game, mark>>
  BY <1>5, <1>9
<1> QED
  BY <1>6, <1>7, <1>8, <1>9 DEF Press

LEMMA EndsAt ==
  ASSUME IInv, NEW t \in Threads, Lost(t) \/ Loads(t) \/ NotPicked(t) \/ Sent(t)
  PROVE  IInv'
<1>1. PICK ok : Poked(t, ok)
  BY DEF Lost, Loads, NotPicked, Sent
<1>2. UNCHANGED <<pressed, req, mark, conn, srv, lobbyVars>> /\ Spent /\ ~At(t, "idle") /\ ~At(t, "fetch")
  BY FreeSpent DEF Lost, Loads, NotPicked, Sent, At, Free, Quiet, Rest, IInv
<1> QED
  BY <1>1, <1>2, PokedEnd

(* A join.                                                                  *)

LEMMA GoMpKeeps == ASSUME IInv, NEW t \in Threads, GoMp(t) PROVE IInv'
<1>1. op[t].pc = "go mp" /\ UNCHANGED <<pressed, req, conn, srv, left, lobbyVars>> /\ Set("busy") /\ Then(t, "on mp")
  BY DEF GoMp, At, Rest
<1>2. Spent /\ ~At(t, "idle") /\ Works /\ "on mp" \in Pcs
  BY <1>1, FreeSpent, SetWorks DEF IInv, At, Pcs, Driving
<1>3. Serial => Leads(t, "on mp")
  BY <1>1, NotCapture DEF Leads, Pcs, Early, Driving
<1>4. CASE On({"home", "sp"}) /\ Goto("mp")
  BY <1>1, <1>2, <1>3, <1>4, ShowsThen DEF On
<1>5. CASE UNCHANGED <<game, mark>>
  BY <1>1, <1>2, <1>3, <1>5, QuietThen DEF IInv, TypeOK
<1> QED
  BY <1>4, <1>5 DEF GoMp

LEMMA OnMpKeeps == ASSUME IInv, NEW t \in Threads, OnMp(t) PROVE IInv'
<1>1. /\ op[t].pc = "on mp" /\ UNCHANGED <<pressed, req, mark, conn, srv, left, lobbyVars>>
      /\ Spent /\ ~At(t, "idle") /\ ~At(t, "fetch")
  BY FreeSpent DEF OnMp, At, Rest, IInv
<1>2. CASE Then(t, "pick") /\ UNCHANGED <<job, game, mark>>
  <2>1. Serial => Leads(t, "pick")
    BY <1>1, NotCapture DEF Leads, Pcs, Early, Driving
  <2> QED
    BY <1>1, <1>2, <2>1, QuietThen DEF IInv, TypeOK, Pcs, Driving
<1>3. CASE Poked(t, FALSE)
  BY <1>1, <1>3, PokedEnd
<1> QED
  BY <1>2, <1>3 DEF OnMp

LEMMA AsksAgainKeeps == ASSUME IInv, NEW t \in Threads, AsksAgain(t) PROVE IInv'
<1>1. /\ op[t].pc \in {"on mp", "open list"} /\ UNCHANGED <<job, op, pressed, req, conn, srv, left, lobbyVars>>
      /\ Up /\ Shows("mp")
  BY DEF AsksAgain, On, Rest
<1>2. PICK pc \in {"on mp", "open list"} : op[t].pc = pc
  BY <1>1
<1>3. Then(t, pc)
  BY <1>1, <1>2, SameThen
<1>4. pc \in Pcs /\ pc \notin {"idle", "pick"} /\ ~At(t, "idle")
  BY <1>2 DEF At, Pcs, Driving, Capturing
<1>5. Serial => Leads(t, pc)
  BY <1>2, <1>4, NotCapture DEF Leads, Pcs, Early, Driving, Capturing
<1>6. Spent /\ Goto("mp")
  BY <1>1, FreeSpent DEF IInv, Goto
<1> QED
  BY <1>1, <1>3, <1>4, <1>5, <1>6, ShowsThen

LEMMA NotedConnect ==
  ASSUME IInv, NEW t \in Threads, At(t, "pick"), mark, Then(t, "sent"),
         UNCHANGED <<job, pressed, req, game, mark, conn, srv, left, lobbyVars>>
  PROVE  IInv'
<1>1. op[t] \in Steps /\ op[t].pc = "pick"
  BY DEF IInv, TypeOK, At
<1>2. PICK s : s = [op[t] EXCEPT !.pc = "sent"]
  OBVIOUS
<1>3. s \in Steps /\ s.pc = "sent" /\ s.kind = op[t].kind /\ s.ours = op[t].ours /\ s.saw = op[t].saw
      /\ s.made = op[t].made /\ s.out = op[t].out
  BY <1>1, <1>2 DEF Steps, Pcs, Driving
<1>4. Does(t, s)
  BY <1>2 DEF Then
<1>5. ASSUME Serial PROVE Fits(t, s)
  <2>1. Place(op[t]) /\ NoteOf(t, op[t]) /\ GameOf(t, op[t]) /\ ListOf(t, op[t])
    BY <1>5 DEF IInv, Orderly, Fits
  <2>2. op[t].made
    BY <1>1, <2>1 DEF NoteOf
  <2>3. s.made /\ ~op[t].ours /\ op[t].kind # "capture"
    BY <1>1, <1>3, <2>1, <2>2 DEF Place, Driving, Capturing
  <2>4. Place(s)
    <3>1. s.out = "cancelled" => pressed
      BY <1>3, <2>1 DEF Place
    <3> QED
      BY <1>3, <2>3, <3>1 DEF Place, Early
  <2>5. NoteOf(t, s)
    <3>1. conn[t] <= 1 \/ left.strayed
      BY <1>1, <2>1 DEF NoteOf
    <3> QED
      BY <1>3, <3>1 DEF NoteOf
  <2>6. GameOf(t, s)
    BY <1>3, <2>3 DEF GameOf
  <2>7. ListOf(t, s)
    BY <1>1, <1>3, <2>1 DEF ListOf
  <2> QED
    BY <2>4, <2>5, <2>6, <2>7 DEF Fits
<1>6. ~At(t, "idle")
  BY DEF At
<1>7. Works /\ Spent
  BY <1>6, SameWorks, FreeSpent DEF IInv
<1> QED
  BY <1>3, <1>4, <1>5, <1>6, <1>7, QuietGoes DEF IInv, TypeOK

\* The one Connect: no note, so none is with the game, unless the player took it away.
LEMMA FirstConnect ==
  ASSUME IInv, NEW t \in Threads, At(t, "pick"), ~mark, On({"mp"}), mark' = TRUE,
         conn' = [conn EXCEPT ![t] = @ + 1], NEW pc \in {"pick", "sent"},
         Does(t, [op[t] EXCEPT !.pc = pc, !.made = TRUE]), Spent,
         UNCHANGED <<job, pressed, req, game, srv, lobbyVars>>
  PROVE  IInv'
<1>1. op[t] \in Steps /\ op[t].pc = "pick" /\ conn[t] \in Nat
  BY DEF IInv, TypeOK, At
<1>2. PICK s : s = [op[t] EXCEPT !.pc = pc, !.made = TRUE]
  OBVIOUS
<1>3. s \in Steps /\ s.pc = pc /\ s.kind = op[t].kind /\ s.ours = op[t].ours /\ s.saw = op[t].saw
      /\ s.made = TRUE /\ s.out = op[t].out
  BY <1>1, <1>2 DEF Steps, Pcs, Driving
<1>4. Does(t, s) /\ op'[t] = s
  BY <1>2 DEF Does, IInv, TypeOK
<1>5. conn'[t] = conn[t] + 1 /\ conn' \in [Threads -> Nat]
  BY <1>1 DEF IInv, TypeOK
<1>6. ~At(t, "idle")
  BY DEF At
<1>7. Works
  BY <1>6, SameWorks
<1>8. TypeOK'
  BY <1>3, <1>4, <1>5, <1>7 DEF IInv, TypeOK, Does, Works, Spent, lobbyVars
<1>9. ASSUME Serial PROVE Noted' /\ Written' /\ Fits(t, op[t])'
  <2>1. Written /\ Place(op[t]) /\ NoteOf(t, op[t]) /\ GameOf(t, op[t]) /\ ListOf(t, op[t])
    BY <1>9 DEF IInv, Orderly, Fits
  <2>2. Noted'
    BY DEF Noted, On, Up, Listening
  <2>3. Written'
    BY <2>1 DEF Written, lobbyVars, Spent
  <2>4. ~op[t].ours /\ op[t].kind # "capture"
    BY <1>1, <2>1 DEF Place, Driving, Capturing
  <2>5. Place(op[t])'
    <3>1. s.out = "cancelled" => pressed
      BY <1>3, <2>1 DEF Place
    <3> QED
      BY <1>3, <1>4, <2>4, <3>1 DEF Place, Early
  <2>6. NoteOf(t, op[t])'
    <3>1. ~(conn[t] > 0) \/ left.strayed
      BY <1>1, <2>1 DEF NoteOf
    <3>2. conn'[t] <= 1 \/ left'.strayed
      BY <1>1, <1>5, <3>1 DEF Spent
    <3> QED
      BY <1>3, <1>4, <3>2 DEF NoteOf
  <2>7. GameOf(t, op[t])'
    BY <1>3, <1>4, <2>4 DEF GameOf
  <2>8. ListOf(t, op[t])'
    BY <1>1, <1>3, <1>4, <2>1 DEF ListOf, InTime, lobbyVars, Spent
  <2> QED
    BY <2>2, <2>3, <2>5, <2>6, <2>7, <2>8 DEF Fits
<1> QED
  BY <1>3, <1>4, <1>6, <1>7, <1>8, <1>9, GoesOn DEF lobbyVars

LEMMA ConnectKeeps == ASSUME IInv, NEW t \in Threads, Connect(t) PROVE IInv'
<1>1. At(t, "pick") /\ On({"mp"}) /\ UNCHANGED <<job, game, srv, pressed, req, lobbyVars>>
  BY DEF Connect, Connects, Rest
<1>2. CASE mark
  BY <1>1, <1>2, NotedConnect DEF Connect, Connects
<1>3. CASE ~mark
  <2>1. mark' = TRUE /\ conn' = [conn EXCEPT ![t] = @ + 1]
    BY <1>3 DEF Connect, Connects
  <2>2. CASE Does(t, [op[t] EXCEPT !.pc = "sent", !.made = TRUE]) /\ UNCHANGED left
    BY <1>1, <1>3, <2>1, <2>2, FreeSpent, FirstConnect DEF IInv
  <2>3. CASE Does(t, [op[t] EXCEPT !.made = TRUE]) /\ Fault
    <3>1. op[t] \in Steps /\ op[t].pc = "pick"
      BY <1>1 DEF IInv, TypeOK, At
    <3>2. [op[t] EXCEPT !.made = TRUE] = [op[t] EXCEPT !.pc = "pick", !.made = TRUE]
      BY <3>1 DEF Steps
    <3>3. Does(t, [op[t] EXCEPT !.pc = "pick", !.made = TRUE])
      BY <2>3, <3>2
    <3> QED
      BY <1>1, <1>3, <2>1, <2>3, <3>3, FaultSpent, FirstConnect DEF IInv
  <2> QED
    BY <1>3, <2>2, <2>3 DEF Connect, Connects
<1> QED
  BY <1>2, <1>3

(* A capture.                                                               *)

LEMMA LobbySaysKeeps == ASSUME IInv, NEW t \in Threads, LobbySays(t) PROVE IInv'
<1>1. op[t] \in Steps /\ op[t].pc = "fetch" /\ ~At(t, "idle") /\ Takes(t)
      /\ UNCHANGED <<pressed, mark, conn, srv, req, left, lobby, list, late>>
  BY DEF LobbySays, IInv, TypeOK, At
<1>2. Spent
  BY <1>1, FreeSpent DEF IInv
<1>3. CASE End(t, "launched")
  BY <1>1, <1>2, <1>3, Ended DEF IInv, TypeOK, Terminal
<1>4. CASE Then(t, "proxy") /\ UNCHANGED <<job, game>>
  <2>1. PICK s : s = [op[t] EXCEPT !.pc = "proxy"]
    OBVIOUS
  <2>2. s \in Steps /\ s.pc = "proxy" /\ s.kind = op[t].kind /\ s.ours = op[t].ours /\ s.saw = op[t].saw
        /\ s.made = op[t].made /\ s.out = op[t].out
    BY <1>1, <2>1 DEF Steps, Pcs, Early
  <2>3. Does(t, s) /\ op'[t] = s
    BY <1>4, <2>1 DEF Then, Does, IInv, TypeOK
  <2>4. fetch' \in [Fetchers -> Fetchings] /\ fetch'[t].pc = "idle" /\ \A x \in Fetchers : x # t => fetch'[x] = fetch[x]
    BY <1>1, ConstantsAssumption DEF IInv, TypeOK, Takes, Away, Fetchings
  <2>5. Works
    BY <1>1, <1>4, SameWorks
  <2>6. TypeOK'
    BY <1>1, <1>4, <2>2, <2>3, <2>4 DEF IInv, TypeOK, Does
  <2>7. ASSUME Serial PROVE Noted' /\ Written' /\ Fits(t, op[t])'
    <3>1. Noted /\ Written /\ Place(op[t]) /\ NoteOf(t, op[t]) /\ GameOf(t, op[t]) /\ ListOf(t, op[t])
      BY <2>7 DEF IInv, Orderly, Fits
    <3>2. Noted'
      BY <1>1, <1>4, <3>1 DEF Noted, On, Up, Listening
    <3>3. Written'
      <4>1. \A x \in Fetchers : fetch'[x] = fetch[x] \/ fetch'[x].pc = "idle"
        BY <2>4
      <4> QED
        BY <1>1, <3>1, <4>1 DEF Written
    <3>4. ~op[t].ours /\ ~op[t].saw
      BY <1>1, <3>1 DEF Place, Early, Capturing
    <3>5. ~s.ours /\ ~s.saw
      BY <2>2, <3>4
    <3>6. Place(op[t])'
      <4>1. s.out = "cancelled" => pressed
        BY <2>2, <3>1 DEF Place
      <4> QED
        BY <1>1, <2>2, <2>3, <3>5, <4>1 DEF Place, Driving
    <3>7. conn'[t] = 0
      BY <1>1, <3>1 DEF NoteOf
    <3>8. NoteOf(t, op[t])'
      BY <2>2, <2>3, <3>7, NoneYet DEF NoteOf
    <3>9. GameOf(t, op[t])'
      BY <2>3, <3>5 DEF GameOf
    <3>10. ListOf(t, op[t])'
      BY <1>1, <2>2, <2>3, <2>4, <3>1 DEF ListOf, InTime
    <3> QED
      BY <3>2, <3>3, <3>6, <3>8, <3>9, <3>10 DEF Fits
  <2>8. \A u \in Threads : fetch'[u] = fetch[u] \/ u = t
    BY <2>4, ConstantsAssumption
  <2> QED
    BY <1>1, <1>2, <2>2, <2>3, <2>5, <2>6, <2>7, <2>8, GoesOn
<1> QED
  BY <1>3, <1>4 DEF LobbySays

LEMMA OpenListKeeps == ASSUME IInv, NEW t \in Threads, OpenList(t) PROVE IInv'
<1>1. op[t].pc = "open list" /\ UNCHANGED <<pressed, req, mark, conn, srv, left, lobbyVars>> /\ Spent
      /\ ~At(t, "idle") /\ ~At(t, "fetch")
  BY FreeSpent DEF OpenList, At, Free, Quiet, Rest, IInv
<1>2. CASE Then(t, "list") /\ UNCHANGED <<job, game>>
  <2>1. Leads(t, "list")
    BY <1>1 DEF Leads, Pcs, Early, Driving, Capturing
  <2> QED
    BY <1>1, <1>2, <2>1, QuietThen DEF IInv, TypeOK, Pcs, Capturing
<1>3. CASE End(t, "failed")
  BY <1>1, <1>3, PlainEnd DEF Terminal
<1> QED
  BY <1>2, <1>3 DEF OpenList

LEMMA AskLobbyKeeps == ASSUME IInv, NEW t \in Threads, AskLobby(t) PROVE IInv'
<1>1. /\ op[t] \in Steps /\ op[t].pc = "list?" /\ ~At(t, "idle")
      /\ UNCHANGED <<job, pressed, game, mark, conn, srv, req, left>>
  BY DEF AskLobby, IInv, TypeOK, At
<1>2. Spent /\ Works
  BY <1>1, FreeSpent, SameWorks DEF IInv
<1>3. CASE Then(t, "proxy") /\ UNCHANGED lobbyVars
  <2>1. Leads(t, "proxy")
    BY <1>1 DEF Leads, Pcs, Early, Driving
  <2> QED
    BY <1>1, <1>2, <1>3, <2>1, QuietThen DEF IInv, TypeOK, Pcs, Early
<1>4. CASE Then(t, "fetch") /\ AskFetch(t, TRUE, Up) /\ ~Up
  <2>1. PICK s : s = [op[t] EXCEPT !.pc = "fetch"]
    OBVIOUS
  <2>2. s \in Steps /\ s.pc = "fetch" /\ s.kind = op[t].kind /\ s.ours = op[t].ours /\ s.saw = op[t].saw
        /\ s.made = op[t].made /\ s.out = op[t].out
    BY <1>1, <2>1 DEF Steps, Pcs, Early
  <2>3. Does(t, s) /\ op'[t] = s
    BY <1>4, <2>1 DEF Then, Does, IInv, TypeOK
  <2>4. fetch' = [fetch EXCEPT ![t] = [pc |-> "lock", wait |-> TRUE, ok |-> FALSE]] /\ UNCHANGED <<lobby, list, late>>
    BY <1>4 DEF AskFetch
  <2>5. fetch' \in [Fetchers -> Fetchings] /\ fetch'[t].pc = "lock" /\ \A x \in Fetchers : x # t => fetch'[x] = fetch[x]
    BY <2>4, ConstantsAssumption DEF IInv, TypeOK, Fetchings
  <2>6. TypeOK'
    BY <1>1, <2>2, <2>3, <2>4, <2>5 DEF IInv, TypeOK, Does
  <2>7. ASSUME Serial PROVE Noted' /\ Written' /\ Fits(t, op[t])'
    <3>1. Noted /\ Written /\ Place(op[t]) /\ NoteOf(t, op[t]) /\ GameOf(t, op[t]) /\ ListOf(t, op[t])
      BY <2>7 DEF IInv, Orderly, Fits
    <3>2. Noted'
      BY <1>1, <3>1 DEF Noted, On, Up, Listening
    <3>3. Written'
      <4>1. \A x \in Fetchers : fetch'[x] = fetch[x] \/ fetch'[x].pc = "lock"
        BY <2>5
      <4> QED
        BY <1>1, <2>4, <3>1, <4>1 DEF Written
    <3>4. ~op[t].ours /\ ~op[t].saw
      BY <1>1, <3>1 DEF Place, Early, Capturing
    <3>5. ~s.ours /\ ~s.saw
      BY <2>2, <3>4
    <3>6. Place(op[t])'
      <4>1. s.out = "cancelled" => pressed
        BY <2>2, <3>1 DEF Place
      <4> QED
        BY <1>1, <2>2, <2>3, <3>5, <4>1 DEF Place, Driving
    <3>7. conn'[t] = 0
      BY <1>1, <3>1 DEF NoteOf
    <3>8. NoteOf(t, op[t])'
      BY <2>2, <2>3, <3>7, NoneYet DEF NoteOf
    <3>9. GameOf(t, op[t])'
      BY <2>3, <3>5 DEF GameOf
    <3>10. ListOf(t, op[t])'
      BY <2>2, <2>3, <2>4, <2>5, <3>1 DEF ListOf, InTime
    <3> QED
      BY <3>2, <3>3, <3>6, <3>8, <3>9, <3>10 DEF Fits
  <2>8. \A u \in Threads : fetch'[u] = fetch[u] \/ u = t
    BY <2>5, ConstantsAssumption
  <2> QED
    BY <1>1, <1>2, <2>2, <2>3, <2>6, <2>7, <2>8, GoesOn
<1> QED
  BY <1>3, <1>4 DEF AskLobby

LEMMA ListKeeps == ASSUME IInv, NEW t \in Threads, List(t) PROVE IInv'
<1>1. op[t].pc = "list" /\ UNCHANGED <<pressed, req, mark, conn, srv, left, lobbyVars>> /\ Spent
      /\ ~At(t, "idle") /\ ~At(t, "fetch")
  BY FreeSpent DEF List, Lists, At, Free, Quiet, Rest, IInv
<1>2. "launched" \in Outs \ {"none"} /\ "failed" \in Outs \ {"none"} /\ op[t].pc \in Sleeping
  BY <1>1 DEF Outs, Sleeping
<1>3. CASE list = "new" /\ Set("busy") /\ Closes(t, "launched") /\ UNCHANGED game
  BY <1>1, <1>2, <1>3, ClosesKeeps
<1>4. CASE op[t].ours /\ Closes(t, "failed") /\ UNCHANGED <<job, game>>
  BY <1>1, <1>2, <1>4, ClosesKeeps
<1>5. CASE End(t, "failed")
  BY <1>1, <1>5, PlainEnd DEF Terminal
<1> QED
  BY <1>3, <1>4, <1>5 DEF List, Lists

\* The game is closed, or was, or would not even be killed.
LEMMA ClosedKeeps ==
  ASSUME IInv, NEW t \in Threads, At(t, "close"), NEW clung \in BOOLEAN,
         NEW s, s = [op[t] EXCEPT !.pc = "end", !.clung = clung], Does(t, s),
         \/ Up /\ game' = Off /\ mark' = FALSE /\ conn' = [u \in Threads |-> 0]
         \/ (clung \/ ~Up) /\ UNCHANGED <<game, mark, conn>>,
         UNCHANGED <<job, pressed, srv, req, lobbyVars>>, Spent
  PROVE  IInv'
<1>1. op[t] \in Steps /\ op[t].pc = "close" /\ ~At(t, "idle")
  BY DEF IInv, TypeOK, At
<1>2. Works
  BY <1>1, SameWorks
<1>4. s \in Steps /\ s.pc = "end" /\ s.kind = op[t].kind /\ s.ours = op[t].ours /\ s.saw = op[t].saw
      /\ s.made = op[t].made /\ s.out = op[t].out /\ s.mixed = op[t].mixed /\ s.clung = clung
  BY <1>1 DEF Steps, Pcs, Capturing
<1>5. op'[t] = s
  BY DEF Does, IInv, TypeOK
<1>7. game' \in Games /\ mark' \in BOOLEAN /\ conn' \in [Threads -> Nat]
  <2>1. Off \in Games
    BY DEF Off, Games, Pages
  <2>2. CASE Up /\ game' = Off /\ mark' = FALSE /\ conn' = [u \in Threads |-> 0]
    BY <2>1, <2>2
  <2>3. CASE UNCHANGED <<game, mark, conn>>
    BY <2>3 DEF IInv, TypeOK
  <2> QED
    BY <2>2, <2>3
<1>8. TypeOK'
  BY <1>1, <1>4, <1>5, <1>7 DEF IInv, TypeOK, Does, lobbyVars, Spent
<1>9. ASSUME Serial PROVE Noted' /\ Written' /\ Fits(t, op[t])'
  <2>1. Noted /\ Written /\ Place(op[t]) /\ NoteOf(t, op[t]) /\ GameOf(t, op[t]) /\ ListOf(t, op[t])
    BY <1>9 DEF IInv, Orderly, Fits
  <2>2. Noted'
    BY <2>1 DEF Noted, On, Up, Listening
  <2>3. Written'
    BY <2>1 DEF Written, lobbyVars, Spent
  <2>4. Place(op[t])'
    <3>1. s.ours => s.kind = "capture"
      BY <1>4, <2>1 DEF Place
    <3>2. s.out = "cancelled" => pressed
      BY <1>4, <2>1 DEF Place
    <3>3. op'[t].out = "cancelled" => pressed'
      BY <1>5, <3>2
    <3> QED
      BY <1>4, <1>5, <3>1, <3>3 DEF Place, Early, Driving, Capturing
  <2>5. conn'[t] = 0
    BY <1>1, <2>1 DEF NoteOf
  <2>6. NoteOf(t, op[t])'
    BY <1>4, <1>5, <2>5, NoneYet DEF NoteOf
  <2>7. s.ours => /\ game'.by = t \/ game'.st = "off" \/ s.mixed
                  /\ s.saw => game'.st # "starting" /\ (game'.st = "off" \/ s.clung)
    <3>1. CASE game' = Off
      BY <3>1 DEF Off
    <3>2. CASE (clung \/ ~Up) /\ UNCHANGED game
      <4>1. op[t].ours => (game.by = t \/ game.st = "off" \/ op[t].mixed) /\ (op[t].saw => game.st # "starting")
        BY <2>1 DEF GameOf
      <4>2. ~Up => game.st \in {"off", "starting"}
        BY DEF IInv, TypeOK, Games, Up
      <4>3. op[t].ours => game'.by = t \/ game'.st = "off" \/ s.mixed
        BY <1>4, <3>2, <4>1
      <4>4. op[t].ours /\ op[t].saw => game'.st # "starting" /\ (game'.st = "off" \/ s.clung)
        BY <1>4, <3>2, <4>1, <4>2
      <4> QED
        BY <1>4, <4>3, <4>4
    <3> QED
      BY <3>1, <3>2
  <2>8. GameOf(t, op[t])'
    BY <1>5, <2>7 DEF GameOf
  <2>9. ListOf(t, op[t])'
    BY <1>1, <1>4, <1>5, <2>1 DEF ListOf, InTime, lobbyVars, Spent
  <2> QED
    BY <2>2, <2>3, <2>4, <2>6, <2>8, <2>9 DEF Fits
<1> QED
  BY <1>1, <1>2, <1>4, <1>5, <1>8, <1>9, GoesOn DEF lobbyVars

LEMMA CloseKeeps == ASSUME IInv, NEW t \in Threads, Close(t) PROVE IInv'
<1>1. op[t] \in Steps /\ At(t, "close") /\ UNCHANGED <<job, pressed, srv, req, lobbyVars>>
  BY DEF Close, Rest, IInv, TypeOK
<1>2. ASSUME Then(t, "end"), UNCHANGED left,
             \/ Up /\ game' = Off /\ mark' = FALSE /\ conn' = [u \in Threads |-> 0]
             \/ ~Up /\ UNCHANGED <<game, mark, conn>>
      PROVE  IInv'
  <2>1. PICK s : s = [op[t] EXCEPT !.pc = "end", !.clung = op[t].clung]
    OBVIOUS
  <2>2. op[t].clung \in BOOLEAN /\ s = [op[t] EXCEPT !.pc = "end"]
    BY <1>1, <2>1 DEF Steps
  <2>3. Does(t, s) /\ Spent
    BY <1>2, <2>2, FreeSpent DEF Then, IInv
  <2> QED
    BY <1>1, <1>2, <2>1, <2>2, <2>3, ClosedKeeps
<1>3. ASSUME Fault, Does(t, [op[t] EXCEPT !.pc = "end", !.clung = TRUE]), UNCHANGED <<game, mark, conn>>
      PROVE  IInv'
  BY <1>1, <1>3, FaultSpent, ClosedKeeps DEF IInv
<1>4. CASE Up /\ Then(t, "end") /\ game' = Off /\ mark' = FALSE /\ conn' = [u \in Threads |-> 0] /\ UNCHANGED left
  BY <1>2, <1>4
<1>5. CASE ~Up /\ Then(t, "end") /\ UNCHANGED <<game, mark, conn, left>>
  BY <1>2, <1>5
<1>6. CASE /\ Up /\ Fault /\ Does(t, [op[t] EXCEPT !.pc = "end", !.clung = TRUE])
           /\ UNCHANGED <<game, mark, conn>>
  BY <1>3, <1>6
<1> QED
  BY <1>4, <1>5, <1>6 DEF Close

LEMMA EndCaptureKeeps == ASSUME IInv, NEW t \in Threads, EndCapture(t) PROVE IInv'
<1>1. op[t] \in Steps /\ op[t].pc = "end" /\ UNCHANGED <<pressed, req, mark, conn, srv, left, lobbyVars>> /\ Spent
      /\ ~At(t, "idle") /\ ~At(t, "fetch")
  BY FreeSpent DEF EndCapture, At, Free, Quiet, Rest, IInv, TypeOK
<1>2. op[t].out \in Terminal
  BY <1>1 DEF Steps, Outs, Terminal
<1> QED
  BY <1>1, <1>2, PlainEnd DEF EndCapture

LEMMA StoppedKeeps == ASSUME IInv, NEW t \in Threads, Stopped(t) PROVE IInv'
<1>1. op[t].pc \in Sleeping /\ job.cancel /\ UNCHANGED <<pressed, req, mark, conn, srv, left, lobbyVars>>
  BY DEF Stopped, Stops, Free, Quiet, Rest
<1>2. Spent /\ ~At(t, "idle") /\ ~At(t, "fetch")
  BY <1>1, FreeSpent DEF IInv, Sleeping, At
<1>3. CASE End(t, "cancelled")
  BY <1>1, <1>2, <1>3, PlainEnd DEF Terminal
<1>4. CASE op[t].ours /\ Does(t, [op[t] EXCEPT !.pc = "close", !.out = "cancelled"]) /\ UNCHANGED <<job, game>>
  <2>1. Closes(t, "cancelled") /\ "cancelled" \in Outs \ {"none"}
    BY <1>4 DEF Closes, Outs
  <2>2. ASSUME Serial PROVE op[t].pc \in {"wait", "open list", "list"} /\ pressed
    <3>1. op[t].pc \in {"wait"} \cup Capturing
      BY <1>4, <2>2 DEF IInv, Orderly, Fits, Place
    <3>2. job.phase \notin Terminal
      BY <1>2, <2>2, Others
    <3>3. pressed
      BY <1>1, <2>2, <3>2 DEF IInv, Orderly, OwnStop
    <3> QED
      BY <1>1, <3>1, <3>3 DEF Capturing, Sleeping
  <2> QED
    BY <1>1, <1>4, <2>1, <2>2, ClosesKeeps
<1> QED
  BY <1>3, <1>4 DEF Stopped, Stops

LEMMA StepKeeps == ASSUME IInv, NEW t \in Threads, Step(t) PROVE IInv'
  BY StoppedKeeps, BeginKeeps, SessionKeeps, ServerKeeps, ListensKeeps, GameKeeps, LaunchKeeps, SeeKeeps, ReadyKeeps,
     NotReadyKeeps, CarKeeps, ConditionsKeeps, OnSpKeeps, PressKeeps, EndsAt, GoMpKeeps, OnMpKeeps, ConnectKeeps,
     AskLobbyKeeps, LobbySaysKeeps, ProxyKeeps, OpenListKeeps, ListKeeps, CloseKeeps, EndCaptureKeeps DEF Step

(* The handlers.                                                            *)

LEMMA SpendSpent ==
  ASSUME TypeOK, NEW what \in {"asks", "stops", "fetches", "closes", "opens"}, Spend(what)
  PROVE  Spent
<1>1. left[what] \in Nat /\ left[what] > 0 => left[what] - 1 \in Nat
  BY DEF TypeOK, Lefts
<1> QED
  BY <1>1 DEF TypeOK, Spend, Spent, Lefts

\* Nothing of a job in its place changes with a request.
LEMMA FitsSame ==
  ASSUME IInv, Serial, UNCHANGED <<op, game, mark, conn, lobbyVars>>, Spent, pressed => pressed'
  PROVE  Noted' /\ Written' /\ \A t \in Threads : Fits(t, op[t])'
<1>1. Noted' /\ Written'
  BY DEF IInv, Orderly, Noted, Written, On, Up, Listening, lobbyVars, Spent
<1>2. ASSUME NEW t \in Threads PROVE Fits(t, op[t])'
  <2>1. Place(op[t]) /\ NoteOf(t, op[t]) /\ GameOf(t, op[t]) /\ ListOf(t, op[t])
    BY DEF IInv, Orderly, Fits
  <2>2. Place(op[t])'
    BY <2>1 DEF Place
  <2>3. NoteOf(t, op[t])'
    BY <2>1 DEF NoteOf, Spent
  <2>4. GameOf(t, op[t])' /\ ListOf(t, op[t])'
    BY <2>1 DEF GameOf, ListOf, InTime, lobbyVars, Spent
  <2> QED
    BY <2>2, <2>3, <2>4 DEF Fits
<1> QED
  BY <1>1, <1>2

LEMMA AskDriveKeeps == ASSUME IInv, NEW c \in Clients, NEW kind \in left.kinds, AskDrive(c, kind) PROVE IInv'
<1>1. UNCHANGED <<pressed, op, game, mark, conn, srv, lobbyVars>> /\ Spent
  BY SpendSpent DEF AskDrive, IInv
<1>2. kind \in Kinds
  BY DEF IInv, TypeOK, Lefts
<1>3. job' \in Jobs
  BY DEF AskDrive, Set, IInv, TypeOK, Jobs, Phases, Terminal
<1>4. TypeOK'
  BY <1>1, <1>2, <1>3 DEF IInv, TypeOK, AskDrive, Spent, lobbyVars
<1>5. ASSUME Serial PROVE Orderly'
  <2>1. job.phase \in Terminal /\ UNCHANGED job /\ \A d \in Clients : req[d] = "none"
    BY <1>5 DEF AskDrive, Offered, Serial, Terminal
  <2>2. \A d \in Clients : d # c => req'[d] = "none"
    BY <2>1 DEF AskDrive, IInv, TypeOK
  <2>3. OneJob'
    BY <1>1, <1>5, <2>1, <2>2 DEF IInv, Orderly, OneJob, At, Kinds
  <2>4. OwnStop'
    BY <2>1 DEF OwnStop
  <2> QED
    BY <1>1, <1>5, <2>3, <2>4, FitsSame DEF Orderly
<1> QED
  BY <1>1, <1>4, <1>5 DEF IInv, Serial, Spent

LEMMA RefuseKeeps == ASSUME IInv, NEW c \in Clients, Refuse(c) PROVE IInv'
<1>1. UNCHANGED <<job, pressed, op, game, mark, conn, srv, left, lobbyVars>> /\ Spent
      /\ req' = [req EXCEPT ![c] = "none"]
  BY FreeSpent DEF Refuse, IInv
<1>2. TypeOK'
  BY <1>1 DEF IInv, TypeOK, lobbyVars
<1>3. \A d \in Clients : req'[d] = req[d] \/ req'[d] = "none"
  BY <1>1 DEF IInv, TypeOK
<1>4. ASSUME Serial PROVE Orderly'
  <2>1. OneJob'
    BY <1>1, <1>3, <1>4 DEF IInv, Orderly, OneJob, At, Kinds
  <2>2. OwnStop'
    BY <1>1, <1>3, <1>4 DEF IInv, Orderly, OwnStop
  <2> QED
    BY <1>1, <1>4, <2>1, <2>2, FitsSame DEF Orderly
<1> QED
  BY <1>1, <1>2, <1>4 DEF IInv, Serial

LEMMA AskStopKeeps == ASSUME IInv, NEW c \in Clients, AskStop(c) PROVE IInv'
<1>1. UNCHANGED <<job, op, game, mark, conn, srv, lobbyVars>> /\ Spent /\ pressed' = TRUE
      /\ req' = [req EXCEPT ![c] = "stop"] /\ job.phase \notin Terminal
  BY SpendSpent DEF AskStop, IInv
<1>2. TypeOK'
  BY <1>1 DEF IInv, TypeOK, Spent, lobbyVars
<1>3. \A d \in Clients : req'[d] \in Kinds => req[d] \in Kinds
  BY <1>1 DEF IInv, TypeOK, Kinds
<1>4. ASSUME Serial PROVE Orderly'
  <2>1. OneJob'
    BY <1>1, <1>3, <1>4 DEF IInv, Orderly, OneJob, At
  <2>2. OwnStop'
    BY <1>1 DEF OwnStop
  <2> QED
    BY <1>1, <1>4, <2>1, <2>2, FitsSame DEF Orderly
<1> QED
  BY <1>1, <1>2, <1>4 DEF IInv, Serial, Spent

LEMMA StopKeeps == ASSUME IInv, NEW c \in Clients, Stop(c) PROVE IInv'
<1>1. UNCHANGED <<pressed, op, game, mark, conn, srv, left, lobbyVars>> /\ Spent /\ req[c] = "stop"
      /\ req' = [req EXCEPT ![c] = "none"] /\ job' = [job EXCEPT !.cancel = TRUE]
  BY FreeSpent DEF Stop, IInv
<1>2. TypeOK' /\ job'.phase = job.phase
  BY <1>1 DEF IInv, TypeOK, Jobs, lobbyVars
<1>3. \A d \in Clients : req'[d] = req[d] \/ req'[d] = "none"
  BY <1>1 DEF IInv, TypeOK
<1>4. ASSUME Serial PROVE Orderly'
  <2>1. OneJob'
    BY <1>1, <1>2, <1>3, <1>4 DEF IInv, Orderly, OneJob, At, Kinds
  <2>2. OwnStop'
    BY <1>1, <1>2, <1>4 DEF IInv, Orderly, OwnStop
  <2> QED
    BY <1>1, <1>4, <2>1, <2>2, FitsSame DEF Orderly
<1> QED
  BY <1>1, <1>2, <1>4 DEF IInv, Serial

\* A new job: none works, so that its thread has the place to itself.
LEMMA QueueKeeps == ASSUME IInv, NEW c \in Clients, NEW t \in Threads, Queue(c, t) PROVE IInv'
<1>1. /\ req[c] \notin {"none", "stop"}
      /\ op' = [op EXCEPT ![t] = [Resting EXCEPT !.kind = req[c], !.pc = "begin"]]
      /\ job' = [job EXCEPT !.phase = "busy", !.cancel = FALSE] /\ pressed' = FALSE
      /\ conn' = [conn EXCEPT ![t] = 0]
      /\ req' = [req EXCEPT ![c] = "none"] /\ left' = [left EXCEPT !.strayed = FALSE]
      /\ UNCHANGED <<game, mark, srv, lobby, fetch, late>>
      /\ (Ages \/ UNCHANGED list)
  BY DEF Queue, Queues, Does
<1>2. req[c] \in Kinds
  BY <1>1 DEF IInv, TypeOK
<1>3. PICK s : s = [Resting EXCEPT !.kind = req[c], !.pc = "begin"]
  OBVIOUS
<1>4. s \in Steps /\ s.pc = "begin" /\ ~s.ours /\ ~s.saw /\ ~s.made /\ s.out = "none"
  BY <1>2, <1>3 DEF Resting, Steps, Pcs, Outs, Early
<1>5. job' \in Jobs /\ job'.phase = "busy" /\ job'.cancel = FALSE
  BY <1>1 DEF IInv, TypeOK, Jobs, Phases
<1>6. left' \in Lefts /\ left'.patient = left.patient /\ left'.late = left.late
  BY <1>1 DEF IInv, TypeOK, Lefts
<1>7. list' \in {"old", "new"}
  BY <1>1 DEF IInv, TypeOK, Ages
<1>8. op' = [op EXCEPT ![t] = s] /\ op'[t] = s
  BY <1>1, <1>3 DEF IInv, TypeOK
<1>9. TypeOK'
  BY <1>1, <1>4, <1>5, <1>6, <1>7, <1>8 DEF IInv, TypeOK
<1>10. ASSUME Serial PROVE Orderly'
  <2>1. (\A u \in Threads : op[u] = Resting) /\ \A d \in Clients : d = c \/ req[d] = "none"
    BY <1>2, <1>10 DEF IInv, Orderly, OneJob
  <2>2. \A d \in Clients : req'[d] = "none"
    BY <1>1, <2>1 DEF IInv, TypeOK
  <2>3. \A u \in Threads : u # t => op'[u] = Resting
    BY <1>8, <2>1 DEF IInv, TypeOK
  <2>4. OneJob'
    BY <1>5, <1>8, <2>2, <2>3 DEF OneJob, At, Resting, Terminal, Kinds
  <2>5. OwnStop'
    BY <1>5, <2>2 DEF OwnStop
  <2>6. Noted'
    <3>1. \A u \in Threads : conn'[u] = conn[u] \/ conn'[u] = 0
      BY <1>1 DEF IInv, TypeOK
    <3> QED
      BY <1>1, <1>10, <3>1 DEF IInv, Orderly, Noted, On, Up, Listening
  <2>7. Written'
    <3>1. Written
      BY <1>10 DEF IInv, Orderly
    <3>2. \A x \in Fetchers : fetch[x].pc \in {"written", "ok"} => list' = "new"
      BY <1>1, <3>1 DEF Written, Ages
    <3> QED
      BY <1>1, <1>6, <3>1, <3>2 DEF Written
  <2>8. ASSUME NEW u \in Threads PROVE Fits(u, op[u])'
    <3>1. fetch'[u].pc = "idle"
      BY <1>1, <1>10, <2>1 DEF IInv, Orderly, Fits, ListOf, Resting
    <3>2. CASE u = t
      <4>1. conn'[t] = 0
        BY <1>1 DEF IInv, TypeOK
      <4>2. Place(op[t])'
        BY <1>4, <1>8 DEF Place, Driving
      <4>3. ~(mark' /\ op'[t].pc \in {"car", "go mp", "on mp", "pick"})
        BY <1>4, <1>8
      <4>4. NoteOf(t, op[t])'
        BY <1>4, <1>8, <4>1, <4>3, NoneYet DEF NoteOf
      <4>5. GameOf(t, op[t])'
        BY <1>4, <1>8 DEF GameOf
      <4>6. ListOf(t, op[t])'
        BY <1>4, <1>8, <3>1, <3>2 DEF ListOf
      <4> QED
        BY <3>2, <4>2, <4>4, <4>5, <4>6 DEF Fits
    <3>3. CASE u # t
      <4>1. op'[u] = Resting
        BY <2>3, <3>3
      <4>2. Resting.pc = "idle" /\ Resting.kind = "none" /\ ~Resting.ours /\ ~Resting.saw /\ Resting.out = "none"
        BY DEF Resting
      <4>3. Place(op[u])' /\ GameOf(u, op[u])' /\ ListOf(u, op[u])'
        BY <3>1, <4>1, <4>2 DEF Place, GameOf, ListOf, Early
      <4>4. NoteOf(u, op[u])'
        BY <4>1, <4>2 DEF NoteOf
      <4> QED
        BY <4>3, <4>4 DEF Fits
    <3> QED
      BY <3>2, <3>3
  <2> QED
    BY <2>4, <2>5, <2>6, <2>7, <2>8 DEF Orderly
<1> QED
  BY <1>6, <1>9, <1>10 DEF IInv, Serial

(* The game, the player, the server, and the list's fetches.                *)

\* What happens around a job: the game comes with its owner or goes, and a page of Connects goes with
\* the note, or with the player.
LEMMA AroundKeeps ==
  ASSUME IInv, UNCHANGED <<job, pressed, op, req, lobbyVars>>,
         game' \in Games, mark' \in BOOLEAN, conn' \in [Threads -> Nat], srv' \in {"off", "starting", "open"},
         left' \in Lefts, left'.patient = left.patient, left'.late = left.late,
         left.strayed => left'.strayed,
         \A t \in Threads : conn'[t] = conn[t] \/ conn'[t] = 0,
         mark' => mark,
         Serial => (mark' => On({"mp"})') /\ (~Listening' => \A t \in Threads : conn'[t] = 0),
         Serial => ~mark \/ mark' \/ left'.strayed \/ \A t \in Threads : conn'[t] = 0,
         \A t \in Threads : op[t].ours =>
             game'.st = "off" \/ (game'.by = game.by /\ (game'.st = game.st \/ game.st = "starting"))
  PROVE  IInv'
<1>1. TypeOK'
  BY DEF IInv, TypeOK, lobbyVars
<1>2. ASSUME Serial PROVE Orderly'
  <2>1. OneJob' /\ OwnStop'
    BY <1>2 DEF IInv, Orderly, OneJob, OwnStop, At
  <2>2. Noted' /\ Written'
    BY <1>2 DEF IInv, Orderly, Noted, Written, lobbyVars
  <2>3. ASSUME NEW t \in Threads PROVE Fits(t, op[t])'
    <3>1. Place(op[t]) /\ NoteOf(t, op[t]) /\ GameOf(t, op[t]) /\ ListOf(t, op[t]) /\ conn[t] \in Nat /\ op[t] \in Steps
      BY <1>2 DEF IInv, Orderly, Fits, TypeOK
    <3>2. Place(op[t])' /\ ListOf(t, op[t])'
      BY <3>1 DEF Place, ListOf, InTime, lobbyVars
    <3>3. conn'[t] = conn[t] \/ conn'[t] = 0
      OBVIOUS
    <3>4. NoteOf(t, op[t])'
      <4>1. op[t].pc \notin {"idle", "pick", "sent"} => conn'[t] = 0
        BY <3>1, <3>3 DEF NoteOf
      <4>2. op[t].pc = "idle" \/ conn'[t] <= 1 \/ left'.strayed
        BY <3>1, <3>3, NoneYet DEF NoteOf
      <4>3. conn'[t] = 0 => ~(conn'[t] > 0)
        BY NoneYet
      <4>4. op[t].pc = "pick" /\ conn'[t] > 0 => mark' \/ left'.strayed
        BY <1>2, <3>1, <3>3, <4>3 DEF NoteOf
      <4>5. mark' /\ op[t].pc \in {"car", "go mp", "on mp", "pick"} => op[t].made
        BY <3>1 DEF NoteOf
      <4> QED
        BY <4>1, <4>2, <4>4, <4>5 DEF NoteOf
    <3>5. GameOf(t, op[t])'
      <4>1. CASE ~op[t].ours
        BY <4>1 DEF GameOf
      <4>2. CASE op[t].ours
        <5>1. /\ game.by = t \/ game.st = "off" \/ op[t].mixed
              /\ op[t].saw => game.st # "starting"
              /\ op[t].saw /\ op[t].pc = "end" => game.st = "off" \/ game.by = None \/ op[t].clung
          BY <3>1, <4>2 DEF GameOf
        <5>2. game'.st = "off" \/ (game'.by = game.by /\ (game'.st = game.st \/ game.st = "starting"))
          BY <4>2
        <5>3. game'.by = t \/ game'.st = "off" \/ op[t].mixed
          BY <5>1, <5>2
        <5>4. op[t].saw => game'.st # "starting"
          BY <5>1, <5>2
        <5>5. op[t].saw /\ op[t].pc = "end" => game'.st = "off" \/ game'.by = None \/ op[t].clung
          BY <5>1, <5>2
        <5> QED
          BY <5>3, <5>4, <5>5 DEF GameOf
      <4> QED
        BY <4>1, <4>2
    <3> QED
      BY <3>2, <3>4, <3>5 DEF Fits
  <2> QED
    BY <2>1, <2>2, <2>3 DEF Orderly
<1> QED
  BY <1>1, <1>2 DEF IInv, Serial

LEMMA NotedNow == ASSUME IInv, Serial PROVE Noted
  BY DEF IInv, Orderly

LEMMA OpenedGames == \A t \in Threads \cup {None}, st \in {"off", "starting", "up"} : Opened(t, st) \in Games
  BY DEF Opened, Games, Pages

LEMMA OffGames == Off \in Games
  BY DEF Off, Games, Pages

LEMMA ComesKeeps == ASSUME IInv, Comes PROVE IInv'
<1>1. UNCHANGED <<job, pressed, op, req, lobbyVars, mark, conn, srv, left>> /\ game.st = "starting"
  BY DEF Comes, Around
<1>2. game' \in Games
  BY OpenedGames, OffGames DEF Comes, IInv, TypeOK, Games
<1>3. game'.st = "off" \/ game'.by = game.by
  BY DEF Comes, Opened, Off
<1>4. Serial => ~mark /\ \A t \in Threads : conn[t] = 0
  BY <1>1, NotedNow DEF Noted, On, Up, Listening
<1> QED
  BY <1>1, <1>2, <1>3, <1>4, AroundKeeps DEF IInv, TypeOK

LEMMA ServerListensKeeps == ASSUME IInv, ServerListens PROVE IInv'
<1>1. UNCHANGED <<job, pressed, op, req, lobbyVars, game, mark, conn, left>> /\ srv' = "open"
  BY DEF ServerListens, Around
<1>2. Serial => (mark' => On({"mp"})') /\ (~Listening' => \A t \in Threads : conn'[t] = 0)
  BY <1>1, NotedNow DEF Noted, On, Up, Listening
<1> QED
  BY <1>1, <1>2, AroundKeeps DEF IInv, TypeOK

\* Another page.
LEMMA PageKeeps ==
  ASSUME IInv, Up, NEW page \in {"home", "sp", "mp", "loading", "session"}, Shows(page),
         UNCHANGED <<job, pressed, op, req, srv, lobbyVars>>, conn' \in [Threads -> Nat],
         left' \in Lefts, left'.patient = left.patient, left'.late = left.late, left.strayed => left'.strayed,
         \A t \in Threads : conn'[t] = conn[t] \/ conn'[t] = 0,
         Serial => ~mark \/ left'.strayed \/ \A t \in Threads : conn'[t] = 0
  PROVE  IInv'
<1>1. game' \in Games /\ game'.st = game.st /\ game'.by = game.by /\ game'.page = page /\ mark' = FALSE
  BY DEF Shows, IInv, TypeOK, Games, Pages
<1>2. Listening'
  BY <1>1 DEF Listening, Up
<1> QED
  BY <1>1, <1>2, AroundKeeps DEF IInv, TypeOK

LEMMA BootsKeeps == ASSUME IInv, Boots PROVE IInv'
<1>1. UNCHANGED <<job, pressed, op, req, lobbyVars, conn, srv, left>> /\ Shows("home") /\ Up
  BY DEF Boots, Around, On
<1>2. Serial => \A t \in Threads : conn[t] = 0
  BY NotedNow DEF Boots, Noted, On, Listening
<1> QED
  BY <1>1, <1>2, PageKeeps DEF IInv, TypeOK

LEMMA AnswersKeeps == ASSUME IInv, Answers PROVE IInv'
<1>1. UNCHANGED <<job, pressed, op, req, lobbyVars, srv, left>> /\ conn' = [t \in Threads |-> 0]
  BY DEF Answers, Around
<1>2. CASE Up /\ Shows("loading")
  BY <1>1, <1>2, PageKeeps DEF IInv, TypeOK
<1>3. CASE UNCHANGED <<game, mark>>
  <2>1. Serial => (mark' => On({"mp"})')
    BY <1>3, NotedNow DEF Noted, On, Up
  <2> QED
    BY <1>1, <1>3, <2>1, AroundKeeps DEF IInv, TypeOK
<1> QED
  BY <1>2, <1>3 DEF Answers, On

LEMMA InSessionKeeps == ASSUME IInv, InSession PROVE IInv'
<1>1. UNCHANGED <<job, pressed, op, req, lobbyVars, conn, srv, left>> /\ Shows("session") /\ Up
  BY DEF InSession, Around, On
<1>2. Serial => ~mark
  BY NotedNow DEF InSession, Noted, On
<1> QED
  BY <1>1, <1>2, PageKeeps DEF IInv, TypeOK

LEMMA MovesKeeps == ASSUME IInv, Moves PROVE IInv'
<1>1. UNCHANGED <<job, pressed, op, req, lobbyVars, conn, srv>> /\ Up
      /\ left.moves > 0 /\ left' = [left EXCEPT !.moves = @ - 1, !.strayed = @ \/ mark]
  BY DEF Moves, Around, On
<1>2. PICK page \in {"home", "sp", "mp"} : Shows(page)
  BY DEF Moves
<1>3. left.moves - 1 \in Nat /\ (left.strayed \/ mark) \in BOOLEAN
  BY <1>1 DEF IInv, TypeOK, Lefts
<1>4. left' \in Lefts /\ left'.patient = left.patient /\ left'.late = left.late
      /\ left'.strayed = (left.strayed \/ mark)
  BY <1>1, <1>3 DEF IInv, TypeOK, Lefts
<1> QED
  BY <1>1, <1>2, <1>4, PageKeeps DEF IInv, TypeOK

LEMMA GameClosesKeeps == ASSUME IInv, GameCloses PROVE IInv'
<1>1. UNCHANGED <<job, pressed, op, req, lobbyVars, srv>> /\ Spent
      /\ game' = Off /\ mark' = FALSE /\ conn' = [t \in Threads |-> 0]
  BY SpendSpent DEF GameCloses, Around, IInv
<1>2. game' \in Games /\ game'.st = "off"
  BY <1>1, OffGames DEF Off
<1> QED
  BY <1>1, <1>2, AroundKeeps DEF IInv, TypeOK, Spent

\* The player's game beside a job: whose launch it is taken for is noted.
LEMMA GameOpensKeeps == ASSUME IInv, GameOpens PROVE IInv'
<1>t. TypeOK
  BY DEF IInv
<1>1. UNCHANGED <<job, pressed, req, lobbyVars, mark, conn, srv>> /\ Spent /\ ~Up /\ game' = Opened(None, "up")
  BY <1>t, SpendSpent DEF GameOpens
<1>2. game' \in Games /\ game'.st = "up" /\ game'.by = None
  BY <1>1, OpenedGames DEF Opened
<1>3. /\ op' \in [Threads -> Steps]
      /\ \A t \in Threads : /\ op'[t].pc = op[t].pc /\ op'[t].kind = op[t].kind /\ op'[t].saw = op[t].saw
                            /\ op'[t].ours = op[t].ours /\ op'[t].made = op[t].made /\ op'[t].out = op[t].out
                            /\ op'[t].clung = op[t].clung
      /\ \A t \in Threads : op[t].ours => op'[t].mixed
      /\ \A t \in Threads : ~op[t].ours => op'[t] = op[t]
  <2>1. op' = [t \in Threads |-> [op[t] EXCEPT !.mixed = op[t].mixed \/ op[t].ours]] /\ op \in [Threads -> Steps]
    BY <1>t DEF GameOpens, TypeOK
  <2>2. ASSUME NEW t \in Threads, NEW b \in BOOLEAN, NEW s, s = [op[t] EXCEPT !.mixed = b]
        PROVE  /\ s \in Steps /\ s.pc = op[t].pc /\ s.kind = op[t].kind /\ s.saw = op[t].saw /\ s.ours = op[t].ours
               /\ s.made = op[t].made /\ s.out = op[t].out /\ s.clung = op[t].clung /\ s.mixed = b
               /\ (op[t].mixed = b => s = op[t])
    <3>1. op[t] \in Steps
      BY <2>1
    <3> QED
      BY <2>2, <3>1 DEF Steps
  <2>3. ASSUME NEW t \in Threads
        PROVE  /\ op'[t] \in Steps /\ op'[t].pc = op[t].pc /\ op'[t].kind = op[t].kind /\ op'[t].saw = op[t].saw
               /\ op'[t].ours = op[t].ours /\ op'[t].made = op[t].made /\ op'[t].out = op[t].out
               /\ op'[t].clung = op[t].clung
               /\ op[t].ours => op'[t].mixed
               /\ ~op[t].ours => op'[t] = op[t]
    <3>1. PICK b \in BOOLEAN : b = (op[t].mixed \/ op[t].ours)
      OBVIOUS
    <3>2. op'[t] = [op[t] EXCEPT !.mixed = b]
      BY <2>1, <3>1
    <3>3. op[t].mixed \in BOOLEAN /\ op[t].ours \in BOOLEAN
      BY <2>1 DEF Steps
    <3>4. (op[t].ours => b) /\ (~op[t].ours => op[t].mixed = b)
      BY <3>1, <3>3
    <3>5. PICK s : s = [op[t] EXCEPT !.mixed = b]
      OBVIOUS
    <3>6. /\ s \in Steps /\ s.pc = op[t].pc /\ s.kind = op[t].kind /\ s.saw = op[t].saw /\ s.ours = op[t].ours
          /\ s.made = op[t].made /\ s.out = op[t].out /\ s.clung = op[t].clung /\ s.mixed = b
          /\ (op[t].mixed = b => s = op[t])
      BY <2>2, <3>5
    <3>7. op'[t] = s
      BY <3>2, <3>5
    <3> QED
      BY <3>4, <3>6, <3>7
  <2>4. op' \in [Threads -> Steps]
    BY <2>1, <2>3
  <2> QED
    BY <2>3, <2>4
<1>4. TypeOK'
  BY <1>t, <1>1, <1>2, <1>3 DEF TypeOK, Spent, lobbyVars
<1>5. ASSUME Serial PROVE Orderly'
  <2>1. Noted /\ Written /\ OneJob /\ OwnStop
    BY <1>5 DEF IInv, Orderly
  <2>2. ~mark /\ \A t \in Threads : conn[t] = 0
    BY <1>1, <2>1 DEF Noted, On, Listening
  <2>3. Noted' /\ Written' /\ OwnStop'
    BY <1>1, <2>1, <2>2 DEF Noted, Written, OwnStop, Spent, lobbyVars
  <2>4. OneJob'
    <3>1. \A t \in Threads : op[t] = Resting => op'[t] = Resting
      BY <1>3 DEF Resting
    <3> QED
      BY <1>1, <1>3, <2>1, <3>1 DEF OneJob, At
  <2>5. ASSUME NEW t \in Threads PROVE Fits(t, op[t])'
    <3>1. Place(op[t]) /\ NoteOf(t, op[t]) /\ GameOf(t, op[t]) /\ ListOf(t, op[t])
      BY <1>5 DEF IInv, Orderly, Fits
    <3>2. op[t] = Resting => op'[t] = Resting
      BY <1>3 DEF Resting
    <3>3. Place(op[t])'
      BY <1>1, <1>3, <3>1, <3>2 DEF Place
    <3>4. NoteOf(t, op[t])'
      <4>1. conn'[t] = 0
        BY <1>1, <2>2
      <4> QED
        BY <1>1, <2>2, <4>1, NoneYet DEF NoteOf
    <3>5. GameOf(t, op[t])'
      BY <1>2, <1>3 DEF GameOf
    <3>6. ListOf(t, op[t])'
      BY <1>1, <1>3, <3>1 DEF ListOf, InTime, Spent, lobbyVars
    <3> QED
      BY <3>3, <3>4, <3>5, <3>6 DEF Fits
  <2> QED
    BY <2>3, <2>4, <2>5 DEF Orderly
<1> QED
  BY <1>1, <1>4, <1>5 DEF IInv, Serial, Spent

\* A step on the list, or of a fetch that is not at rest.
LEMMA ListKeepsRest ==
  ASSUME IInv, UNCHANGED <<job, pressed, op, game, mark, conn, srv, req>>, Spent,
         lobby' \in Lobbies, list' \in {"old", "new"}, fetch' \in [Fetchers -> Fetchings], late' \in Nat,
         Serial => Written' /\ \A t \in Threads : ListOf(t, op[t])'
  PROVE  IInv'
<1>1. TypeOK'
  BY DEF IInv, TypeOK, Spent
<1>2. ASSUME Serial PROVE Orderly'
  <2>1. OneJob' /\ OwnStop' /\ Noted'
    BY <1>2 DEF IInv, Orderly, OneJob, OwnStop, At, Noted, On, Up, Listening
  <2>2. ASSUME NEW t \in Threads PROVE Fits(t, op[t])'
    <3>1. Place(op[t]) /\ NoteOf(t, op[t]) /\ GameOf(t, op[t])
      BY <1>2 DEF IInv, Orderly, Fits
    <3>2. Place(op[t])' /\ GameOf(t, op[t])'
      BY <3>1 DEF Place, GameOf
    <3>3. NoteOf(t, op[t])'
      BY <3>1 DEF NoteOf, Spent
    <3> QED
      BY <1>2, <3>2, <3>3 DEF Fits
  <2> QED
    BY <1>2, <2>1, <2>2 DEF Orderly
<1> QED
  BY <1>1, <1>2 DEF IInv, Serial, Spent

LEMMA CapturedKeeps == ASSUME IInv, Captured PROVE IInv'
<1>1. UNCHANGED <<job, pressed, op, game, mark, conn, srv, req, lobby, fetch, late>> /\ Spent /\ list' = "new"
  BY FreeSpent DEF Captured, driveVars, IInv
<1>2. ASSUME Serial PROVE Written' /\ \A t \in Threads : ListOf(t, op[t])'
  <2>1. Written'
    BY <1>1, <1>2 DEF IInv, Orderly, Written, Spent
  <2>2. ASSUME NEW t \in Threads PROVE ListOf(t, op[t])'
    BY <1>1, <1>2 DEF IInv, Orderly, Fits, ListOf
  <2> QED
    BY <2>1, <2>2
<1> QED
  BY <1>1, <1>2, ListKeepsRest DEF IInv, TypeOK

LEMMA ListNow ==
  ASSUME IInv, Serial
  PROVE  Written /\ \A t \in Threads : t \in Fetchers /\ ListOf(t, op[t])
  BY ConstantsAssumption DEF IInv, Orderly, Fits

LEMMA FetchGoes ==
  ASSUME IInv, NEW x \in Fetchers, NEW f \in Fetchings, fetch' = [fetch EXCEPT ![x] = f]
  PROVE  fetch' \in [Fetchers -> Fetchings] /\ fetch'[x] = f /\ \A y \in Fetchers : y # x => fetch'[y] = fetch[y]
  BY DEF IInv, TypeOK

\* One fetch moves on; the list, the lobby and who waits fit.
LEMMA FetchKeeps ==
  ASSUME IInv, UNCHANGED driveVars, NEW x \in Fetchers, NEW f \in Fetchings, fetch' = [fetch EXCEPT ![x] = f],
         lobby' \in Lobbies, list' \in {"old", "new"}, late' \in Nat, late' <= late,
         Serial => (list = "new" => list' = "new"),
         Serial => (f.pc \in {"written", "ok"} => list' = "new"),
         Serial => (x \in Threads => fetch[x].pc # "idle" \/ f.pc = "idle"),
         Serial => (late' = left.late => late' = late),
         Serial => (x \in Threads /\ late' = left.late /\ f.pc = "answer" /\ f.ok => list' = "new"),
         Serial => (x \in Threads /\ late' = left.late /\ f.pc = "wait"
                    /\ ~lobby'.running /\ lobby'.last = "ok" => list' = "new"),
         Serial => (~lobby'.running /\ lobby'.last = "ok" => list' = "new" \/ UNCHANGED lobby)
  PROVE  IInv'
<1>1. fetch' \in [Fetchers -> Fetchings] /\ fetch'[x] = f /\ \A y \in Fetchers : y # x => fetch'[y] = fetch[y]
  BY FetchGoes
<1>2. UNCHANGED <<job, pressed, op, game, mark, conn, srv, req, left>> /\ Spent
  BY FreeSpent DEF driveVars, IInv
<1>3. ASSUME Serial PROVE Written' /\ \A t \in Threads : ListOf(t, op[t])'
  <2>1. Written'
    <3>1. Written /\ late \in Nat /\ left.late \in Nat
      BY <1>3, ListNow DEF IInv, TypeOK, Lefts
    <3>2. late' <= left'.late
      BY <1>2, <3>1 DEF Written
    <3>3. \A y \in Fetchers : fetch'[y].pc \in {"written", "ok"} => list' = "new"
      BY <1>1, <1>3, <3>1 DEF Written
    <3> QED
      BY <3>2, <3>3 DEF Written
  <2>2. ASSUME NEW t \in Threads PROVE ListOf(t, op[t])'
    <3>1. t \in Fetchers /\ ListOf(t, op[t])
      BY <1>3, ListNow
    <3>2. InTime' => InTime
      BY <1>2, <1>3 DEF InTime
    <3>3. op'[t].out = "launched" => list' = "new"
      BY <1>2, <1>3, <3>1 DEF ListOf
    <3>4. CASE t = x
      <4>1. f.pc # "idle" => op[t].pc = "fetch"
        BY <1>3, <3>1, <3>4 DEF ListOf
      <4>2. InTime' /\ f.pc = "answer" /\ f.ok => list' = "new"
        BY <1>2, <1>3, <3>4 DEF InTime
      <4>3. InTime' /\ f.pc = "wait" /\ ~lobby'.running /\ lobby'.last = "ok" => list' = "new"
        BY <1>2, <1>3, <3>4 DEF InTime
      <4> QED
        BY <1>1, <1>2, <3>3, <3>4, <4>1, <4>2, <4>3 DEF ListOf
    <3>5. CASE t # x
      <4>1. fetch'[t] = fetch[t]
        BY <1>1, <3>1, <3>5
      <4>2. InTime' /\ fetch[t].pc = "answer" /\ fetch[t].ok => list' = "new"
        BY <1>3, <3>1, <3>2 DEF ListOf
      <4>3. InTime' /\ fetch[t].pc = "wait" /\ ~lobby'.running /\ lobby'.last = "ok" => list' = "new"
        BY <1>3, <3>1, <3>2 DEF ListOf
      <4> QED
        BY <1>2, <3>1, <3>3, <4>1, <4>2, <4>3 DEF ListOf
    <3> QED
      BY <3>4, <3>5
  <2> QED
    BY <2>1, <2>2
<1> QED
  BY <1>1, <1>2, <1>3, ListKeepsRest

LEMMA FetchTypes == ASSUME IInv PROVE lobby \in Lobbies /\ list \in {"old", "new"} /\ late \in Nat /\ late <= late
  BY DEF IInv, TypeOK

LEMMA GoesTo ==
  ASSUME IInv, NEW x \in Fetchers,
         NEW pc \in {"idle", "lock", "wait", "fetch", "written", "ok", "failed", "answer"}, Goes(x, pc)
  PROVE  \E f \in Fetchings : fetch' = [fetch EXCEPT ![x] = f] /\ f.pc = pc
<1>1. fetch[x] \in Fetchings
  BY DEF IInv, TypeOK
<1>2. PICK f : f = [fetch[x] EXCEPT !.pc = pc]
  OBVIOUS
<1>3. f \in Fetchings /\ f.pc = pc
  BY <1>1, <1>2 DEF Fetchings
<1>4. fetch' = [fetch EXCEPT ![x] = f]
  BY <1>2 DEF Goes, IInv, TypeOK
<1> QED
  BY <1>3, <1>4

LEMMA AnsweredIs ==
  ASSUME IInv, NEW x \in Fetchers, NEW ok \in BOOLEAN, Answered(x, ok)
  PROVE  \E f \in Fetchings : fetch' = [fetch EXCEPT ![x] = f] /\ f.pc = "answer" /\ f.ok = ok
<1>1. fetch[x] \in Fetchings
  BY DEF IInv, TypeOK
<1>2. PICK f : f = [fetch[x] EXCEPT !.pc = "answer", !.ok = ok]
  OBVIOUS
<1>3. f \in Fetchings /\ f.pc = "answer" /\ f.ok = ok
  BY <1>1, <1>2 DEF Fetchings
<1>4. fetch' = [fetch EXCEPT ![x] = f]
  BY <1>2 DEF Answered, IInv, TypeOK
<1> QED
  BY <1>3, <1>4

LEMMA EnterKeeps == ASSUME IInv, UNCHANGED driveVars, NEW x \in Fetchers, Enter(x) PROVE IInv'
<1>1. fetch[x].pc = "lock" /\ UNCHANGED <<list, late>> /\ lobby' = [lobby EXCEPT !.running = TRUE]
  BY DEF Enter
<1>2. PICK f \in Fetchings : fetch' = [fetch EXCEPT ![x] = f] /\ f.pc = "fetch"
  BY GoesTo DEF Enter
<1>3. lobby' \in Lobbies /\ lobby'.running
  BY <1>1, FetchTypes DEF Lobbies
<1> QED
  BY <1>1, <1>2, <1>3, FetchTypes, FetchKeeps

LEMMA BusyKeeps == ASSUME IInv, UNCHANGED driveVars, NEW x \in Fetchers, Busy(x) PROVE IInv'
<1>1. fetch[x].pc = "lock" /\ lobby.running /\ UNCHANGED <<lobby, list, late>>
  BY DEF Busy
<1>2. CASE Goes(x, "wait")
  <2>1. PICK f \in Fetchings : fetch' = [fetch EXCEPT ![x] = f] /\ f.pc = "wait"
    BY <1>2, GoesTo
  <2> QED
    BY <1>1, <2>1, FetchTypes, FetchKeeps
<1>3. CASE Answered(x, FALSE)
  <2>1. PICK f \in Fetchings : fetch' = [fetch EXCEPT ![x] = f] /\ f.pc = "answer" /\ f.ok = FALSE
    BY <1>3, AnsweredIs
  <2> QED
    BY <1>1, <2>1, FetchTypes, FetchKeeps
<1> QED
  BY <1>2, <1>3 DEF Busy

LEMMA WokenKeeps == ASSUME IInv, UNCHANGED driveVars, NEW x \in Fetchers, Woken(x) PROVE IInv'
<1>1. fetch[x].pc = "wait" /\ ~lobby.running /\ UNCHANGED <<lobby, list, late>> /\ Answered(x, lobby.last = "ok")
  BY DEF Woken
<1>2. PICK f \in Fetchings : fetch' = [fetch EXCEPT ![x] = f] /\ f.pc = "answer" /\ f.ok = (lobby.last = "ok")
  BY <1>1, AnsweredIs
<1>3. Serial => (x \in Threads /\ late' = left.late /\ f.pc = "answer" /\ f.ok => list' = "new")
  BY <1>1, <1>2, ListNow DEF ListOf, InTime
<1> QED
  BY <1>1, <1>2, <1>3, FetchTypes, FetchKeeps

LEMMA WaitsTooLongKeeps == ASSUME IInv, UNCHANGED driveVars, NEW x \in Fetchers, WaitsTooLong(x) PROVE IInv'
<1>1. fetch[x].pc = "wait" /\ lobby.running /\ UNCHANGED <<lobby, list>> /\ Answered(x, lobby.last = "ok")
      /\ late > 0 /\ late' = late - 1
  BY DEF WaitsTooLong
<1>2. PICK f \in Fetchings : fetch' = [fetch EXCEPT ![x] = f] /\ f.pc = "answer"
  BY <1>1, AnsweredIs
<1>3. late' \in Nat /\ late' <= late /\ late' # late
  BY <1>1 DEF IInv, TypeOK
<1>4. ASSUME Serial PROVE late' # left.late
  <2>1. late <= left.late /\ late \in Nat /\ left.late \in Nat
    BY <1>4, ListNow DEF Written, IInv, TypeOK, Lefts
  <2> QED
    BY <1>1, <2>1
<1> QED
  BY <1>1, <1>2, <1>3, <1>4, FetchTypes, FetchKeeps

LEMMA HelperKeeps == ASSUME IInv, UNCHANGED driveVars, NEW x \in Fetchers, Helper(x) PROVE IInv'
<1>1. PICK pc \in {"written", "failed"} :
        Goes(x, pc) /\ (pc = "written" => list' = "new") /\ (list' = "new" \/ UNCHANGED list)
  BY DEF Helper
<1>2. PICK f \in Fetchings : fetch' = [fetch EXCEPT ![x] = f] /\ f.pc = pc
  BY <1>1, GoesTo
<1>3. fetch[x].pc = "fetch" /\ UNCHANGED <<lobby, late>>
  BY DEF Helper
<1> QED
  BY <1>1, <1>2, <1>3, FetchTypes, FetchKeeps

LEMMA CollectKeeps == ASSUME IInv, UNCHANGED driveVars, NEW x \in Fetchers, Collect(x) PROVE IInv'
<1>1. PICK pc \in {"ok", "failed"} : Goes(x, pc)
  BY DEF Collect
<1>2. PICK f \in Fetchings : fetch' = [fetch EXCEPT ![x] = f] /\ f.pc = pc
  BY <1>1, GoesTo
<1>3. fetch[x].pc = "written" /\ UNCHANGED <<lobby, list, late>>
  BY DEF Collect
<1>4. Serial => list' = "new"
  BY <1>3, ListNow DEF Written
<1> QED
  BY <1>1, <1>2, <1>3, <1>4, FetchTypes, FetchKeeps

LEMMA ReportKeeps == ASSUME IInv, UNCHANGED driveVars, NEW x \in Fetchers, Report(x) PROVE IInv'
<1>1. fetch[x].pc \in {"ok", "failed"} /\ UNCHANGED <<list, late>> /\ Answered(x, fetch[x].pc = "ok")
      /\ lobby' = [running |-> FALSE, last |-> fetch[x].pc]
  BY DEF Report
<1>2. PICK f \in Fetchings : fetch' = [fetch EXCEPT ![x] = f] /\ f.pc = "answer" /\ f.ok = (fetch[x].pc = "ok")
  BY <1>1, AnsweredIs
<1>3. Serial => (fetch[x].pc = "ok" => list' = "new")
  BY <1>1, ListNow DEF Written
<1>4. lobby' \in Lobbies /\ lobby'.last = fetch[x].pc
  BY <1>1 DEF Lobbies
<1> QED
  BY <1>1, <1>2, <1>3, <1>4, FetchTypes, FetchKeeps

LEMMA LobbyKeeps == ASSUME IInv, NEW x \in Fetchers, Lobby(x) PROVE IInv'
  BY EnterKeeps, BusyKeeps, WokenKeeps, WaitsTooLongKeeps, HelperKeeps, CollectKeeps, ReportKeeps DEF Lobby, Fetches

LEMMA AsksListKeeps == ASSUME IInv, NEW x \in Fetchers, AsksList(x) PROVE IInv'
<1>1. UNCHANGED <<job, pressed, op, game, mark, conn, srv, req, lobby, list, late>> /\ Spent /\ x \notin Threads
  BY SpendSpent DEF AsksList, AskFetch, IInv
<1>2. PICK f \in Fetchings : fetch' = [fetch EXCEPT ![x] = f] /\ f.pc \in {"answer", "lock"}
  <2>1. PICK wait \in BOOLEAN : AskFetch(x, wait, Up)
    BY DEF AsksList
  <2>2. PICK f : f = [pc |-> IF Up THEN "answer" ELSE "lock", wait |-> wait, ok |-> FALSE]
    OBVIOUS
  <2>3. f \in Fetchings /\ f.pc \in {"answer", "lock"}
    BY <2>2 DEF Fetchings
  <2> QED
    BY <2>1, <2>2, <2>3 DEF AskFetch
<1>3. fetch' \in [Fetchers -> Fetchings] /\ fetch'[x] = f /\ \A y \in Fetchers : y # x => fetch'[y] = fetch[y]
  BY <1>2, FetchGoes
<1>4. ASSUME Serial PROVE Written' /\ \A t \in Threads : ListOf(t, op[t])'
  <2>1. Written'
    BY <1>1, <1>2, <1>3, <1>4, ListNow DEF Written, Spent
  <2>2. ASSUME NEW t \in Threads PROVE ListOf(t, op[t])'
    <3>1. t \in Fetchers /\ ListOf(t, op[t])
      BY <1>4, ListNow
    <3>2. fetch'[t] = fetch[t]
      BY <1>1, <1>3, <3>1
    <3> QED
      BY <1>1, <3>1, <3>2 DEF ListOf, InTime, Spent
  <2> QED
    BY <2>1, <2>2
<1> QED
  BY <1>1, <1>3, <1>4, FetchTypes, ListKeepsRest

LEMMA HasListKeeps == ASSUME IInv, NEW x \in Fetchers, HasList(x) PROVE IInv'
<1>1. UNCHANGED driveVars /\ UNCHANGED <<lobby, list, late>> /\ x \notin Threads /\ fetch[x].pc = "answer"
      /\ fetch' = [fetch EXCEPT ![x] = Away]
  BY DEF HasList, Takes
<1>2. Away \in Fetchings /\ Away.pc = "idle"
  BY DEF Away, Fetchings
<1> QED
  BY <1>1, <1>2, FetchTypes, FetchKeeps

LEMMA MachineKeeps == ASSUME IInv, Machine PROVE IInv'
  BY ComesKeeps, BootsKeeps, AnswersKeeps, InSessionKeeps, CapturedKeeps, MovesKeeps, GameClosesKeeps, GameOpensKeeps,
     ServerListensKeeps DEF Machine

(* The invariant, and what follows from it.                                 *)

LEMMA InitHolds == Init => IInv
<1> SUFFICES ASSUME Init PROVE IInv
  OBVIOUS
<1>1. left \in Scenes /\ Scenes \subseteq Bounds /\ Threads \subseteq Fetchers
  BY ConstantsAssumption DEF Init
<1>2. left \in Lefts /\ late = left.late
  BY <1>1 DEF Init, Bounds, Lefts, Kinds
<1>3. Resting \in Steps /\ Resting.pc = "idle" /\ Resting.kind = "none" /\ ~Resting.ours /\ ~Resting.saw
      /\ Resting.out = "none"
  BY DEF Resting, Steps, Pcs, Outs
<1>4. game \in Games /\ Away \in Fetchings /\ Away.pc = "idle"
  BY DEF Init, Off, Opened, Games, Pages, Away, Fetchings
<1>5. TypeOK
  BY <1>2, <1>3, <1>4 DEF Init, InitLobby, TypeOK, Jobs, Phases, Terminal, Lobbies, Lefts
<1>6. OneJob /\ OwnStop /\ Noted /\ Written
  BY <1>2, <1>3, <1>4 DEF Init, InitLobby, OneJob, OwnStop, Noted, Written, At, Terminal, Kinds, Lefts
<1>7. ASSUME NEW t \in Threads PROVE Fits(t, op[t])
  <2>1. op[t] = Resting /\ fetch[t].pc = "idle"
    BY <1>1, <1>4 DEF Init, InitLobby
  <2>2. Place(op[t]) /\ NoteOf(t, op[t]) /\ GameOf(t, op[t]) /\ ListOf(t, op[t])
    BY <1>3, <2>1 DEF Place, NoteOf, GameOf, ListOf, Early
  <2> QED
    BY <2>2 DEF Fits
<1> QED
  BY <1>5, <1>6, <1>7 DEF IInv, Orderly

LEMMA NextKeeps == IInv /\ [Next]_vars => IInv'
<1> SUFFICES ASSUME IInv, [Next]_vars PROVE IInv'
  OBVIOUS
<1>1. CASE \E c \in Clients : Handler(c) \/ AskStop(c) \/ \E kind \in left.kinds : AskDrive(c, kind)
  BY <1>1, QueueKeeps, RefuseKeeps, StopKeeps, AskStopKeeps, AskDriveKeeps DEF Handler
<1>2. CASE \E t \in Threads : Step(t) \/ Home(t) \/ AsksAgain(t)
  BY <1>2, StepKeeps, HomeKeeps, AsksAgainKeeps
<1>3. CASE \E x \in Fetchers : Lobby(x) \/ AsksList(x) \/ HasList(x)
  BY <1>3, LobbyKeeps, AsksListKeeps, HasListKeeps
<1>4. CASE Machine
  BY <1>4, MachineKeeps
<1>5. CASE UNCHANGED vars
  <2>1. UNCHANGED <<op, game, mark, conn, lobbyVars, pressed, job, req, srv, left>>
    BY <1>5 DEF vars, driveVars
  <2>2. TypeOK' /\ Spent
    BY <2>1, FreeSpent DEF IInv, TypeOK, lobbyVars
  <2>3. ASSUME Serial PROVE OneJob' /\ OwnStop'
    BY <2>1, <2>3 DEF IInv, Orderly, OneJob, OwnStop, At
  <2> QED
    BY <2>1, <2>2, <2>3, FitsSame DEF IInv, Orderly, Serial
<1> QED
  BY <1>1, <1>2, <1>3, <1>4, <1>5 DEF Next

LEMMA Invariant == Spec => []IInv
  BY InitHolds, NextKeeps, PTL DEF Spec

\* Every state has its type, whatever is asked for beside what.
THEOREM TypeCorrect == Spec => []TypeOK
  BY Invariant, PTL DEF IInv

\* One Connect of a job is with the game at a time, while the player leaves its page alone.
THEOREM ConnectsOnceAlways == Spec => []ConnectsOnce
<1>1. IInv => ConnectsOnce
  BY DEF IInv, Orderly, Fits, NoteOf, Place, ConnectsOnce, At
<1> QED
  BY <1>1, Invariant, PTL

\* How a job ends.
Finished(t) ==
    \/ End(t, "cancelled") /\ ~op[t].ours /\ job.cancel
    \/ At(t, "end") /\ End(t, op[t].out)
    \/ At(t, "fetch") /\ fetch[t].pc = "answer" /\ fetch[t].ok /\ End(t, "launched")
    \/ op[t].kind # "capture" /\ (End(t, "launched") \/ End(t, "failed"))
    \/ End(t, "failed") /\ (op[t].ours => ~Up)

LEMMA ThenAt ==
  ASSUME IInv, NEW t \in Threads, Ends(t), NEW pc, Then(t, pc)
  PROVE  pc = "idle"
<1>1. op[t] \in Steps
  BY DEF IInv, TypeOK
<1>2. [op[t] EXCEPT !.pc = pc].pc = pc
  BY <1>1 DEF Steps
<1> QED
  BY <1>2 DEF IInv, TypeOK, Then, Does, Ends

LEMMA ClosesAt == ASSUME IInv, NEW t \in Threads, Ends(t), NEW out PROVE ~Closes(t, out)
<1>1. op[t] \in Steps
  BY DEF IInv, TypeOK
<1>2. [op[t] EXCEPT !.pc = "close", !.out = out].pc = "close"
  BY <1>1 DEF Steps
<1> QED
  BY <1>2 DEF IInv, TypeOK, Closes, Does, Ends

\* What comes before the menu ends only as failed, and has launched nothing.
LEMMA EarlyFails ==
  ASSUME IInv, Serial, NEW t \in Threads, Ends(t),
         Begin(t) \/ Session(t) \/ Server(t) \/ Listens(t) \/ Game(t) \/ Launch(t) \/ AskLobby(t) \/ Proxy(t)
  PROVE  Finished(t)
<1>1. op[t].pc \in Early /\ op[t] \in Steps
  BY DEF Begin, Session, Server, Listens, Game, Launch, AskLobby, Proxy, At, Early, IInv, TypeOK
<1>2. ~op[t].ours
  BY <1>1 DEF IInv, Orderly, Fits, Place, Early, Capturing
<1>3. ~Begin(t) /\ ~AskLobby(t)
  BY ThenAt DEF Begin, AskLobby
<1>4. Launch(t) => End(t, "failed")
  <2>1. [op[t] EXCEPT !.pc = "wait", !.ours = op[t].kind = "capture", !.mixed = Up].pc = "wait"
    BY <1>1 DEF Steps
  <2>2. ~Does(t, [op[t] EXCEPT !.pc = "wait", !.ours = op[t].kind = "capture", !.mixed = Up])
    BY <2>1 DEF IInv, TypeOK, Does, Ends
  <2> QED
    BY <2>2 DEF Launch
<1>5. Session(t) \/ Listens(t) \/ Game(t) \/ Proxy(t) => End(t, "failed")
  BY ThenAt DEF Session, Listens, Game, Proxy
<1>6. Server(t) => End(t, "failed")
  BY ThenAt DEF Server, Ends
<1> QED
  BY <1>2, <1>3, <1>4, <1>5, <1>6 DEF Finished

LEMMA PokedIs == ASSUME NEW t, NEW ok, Poked(t, ok) PROVE End(t, "launched") \/ End(t, "failed")
  BY DEF Poked

\* A drive, once it works the menu.
LEMMA DriveFinishes ==
  ASSUME IInv, Serial, NEW t \in Threads, Ends(t),
         \/ Car(t) \/ Conditions(t) \/ OnSp(t) \/ Press(t) \/ Lost(t) \/ Loads(t)
         \/ GoMp(t) \/ OnMp(t) \/ Connect(t) \/ NotPicked(t) \/ Sent(t)
  PROVE  Finished(t)
<1>1. op[t].pc \in Driving /\ op[t] \in Steps
  BY DEF Car, Conditions, OnSp, Press, Lost, Loads, GoMp, OnMp, Connect, Connects, NotPicked, Sent, At,
         Driving, IInv, TypeOK
<1>2. op[t].kind # "capture"
  BY <1>1, NotCapture
<1>3. ~Press(t) /\ ~GoMp(t)
  BY ThenAt DEF Press, GoMp
<1>4. ~Connect(t)
  <2>1. /\ [op[t] EXCEPT !.pc = "sent", !.made = TRUE].pc = "sent"
        /\ [op[t] EXCEPT !.made = TRUE].pc = op[t].pc
    BY <1>1 DEF Steps
  <2>2. ~Does(t, [op[t] EXCEPT !.pc = "sent", !.made = TRUE]) /\ ~Does(t, [op[t] EXCEPT !.made = TRUE])
    BY <2>1 DEF IInv, TypeOK, Does, Ends
  <2> QED
    BY <2>2, ThenAt DEF Connect, Connects
<1>5. Car(t) => \E ok : Poked(t, ok)
  <2>1. ~Then(t, IF op[t].kind = "sp" THEN "conditions" ELSE "go mp")
    BY ThenAt
  <2> QED
    BY <2>1 DEF Car
<1>6. Conditions(t) \/ OnSp(t) \/ OnMp(t) => \E ok : Poked(t, ok)
  BY ThenAt DEF Conditions, OnSp, OnMp
<1>7. Lost(t) \/ Loads(t) \/ NotPicked(t) \/ Sent(t) => \E ok : Poked(t, ok)
  BY DEF Lost, Loads, NotPicked, Sent
<1> QED
  BY <1>2, <1>3, <1>4, <1>5, <1>6, <1>7, PokedIs DEF Finished

LEMMA StepFinishes == ASSUME IInv, Serial, NEW t \in Threads, Step(t), Ends(t) PROVE Finished(t)
<1>1. op[t] \in Steps
  BY DEF IInv, TypeOK
<1>2. CASE Stopped(t)
  <2>1. ~Does(t, [op[t] EXCEPT !.pc = "close", !.out = "cancelled"])
    BY ClosesAt DEF Closes
  <2> QED
    BY <1>2, <2>1 DEF Stopped, Stops, Finished
<1>3. CASE See(t)
  <2>1. [op[t] EXCEPT !.saw = TRUE].pc = op[t].pc
    BY <1>1 DEF Steps
  <2> QED
    BY <1>3, <2>1 DEF See, Does, Ends, IInv, TypeOK
<1>4. CASE Ready(t)
  BY <1>4, ThenAt, PokedIs DEF Ready, Menu, Finished
<1>5. CASE NotReady(t)
  <2>1. ~Does(t, [op[t] EXCEPT !.pc = "close", !.out = "failed"])
    BY ClosesAt DEF Closes
  <2> QED
    BY <1>5, <2>1, PokedIs DEF NotReady, Finished
<1>6. CASE LobbySays(t)
  BY <1>6, ThenAt DEF LobbySays, Finished
<1>7. CASE OpenList(t)
  BY <1>7, ThenAt DEF OpenList, Finished
<1>8. CASE List(t)
  BY <1>8, ClosesAt DEF List, Lists, Finished
<1>9. CASE Close(t)
  <2>1. [op[t] EXCEPT !.pc = "end", !.clung = TRUE].pc = "end"
    BY <1>1 DEF Steps
  <2>2. ~Does(t, [op[t] EXCEPT !.pc = "end", !.clung = TRUE])
    BY <2>1 DEF IInv, TypeOK, Does, Ends
  <2> QED
    BY <1>9, <2>2, ThenAt DEF Close
<1>10. CASE EndCapture(t)
  BY <1>10 DEF EndCapture, Finished
<1> QED
  BY <1>2, <1>3, <1>4, <1>5, <1>6, <1>7, <1>8, <1>9, <1>10, EarlyFails, DriveFinishes DEF Step

\* Only the job's own thread ends it.
LEMMA OthersLeave ==
  ASSUME IInv, NEW t \in Threads, NEW u \in Threads, u # t, Step(u)
  PROVE  ~Ends(t)
<1>1. UNCHANGED op \/ \E s : Does(u, s)
  <2>1. \A s : Does(u, s) => \E r : Does(u, r)
    OBVIOUS
  <2>2. \A pc : Then(u, pc) => \E s : Does(u, s)
    BY DEF Then
  <2>3. \A phase : End(u, phase) => \E s : Does(u, s)
    BY DEF End
  <2>4. \A ok : Poked(u, ok) => \E s : Does(u, s)
    BY <2>3, PokedIs
  <2>5. \A out : Closes(u, out) => \E s : Does(u, s)
    BY DEF Closes
  <2>6. Stopped(u) \/ See(u) \/ Ready(u) \/ NotReady(u) => \E s : Does(u, s)
    BY <2>1, <2>2, <2>3, <2>4 DEF Stopped, Stops, See, Ready, Menu, NotReady
  <2>7. Begin(u) \/ Session(u) \/ Listens(u) \/ Game(u) \/ Launch(u) => \E s : Does(u, s)
    BY <2>1, <2>2, <2>3 DEF Begin, Session, Listens, Game, Launch
  <2>8. Server(u) => UNCHANGED op \/ \E s : Does(u, s)
    BY <2>2, <2>3 DEF Server
  <2>9. Car(u) \/ Conditions(u) \/ OnSp(u) \/ Press(u) \/ Lost(u) \/ Loads(u) => \E s : Does(u, s)
    BY <2>2, <2>4 DEF Car, Conditions, OnSp, Press, Lost, Loads
  <2>10. GoMp(u) \/ OnMp(u) \/ Connect(u) \/ NotPicked(u) \/ Sent(u) => \E s : Does(u, s)
    BY <2>1, <2>2, <2>4 DEF GoMp, OnMp, Connect, Connects, NotPicked, Sent
  <2>11. AskLobby(u) \/ LobbySays(u) \/ Proxy(u) \/ OpenList(u) => \E s : Does(u, s)
    BY <2>2, <2>3 DEF AskLobby, LobbySays, Proxy, OpenList
  <2>12. List(u) \/ Close(u) \/ EndCapture(u) => \E s : Does(u, s)
    BY <2>2, <2>3, <2>5 DEF List, Lists, Close, EndCapture
  <2> QED
    BY <2>6, <2>7, <2>8, <2>9, <2>10, <2>11, <2>12 DEF Step
<1>2. op'[t] = op[t]
  BY <1>1 DEF IInv, TypeOK, Does
<1> QED
  BY <1>2 DEF Ends

LEMMA Finishes == ASSUME IInv, Serial, [Next]_vars, NEW t \in Threads, Ends(t) PROVE Finished(t)
<1>1. op' # op
  BY DEF Ends
<1>2. ~Machine
  <2>1. ~GameOpens
    <3>1. SUFFICES ASSUME GameOpens PROVE FALSE
      OBVIOUS
    <3>2. op'[t].pc = op[t].pc
      <4>1. op[t] \in Steps
        BY DEF IInv, TypeOK
      <4>2. op'[t] = [op[t] EXCEPT !.mixed = op[t].mixed \/ op[t].ours]
        BY <3>1 DEF GameOpens
      <4> QED
        BY <4>1, <4>2 DEF Steps
    <3> QED
      BY <3>2 DEF Ends
  <2> QED
    BY <1>1, <2>1 DEF Machine, Comes, Boots, Answers, InSession, Captured, Moves, GameCloses, ServerListens,
           Around, driveVars
<1>3. ASSUME NEW x \in Fetchers PROVE ~(Lobby(x) \/ AsksList(x) \/ HasList(x))
  BY <1>1 DEF Lobby, AsksList, HasList, driveVars
<1>4. ASSUME NEW c \in Clients PROVE ~(Handler(c) \/ AskStop(c) \/ \E kind \in left.kinds : AskDrive(c, kind))
  <2>1. ~AskStop(c) /\ ~Refuse(c) /\ ~Stop(c) /\ \A kind \in left.kinds : ~AskDrive(c, kind)
    BY <1>1 DEF AskStop, Refuse, Stop, AskDrive
  <2>2. ASSUME NEW u \in Threads PROVE ~Queue(c, u)
    <3>1. SUFFICES ASSUME Queue(c, u) PROVE FALSE
      OBVIOUS
    <3>2. op[u].pc = "idle" /\ \E s : Does(u, s) /\ s.pc = "begin"
      <4>1. PICK s : s = [Resting EXCEPT !.kind = req[c], !.pc = "begin"]
        OBVIOUS
      <4>2. s.pc = "begin"
        BY <4>1 DEF Resting
      <4> QED
        BY <3>1, <4>1, <4>2 DEF Queue, Queues, At
    <3> QED
      BY <3>2 DEF IInv, TypeOK, Does, Ends
  <2> QED
    BY <2>1, <2>2 DEF Handler
<1>5. ~UNCHANGED vars
  BY <1>1 DEF vars, driveVars
<1>6. ASSUME NEW u \in Threads PROVE ~(Home(u) \/ AsksAgain(u))
  BY <1>1 DEF Home, AsksAgain
<1>7. PICK u \in Threads : Step(u)
  BY <1>2, <1>3, <1>4, <1>5, <1>6 DEF Next
<1>8. u = t
  BY <1>7, OthersLeave
<1> QED
  BY <1>7, <1>8, StepFinishes

LEMMA EndIs ==
  ASSUME IInv, NEW t \in Threads, NEW phase, End(t, phase)
  PROVE  job'.phase = phase
  BY DEF IInv, TypeOK, End, Set, Jobs

LEMMA FitsNow ==
  ASSUME IInv, Serial, NEW t \in Threads
  PROVE  Place(op[t]) /\ NoteOf(t, op[t]) /\ GameOf(t, op[t]) /\ ListOf(t, op[t])
  BY DEF IInv, Orderly, Fits

\* A job ends as stopped only if Stop was pressed on that job.
THEOREM StopsOwnAlways == Spec => StopsOwn
<1>1. ASSUME IInv, [Next]_vars, Serial, NEW t \in Threads, Ends(t), job'.phase = "cancelled" PROVE pressed
  <2>1. Finished(t)
    BY <1>1, Finishes
  <2>2. CASE job.cancel
    <3>1. job.phase \notin Terminal
      BY <1>1, Others DEF Ends, At
    <3> QED
      BY <1>1, <2>2, <3>1 DEF IInv, Orderly, OwnStop
  <2>3. CASE End(t, op[t].out)
    BY <1>1, <2>3, EndIs, FitsNow DEF Place
  <2>4. ~End(t, "launched") /\ ~End(t, "failed")
    BY <1>1, EndIs
  <2> QED
    BY <2>1, <2>2, <2>3, <2>4 DEF Finished
<1>2. IInv /\ [Next]_vars => [Serial => \A t \in Threads : (Ends(t) /\ job'.phase = "cancelled") => pressed]_vars
  BY <1>1
<1> QED
  BY <1>2, Invariant, PTL DEF Spec, StopsOwn

\* A capture closes no game but its own, unless it has the list or the player's came beside it, and leaves
\* none behind that it launched and saw, unless that would not even be killed.
THEOREM CaptureTidyAlways == Spec => CaptureTidy
<1>1. ASSUME IInv, Serial, NEW t \in Threads, op[t].pc = "close", Up
      PROVE  game.by = t \/ op[t].out = "launched" \/ op[t].mixed
  BY <1>1, FitsNow DEF Place, GameOf, Up
<1>2. ASSUME IInv, [Next]_vars, Serial, NEW t \in Threads, Ends(t), op[t].ours, op[t].saw
      PROVE  ~(Up /\ game.by = t) \/ op[t].clung
  <2>1. Finished(t)
    BY <1>2, Finishes
  <2>2. At(t, "end") => ~(Up /\ game.by = t) \/ op[t].clung
    BY <1>2, FitsNow, ConstantsAssumption DEF GameOf, At, Up
  <2>3. ~At(t, "fetch") /\ op[t].kind = "capture"
    BY <1>2, FitsNow DEF Place, At, Capturing
  <2> QED
    BY <1>2, <2>1, <2>2, <2>3 DEF Finished
<1>3. IInv /\ [Next]_vars =>
        [Serial => \A t \in Threads :
            /\ (op[t].pc = "close" /\ op'[t].pc = "end" /\ Up) => (game.by = t \/ op[t].out = "launched" \/ op[t].mixed)
            /\ (Ends(t) /\ op[t].ours /\ op[t].saw) => (~(Up /\ game.by = t) \/ op[t].clung)]_vars
  BY <1>1, <1>2
<1> QED
  BY <1>3, Invariant, PTL DEF Spec, CaptureTidy

\* A capture that ends well has a list from after it was asked for.
THEOREM CaptureFreshAlways == Spec => CaptureFresh
<1>1. ASSUME IInv, [Next]_vars, Serial, late = left.late, NEW t \in Threads, Ends(t), op[t].kind = "capture",
             job'.phase = "launched"
      PROVE  list = "new"
  <2>1. Finished(t)
    BY <1>1, Finishes
  <2>2. At(t, "end") /\ End(t, op[t].out) => list = "new"
    BY <1>1, EndIs, FitsNow DEF ListOf
  <2>3. fetch[t].pc = "answer" /\ fetch[t].ok => list = "new"
    BY <1>1, FitsNow DEF ListOf, InTime
  <2>4. ~End(t, "cancelled") /\ ~End(t, "failed")
    BY <1>1, EndIs
  <2> QED
    BY <1>1, <2>1, <2>2, <2>3, <2>4 DEF Finished
<1>2. IInv /\ [Next]_vars =>
        [(Serial /\ late = left.late) =>
            \A t \in Threads : (Ends(t) /\ op[t].kind = "capture" /\ job'.phase = "launched") => list = "new"]_vars
  BY <1>1
<1> QED
  BY <1>2, Invariant, PTL DEF Spec, CaptureFresh
=============================================================================
