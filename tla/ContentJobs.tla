---------------------------- MODULE ContentJobs ----------------------------
(***************************************************************************)
(* jobs.rs: the one content job behind the app's progress bar, and what it *)
(* runs - contentsync::plan and install_files_with, the re-registration of *)
(* imported tracks, a push to a remote ACECM.  A request handler looks at  *)
(* JOB, plans over the network, then begins the job and leaves it to a     *)
(* thread; JOB is locked for each access, never from one to the next.      *)
(***************************************************************************)
EXTENDS FiniteSets, Naturals

CONSTANTS
    Reqs,       \* requests, each with the thread it starts
    Files,      \* files of a track the host shares
    Extras,     \* files in that folder the host no longer has
    Kinds,      \* requests made: "install", "restore", "push"
    MaxFaults   \* bound: downloads, packs and pushes that fail

ASSUME KindsAssumption ==
    /\ Kinds \subseteq {"install", "restore", "push"}
    /\ MaxFaults \in Nat

VARIABLES
    job,        \* JOB: its state, whether "_error" and "warning" are set, and whether it was
                \* ever taken from a thread at work
    local,      \* what is at each file's place: nothing, other bytes, the host's bytes
    extras,     \* the extra files still here
    registered, \* the client's tables have the track
    game,       \* the game is running: content.kspkg is locked
    pc,
    w,          \* a request's plan, and what its thread has done of it
    faults

vars == <<job, local, extras, registered, game, pc, w, faults>>

Idle == [kind |-> "push", need |-> {}, rest |-> {}, stale |-> {}, failed |-> FALSE]

Init ==
    /\ job = [state |-> "idle", error |-> FALSE, warning |-> FALSE, taken |-> FALSE]
    /\ local \in [Files -> {"none", "other"}]
    /\ extras = Extras
    /\ registered = FALSE
    /\ game \in BOOLEAN
    /\ pc = [r \in Reqs |-> "idle"]
    /\ w = [r \in Reqs |-> Idle]
    /\ faults = 0

Goto(r, label) == pc' = [pc EXCEPT ![r] = label]
Fault  == faults < MaxFaults /\ faults' = faults + 1

-----------------------------------------------------------------------------
(* The request *)

Ask(r) ==
    /\ pc[r] = "idle"
    /\ \E k \in Kinds : w' = [w EXCEPT ![r] = [Idle EXCEPT !.kind = k]]
    /\ Goto(r, "check")
    /\ UNCHANGED <<job, local, extras, registered, game, faults>>

\* running(): "an install is already running".
Check(r) ==
    /\ pc[r] = "check"
    /\ Goto(r, IF job.state = "running" THEN "idle" ELSE "plan")
    /\ UNCHANGED <<job, local, extras, registered, game, w, faults>>

\* Mutant: files here and no table row means "you already have everything".
Plan_NoRegister(r) ==
    /\ pc[r] = "plan" /\ w[r].kind = "install"
    /\ LET need == {f \in Files : local[f] # "good"}
       IN  /\ w' = [w EXCEPT ![r].need = need, ![r].rest = need, ![r].stale = extras]
           /\ Goto(r, IF need # {} THEN "begin" ELSE IF extras # {} THEN "drop" ELSE "idle")
    /\ UNCHANGED <<job, local, extras, registered, game, faults>>

\* contentsync::plan compares each file here with the host's digest; a track that is
\* here and not in the client's table is to be registered.
Plan(r) ==
    /\ pc[r] = "plan" /\ w[r].kind = "install"
    /\ LET need == {f \in Files : local[f] # "good"}
           reg  == ~registered /\ \E f \in Files : local[f] # "none"
       IN  /\ w' = [w EXCEPT ![r].need = need, ![r].rest = need, ![r].stale = extras]
           /\ Goto(r, IF need # {} \/ reg THEN "begin"
                      ELSE IF extras # {} THEN "drop" ELSE "idle")
    /\ UNCHANGED <<job, local, extras, registered, game, faults>>

\* missing_from_client: folders that are here and not in the table.
PlanRestore(r) ==
    /\ pc[r] = "plan" /\ w[r].kind = "restore"
    /\ Goto(r, IF ~registered /\ \E f \in Files : local[f] # "none" THEN "begin" ELSE "idle")
    /\ UNCHANGED <<job, local, extras, registered, game, w, faults>>

PlanPush(r) ==
    /\ pc[r] = "plan" /\ w[r].kind = "push"
    /\ Goto(r, "begin")
    /\ UNCHANGED <<job, local, extras, registered, game, w, faults>>

\* The host cannot be reached, the profile is gone, or the disk has no room.
PlanFails(r) ==
    /\ pc[r] = "plan" /\ Fault
    /\ Goto(r, "idle")
    /\ UNCHANGED <<job, local, extras, registered, game, w>>

\* Nothing to download: the stale files go at once, without a job.
DropNow(r) ==
    /\ pc[r] = "drop"
    /\ extras' = extras \ w[r].stale
    /\ Goto(r, "idle")
    /\ UNCHANGED <<job, local, registered, game, w, faults>>

\* begin() takes JOB whatever it holds - it was looked at before the plan was made; then the
\* thread is spawned.
Begin(r) ==
    /\ pc[r] = "begin"
    /\ job' = [state |-> "running", error |-> FALSE, warning |-> FALSE,
               taken |-> job.taken \/ job.state = "running"]
    /\ Goto(r, IF w[r].kind # "install" THEN w[r].kind
               ELSE IF w[r].need = {} THEN "register" ELSE "pack")
    /\ UNCHANGED <<local, extras, registered, game, w, faults>>

-----------------------------------------------------------------------------
(* The thread: install_files_with *)

\* A compressed package or a track pack brings all of the files, if the host has one.
Pack(r) ==
    /\ pc[r] = "pack"
    /\ local' = [f \in Files |-> IF f \in w[r].need THEN "good" ELSE local[f]]
    /\ w' = [w EXCEPT ![r].rest = {}]
    /\ Goto(r, "register")
    /\ UNCHANGED <<job, extras, registered, game, faults>>

\* No pack, or one that breaks off after some of its files: one file at a time.
NoPack(r) ==
    /\ pc[r] = "pack"
    /\ \/ UNCHANGED <<local, faults>>
       \/ /\ Fault
          /\ \E done \in SUBSET w[r].need :
                local' = [f \in Files |-> IF f \in done THEN "good" ELSE local[f]]
    /\ Goto(r, "fetch")
    /\ UNCHANGED <<job, extras, registered, game, w>>

\* Mutant: the .part file is renamed before its digest is checked.
Fetch_Unchecked(r) ==
    /\ pc[r] = "fetch"
    /\ \E f \in w[r].rest, bytes \in {"good", "other"} :
        /\ local' = [local EXCEPT ![f] = bytes]
        /\ w' = [w EXCEPT ![r].rest = @ \ {f}]
    /\ UNCHANGED <<job, extras, registered, game, pc, faults>>

\* One of the parallel workers: to .part, checked, renamed.
Fetch(r) ==
    /\ pc[r] = "fetch"
    /\ \E f \in w[r].rest :
        /\ local' = [local EXCEPT ![f] = "good"]
        /\ w' = [w EXCEPT ![r].rest = @ \ {f}]
    /\ UNCHANGED <<job, extras, registered, game, pc, faults>>

FetchFails(r) ==
    /\ pc[r] = "fetch"
    /\ Fault
    /\ \E f \in w[r].rest : w' = [w EXCEPT ![r].rest = @ \ {f}, ![r].failed = TRUE]
    /\ UNCHANGED <<job, local, extras, registered, game, pc>>

\* Mutant: the first error is logged and the job goes on.
Fetched_Ignored(r) ==
    /\ pc[r] = "fetch" /\ w[r].rest = {}
    /\ Goto(r, "register")
    /\ UNCHANGED <<job, local, extras, registered, game, w, faults>>

\* All workers are back: the first error, if any, is left in JOB as "_error".
Fetched(r) ==
    /\ pc[r] = "fetch" /\ w[r].rest = {}
    /\ job' = IF w[r].failed THEN [job EXCEPT !.error = TRUE] ELSE job
    /\ Goto(r, IF w[r].failed THEN "error?" ELSE "register")
    /\ UNCHANGED <<local, extras, registered, game, w, faults>>

\* register_client_track writes the client's tables; refused while the game runs.
Register(r) ==
    /\ pc[r] = "register"
    /\ registered' = (registered \/ ~game)
    /\ job' = IF game THEN [job EXCEPT !.warning = TRUE] ELSE job
    /\ Goto(r, IF w[r].need = {} THEN "finish" ELSE "error?")
    /\ UNCHANGED <<local, extras, game, w, faults>>

\* The thread of install_content looks for "_error" in JOB.
ReadError(r) ==
    /\ pc[r] = "error?"
    /\ Goto(r, IF job.error THEN "fail" ELSE "stale")
    /\ UNCHANGED <<job, local, extras, registered, game, w, faults>>

Fail(r) ==
    /\ pc[r] = "fail"
    /\ job' = [job EXCEPT !.state = "error"]
    /\ Goto(r, "idle")
    /\ UNCHANGED <<local, extras, registered, game, w, faults>>

DropStale(r) ==
    /\ pc[r] = "stale"
    /\ extras' = extras \ w[r].stale
    /\ Goto(r, "finish")
    /\ UNCHANGED <<job, local, registered, game, w, faults>>

\* Mutant: files without their table row count as done.
Finish_WarningIsDone(r) ==
    /\ pc[r] = "finish"
    /\ job' = [job EXCEPT !.state = "done"]
    /\ Goto(r, "idle")
    /\ UNCHANGED <<local, extras, registered, game, w, faults>>

\* A warning is an error only when the table was all there was to write.
Finish(r) ==
    /\ pc[r] = "finish"
    /\ job' = [job EXCEPT !.state = IF w[r].need = {} /\ job.warning THEN "error" ELSE "done"]
    /\ Goto(r, "idle")
    /\ UNCHANGED <<local, extras, registered, game, w, faults>>

\* tracks_restore and push_send.
Restore(r) ==
    /\ pc[r] = "restore"
    /\ registered' = (registered \/ ~game)
    /\ job' = [job EXCEPT !.state = IF game THEN "error" ELSE "done"]
    /\ Goto(r, "idle")
    /\ UNCHANGED <<local, extras, game, w, faults>>

Push(r) ==
    /\ pc[r] = "push"
    /\ \/ job' = [job EXCEPT !.state = "done"] /\ UNCHANGED faults
       \/ job' = [job EXCEPT !.state = "error"] /\ Fault
    /\ Goto(r, "idle")
    /\ UNCHANGED <<local, extras, registered, game, w>>

\* The player closes the game; the archive can be written again.
CloseGame ==
    /\ game
    /\ game' = FALSE
    /\ UNCHANGED <<job, local, extras, registered, pc, w, faults>>

Step(r) ==
    \/ Check(r) \/ Plan(r) \/ PlanRestore(r) \/ PlanPush(r) \/ DropNow(r) \/ Begin(r)
    \/ Pack(r) \/ NoPack(r) \/ Fetch(r) \/ Fetched(r) \/ Register(r) \/ ReadError(r)
    \/ Fail(r) \/ DropStale(r) \/ Finish(r) \/ Restore(r) \/ Push(r)

Next ==
    \/ \E r \in Reqs : Ask(r) \/ Step(r) \/ PlanFails(r) \/ FetchFails(r)
    \/ CloseGame

Spec == Init /\ [][Next]_vars

\* Handlers and threads that are scheduled go on.
FairSpec == Spec /\ \A r \in Reqs : WF_vars(Step(r))

\* The player closes the game and presses Get content until there is nothing to get.
PatientSpec == FairSpec /\ WF_vars(CloseGame) /\ \A r \in Reqs : WF_vars(Ask(r))
-----------------------------------------------------------------------------
(* Properties *)

\* Every variable stays in its domain.
TypeOK ==
    /\ job \in [state : {"idle", "running", "done", "error"}, error : BOOLEAN, warning : BOOLEAN,
               taken : BOOLEAN]
    /\ local \in [Files -> {"none", "other", "good"}]
    /\ extras \subseteq Extras
    /\ registered \in BOOLEAN /\ game \in BOOLEAN
    /\ pc \in [Reqs -> {"idle", "check", "plan", "begin", "drop", "pack", "fetch", "register",
                        "error?", "fail", "stale", "finish", "restore", "push"}]
    /\ w \in [Reqs -> [kind : {"install", "restore", "push"}, need : SUBSET Files,
                       rest : SUBSET Files, stale : SUBSET Extras, failed : BOOLEAN]]
    /\ faults \in 0..MaxFaults

\* "a failed install must not leave files deleted" (jobs.rs): unless a request that planned beside
\* another's took JOB, with "_error" in it, from a thread at work, a thread that goes on to the
\* stale files has all of its downloads.
NoDeleteAfterFailure == job.taken \/ \A r \in Reqs : pc[r] \in {"stale", "finish"} => ~w[r].failed

\* A job that ends as done has brought every file it planned, with the host's bytes, and the
\* game's tables have the track or the job carries the warning; until JOB is taken from a thread.
HonestEnd ==
    [][\A r \in Reqs : ~job.taken /\ pc[r] \in {"finish", "fail"} /\ pc'[r] = "idle" /\ job'.state = "done"
          => /\ \A f \in w[r].need : local'[f] = "good"
             /\ registered' \/ (w[r].need # {} /\ job'.warning)]_vars

\* Once nothing but Get content is asked for, pressing it again completes what failed:
\* files, table row, clean-up.
Converges ==
    <>[](\A r \in Reqs : pc[r] = "idle" \/ w[r].kind = "install")
      => <>[](registered /\ extras = {} /\ \A f \in Files : local[f] = "good")
=============================================================================
