----------------------------- MODULE LobbyFetch -----------------------------
(***************************************************************************)
(* backend.rs: the public list asked of the lobby by a helper process      *)
(* (lobbyfetch.rs), one at a time: who asks while one runs waits on a      *)
(* condition variable for its result, or is told that it is busy.          *)
(***************************************************************************)
EXTENDS Naturals

CONSTANTS Fetchers   \* threads that may be inside lobby_fetch

VARIABLES
    lobby,   \* LOBBY: a fetch runs, and the result of the last one
    list,    \* server_list.json is from before, or since, the last capture was asked for
    fetch,   \* what each thread in lobby_fetch is doing
    late     \* bound: waits that outlast the fetch they are for

lobbyVars == <<lobby, list, fetch, late>>

Away == [pc |-> "idle", wait |-> FALSE, ok |-> FALSE]

InitLobby ==
    /\ lobby = [running |-> FALSE, last |-> "none"] /\ list = "old"
    /\ fetch = [x \in Fetchers |-> Away]

Goes(x, pc)     == fetch' = [fetch EXCEPT ![x].pc = pc]
Answered(x, ok) == fetch' = [fetch EXCEPT ![x] = [@ EXCEPT !.pc = "answer", !.ok = ok]]

\* Not while the game runs.
AskFetch(x, wait, playing) ==
    /\ fetch[x].pc = "idle"
    /\ fetch' = [fetch EXCEPT ![x] = [pc |-> IF playing THEN "answer" ELSE "lock", wait |-> wait, ok |-> FALSE]]
    /\ UNCHANGED <<lobby, list, late>>

\* Single flight.  An answer that is busy is no answer for who asked.
Enter(x) ==
    /\ fetch[x].pc = "lock" /\ ~lobby.running
    /\ lobby' = [lobby EXCEPT !.running = TRUE] /\ Goes(x, "fetch")
    /\ UNCHANGED <<list, late>>

\* Mutant: a second caller is given the last result at once.
Busy_Hasty(x) ==
    /\ fetch[x].pc = "lock" /\ lobby.running
    /\ Answered(x, lobby.last = "ok") /\ UNCHANGED <<lobby, list, late>>

Busy(x) ==
    /\ fetch[x].pc = "lock" /\ lobby.running
    /\ IF fetch[x].wait THEN Goes(x, "wait") ELSE Answered(x, FALSE)
    /\ UNCHANGED <<lobby, list, late>>

Woken(x) ==
    /\ fetch[x].pc = "wait" /\ ~lobby.running
    /\ Answered(x, lobby.last = "ok") /\ UNCHANGED <<lobby, list, late>>

\* Who waits too long is answered with what the fetch before ended with.
WaitsTooLong(x) ==
    /\ fetch[x].pc = "wait" /\ lobby.running /\ late > 0
    /\ late' = late - 1 /\ Answered(x, lobby.last = "ok") /\ UNCHANGED <<lobby, list>>

\* The helper: the list is written, renamed into place and only then reported.
Helper(x) ==
    /\ fetch[x].pc = "fetch"
    /\ \/ list' = "new" /\ Goes(x, "written")
       \/ Goes(x, "failed") /\ UNCHANGED list
    /\ UNCHANGED <<lobby, late>>

\* Its report, or its end by the time limit.
Collect(x) ==
    /\ fetch[x].pc = "written"
    /\ \E pc \in {"ok", "failed"} : Goes(x, pc)
    /\ UNCHANGED <<lobby, list, late>>

Report(x) ==
    /\ fetch[x].pc \in {"ok", "failed"}
    /\ lobby' = [running |-> FALSE, last |-> fetch[x].pc]
    /\ Answered(x, fetch[x].pc = "ok") /\ UNCHANGED <<list, late>>

Fetches(x) == Enter(x) \/ Busy(x) \/ Woken(x) \/ WaitsTooLong(x) \/ Helper(x) \/ Collect(x) \/ Report(x)

\* A capture looks back three seconds: a list just written, and not reported yet, is new to it.
Ages == list' = IF \E x \in Fetchers : fetch[x].pc \in {"written", "ok"} THEN list ELSE "old"
Takes(x) == fetch' = [fetch EXCEPT ![x] = Away]
=============================================================================
