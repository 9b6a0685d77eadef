--------------------------- MODULE UpdaterProofs ---------------------------
(* Proofs about Updater, for any number of releases, requests, downloads,    *)
(* processes, scripts and mishaps: one swap script at a time while the       *)
(* pending flag is written in time, and, while no second update is begun     *)
(* beside a waiting one, a build that starts in one of the two places, the   *)
(* right build and version after a rollback, and the promise of Installed.   *)
EXTENDS Updater, FiniteSetTheorems, TLAPS

(* Types.                                                                   *)

Good   == Builds \ Broken
Places == Builds \cup {NoFile, Torn}
Marks  == Builds \cup {Torn}
Kinds  == {"cut", "fault", "flag", "copy", "mark", "late", "second"}
AppPart == [st : {"boot", "bound", "serving", "quitting"}, img : Builds, path : {"exe", "old"},
            ok : Scripts \cup {None}, handover : BOOLEAN]
Apps   == {Off} \cup AppPart
Plain  == [pc : {"claim", "fetch", "answer"}, pid : Pids]
Loaded == [pc : {"verify", "script", "run", "flag", "answer"}, pid : Pids, build : Releases]
Asks   == {Resting} \cup Plain \cup Loaded
LinePcs == {"wait", "kill", "swap", "place", "restore", "restoring", "mark", "start", "waitok",
            "rollback", "rolling back", "unmark", "start old", "giveup", "upok", "done"}
Waiting == [pc : LinePcs, pid : Pids, ver : Releases, was : Places, said : Marks]
Swaps  == {NoScript} \cup Waiting
Lefts  == [applies : Nat, mishaps : Nat, had : SUBSET Kinds]

TypeOK ==
    /\ exe \in Places /\ old \in Places /\ new \in Places
    /\ marker \in Marks /\ prev \in Marks \cup {NoFile}
    /\ pending \in BOOLEAN /\ applying \in BOOLEAN
    /\ app \in [Pids -> Apps] /\ script \in [Scripts -> Swaps] /\ c \in [Askers -> Asks]
    /\ left \in Lefts

(* What a step does to one request, one script, the processes and the bounds. *)

Spent == left' \in Lefts /\ left.had \subseteq left'.had
OthersAsk(k)    == c' \in [Askers -> Asks] /\ \A l \in Askers : l # k => c'[l] = c[l]
OthersSwap(s)   == script' \in [Scripts -> Swaps] /\ \A t \in Scripts : t # s => script'[t] = script[t]
Goes(s, pc) ==
    /\ OthersSwap(s) /\ script'[s].pc = pc
    /\ script'[s].pid = script[s].pid /\ script'[s].ver = script[s].ver
    /\ script'[s].was = script[s].was /\ script'[s].said = script[s].said
    /\ Active' = Active

LEMMA MishapSpent ==
    ASSUME TypeOK, NEW what \in Kinds, Mishap(what)
    PROVE  /\ Spent /\ left.mishaps > 0 /\ left'.mishaps = left.mishaps - 1
           /\ left'.had = left.had \cup {what}
  <1>1. /\ left.applies \in Nat /\ left.mishaps \in Nat /\ left.had \in SUBSET Kinds
        /\ left.mishaps > 0 /\ left'.applies = left.applies
        /\ left'.mishaps = left.mishaps - 1 /\ left'.had = left.had \cup {what}
        /\ left' = [applies |-> left'.applies, mishaps |-> left'.mishaps, had |-> left'.had]
    BY DEF TypeOK, Mishap, Lefts
  <1>2. left'.had \in SUBSET Kinds /\ left'.mishaps \in Nat /\ left'.applies \in Nat
    BY <1>1
  <1>3. left' \in Lefts
    BY <1>1, <1>2, Zenon DEF Lefts
  <1> QED
    BY <1>1, <1>3 DEF Spent

LEMMA FaultSpent == ASSUME TypeOK, Fault PROVE Spent /\ left'.had = left.had \cup {"fault"}
  BY MishapSpent DEF Fault, Kinds

LEMMA DownloadSpent == ASSUME TypeOK, Download PROVE Spent /\ left'.had = left.had
  BY DEF TypeOK, Download, Spent, Lefts

LEMMA NoneSpent == ASSUME TypeOK, UNCHANGED left PROVE Spent
  BY DEF TypeOK, Spent

LEMMA NotedSpent ==
    ASSUME TypeOK, NEW what \in Kinds, NEW when, Noted(what, when)
    PROVE  /\ Spent /\ left'.mishaps = left.mishaps
           /\ left'.had = IF when THEN left.had \cup {what} ELSE left.had
  <1> DEFINE had == IF when THEN left.had \cup {what} ELSE left.had
  <1>1. left' = [left EXCEPT !.had = had]
    BY DEF Noted
  <1>2. left.had \subseteq had /\ had \in SUBSET Kinds
    BY DEF TypeOK, Lefts
  <1> HIDE DEF had
  <1>3. left' \in Lefts /\ left'.had = had /\ left'.mishaps = left.mishaps
    BY <1>1, <1>2 DEF TypeOK, Lefts
  <1> QED
    BY <1>2, <1>3 DEF Spent, had

LEMMA DoesAsk ==
    ASSUME TypeOK, NEW k \in Askers, NEW step \in Asks, Does(k, step)
    PROVE  OthersAsk(k) /\ c'[k] = step
  BY DEF TypeOK, Does, OthersAsk

LEMMA DoesRest ==
    ASSUME TypeOK, NEW k \in Askers, Does(k, Resting)
    PROVE  OthersAsk(k) /\ c'[k] = Resting
  <1>1. Resting \in Asks
    BY Zenon DEF Asks
  <1> QED
    BY <1>1, DoesAsk

\* What a request carries.
LEMMA AskParts ==
    ASSUME TypeOK, NEW k \in Askers, c[k].pc # "idle"
    PROVE  /\ c[k] \in Plain \/ c[k] \in Loaded
           /\ c[k].pid \in Pids
           /\ c[k].pc \in {"claim", "fetch", "verify", "script", "run", "flag", "answer"}
           /\ c[k].pc \in {"claim", "fetch"} => c[k] \in Plain
           /\ c[k].pc \in {"verify", "script", "run", "flag"} => c[k] \in Loaded /\ c[k].build \in Releases
  <1>1. c[k] \in Plain \/ c[k] \in Loaded
    BY DEF TypeOK, Asks, Resting
  <1> QED
    BY <1>1 DEF Plain, Loaded

LEMMA ThenAnswer ==
    ASSUME TypeOK, NEW k \in Askers, ~At(k, "idle"), Then(k, "answer")
    PROVE  OthersAsk(k) /\ c'[k].pc = "answer" /\ c'[k].pid = c[k].pid
  <1> DEFINE step == [c[k] EXCEPT !.pc = "answer"]
  <1>1. c[k] \in Plain \/ c[k] \in Loaded
    BY AskParts DEF At
  <1>2. step \in Asks /\ step.pc = "answer" /\ step.pid = c[k].pid
    BY <1>1 DEF Asks, Plain, Loaded
  <1>3. Does(k, step)
    BY DEF Then
  <1> HIDE DEF step
  <1> QED
    BY <1>2, <1>3, DoesAsk

LEMMA ThenFetch ==
    ASSUME TypeOK, NEW k \in Askers, At(k, "claim"), Then(k, "fetch")
    PROVE  OthersAsk(k) /\ c'[k].pc = "fetch" /\ c'[k].pid = c[k].pid
  <1> DEFINE step == [c[k] EXCEPT !.pc = "fetch"]
  <1>1. c[k] \in Plain
    BY AskParts DEF At
  <1>2. step \in Asks /\ step.pc = "fetch" /\ step.pid = c[k].pid
    BY <1>1 DEF Asks, Plain
  <1>3. Does(k, step)
    BY DEF Then
  <1> HIDE DEF step
  <1> QED
    BY <1>2, <1>3, DoesAsk

LEMMA ThenBuild ==
    ASSUME TypeOK, NEW k \in Askers, c[k].pc \in {"verify", "script", "run", "flag"},
           NEW pc \in {"script", "run", "flag"}, Then(k, pc)
    PROVE  /\ OthersAsk(k) /\ c'[k].pc = pc /\ c'[k].pid = c[k].pid /\ c'[k].build = c[k].build
           /\ c[k].build \in Releases
  <1> DEFINE step == [c[k] EXCEPT !.pc = pc]
  <1>1. c[k] \in Loaded /\ c[k].build \in Releases
    BY AskParts
  <1>2. step \in Asks /\ step.pc = pc /\ step.pid = c[k].pid /\ step.build = c[k].build
    BY <1>1 DEF Asks, Loaded
  <1>3. Does(k, step)
    BY DEF Then
  <1> HIDE DEF step
  <1> QED
    BY <1>1, <1>2, <1>3, DoesAsk

LEMMA SwapParts ==
    ASSUME TypeOK, NEW s \in Scripts, script[s].pc # "none"
    PROVE  /\ script[s] \in Waiting
           /\ script[s].pc \in LinePcs /\ script[s].pid \in Pids /\ script[s].ver \in Releases
           /\ script[s].was \in Places /\ script[s].said \in Marks
  <1>1. script[s] \in Waiting
    BY DEF TypeOK, Swaps, NoScript
  <1> QED
    BY <1>1 DEF Waiting

LEMMA GoGoes ==
    ASSUME TypeOK, NEW s \in Scripts, script[s].pc # "none", NEW pc \in LinePcs, Go(s, pc)
    PROVE  Goes(s, pc)
  <1>1. script[s] \in Waiting
    BY SwapParts
  <1>2. /\ [script[s] EXCEPT !.pc = pc] \in Swaps
        /\ [script[s] EXCEPT !.pc = pc].pc = pc
        /\ [script[s] EXCEPT !.pc = pc].pid = script[s].pid
        /\ [script[s] EXCEPT !.pc = pc].ver = script[s].ver
        /\ [script[s] EXCEPT !.pc = pc].was = script[s].was
        /\ [script[s] EXCEPT !.pc = pc].said = script[s].said
    BY <1>1 DEF Swaps, Waiting
  <1>3. OthersSwap(s) /\ script'[s] = [script[s] EXCEPT !.pc = pc]
    BY <1>2 DEF TypeOK, Go, OthersSwap
  <1>4. "none" \notin LinePcs
    BY DEF LinePcs
  <1>5. Active' = Active
    BY <1>2, <1>3, <1>4 DEF Active, OthersSwap
  <1> QED
    BY <1>2, <1>3, <1>5 DEF Goes

\* A start, if it takes place, is of the installed build with a pid nothing waits for.
Started(pids) ==
    /\ app' \in [Pids -> Apps]
    /\ \/ app' = app
       \/ \E p \in pids :
            /\ exe \in Builds
            /\ app'[p].st = "boot" /\ app'[p].path = "exe" /\ app'[p].img = exe
            /\ \A q \in Pids : q # p => app'[q] = app[q]

LEMMA StartStarted ==
    ASSUME TypeOK, NEW pids \in SUBSET Pids, NEW ok \in Scripts \cup {None}, NEW handover \in BOOLEAN,
           Start(pids, ok, handover)
    PROVE  Started(pids)
  <1>1. CASE exe \in Builds
    <2> DEFINE p == CHOOSE p \in pids : TRUE
               born == [st |-> "boot", img |-> exe, path |-> "exe", ok |-> ok, handover |-> handover]
    <2>1. p \in pids /\ app' = [app EXCEPT ![p] = born]
      BY <1>1 DEF Start
    <2>2. born \in Apps
      BY <1>1 DEF Apps, AppPart
    <2> QED
      BY <1>1, <2>1, <2>2 DEF Started, TypeOK
  <1>2. CASE exe \notin Builds
    BY <1>2 DEF Start, Started, TypeOK
  <1> QED
    BY <1>1, <1>2

LEMMA FreePids == ASSUME NEW waited PROVE Free(waited) \in SUBSET Pids
  BY DEF Free

\* Processes end, and their requests with them.
Ended(gone) ==
    /\ app' \in [Pids -> Apps]
    /\ \A p \in Pids : app'[p] = IF p \in gone THEN Off ELSE app[p]
Dropped(gone) == c' = [k \in Askers |-> IF c[k].pc # "idle" /\ c[k].pid \in gone THEN Resting ELSE c[k]]

LEMMA DroppedAsk ==
    ASSUME TypeOK, NEW gone, Dropped(gone)
    PROVE  /\ c' \in [Askers -> Asks]
           /\ \A k \in Askers :
                \/ c'[k] = Resting /\ ~At(k, "idle") /\ c[k].pid \in gone
                \/ c'[k] = c[k] /\ (At(k, "idle") \/ c[k].pid \notin gone)
  <1>1. Resting \in Asks
    BY Zenon DEF Asks
  <1> QED
    BY <1>1 DEF TypeOK, Dropped, At

LEMMA OffEnded ==
    ASSUME TypeOK, NEW gone,
           \/ app' = [p \in Pids |-> IF p \in gone THEN Off ELSE app[p]]
           \/ \E p \in Pids : gone = {p} /\ app' = [app EXCEPT ![p] = Off]
    PROVE  Ended(gone)
  <1>1. Off \in Apps
    BY DEF Apps
  <1> QED
    BY <1>1 DEF TypeOK, Ended

LEMMA ThreadsDropped == ASSUME NEW gone, Threads(gone) PROVE Dropped(gone) /\ applying' \in BOOLEAN
  <1>1. applying' \in BOOLEAN
    BY Zenon DEF Threads
  <1> QED
    BY <1>1 DEF Threads, Dropped

\* A step of one process that neither ends nor moves it.
Turns(p, st) ==
    /\ app' \in [Pids -> Apps] /\ \A q \in Pids : q # p => app'[q] = app[q]
    /\ app'[p].st = st /\ app'[p].img = app[p].img /\ app'[p].path = app[p].path

LEMMA AppParts ==
    ASSUME TypeOK, NEW p \in Pids, app[p].st # "off"
    PROVE  app[p] \in AppPart /\ app[p].img \in Builds /\ app[p].path \in {"exe", "old"}
  <1>1. app[p] \in AppPart
    BY DEF TypeOK, Apps, Off
  <1> QED
    BY <1>1 DEF AppPart

LEMMA TurnTurns ==
    ASSUME TypeOK, NEW p \in Pids, app[p].st # "off", NEW st \in {"bound", "serving", "quitting"},
           app' = [app EXCEPT ![p].st = st]
    PROVE  Turns(p, st)
  <1>1. app[p] \in AppPart
    BY AppParts
  <1>2. [app[p] EXCEPT !.st = st] \in Apps
    BY <1>1 DEF Apps, AppPart
  <1> QED
    BY <1>1, <1>2 DEF TypeOK, Turns, AppPart

(* Each step keeps the types.                                                *)

LEMMA AskApplyTyped == ASSUME TypeOK, NEW k \in Askers, AskApply(k) PROVE TypeOK'
  <1>1. PICK p \in FromExe : Serving(p) /\ Does(k, [pc |-> "claim", pid |-> p])
    BY DEF AskApply
  <1>2. p \in Pids /\ [pc |-> "claim", pid |-> p] \in Asks
    BY DEF FromExe, Running, Asks, Plain
  <1>3. OthersAsk(k) /\ Spent
    BY <1>1, <1>2, DoesAsk, DownloadSpent DEF AskApply
  <1> QED
    BY <1>3 DEF AskApply, files, flags, TypeOK, OthersAsk, Spent

LEMMA ClaimTyped == ASSUME TypeOK, NEW k \in Askers, Claim(k) PROVE TypeOK'
  <1>1. OthersAsk(k)
    <2>1. CASE Does(k, Resting)
      BY <2>1, DoesRest
    <2>2. CASE Then(k, "fetch")
      BY <2>2, ThenFetch DEF Claim
    <2> QED
      BY <2>1, <2>2, Zenon DEF Claim
  <1>2. Spent
    BY NotedSpent DEF Claim, Kinds
  <1>3. applying' \in BOOLEAN
    BY Zenon DEF Claim
  <1> QED
    BY <1>1, <1>2, <1>3 DEF Claim, files, flags, TypeOK, OthersAsk, Spent

LEMMA FetchTyped == ASSUME TypeOK, NEW k \in Askers, Fetch(k) PROVE TypeOK'
  <1>1. PICK r \in Releases :
            /\ Does(k, [pc |-> "verify", pid |-> c[k].pid, build |-> r])
            /\ (new' = r /\ UNCHANGED left) \/ (new' = Torn /\ Fault)
    BY DEF Fetch
  <1>2. [pc |-> "verify", pid |-> c[k].pid, build |-> r] \in Asks
    BY AskParts DEF Asks, Loaded, Fetch, At
  <1>3. OthersAsk(k) /\ Spent /\ new' \in Places
    BY <1>1, <1>2, DoesAsk, NoneSpent, FaultSpent DEF Places, Builds
  <1> QED
    BY <1>3 DEF Fetch, flags, TypeOK, OthersAsk, Spent

\* A request that gives up has only its answer left.
LEMMA FailsTyped ==
    ASSUME TypeOK, NEW k \in Askers, FetchFails(k) \/ Verify(k) \/ WriteScript(k) \/ Flag(k) PROVE TypeOK'
  <1>1. CASE FetchFails(k)
    <2>1. OthersAsk(k) /\ Spent /\ new' \in Places
      BY <1>1, ThenAnswer, FaultSpent DEF FetchFails, At, Places, TypeOK
    <2> QED
      BY <1>1, <2>1 DEF FetchFails, flags, TypeOK, OthersAsk, Spent
  <1>2. CASE Verify(k)
    <2>1. OthersAsk(k)
      BY <1>2, ThenAnswer, ThenBuild DEF Verify, At
    <2>2. Spent /\ new' \in Places
      BY <1>2, NoneSpent DEF Verify, Places, TypeOK
    <2> QED
      BY <1>2, <2>1, <2>2 DEF Verify, flags, TypeOK, OthersAsk, Spent
  <1>3. CASE WriteScript(k)
    <2>1. OthersAsk(k)
      BY <1>3, ThenAnswer, ThenBuild DEF WriteScript, At
    <2>2. Spent
      BY <1>3, NoneSpent, FaultSpent DEF WriteScript
    <2> QED
      BY <1>3, <2>1, <2>2 DEF WriteScript, files, TypeOK, OthersAsk, Spent
  <1>4. CASE Flag(k)
    <2>1. OthersAsk(k)
      BY <1>4, ThenAnswer DEF Flag, At
    <2>2. Spent
      BY <1>4, NotedSpent, MishapSpent DEF Flag, Kinds
    <2>3. pending' \in BOOLEAN
      BY <1>4 DEF Flag, TypeOK
    <2> QED
      BY <1>4, <2>1, <2>2, <2>3 DEF Flag, files, TypeOK, OthersAsk, Spent
  <1> QED
    BY <1>1, <1>2, <1>3, <1>4

\* The script that RunScript starts.
LEMMA RunStarts ==
    ASSUME TypeOK, NEW k \in Askers, RunScript(k), ~UNCHANGED script
    PROVE  /\ \E s \in Scripts :
                /\ OthersSwap(s) /\ script[s].pc = "none"
                /\ script'[s].pc = "wait" /\ script'[s].pid = c[k].pid
                /\ script'[s].ver = c[k].build /\ script'[s].was = exe /\ script'[s].said = marker
           /\ Then(k, "flag") /\ UNCHANGED left
  <1> DEFINE swap == [pc |-> "wait", pid |-> c[k].pid, ver |-> c[k].build, was |-> exe, said |-> marker]
  <1>1. /\ Fresh # {} /\ script' = [script EXCEPT ![CHOOSE s \in Fresh : TRUE] = swap]
        /\ Then(k, "flag") /\ UNCHANGED left
    BY DEF RunScript
  <1>2. PICK s \in Fresh : script' = [script EXCEPT ![s] = swap]
    BY <1>1
  <1>3. s \in Scripts /\ script[s].pc = "none"
    BY DEF Fresh, Active
  <1>4. swap \in Swaps
    <2>1. c[k].pid \in Pids /\ c[k].build \in Releases
      BY AskParts DEF RunScript, At
    <2> QED
      BY <2>1 DEF Swaps, Waiting, LinePcs, TypeOK
  <1>5. /\ swap.pc = "wait" /\ swap.pid = c[k].pid /\ swap.ver = c[k].build /\ swap.was = exe
        /\ swap.said = marker
    OBVIOUS
  <1> HIDE DEF swap
  <1>6. OthersSwap(s) /\ script'[s] = swap
    BY <1>2, <1>3, <1>4 DEF TypeOK, OthersSwap
  <1> QED
    BY <1>1, <1>3, <1>5, <1>6

LEMMA RunScriptTyped == ASSUME TypeOK, NEW k \in Askers, RunScript(k) PROVE TypeOK'
  <1>1. script' \in [Scripts -> Swaps]
    BY RunStarts DEF OthersSwap, TypeOK
  <1>2. OthersAsk(k)
    BY ThenAnswer, ThenBuild DEF RunScript, At
  <1>3. Spent
    BY NoneSpent, FaultSpent DEF RunScript
  <1> QED
    BY <1>1, <1>2, <1>3 DEF RunScript, files, TypeOK, OthersAsk, Spent

LEMMA AnswerTyped == ASSUME TypeOK, NEW k \in Askers, Answer(k) PROVE TypeOK'
  <1>1. OthersAsk(k) /\ Spent
    BY DoesRest, NoneSpent DEF Answer
  <1>2. applying' \in BOOLEAN
    BY DEF Answer
  <1> QED
    BY <1>1, <1>2 DEF Answer, files, flags, TypeOK, OthersAsk, Spent

\* Processes, and a script's look at them.
LEMMA LeavesTyped ==
    ASSUME TypeOK, NEW gone, Ended(gone), Threads(gone), UNCHANGED <<files, flags, left>>,
           script' \in [Scripts -> Swaps]
    PROVE  TypeOK'
  BY ThreadsDropped, DroppedAsk DEF TypeOK, Ended, files, flags

LEMMA ProcessTyped ==
    ASSUME TypeOK, app' \in [Pids -> Apps], UNCHANGED <<files, script, ask>>, Spent, pending' \in BOOLEAN
    PROVE  TypeOK'
  BY DEF TypeOK, files, ask, Spent

LEMMA LiveTyped ==
    ASSUME TypeOK, NEW p \in Pids, Live(p) \/ Restart(p) \/ Close(p) PROVE TypeOK'
  <1>1. CASE Boot(p)
    <2>1. app' \in [Pids -> Apps]
      <3>1. CASE app' = [app EXCEPT ![p] = Off]
        BY <3>1, OffEnded DEF Ended
      <3>2. CASE app' = [app EXCEPT ![p].st = "bound"]
        BY <1>1, <3>2, TurnTurns DEF Boot, Turns
      <3> QED
        BY <1>1, <3>1, <3>2 DEF Boot
    <2>2. Spent
      BY <1>1, NoneSpent, FaultSpent DEF Boot, Confirm
    <2> QED
      BY <1>1, <2>1, <2>2, ProcessTyped DEF Boot, TypeOK
  <1>2. CASE Settle(p)
    <2>1. app' \in [Pids -> Apps]
      BY <1>2, TurnTurns DEF Settle, Turns
    <2>2. pending' \in BOOLEAN
      BY <1>2 DEF Settle
    <2> QED
      BY <1>2, <2>1, <2>2, NoneSpent, ProcessTyped DEF Settle
  <1>3. CASE Restart(p)
    <2>1. app' \in [Pids -> Apps]
      BY <1>3, TurnTurns DEF Restart, Serving, Turns
    <2> QED
      BY <1>3, <2>1, NoneSpent, ProcessTyped DEF Restart, flags, TypeOK
  <1>4. CASE Quit(p) \/ Close(p)
    <2>1. Ended({p}) /\ Threads({p})
      BY <1>4, OffEnded DEF Quit, Close, Leaves
    <2> QED
      BY <1>4, <2>1, LeavesTyped DEF Quit, Close, TypeOK
  <1>5. CASE Relaunch(p)
    <2>1. app' \in [Pids -> Apps]
      BY <1>5, StartStarted, FreePids DEF Relaunch, Started
    <2> QED
      BY <1>5, <2>1, NoneSpent, ProcessTyped DEF Relaunch, flags, TypeOK
  <1> QED
    BY <1>1, <1>2, <1>3, <1>4, <1>5 DEF Live

LEMMA OpenTyped == ASSUME TypeOK, Open PROVE TypeOK'
  <1>1. app' \in [Pids -> Apps]
    BY StartStarted, FreePids DEF Open, Started
  <1> QED
    BY <1>1, NoneSpent, ProcessTyped DEF Open, flags, TypeOK

LEMMA PowerCutTyped == ASSUME TypeOK, PowerCut PROVE TypeOK'
  <1>1. Spent
    BY MishapSpent DEF PowerCut, Kinds
  <1>2. Off \in Apps /\ NoScript \in Swaps /\ Resting \in Asks
    BY Zenon DEF Apps, Swaps, Asks
  <1>3. app' \in [Pids -> Apps] /\ script' \in [Scripts -> Swaps] /\ c' \in [Askers -> Asks]
    BY <1>2 DEF PowerCut
  <1>4. applying' \in BOOLEAN
    BY DEF PowerCut
  <1> QED
    BY <1>1, <1>3, <1>4 DEF PowerCut, files, flags, TypeOK, Spent

\* A line of the script that leaves the processes alone.
LEMMA FileLineTyped ==
    ASSUME TypeOK, script' \in [Scripts -> Swaps], UNCHANGED <<app, ask>>, Spent, pending' \in BOOLEAN,
           exe' \in Places, old' \in Places, new' \in Places,
           marker' \in Marks, prev' \in Marks \cup {NoFile}
    PROVE  TypeOK'
  BY DEF TypeOK, ask, Spent

\* Where a line leads.
LEMMA LineGoes ==
    ASSUME TypeOK, NEW s \in Scripts, NEW from \in LinePcs, On(s, from), NEW to \in LinePcs, Go(s, to)
    PROVE  Goes(s, to) /\ script' \in [Scripts -> Swaps]
  <1>1. script[s].pc # "none"
    BY DEF On, LinePcs
  <1> QED
    BY <1>1, GoGoes DEF Goes, OthersSwap

LEMMA MovedApps ==
    ASSUME TypeOK, app' = [p \in Pids |-> IF p \in FromExe THEN [app[p] EXCEPT !.path = "old"] ELSE app[p]],
           NEW p \in Pids
    PROVE  /\ app'[p] \in Apps /\ app'[p].st = app[p].st
           /\ p \in Running => app'[p].img = app[p].img /\ app'[p].path = "old"
  <1>1. app[p] \in Apps
    BY DEF TypeOK
  <1>2. CASE p \in FromExe
    <2>1. app[p] \in AppPart
      BY <1>2, AppParts DEF FromExe, Running
    <2>2. [app[p] EXCEPT !.path = "old"] \in Apps
      BY <2>1 DEF Apps, AppPart
    <2> QED
      BY <1>2, <2>1, <2>2 DEF AppPart
  <1>3. CASE p \notin FromExe
    <2>1. p \in Running => app[p].path = "old"
      BY <1>3, AppParts DEF FromExe, Running
    <2> QED
      BY <1>1, <1>3, <2>1
  <1> QED
    BY <1>2, <1>3

LEMMA LineTyped == ASSUME TypeOK, NEW s \in Scripts, Line(s) PROVE TypeOK'
  <1>0. {"wait", "kill", "swap", "place", "restore", "restoring", "mark", "start", "waitok",
         "rollback", "rolling back", "unmark", "start old", "giveup", "upok", "done"} \subseteq LinePcs
    BY DEF LinePcs
  <1> DEFINE Typed == script' \in [Scripts -> Swaps]
  <1>1. CASE Wait(s) \/ SeeOk(s) \/ NoOk(s) \/ UpOk(s)
    <2>1. Typed
      BY <1>0, <1>1, LineGoes DEF Wait, SeeOk, NoOk, UpOk
    <2>2. pending' \in BOOLEAN
      BY <1>1 DEF Wait, SeeOk, NoOk, UpOk, flags, TypeOK
    <2>3. UNCHANGED <<files, app, ask, left>>
      BY <1>1 DEF Wait, SeeOk, NoOk, UpOk
    <2> QED
      BY <2>1, <2>2, <2>3, NoneSpent, FileLineTyped DEF files, TypeOK
  <1>2. CASE KillHelpers(s)
    <2>1. Typed /\ Ended(FromExe) /\ Threads(FromExe)
      BY <1>0, <1>2, LineGoes, OffEnded DEF KillHelpers
    <2> QED
      BY <1>2, <2>1, LeavesTyped DEF KillHelpers
  <1>3. CASE MoveOld(s)
    <2>1. Typed
      BY <1>0, <1>3, LineGoes DEF MoveOld
    <2>2. app' \in [Pids -> Apps]
      <3>1. app' = [p \in Pids |-> IF p \in FromExe THEN [app[p] EXCEPT !.path = "old"] ELSE app[p]]
        BY <1>3 DEF MoveOld
      <3> QED
        BY <3>1, MovedApps
    <2> QED
      BY <1>3, <2>1, <2>2 DEF MoveOld, TypeOK, Places, flags, ask
  <1>4. CASE SwapGivesUp(s) \/ CopyRefused(s)
    <2>1. Typed
      BY <1>0, <1>4, LineGoes DEF SwapGivesUp, CopyRefused
    <2>2. Spent
      BY <1>4, NoneSpent, FaultSpent, MishapSpent DEF SwapGivesUp, CopyRefused, Kinds
    <2>3. UNCHANGED <<files, flags, app, ask>>
      BY <1>4 DEF SwapGivesUp, CopyRefused
    <2> QED
      BY <2>1, <2>2, <2>3, FileLineTyped DEF files, flags, TypeOK
  <1>5. CASE Place(s)
    <2>1. Typed
      BY <1>0, <1>5, LineGoes DEF Place
    <2>2. Spent
      BY <1>5, NoneSpent, FaultSpent DEF Place
    <2>3. exe' \in Places /\ new' \in Places
      BY <1>5 DEF Place, TypeOK, Places
    <2> QED
      BY <1>5, <2>1, <2>2, <2>3, FileLineTyped DEF Place, flags, TypeOK
  <1>6. CASE CopyOld(s) \/ Copied(s)
    <2>1. Typed
      BY <1>0, <1>6, LineGoes DEF CopyOld, Copied
    <2>2. Spent
      BY <1>6, NoneSpent, MishapSpent DEF CopyOld, Copied, Kinds
    <2>3. exe' \in Places
      BY <1>6 DEF CopyOld, Copied, TypeOK, Places
    <2>4. UNCHANGED <<old, new, marker, prev, flags, app, ask>>
      BY <1>6 DEF CopyOld, Copied
    <2> QED
      BY <2>1, <2>2, <2>3, <2>4, FileLineTyped DEF flags, TypeOK
  <1>7. CASE Mark(s)
    <2>1. Typed /\ script[s].ver \in Releases
      BY <1>0, <1>7, LineGoes, SwapParts DEF Mark, On
    <2>2. Spent
      BY <1>7, NoneSpent, MishapSpent DEF Mark, Kinds
    <2>3. marker' \in Marks /\ prev' \in Marks \cup {NoFile}
      BY <1>7, <2>1 DEF Mark, TypeOK, Marks, Builds
    <2> QED
      BY <1>7, <2>1, <2>2, <2>3, FileLineTyped DEF Mark, flags, TypeOK
  <1>8. CASE Unmark(s)
    <2>1. Typed
      BY <1>0, <1>8, LineGoes DEF Unmark
    <2>2. Spent
      BY <1>8, NoneSpent, MishapSpent DEF Unmark, Kinds
    <2>3. marker' \in Marks
      BY <1>8 DEF Unmark, TypeOK, Marks
    <2>4. pending' \in BOOLEAN
      BY <1>8 DEF Unmark
    <2> QED
      BY <1>8, <2>1, <2>2, <2>3, <2>4, FileLineTyped DEF Unmark, TypeOK
  <1>9. CASE StartNew(s) \/ StartOld(s) \/ GiveUp(s)
    <2>1. Typed
      BY <1>0, <1>9, LineGoes DEF StartNew, StartOld, GiveUp
    <2>2. app' \in [Pids -> Apps]
      BY <1>9, StartStarted, FreePids DEF StartNew, StartOld, GiveUp, Started
    <2>3. pending' \in BOOLEAN
      BY <1>9 DEF StartNew, StartOld, GiveUp, flags, TypeOK
    <2>4. UNCHANGED <<files, ask, left>>
      BY <1>9 DEF StartNew, StartOld, GiveUp
    <2> QED
      BY <2>1, <2>2, <2>3, <2>4 DEF TypeOK, files, ask
  <1>10. CASE Done(s)
    <2>1. NoScript \in Swaps
      BY Zenon DEF Swaps
    <2>2. Typed
      BY <1>10, <2>1 DEF Done, TypeOK
    <2> QED
      BY <1>10, <2>2, NoneSpent, FileLineTyped DEF Done, files, TypeOK
  <1> QED
    BY <1>1, <1>2, <1>3, <1>4, <1>5, <1>6, <1>7, <1>8, <1>9, <1>10 DEF Line

LEMMA NextTyped == ASSUME TypeOK, [Next]_vars PROVE TypeOK'
  <1>1. ASSUME NEW k \in Askers, AskApply(k) \/ Ask(k) PROVE TypeOK'
    BY <1>1, AskApplyTyped, ClaimTyped, FetchTyped, FailsTyped, RunScriptTyped, AnswerTyped DEF Ask
  <1>2. CASE UNCHANGED vars
    BY <1>2 DEF vars, TypeOK
  <1> QED
    BY <1>1, <1>2, LineTyped, LiveTyped, OpenTyped, PowerCutTyped DEF Next

LEMMA InitTyped == ASSUME Init PROVE TypeOK
  <1>1. Off \in Apps /\ NoScript \in Swaps /\ Resting \in Asks
    BY Zenon DEF Apps, Swaps, Asks
  <1>2. pending \in BOOLEAN /\ applying \in BOOLEAN
    BY Zenon DEF Init
  <1>3. left \in Lefts
    BY ConstantsAssumption DEF Init, Lefts
  <1>4. First \in Builds
    BY DEF Builds
  <1> QED
    BY <1>1, <1>2, <1>3, <1>4 DEF Init, TypeOK, Places, Marks

\* The variables keep their types, for any number of requests, scripts and mishaps, and
\* whatever updates cross.
THEOREM TypeCorrect == Spec => []TypeOK
  <1>1. TypeOK /\ [Next]_vars => TypeOK'
    BY NextTyped
  <1>2. Init => TypeOK
    BY InitTyped
  <1> QED
    BY <1>1, <1>2, PTL DEF Spec

(* The inductive invariant.                                                  *)

\* One copy of the program has the port, and a copy in the installed file's place runs that build.
Alive ==
    /\ \A p, q \in Owner : p = q
    /\ \A p \in Owner : app[p].img \notin Broken
    /\ \A p \in FromExe : app[p].img = exe

\* APPLYING lets one request in.
Inside(k) == c[k].pc \in {"fetch", "verify", "script", "run", "flag", "answer"}
OneInside ==
    /\ \A k, l \in Askers : Inside(k) /\ Inside(l) => k = l
    /\ \A k \in Askers : Inside(k) => applying

\* A request comes from a copy that serves.  One that is inside, and has not started its
\* script, has seen no script; one that is not yet inside may have missed one that waits for
\* the same copy.
Early(k) == c[k].pc \in {"fetch", "verify", "script", "run"}
AskOf(k) ==
    /\ ~At(k, "idle") => app[c[k].pid].st \in {"serving", "quitting"}
    /\ Early(k) => Active = {}
    /\ Early(k) \/ At(k, "claim") => exe \in Good
    /\ At(k, "claim") => \A s \in Active : script[s].pc = "wait" /\ script[s].pid = c[k].pid
    /\ c[k].pc \in {"script", "run"} => new = c[k].build

\* A script whose program still runs is noted in the pending flag, or about to be.
Waited(s) ==
    script[s].pc = "wait" /\ script[s].pid \in Running =>
        /\ app[script[s].pid].st \in {"serving", "quitting"}
        /\ \/ "flag" \in left.had \/ pending
           \/ \E k \in Askers : At(k, "flag") /\ c[k].pid = script[s].pid

\* Nobody has passed the test for the flag while a script waits, except beside the request
\* that is about to write it.
Timely == {"flag", "late"} \cap left.had = {}
Unmissed == Timely => \A k \in Askers : At(k, "claim") => Active = {} \/ \E l \in Askers : At(l, "flag")

\* The two places and version.txt at each line of the script.
Lines(s) ==
    LET pc == script[s].pc IN
    /\ script[s].was \in Good
    /\ pc \in {"wait", "kill", "swap", "place"} => new = script[s].ver
    /\ pc \in {"wait", "kill", "swap"} => exe = script[s].was
    /\ pc \in {"place", "restore", "restoring", "mark", "start", "waitok", "rollback", "rolling back",
               "unmark"} => old = script[s].was
    /\ pc \in {"place", "restore"} => exe = NoFile
    /\ pc \in {"restoring", "rolling back"} => exe = Torn
    /\ pc = "mark" => exe = script[s].ver
    /\ pc = "unmark" => exe = script[s].was \/ "copy" \in left.had
    /\ pc = "rollback" => FromExe = {}
    /\ pc \in {"wait", "kill", "swap", "place", "mark"} => marker = script[s].said
    /\ pc \in {"start", "waitok", "rollback", "rolling back", "unmark"} =>
         prev = script[s].said \/ "mark" \in left.had

Swapping ==
    /\ \A s, t \in Active : s = t
    /\ \A s \in Active : Lines(s) /\ Waited(s)

Sound == Alive /\ OneInside /\ (\A k \in Askers : AskOf(k)) /\ Swapping /\ (exe \in Good \/ old \in Good)
         /\ Unmissed
Whole == TypeOK /\ Alone /\ Sound
IInv  == TypeOK /\ (Timely => Alone) /\ (Alone => Sound)

(* The steps of a request.                                                   *)

\* Lines that stay where they are keep what goes with them.
LEMMA LinesStay ==
    ASSUME NEW s, Lines(s), Spent, UNCHANGED <<exe, old, new, marker, prev>>, script'[s] = script[s],
           script[s].pc = "rollback" => FromExe' = {}
    PROVE  Lines(s)'
  BY DEF Lines, Spent

\* A request that is inside, before it starts its script.
LEMMA EarlyKeeps ==
    ASSUME Whole, NEW k \in Askers, Early(k), Spent, OthersAsk(k), AskOf(k)', Inside(k)',
           UNCHANGED <<exe, old, marker, prev, app, script, applying>>
    PROVE  Sound'
  <1>1. Active = {} /\ Active' = {} /\ exe \in Good /\ Inside(k)
    BY DEF Whole, Sound, AskOf, Active, Early, Inside
  <1>2. Alive'
    BY DEF Whole, Sound, Alive, Owner, FromExe, Running
  <1>3. \A l \in Askers : l # k => ~Inside(l) /\ c'[l] = c[l]
    BY <1>1 DEF Whole, Sound, OneInside, OthersAsk
  <1>4. OneInside'
    BY <1>1, <1>3 DEF Whole, Sound, OneInside, Inside
  <1>5. ASSUME NEW l \in Askers, l # k PROVE AskOf(l)'
    <2>1. c'[l] = c[l] /\ c[l].pc \notin {"fetch", "verify", "script", "run", "flag", "answer"}
      BY <1>3, <1>5 DEF Inside
    <2>2. AskOf(l)
      BY DEF Whole, Sound
    <2> QED
      BY <1>1, <2>1, <2>2 DEF AskOf, At, Early
  <1>6. Swapping' /\ Unmissed'
    BY <1>1 DEF Swapping, Unmissed
  <1> QED
    BY <1>1, <1>2, <1>4, <1>5, <1>6 DEF Sound

\* A request before it is inside, or after.
LEMMA AsideKeeps ==
    ASSUME Whole, NEW k \in Askers, Spent, OthersAsk(k), AskOf(k)', OneInside', Unmissed',
           UNCHANGED <<exe, old, new, marker, prev, app, script>>, \A s \in Active : Waited(s)'
    PROVE  Sound'
  <1>1. Active' = Active /\ FromExe' = FromExe /\ Running' = Running /\ Owner' = Owner
    BY DEF Active, FromExe, Running, Owner
  <1>2. Alive'
    BY <1>1 DEF Whole, Sound, Alive
  <1>3. ASSUME NEW l \in Askers, l # k PROVE AskOf(l)'
    <2>1. c'[l] = c[l] /\ AskOf(l)
      BY <1>3 DEF Whole, Sound, OthersAsk
    <2> QED
      BY <1>1, <2>1 DEF AskOf, At, Early
  <1>4. ASSUME NEW s \in Active PROVE Lines(s)'
    BY <1>1, <1>4, LinesStay DEF Whole, Sound, Swapping, Lines
  <1>5. Swapping'
    BY <1>1, <1>4 DEF Whole, Sound, Swapping
  <1> QED
    BY <1>2, <1>3, <1>5 DEF Whole, Sound

\* A script's note of the program it waits for is kept by what does not touch it.
LEMMA WaitedStays ==
    ASSUME Whole, NEW s \in Active, NEW k \in Askers, OthersAsk(k), Spent, UNCHANGED <<app, script, pending>>,
           ~At(k, "flag")
    PROVE  Waited(s)'
  <1>1. Waited(s) /\ Running' = Running
    BY DEF Whole, Sound, Swapping, Running
  <1> QED
    BY <1>1 DEF Waited, Spent, OthersAsk, At

\* A copy that serves or quits has the port.
LEMMA OneServes ==
    ASSUME Whole, NEW p \in Pids, NEW q \in Pids, app[p].st \in {"serving", "quitting"},
           app[q].st \in {"bound", "serving", "quitting"}
    PROVE  p = q
  BY DEF Whole, Sound, Alive, Owner

LEMMA AskApplyKeeps == ASSUME Whole, NEW k \in Askers, AskApply(k) PROVE Sound'
  <1>1. PICK p \in FromExe : Serving(p) /\ Does(k, [pc |-> "claim", pid |-> p])
    BY DEF AskApply
  <1>2. p \in Pids /\ [pc |-> "claim", pid |-> p] \in Asks
    BY <1>1 DEF FromExe, Running, Asks, Plain
  <1>3. OthersAsk(k) /\ c'[k].pc = "claim" /\ c'[k].pid = p
    BY <1>1, <1>2, DoesAsk DEF Whole
  <1>4. Spent /\ left'.had = left.had
    BY DownloadSpent DEF AskApply, Whole
  <1>5. exe \in Good
    <2>1. p \in Owner /\ app[p].img = exe /\ app[p].img \notin Broken
      BY <1>1, <1>2 DEF Whole, Sound, Alive, Owner, Serving
    <2> QED
      BY <1>1, <1>2, <2>1, AppParts DEF Whole, Good, Serving
  <1>6. ASSUME NEW s \in Active PROVE script[s].pc = "wait" /\ script[s].pid = p
    <2>1. script[s].pc = "wait" /\ script[s].pid \in Running
      BY DEF AskApply, Calm
    <2>2. app[script[s].pid].st \in {"serving", "quitting"} /\ script[s].pid \in Pids
      BY <2>1 DEF Whole, Sound, Swapping, Waited, Running
    <2> QED
      BY <1>1, <1>2, <2>1, <2>2, OneServes DEF Serving
  <1>7. AskOf(k)'
    BY <1>1, <1>3, <1>5, <1>6 DEF AskOf, At, AskApply, files, Active, Serving, Early
  <1>8. OneInside'
    BY <1>3 DEF Whole, Sound, OneInside, Inside, OthersAsk, AskApply
  <1>9. Unmissed'
    <2>1. ASSUME Timely', NEW s \in Active PROVE \E l \in Askers : At(l, "flag")'
      <3>1. script[s].pc = "wait" /\ script[s].pid \in Running
        BY <2>1 DEF AskApply, Calm
      <3>2. "flag" \notin left.had /\ ~pending
        BY <1>4, <2>1 DEF Timely, AskApply
      <3>3. PICK l \in Askers : At(l, "flag")
        BY <3>1, <3>2 DEF Whole, Sound, Swapping, Waited
      <3>4. l # k
        BY <3>3 DEF At, AskApply, Idle
      <3> QED
        BY <1>3, <3>3, <3>4 DEF OthersAsk, At
    <2>2. Active' = Active
      BY DEF AskApply, Active
    <2> QED
      BY <2>1, <2>2 DEF Unmissed
  <1>10. \A s \in Active : Waited(s)'
    BY <1>3, <1>4, WaitedStays DEF AskApply, Idle, At, flags
  <1> QED
    BY <1>3, <1>4, <1>7, <1>8, <1>9, <1>10, AsideKeeps DEF AskApply, files

\* A second update is begun only where the flag was lost or late.
LEMMA ClaimAlone ==
    ASSUME Whole, NEW k \in Askers, Claim(k), Timely PROVE Alone'
  <1>1. ~applying => Active = {}
    <2>1. \A l \in Askers : At(l, "flag") => applying
      BY DEF Whole, Sound, OneInside, Inside, At
    <2> QED
      BY <2>1 DEF Claim, Whole, Sound, Unmissed
  <1> QED
    BY <1>1, NotedSpent DEF Claim, Alone, Whole, Kinds

LEMMA ClaimKeeps == ASSUME Whole, Alone', NEW k \in Askers, Claim(k) PROVE Sound'
  <1>1. Spent /\ left'.had = IF ~applying /\ Active # {} THEN left.had \cup {"second"} ELSE left.had
    BY NotedSpent DEF Claim, Whole, Kinds
  <1>2. ~applying => Active = {}
    BY <1>1 DEF Alone
  <1>3. left'.had = left.had
    BY <1>1, <1>2
  <1>4. CASE applying
    <2>1. OthersAsk(k) /\ c'[k] = Resting
      BY <1>4, DoesRest DEF Claim, Whole
    <2>2. c'[k].pc = "idle"
      BY <2>1 DEF Resting
    <2>3. AskOf(k)'
      BY <2>2 DEF AskOf, At, Early
    <2>4. OneInside'
      BY <2>1, <2>2 DEF Whole, Sound, OneInside, Inside, OthersAsk, Claim
    <2>5. Active' = Active
      BY DEF Claim, Active
    <2>6. Unmissed'
      <3>1. \A l \in Askers : At(l, "claim")' => At(l, "claim")
        BY <2>1, <2>2 DEF At, OthersAsk
      <3>2. \A l \in Askers : At(l, "flag") => At(l, "flag")'
        BY <2>1 DEF At, OthersAsk, Claim
      <3> QED
        BY <1>3, <2>5, <3>1, <3>2 DEF Whole, Sound, Unmissed, Timely
    <2>7. \A s \in Active : Waited(s)'
      BY <1>1, <2>1, WaitedStays DEF Claim, At, flags
    <2> QED
      BY <1>1, <2>1, <2>3, <2>4, <2>6, <2>7, AsideKeeps DEF Claim, files
  <1>5. CASE ~applying
    <2>1. OthersAsk(k) /\ c'[k].pc = "fetch" /\ c'[k].pid = c[k].pid
      BY <1>5, ThenFetch DEF Claim, Whole
    <2>2. Active = {} /\ Active' = {}
      BY <1>2, <1>5 DEF Claim, Active
    <2>3. AskOf(k) /\ At(k, "claim") /\ UNCHANGED <<exe, app>>
      BY DEF Whole, Sound, Claim, files
    <2>4. AskOf(k)'
      BY <2>1, <2>2, <2>3 DEF AskOf, At, Early
    <2>5. OneInside'
      <3>1. applying'
        BY Zenon DEF Claim
      <3>2. \A l \in Askers : ~Inside(l)
        BY <1>5 DEF Whole, Sound, OneInside
      <3>3. \A l \in Askers : l # k => ~Inside(l)'
        BY <2>1, <3>2 DEF OthersAsk, Inside
      <3> QED
        BY <3>1, <3>3 DEF OneInside
    <2>6. Unmissed' /\ \A s \in Active : Waited(s)'
      BY <2>2 DEF Unmissed
    <2> QED
      BY <1>1, <2>1, <2>4, <2>5, <2>6, AsideKeeps DEF Claim, files
  <1> QED
    BY <1>4, <1>5

LEMMA FetchKeeps == ASSUME Whole, NEW k \in Askers, Fetch(k) PROVE Sound'
  <1>1. PICK r \in Releases :
            /\ Does(k, [pc |-> "verify", pid |-> c[k].pid, build |-> r])
            /\ (new' = r /\ UNCHANGED left) \/ (new' = Torn /\ Fault)
    BY DEF Fetch
  <1>2. Early(k) /\ c[k].pc = "fetch"
    BY DEF Fetch, At, Early
  <1>3. c[k].pid \in Pids
    BY <1>2, AskParts DEF Whole
  <1>4. [pc |-> "verify", pid |-> c[k].pid, build |-> r] \in Asks
    BY <1>3 DEF Asks, Loaded
  <1>5. OthersAsk(k) /\ c'[k].pc = "verify" /\ c'[k].pid = c[k].pid
    BY <1>1, <1>4, DoesAsk DEF Whole
  <1>6. Spent
    BY <1>1, NoneSpent, FaultSpent DEF Whole
  <1>7. AskOf(k)' /\ Inside(k)'
    BY <1>2, <1>5 DEF Whole, Sound, AskOf, At, Early, Active, Fetch, Inside
  <1> QED
    BY <1>2, <1>5, <1>6, <1>7, EarlyKeeps DEF Fetch

\* An answer needs nothing but a program that still runs.
LEMMA AnswerNext ==
    ASSUME Whole, NEW k \in Askers, ~At(k, "idle"), Then(k, "answer"), UNCHANGED app
    PROVE  OthersAsk(k) /\ AskOf(k)' /\ Inside(k)' /\ c'[k].pc = "answer"
  <1>1. OthersAsk(k) /\ c'[k].pc = "answer" /\ c'[k].pid = c[k].pid
    BY ThenAnswer DEF Whole
  <1> QED
    BY <1>1 DEF Whole, Sound, AskOf, At, Early, Inside

LEMMA FetchFailsKeeps == ASSUME Whole, NEW k \in Askers, FetchFails(k) PROVE Sound'
  <1>1. OthersAsk(k) /\ AskOf(k)' /\ Inside(k)' /\ Early(k)
    BY AnswerNext DEF FetchFails, At, Early
  <1> QED
    BY <1>1, FaultSpent, EarlyKeeps DEF FetchFails, Whole

LEMMA VerifyKeeps == ASSUME Whole, NEW k \in Askers, Verify(k) PROVE Sound'
  <1>1. Early(k) /\ ~At(k, "idle")
    BY DEF Verify, At, Early
  <1>2. OthersAsk(k) /\ AskOf(k)' /\ Inside(k)'
    <2>1. CASE new = c[k].build
      <3>1. OthersAsk(k) /\ c'[k].pc = "script" /\ c'[k].pid = c[k].pid /\ c'[k].build = c[k].build
        BY <2>1, ThenBuild DEF Verify, Whole, At
      <3> QED
        BY <1>1, <2>1, <3>1 DEF Whole, Sound, AskOf, Verify, At, Early, Inside, Active
    <2>2. CASE new # c[k].build
      BY <1>1, <2>2, AnswerNext DEF Verify
    <2> QED
      BY <2>1, <2>2
  <1> QED
    BY <1>1, <1>2, NoneSpent, EarlyKeeps DEF Verify, Whole

LEMMA WriteScriptKeeps == ASSUME Whole, NEW k \in Askers, WriteScript(k) PROVE Sound'
  <1>1. Spent /\ Early(k) /\ ~At(k, "idle")
    BY NoneSpent, FaultSpent DEF WriteScript, Whole, Early, At
  <1>2. OthersAsk(k) /\ AskOf(k)' /\ Inside(k)'
    <2>1. CASE Then(k, "run")
      <3>1. OthersAsk(k) /\ c'[k].pc = "run" /\ c'[k].pid = c[k].pid /\ c'[k].build = c[k].build
        BY <2>1, ThenBuild DEF WriteScript, Whole, At
      <3> QED
        BY <1>1, <3>1 DEF Whole, Sound, AskOf, WriteScript, At, Early, Inside, Active, files
    <2>2. CASE Then(k, "answer")
      BY <1>1, <2>2, AnswerNext DEF WriteScript
    <2> QED
      BY <2>1, <2>2 DEF WriteScript
  <1> QED
    BY <1>1, <1>2, EarlyKeeps DEF WriteScript, files

LEMMA FlagKeeps == ASSUME Whole, NEW k \in Askers, Flag(k) PROVE Sound'
  <1>1. At(k, "flag") /\ Inside(k) /\ OthersAsk(k) /\ AskOf(k)' /\ Inside(k)' /\ c'[k].pc = "answer"
    BY AnswerNext DEF Flag, At, Inside
  <1>2. Spent /\ (pending' \/ "flag" \in left'.had)
        /\ ("flag" \in left'.had \/ "late" \in left'.had \/ \A l \in Askers : ~At(l, "claim"))
    <2>1. CASE pending' = TRUE /\ Noted("late", \E l \in Askers : At(l, "claim"))
      <3>1. pending'
        BY <2>1, Zenon
      <3> QED
        BY <2>1, <3>1, NotedSpent DEF Whole, Kinds
    <2>2. CASE Mishap("flag")
      BY <2>2, MishapSpent DEF Whole, Kinds
    <2> QED
      BY <2>1, <2>2 DEF Flag
  <1>3. OneInside'
    BY <1>1 DEF Whole, Sound, OneInside, Inside, OthersAsk, Flag
  <1>4. Unmissed'
    BY <1>1, <1>2 DEF Unmissed, Timely, OthersAsk, At
  <1>5. ASSUME NEW s \in Active PROVE Waited(s)'
    <2>1. Waited(s) /\ UNCHANGED <<app, script>>
      BY DEF Whole, Sound, Swapping, Flag
    <2> QED
      BY <1>2, <2>1 DEF Waited, Running
  <1> QED
    BY <1>1, <1>2, <1>3, <1>4, <1>5, AsideKeeps DEF Flag, files

LEMMA AnswerKeeps == ASSUME Whole, NEW k \in Askers, Answer(k) PROVE Sound'
  <1>1. OthersAsk(k) /\ c'[k] = Resting /\ Spent
    BY DoesRest, NoneSpent DEF Answer, Whole
  <1>2. c'[k].pc = "idle" /\ c[k].pc = "answer" /\ UNCHANGED <<script, app, left, pending>>
    BY <1>1 DEF Resting, Answer, At, flags
  <1>3. AskOf(k)'
    BY <1>2 DEF AskOf, At, Early
  <1>4. OneInside'
    BY <1>1, <1>2 DEF Whole, Sound, OneInside, Inside, OthersAsk
  <1>5. Unmissed'
    <2>1. \A l \in Askers : (At(l, "claim")' => At(l, "claim")) /\ (At(l, "flag") => At(l, "flag")')
      BY <1>1, <1>2 DEF At, OthersAsk
    <2> QED
      BY <1>2, <2>1 DEF Whole, Sound, Unmissed, Timely, Active
  <1>6. \A s \in Active : Waited(s)'
    BY <1>1, <1>2, WaitedStays DEF At
  <1> QED
    BY <1>1, <1>3, <1>4, <1>5, <1>6, AsideKeeps DEF Answer, files, flags

LEMMA RunScriptKeeps == ASSUME Whole, NEW k \in Askers, RunScript(k) PROVE Sound'
  <1>1. /\ At(k, "run") /\ Early(k) /\ Inside(k) /\ Active = {} /\ exe \in Good /\ new = c[k].build
        /\ c[k].pid \in Pids /\ app[c[k].pid].st \in {"serving", "quitting"}
    BY AskParts DEF Whole, Sound, AskOf, Early, Inside, RunScript, At
  <1>2. CASE UNCHANGED script
    <2>1. Fault /\ Then(k, "answer")
      <3>1. \A s \in Fresh : script # [script EXCEPT ![s] = [pc |-> "wait", pid |-> c[k].pid,
                                        ver |-> c[k].build, was |-> exe, said |-> marker]]
        <4> SUFFICES ASSUME NEW s \in Fresh, NEW swap, swap.pc = "wait" PROVE script # [script EXCEPT ![s] = swap]
          OBVIOUS
        <4>1. s \in Scripts /\ script[s].pc = "none"
          BY DEF Fresh, Active
        <4> QED
          BY <4>1 DEF Whole, TypeOK
      <3> QED
        BY <1>2, <3>1 DEF RunScript
    <2>2. OthersAsk(k) /\ AskOf(k)' /\ Inside(k)'
      BY <1>1, <2>1, AnswerNext DEF RunScript, At
    <2> QED
      BY <1>1, <1>2, <2>1, <2>2, FaultSpent, EarlyKeeps DEF RunScript, files, Whole
  <1>3. CASE ~UNCHANGED script
    <2>1. PICK s \in Scripts :
                /\ OthersSwap(s) /\ script[s].pc = "none"
                /\ script'[s].pc = "wait" /\ script'[s].pid = c[k].pid
                /\ script'[s].ver = c[k].build /\ script'[s].was = exe /\ script'[s].said = marker
      BY <1>3, RunStarts DEF Whole
    <2>2. Then(k, "flag") /\ UNCHANGED left
      BY <1>3, RunStarts DEF Whole
    <2>3. UNCHANGED <<exe, old, new, marker, prev, pending, app, applying>>
      BY DEF RunScript, files
    <2>4. OthersAsk(k) /\ c'[k].pc = "flag" /\ c'[k].pid = c[k].pid
      BY <1>1, <2>2, ThenBuild DEF Whole, At
    <2>5. Active' = {s}
      BY <1>1, <2>1 DEF Active, OthersSwap
    <2>6. Alive'
      BY <2>3 DEF Whole, Sound, Alive, Owner, FromExe, Running
    <2>7. OneInside'
      BY <1>1, <2>3, <2>4 DEF Whole, Sound, OneInside, Inside, OthersAsk
    <2>8. ASSUME NEW l \in Askers PROVE AskOf(l)'
      <3>1. CASE l = k
        BY <1>1, <2>3, <2>4, <3>1 DEF AskOf, At, Early
      <3>2. CASE l # k
        <4>1. c'[l] = c[l] /\ ~Inside(l) /\ AskOf(l)
          BY <1>1, <2>4, <3>2 DEF Whole, Sound, OneInside, OthersAsk
        <4>2. At(l, "claim") => c[l].pid = c[k].pid
          <5>1. At(l, "claim") => c[l].pid \in Pids /\ app[c[l].pid].st \in {"serving", "quitting"}
            BY <4>1, AskParts DEF Whole, AskOf, At
          <5> QED
            BY <1>1, <5>1, OneServes
        <4> QED
          BY <2>1, <2>3, <2>5, <4>1, <4>2 DEF AskOf, At, Early, Inside
      <3> QED
        BY <3>1, <3>2
    <2>9. Lines(s)'
      BY <1>1, <2>1, <2>3 DEF Lines
    <2>10. Waited(s)'
      BY <1>1, <2>1, <2>3, <2>4 DEF Waited, At
    <2>11. Swapping'
      BY <2>5, <2>9, <2>10 DEF Swapping
    <2>12. Unmissed'
      BY <2>4 DEF Unmissed, At
    <2> QED
      BY <1>1, <2>3, <2>6, <2>7, <2>8, <2>11, <2>12 DEF Sound
  <1> QED
    BY <1>2, <1>3

(* The steps of a process.                                                   *)

\* What a step that changes neither a file nor a script has to show.
LEMMA ProcessKeeps ==
    ASSUME Whole, Spent, UNCHANGED <<files, script>>, Alive', OneInside', Unmissed',
           \A k \in Askers : AskOf(k)',
           \A s \in Active : Waited(s)' /\ (script[s].pc = "rollback" => FromExe' = {})
    PROVE  Sound'
  <1>1. Active' = Active
    BY DEF Active
  <1>2. ASSUME NEW s \in Active PROVE Lines(s)'
    BY <1>2, LinesStay DEF Whole, Sound, Swapping, files
  <1>3. Swapping'
    BY <1>1, <1>2 DEF Whole, Sound, Swapping
  <1> QED
    BY <1>3 DEF Whole, Sound, files

\* The requests that stay where they are.
LEMMA SameAskers ==
    ASSUME Whole, Spent, UNCHANGED <<c, applying, script>>
    PROVE  OneInside' /\ Unmissed'
  BY DEF Whole, Sound, OneInside, Unmissed, Inside, At, Active, Timely, Spent

\* Processes end, and their requests with them.
LEMMA EndedKeeps ==
    ASSUME Whole, NEW gone \in SUBSET Pids, Ended(gone), Threads(gone), UNCHANGED exe, Spent
    PROVE  /\ Alive' /\ OneInside'
           /\ \A k \in Askers :
                \/ At(k, "idle")'
                \/ /\ ~At(k, "idle") /\ c'[k] = c[k] /\ c[k].pid \notin gone
                   /\ app'[c'[k].pid].st \in {"serving", "quitting"}
           /\ UNCHANGED script => Unmissed'
           /\ \A s \in Active : script'[s] = script[s] /\ UNCHANGED pending => Waited(s)'
           /\ FromExe' \subseteq FromExe
  <1>1. \A p \in Pids : app[p].st = "off" => app'[p].st = "off"
    BY DEF Ended, Off
  <1>2. /\ Owner' \subseteq Owner /\ FromExe' \subseteq FromExe /\ Running' \subseteq Running
        /\ \A p \in Running' : app'[p] = app[p] /\ p \notin gone
    BY <1>1 DEF Ended, Owner, FromExe, Running, Off
  <1>3. Alive'
    <2>1. Owner' \subseteq Running'
      BY DEF Owner, Running
    <2>2. FromExe' \subseteq Running'
      BY DEF FromExe
    <2> QED
      BY <1>2, <2>1, <2>2 DEF Whole, Sound, Alive
  <1>4. \A k \in Askers :
                \/ c'[k] = Resting /\ ~At(k, "idle") /\ c[k].pid \in gone
                \/ c'[k] = c[k] /\ (At(k, "idle") \/ c[k].pid \notin gone)
    BY ThreadsDropped, DroppedAsk DEF Whole
  <1>5. ASSUME NEW k \in Askers, ~At(k, "idle")'
        PROVE  /\ ~At(k, "idle") /\ c'[k] = c[k] /\ c[k].pid \notin gone
               /\ app'[c'[k].pid].st \in {"serving", "quitting"}
               /\ c[k].pid \in Owner
    <2>1. ~At(k, "idle") /\ c'[k] = c[k] /\ c[k].pid \notin gone
      BY <1>4, <1>5 DEF At, Resting
    <2>2. c[k].pid \in Pids
      BY <2>1, AskParts DEF Whole, At
    <2>3. app[c[k].pid].st \in {"serving", "quitting"}
      BY <2>1 DEF Whole, Sound, AskOf
    <2> QED
      BY <2>1, <2>2, <2>3 DEF Ended, Owner
  <1>6. OneInside'
    <2>1. ASSUME NEW k \in Askers, Inside(k)' PROVE Inside(k) /\ applying'
      <3>1. c'[k] = c[k] /\ c[k].pid \notin gone /\ c[k].pid \in Owner
        BY <1>5, <2>1 DEF Inside, At
      <3>2. Inside(k) /\ applying
        BY <2>1, <3>1 DEF Inside, Whole, Sound, OneInside
      <3>3. gone \cap Owner = {}
        BY <3>1 DEF Whole, Sound, Alive
      <3>4. applying'
        BY <3>2, <3>3, Zenon DEF Threads
      <3> QED
        BY <3>2, <3>4
    <2> QED
      BY <2>1 DEF Whole, Sound, OneInside
  <1>7. ASSUME NEW s \in Active, script'[s] = script[s], UNCHANGED pending PROVE Waited(s)'
    <2>1. Waited(s)
      BY <1>7 DEF Whole, Sound, Swapping
    <2>2. \A k \in Askers : At(k, "flag") /\ c[k].pid \in Running' => At(k, "flag")' /\ c'[k].pid = c[k].pid
      BY <1>2, <1>4 DEF At
    <2> QED
      BY <1>2, <1>7, <2>1, <2>2 DEF Waited, Spent
  <1>8. ASSUME UNCHANGED script PROVE Unmissed'
    <2> SUFFICES ASSUME Timely', NEW k \in Askers, At(k, "claim")', Active # {}
                 PROVE  \E l \in Askers : At(l, "flag")'
      BY <1>8 DEF Unmissed, Active
    <2>1. At(k, "claim") /\ c[k].pid \notin gone /\ c[k].pid \in Owner
      BY <1>5 DEF At
    <2>2. PICK l \in Askers : At(l, "flag")
      BY <2>1 DEF Whole, Sound, Unmissed, Timely, Spent
    <2>3. c[l].pid \in Pids /\ app[c[l].pid].st \in {"serving", "quitting"}
      BY <2>2, AskParts DEF Whole, Sound, AskOf, At
    <2>4. c[l].pid = c[k].pid
      BY <2>1, <2>3 DEF Whole, Sound, Alive, Owner
    <2> QED
      BY <1>4, <2>1, <2>2, <2>4 DEF At
  <1> QED
    BY <1>2, <1>3, <1>5, <1>6, <1>7, <1>8

\* Where only processes end, the rest stays.
LEMMA EndsKeeps ==
    ASSUME Whole, NEW p \in Pids, Ended({p}), Threads({p}), UNCHANGED <<files, script, pending>>, Spent
    PROVE  Sound'
  <1>1. UNCHANGED <<exe, new>> /\ Active' = Active
    BY DEF files, Active
  <1>2. ASSUME NEW k \in Askers PROVE AskOf(k)'
    <2>1. CASE At(k, "idle")'
      BY <2>1 DEF AskOf, At, Early
    <2>2. CASE ~At(k, "idle")'
      <3>1. c'[k] = c[k] /\ app'[c'[k].pid].st \in {"serving", "quitting"} /\ AskOf(k)
        BY <1>1, <2>2, EndedKeeps DEF Whole, Sound
      <3> QED
        BY <1>1, <3>1 DEF AskOf, At, Early
    <2> QED
      BY <2>1, <2>2
  <1>3. /\ Alive' /\ OneInside' /\ FromExe' \subseteq FromExe /\ Unmissed'
        /\ \A s \in Active : Waited(s)'
    BY <1>1, EndedKeeps
  <1>4. \A s \in Active : script[s].pc = "rollback" => FromExe' = {}
    BY <1>3 DEF Whole, Sound, Swapping, Lines
  <1> QED
    BY <1>2, <1>3, <1>4, ProcessKeeps

LEMMA LeavesKeeps == ASSUME Whole, NEW p \in Pids, Quit(p) \/ Close(p) PROVE Sound'
  <1>1. Ended({p}) /\ Threads({p})
    BY OffEnded DEF Quit, Close, Leaves, Whole
  <1>2. UNCHANGED <<files, script, pending>> /\ Spent
    BY NoneSpent DEF Quit, Close, flags, Whole
  <1> QED
    BY <1>1, <1>2, EndsKeeps

\* A program that starts, with a pid that nothing waits for.
LEMMA StartedKeeps ==
    ASSUME Whole, NEW waited, Started(Free(waited)), UNCHANGED exe, Spent
    PROVE  /\ Alive'
           /\ \A k \in Askers : ~At(k, "idle") => app'[c[k].pid].st \in {"serving", "quitting"}
           /\ \A s \in Active : script'[s] = script[s] /\ UNCHANGED <<pending, c>> => Waited(s)'
  <1>1. CASE app' = app
    BY <1>1 DEF Whole, Sound, Alive, Owner, FromExe, Running, Swapping, Waited, AskOf, At, Spent
  <1>2. CASE app' # app
    <2>1. PICK p \in Free(waited) :
            /\ exe \in Builds
            /\ app'[p].st = "boot" /\ app'[p].path = "exe" /\ app'[p].img = exe
            /\ \A q \in Pids : q # p => app'[q] = app[q]
      BY <1>2 DEF Started
    <2>2. p \in Pids \ Running /\ \A s \in Active : script[s].pc = "wait" => p # script[s].pid
      BY DEF Free
    <2>3. \A q \in Running : app'[q] = app[q] /\ q # p
      BY <2>1, <2>2 DEF Running
    <2>4. Owner' = Owner /\ FromExe' \subseteq FromExe \cup {p} /\ Owner \subseteq Running
      BY <2>1, <2>2 DEF Owner, FromExe, Running
    <2>5. Alive'
      BY <2>1, <2>3, <2>4 DEF Whole, Sound, Alive, FromExe
    <2>6. ASSUME NEW k \in Askers, ~At(k, "idle") PROVE app'[c[k].pid].st \in {"serving", "quitting"}
      <3>1. c[k].pid \in Pids
        BY <2>6, AskParts DEF Whole, At
      <3> QED
        BY <2>3, <2>6, <3>1 DEF Whole, Sound, AskOf, Running
    <2>7. ASSUME NEW s \in Active, script'[s] = script[s], UNCHANGED <<pending, c>> PROVE Waited(s)'
      <3>1. script[s].pc = "wait" /\ script[s].pid \in Running' => script[s].pid \in Running
        BY <2>1, <2>2 DEF Running
      <3>2. Waited(s)
        BY DEF Whole, Sound, Swapping
      <3> QED
        BY <2>3, <2>7, <3>1, <3>2 DEF Waited, At, Spent
    <2> QED
      BY <2>5, <2>6, <2>7
  <1> QED
    BY <1>1, <1>2

\* A program that starts while no script is about to overwrite it.
LEMMA OpensKeeps ==
    ASSUME Whole, NEW waited, Started(Free(waited)), UNCHANGED <<files, flags, script, ask, left>>,
           \A s \in Active : script[s].pc # "rollback"
    PROVE  Sound'
  <1>1. UNCHANGED <<exe, c, pending, new, applying>> /\ Active' = Active /\ Spent
    BY NoneSpent DEF files, flags, Active, ask, Whole
  <1>2. Alive' /\ \A k \in Askers : ~At(k, "idle") => app'[c[k].pid].st \in {"serving", "quitting"}
    BY <1>1, StartedKeeps
  <1>3. ASSUME NEW s \in Active PROVE Waited(s)'
    BY <1>1, <1>3, StartedKeeps
  <1>4. \A k \in Askers : AskOf(k)'
    BY <1>1, <1>2 DEF Whole, Sound, AskOf, At, Early
  <1> QED
    BY <1>1, <1>2, <1>3, <1>4, SameAskers, ProcessKeeps

LEMMA OpenKeeps == ASSUME Whole, Open PROVE Sound'
  <1>1. Started(Free(relaunch))
    BY StartStarted, FreePids DEF Open, Whole
  <1> QED
    BY <1>1, OpensKeeps DEF Open, Calm

LEMMA RelaunchKeeps == ASSUME Whole, NEW p \in Pids, Relaunch(p) PROVE Sound'
  <1>1. Started(Free(relaunch \ {p}))
    BY StartStarted, FreePids DEF Relaunch, Whole
  <1> QED
    BY <1>1, OpensKeeps DEF Relaunch

LEMMA TurnsKeeps ==
    ASSUME Whole, NEW p \in Pids, NEW st \in {"bound", "serving", "quitting"}, app[p].st # "off", Turns(p, st),
           UNCHANGED <<files, script, ask>>, Spent,
           \/ app[p].st = "boot" /\ Owner = {} /\ app[p].img \notin Broken /\ UNCHANGED pending
           \/ app[p].st = "bound" /\ st = "serving"
           \/ app[p].st = "serving" /\ st = "quitting" /\ UNCHANGED pending
    PROVE  Sound'
  <1>1. Running' = Running /\ FromExe' = FromExe /\ p \in Running
    BY DEF Running, FromExe, Turns
  <1>2. Owner' = Owner \cup {p}
    BY DEF Owner, Turns
  <1>3. Owner = {} \/ p \in Owner
    BY DEF Owner
  <1>4. Alive'
    BY <1>1, <1>2, <1>3 DEF Whole, Sound, Alive, Turns, FromExe, Running, Owner, files
  <1>5. app[p].st \in {"serving", "quitting"} \/ ~ \E q \in Pids : app[q].st \in {"serving", "quitting"}
    BY DEF Whole, Sound, Alive, Owner
  <1>6. ASSUME NEW k \in Askers PROVE AskOf(k)'
    <2>1. AskOf(k) /\ UNCHANGED <<c, exe, new>> /\ Active' = Active
      BY DEF Whole, Sound, ask, files, Active
    <2>2. CASE At(k, "idle")
      BY <2>1, <2>2 DEF AskOf, At, Early
    <2>3. CASE ~At(k, "idle")
      <3>1. c[k].pid \in Pids /\ app[c[k].pid].st \in {"serving", "quitting"}
        BY <2>1, <2>3, AskParts DEF Whole, AskOf, At
      <3>2. app'[c[k].pid].st \in {"serving", "quitting"}
        BY <1>5, <3>1 DEF Turns
      <3> QED
        BY <2>1, <3>2 DEF AskOf, At, Early
    <2> QED
      BY <2>2, <2>3
  <1>7. ASSUME NEW s \in Active PROVE Waited(s)'
    <2>1. Waited(s) /\ UNCHANGED <<script, c>>
      BY DEF Whole, Sound, Swapping, ask
    <2>2. Running \subseteq Pids
      BY DEF Running
    <2> QED
      BY <1>1, <1>5, <2>1, <2>2 DEF Waited, At, Turns, Spent
  <1>8. \A s \in Active : script[s].pc = "rollback" => FromExe' = {}
    BY <1>1 DEF Whole, Sound, Swapping, Lines
  <1> QED
    BY <1>4, <1>6, <1>7, <1>8, SameAskers, ProcessKeeps DEF ask

LEMMA RestartKeeps == ASSUME Whole, NEW p \in Pids, Restart(p) PROVE Sound'
  <1>1. Turns(p, "quitting")
    BY TurnTurns DEF Restart, Serving, Whole
  <1> QED
    BY <1>1, TurnsKeeps, NoneSpent DEF Restart, Serving, flags, Whole

LEMMA SettleKeeps == ASSUME Whole, NEW p \in Pids, Settle(p) PROVE Sound'
  <1>1. Turns(p, "serving")
    BY TurnTurns DEF Settle, Whole
  <1>2. app[p].st = "bound" /\ UNCHANGED <<files, script, ask, left>>
    BY DEF Settle
  <1> QED
    BY <1>1, <1>2, TurnsKeeps, NoneSpent DEF Whole

LEMMA BootKeeps == ASSUME Whole, NEW p \in Pids, Boot(p) PROVE Sound'
  <1>1. app[p].st = "boot" /\ UNCHANGED <<files, pending, script, ask>>
    BY DEF Boot
  <1>2. UNCHANGED left \/ Fault
    BY DEF Boot, Confirm
  <1>3. Spent
    BY <1>2, NoneSpent, FaultSpent DEF Whole
  <1>4. CASE Owner = {} /\ app[p].img \notin Broken /\ app' = [app EXCEPT ![p].st = "bound"]
    <2>1. Turns(p, "bound")
      BY <1>1, <1>4, TurnTurns DEF Whole
    <2> QED
      BY <1>1, <1>3, <1>4, <2>1, TurnsKeeps
  <1>5. CASE app' = [app EXCEPT ![p] = Off]
    <2>1. Ended({p})
      BY <1>5, OffEnded DEF Whole
    <2>2. \A k \in Askers : c[k].pc # "idle" => c[k].pid # p
      BY <1>1 DEF Whole, Sound, AskOf, At
    <2>3. c' = [k \in Askers |-> IF c[k].pc # "idle" /\ c[k].pid \in {p} THEN Resting ELSE c[k]]
      BY <1>1, <2>2 DEF Whole, TypeOK, ask
    <2>4. {p} \cap Owner = {} /\ applying' = applying
      BY <1>1 DEF Owner, ask
    <2>5. applying' = (applying /\ {p} \cap Owner = {})
      BY <2>4, Zenon DEF Whole, TypeOK
    <2>6. Threads({p})
      BY <2>3, <2>5 DEF Threads
    <2> QED
      BY <1>1, <1>3, <2>1, <2>6, EndsKeeps
  <1> QED
    BY <1>4, <1>5 DEF Boot

LEMMA PowerCutKeeps == ASSUME Whole, PowerCut PROVE Sound'
  <1>1. app' = [p \in Pids |-> Off] /\ script' = [s \in Scripts |-> NoScript] /\ c' = [k \in Askers |-> Resting]
    BY DEF PowerCut
  <1>2. Active' = {} /\ Running' = {} /\ Owner' = {}
    BY <1>1 DEF Active, Running, Owner, NoScript, Off
  <1>3. UNCHANGED <<exe, old>>
    BY DEF PowerCut, files
  <1>4. Alive'
    BY <1>2 DEF Alive, FromExe
  <1>5. \A k \in Askers : AskOf(k)' /\ ~Inside(k)'
    BY <1>1 DEF AskOf, At, Early, Inside, Resting
  <1>6. OneInside' /\ Swapping' /\ Unmissed'
    BY <1>2, <1>5 DEF OneInside, Swapping, Unmissed
  <1> QED
    BY <1>3, <1>4, <1>5, <1>6 DEF Whole, Sound

(* The lines of the script.                                                  *)

\* Where a line runs, no request is left that has not started its script.
LEMMA LineAsks ==
    ASSUME Whole, NEW s \in Active, script[s].pc # "wait" \/ app[script[s].pid].st = "off",
           NEW k \in Askers, ~At(k, "idle")
    PROVE  c[k].pc \in {"flag", "answer"} /\ app[c[k].pid].st \in {"serving", "quitting"} /\ c[k].pid \in Pids
  <1>1. AskOf(k)
    BY DEF Whole, Sound
  <1>2. c[k].pc \in {"claim", "fetch", "verify", "script", "run", "flag", "answer"} /\ c[k].pid \in Pids
    BY AskParts DEF Whole, At
  <1> QED
    BY <1>1, <1>2 DEF AskOf, At, Early

\* What a line has to show: no other script runs.
LEMMA LineKeeps ==
    ASSUME Whole, NEW s \in Active, Alive', OneInside', exe' \in Good \/ old' \in Good,
           OthersSwap(s), script'[s].pc # "none" => Lines(s)' /\ Waited(s)',
           \A k \in Askers : ~At(k, "idle")' =>
                c'[k].pc \in {"flag", "answer"} /\ app'[c'[k].pid].st \in {"serving", "quitting"}
    PROVE  Sound'
  <1>1. \A t \in Scripts : t # s => script'[t].pc = "none"
    BY DEF Whole, Sound, Swapping, OthersSwap, Active
  <1>2. Swapping'
    BY <1>1 DEF Swapping, Active
  <1>3. \A k \in Askers : AskOf(k)'
    BY DEF AskOf, At, Early
  <1>4. Unmissed'
    BY DEF Unmissed, At
  <1> QED
    BY <1>2, <1>3, <1>4 DEF Sound

\* A line that starts and ends no process.
LEMMA FileLineKeeps ==
    ASSUME Whole, NEW s \in Active, NEW pc \in LinePcs \ {"wait"}, Goes(s, pc), UNCHANGED <<app, ask>>,
           script[s].pc # "wait" \/ app[script[s].pid].st = "off",
           exe' = exe \/ FromExe = {}, exe' \in Good \/ old' \in Good, Lines(s)'
    PROVE  Sound'
  <1>1. Alive'
    BY DEF Whole, Sound, Alive, Owner, FromExe, Running
  <1>2. OneInside'
    BY DEF Whole, Sound, OneInside, Inside, ask
  <1>3. OthersSwap(s) /\ script'[s].pc # "none" /\ Waited(s)'
    BY DEF Goes, Waited, LinePcs
  <1>4. \A k \in Askers : ~At(k, "idle")' =>
            c'[k].pc \in {"flag", "answer"} /\ app'[c'[k].pid].st \in {"serving", "quitting"}
    BY LineAsks DEF At, ask
  <1> QED
    BY <1>1, <1>2, <1>3, <1>4, LineKeeps

\* A line that changes no file either.
LEMMA QuietLineKeeps ==
    ASSUME Whole, NEW s \in Active, NEW pc \in LinePcs \ {"wait"}, Goes(s, pc), UNCHANGED <<files, app, ask>>,
           script[s].pc # "wait" \/ app[script[s].pid].st = "off", Lines(s)'
    PROVE  Sound'
  <1>1. UNCHANGED <<exe, old>> /\ (exe \in Good \/ old \in Good)
    BY DEF Whole, Sound, files
  <1> QED
    BY <1>1, FileLineKeeps

\* What goes with the line a script is at.
LEMMA AtLine ==
    ASSUME Whole, NEW s \in Scripts, NEW pc \in LinePcs, On(s, pc)
    PROVE  /\ s \in Active /\ script[s].pc = pc /\ Lines(s)
           /\ script[s].was \in Good /\ script[s].ver \in Releases /\ script[s].pid \in Pids
           /\ \A to \in LinePcs : Go(s, to) => Goes(s, to)
  <1>1. script[s].pc = pc /\ pc # "none"
    BY DEF On, LinePcs
  <1>2. s \in Active
    BY <1>1 DEF Active
  <1>3. Lines(s)
    BY <1>2 DEF Whole, Sound, Swapping
  <1> QED
    BY <1>1, <1>2, <1>3, GoGoes, SwapParts DEF Whole, Lines

\* A line whose files and processes stay: only what is said of the next line is new.
LEMMA LinesMove ==
    ASSUME Whole, NEW s \in Active, Spent, UNCHANGED files, NEW pc \in LinePcs, Goes(s, pc), Lines(s),
           \/ <<script[s].pc, pc>> \in {<<"wait", "kill">>, <<"kill", "swap">>, <<"start", "waitok">>}
           \/ pc = "rollback" /\ script[s].pc = "waitok" /\ FromExe' = {}
           \/ pc \in {"upok", "giveup", "done", "start old"}
    PROVE  Lines(s)'
  BY DEF Lines, Goes, files, Spent

LEMMA QuietLinesKeep ==
    ASSUME Whole, NEW s \in Scripts, Wait(s) \/ SwapGivesUp(s) \/ SeeOk(s) \/ UpOk(s) PROVE Sound'
  <1>0. {"wait", "kill", "swap", "giveup", "waitok", "upok", "done"} \subseteq LinePcs
    BY DEF LinePcs
  <1>1. Spent /\ UNCHANGED <<files, app, ask>>
    BY NoneSpent, FaultSpent DEF Wait, SwapGivesUp, SeeOk, UpOk, Whole
  <1>2. PICK from \in LinePcs, pc \in LinePcs :
            /\ On(s, from) /\ Go(s, pc)
            /\ from = "wait" => app[script[s].pid].st = "off"
            /\ (from = "wait" /\ pc = "kill") \/ pc \in {"giveup", "upok", "done"}
    <2>1. CASE Wait(s)
      BY <1>0, <2>1 DEF Wait
    <2>2. CASE SwapGivesUp(s)
      BY <1>0, <2>2 DEF SwapGivesUp
    <2>3. CASE SeeOk(s) \/ UpOk(s)
      BY <1>0, <2>3 DEF SeeOk, UpOk
    <2> QED
      BY <2>1, <2>2, <2>3
  <1>3. s \in Active /\ script[s].pc = from /\ Lines(s) /\ Goes(s, pc)
    BY <1>2, AtLine
  <1>4. Lines(s)'
    BY <1>1, <1>2, <1>3, LinesMove
  <1> QED
    BY <1>1, <1>2, <1>3, <1>4, QuietLineKeeps

LEMMA KillHelpersKeeps == ASSUME Whole, NEW s \in Scripts, KillHelpers(s) PROVE Sound'
  <1>1. /\ s \in Active /\ script[s].pc = "kill" /\ Lines(s) /\ Goes(s, "swap") /\ script[s].was \in Good
    BY AtLine DEF KillHelpers, LinePcs
  <1>2. Spent /\ UNCHANGED <<files, exe, old>>
    BY NoneSpent DEF KillHelpers, files, Whole
  <1>3. Ended(FromExe) /\ Threads(FromExe) /\ FromExe \in SUBSET Pids
    BY OffEnded DEF KillHelpers, FromExe, Running, Whole
  <1>4. /\ Alive' /\ OneInside'
        /\ \A k \in Askers :
                \/ At(k, "idle")'
                \/ /\ ~At(k, "idle") /\ c'[k] = c[k] /\ c[k].pid \notin FromExe
                   /\ app'[c'[k].pid].st \in {"serving", "quitting"}
    BY <1>2, <1>3, EndedKeeps
  <1>5. Lines(s)' /\ Waited(s)'
    BY <1>1, <1>2, LinesMove DEF LinePcs, Goes, Waited
  <1>6. \A k \in Askers : ~At(k, "idle")' =>
            c'[k].pc \in {"flag", "answer"} /\ app'[c'[k].pid].st \in {"serving", "quitting"}
    BY <1>1, <1>4, LineAsks
  <1>7. exe' \in Good \/ old' \in Good
    BY <1>2 DEF Whole, Sound
  <1> QED
    BY <1>1, <1>4, <1>5, <1>6, <1>7, LineKeeps DEF Goes

LEMMA MoveOldKeeps == ASSUME Whole, NEW s \in Scripts, MoveOld(s) PROVE Sound'
  <1>1. /\ s \in Active /\ script[s].pc = "swap" /\ Lines(s) /\ Goes(s, "place") /\ script[s].was \in Good
    BY AtLine DEF MoveOld, LinePcs
  <1>2. UNCHANGED <<new, marker, prev, ask>> /\ old' = exe /\ exe' = NoFile
    BY DEF MoveOld
  <1>3. app' = [p \in Pids |-> IF p \in FromExe THEN [app[p] EXCEPT !.path = "old"] ELSE app[p]]
    BY DEF MoveOld
  <1>4. \A p \in Pids : app'[p].st = app[p].st /\ (p \in Running => app'[p].img = app[p].img /\ app'[p].path = "old")
    BY <1>3, MovedApps DEF Whole
  <1>5. Running' = Running /\ Owner' = Owner /\ FromExe' = {}
    BY <1>4 DEF Running, Owner, FromExe
  <1>6. exe \in Good
    BY <1>1 DEF Lines
  <1>7. Alive'
    BY <1>4, <1>5 DEF Whole, Sound, Alive, Owner, Running
  <1>8. Lines(s)' /\ Waited(s)'
    BY <1>1, <1>2 DEF Lines, Goes, Waited
  <1>9. \A k \in Askers : ~At(k, "idle")' =>
            c'[k].pc \in {"flag", "answer"} /\ app'[c'[k].pid].st \in {"serving", "quitting"}
    BY <1>1, <1>2, <1>4, LineAsks DEF At, ask
  <1>10. OneInside'
    BY <1>2 DEF Whole, Sound, OneInside, Inside, ask
  <1> QED
    BY <1>1, <1>2, <1>6, <1>7, <1>8, <1>9, <1>10, LineKeeps DEF Goes

\* Nothing runs from a place that holds no build.
LEMMA NoBuildNoCopy == ASSUME Whole, exe \in {NoFile, Torn} PROVE FromExe = {}
  <1>1. \A p \in FromExe : app[p].img \in Builds
    BY AppParts DEF Whole, FromExe, Running
  <1>2. exe \notin Builds
    BY ConstantsAssumption DEF Builds
  <1> QED
    BY <1>1, <1>2 DEF Whole, Sound, Alive

LEMMA PlaceKeeps == ASSUME Whole, NEW s \in Scripts, Place(s) PROVE Sound'
  <1>1. /\ s \in Active /\ script[s].pc = "place" /\ Lines(s) /\ script[s].was \in Good
        /\ \A to \in LinePcs : Go(s, to) => Goes(s, to)
    BY AtLine DEF Place, LinePcs
  <1>2. /\ UNCHANGED <<old, marker, prev, app, ask>>
        /\ old = script[s].was /\ exe = NoFile /\ new = script[s].ver /\ FromExe = {}
    BY <1>1, NoBuildNoCopy DEF Place, Lines
  <1>3. CASE exe' = new /\ new' = NoFile /\ Go(s, "mark") /\ UNCHANGED left
    <2>1. Goes(s, "mark")
      BY <1>1, <1>3 DEF LinePcs
    <2>2. Lines(s)'
      BY <1>1, <1>2, <1>3, <2>1 DEF Lines, Goes
    <2> QED
      BY <1>1, <1>2, <2>1, <2>2, FileLineKeeps DEF LinePcs
  <1>4. CASE Go(s, "restore") /\ UNCHANGED <<exe, new>>
    <2>1. Goes(s, "restore")
      BY <1>1, <1>4 DEF LinePcs
    <2>2. Lines(s)'
      BY <1>1, <1>2, <1>4, <2>1 DEF Lines, Goes
    <2> QED
      BY <1>1, <1>2, <1>4, <2>1, <2>2, FileLineKeeps DEF LinePcs
  <1> QED
    BY <1>3, <1>4 DEF Place

LEMMA CopyOldKeeps == ASSUME Whole, NEW s \in Scripts, CopyOld(s) PROVE Sound'
  <1>1. PICK from \in {"restore", "rollback"}, to \in {"restoring", "rolling back"} :
            /\ On(s, from) /\ Go(s, to) /\ (from = "restore" <=> to = "restoring")
    BY DEF CopyOld
  <1>2. /\ s \in Active /\ script[s].pc = from /\ Lines(s) /\ script[s].was \in Good /\ Goes(s, to)
    BY <1>1, AtLine DEF LinePcs
  <1>3. old = script[s].was /\ FromExe = {}
    BY <1>2, NoBuildNoCopy DEF Lines
  <1>4. /\ UNCHANGED <<old, new, marker, prev, app, ask, left>> /\ exe' = Torn
    BY DEF CopyOld
  <1>5. Lines(s)'
    BY <1>1, <1>2, <1>3, <1>4 DEF Lines, Goes
  <1> QED
    BY <1>2, <1>3, <1>4, <1>5, FileLineKeeps DEF LinePcs

LEMMA CopyEndKeeps == ASSUME Whole, NEW s \in Scripts, CopyRefused(s) \/ Copied(s) PROVE Sound'
  <1>1. PICK from \in {"restore", "restoring", "rollback", "rolling back"}, to \in {"giveup", "unmark"} :
            On(s, from) /\ Go(s, to) /\ (from \in {"restore", "restoring"} <=> to = "giveup")
    BY DEF CopyRefused, Copied
  <1>2. /\ s \in Active /\ script[s].pc = from /\ Lines(s) /\ script[s].was \in Good /\ Goes(s, to)
    BY <1>1, AtLine DEF LinePcs
  <1>3. old = script[s].was /\ FromExe = {}
    BY <1>2, NoBuildNoCopy DEF Lines
  <1>4. /\ UNCHANGED <<old, new, marker, prev, app, ask>> /\ Spent
        /\ exe' = old \/ "copy" \in left'.had
    <2>1. CASE CopyRefused(s)
      <3>1. Mishap("copy")
        BY <1>3, <2>1 DEF CopyRefused
      <3> QED
        BY <2>1, <3>1, MishapSpent DEF CopyRefused, files, Whole, Kinds
    <2>2. CASE Copied(s)
      <3>1. UNCHANGED <<old, new, marker, prev, app, ask>>
        BY <2>2 DEF Copied
      <3>2. CASE exe' = old /\ UNCHANGED left
        BY <3>1, <3>2, NoneSpent DEF Whole
      <3>3. CASE Mishap("copy")
        BY <3>1, <3>3, MishapSpent DEF Whole, Kinds
      <3> QED
        BY <2>2, <3>2, <3>3 DEF Copied
    <2> QED
      BY <2>1, <2>2
  <1>5. Lines(s)'
    BY <1>1, <1>2, <1>3, <1>4 DEF Lines, Goes, Spent
  <1> QED
    BY <1>2, <1>3, <1>4, <1>5, FileLineKeeps DEF LinePcs

LEMMA MarkKeeps == ASSUME Whole, NEW s \in Scripts, Mark(s) PROVE Sound'
  <1>1. /\ s \in Active /\ script[s].pc = "mark" /\ Lines(s) /\ Goes(s, "start") /\ script[s].was \in Good
    BY AtLine DEF Mark, LinePcs
  <1>2. marker # NoFile /\ old = script[s].was /\ marker = script[s].said
    BY <1>1, ConstantsAssumption DEF Whole, TypeOK, Marks, Builds, Lines
  <1>3. /\ Spent /\ UNCHANGED <<exe, old, new, app, ask>>
        /\ prev' = script[s].said \/ "mark" \in left'.had
    <2>1. CASE Mishap("mark")
      BY <2>1, MishapSpent DEF Mark, Whole, Kinds
    <2>2. CASE (prev' = IF marker = NoFile THEN prev ELSE marker) /\ UNCHANGED left
      BY <1>2, <2>2, NoneSpent DEF Mark, Whole
    <2> QED
      BY <2>1, <2>2 DEF Mark
  <1>4. Lines(s)'
    BY <1>1, <1>2, <1>3 DEF Lines, Goes
  <1> QED
    BY <1>1, <1>2, <1>3, <1>4, FileLineKeeps DEF LinePcs

LEMMA UnmarkKeeps == ASSUME Whole, NEW s \in Scripts, Unmark(s) PROVE Sound'
  <1>1. /\ s \in Active /\ script[s].pc = "unmark" /\ Lines(s) /\ Goes(s, "start old") /\ script[s].was \in Good
    BY AtLine DEF Unmark, LinePcs
  <1>2. UNCHANGED <<exe, old, new, prev, app, ask>> /\ old = script[s].was
    BY <1>1 DEF Unmark, Lines
  <1>3. Lines(s)'
    BY <1>1 DEF Lines, Goes
  <1> QED
    BY <1>1, <1>2, <1>3, FileLineKeeps DEF LinePcs

LEMMA NoOkKeeps == ASSUME Whole, NEW s \in Scripts, NoOk(s) PROVE Sound'
  <1>1. /\ s \in Active /\ script[s].pc = "waitok" /\ Lines(s) /\ \A to \in LinePcs : Go(s, to) => Goes(s, to)
    BY AtLine DEF NoOk, LinePcs
  <1>2. Spent /\ UNCHANGED <<files, app, ask>> /\ FromExe' = FromExe
    BY NoneSpent DEF NoOk, Whole, FromExe, Running
  <1>3. PICK pc \in {"upok", "rollback"} : Go(s, pc) /\ (pc = "rollback" => FromExe = {})
    <2>1. CASE FromExe = {}
      BY <2>1 DEF NoOk
    <2>2. CASE FromExe # {}
      BY <2>2 DEF NoOk
    <2> QED
      BY <2>1, <2>2
  <1>4. Goes(s, pc) /\ pc \in LinePcs \ {"wait"}
    BY <1>1, <1>3 DEF LinePcs
  <1>5. Lines(s)'
    BY <1>1, <1>2, <1>3, <1>4, LinesMove
  <1> QED
    BY <1>1, <1>2, <1>4, <1>5, QuietLineKeeps

\* A line that starts the program.
LEMMA StartLinesKeep == ASSUME Whole, NEW s \in Scripts, StartNew(s) \/ StartOld(s) \/ GiveUp(s) PROVE Sound'
  <1>1. PICK from \in {"start", "start old", "giveup"}, pc \in {"waitok", "done"} :
            On(s, from) /\ Go(s, pc) /\ (from = "start" <=> pc = "waitok")
    BY DEF StartNew, StartOld, GiveUp
  <1>2. /\ s \in Active /\ script[s].pc = from /\ Lines(s) /\ Goes(s, pc)
    BY <1>1, AtLine DEF LinePcs
  <1>3. Started(Free(relaunch))
    BY StartStarted, FreePids DEF StartNew, StartOld, GiveUp, Whole
  <1>4. Spent /\ UNCHANGED <<files, ask>>
    BY NoneSpent DEF StartNew, StartOld, GiveUp, Whole
  <1>5. UNCHANGED <<exe, old, c, applying>> /\ (exe \in Good \/ old \in Good)
    BY <1>4 DEF files, ask, Whole, Sound
  <1>6. Alive' /\ \A k \in Askers : ~At(k, "idle") => app'[c[k].pid].st \in {"serving", "quitting"}
    BY <1>3, <1>4, <1>5, StartedKeeps
  <1>7. OneInside'
    BY <1>5 DEF Whole, Sound, OneInside, Inside
  <1>8. Lines(s)'
    BY <1>1, <1>2, <1>4, LinesMove DEF LinePcs
  <1>9. OthersSwap(s) /\ Waited(s)'
    BY <1>2 DEF Goes, Waited
  <1>10. \A k \in Askers : ~At(k, "idle")' =>
            c'[k].pc \in {"flag", "answer"} /\ app'[c'[k].pid].st \in {"serving", "quitting"}
    BY <1>2, <1>5, <1>6, LineAsks DEF At
  <1> QED
    BY <1>2, <1>5, <1>6, <1>7, <1>8, <1>9, <1>10, LineKeeps

LEMMA DoneKeeps == ASSUME Whole, NEW s \in Scripts, Done(s) PROVE Sound'
  <1>1. /\ s \in Active /\ script[s].pc = "done"
    BY AtLine DEF Done, LinePcs
  <1>2. UNCHANGED <<exe, old, app, ask>>
    BY DEF Done, files
  <1>3. NoScript \in Swaps
    BY Zenon DEF Swaps
  <1>4. OthersSwap(s) /\ script'[s].pc = "none"
    BY <1>3 DEF Done, Whole, TypeOK, OthersSwap, NoScript
  <1>5. Alive' /\ OneInside'
    BY <1>2 DEF Whole, Sound, Alive, Owner, FromExe, Running, OneInside, Inside, ask
  <1>6. \A k \in Askers : ~At(k, "idle")' =>
            c'[k].pc \in {"flag", "answer"} /\ app'[c'[k].pid].st \in {"serving", "quitting"}
    BY <1>1, <1>2, LineAsks DEF At, ask
  <1>7. exe' \in Good \/ old' \in Good
    BY <1>2 DEF Whole, Sound
  <1> QED
    BY <1>1, <1>4, <1>5, <1>6, <1>7, LineKeeps

(* The invariant holds.                                                      *)

LEMMA InitHolds == ASSUME Init PROVE IInv
  <1>1. Active = {} /\ Running = {} /\ Owner = {} /\ FromExe = {}
    BY DEF Init, Active, Running, Owner, FromExe, Off, NoScript
  <1>2. First \in Builds \ Broken
    BY ConstantsAssumption DEF Builds
  <1>3. Alive
    BY <1>1 DEF Alive
  <1>4. \A k \in Askers : AskOf(k) /\ ~Inside(k)
    BY DEF Init, AskOf, At, Early, Inside, Resting
  <1>5. OneInside /\ Swapping /\ Unmissed
    BY <1>1, <1>4 DEF OneInside, Swapping, Unmissed
  <1>6. Sound /\ Alone
    BY <1>2, <1>3, <1>4, <1>5 DEF Init, Sound, Good, Alone
  <1> QED
    BY <1>6, InitTyped DEF IInv

LEMMA StutterKeeps == ASSUME Whole, UNCHANGED vars PROVE Sound'
  <1>1. Active' = Active /\ Running' = Running /\ Owner' = Owner /\ FromExe' = FromExe /\ Spent
    BY NoneSpent DEF vars, Active, Running, Owner, FromExe, Whole
  <1>2. Alive' /\ OneInside' /\ Unmissed' /\ \A k \in Askers : AskOf(k)'
    BY <1>1 DEF Whole, Sound, vars, Alive, OneInside, Unmissed, Timely, Inside, AskOf, At, Early
  <1>3. ASSUME NEW s \in Active PROVE Lines(s)' /\ Waited(s)'
    <2>1. Lines(s)'
      BY <1>1, <1>3, LinesStay DEF Whole, Sound, Swapping, vars, Lines
    <2>2. Waited(s)'
      BY <1>1, <1>3 DEF Whole, Sound, Swapping, vars, Waited, At
    <2> QED
      BY <2>1, <2>2
  <1> QED
    BY <1>1, <1>2, <1>3 DEF Whole, Sound, Swapping, vars

LEMMA NextKeeps == ASSUME Whole, Alone', [Next]_vars PROVE Sound'
  <1>1. ASSUME NEW k \in Askers, AskApply(k) \/ Ask(k) PROVE Sound'
    BY <1>1, AskApplyKeeps, ClaimKeeps, FetchKeeps, FetchFailsKeeps, VerifyKeeps, WriteScriptKeeps, RunScriptKeeps,
       FlagKeeps, AnswerKeeps DEF Ask
  <1>2. ASSUME NEW s \in Scripts, Line(s) PROVE Sound'
    BY <1>2, QuietLinesKeep, KillHelpersKeeps, MoveOldKeeps, PlaceKeeps, CopyOldKeeps, CopyEndKeeps,
       MarkKeeps, UnmarkKeeps, NoOkKeeps, StartLinesKeep, DoneKeeps DEF Line
  <1>3. ASSUME NEW p \in Pids, Live(p) \/ Restart(p) \/ Close(p) PROVE Sound'
    BY <1>3, BootKeeps, SettleKeeps, LeavesKeeps, RelaunchKeeps, RestartKeeps DEF Live
  <1> QED
    BY <1>1, <1>2, <1>3, OpenKeeps, PowerCutKeeps, StutterKeeps DEF Next

\* What a step may use up: a mishap, and nothing else that counts as one.
Costs ==
    \/ left'.mishaps = left.mishaps /\ left.had \subseteq left'.had /\ left'.had \subseteq left.had \cup {"late"}
    \/ \E what \in Kinds \ {"second"} : Mishap(what)

LEMMA StepCosts == ASSUME TypeOK, Next, \A k \in Askers : ~Claim(k) PROVE Costs
  <1>0. {"cut", "fault", "flag", "copy", "mark"} \subseteq Kinds \ {"second"}
    BY DEF Kinds
  <1>1. UNCHANGED left => Costs
    BY DEF Costs
  <1>2. Fault => Costs
    BY <1>0 DEF Costs, Fault
  <1>3. ASSUME NEW k \in Askers, AskApply(k) \/ Ask(k) PROVE Costs
    <2>1. CASE AskApply(k)
      <3>1. left'.mishaps = left.mishaps /\ left'.had = left.had
        BY <2>1 DEF AskApply, Download, TypeOK, Lefts
      <3> QED
        BY <3>1 DEF Costs
    <2>2. CASE Flag(k)
      <3>1. CASE Noted("late", \E l \in Askers : At(l, "claim"))
        BY <3>1, NotedSpent DEF Costs, Kinds
      <3>2. CASE Mishap("flag")
        BY <1>0, <3>2 DEF Costs
      <3> QED
        BY <2>2, <3>1, <3>2 DEF Flag
    <2>3. CASE Fetch(k) \/ FetchFails(k) \/ WriteScript(k) \/ RunScript(k)
      BY <1>1, <1>2, <2>3 DEF Fetch, FetchFails, WriteScript, RunScript
    <2>4. CASE Verify(k) \/ Answer(k)
      BY <1>1, <2>4 DEF Verify, Answer
    <2> QED
      BY <1>3, <2>1, <2>2, <2>3, <2>4 DEF Ask
  <1>4. ASSUME NEW s \in Scripts, Line(s) PROVE Costs
    <2>1. CASE SwapGivesUp(s) \/ Place(s)
      BY <1>1, <1>2, <2>1 DEF SwapGivesUp, Place
    <2>2. CASE CopyRefused(s) \/ Copied(s) \/ Mark(s) \/ Unmark(s)
      <3>1. UNCHANGED left \/ Mishap("copy") \/ Mishap("mark")
        BY <2>2 DEF CopyRefused, Copied, Mark, Unmark
      <3> QED
        BY <1>0, <1>1, <3>1 DEF Costs
    <2>3. CASE \/ Wait(s) \/ KillHelpers(s) \/ MoveOld(s) \/ CopyOld(s) \/ StartNew(s) \/ SeeOk(s) \/ NoOk(s)
               \/ StartOld(s) \/ GiveUp(s) \/ UpOk(s) \/ Done(s)
      BY <1>1, <2>3 DEF Wait, KillHelpers, MoveOld, CopyOld, StartNew, SeeOk, NoOk, StartOld, GiveUp, UpOk, Done
    <2> QED
      BY <1>4, <2>1, <2>2, <2>3 DEF Line
  <1>5. ASSUME NEW p \in Pids, Live(p) \/ Restart(p) \/ Close(p) PROVE Costs
    <2>1. CASE Boot(p)
      BY <1>1, <1>2, <2>1 DEF Boot, Confirm
    <2>2. CASE Settle(p) \/ Quit(p) \/ Restart(p) \/ Close(p) \/ Relaunch(p)
      BY <1>1, <2>2 DEF Settle, Quit, Restart, Close, Relaunch
    <2> QED
      BY <1>5, <2>1, <2>2 DEF Live
  <1>6. Open => Costs
    BY <1>1 DEF Open
  <1>7. PowerCut => Costs
    BY <1>0 DEF PowerCut, Costs
  <1> QED
    BY <1>3, <1>4, <1>5, <1>6, <1>7 DEF Next

\* What happened so far is not forgotten, and only a claim begins a second update.
LEMMA NextHad ==
    ASSUME TypeOK, [Next]_vars
    PROVE  (~Alone => ~Alone') /\ (Timely' => Timely)
           /\ (Alone /\ ~Alone' => \E k \in Askers : Claim(k))
  <1>1. CASE \E k \in Askers : Claim(k)
    <2>1. left.had \subseteq left'.had
      BY <1>1, NotedSpent DEF Claim, Kinds, Spent
    <2> QED
      BY <1>1, <2>1 DEF Alone, Timely
  <1>2. CASE UNCHANGED vars
    BY <1>2 DEF vars, Alone, Timely
  <1>3. CASE Next /\ \A k \in Askers : ~Claim(k)
    <2>1. /\ left.had \subseteq left'.had
          /\ "second" \in left'.had => "second" \in left.had
      <3>1. Costs
        BY <1>3, StepCosts
      <3>2. ASSUME NEW what \in Kinds \ {"second"}, Mishap(what)
            PROVE  left.had \subseteq left'.had /\ ("second" \in left'.had => "second" \in left.had)
        BY <3>2, MishapSpent
      <3> QED
        BY <3>1, <3>2 DEF Costs
    <2> QED
      BY <2>1 DEF Alone, Timely
  <1> QED
    BY <1>1, <1>2, <1>3

LEMMA Invariant == Spec => []IInv
  <1>1. IInv /\ [Next]_vars => IInv'
    <2> SUFFICES ASSUME IInv, [Next]_vars PROVE IInv'
      OBVIOUS
    <2>1. TypeOK' /\ (Alone' => Alone) /\ (Timely' => Timely)
      BY NextTyped, NextHad DEF IInv
    <2>2. Alone' => Sound'
      BY <2>1, NextKeeps DEF IInv, Whole
    <2>3. Timely' => Alone'
      BY <2>1, NextHad, ClaimAlone DEF IInv, Whole
    <2> QED
      BY <2>1, <2>2, <2>3 DEF IInv
  <1> QED
    BY <1>1, InitHolds, PTL DEF Spec

(* The results.                                                              *)

\* apply's "one at a time": whatever is asked for, restarted, closed or started meanwhile, no
\* update is begun beside a script that waits and no two scripts run, unless the pending
\* flag was lost or came too late.
THEOREM OneSwapAlways == Spec => []OneSwap
  <1>1. IInv => OneSwap
    <2> SUFFICES ASSUME IInv, Timely PROVE ~(Cardinality(Active) > 1)
      BY DEF OneSwap, Timely, IInv
    <2>1. \A s, t \in Active : s = t
      BY DEF IInv, Sound, Swapping
    <2>2. CASE Active = {}
      BY <2>2, FS_EmptySet
    <2>3. CASE Active # {}
      <3>1. PICK s \in Active : TRUE
        BY <2>3
      <3>2. Active = {s}
        BY <2>1, <3>1
      <3>3. Cardinality(Active) = 1
        BY <3>2, FS_Singleton
      <3> QED
        BY <3>3
    <2> QED
      BY <2>2, <2>3
  <1> QED
    BY <1>1, Invariant, PTL

\* The moves of the swap script: after any number of failed operations, lost flags and power
\* cuts the installed file or .old is a build that starts, while no second update is begun
\* beside a waiting one.
THEOREM StartsAgainAlways == Spec => []StartsAgain
  <1>1. IInv => StartsAgain
    BY DEF IInv, StartsAgain, Sound, Good
  <1> QED
    BY <1>1, Invariant, PTL

LEMMA UnmarkRight ==
    ASSUME Whole, Next, NEW s \in Scripts, script[s].pc = "unmark", script'[s].pc = "start old"
    PROVE  /\ exe = script[s].was \/ "copy" \in left.had
           /\ marker' = script[s].said \/ "mark" \in left'.had
  <1>1. s \in Active
    BY DEF Active
  <1>2. Lines(s)
    BY <1>1 DEF Whole, Sound, Swapping
  <1>3. script' # script /\ script' # [t \in Scripts |-> NoScript]
    <2>1. NoScript.pc = "none"
      BY DEF NoScript
    <2>2. script' # script
      OBVIOUS
    <2>3. ASSUME script' = [t \in Scripts |-> NoScript] PROVE FALSE
      <3>1. script'[s] = NoScript
        BY <2>3
      <3> QED
        BY <2>1, <3>1
    <2> QED
      BY <2>2, <2>3
  <1>4. PICK t \in Active : Line(t)
    <2>1. \/ script' = script
          \/ \E k \in Askers : RunScript(k)
          \/ \E t \in Scripts : Line(t)
          \/ script' = [t \in Scripts |-> NoScript]
      BY DEF Next, AskApply, Ask, Claim, Fetch, FetchFails, Verify, WriteScript, Flag, Answer, Live, Boot,
             Settle, Quit, Relaunch, Restart, Close, Open, PowerCut
    <2>2. \A k \in Askers : ~RunScript(k)
      BY <1>1 DEF Whole, Sound, AskOf, Early, RunScript, At
    <2>3. \A t \in Scripts : Line(t) => script[t].pc # "none"
      BY DEF Line, On, Wait, KillHelpers, MoveOld, SwapGivesUp, Place, CopyOld, CopyRefused, Copied, Mark,
             StartNew, SeeOk, NoOk, Unmark, StartOld, GiveUp, UpOk, Done
    <2> QED
      BY <1>3, <2>1, <2>2, <2>3 DEF Active
  <1>5. t = s
    BY <1>1, <1>4 DEF Whole, Sound, Swapping
  <1>6. Unmark(s)
    BY <1>4, <1>5 DEF Line, On, Wait, KillHelpers, MoveOld, SwapGivesUp, Place, CopyOld, CopyRefused, Copied,
                      Mark, StartNew, SeeOk, NoOk, StartOld, GiveUp, UpOk, Done
  <1>7. marker' = script[s].said \/ "mark" \in left'.had
    <2>1. CASE Mishap("mark")
      BY <2>1, MishapSpent DEF Whole, Kinds
    <2>2. CASE (marker' = IF prev = NoFile THEN marker ELSE prev) /\ UNCHANGED left
      <3>1. script[s].said \in Marks
        BY <1>1, SwapParts DEF Whole, Active
      <3>2. NoFile \notin Marks
        BY ConstantsAssumption DEF Marks, Builds
      <3> QED
        BY <1>2, <2>2, <3>1, <3>2 DEF Lines
    <2> QED
      BY <1>6, <2>1, <2>2 DEF Unmark
  <1> QED
    BY <1>2, <1>7 DEF Lines

\* The rollback puts back the build that was installed when the update was accepted, with what
\* version.txt said then, but for a copy or a marker that could not be written.
THEOREM RollbackRightAlways == Spec => RollbackRight
  <1> DEFINE Right == \A s \in Scripts :
        script[s].pc = "unmark" /\ script'[s].pc = "start old" /\ Alone
        => /\ exe = script[s].was \/ "copy" \in left.had
           /\ marker' = script[s].said \/ "mark" \in left'.had
  <1>1. IInv /\ [Next]_vars => [Right]_vars
    BY UnmarkRight DEF vars, IInv, Whole
  <1> QED
    BY <1>1, Invariant, PTL DEF Spec, RollbackRight

\* "rolling back would fight it": no script goes about overwriting the file of a copy that serves.
THEOREM KeepsLiveAlways == Spec => KeepsLive
  <1> DEFINE Kept == \A s \in Scripts :
        script[s].pc = "rollback" /\ script'[s].pc \in {"rolling back", "unmark"} /\ Alone
        => \A p \in FromExe : ~Serving(p)
  <1>1. IInv => [Kept]_vars
    BY DEF IInv, Sound, Swapping, Lines, Active
  <1> QED
    BY <1>1, Invariant, PTL DEF KeepsLive

(* The refinement: each step of the update is one of Installed, or none.     *)

Seen == <<Current, old, Had>>
Moves == Promise!Keep \/ Promise!Replace \/ Promise!Restore \/ Promise!Mishap \/ UNCHANGED Seen

LEMMA HadFalls == ASSUME Whole, NEW what \in Kinds, Mishap(what) PROVE Had' = Had + 1
  <1>1. left.mishaps \in Nat /\ left'.mishaps = left.mishaps - 1
    BY MishapSpent DEF Whole, TypeOK, Lefts
  <1> QED
    BY <1>1, ConstantsAssumption DEF Had

LEMMA HadStays == ASSUME UNCHANGED left PROVE Had' = Had
  BY DEF Had

\* A step that moves no file, and at most fails.
LEMMA AsideStep ==
    ASSUME Whole, UNCHANGED <<exe, old>>, Moving' <=> Moving, Costs
    PROVE  Moves
  <1>1. Current' = Current
    BY DEF Current
  <1>2. Had' = Had \/ Had' = Had + 1
    <2>1. CASE left'.mishaps = left.mishaps
      BY <2>1 DEF Had
    <2>2. ASSUME NEW what \in Kinds, Mishap(what) PROVE Had' = Had + 1
      BY <2>2, HadFalls
    <2> QED
      BY <2>1, <2>2 DEF Costs
  <1> QED
    BY <1>1, <1>2 DEF Seen, Moves, Promise!Mishap

\* Where the program is while the one script that runs moves it.
MovePcs == {"place", "restore", "restoring", "rolling back"}

LEMMA MovingAt ==
    ASSUME Whole, NEW s \in Active
    PROVE  /\ Moving <=> script[s].pc \in MovePcs
           /\ OthersSwap(s) => (Moving' <=> script'[s].pc \in MovePcs)
  <1>1. \A t \in Active : t = s
    BY DEF Whole, Sound, Swapping
  <1>2. OthersSwap(s) => \A t \in Active' : t = s
    BY <1>1 DEF Active, OthersSwap
  <1>3. s \in Scripts
    BY DEF Active
  <1> QED
    BY <1>1, <1>2, <1>3 DEF Moving, Active, MovePcs

\* A step of a request or of the processes.
LEMMA ProcessStep == ASSUME Whole, UNCHANGED <<exe, old, script>>, Costs PROVE Moves
  <1>1. Moving' <=> Moving
    BY DEF Moving, Active
  <1> QED
    BY <1>1, AsideStep

LEMMA RunScriptStep == ASSUME Whole, NEW k \in Askers, RunScript(k), Costs PROVE Moves
  <1>1. UNCHANGED <<exe, old>> /\ Active = {}
    BY DEF RunScript, files, Whole, Sound, AskOf, Early, At
  <1>2. CASE UNCHANGED script
    BY <1>1, <1>2, ProcessStep
  <1>3. CASE ~UNCHANGED script
    <2>1. PICK s \in Scripts : OthersSwap(s) /\ script'[s].pc = "wait"
      BY <1>3, RunStarts DEF Whole
    <2>2. \A t \in Scripts : script'[t].pc \in {"wait", "none"}
      BY <1>1, <2>1 DEF Active, OthersSwap
    <2>3. ~Moving /\ ~Moving'
      BY <1>1, <2>2 DEF Moving, Active
    <2> QED
      BY <1>1, <2>3, AsideStep
  <1> QED
    BY <1>2, <1>3

LEMMA AskStep ==
    ASSUME Whole, NEW k \in Askers, AskApply(k) \/ Ask(k), ~Claim(k), Costs
    PROVE  Moves
  <1>1. CASE RunScript(k)
    BY <1>1, RunScriptStep
  <1>2. CASE AskApply(k) \/ Flag(k) \/ Answer(k) \/ Verify(k)
    BY <1>2, ProcessStep DEF AskApply, Flag, Answer, Verify, files
  <1>3. CASE Fetch(k) \/ FetchFails(k) \/ WriteScript(k)
    BY <1>3, ProcessStep DEF Fetch, FetchFails, WriteScript, files
  <1> QED
    BY <1>1, <1>2, <1>3 DEF Ask

LEMMA LiveStep ==
    ASSUME Whole, NEW p \in Pids, Live(p) \/ Restart(p) \/ Close(p), Costs
    PROVE  Moves
  <1>1. UNCHANGED <<exe, old, script>>
    BY DEF Live, Boot, Settle, Quit, Restart, Close, Relaunch, files
  <1> QED
    BY <1>1, ProcessStep

LEMMA PowerCutStep == ASSUME Whole, PowerCut PROVE Moves
  <1>1. Had' = Had + 1
    BY HadFalls DEF PowerCut, Kinds
  <1>2. UNCHANGED <<exe, old>>
    BY DEF PowerCut, files
  <1>3. Current' \in {Current, old, NoFile}
    BY <1>2 DEF Current
  <1> QED
    BY <1>1, <1>2, <1>3 DEF Moves, Promise!Mishap

\* A line of the script that leaves both places alone, neither at nor before a move.
LEMMA QuietLineStep ==
    ASSUME Whole, NEW s \in Scripts, script[s].pc \notin MovePcs \cup {"none"},
           OthersSwap(s), script'[s].pc \notin MovePcs, UNCHANGED <<exe, old>>, Costs
    PROVE  Moves
  <1>1. s \in Active
    BY DEF Active
  <1>2. ~Moving /\ ~Moving'
    BY <1>1, MovingAt
  <1> QED
    BY <1>2, AsideStep

LEMMA MoveOldStep == ASSUME Whole, NEW s \in Scripts, MoveOld(s) PROVE Moves
  <1>1. s \in Active /\ script[s].pc = "swap" /\ Lines(s) /\ Goes(s, "place") /\ script[s].was \in Good
    BY AtLine DEF MoveOld, LinePcs
  <1>2. Moving'
    BY <1>1, MovingAt DEF Goes, MovePcs
  <1>3. exe = script[s].was
    BY <1>1 DEF Lines
  <1>4. exe \in Builds /\ exe # NoFile /\ NoFile \notin Builds
    BY <1>1, <1>3, ConstantsAssumption DEF Good, Builds
  <1>5. Current = exe /\ old' = exe /\ exe' = NoFile
    BY <1>4 DEF Current, MoveOld
  <1>6. Current' = exe
    BY <1>2, <1>4, <1>5 DEF Current
  <1>7. Had' = Had
    BY HadStays DEF MoveOld
  <1> QED
    BY <1>4, <1>5, <1>6, <1>7 DEF Moves, Promise!Keep

LEMMA PlaceStep == ASSUME Whole, NEW s \in Scripts, Place(s), Costs PROVE Moves
  <1>1. /\ s \in Active /\ script[s].pc = "place" /\ Lines(s) /\ script[s].ver \in Releases
        /\ \A to \in LinePcs : Go(s, to) => Goes(s, to)
    BY AtLine DEF Place, LinePcs
  <1>2. Moving
    BY <1>1, MovingAt DEF MovePcs
  <1>3. exe = NoFile /\ new = script[s].ver /\ NoFile \notin Builds /\ old' = old
    BY <1>1, ConstantsAssumption DEF Lines, Builds, Place
  <1>4. Current = old
    BY <1>2, <1>3 DEF Current
  <1>5. CASE exe' = new /\ UNCHANGED left
    <2>1. Current' = new
      BY <1>1, <1>3, <1>5 DEF Current, Builds
    <2>2. Had' = Had
      BY <1>5, HadStays
    <2> QED
      BY <1>1, <1>3, <1>4, <2>1, <2>2 DEF Moves, Promise!Replace
  <1>6. CASE Go(s, "restore") /\ UNCHANGED exe
    <2>1. Goes(s, "restore")
      BY <1>1, <1>6 DEF LinePcs
    <2>2. Moving'
      BY <1>1, <2>1, MovingAt DEF Goes, MovePcs
    <2> QED
      BY <1>2, <1>3, <1>6, <2>2, AsideStep
  <1> QED
    BY <1>5, <1>6 DEF Place

LEMMA CopyOldStep == ASSUME Whole, NEW s \in Scripts, CopyOld(s) PROVE Moves
  <1>1. PICK from \in {"restore", "rollback"}, to \in {"restoring", "rolling back"} : On(s, from) /\ Go(s, to)
    BY DEF CopyOld
  <1>2. s \in Active /\ script[s].pc = from /\ Lines(s) /\ script[s].was \in Good /\ Goes(s, to)
    BY <1>1, AtLine DEF LinePcs
  <1>3. Moving'
    BY <1>1, <1>2, MovingAt DEF Goes, MovePcs
  <1>4. Torn \notin Builds /\ NoFile \notin Builds
    BY ConstantsAssumption DEF Builds
  <1>5. old' = old /\ exe' = Torn /\ Had' = Had
    BY HadStays DEF CopyOld
  <1>6. Current' = old
    BY <1>3, <1>4, <1>5 DEF Current
  <1>7. old # NoFile
    BY <1>2, <1>4 DEF Good, Lines
  <1> QED
    BY <1>5, <1>6, <1>7 DEF Moves, Promise!Restore

\* A copy refused before the program was back loses what a user would start.
LEMMA CopyRefusedStep == ASSUME Whole, NEW s \in Scripts, CopyRefused(s), Costs PROVE Moves
  <1>1. PICK from \in {"restore", "rollback"}, to \in {"giveup", "unmark"} :
            On(s, from) /\ Go(s, to) /\ (from = "restore" <=> to = "giveup")
    BY DEF CopyRefused
  <1>2. s \in Active /\ script[s].pc = from /\ Lines(s) /\ Goes(s, to)
    BY <1>1, AtLine DEF LinePcs
  <1>3. (Moving <=> from = "restore") /\ ~Moving'
    BY <1>1, <1>2, MovingAt DEF Goes, MovePcs
  <1>4. UNCHANGED <<exe, old>>
    BY DEF CopyRefused, files
  <1>5. CASE from = "rollback"
    BY <1>3, <1>4, <1>5, AsideStep
  <1>6. CASE from = "restore"
    <2>1. exe = NoFile /\ FromExe = {} /\ NoFile \notin Builds
      BY <1>2, <1>6, NoBuildNoCopy, ConstantsAssumption DEF Lines, Builds
    <2>2. Had' = Had + 1
      BY <2>1, HadFalls DEF CopyRefused, Kinds
    <2>3. Current = old /\ Current' = NoFile
      BY <1>3, <1>4, <1>6, <2>1 DEF Current
    <2> QED
      BY <1>4, <2>2, <2>3 DEF Moves, Promise!Mishap
  <1> QED
    BY <1>1, <1>5, <1>6

LEMMA CopiedStep == ASSUME Whole, NEW s \in Scripts, Copied(s) PROVE Moves
  <1>1. PICK from \in {"restoring", "rolling back"}, to \in {"giveup", "unmark"} : On(s, from) /\ Go(s, to)
    BY DEF Copied
  <1>2. s \in Active /\ script[s].pc = from /\ Lines(s) /\ script[s].was \in Good /\ Goes(s, to)
    BY <1>1, AtLine DEF LinePcs
  <1>3. Moving /\ ~Moving'
    BY <1>1, <1>2, MovingAt DEF Goes, MovePcs
  <1>4. Torn \notin Builds
    BY ConstantsAssumption DEF Builds
  <1>5. exe = Torn /\ old = script[s].was /\ script[s].was \in Good
    BY <1>1, <1>2 DEF Lines
  <1>6. Current = old /\ old' = old /\ old \in Builds
    BY <1>3, <1>4, <1>5 DEF Current, Good, Copied
  <1>7. CASE exe' = old /\ UNCHANGED left
    <2>1. Current' = old
      BY <1>6, <1>7 DEF Current
    <2>2. Had' = Had
      BY <1>7, HadStays
    <2> QED
      BY <1>6, <2>1, <2>2 DEF Moves, Seen
  <1>8. CASE Mishap("copy") /\ UNCHANGED exe
    <2>1. Current' = NoFile
      BY <1>3, <1>4, <1>5, <1>8 DEF Current
    <2>2. Had' = Had + 1
      BY <1>8, HadFalls DEF Kinds
    <2> QED
      BY <1>6, <2>1, <2>2 DEF Moves, Promise!Mishap
  <1> QED
    BY <1>7, <1>8 DEF Copied

LEMMA LineStep == ASSUME Whole, NEW s \in Scripts, Line(s), Costs PROVE Moves
  <1>1. CASE MoveOld(s) \/ Place(s) \/ CopyOld(s) \/ CopyRefused(s) \/ Copied(s)
    BY <1>1, MoveOldStep, PlaceStep, CopyOldStep, CopyRefusedStep, CopiedStep
  <1>2. CASE Done(s)
    <2>1. NoScript \in Swaps /\ NoScript.pc = "none"
      BY Zenon DEF Swaps, NoScript
    <2>2. OthersSwap(s) /\ script'[s].pc = "none"
      BY <1>2, <2>1 DEF Done, Whole, TypeOK, OthersSwap
    <2> QED
      BY <1>2, <2>2, QuietLineStep DEF Done, On, MovePcs, files
  <1>3. ASSUME NEW pc \in LinePcs \ MovePcs, Go(s, pc), script[s].pc \notin MovePcs \cup {"none"},
               UNCHANGED <<exe, old>>
        PROVE  Moves
    <2>1. Goes(s, pc)
      BY <1>3, GoGoes DEF Whole
    <2> QED
      BY <1>3, <2>1, QuietLineStep DEF Goes
  <1>4. {"kill", "swap", "giveup", "start", "waitok", "upok", "rollback", "start old", "done"}
          \subseteq LinePcs \ MovePcs
    BY DEF LinePcs, MovePcs
  <1>5. CASE Wait(s) \/ KillHelpers(s) \/ SwapGivesUp(s) \/ Mark(s)
    BY <1>3, <1>4, <1>5 DEF Wait, KillHelpers, SwapGivesUp, Mark, On, MovePcs, files
  <1>6. CASE StartNew(s) \/ SeeOk(s) \/ NoOk(s) \/ Unmark(s)
    BY <1>3, <1>4, <1>6 DEF StartNew, SeeOk, NoOk, Unmark, On, MovePcs, files
  <1>7. CASE StartOld(s) \/ GiveUp(s) \/ UpOk(s)
    BY <1>3, <1>4, <1>7 DEF StartOld, GiveUp, UpOk, On, MovePcs, files
  <1> QED
    BY <1>1, <1>2, <1>5, <1>6, <1>7 DEF Line

LEMMA Steps == ASSUME Whole, Next, \A k \in Askers : ~Claim(k) PROVE Moves
  <1>0. Costs
    BY StepCosts DEF Whole
  <1>1. ASSUME NEW k \in Askers, AskApply(k) \/ Ask(k) PROVE Moves
    BY <1>0, <1>1, AskStep
  <1>2. ASSUME NEW s \in Scripts, Line(s) PROVE Moves
    BY <1>0, <1>2, LineStep
  <1>3. ASSUME NEW p \in Pids, Live(p) \/ Restart(p) \/ Close(p) PROVE Moves
    BY <1>0, <1>3, LiveStep
  <1>4. CASE Open
    BY <1>0, <1>4, ProcessStep DEF Open, files
  <1>5. CASE PowerCut
    BY <1>5, PowerCutStep
  <1> QED
    BY <1>1, <1>2, <1>3, <1>4, <1>5 DEF Next

\* A claim moves nothing, whether or not it begins a second update.
LEMMA ClaimStep == ASSUME TypeOK, NEW k \in Askers, Claim(k) PROVE UNCHANGED Seen
  <1>1. left'.mishaps = left.mishaps
    BY NotedSpent DEF Claim, Kinds
  <1>2. UNCHANGED <<exe, old, script>>
    BY DEF Claim, files
  <1>3. Moving' <=> Moving
    BY <1>2 DEF Moving, Active
  <1> QED
    BY <1>1, <1>2, <1>3 DEF Seen, Current, Had

LEMMA StepsImplement ==
    ASSUME IInv, [Next]_vars
    PROVE  [Promise!Next]_<<Current, old, Had, ~Alone>>
  <1>1. CASE UNCHANGED vars
    <2>1. Moving' <=> Moving
      BY <1>1 DEF vars, Moving, Active
    <2> QED
      BY <1>1, <2>1 DEF vars, Current, Had, Alone
  <1>2. CASE Next /\ ~Alone
    <2>1. ~Alone'
      BY <1>2, NextHad DEF IInv
    <2> QED
      BY <1>2, <2>1 DEF Promise!Next
  <1>3. CASE Next /\ Alone /\ ~Alone'
    <2>1. UNCHANGED Seen
      BY <1>3, NextHad, ClaimStep DEF IInv
    <2> QED
      BY <1>3, <2>1 DEF Promise!Next, Promise!Cross, Seen
  <1>4. CASE Next /\ Alone /\ Alone'
    <2>1. Moves
      <3>1. CASE \E k \in Askers : Claim(k)
        BY <3>1, ClaimStep DEF IInv, Moves
      <3>2. CASE \A k \in Askers : ~Claim(k)
        BY <1>4, <3>2, Steps DEF IInv, Whole
      <3> QED
        BY <3>1, <3>2
    <2>2. UNCHANGED (~Alone)
      BY <1>4
    <2> QED
      BY <1>4, <2>1, <2>2 DEF Moves, Seen, Promise!Next
  <1> QED
    BY <1>1, <1>2, <1>3, <1>4

\* "it is always one whole build" (Installed): what a user would start is the installed build
\* until a release replaces it, after it was kept aside, and then that release or the build
\* that was kept; it is gone only in the step of a mishap - as long as no second update is
\* begun beside a waiting one.
THEOREM ImplementsAlways == Spec => Implements
  <1>1. Init => Promise!Init
    <2> SUFFICES ASSUME Init PROVE Promise!Init
      OBVIOUS
    <2>1. Current = First /\ old = NoFile
      BY DEF Init, Current, Builds
    <2>2. Had = 0 /\ Alone
      BY ConstantsAssumption DEF Init, Had, Alone
    <2>3. (~Alone) = FALSE
      BY <2>2, Zenon
    <2> QED
      BY <2>1, <2>2, <2>3 DEF Promise!Init
  <1>2. IInv /\ [Next]_vars => [Promise!Next]_<<Current, old, Had, ~Alone>>
    BY StepsImplement
  <1> QED
    BY <1>1, <1>2, Invariant, PTL DEF Spec, Implements, Promise!Spec

=============================================================================
