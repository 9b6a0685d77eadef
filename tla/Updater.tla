------------------------------ MODULE Updater ------------------------------
(***************************************************************************)
(* updater.rs: apply downloads a release, checks it, and leaves a batch    *)
(* file (the swap script) waiting for the program to exit.  The script     *)
(* moves the new build into place, starts it, waits for its handshake file *)
(* and puts the old build back if the handshake does not come.  Next to it *)
(* Restart's own script (installer.rs), the start of the program (main.rs) *)
(* and a power cut between any two steps.                                  *)
(***************************************************************************)
EXTENDS Naturals, FiniteSets

CONSTANTS
    First, Releases,   \* the build installed at first, and the builds published
    Broken,            \* releases that die before they bind the port
    Pids, Scripts,     \* processes of the program, swap scripts
    Askers,            \* requests that may be inside apply
    NoFile, Torn, None,
    MaxApplies,        \* bound: downloads
    MaxMishaps         \* bound: power cuts, failed file operations, refused downloads

ASSUME ConstantsAssumption ==
    /\ First \notin Broken /\ Broken \subseteq Releases
    /\ NoFile \notin Releases \cup {First} /\ Torn \notin Releases \cup {First, NoFile}
    /\ None \notin Scripts
    /\ MaxApplies \in Nat /\ MaxMishaps \in Nat

VARIABLES
    exe, old, new,      \* the program, its .old and the downloaded .new
    marker, prev,       \* version.txt and version.txt.prev
    pending, rolled,    \* update-pending.flag and update-rollback.flag
    bat,                \* _update.bat
    okflags,            \* handshake files that exist, by the script that named them
    app,                \* the processes of the program
    script,             \* the swap scripts
    relaunch,           \* processes whose end a relaunch script waits for
    applying,           \* APPLYING
    c,                  \* where each request is inside apply
    left                \* downloads and mishaps still to come, and what happened so far

vars == <<exe, old, new, marker, prev, pending, rolled, bat, okflags, app, script, relaunch,
          applying, c, left>>
files == <<exe, old, new, marker, prev>>
flags == <<pending, rolled, bat, okflags>>
ask   == <<applying, c>>

Builds == Releases \cup {First}
Off    == [st |-> "off"]
NoScript == [pc |-> "none"]
Resting  == [pc |-> "idle"]

Init ==
    /\ exe = First /\ old = NoFile /\ new = NoFile
    /\ marker = First /\ prev = NoFile
    /\ pending = FALSE /\ rolled = FALSE /\ bat = FALSE /\ okflags = {}
    /\ app = [p \in Pids |-> Off]
    /\ script = [s \in Scripts |-> NoScript]
    /\ relaunch = {}
    /\ applying = FALSE
    /\ c = [k \in Askers |-> Resting]
    /\ left = [applies |-> MaxApplies, mishaps |-> MaxMishaps, had |-> {}]

Download == left.applies > 0 /\ left' = [left EXCEPT !.applies = @ - 1]
Mishap(what) ==
    left.mishaps > 0 /\ left' = [left EXCEPT !.mishaps = @ - 1, !.had = @ \cup {what}]
Fault == Mishap("fault")

\* History, which no action looks at: a second update was begun beside a script that waits.
Noted(what, when) == left' = [left EXCEPT !.had = IF when THEN @ \cup {what} ELSE @]
Alone == "second" \notin left.had

Running == {p \in Pids : app[p].st # "off"}
FromExe == {p \in Running : app[p].path = "exe"}
Serving(p) == app[p].st = "serving"
Owner   == {p \in Pids : app[p].st \in {"bound", "serving", "quitting"}}
Active  == {s \in Scripts : script[s].pc # "none"}

\* Assumed of the user: nobody opens the program or asks for an update in the seconds a
\* swap takes, or asks for one in a copy whose file was moved to .old under it.
Calm == \A s \in Active : script[s].pc = "wait" /\ script[s].pid \in Running

\* Pids to give to a new process: none that is in use or that a script waits for.
Free(waited) ==
    (Pids \ Running) \ (waited \cup {script[s].pid : s \in {t \in Active : script[t].pc = "wait"}})

\* The program is started from the installed file, if that is a program: which pid it
\* gets makes no difference.
Start(pids, ok, handover) ==
    IF exe \in Builds
    THEN /\ pids # {}
         /\ LET p == CHOOSE p \in pids : TRUE IN
            app' = [app EXCEPT ![p] = [st |-> "boot", img |-> exe, path |-> "exe", ok |-> ok,
                                       handover |-> handover]]
    ELSE UNCHANGED app

\* The requests inside a process die with it.
Threads(gone) ==
    /\ c' = [k \in Askers |-> IF c[k].pc # "idle" /\ c[k].pid \in gone THEN Resting ELSE c[k]]
    /\ applying' = (applying /\ gone \cap Owner = {})

-----------------------------------------------------------------------------
(* apply *)

Does(k, step) == c' = [c EXCEPT ![k] = step]
At(k, pc)   == c[k].pc = pc
Then(k, pc) == Does(k, [c[k] EXCEPT !.pc = pc])

\* Requests are alike: which of those at rest comes makes no difference.
Idle(k) == At(k, "idle") /\ k = CHOOSE l \in Askers : At(l, "idle")

\* Mutant: an update that waits for the program to exit does not refuse the next one.
AskApply_Pending(k) ==
    /\ Idle(k) /\ Calm /\ Download
    /\ \E p \in FromExe : Serving(p) /\ Does(k, [pc |-> "claim", pid |-> p])
    /\ UNCHANGED <<files, flags, app, script, relaunch, applying>>

\* swap_pending is tested first ...
AskApply(k) ==
    /\ Idle(k) /\ Calm /\ Download
    /\ ~pending
    /\ \E p \in FromExe : Serving(p) /\ Does(k, [pc |-> "claim", pid |-> p])
    /\ UNCHANGED <<files, flags, app, script, relaunch, applying>>

\* ... then APPLYING is taken.
Claim(k) ==
    /\ At(k, "claim")
    /\ IF applying THEN Does(k, Resting) ELSE Then(k, "fetch")
    /\ applying' = TRUE
    /\ Noted("second", ~applying /\ Active # {})
    /\ UNCHANGED <<files, flags, app, script, relaunch>>

\* The download, which may arrive damaged.
Fetch(k) ==
    /\ At(k, "fetch")
    /\ \E r \in Releases :
        /\ Does(k, [pc |-> "verify", pid |-> c[k].pid, build |-> r])
        /\ \/ new' = r /\ UNCHANGED left
           \/ new' = Torn /\ Fault
    /\ UNCHANGED <<exe, old, marker, prev, flags, app, script, relaunch, applying>>

\* No checksum published, no answer, or a connection that broke off.
FetchFails(k) ==
    /\ At(k, "fetch") /\ Fault
    /\ new' \in {new, NoFile, Torn}
    /\ Then(k, "answer")
    /\ UNCHANGED <<exe, old, marker, prev, flags, app, script, relaunch, applying>>

\* Mutant: the checksum and the signature are not compared.
Verify_Trusts(k) ==
    /\ At(k, "verify") /\ Then(k, "script")
    /\ UNCHANGED <<files, flags, app, script, relaunch, applying, left>>

Verify(k) ==
    /\ At(k, "verify")
    /\ IF new = c[k].build THEN Then(k, "script") /\ UNCHANGED new
       ELSE Then(k, "answer") /\ new' = NoFile
    /\ UNCHANGED <<exe, old, marker, prev, flags, app, script, relaunch, applying, left>>

WriteScript(k) ==
    /\ At(k, "script")
    /\ \/ bat' = TRUE /\ Then(k, "run") /\ UNCHANGED left
       \/ Fault /\ UNCHANGED bat /\ Then(k, "answer")
    /\ UNCHANGED <<files, pending, rolled, okflags, app, script, relaunch, applying>>

\* Its handshake file has a new random name.
Fresh == {s \in Scripts \ Active : \A p \in Running : app[p].ok # s}

RunScript(k) ==
    /\ At(k, "run")
    /\ \/ /\ LET s == CHOOSE s \in Fresh : TRUE IN
                /\ Fresh # {}
                /\ script' = [script EXCEPT ![s] = [pc |-> "wait", pid |-> c[k].pid,
                                                    ver |-> c[k].build, was |-> exe,
                                                    said |-> marker]]
                /\ okflags' = okflags \ {s}
          /\ Then(k, "flag") /\ UNCHANGED left
       \/ Fault /\ Then(k, "answer") /\ UNCHANGED <<script, okflags>>
    /\ UNCHANGED <<files, pending, rolled, bat, app, relaunch, applying>>

\* "only once the script is really waiting", and nobody looks whether it was written; a
\* request that has tested for it already comes too late for it.
Flag(k) ==
    /\ At(k, "flag") /\ Then(k, "answer")
    /\ \/ pending' = TRUE /\ Noted("late", \E l \in Askers : At(l, "claim"))
       \/ Mishap("flag") /\ UNCHANGED pending
    /\ UNCHANGED <<files, rolled, bat, okflags, app, script, relaunch, applying>>

Answer(k) ==
    /\ At(k, "answer")
    /\ Does(k, Resting) /\ applying' = FALSE
    /\ UNCHANGED <<files, flags, app, script, relaunch, left>>

-----------------------------------------------------------------------------
(* The program: start, restart, end *)

Open ==
    /\ Running = {} /\ relaunch = {} /\ Calm
    /\ Start(Free(relaunch), None, FALSE)
    /\ UNCHANGED <<files, flags, script, relaunch, ask, left>>

\* confirm_update, whose write may fail.
Confirm(p) ==
    \/ okflags' = okflags \cup ({app[p].ok} \ {None}) /\ UNCHANGED left
    \/ app[p].ok # None /\ Fault /\ UNCHANGED okflags

\* A broken build dies; a good one binds the port and confirms the handshake, or
\* confirms it and leaves because another copy has the port.
Boot(p) ==
    /\ app[p].st = "boot"
    /\ \/ app[p].img \in Broken /\ app' = [app EXCEPT ![p] = Off] /\ UNCHANGED <<okflags, left>>
       \/ /\ app[p].img \notin Broken /\ Owner = {}
          /\ app' = [app EXCEPT ![p].st = "bound"] /\ Confirm(p)
       \/ /\ app[p].img \notin Broken /\ Owner # {}
          /\ app[p].handover => \E q \in Owner : app[q].st # "quitting"
          /\ app' = [app EXCEPT ![p] = Off] /\ Confirm(p)
    /\ UNCHANGED <<files, pending, rolled, bat, script, relaunch, ask>>

\* Mutant: a flag left behind is not removed at the start.
Settle_KeepsPending(p) ==
    /\ app[p].st = "bound"
    /\ rolled' = FALSE
    /\ app' = [app EXCEPT ![p].st = "serving"]
    /\ UNCHANGED <<files, pending, bat, okflags, script, relaunch, ask, left>>

\* The flags a previous run left are removed, and a rollback remembered.
Settle(p) ==
    /\ app[p].st = "bound"
    /\ pending' = FALSE /\ rolled' = FALSE
    /\ app' = [app EXCEPT ![p].st = "serving"]
    /\ UNCHANGED <<files, bat, okflags, script, relaunch, ask, left>>

\* restart: with an update waiting the swap script will start the program again.
Restart(p) ==
    /\ Serving(p)
    /\ relaunch' = IF pending THEN relaunch ELSE relaunch \cup {p}
    /\ app' = [app EXCEPT ![p].st = "quitting"]
    /\ UNCHANGED <<files, flags, script, ask, left>>

Leaves(p) == app' = [app EXCEPT ![p] = Off] /\ Threads({p})

Quit(p) ==
    /\ app[p].st = "quitting" /\ Leaves(p)
    /\ UNCHANGED <<files, flags, script, relaunch, left>>

\* Closed by the user, or crashed.
Close(p) ==
    /\ Serving(p) /\ Leaves(p)
    /\ UNCHANGED <<files, flags, script, relaunch, left>>

\* schedule_relaunch's script, which waits for two seconds: more than a swap script needs
\* from its last look at the processes to its copy.
Relaunch(p) ==
    /\ p \in relaunch /\ app[p].st = "off"
    /\ \A s \in Active : script[s].pc # "rollback"
    /\ relaunch' = relaunch \ {p}
    /\ Start(Free(relaunch \ {p}), None, TRUE)
    /\ UNCHANGED <<files, flags, script, ask, left>>

\* Everything that runs is gone, and the files stay as they are.
PowerCut ==
    /\ Mishap("cut")
    /\ app' = [p \in Pids |-> Off] /\ script' = [s \in Scripts |-> NoScript] /\ relaunch' = {}
    /\ applying' = FALSE /\ c' = [k \in Askers |-> Resting]
    /\ UNCHANGED <<files, flags>>

-----------------------------------------------------------------------------
(* The swap script: each step reads its next line from _update.bat, and a  *)
(* script whose file another one has deleted goes no further.              *)

On(s, pc) == bat /\ script[s].pc = pc
Go(s, pc) == script' = [script EXCEPT ![s].pc = pc]

\* :wait
Wait(s) ==
    /\ On(s, "wait") /\ app[script[s].pid].st = "off"
    /\ Go(s, "kill")
    /\ UNCHANGED <<files, flags, app, relaunch, ask, left>>

\* Processes still running the installed file are ended.
KillHelpers(s) ==
    /\ On(s, "kill")
    /\ app' = [p \in Pids |-> IF p \in FromExe THEN Off ELSE app[p]]
    /\ Threads(FromExe)
    /\ Go(s, "swap")
    /\ UNCHANGED <<files, flags, relaunch, left>>

\* Mutant: the old build is overwritten, not kept.
MoveOld_Drops(s) ==
    /\ On(s, "swap") /\ exe # NoFile
    /\ exe' = NoFile
    /\ app' = [p \in Pids |-> IF p \in FromExe THEN [app[p] EXCEPT !.path = "old"] ELSE app[p]]
    /\ Go(s, "place")
    /\ UNCHANGED <<old, new, marker, prev, flags, relaunch, ask, left>>

\* :swap - a program that runs from .old keeps it locked.
Unlocked == exe # NoFile /\ \A p \in Running : app[p].path # "old"

MoveOld(s) ==
    /\ On(s, "swap") /\ Unlocked
    /\ old' = exe /\ exe' = NoFile
    /\ app' = [p \in Pids |-> IF p \in FromExe THEN [app[p] EXCEPT !.path = "old"] ELSE app[p]]
    /\ Go(s, "place")
    /\ UNCHANGED <<new, marker, prev, flags, relaunch, ask, left>>

\* Twenty tries.
SwapGivesUp(s) ==
    /\ On(s, "swap")
    /\ IF Unlocked THEN Fault ELSE UNCHANGED left
    /\ Go(s, "giveup")
    /\ UNCHANGED <<files, flags, app, relaunch, ask>>

\* A program that runs from the installed file keeps that locked.
Place(s) ==
    /\ On(s, "place")
    /\ \/ /\ new # NoFile /\ FromExe = {}
          /\ exe' = new /\ new' = NoFile
          /\ Go(s, "mark") /\ UNCHANGED left
       \/ /\ IF new # NoFile /\ FromExe = {} THEN Fault ELSE UNCHANGED left
          /\ Go(s, "restore") /\ UNCHANGED <<exe, new>>
    /\ UNCHANGED <<old, marker, prev, flags, app, relaunch, ask>>

\* copy /y of .old, whose result nobody looks at: begun ...
CopyOld(s) ==
    /\ \/ On(s, "restore") /\ Go(s, "restoring")
       \/ On(s, "rollback") /\ Go(s, "rolling back")
    /\ FromExe = {}
    /\ exe' = Torn
    /\ UNCHANGED <<old, new, marker, prev, flags, app, relaunch, ask, left>>

\* ... or refused, the file that is there staying as it is ...
CopyRefused(s) ==
    /\ \/ On(s, "restore") /\ Go(s, "giveup")
       \/ On(s, "rollback") /\ Go(s, "unmark")
    /\ IF FromExe = {} THEN Mishap("copy") ELSE UNCHANGED left
    /\ UNCHANGED <<files, flags, app, relaunch, ask>>

\* ... and done, or broken off.
Copied(s) ==
    /\ \/ On(s, "restoring") /\ Go(s, "giveup")
       \/ On(s, "rolling back") /\ Go(s, "unmark")
    /\ \/ exe' = old /\ UNCHANGED left
       \/ Mishap("copy") /\ UNCHANGED exe
    /\ UNCHANGED <<old, new, marker, prev, flags, app, relaunch, ask>>

\* version.txt is kept aside and written, and nobody looks whether either was done.
Mark(s) ==
    /\ On(s, "mark") /\ Go(s, "start")
    /\ \/ /\ prev' = IF marker = NoFile THEN prev ELSE marker
          /\ marker' = script[s].ver
          /\ UNCHANGED left
       \/ /\ Mishap("mark")
          /\ prev' \in {prev, marker, Torn} /\ marker' \in {marker, script[s].ver, Torn}
    /\ UNCHANGED <<exe, old, new, flags, app, relaunch, ask>>

StartNew(s) ==
    /\ On(s, "start")
    /\ Start(Free(relaunch), s, TRUE) /\ Go(s, "waitok")
    /\ UNCHANGED <<files, flags, relaunch, ask, left>>

\* :waitok
SeeOk(s) ==
    /\ On(s, "waitok") /\ s \in okflags
    /\ Go(s, "upok")
    /\ UNCHANGED <<files, flags, app, relaunch, ask, left>>

\* What forty seconds are enough for: a build that dies has died, a relaunch has started.
Forty ==
    /\ \A p \in Running : app[p].st = "boot" => app[p].img \notin Broken
    /\ \A p \in relaunch : app[p].st # "off"

\* Mutant: no handshake in time is a failed update, whatever runs.
NoOk_IgnoresRunning(s) ==
    /\ On(s, "waitok") /\ s \notin okflags
    /\ Forty
    /\ Go(s, "rollback")
    /\ UNCHANGED <<files, flags, app, relaunch, ask, left>>

\* No handshake, but a copy of the installed file that runs is one that works.
NoOk(s) ==
    /\ On(s, "waitok") /\ s \notin okflags
    /\ Forty
    /\ Go(s, IF FromExe # {} THEN "upok" ELSE "rollback")
    /\ UNCHANGED <<files, flags, app, relaunch, ask, left>>

\* Mutant: version.txt keeps the version that failed.
Unmark_KeepsMarker(s) ==
    /\ On(s, "unmark")
    /\ rolled' = TRUE /\ pending' = FALSE
    /\ Go(s, "start old")
    /\ UNCHANGED <<files, bat, okflags, app, relaunch, ask, left>>

Unmark(s) ==
    /\ On(s, "unmark") /\ Go(s, "start old")
    /\ \/ marker' = (IF prev = NoFile THEN marker ELSE prev) /\ UNCHANGED left
       \/ Mishap("mark") /\ marker' \in {marker, Torn}
    /\ rolled' = TRUE /\ pending' = FALSE
    /\ UNCHANGED <<exe, old, new, prev, bat, okflags, app, relaunch, ask>>

StartOld(s) ==
    /\ On(s, "start old")
    /\ Start(Free(relaunch), None, TRUE) /\ Go(s, "done")
    /\ UNCHANGED <<files, flags, relaunch, ask, left>>

GiveUp(s) ==
    /\ On(s, "giveup")
    /\ pending' = FALSE
    /\ Start(Free(relaunch), None, FALSE) /\ Go(s, "done")
    /\ UNCHANGED <<files, rolled, bat, okflags, relaunch, ask, left>>

UpOk(s) ==
    /\ On(s, "upok")
    /\ okflags' = okflags \ {s} /\ pending' = FALSE
    /\ Go(s, "done")
    /\ UNCHANGED <<files, rolled, bat, app, relaunch, ask, left>>

Done(s) ==
    /\ On(s, "done")
    /\ bat' = FALSE
    /\ script' = [script EXCEPT ![s] = NoScript]
    /\ UNCHANGED <<files, pending, rolled, okflags, app, relaunch, ask, left>>

-----------------------------------------------------------------------------
Ask(k) ==
    \/ Claim(k) \/ Fetch(k) \/ FetchFails(k) \/ Verify(k) \/ WriteScript(k) \/ RunScript(k)
    \/ Flag(k) \/ Answer(k)

Line(s) ==
    \/ Wait(s) \/ KillHelpers(s) \/ MoveOld(s) \/ SwapGivesUp(s) \/ Place(s)
    \/ CopyOld(s) \/ CopyRefused(s) \/ Copied(s) \/ Mark(s) \/ StartNew(s) \/ SeeOk(s) \/ NoOk(s) \/ Unmark(s)
    \/ StartOld(s) \/ GiveUp(s) \/ UpOk(s) \/ Done(s)

Live(p) == Boot(p) \/ Settle(p) \/ Quit(p) \/ Relaunch(p)

Next ==
    \/ \E k \in Askers : AskApply(k) \/ Ask(k)
    \/ \E s \in Scripts : Line(s)
    \/ \E p \in Pids : Live(p) \/ Restart(p) \/ Close(p)
    \/ Open \/ PowerCut

Spec == Init /\ [][Next]_vars

\* Processes and scripts that run go on.
FairSpec ==
    /\ Spec
    /\ \A s \in Scripts : WF_vars(Line(s))
    /\ \A p \in Pids : WF_vars(Boot(p)) /\ WF_vars(Settle(p)) /\ WF_vars(Quit(p))
                        /\ WF_vars(Relaunch(p))

-----------------------------------------------------------------------------
(* Properties *)

\* "One at a time" (apply): no update is begun beside a swap script that waits, and no two
\* scripts race "through the moves" - unless the pending flag could not be written, or was
\* written between another request's look at it and its taking of APPLYING.
OneSwap ==
    Cardinality(Active) > 1 \/ ~Alone => {"flag", "late"} \cap left.had # {}

\* A power cut, a failed move or copy, a lost flag, a build that does not start: while no
\* second update is begun beside a waiting one, the installed file or .old is always a
\* build that starts.
StartsAgain == Alone => exe \in Builds \ Broken \/ old \in Builds \ Broken

\* "the previous build was restored" (consume_rollback): what a rollback puts back is the
\* build that was installed when the update was accepted, unless the copy failed, and even
\* then version.txt says again what it said (unless it could not be copied or written).
RollbackRight ==
    [][\A s \in Scripts :
        script[s].pc = "unmark" /\ script'[s].pc = "start old" /\ Alone
        => /\ exe = script[s].was \/ "copy" \in left.had
           /\ marker' = script[s].said \/ "mark" \in left'.had]_vars

\* "A live copy of THIS exe after the swap is success ...; rolling back would fight it"
\* (write_swap_script): no script goes about overwriting a program file that is serving.
KeepsLive ==
    [][\A s \in Scripts :
        script[s].pc = "rollback" /\ script'[s].pc \in {"rolling back", "unmark"} /\ Alone
        => \A p \in FromExe : ~Serving(p)]_vars

\* The installed program implements the promise of module Installed: between its moves a
\* script is about to put .old or the release where the program was.
Moving == \E s \in Active : script[s].pc \in {"place", "restore", "restoring", "rolling back"}
Current == IF exe \in Builds THEN exe ELSE IF Moving THEN old ELSE NoFile
Had     == MaxMishaps - left.mishaps
Promise == INSTANCE Installed WITH cur <- Current, kept <- old, mishaps <- Had, crossed <- ~Alone
Implements == Promise!Spec

\* "the script below starts it again" (apply_inner): a program that quits for a restart
\* comes back, through the relaunch script or through the swap and, if the new build does
\* not start, its rollback - unless the power goes or a file operation fails.
ComesBack ==
    (\E p \in Pids : app[p].st = "quitting")
        ~> \/ \E q \in Pids : Serving(q)
           \/ left.had # {}
=============================================================================
