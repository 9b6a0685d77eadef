--------------------------- MODULE SharingProofs ---------------------------
(* Proofs about the two jobs that move content between a host and those who *)
(* join, for any number of requests, askers, workers, files and failures.   *)
EXTENDS ContentJobs, PackQueue, TLAPS

-----------------------------------------------------------------------------
(* ContentJobs: until begin() takes JOB from a thread at work, JOB has one  *)
(* writer, and the "_error" a thread finds in it is its own, whatever other *)
(* requests plan meanwhile.                                                 *)

Working == [kind : {"install", "restore", "push"}, need : SUBSET Files, rest : SUBSET Files,
            stale : SUBSET Extras, failed : BOOLEAN]
Steps == {"idle", "check", "plan", "begin", "drop", "pack", "fetch", "register",
          "error?", "fail", "stale", "finish", "restore", "push"}
JobStates == [state : {"idle", "running", "done", "error"}, error : BOOLEAN, warning : BOOLEAN,
              taken : BOOLEAN]

(* Who may touch JOB. *)

Thread(r) == pc[r] \in {"pack", "fetch", "register", "error?", "fail", "stale", "finish", "restore", "push"}
OneAtATime ==
    /\ \A q, r \in Reqs : Thread(q) /\ Thread(r) => q = r
    /\ \A r \in Reqs : Thread(r) => job.state = "running"

(* What a thread has done. *)

All(r) == \A f \in w[r].need : local[f] = "good"
DoneBy(r) ==
    /\ pc[r] \in {"check", "plan", "begin", "drop", "pack"} => ~w[r].failed /\ w[r].rest = w[r].need
    /\ pc[r] = "fetch" /\ ~w[r].failed => \A f \in w[r].need \ w[r].rest : local[f] = "good"
    /\ pc[r] = "register" => ~w[r].failed /\ All(r)
    /\ pc[r] = "error?" => \/ w[r].failed /\ job.error
                           \/ ~w[r].failed /\ All(r) /\ (registered \/ job.warning)
    /\ pc[r] \in {"stale", "finish"} => ~w[r].failed /\ All(r) /\ (registered \/ job.warning)

IInv == TypeOK /\ OneAtATime /\ \A r \in Reqs : DoneBy(r)

\* JOB was never taken from a thread.
Inv == TypeOK /\ (job.taken \/ IInv)

-----------------------------------------------------------------------------

\* What every step leaves as it is.
LEMMA Moves ==
    ASSUME TypeOK, NEW r \in Reqs, NEW label \in Steps, Goto(r, label)
    PROVE  /\ pc' \in [Reqs -> Steps] /\ pc'[r] = label
           /\ \A q \in Reqs : q # r => pc'[q] = pc[q]
  BY DEF TypeOK, Goto, Steps

LEMMA TypeKeeps == TypeOK /\ [Next]_vars => TypeOK'
  <1> SUFFICES ASSUME TypeOK, [Next]_vars PROVE TypeOK'
    OBVIOUS
  <1>f. Fault => faults' \in 0..MaxFaults
    BY KindsAssumption DEF Fault, TypeOK
  <1>g. /\ job \in JobStates /\ pc \in [Reqs -> Steps] /\ w \in [Reqs -> Working]
        /\ local \in [Files -> {"none", "other", "good"}] /\ extras \subseteq Extras
        /\ registered \in BOOLEAN /\ game \in BOOLEAN /\ faults \in 0..MaxFaults
    BY DEF TypeOK, JobStates, Steps, Working
  <1> DEFINE T == /\ job' \in JobStates /\ pc' \in [Reqs -> Steps] /\ w' \in [Reqs -> Working]
                  /\ local' \in [Files -> {"none", "other", "good"}] /\ extras' \subseteq Extras
                  /\ registered' \in BOOLEAN /\ game' \in BOOLEAN /\ faults' \in 0..MaxFaults
  <1>q. T => TypeOK'
    BY DEF TypeOK, JobStates, Steps, Working
  <1>1. ASSUME NEW r \in Reqs, Ask(r) PROVE T
    <2>1. PICK k \in Kinds : w' = [w EXCEPT ![r] = [Idle EXCEPT !.kind = k]]
      BY <1>1 DEF Ask
    <2>2. [Idle EXCEPT !.kind = k] \in Working
      BY KindsAssumption DEF Idle, Working
    <2>3. pc' \in [Reqs -> Steps]
      BY <1>1, <1>g DEF Ask, Goto, Steps
    <2> QED
      BY <1>1, <1>g, <2>1, <2>2, <2>3 DEF Ask
  <1>2. ASSUME NEW r \in Reqs, Check(r) \/ PlanRestore(r) \/ PlanPush(r) \/ PlanFails(r) \/ DropNow(r)
                               \/ DropStale(r) \/ ReadError(r)
        PROVE  T
    <2>1. pc' \in [Reqs -> Steps]
      BY <1>2, <1>g DEF Check, PlanRestore, PlanPush, PlanFails, DropNow, DropStale, ReadError, Goto, Steps
    <2> QED
      BY <1>2, <1>f, <1>g, <2>1 DEF Check, PlanRestore, PlanPush, PlanFails, DropNow, DropStale, ReadError
  <1>3. ASSUME NEW r \in Reqs, Plan(r) PROVE T
    <2>1. pc' \in [Reqs -> Steps]
      BY <1>3, <1>g DEF Plan, Goto, Steps
    <2>2. w' \in [Reqs -> Working]
      <3> DEFINE need == {f \in Files : local[f] # "good"}
      <3>1. w' = [w EXCEPT ![r] = [w[r] EXCEPT !.need = need, !.rest = need, !.stale = extras]]
        BY <1>3 DEF Plan
      <3>2. [w[r] EXCEPT !.need = need, !.rest = need, !.stale = extras] \in Working
        BY <1>g DEF Working
      <3> QED
        BY <1>g, <3>1, <3>2
    <2> QED
      BY <1>3, <1>g, <2>1, <2>2 DEF Plan
  <1>4. ASSUME NEW r \in Reqs, Begin(r) PROVE T
    <2>1. pc' \in [Reqs -> Steps]
      BY <1>4, <1>g DEF Begin, Goto, Steps, Working
    <2> QED
      BY <1>4, <1>g, <2>1 DEF Begin, JobStates
  <1>5. ASSUME NEW r \in Reqs, Pack(r) \/ NoPack(r) PROVE T
    <2>1. pc' \in [Reqs -> Steps]
      BY <1>5, <1>g DEF Pack, NoPack, Goto, Steps
    <2>2. local' \in [Files -> {"none", "other", "good"}]
      BY <1>5, <1>g DEF Pack, NoPack
    <2>3. w' \in [Reqs -> Working]
      BY <1>5, <1>g DEF Pack, NoPack, Working
    <2> QED
      BY <1>5, <1>f, <1>g, <2>1, <2>2, <2>3 DEF Pack, NoPack
  <1>6. ASSUME NEW r \in Reqs, Fetch(r) \/ FetchFails(r) PROVE T
    <2>1. local' \in [Files -> {"none", "other", "good"}]
      BY <1>6, <1>g DEF Fetch, FetchFails
    <2>2. w' \in [Reqs -> Working]
      <3>1. PICK f \in w[r].rest : \/ w' = [w EXCEPT ![r] = [w[r] EXCEPT !.rest = w[r].rest \ {f}]]
                                   \/ w' = [w EXCEPT ![r] = [w[r] EXCEPT !.rest = w[r].rest \ {f}, !.failed = TRUE]]
        BY <1>6 DEF Fetch, FetchFails
      <3>2. /\ [w[r] EXCEPT !.rest = w[r].rest \ {f}] \in Working
            /\ [w[r] EXCEPT !.rest = w[r].rest \ {f}, !.failed = TRUE] \in Working
        BY <1>g DEF Working
      <3> QED
        BY <1>g, <3>1, <3>2
    <2> QED
      BY <1>6, <1>f, <1>g, <2>1, <2>2 DEF Fetch, FetchFails
  <1>7. ASSUME NEW r \in Reqs, Fetched(r) \/ Register(r) \/ Fail(r) \/ Finish(r) \/ Restore(r) \/ Push(r) PROVE T
    <2>1. pc' \in [Reqs -> Steps]
      BY <1>7, <1>g DEF Fetched, Register, Fail, Finish, Restore, Push, Goto, Steps
    <2>2. job' \in JobStates
      BY <1>7, <1>g DEF Fetched, Register, Fail, Finish, Restore, Push, JobStates
    <2> QED
      BY <1>7, <1>f, <1>g, <2>1, <2>2 DEF Fetched, Register, Fail, Finish, Restore, Push
  <1>8. ASSUME CloseGame \/ UNCHANGED vars PROVE T
    BY <1>8, <1>g DEF CloseGame, vars
  <1> QED
    BY <1>q, <1>1, <1>2, <1>3, <1>4, <1>5, <1>6, <1>7, <1>8 DEF Next, Step

\* A step of r in which the others' part of the invariant stays.
LEMMA OthersKeep ==
    ASSUME IInv, NEW r \in Reqs, TypeOK', \A q \in Reqs : q # r => pc'[q] = pc[q] /\ w'[q] = w[q],
           \A f \in Files : local[f] = "good" => local'[f] = "good", registered => registered',
           job' = job \/ Thread(r) \/ \A q \in Reqs : ~Thread(q),
           Thread(r)' => Thread(r) \/ \A q \in Reqs : ~Thread(q),
           Thread(r)' => job'.state = "running",
           DoneBy(r)'
    PROVE  IInv'
  <1>1. \A q \in Reqs : q # r => (Thread(q)' <=> Thread(q))
    BY DEF Thread
  <1>2. ASSUME job' # job, NEW q \in Reqs, q # r PROVE ~Thread(q)
    BY <1>2 DEF IInv, OneAtATime
  <1>4. OneAtATime'
    <2>1. ASSUME NEW q \in Reqs, NEW s \in Reqs, Thread(q)', Thread(s)' PROVE q = s
      BY <1>1, <2>1 DEF IInv, OneAtATime
    <2>2. ASSUME NEW q \in Reqs, Thread(q)' PROVE job'.state = "running"
      BY <1>1, <1>2, <2>2 DEF IInv, OneAtATime
    <2> QED
      BY <2>1, <2>2 DEF OneAtATime
  <1>5. ASSUME NEW q \in Reqs, q # r PROVE DoneBy(q)'
    <2>1. DoneBy(q) /\ w[q].need \subseteq Files
      BY DEF IInv, TypeOK
    <2>2. CASE job' = job
      BY <1>5, <2>1, <2>2 DEF DoneBy, All
    <2>3. CASE job' # job
      <3>1. ~Thread(q) /\ pc'[q] = pc[q] /\ w'[q] = w[q]
        BY <1>2, <1>5, <2>3
      <3> QED
        BY <2>1, <3>1 DEF DoneBy, Thread
    <2> QED
      BY <2>2, <2>3
  <1> QED
    BY <1>4, <1>5 DEF IInv

LEMMA AskKeeps == ASSUME IInv, TypeOK', NEW r \in Reqs, Ask(r) PROVE IInv'
  <1>1. PICK k \in Kinds : w' = [w EXCEPT ![r] = [Idle EXCEPT !.kind = k]]
    BY DEF Ask
  <1>2. w'[r] = [Idle EXCEPT !.kind = k] /\ \A q \in Reqs : q # r => w'[q] = w[q]
    BY <1>1 DEF IInv, TypeOK
  <1>3. pc'[r] = "check" /\ \A q \in Reqs : q # r => pc'[q] = pc[q]
    BY Moves DEF IInv, Ask, Steps
  <1>4. DoneBy(r)' /\ ~Thread(r)'
    BY <1>2, <1>3 DEF DoneBy, Thread, Idle
  <1> QED
    BY <1>2, <1>3, <1>4, OthersKeep DEF Ask

LEMMA CheckKeeps == ASSUME IInv, TypeOK', NEW r \in Reqs, Check(r) PROVE IInv'
  <1>1. pc'[r] \in {"idle", "plan"} /\ \A q \in Reqs : q # r => pc'[q] = pc[q]
    BY Moves DEF IInv, Check, Steps
  <1>2. pc[r] = "check" /\ UNCHANGED <<job, local, registered, w>>
    BY DEF Check
  <1>3. DoneBy(r)' /\ ~Thread(r)'
    BY <1>1, <1>2 DEF DoneBy, Thread, IInv
  <1> QED
    BY <1>1, <1>2, <1>3, OthersKeep

LEMMA PlanKeeps ==
    ASSUME IInv, TypeOK', NEW r \in Reqs, Plan(r) \/ PlanRestore(r) \/ PlanPush(r) \/ PlanFails(r) PROVE IInv'
  <1>1. pc[r] = "plan" /\ UNCHANGED <<job, local, registered>>
    BY DEF Plan, PlanRestore, PlanPush, PlanFails
  <1>2. pc'[r] \in {"begin", "drop", "idle"} /\ \A q \in Reqs : q # r => pc'[q] = pc[q]
    BY Moves DEF IInv, Plan, PlanRestore, PlanPush, PlanFails, Steps
  <1>3. /\ w'[r].failed = w[r].failed /\ w'[r].rest = w'[r].need
        /\ \A q \in Reqs : q # r => w'[q] = w[q]
    <2>1. w \in [Reqs -> Working] /\ w[r].rest = w[r].need
      BY <1>1 DEF IInv, TypeOK, Working, DoneBy
    <2>2. CASE Plan(r)
      <3> DEFINE need == {f \in Files : local[f] # "good"}
      <3>1. w' = [w EXCEPT ![r] = [w[r] EXCEPT !.need = need, !.rest = need, !.stale = extras]]
        BY <2>2 DEF Plan
      <3> QED
        BY <2>1, <3>1 DEF Working
    <2>3. CASE PlanRestore(r) \/ PlanPush(r) \/ PlanFails(r)
      BY <2>1, <2>3 DEF PlanRestore, PlanPush, PlanFails
    <2> QED
      BY <2>2, <2>3
  <1>4. DoneBy(r)' /\ ~Thread(r)'
    BY <1>1, <1>2, <1>3 DEF DoneBy, Thread, IInv
  <1> QED
    BY <1>1, <1>2, <1>3, <1>4, OthersKeep

LEMMA DropNowKeeps == ASSUME IInv, TypeOK', NEW r \in Reqs, DropNow(r) PROVE IInv'
  <1>1. pc[r] = "drop" /\ UNCHANGED <<job, local, registered, w>>
    BY DEF DropNow
  <1>2. pc'[r] = "idle" /\ \A q \in Reqs : q # r => pc'[q] = pc[q]
    BY Moves DEF IInv, DropNow, Steps
  <1>3. DoneBy(r)' /\ ~Thread(r)'
    BY <1>2 DEF DoneBy, Thread
  <1> QED
    BY <1>1, <1>2, <1>3, OthersKeep

\* JOB has no thread when begin() takes it, for a thread's JOB is running.
LEMMA BeginKeeps == ASSUME IInv, TypeOK', ~job'.taken, NEW r \in Reqs, Begin(r) PROVE IInv'
  <1>1. /\ pc[r] = "begin" /\ UNCHANGED <<local, registered, w>> /\ job'.state = "running"
        /\ \A q \in Reqs : ~Thread(q)
    <2>1. job' = [state |-> "running", error |-> FALSE, warning |-> FALSE,
                  taken |-> job.taken \/ job.state = "running"]
      BY DEF Begin
    <2>2. job'.taken = (job.taken \/ job.state = "running")
      BY <2>1
    <2>3. job.state # "running"
      BY <2>2
    <2> QED
      BY <2>1, <2>3 DEF Begin, IInv, OneAtATime
  <1>2. /\ pc'[r] \in {"restore", "push", "register", "pack"} /\ (pc'[r] = "register" => w[r].need = {})
        /\ \A q \in Reqs : q # r => pc'[q] = pc[q]
    <2>1. w[r].kind \in {"install", "restore", "push"} /\ TypeOK
      BY DEF IInv, TypeOK
    <2> QED
      BY <2>1, Moves DEF Begin, Steps
  <1>3. DoneBy(r)'
    BY <1>1, <1>2 DEF DoneBy, All, IInv
  <1> QED
    BY <1>1, <1>2, <1>3, OthersKeep

(* The thread.  JOB is its own while it runs. *)

LEMMA ThreadKeeps ==
    ASSUME IInv, TypeOK', NEW r \in Reqs, Thread(r), pc'[r] = "idle" \/ Thread(r)',
           \A q \in Reqs : q # r => pc'[q] = pc[q] /\ w'[q] = w[q],
           \A f \in Files : local[f] = "good" => local'[f] = "good", registered => registered',
           pc'[r] = "idle" \/ job'.state = job.state, DoneBy(r)'
    PROVE  IInv'
  <1>1. Thread(r)' => pc'[r] # "idle"
    BY DEF Thread
  <1>2. Thread(r)' => job'.state = "running"
    BY <1>1 DEF IInv, OneAtATime
  <1> QED
    BY <1>2, OthersKeep

LEMMA PackKeeps == ASSUME IInv, TypeOK', NEW r \in Reqs, Pack(r) PROVE IInv'
  <1>1. pc[r] = "pack" /\ ~w[r].failed /\ UNCHANGED <<job, registered>> /\ w[r].need \subseteq Files
    BY DEF Pack, IInv, DoneBy, TypeOK
  <1>2. pc'[r] = "register" /\ \A q \in Reqs : q # r => pc'[q] = pc[q]
    BY Moves DEF IInv, Pack, Steps
  <1>3. w'[r].need = w[r].need /\ w'[r].failed = w[r].failed /\ \A q \in Reqs : q # r => w'[q] = w[q]
    BY DEF IInv, TypeOK, Pack
  <1>4. \A f \in Files : (f \in w[r].need \/ local[f] = "good") => local'[f] = "good"
    BY DEF Pack
  <1>5. DoneBy(r)'
    BY <1>1, <1>2, <1>3, <1>4 DEF DoneBy, All
  <1> QED
    BY <1>1, <1>2, <1>3, <1>4, <1>5, ThreadKeeps DEF Thread

LEMMA NoPackKeeps == ASSUME IInv, TypeOK', NEW r \in Reqs, NoPack(r) PROVE IInv'
  <1>1. pc[r] = "pack" /\ ~w[r].failed /\ w[r].rest = w[r].need /\ UNCHANGED <<job, registered, w>>
    BY DEF NoPack, IInv, DoneBy
  <1>2. pc'[r] = "fetch" /\ \A q \in Reqs : q # r => pc'[q] = pc[q]
    BY Moves DEF IInv, NoPack, Steps
  <1>4. \A f \in Files : local[f] = "good" => local'[f] = "good"
    BY DEF NoPack
  <1>5. DoneBy(r)'
    BY <1>1, <1>2 DEF DoneBy
  <1> QED
    BY <1>1, <1>2, <1>4, <1>5, ThreadKeeps DEF Thread

\* A file has the bytes the host declared before it takes its name.
LEMMA FetchKeeps == ASSUME IInv, TypeOK', NEW r \in Reqs, Fetch(r) \/ FetchFails(r) PROVE IInv'
  <1>1. pc[r] = "fetch" /\ UNCHANGED <<job, registered, pc>> /\ w[r] \in Working /\ w \in [Reqs -> Working]
    BY DEF Fetch, FetchFails, IInv, TypeOK, Working
  <1>2. \A f \in Files : local[f] = "good" => local'[f] = "good"
    BY DEF Fetch, FetchFails, IInv, TypeOK
  <1>3. DoneBy(r)' /\ \A q \in Reqs : q # r => w'[q] = w[q]
    <2>1. CASE Fetch(r)
      <3>1. PICK f \in w[r].rest : /\ local' = [local EXCEPT ![f] = "good"]
                                   /\ w' = [w EXCEPT ![r] = [w[r] EXCEPT !.rest = w[r].rest \ {f}]]
        BY <2>1 DEF Fetch
      <3>2. /\ w'[r].rest = w[r].rest \ {f} /\ w'[r].need = w[r].need /\ w'[r].failed = w[r].failed
            /\ \A q \in Reqs : q # r => w'[q] = w[q]
        BY <1>1, <3>1 DEF Working
      <3>3. local'[f] = "good" /\ w[r].need \subseteq Files
        BY <1>1, <3>1 DEF Working, IInv, TypeOK
      <3> QED
        BY <1>1, <1>2, <3>2, <3>3 DEF DoneBy, IInv
    <2>2. CASE FetchFails(r)
      <3>1. PICK f \in w[r].rest : w' = [w EXCEPT ![r] = [w[r] EXCEPT !.rest = w[r].rest \ {f}, !.failed = TRUE]]
        BY <2>2 DEF FetchFails
      <3>2. w'[r].failed /\ \A q \in Reqs : q # r => w'[q] = w[q]
        BY <1>1, <3>1 DEF Working
      <3> QED
        BY <1>1, <3>2 DEF DoneBy
    <2> QED
      BY <2>1, <2>2
  <1>4. Thread(r) /\ Thread(r)'
    BY <1>1 DEF Thread
  <1> QED
    BY <1>1, <1>2, <1>3, <1>4, ThreadKeeps

LEMMA FetchedKeeps == ASSUME IInv, TypeOK', NEW r \in Reqs, Fetched(r) PROVE IInv'
  <1>1. pc[r] = "fetch" /\ w[r].rest = {} /\ UNCHANGED <<local, registered, w>>
    BY DEF Fetched
  <1>2. /\ pc'[r] = IF w[r].failed THEN "error?" ELSE "register"
        /\ \A q \in Reqs : q # r => pc'[q] = pc[q]
    BY Moves DEF IInv, Fetched, Steps
  <1>3. job'.state = job.state /\ (w[r].failed => job'.error)
    BY DEF Fetched, IInv, TypeOK
  <1>4. DoneBy(r)'
    BY <1>1, <1>2, <1>3 DEF DoneBy, All, IInv
  <1> QED
    BY <1>1, <1>2, <1>3, <1>4, ThreadKeeps DEF Thread

LEMMA RegisterKeeps == ASSUME IInv, TypeOK', NEW r \in Reqs, Register(r) PROVE IInv'
  <1>1. pc[r] = "register" /\ UNCHANGED <<local, w>> /\ ~w[r].failed /\ All(r)
    BY DEF Register, IInv, DoneBy
  <1>2. pc'[r] \in {"finish", "error?"} /\ \A q \in Reqs : q # r => pc'[q] = pc[q]
    BY Moves DEF IInv, Register, Steps
  <1>3. job'.state = job.state /\ (registered' \/ job'.warning) /\ (registered => registered')
    BY DEF Register, IInv, TypeOK
  <1>4. DoneBy(r)'
    BY <1>1, <1>2, <1>3 DEF DoneBy, All
  <1> QED
    BY <1>1, <1>2, <1>3, <1>4, ThreadKeeps DEF Thread

\* The "_error" that is read is the reader's own.
LEMMA ReadErrorKeeps == ASSUME IInv, TypeOK', NEW r \in Reqs, ReadError(r) PROVE IInv'
  <1>1. pc[r] = "error?" /\ UNCHANGED <<job, local, registered, w>>
    BY DEF ReadError
  <1>2. pc'[r] = (IF job.error THEN "fail" ELSE "stale") /\ \A q \in Reqs : q # r => pc'[q] = pc[q]
    BY Moves DEF IInv, ReadError, Steps
  <1>3. DoneBy(r)'
    BY <1>1, <1>2 DEF DoneBy, All, IInv
  <1> QED
    BY <1>1, <1>2, <1>3, ThreadKeeps DEF Thread

LEMMA DropStaleKeeps == ASSUME IInv, TypeOK', NEW r \in Reqs, DropStale(r) PROVE IInv'
  <1>1. pc[r] = "stale" /\ UNCHANGED <<job, local, registered, w>>
    BY DEF DropStale
  <1>2. pc'[r] = "finish" /\ \A q \in Reqs : q # r => pc'[q] = pc[q]
    BY Moves DEF IInv, DropStale, Steps
  <1>3. DoneBy(r)'
    BY <1>1, <1>2 DEF DoneBy, All, IInv
  <1> QED
    BY <1>1, <1>2, <1>3, ThreadKeeps DEF Thread

LEMMA EndKeeps ==
    ASSUME IInv, TypeOK', NEW r \in Reqs, Fail(r) \/ Finish(r) \/ Restore(r) \/ Push(r) PROVE IInv'
  <1>1. pc[r] \in {"fail", "finish", "restore", "push"} /\ UNCHANGED <<local, w>> /\ (registered => registered')
    <2>1. CASE Fail(r) \/ Finish(r) \/ Push(r)
      BY <2>1 DEF Fail, Finish, Push
    <2>2. CASE Restore(r)
      BY <2>2 DEF Restore, IInv, TypeOK
    <2> QED
      BY <2>1, <2>2
  <1>2. pc'[r] = "idle" /\ \A q \in Reqs : q # r => pc'[q] = pc[q]
    BY Moves DEF IInv, Fail, Finish, Restore, Push, Steps
  <1>3. DoneBy(r)'
    BY <1>2 DEF DoneBy
  <1> QED
    BY <1>1, <1>2, <1>3, ThreadKeeps DEF Thread

LEMMA NextKeeps == IInv /\ ~job'.taken /\ [Next]_vars => IInv'
  <1> SUFFICES ASSUME IInv, ~job'.taken, [Next]_vars PROVE IInv'
    OBVIOUS
  <1>t. TypeOK'
    BY TypeKeeps DEF IInv
  <1>1. ASSUME NEW r \in Reqs, Ask(r) \/ Step(r) \/ PlanFails(r) \/ FetchFails(r) PROVE IInv'
    BY <1>1, <1>t, AskKeeps, CheckKeeps, PlanKeeps, DropNowKeeps, BeginKeeps, PackKeeps, NoPackKeeps, FetchKeeps,
       FetchedKeeps, RegisterKeeps, ReadErrorKeeps, DropStaleKeeps, EndKeeps DEF Step
  <1>2. CASE CloseGame \/ UNCHANGED vars
    BY <1>t, <1>2 DEF CloseGame, vars, IInv, OneAtATime, Thread, DoneBy, All
  <1> QED
    BY <1>1, <1>2 DEF Next

LEMMA InitHolds == Init => IInv
  <1> SUFFICES ASSUME Init PROVE IInv
    OBVIOUS
  <1>1. Idle \in Working /\ w \in [Reqs -> Working] /\ pc \in [Reqs -> Steps] /\ \A r \in Reqs : pc[r] = "idle"
    BY DEF Init, Idle, Working, Steps
  <1>2. TypeOK
    <2>1. local \in [Files -> {"none", "other", "good"}] /\ faults \in 0..MaxFaults
      BY KindsAssumption DEF Init
    <2>2. job \in [state : {"idle", "running", "done", "error"}, error : BOOLEAN, warning : BOOLEAN,
                   taken : BOOLEAN]
      BY DEF Init
    <2> QED
      BY <1>1, <2>1, <2>2 DEF Init, TypeOK, Working, Steps
  <1> QED
    BY <1>1, <1>2 DEF IInv, OneAtATime, Thread, DoneBy

-----------------------------------------------------------------------------

\* Every variable stays in its domain.
THEOREM TypeCorrect == Spec => []TypeOK
  <1>1. Init => TypeOK
    BY InitHolds DEF IInv
  <1> QED
    BY <1>1, TypeKeeps, PTL DEF Spec

\* Once taken, JOB stays marked.
LEMMA TakenStays == ASSUME TypeOK, job.taken, [Next]_vars PROVE job'.taken
  <1>1. \A v : [job EXCEPT !.state = v].taken /\ [job EXCEPT !.error = v].taken
               /\ [job EXCEPT !.warning = v].taken
    BY DEF TypeOK
  <1>2. ASSUME NEW r \in Reqs, Begin(r) PROVE job'.taken
    <2>1. job' = [state |-> "running", error |-> FALSE, warning |-> FALSE,
                  taken |-> job.taken \/ job.state = "running"]
      BY <1>2 DEF Begin
    <2>2. job'.taken = (job.taken \/ job.state = "running")
      BY <2>1
    <2> QED
      BY <2>2
  <1>3. ASSUME NEW r \in Reqs, Step(r), ~Begin(r) PROVE job'.taken
    BY <1>1, <1>3 DEF Step, Check, Plan, PlanRestore, PlanPush, DropNow, Pack, NoPack, Fetch, Fetched, Register,
                      ReadError, Fail, DropStale, Finish, Restore, Push
  <1> QED
    BY <1>2, <1>3 DEF Next, Ask, PlanFails, FetchFails, CloseGame, vars

LEMMA Invariant == Spec => []Inv
  <1>1. Init => Inv
    BY InitHolds DEF Inv, IInv
  <1>2. ASSUME Inv, [Next]_vars PROVE Inv'
    <2>1. TypeOK'
      BY <1>2, TypeKeeps DEF Inv
    <2>2. CASE job.taken
      BY <1>2, <2>1, <2>2, TakenStays DEF Inv
    <2>3. CASE ~job.taken
      BY <1>2, <2>1, <2>3, NextKeeps DEF Inv
    <2> QED
      BY <2>2, <2>3
  <1> QED
    BY <1>1, <1>2, PTL DEF Spec

\* jobs.rs, "a failed install must not leave files deleted": unless JOB was taken from a thread
\* at work, a thread that goes on to the stale files has all of its downloads, whatever other
\* requests look, plan and begin meanwhile.
THEOREM NoDeleteAfterFailureAlways == Spec => []NoDeleteAfterFailure
  <1>1. Inv => NoDeleteAfterFailure
    BY DEF Inv, IInv, DoneBy, NoDeleteAfterFailure
  <1> QED
    BY <1>1, Invariant, PTL

\* install_content: until JOB is taken from a thread at work, a job that ends as done has brought
\* every file it planned, and the game's tables have the track or JOB carries the warning.
THEOREM HonestEndAlways == Spec => HonestEnd
  <1> DEFINE Honest(r) == ~job.taken /\ pc[r] \in {"finish", "fail"} /\ pc'[r] = "idle" /\ job'.state = "done"
                            => /\ \A f \in w[r].need : local'[f] = "good"
                               /\ registered' \/ (w[r].need # {} /\ job'.warning)
  <1>1. Inv /\ [Next]_vars => [\A r \in Reqs : Honest(r)]_vars
    <2> SUFFICES ASSUME IInv, Next, NEW r \in Reqs, pc[r] \in {"finish", "fail"}, pc'[r] = "idle", job'.state = "done"
                 PROVE  /\ \A f \in w[r].need : local'[f] = "good"
                        /\ registered' \/ (w[r].need # {} /\ job'.warning)
      BY DEF Inv
    <2>1. Fail(r) \/ Finish(r)
      <3>1. PICK q \in Reqs : Ask(q) \/ Step(q) \/ PlanFails(q) \/ FetchFails(q)
        <4>1. CASE CloseGame
          BY <4>1 DEF CloseGame
        <4> QED
          BY <4>1 DEF Next
      <3>2. q = r
        <4>1. \/ pc' = pc
              \/ \E label \in Steps : Goto(q, label)
          BY <3>1 DEF Ask, Step, PlanFails, FetchFails, Check, Plan, PlanRestore, PlanPush, DropNow, Begin, Pack, NoPack,
                      Fetch, Fetched, Register, ReadError, Fail, DropStale, Finish, Restore, Push, Steps, IInv, TypeOK
        <4>2. CASE pc' = pc
          BY <4>2
        <4>3. CASE \E label \in Steps : Goto(q, label)
          BY <4>3, Moves DEF IInv
        <4> QED
          BY <4>1, <4>2, <4>3
      <3> QED
        BY <3>1, <3>2 DEF Ask, Step, PlanFails, FetchFails, Check, Plan, PlanRestore, PlanPush, DropNow, Begin, Pack, NoPack,
                      Fetch, Fetched, Register, ReadError, DropStale, Restore, Push
    <2>2. CASE Fail(r)
      BY <2>2 DEF Fail, IInv, TypeOK
    <2>3. CASE Finish(r)
      <3>1. pc[r] = "finish" /\ UNCHANGED <<local, registered>> /\ job'.warning = job.warning
            /\ ~(w[r].need = {} /\ job.warning)
        BY <2>3 DEF Finish, IInv, TypeOK
      <3> QED
        BY <3>1 DEF IInv, DoneBy, All
    <2> QED
      BY <2>1, <2>2, <2>3
  <1>2. [][\A r \in Reqs : Honest(r)]_vars => HonestEnd
    BY PTL DEF HonestEnd
  <1> QED
    BY <1>1, <1>2, Invariant, PTL DEF Spec

-----------------------------------------------------------------------------
(* PackQueue: a queued task always has a worker that will take it, whatever *)
(* the items; and until two workers build one item at once, the package an  *)
(* info names is the one beside it.                                         *)

Contents == Versions \cup {None, Torn}
Infos    == {None} \cup [out : Versions, pkg : Versions \cup {Torn}]

Answering  == [pc : {"idle"}] \cup [pc : {"look", "failed?", "queue"}, item : Items, key : Versions]
Free    == [pc : {"idle", "next"}]
Packing == [pc : {"start", "pack", "hash"}, task : Task]
Placing == [pc : {"unlink", "move", "info"}, task : Task, pkg : Versions \cup {Torn}]

Scene == [items : SUBSET Items, changes : Nat, faults : Nat, crashes : Nat, met : BOOLEAN]

Types ==
    /\ left \in Scene
    /\ src \in [Items -> Versions]
    /\ part \in [Items -> Contents] /\ pack \in [Items -> Contents] /\ info \in [Items -> Infos]
    /\ queue \in Seq(Task) /\ busy \in Items \cup {None} /\ failed \subseteq Task
    /\ ask \in [Askers -> Answering] /\ wk \in [Threads -> Free \cup Packing \cup Placing]

\* An item waits at most once: queue() looks under the lock it appends under.
Once == \A k, l \in DOMAIN queue : queue[k].item = queue[l].item => k = l

PackInv == Types /\ Once /\ NoLostTask

(* Every item has one worker at most, which alone touches its files.         *)

Placed(n) ==
    /\ wk[n].pc \in {"unlink", "move"} => part[wk[n].task.item] = wk[n].pkg
    /\ wk[n].pc \in {"move", "info"} => info[wk[n].task.item] = None
    /\ wk[n].pc = "info" => pack[wk[n].task.item] = wk[n].pkg
Apart == \A n, m \in Threads : Builds(n) /\ Builds(m) /\ Item(n) = Item(m) => n = m
Named == \A i \in Items : info[i] # None => pack[i] = info[i].pkg
Lone  == left.met \/ (Apart /\ Named /\ \A n \in Threads : Placed(n))

-----------------------------------------------------------------------------

LEMMA PackInitHolds == PackInit => PackInv /\ Lone
  <1> SUFFICES ASSUME PackInit PROVE PackInv /\ Lone
    OBVIOUS
  <1>1. ask \in [Askers -> Answering] /\ wk \in [Threads -> Free] /\ \A n \in Threads : wk[n].pc = "idle"
    BY DEF PackInit, Resting, Answering, Free
  <1>2. part \in [Items -> Contents] /\ pack \in [Items -> Contents] /\ info \in [Items -> Infos]
    BY DEF PackInit, Contents, Infos
  <1>3. left \in Scene
    BY BoundsAssumption DEF PackInit, Scene
  <1>4. Types /\ Once /\ NoLostTask
    BY <1>1, <1>2, <1>3 DEF PackInit, Types, Once, NoLostTask
  <1>5. Lone
    BY <1>1 DEF PackInit, Lone, Apart, Named, Builds, Placed
  <1> QED
    BY <1>4, <1>5 DEF PackInv

\* What a worker is, by its step.
LEMMA StepKinds ==
    ASSUME Types, NEW n \in Threads
    PROVE  /\ wk[n].pc \in {"start", "pack", "hash"} => wk[n] \in Packing /\ Item(n) \in Items
           /\ wk[n].pc \in {"unlink", "move", "info"} => wk[n] \in Placing /\ Item(n) \in Items
           /\ Builds(n) <=> wk[n].pc \in {"start", "pack", "hash", "unlink", "move", "info"}
           /\ Builds(n) => wk[n].task \in Task /\ Item(n) \in Items
  BY DEF Types, Free, Packing, Placing, Item, Task, Builds

\* What a scene has left, and that it does not forget.
LEMMA SpendScene == ASSUME Types, NEW what \in {"changes", "faults", "crashes"}, Spend(what)
                    PROVE  left' \in Scene /\ left'.met = left.met
  BY DEF Types, Scene, Spend

\* Files and builds as they are.
LEMMA LoneStays ==
    ASSUME left'.met = left.met, UNCHANGED <<part, pack, info>>,
           \A n \in Threads : Builds(n)' => Builds(n) /\ wk'[n] = wk[n]
    PROVE  Lone => Lone'
  <1>1. ASSUME NEW n \in Threads, Placed(n) PROVE Placed(n)'
    BY <1>1 DEF Placed, Builds
  <1>2. \A n \in Threads : Builds(n)' => Builds(n) /\ Item(n)' = Item(n)
    BY DEF Item
  <1> QED
    BY <1>1, <1>2 DEF Lone, Apart, Named

(* The manifest's threads. *)

\* A step of an asker that queues nothing.
LEMMA AskStep ==
    ASSUME PackInv, NEW a \in Askers, NEW step \in Answering, Asks(a, step),
           UNCHANGED <<src, files, memory, wk, left>>
    PROVE  PackInv' /\ (Lone => Lone')
  <1>1. Types'
    BY DEF PackInv, Types, Asks, files, memory
  <1>2. Once' /\ NoLostTask'
    BY DEF PackInv, Once, NoLostTask, memory
  <1>3. Lone => Lone'
    BY LoneStays DEF files, Builds
  <1> QED
    BY <1>1, <1>2, <1>3 DEF PackInv

LEMMA AskKinds ==
    ASSUME Types, NEW a \in Askers
    PROVE  /\ Resting \in Answering
           /\ ask[a].pc # "idle" => /\ ask[a].item \in Items /\ ask[a].key \in Versions
                                    /\ [ask[a] EXCEPT !.pc = "failed?"] \in Answering
                                    /\ [ask[a] EXCEPT !.pc = "queue"] \in Answering
  <1>1. ask[a] \in Answering
    BY DEF Types
  <1> QED
    BY <1>1 DEF Answering, Resting

LEMMA DigestKeeps == ASSUME PackInv, NEW a \in Askers, Digest(a) PROVE PackInv' /\ (Lone => Lone')
  <1>1. PICK i \in left.items : Asks(a, [pc |-> "look", item |-> i, key |-> src[i]])
    BY DEF Digest
  <1>2. [pc |-> "look", item |-> i, key |-> src[i]] \in Answering
    BY DEF PackInv, Types, Scene, Answering
  <1> QED
    BY <1>1, <1>2, AskStep DEF Digest

LEMMA LookKeeps == ASSUME PackInv, NEW a \in Askers, Look(a) PROVE PackInv' /\ (Lone => Lone')
  <1>1. Asks(a, Resting) \/ Asks(a, [ask[a] EXCEPT !.pc = "failed?"])
    BY DEF Look
  <1> QED
    BY <1>1, AskKinds, AskStep DEF Look, PackInv

LEMMA LookFailedKeeps == ASSUME PackInv, NEW a \in Askers, LookFailed(a) PROVE PackInv' /\ (Lone => Lone')
  <1>1. Asks(a, Resting) \/ Asks(a, [ask[a] EXCEPT !.pc = "queue"])
    BY DEF LookFailed
  <1> QED
    BY <1>1, AskKinds, AskStep DEF LookFailed, PackInv

LEMMA EnqueueKeeps == ASSUME PackInv, NEW a \in Askers, Enqueue(a) PROVE PackInv' /\ (Lone => Lone')
  <1>t. Types /\ ask[a].item \in Items /\ ask[a].key \in Versions /\ Resting \in Answering
    BY AskKinds DEF PackInv, Enqueue
  <1>1. UNCHANGED <<src, part, pack, info, busy, failed, left>> /\ ask' = [ask EXCEPT ![a] = Resting]
    BY DEF Enqueue, files, Asks
  <1> DEFINE i == ask[a].item
             task == [item |-> i, key |-> ask[a].key]
  <1>2. CASE Known(i)
    <2>1. Asks(a, Resting) /\ UNCHANGED <<src, files, memory, wk, left>>
      BY <1>1, <1>2 DEF Enqueue, files, memory, Asks
    <2> QED
      BY <1>t, <2>1, AskStep
  <1>3. CASE ~Known(i)
    <2>1. /\ queue' = Append(queue, task) /\ task \in Task
          /\ \/ busy # None /\ wk' = wk
             \/ busy = None /\ \E n \in Threads : wk[n].pc = "idle" /\ wk' = [wk EXCEPT ![n] = [pc |-> "next"]]
      BY <1>t, <1>3 DEF Enqueue, Works, Task
    <2>2. queue \in Seq(Task) /\ queue' \in Seq(Task) /\ queue' # <<>>
          /\ DOMAIN queue = 1..Len(queue) /\ DOMAIN queue' = 1..(Len(queue) + 1) /\ Len(queue) \in Nat
          /\ queue'[Len(queue) + 1] = task /\ \A k \in 1..Len(queue) : queue'[k] = queue[k]
      BY <1>t, <2>1 DEF Types
    <2>3. /\ wk' \in [Threads -> Free \cup Packing \cup Placing] /\ \E n \in Threads : wk'[n].pc # "idle"
          /\ \A n \in Threads : Builds(n)' => Builds(n) /\ wk'[n] = wk[n]
      <3>1. CASE busy # None /\ wk' = wk
        BY <1>t, <3>1 DEF PackInv, Types, NoLostTask, Builds
      <3>2. CASE \E n \in Threads : wk[n].pc = "idle" /\ wk' = [wk EXCEPT ![n] = [pc |-> "next"]]
        <4>1. PICK n \in Threads : wk[n].pc = "idle" /\ wk' = [wk EXCEPT ![n] = [pc |-> "next"]]
          BY <3>2
        <4>2. [pc |-> "next"] \in Free
          BY DEF Free
        <4>3. wk'[n] = [pc |-> "next"] /\ wk'[n].pc = "next" /\ \A m \in Threads : m # n => wk'[m] = wk[m]
          BY <1>t, <4>1 DEF Types
        <4>4. ASSUME NEW m \in Threads, Builds(m)' PROVE Builds(m) /\ wk'[m] = wk[m]
          BY <4>3, <4>4 DEF Builds
        <4> QED
          BY <1>t, <4>1, <4>2, <4>3, <4>4 DEF Types
      <3> QED
        BY <2>1, <3>1, <3>2
    <2>4. Types'
      BY <1>t, <1>1, <2>2, <2>3 DEF Types
    <2>5. Once'
      <3>1. \A k \in 1..Len(queue) : queue[k].item # i
        BY <1>3, <2>2 DEF Known
      <3> QED
        BY <2>2, <3>1 DEF PackInv, Once
    <2>6. NoLostTask'
      BY <2>3 DEF NoLostTask
    <2>7. Lone => Lone'
      BY <1>1, <2>3, LoneStays
    <2> QED
      BY <2>4, <2>5, <2>6, <2>7 DEF PackInv
  <1> QED
    BY <1>2, <1>3

(* A worker. *)

LEMMA TakeKeeps == ASSUME PackInv, NEW n \in Threads, Take(n) PROVE PackInv' /\ (Lone => Lone')
  <1>t. Types /\ wk[n].pc = "next" /\ UNCHANGED <<src, part, pack, info, failed, ask>>
    BY DEF PackInv, Take, files
  <1>1. CASE queue = <<>>
    <2>1. wk' = [wk EXCEPT ![n] = Resting] /\ busy' = None /\ queue' = queue /\ Resting \in Free /\ left' = left
      BY <1>1 DEF Take, Works, Resting, Free
    <2>2. wk'[n].pc = "idle" /\ \A m \in Threads : m # n => wk'[m] = wk[m]
      BY <1>t, <2>1 DEF Types, Resting
    <2>3. Types'
      BY <1>t, <2>1 DEF Types
    <2>4. Once' /\ NoLostTask'
      BY <1>1, <2>1 DEF PackInv, Once, NoLostTask
    <2>5. Lone => Lone'
      BY <1>t, <2>1, <2>2, LoneStays DEF Builds
    <2> QED
      BY <2>3, <2>4, <2>5 DEF PackInv
  <1>2. CASE queue # <<>>
    <2> DEFINE step == [pc |-> "start", task |-> Head(queue)]
               meets == \E m \in Threads : Builds(m) /\ Item(m) = Head(queue).item
    <2>1. /\ wk' = [wk EXCEPT ![n] = step] /\ busy' = Head(queue).item /\ queue' = Tail(queue)
          /\ left' = [left EXCEPT !.met = left.met \/ meets]
      BY <1>2 DEF Take, Works
    <2>2. /\ queue \in Seq(Task) /\ Head(queue) \in Task /\ Tail(queue) \in Seq(Task) /\ Len(queue) \in Nat
          /\ DOMAIN queue = 1..Len(queue) /\ Len(queue) > 0 /\ DOMAIN Tail(queue) = 1..(Len(queue) - 1)
          /\ \A k \in 1..(Len(queue) - 1) : Tail(queue)[k] = queue[k + 1]
      BY <1>t, <1>2 DEF Types
    <2>3. step \in Packing /\ Head(queue).item \in Items
      BY <2>2 DEF Packing, Task
    <2>4. /\ wk'[n] = step /\ wk'[n].pc = "start" /\ wk'[n].task = Head(queue)
          /\ \A m \in Threads : m # n => wk'[m] = wk[m]
      BY <1>t, <2>1 DEF Types
    <2>l. left' \in Scene /\ (~left'.met => ~left.met /\ ~meets)
      <3>1. PICK b \in BOOLEAN : b = (left.met \/ meets)
        OBVIOUS
      <3>2. left' = [left EXCEPT !.met = b] /\ left \in Scene
        BY <1>t, <2>1, <3>1 DEF Types
      <3>3. left' \in Scene /\ left'.met = b
        BY <3>2 DEF Scene
      <3> QED
        BY <3>1, <3>3
    <2>5. Types'
      BY <1>t, <2>1, <2>2, <2>3, <2>l DEF Types
    <2>6. Once'
      BY <2>1, <2>2 DEF PackInv, Once
    <2>7. NoLostTask'
      BY <2>4 DEF NoLostTask
    <2>8. ASSUME Lone PROVE Lone'
      <3> SUFFICES ASSUME ~left'.met PROVE Apart' /\ Named' /\ \A m \in Threads : Placed(m)'
        BY DEF Lone
      <3>1. Apart /\ Named /\ (\A m \in Threads : Placed(m)) /\ ~meets
        BY <2>l, <2>8 DEF Lone
      <3>2. \A m \in Threads : m # n => (Builds(m)' <=> Builds(m)) /\ Item(m)' = Item(m)
        BY <2>4 DEF Builds, Item
      <3>3. Item(n)' = Head(queue).item
        BY <2>4 DEF Item
      <3>4. Apart'
        BY <3>1, <3>2, <3>3 DEF Apart
      <3>5. \A m \in Threads : Placed(m)'
        BY <1>t, <2>4, <3>1 DEF Placed
      <3> QED
        BY <1>t, <3>1, <3>4, <3>5 DEF Named
    <2> QED
      BY <2>5, <2>6, <2>7, <2>8 DEF PackInv
  <1> QED
    BY <1>1, <1>2

\* A step of a build, which touches neither the queue nor BUSY, nor another item's files.
LEMMA WorkStep ==
    ASSUME PackInv, NEW n \in Threads, NEW step \in Free \cup Packing \cup Placing, Works(n, step),
           Builds(n), step.pc # "idle", step.pc = "next" \/ step.task = wk[n].task,
           UNCHANGED <<src, queue, busy, ask>>, failed' \subseteq Task,
           left' \in Scene, left'.met = left.met,
           part' \in [Items -> Contents], pack' \in [Items -> Contents], info' \in [Items -> Infos],
           \A i \in Items : i # Item(n) => part'[i] = part[i] /\ pack'[i] = pack[i] /\ info'[i] = info[i],
           Placed(n) /\ (info[Item(n)] # None => pack[Item(n)] = info[Item(n)].pkg)
             => Placed(n)' /\ (info'[Item(n)] # None => pack'[Item(n)] = info'[Item(n)].pkg)
    PROVE  PackInv' /\ (Lone => Lone')
  <1>t. Types /\ Item(n) \in Items
    BY StepKinds DEF PackInv
  <1>1. wk'[n] = step /\ (\A m \in Threads : m # n => wk'[m] = wk[m])
        /\ wk' \in [Threads -> Free \cup Packing \cup Placing]
    BY <1>t DEF Types, Works
  <1>2. PackInv'
    BY <1>t, <1>1 DEF PackInv, Types, Once, NoLostTask
  <1>3. ASSUME Lone PROVE Lone'
    <2> SUFFICES ASSUME ~left.met PROVE Apart' /\ Named' /\ \A m \in Threads : Placed(m)'
      BY DEF Lone
    <2>1. Apart /\ Named /\ \A m \in Threads : Placed(m)
      BY <1>3 DEF Lone
    <2>2. \A m \in Threads : Builds(m)' => Builds(m) /\ Item(m)' = Item(m)
      BY <1>1 DEF Builds, Item
    <2>3. Apart'
      BY <2>1, <2>2 DEF Apart
    <2>4. Named' /\ Placed(n)'
      BY <1>t, <2>1 DEF Named
    <2>5. ASSUME NEW m \in Threads, m # n PROVE Placed(m)'
      <3>1. CASE wk[m].pc \in {"unlink", "move", "info"}
        <4>1. Builds(m) /\ Item(m) \in Items /\ Item(m) # Item(n)
          BY <1>t, <2>1, <2>5, <3>1, StepKinds DEF Apart
        <4> QED
          BY <1>1, <2>1, <2>5, <4>1 DEF Placed, Item
      <3>2. CASE wk[m].pc \notin {"unlink", "move", "info"}
        BY <1>1, <2>5, <3>2 DEF Placed
      <3> QED
        BY <3>1, <3>2
    <2> QED
      BY <2>3, <2>4, <2>5
  <1> QED
    BY <1>2, <1>3

LEMMA StartPackKeeps == ASSUME PackInv, NEW n \in Threads, StartPack(n) PROVE PackInv' /\ (Lone => Lone')
  <1>t. /\ Types /\ wk[n].pc = "start" /\ wk[n] \in Packing /\ Item(n) \in Items /\ Builds(n)
        /\ left \in Scene
    BY StepKinds DEF PackInv, StartPack, At, Types
  <1> DEFINE step == [wk[n] EXCEPT !.pc = "pack"]
  <1>1. step \in Packing /\ step.pc = "pack" /\ step.task = wk[n].task
    BY <1>t DEF Packing
  <1>2. part' \in [Items -> Contents] /\ \A i \in Items : i # Item(n) => part'[i] = part[i]
    BY <1>t DEF StartPack, Types, Contents
  <1>3. wk'[n].pc = "pack" /\ Works(n, step)
    BY <1>t, <1>1 DEF StartPack, To, Works, Types
  <1> HIDE DEF step
  <1>4. Placed(n)'
    BY <1>3 DEF Placed
  <1> QED
    BY <1>t, <1>1, <1>2, <1>3, <1>4, WorkStep DEF StartPack, Types, memory

LEMMA EndPackKeeps == ASSUME PackInv, NEW n \in Threads, EndPack(n) PROVE PackInv' /\ (Lone => Lone')
  <1>t. /\ Types /\ wk[n].pc = "pack" /\ wk[n] \in Packing /\ Item(n) \in Items /\ Builds(n)
        /\ left \in Scene
    BY StepKinds DEF PackInv, EndPack, At, Types
  <1> DEFINE step == [wk[n] EXCEPT !.pc = "hash"]
  <1>1. step \in Packing /\ step.pc = "hash" /\ step.task = wk[n].task
    BY <1>t DEF Packing
  <1>2. part' \in [Items -> Contents] /\ \A i \in Items : i # Item(n) => part'[i] = part[i]
    BY <1>t DEF EndPack, Types, Contents
  <1>3. wk'[n].pc = "hash" /\ Works(n, step)
    BY <1>t, <1>1 DEF EndPack, To, Works, Types
  <1> HIDE DEF step
  <1>4. Placed(n)'
    BY <1>3 DEF Placed
  <1> QED
    BY <1>t, <1>1, <1>2, <1>3, <1>4, WorkStep DEF EndPack, Types, memory

\* worker() goes on with the next task.
LEMMA FailsKeeps ==
    ASSUME PackInv, NEW n \in Threads, Builds(n), Fails(n), UNCHANGED <<src, pack, info, queue, busy, ask>>,
           left' \in Scene, left'.met = left.met,
           part' \in [Items -> Contents], \A i \in Items : i # Item(n) => part'[i] = part[i]
    PROVE  PackInv' /\ (Lone => Lone')
  <1>t. Types /\ wk[n].task \in Task
    BY StepKinds DEF PackInv
  <1>1. [pc |-> "next"] \in Free /\ failed' \subseteq Task
    BY <1>t DEF Fails, Types, Free
  <1>3. wk'[n].pc = "next"
    BY <1>t DEF Fails, Works, Types
  <1>4. Placed(n)'
    BY <1>3 DEF Placed
  <1> QED
    BY <1>t, <1>1, <1>3, <1>4, WorkStep DEF Fails, Types

LEMMA HashKeeps == ASSUME PackInv, NEW n \in Threads, Hash(n) PROVE PackInv' /\ (Lone => Lone')
  <1>t. /\ Types /\ wk[n].pc = "hash" /\ wk[n] \in Packing /\ Item(n) \in Items /\ Builds(n)
        /\ left \in Scene
        /\ UNCHANGED <<src, part, pack, info, queue, busy, ask, left>>
    BY StepKinds DEF PackInv, Hash, At, Types, files
  <1>1. CASE part[Item(n)] = None
    BY <1>t, <1>1, FailsKeeps DEF Hash, Types
  <1>2. CASE part[Item(n)] # None
    <2> DEFINE step == [pc |-> "unlink", task |-> wk[n].task, pkg |-> part[Item(n)]]
    <2>1. step \in Placing /\ Works(n, step) /\ failed' = failed /\ step.pc = "unlink" /\ step.task = wk[n].task
      BY <1>t, <1>2 DEF Hash, Placing, Packing, Types, Contents
    <2>2. wk'[n] = step
      BY <1>t, <2>1 DEF Works, Types
    <2>3. Placed(n)'
      BY <1>t, <2>2 DEF Placed, Item
    <2> HIDE DEF step
    <2> QED
      BY <1>t, <2>1, <2>3, WorkStep DEF Types
  <1> QED
    BY <1>1, <1>2

LEMMA UnlinkKeeps == ASSUME PackInv, NEW n \in Threads, Unlink(n) PROVE PackInv' /\ (Lone => Lone')
  <1>t. /\ Types /\ wk[n].pc = "unlink" /\ wk[n] \in Placing /\ Item(n) \in Items /\ Builds(n)
        /\ left \in Scene
    BY StepKinds DEF PackInv, Unlink, At, Types
  <1> DEFINE step == [wk[n] EXCEPT !.pc = "move"]
  <1>1. step \in Placing /\ step.pc = "move" /\ step.task = wk[n].task /\ step.pkg = wk[n].pkg
    BY <1>t DEF Placing
  <1>2. info' = [info EXCEPT ![Item(n)] = None] /\ info' \in [Items -> Infos]
    BY <1>t DEF Unlink, Types, Infos
  <1>3. wk'[n] = step /\ Works(n, step)
    BY <1>t DEF Unlink, To, Works, Types
  <1> HIDE DEF step
  <1>4. info'[Item(n)] = None /\ \A i \in Items : i # Item(n) => info'[i] = info[i]
    BY <1>t, <1>2 DEF Types
  <1>5. Placed(n) => Placed(n)'
    BY <1>t, <1>1, <1>3, <1>4 DEF Unlink, Placed, Item
  <1> QED
    BY <1>t, <1>1, <1>2, <1>3, <1>4, <1>5, WorkStep DEF Unlink, Types, memory

LEMMA MoveKeeps == ASSUME PackInv, NEW n \in Threads, Move(n) PROVE PackInv' /\ (Lone => Lone')
  <1>t. /\ Types /\ wk[n].pc = "move" /\ wk[n] \in Placing /\ Item(n) \in Items /\ Builds(n)
        /\ left \in Scene /\ UNCHANGED <<src, info, queue, busy, ask, left>>
    BY StepKinds DEF PackInv, Move, At, Types
  <1>1. CASE part[Item(n)] = None
    BY <1>t, <1>1, FailsKeeps DEF Move, Types
  <1>2. CASE part[Item(n)] # None
    <2> DEFINE step == [wk[n] EXCEPT !.pc = "info"]
    <2>1. /\ pack' = [pack EXCEPT ![Item(n)] = part[Item(n)]] /\ part' = [part EXCEPT ![Item(n)] = None]
          /\ Works(n, step) /\ failed' = failed
      BY <1>2 DEF Move, To
    <2>2. step \in Placing /\ step.pc = "info" /\ step.task = wk[n].task /\ step.pkg = wk[n].pkg
      BY <1>t DEF Placing
    <2>3. pack' \in [Items -> Contents] /\ part' \in [Items -> Contents]
      BY <1>t, <2>1 DEF Types, Contents
    <2>4. /\ wk'[n] = step /\ pack'[Item(n)] = part[Item(n)]
          /\ \A i \in Items : i # Item(n) => pack'[i] = pack[i] /\ part'[i] = part[i]
      BY <1>t, <2>1 DEF Works, Types
    <2> HIDE DEF step
    <2>5. Placed(n) => Placed(n)' /\ info'[Item(n)] = None
      BY <1>t, <2>2, <2>4 DEF Placed, Item
    <2> QED
      BY <1>t, <2>1, <2>2, <2>3, <2>4, <2>5, WorkStep DEF Types
  <1> QED
    BY <1>1, <1>2

LEMMA PutInfoKeeps == ASSUME PackInv, NEW n \in Threads, PutInfo(n) PROVE PackInv' /\ (Lone => Lone')
  <1>t. /\ Types /\ wk[n].pc = "info" /\ wk[n] \in Placing /\ Item(n) \in Items /\ Builds(n)
        /\ left \in Scene
    BY StepKinds DEF PackInv, PutInfo, At, Types
  <1> DEFINE new == [out |-> wk[n].task.key, pkg |-> wk[n].pkg]
  <1>1. [pc |-> "next"] \in Free /\ new \in Infos
    BY <1>t DEF Free, Infos, Placing, Task
  <1>2. info' = [info EXCEPT ![Item(n)] = new] /\ info' \in [Items -> Infos] /\ new.pkg = wk[n].pkg
    BY <1>t, <1>1 DEF PutInfo, Types
  <1> HIDE DEF new
  <1>3. wk'[n].pc = "next" /\ info'[Item(n)] = new /\ \A i \in Items : i # Item(n) => info'[i] = info[i]
    BY <1>t, <1>2 DEF PutInfo, Works, Types
  <1>4. Placed(n) => Placed(n)' /\ pack'[Item(n)] = info'[Item(n)].pkg
    BY <1>t, <1>2, <1>3 DEF PutInfo, Placed, Item
  <1> QED
    BY <1>t, <1>1, <1>2, <1>3, <1>4, WorkStep DEF PutInfo, Types, memory

LEMMA BuildFailsKeeps == ASSUME PackInv, NEW n \in Threads, BuildFails(n) PROVE PackInv' /\ (Lone => Lone')
  <1>t. Types /\ Builds(n) /\ Item(n) \in Items /\ left' \in Scene /\ left'.met = left.met
    BY StepKinds, SpendScene DEF PackInv, BuildFails
  <1>1. part' \in [Items -> Contents] /\ \A i \in Items : i # Item(n) => part'[i] = part[i]
    BY <1>t DEF BuildFails, Types, Contents
  <1> QED
    BY <1>t, <1>1, FailsKeeps DEF BuildFails

(* The user and the machine. *)

LEMMA ChangeKeeps == ASSUME PackInv, Change PROVE PackInv' /\ (Lone => Lone')
  <1>1. /\ src' \in [Items -> Versions] /\ UNCHANGED <<files, memory, ask, wk>>
        /\ left' \in Scene /\ left'.met = left.met
    BY SpendScene DEF PackInv, Types, Change
  <1>2. Types'
    BY <1>1 DEF PackInv, Types, files, memory
  <1>3. Lone => Lone'
    BY <1>1, LoneStays DEF files, Builds
  <1> QED
    BY <1>1, <1>2, <1>3 DEF PackInv, Once, NoLostTask, memory

LEMMA CrashKeeps == ASSUME PackInv, Crash PROVE PackInv' /\ (Lone => Lone')
  <1>1. /\ UNCHANGED <<src, part, pack, info>> /\ queue' = <<>> /\ busy' = None /\ failed' = {}
        /\ ask' \in [Askers -> Answering] /\ wk' \in [Threads -> Free] /\ \A n \in Threads : wk'[n].pc = "idle"
    BY DEF Crash, files, Resting, Answering, Free
  <1>l. left' \in Scene /\ left'.met = left.met
    BY SpendScene DEF PackInv, Crash
  <1>2. Types'
    BY <1>1, <1>l DEF PackInv, Types
  <1>3. Once' /\ NoLostTask'
    BY <1>1 DEF Once, NoLostTask
  <1>4. Lone => Lone'
    BY <1>1, <1>l, LoneStays DEF Builds
  <1> QED
    BY <1>2, <1>3, <1>4 DEF PackInv

LEMMA PackNextKeeps == PackInv /\ [PackNext]_packVars => PackInv' /\ (Lone => Lone')
  <1> SUFFICES ASSUME PackInv, [PackNext]_packVars PROVE PackInv' /\ (Lone => Lone')
    OBVIOUS
  <1>1. CASE \E a \in Askers : Digest(a) \/ Asker(a)
    BY <1>1, DigestKeeps, LookKeeps, LookFailedKeeps, EnqueueKeeps DEF Asker
  <1>2. CASE \E n \in Threads : Worker(n) \/ BuildFails(n)
    BY <1>2, TakeKeeps, StartPackKeeps, EndPackKeeps, HashKeeps, UnlinkKeeps, MoveKeeps, PutInfoKeeps,
       BuildFailsKeeps DEF Worker
  <1>3. CASE Change \/ Crash
    BY <1>3, ChangeKeeps, CrashKeeps
  <1>4. CASE UNCHANGED packVars
    <2>1. PackInv'
      BY <1>4 DEF packVars, PackInv, Types, Once, NoLostTask
    <2>2. Lone => Lone'
      BY <1>4, LoneStays DEF packVars, Builds
    <2> QED
      BY <2>1, <2>2
  <1> QED
    BY <1>1, <1>2, <1>3, <1>4 DEF PackNext

LEMMA PackInvariant == PackSpec => []PackInv
  <1> QED
    BY PackInitHolds, PackNextKeeps, PTL DEF PackSpec

-----------------------------------------------------------------------------

\* The state keeps its types, and an item waits at most once, for queue() looks and
\* appends under the same two locks.
THEOREM PackTypeCorrect == PackSpec => []PackTypeOK
  <1>1. PackInv => PackTypeOK
    <2> SUFFICES ASSUME PackInv PROVE PackTypeOK
      OBVIOUS
    <2>1. \A i \in Items : info[i] = None \/ info[i] \in [out : Versions, pkg : Versions \cup {Torn}]
      BY DEF PackInv, Types, Infos
    <2>2. IsInjective([k \in DOMAIN queue |-> queue[k].item])
      BY DEF PackInv, Once, IsInjective
    <2> QED
      BY <2>1, <2>2 DEF PackInv, Types, Contents, PackTypeOK
  <1> QED
    BY <1>1, PackInvariant, PTL

\* queue and worker: a queued task has a worker that will take it and BUSY never outlives
\* the workers, for any number of items although two of them can be built at once.
THEOREM NoLostTaskAlways == PackSpec => []NoLostTask
  <1>1. PackInv => NoLostTask
    BY DEF PackInv
  <1> QED
    BY <1>1, PackInvariant, PTL

\* build, "a stale package next to new info is never served": until two workers build one item at
\* once, the package an info names is the one beside it, for any number of items and workers,
\* whatever crashes or fails.
THEOREM InfoNamesPackageAlways == PackSpec => []InfoNamesPackage
  <1>1. PackInit => PackInv /\ Lone
    BY PackInitHolds
  <1>2. PackInv /\ Lone /\ [PackNext]_packVars => PackInv' /\ Lone'
    BY PackNextKeeps
  <1>3. Lone => InfoNamesPackage
    BY DEF Lone, Named, InfoNamesPackage
  <1> QED
    BY <1>1, <1>2, <1>3, PTL DEF PackSpec
=============================================================================
