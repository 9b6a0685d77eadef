----------------------------- MODULE PackQueue -----------------------------
(***************************************************************************)
(* acemod.rs, the host's side: every manifest asks for the advert of each  *)
(* shared car and track; a package that is missing or out of date is       *)
(* queued, and background workers build and publish it.  QUEUE and BUSY    *)
(* are locked together by queue() and by a worker that takes a task; the   *)
(* source's digest, the info file and FAILED are read before that.         *)
(***************************************************************************)
EXTENDS Naturals, Sequences, Functions

CONSTANTS
    Items,      \* shared cars and tracks: one stem each
    Versions,   \* contents an item's source can have
    Askers,     \* threads that answer manifest requests
    Threads,    \* bound: worker threads alive at a time
    Scenes,     \* bounds: the items that are shared, how often a source changes, a build fails, and
                \* the app is killed and started again
    None, Torn  \* no file; a package half written

ASSUME BoundsAssumption ==
    /\ Scenes \subseteq [items : SUBSET Items, changes : Nat, faults : Nat, crashes : Nat, met : {FALSE}]
    /\ {None, Torn} \cap (Versions \cup Items) = {} /\ None # Torn

VARIABLES
    src,        \* each item's files
    part, pack, \* <stem>.acemod.part and <stem>.acemod: what they rebuild
    info,       \* <stem>.json: None, or the output and the package it names
    queue, busy, failed,    \* QUEUE, BUSY, FAILED
    ask,        \* an asker's step, its item and the digest it computed
    wk,         \* a worker's step, its task and the digest of its package
    left        \* the scene, with what is still to come; and whether two workers had one item to
                \* build at a time

packVars == <<src, part, pack, info, queue, busy, failed, ask, wk, left>>

files  == <<part, pack, info>>
memory == <<queue, busy, failed>>

Resting == [pc |-> "idle"]
Task    == [item : Items, key : Versions]

PackInit ==
    /\ src \in [Items -> Versions]
    /\ part = [i \in Items |-> None] /\ pack = [i \in Items |-> None]
    /\ info = [i \in Items |-> None]
    /\ queue = <<>> /\ busy = None /\ failed = {}
    /\ ask = [a \in Askers |-> Resting] /\ wk = [n \in Threads |-> Resting]
    /\ left \in Scenes

Spend(what) == left[what] > 0 /\ left' = [left EXCEPT ![what] = @ - 1]
Asks(a, step) == ask' = [ask EXCEPT ![a] = step]
Works(n, step) == wk' = [wk EXCEPT ![n] = step]

-----------------------------------------------------------------------------
(* advert *)

\* listing_digest over the digests the manifest was made from.
Digest(a) ==
    /\ ask[a].pc = "idle"
    /\ \E i \in left.items : Asks(a, [pc |-> "look", item |-> i, key |-> src[i]])
    /\ UNCHANGED <<src, files, memory, wk, left>>

\* The info and the package file exist and the info names the key.
Current(i, key) == info[i] # None /\ info[i].out = key /\ pack[i] # None

\* The advert is given when the size in the info is the file's as well: another
\* package may have the same size.
Look(a) ==
    /\ ask[a].pc = "look"
    /\ LET i == ask[a].item
           current == Current(i, ask[a].key)
       IN  \/ current /\ Asks(a, Resting)
           \/ ~(current /\ pack[i] = info[i].pkg) /\ Asks(a, [ask[a] EXCEPT !.pc = "failed?"])
    /\ UNCHANGED <<src, files, memory, wk, left>>

\* Mutant: a failed source is never packed again, whatever it has become.
LookFailed_ByName(a) ==
    /\ ask[a].pc = "failed?"
    /\ Asks(a, IF \E t \in failed : t.item = ask[a].item THEN Resting
               ELSE [ask[a] EXCEPT !.pc = "queue"])
    /\ UNCHANGED <<src, files, memory, wk, left>>

LookFailed(a) ==
    /\ ask[a].pc = "failed?"
    /\ Asks(a, IF [item |-> ask[a].item, key |-> ask[a].key] \in failed THEN Resting
               ELSE [ask[a] EXCEPT !.pc = "queue"])
    /\ UNCHANGED <<src, files, memory, wk, left>>

\* The item is being built or already waits.
Known(i) == busy = i \/ \E k \in DOMAIN queue : queue[k].item = i

\* queue(): under both locks; a worker is started unless BUSY is set.
Enqueue(a) ==
    /\ ask[a].pc = "queue"
    /\ LET i == ask[a].item
       IN  IF Known(i) THEN UNCHANGED <<queue, wk>>
           ELSE /\ queue' = Append(queue, [item |-> i, key |-> ask[a].key])
                /\ IF busy # None THEN UNCHANGED wk
                   ELSE \E n \in Threads : wk[n].pc = "idle" /\ Works(n, [pc |-> "next"])
    /\ Asks(a, Resting)
    /\ UNCHANGED <<src, files, busy, failed, left>>

-----------------------------------------------------------------------------
(* worker and build *)

At(n, pc) == wk[n].pc = pc
Item(n)   == wk[n].task.item
Builds(n) == wk[n].pc \notin {"idle", "next"}

\* Mutant: the worker leaves without clearing BUSY.
Take_StaysBusy(n) ==
    /\ wk[n].pc = "next"
    /\ IF queue = <<>>
       THEN Works(n, Resting) /\ UNCHANGED <<queue, busy>>
       ELSE /\ Works(n, [pc |-> "start", task |-> Head(queue)])
            /\ busy' = Head(queue).item /\ queue' = Tail(queue)
    /\ UNCHANGED <<src, files, failed, ask, left>>

\* BUSY names the item taken last, which need not be the only one that is being built: two
\* requests that find BUSY clear start a worker each.
Take(n) ==
    /\ wk[n].pc = "next"
    /\ IF queue = <<>>
       THEN Works(n, Resting) /\ busy' = None /\ UNCHANGED <<queue, left>>
       ELSE /\ Works(n, [pc |-> "start", task |-> Head(queue)])
            /\ busy' = Head(queue).item /\ queue' = Tail(queue)
            /\ left' = [left EXCEPT !.met = @ \/ \E m \in Threads : Builds(m) /\ Item(m) = Head(queue).item]
    /\ UNCHANGED <<src, files, failed, ask>>

To(n, pc) == Works(n, [wk[n] EXCEPT !.pc = pc])

\* run_pack: the old .part is removed and the converter writes a new one.
StartPack(n) ==
    /\ At(n, "start")
    /\ part' = [part EXCEPT ![Item(n)] = Torn]
    /\ To(n, "pack")
    /\ UNCHANGED <<src, pack, info, memory, ask, left>>

\* The converter reads the source as it is now, not as it was digested; if another
\* worker has replaced the .part meanwhile, this one may have written to the old file.
EndPack(n) ==
    /\ At(n, "pack")
    /\ \/ part' = [part EXCEPT ![Item(n)] = src[Item(n)]]
       \/ (\E m \in Threads \ {n} : At(m, "pack") /\ Item(m) = Item(n)) /\ UNCHANGED part
    /\ To(n, "hash")
    /\ UNCHANGED <<src, pack, info, memory, ask, left>>

\* worker() remembers the key of what could not be built.
Fails(n) == failed' = failed \cup {wk[n].task} /\ Works(n, [pc |-> "next"])

\* Another worker may have moved the .part away: nothing to hash.
Hash(n) ==
    /\ At(n, "hash")
    /\ IF part[Item(n)] = None THEN Fails(n)
       ELSE /\ Works(n, [pc |-> "unlink", task |-> wk[n].task, pkg |-> part[Item(n)]])
            /\ UNCHANGED failed
    /\ UNCHANGED <<src, files, queue, busy, ask, left>>

\* Mutant: the old info stays until the new one replaces it.
Unlink_Kept(n) ==
    /\ At(n, "unlink")
    /\ To(n, "move")
    /\ UNCHANGED <<src, files, memory, ask, left>>

Unlink(n) ==
    /\ At(n, "unlink")
    /\ info' = [info EXCEPT ![Item(n)] = None]
    /\ To(n, "move")
    /\ UNCHANGED <<src, part, pack, memory, ask, left>>

Move(n) ==
    /\ At(n, "move")
    /\ IF part[Item(n)] = None THEN Fails(n) /\ UNCHANGED <<part, pack>>
       ELSE /\ pack' = [pack EXCEPT ![Item(n)] = part[Item(n)]]
            /\ part' = [part EXCEPT ![Item(n)] = None]
            /\ To(n, "info") /\ UNCHANGED failed
    /\ UNCHANGED <<src, info, queue, busy, ask, left>>

\* Written beside and renamed.
PutInfo(n) ==
    /\ At(n, "info")
    /\ info' = [info EXCEPT ![Item(n)] = [out |-> wk[n].task.key, pkg |-> wk[n].pkg]]
    /\ Works(n, [pc |-> "next"])
    /\ UNCHANGED <<src, part, pack, memory, ask, left>>

\* The converter, a rename or the info's write fails; run_pack removes its .part.
BuildFails(n) ==
    /\ wk[n].pc \in {"pack", "hash", "move", "info"}
    /\ Spend("faults")
    /\ part' = IF At(n, "pack") THEN [part EXCEPT ![Item(n)] = None] ELSE part
    /\ Fails(n)
    /\ UNCHANGED <<src, pack, info, queue, busy, ask>>

-----------------------------------------------------------------------------
\* The user changes a shared mod or track.
Change ==
    /\ Spend("changes")
    /\ \E i \in left.items, v \in Versions : v # src[i] /\ src' = [src EXCEPT ![i] = v]
    /\ UNCHANGED <<files, memory, ask, wk>>

\* The app is killed and started again: the files stay, the statics do not.
Crash ==
    /\ Spend("crashes")
    /\ queue' = <<>> /\ busy' = None /\ failed' = {}
    /\ ask' = [a \in Askers |-> Resting] /\ wk' = [n \in Threads |-> Resting]
    /\ UNCHANGED <<src, files>>

Asker(a) == Look(a) \/ LookFailed(a) \/ Enqueue(a)

Worker(n) ==
    \/ Take(n) \/ StartPack(n) \/ EndPack(n) \/ Hash(n) \/ Unlink(n) \/ Move(n)
    \/ PutInfo(n)

PackNext ==
    \/ \E a \in Askers : Digest(a) \/ Asker(a)
    \/ \E n \in Threads : Worker(n) \/ BuildFails(n)
    \/ Change \/ Crash

PackSpec == PackInit /\ [][PackNext]_packVars

\* Threads run; manifests name every shared item again and again.
PackFairSpec ==
    /\ PackSpec
    /\ \A a \in Askers : WF_packVars(Asker(a))
    /\ \A n \in Threads : WF_packVars(Worker(n))
    /\ \A i \in Items : SF_packVars(\E a \in Askers : Digest(a) /\ ask'[a].item = i)
-----------------------------------------------------------------------------
(* Properties *)

\* Every variable stays in its domain; an item waits at most once.
PackTypeOK ==
    /\ src \in [Items -> Versions]
    /\ part \in [Items -> Versions \cup {None, Torn}] /\ pack \in [Items -> Versions \cup {None, Torn}]
    /\ \A i \in Items : info[i] = None \/ info[i] \in [out : Versions, pkg : Versions \cup {Torn}]
    /\ queue \in Seq(Task) /\ busy \in Items \cup {None} /\ failed \subseteq Task
    /\ IsInjective([k \in DOMAIN queue |-> queue[k].item])

\* advert and worker, under BUSY: a queued task always has a worker that will take it,
\* and BUSY never outlives the workers.
NoLostTask == queue # <<>> \/ busy # None => \E n \in Threads : wk[n].pc # "idle"

\* "a stale package next to new info is never served" (build): whatever crashes or fails, the
\* package an info names is the one beside it, unless two workers were at one item.
InfoNamesPackage == left.met \/ \A i \in Items : info[i] # None => pack[i] = info[i].pkg

\* Every shared item is, again and again, ready to be advertised with its current files,
\* or its build is known to fail.
Advertised ==
    \A i \in Items : []<>(\/ i \notin left.items \/ Current(i, src[i])
                          \/ [item |-> i, key |-> src[i]] \in failed)
=============================================================================
