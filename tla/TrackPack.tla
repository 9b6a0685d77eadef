----------------------------- MODULE TrackPack -----------------------------
(***************************************************************************)
(* A shared track on its way to the joiners.  The host (registry.rs) keeps *)
(* one tar of it with the signature of the files it was made from and its  *)
(* own digest, and makes it anew, one request at a time, when the files    *)
(* changed.  A joiner (contentsync.rs) pulls the tar in ranges, each range *)
(* a request of its own, checks it against the digest of the first answer, *)
(* unpacks it in place, and fetches file by file whenever that fails.      *)
(***************************************************************************)
EXTENDS Naturals, FiniteSets, FiniteSetsExt, Functions

CONSTANTS
    Files,          \* of the track, in the tar's order
    Joiners, Others, None,  \* who joins; who else asks the host for the pack
    PackMin,        \* from how many files on the pack is tried
    Scenes          \* bounds: how often files change, seen or unseen, the host is killed, an
                    \* operation fails and a pack is pruned; and neither went a digest
                    \* unwritten nor a change unseen yet

ASSUME ConstantsAssumption ==
    /\ IsFiniteSet(Files) /\ Files \subseteq Nat /\ Files # {}
    /\ None \notin Joiners \cup Others /\ Joiners \cap Others = {}
    /\ PackMin \in Nat
    /\ Scenes \subseteq [changes : Nat, disguises : Nat, kills : Nat, faults : Nat, prunes : Nat,
                         undigested : {FALSE}, unseen : {FALSE}]

VARIABLES
    track,      \* the host's files: which change each is from
    stamp,      \* track_sig of the files as they are
    pack,       \* what is in the packs folder: the tar, its signature, its digest
    lock,       \* PACK_LOCKS of this track: who holds it
    builds,     \* tars made so far
    req,        \* the host's thread for each one's pack request
    job,        \* each joiner's job
    have,       \* each joiner's files: when the host had written them
    left        \* what may still change, be killed, fail or be pruned

vars == <<track, stamp, pack, lock, builds, req, job, have, left>>
host == <<track, stamp, pack, lock, builds>>

NoTar  == [at |-> 0, files |-> [i \in Files |-> 0]]
Blank  == [NoTar EXCEPT !.files = [i \in Files |-> 1]]   \* a digest file with nothing in it
NoReq  == [pc |-> "none"]
NoJob  == [pc |-> "idle", plan |-> [i \in Files |-> 0], done |-> FALSE]

Init ==
    /\ track = [i \in Files |-> 1] /\ stamp = 1
    /\ pack = [tar |-> NoTar, sig |-> 0, sha |-> NoTar]
    /\ lock = None /\ builds = 0
    /\ req = [j \in Joiners \cup Others |-> NoReq]
    /\ job = [j \in Joiners |-> NoJob]
    /\ have = [j \in Joiners |-> [i \in Files |-> 0]]
    /\ left \in Scenes

Spend(what) == left[what] > 0 /\ left' = [left EXCEPT ![what] = @ - 1]

-----------------------------------------------------------------------------
(* The host: one request for the pack *)

Serving(j, pc) == req[j].pc = pc
Serve(j, step) == req' = [req EXCEPT ![j] = step]
Serves(j, pc)  == Serve(j, [req[j] EXCEPT !.pc = pc])
Answer(j, ok, tar, sha) == Serve(j, [pc |-> "answer", ok |-> ok, tar |-> tar, sha |-> sha])
NotFound(j) == Answer(j, FALSE, NoTar, NoTar)

\* Mutant: the digest is not asked for.
Current_NoDigest == pack.sig = stamp /\ pack.tar # NoTar

Current == pack.sig = stamp /\ pack.tar # NoTar /\ pack.sha # NoTar

\* ensure_track_pack takes the lock; build_track_pack takes the signature of the files
\* before it reads them.
Ensure(j) ==
    /\ Serving(j, "asked") /\ lock = None
    /\ IF Current THEN Serves(j, "digest") /\ UNCHANGED lock
       ELSE /\ Serve(j, [pc |-> "tar", want |-> stamp, part |-> NoTar.files, todo |-> Files])
            /\ lock' = j
    /\ UNCHANGED <<track, stamp, pack, builds, job, have, left>>

\* A file is added to the .part; a build that fails leaves the pack as it was.
AddFile(j) ==
    /\ Serving(j, "tar")
    /\ \/ /\ LET i == Min(req[j].todo) IN
             Serve(j, [req[j] EXCEPT !.part[i] = track[i], !.todo = @ \ {i},
                                     !.pc = IF req[j].todo = {i} THEN "name" ELSE @])
          /\ UNCHANGED <<lock, left>>
       \/ Spend("faults") /\ NotFound(j) /\ lock' = None
    /\ UNCHANGED <<track, stamp, pack, builds, job, have>>

Name(j) ==
    /\ Serving(j, "name")
    /\ \/ /\ builds' = builds + 1
          /\ pack' = [pack EXCEPT !.tar = [at |-> builds', files |-> req[j].part]]
          /\ Serves(j, "sig") /\ UNCHANGED <<lock, left>>
       \/ Spend("faults") /\ NotFound(j) /\ lock' = None /\ UNCHANGED <<builds, pack>>
    /\ UNCHANGED <<track, stamp, job, have>>

\* Mutant: the signature of the files as they are now.
WriteSig_Now(j) ==
    /\ Serving(j, "sig") /\ Serves(j, "sha")
    /\ pack' = [pack EXCEPT !.sig = stamp] /\ UNCHANGED left
    /\ UNCHANGED <<track, stamp, lock, builds, job, have>>

\* A signature that cannot be written is not noticed.
WriteSig(j) ==
    /\ Serving(j, "sig") /\ Serves(j, "sha")
    /\ \/ pack' = [pack EXCEPT !.sig = req[j].want] /\ UNCHANGED left
       \/ Spend("faults") /\ UNCHANGED pack
    /\ UNCHANGED <<track, stamp, lock, builds, job, have>>

\* The digest cannot be written, or not even taken.
WriteSha(j) ==
    /\ Serving(j, "sha") /\ Serves(j, "digest") /\ lock' = None
    /\ \/ pack' = [pack EXCEPT !.sha = pack.tar] /\ UNCHANGED left
       \/ /\ left.faults > 0 /\ pack' \in {pack, [pack EXCEPT !.sha = Blank]}
          /\ left' = [left EXCEPT !.faults = @ - 1, !.undigested = TRUE]
    /\ UNCHANGED <<track, stamp, builds, job, have>>

\* track_pack_sha, and then the tar, both after the lock.
ReadSha(j) ==
    /\ Serving(j, "digest")
    /\ Serve(j, [pc |-> "open", sha |-> IF pack.sha = Blank THEN NoTar ELSE pack.sha])
    /\ UNCHANGED <<host, job, have, left>>

OpenTar(j) ==
    /\ Serving(j, "open")
    /\ IF pack.tar = NoTar THEN NotFound(j) ELSE Answer(j, TRUE, pack.tar, req[j].sha)
    /\ UNCHANGED <<host, job, have, left>>

-----------------------------------------------------------------------------
(* The host's disk *)

Newest == Max(Range(track))
Writes == \E i \in Files : track' = [track EXCEPT ![i] = Newest + 1]

\* A file of the track is written anew, and changes its signature: the number of files,
\* their size in all and the newest time.
Change ==
    /\ Spend("changes") /\ Writes /\ stamp' = Newest + 1
    /\ UNCHANGED <<pack, lock, builds, req, job, have>>

\* A file of the old one's size that is no newer than the others, as one copied back from
\* an older release is: the signature stays what it was, or becomes what it once was.
Disguise ==
    /\ left.disguises > 0 /\ Writes /\ stamp' \in 1..stamp
    /\ left' = [left EXCEPT !.disguises = @ - 1, !.unseen = TRUE]
    /\ UNCHANGED <<pack, lock, builds, req, job, have>>

\* Whatever the host is doing it stops; its joiners get no answer.
KillHost ==
    /\ Spend("kills") /\ lock' = None
    /\ req' = [j \in Joiners \cup Others |->
                 IF Serving(j, "none") THEN NoReq
                 ELSE [pc |-> "answer", ok |-> FALSE, tar |-> NoTar, sha |-> NoTar]]
    /\ UNCHANGED <<track, stamp, pack, builds, job, have>>

\* prune_track_packs, of a pack nobody asked for in three days: the tar, the signature,
\* the digest, as far as it comes before the host is killed.
Prune ==
    /\ Spend("prunes") /\ lock = None /\ pack.tar # NoTar
    /\ \A j \in Joiners \cup Others : Serving(j, "none")
    /\ \A j \in Joiners : job[j].pc = "idle"
    /\ pack' \in {[pack EXCEPT !.tar = NoTar],
                  [pack EXCEPT !.tar = NoTar, !.sig = 0],
                  [tar |-> NoTar, sig |-> 0, sha |-> NoTar]}
    /\ UNCHANGED <<track, stamp, lock, builds, req, job, have>>

-----------------------------------------------------------------------------
(* A joiner *)

At(j, pc)   == job[j].pc = pc
Does(j, step) == job' = [job EXCEPT ![j] = step]
Goes(j, pc) == Does(j, [job[j] EXCEPT !.pc = pc])
Got(j, ok)  == Serving(j, "answer") /\ req[j].ok = ok /\ Serve(j, NoReq)

\* The job is over.
Ends(j, ok) == Does(j, [pc |-> "idle", plan |-> job[j].plan, done |-> ok])

\* Every file of the plan is fetched on its own.
FilesOf(j) == [pc |-> "files", plan |-> job[j].plan, need |-> job[j].need, todo |-> job[j].need,
               failed |-> FALSE]

\* plan, from the host's manifest, then install_files_with: a pack for many files.
Plan(j) ==
    /\ At(j, "idle")
    /\ LET need == {i \in Files : have[j][i] # track[i]} IN
        /\ need # {}
        /\ Does(j, IF Cardinality(need) >= PackMin
                   THEN [pc |-> "probe", plan |-> track, need |-> need]
                   ELSE [pc |-> "files", plan |-> track, need |-> need, todo |-> need, failed |-> FALSE])
    /\ UNCHANGED <<host, req, have, left>>

Request(j) ==
    /\ At(j, "probe") \/ At(j, "ranges") \/ At(j, "stream")
    /\ Serving(j, "none") /\ Serve(j, [pc |-> "asked"])
    /\ UNCHANGED <<host, job, have, left>>

\* An answer that does not arrive.
Lose(j) ==
    /\ Serving(j, "answer") /\ req[j].ok /\ Spend("faults") /\ NotFound(j)
    /\ UNCHANGED <<host, job, have>>

\* One byte, for the digest and the size, which tells how to go on.
Probed(j) ==
    /\ At(j, "probe") /\ Got(j, TRUE)
    /\ \/ Does(j, [pc |-> "ranges", plan |-> job[j].plan, need |-> job[j].need,
                   want |-> req[j].sha, parts |-> [i \in Files |-> NoTar]])
       \/ Goes(j, "stream")
    /\ UNCHANGED <<host, have, left>>

\* ranged_to_file: each range from the tar its own request is served from.
GotRange(j) ==
    /\ At(j, "ranges") /\ Got(j, TRUE)
    /\ LET todo == {i \in Files : job[j].parts[i] = NoTar} IN
       \E i \in todo : Does(j, [job[j] EXCEPT !.parts[i] = req[j].tar,
                                              !.pc = IF todo = {i} THEN "check" ELSE @])
    /\ UNCHANGED <<host, have, left>>

\* One stream has one digest and one tar.
Streamed(j) ==
    /\ At(j, "stream") /\ Got(j, TRUE)
    /\ Does(j, [pc |-> "check", plan |-> job[j].plan, need |-> job[j].need,
                want |-> req[j].sha, parts |-> [i \in Files |-> req[j].tar]])
    /\ UNCHANGED <<host, have, left>>

\* No ranges: one stream.  No pack: the files.
Refused(j) ==
    /\ Got(j, FALSE)
    /\ Does(j, IF At(j, "ranges") THEN [pc |-> "stream", plan |-> job[j].plan, need |-> job[j].need]
               ELSE FilesOf(j))
    /\ UNCHANGED <<host, have, left>>

Matches(j) == job[j].want = NoTar \/ Range(job[j].parts) = {job[j].want}

\* What the ranges are together: a tar, or bytes of several.
Joined(j) ==
    LET tars == Range(job[j].parts) IN IF Cardinality(tars) = 1 THEN CHOOSE t \in tars : TRUE ELSE NoTar

Unpacks(j) == [pc |-> "unpack", plan |-> job[j].plan, need |-> job[j].need,
               tar |-> Joined(j), todo |-> Files]

\* Mutant: a pack that does not match ends the job.
Check_Ends(j) ==
    /\ At(j, "check")
    /\ IF Matches(j) THEN Does(j, Unpacks(j)) ELSE Ends(j, FALSE)
    /\ UNCHANGED <<host, req, have, left>>

\* Every byte against the digest of the first answer, if it had one.
Check(j) ==
    /\ At(j, "check")
    /\ Does(j, IF Matches(j) THEN Unpacks(j) ELSE FilesOf(j))
    /\ UNCHANGED <<host, req, have, left>>

\* extract_tar_safe: in place, in the tar's order; then the files need only be there.
Unpack(j) ==
    /\ At(j, "unpack")
    /\ \/ /\ LET i == Min(job[j].todo) IN
                /\ have' = [have EXCEPT ![j][i] = job[j].tar.files[i]]
                /\ IF job[j].todo = {i} THEN Ends(j, TRUE) ELSE Does(j, [job[j] EXCEPT !.todo = @ \ {i}])
          /\ UNCHANGED left
       \/ Spend("faults") /\ Does(j, FilesOf(j)) /\ UNCHANGED have
    /\ UNCHANGED <<host, req>>

\* fetch_ranged, fetch: a file is kept when it is the one the manifest declared; the
\* others are fetched all the same, and the job fails.
FetchFile(j) ==
    /\ At(j, "files")
    /\ \E i \in job[j].todo :
        \E ok \in {TRUE, FALSE} :
          /\ IF ok THEN track[i] = job[j].plan[i] /\ UNCHANGED left
             ELSE IF track[i] = job[j].plan[i] THEN Spend("faults") ELSE UNCHANGED left
          /\ have' = IF ok THEN [have EXCEPT ![j][i] = track[i]] ELSE have
          /\ LET failed == job[j].failed \/ ~ok IN
             IF job[j].todo = {i} THEN Ends(j, ~failed)
             ELSE Does(j, [job[j] EXCEPT !.todo = @ \ {i}, !.failed = failed])
    /\ UNCHANGED <<host, req>>

-----------------------------------------------------------------------------

\* A push or an export wants the pack too.
OtherAsks(j) ==
    /\ \/ Serving(j, "none") /\ Serve(j, [pc |-> "asked"])
       \/ Serving(j, "answer") /\ Serve(j, NoReq)
    /\ UNCHANGED <<host, job, have, left>>

HostStep(j) ==
    Ensure(j) \/ AddFile(j) \/ Name(j) \/ WriteSig(j) \/ WriteSha(j) \/ ReadSha(j) \/ OpenTar(j)

JoinerStep(j) ==
    \/ Plan(j) \/ Request(j) \/ Probed(j) \/ GotRange(j) \/ Streamed(j) \/ Refused(j)
    \/ Check(j) \/ Unpack(j) \/ FetchFile(j)

Next ==
    \/ \E j \in Joiners \cup Others : HostStep(j)
    \/ \E j \in Joiners : JoinerStep(j) \/ Lose(j)
    \/ \E j \in Others : OtherAsks(j)
    \/ Change \/ Disguise \/ KillHost \/ Prune

Spec == Init /\ [][Next]_vars

\* The host's threads and the joiner's job run, and a joiner asks again as long as its
\* files differ from the host's.
FairSpec ==
    /\ Spec
    /\ \A j \in Joiners \cup Others : SF_vars(Ensure(j)) /\ WF_vars(HostStep(j))
    /\ \A j \in Joiners : WF_vars(JoinerStep(j))

-----------------------------------------------------------------------------
(* Properties *)

\* The last change of the track changed its signature.
Seen == stamp = Newest

\* "Rebuilt only when files change" (ensure_track_pack): a tar whose signature is that of
\* the files as they are holds those files, although they may change while it is made and
\* the host may be killed between any two writes; unless their last change is one that
\* track_sig does not see.
SigTruthful ==
    pack.sig = stamp /\ pack.tar # NoTar /\ Seen => pack.tar.files = track

\* A job that ends well leaves no file that is older than the manifest it was planned from,
\* or put together from two tars, although a pack's files are not compared with the
\* manifest (install_files_with) and every range is a request of its own, which may make
\* the host build a new tar; as long as the host can write the digests of its tars and
\* track_sig saw every change.
HonestEnd ==
    \A j \in Joiners : At(j, "idle") /\ job[j].done /\ ~left.undigested /\ ~left.unseen =>
        \A i \in Files : have[j][i] >= job[j].plan[i]

\* Whatever was killed, failed or left stale beside the tar, when the track no longer
\* changes every joiner that keeps asking ends with the host's files; unless the last
\* change went unseen: then it may be given the old pack as often as it asks.
Converges == \A j \in Joiners : <>[](Seen => have[j] = track)
=============================================================================
