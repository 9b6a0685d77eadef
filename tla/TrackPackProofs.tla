--------------------------- MODULE TrackPackProofs ---------------------------
(* Proofs about TrackPack, for any number of files, joiners and requesters   *)
(* and any number of changes, kills, faults and prunes: a tar whose          *)
(* signature is that of the files holds them, and a joiner's job that ends   *)
(* well leaves no file older than the manifest it was planned from.          *)
EXTENDS TrackPack, FiniteSetTheorems, TLAPS

Everyone == Joiners \cup Others
Plans == [Files -> Nat]
Tars  == [at : Nat, files : Plans]

Short   == [pc : {"none", "asked", "digest"}]
Making  == [pc : {"tar", "name", "sig", "sha", "digest"}, want : Nat, part : Plans, todo : SUBSET Files]
Opening == [pc : {"open"}, sha : Tars]
Answers == [pc : {"answer"}, ok : BOOLEAN, tar : Tars, sha : Tars]
Reqs    == Short \cup Making \cup Opening \cup Answers

Idle      == [pc : {"idle"}, plan : Plans, done : BOOLEAN]
Asking    == [pc : {"probe", "stream"}, plan : Plans, need : SUBSET Files]
Ranging   == [pc : {"ranges", "check"}, plan : Plans, need : SUBSET Files, want : Tars, parts : [Files -> Tars]]
Unpacking == [pc : {"unpack"}, plan : Plans, need : SUBSET Files, tar : Tars, todo : SUBSET Files]
Fetching  == [pc : {"files"}, plan : Plans, need : SUBSET Files, todo : SUBSET Files, failed : BOOLEAN]
Jobs      == Idle \cup Asking \cup Ranging \cup Unpacking \cup Fetching

Lefts == [changes : Nat, disguises : Nat, kills : Nat, faults : Nat, prunes : Nat,
          undigested : BOOLEAN, unseen : BOOLEAN]

TypeOK ==
    /\ track \in Plans /\ stamp \in Nat /\ builds \in Nat
    /\ pack \in [tar : Tars, sig : Nat, sha : Tars]
    /\ lock \in Everyone \cup {None}
    /\ req \in [Everyone -> Reqs]
    /\ job \in [Joiners -> Jobs]
    /\ have \in [Joiners -> Plans]
    /\ left \in Lefts

(* The host.  A change that changes the signature gives it a number above    *)
(* all before, Sig(track).  A build took its signature before it read a      *)
(* file: if it took that one, no file it has read was changed since.         *)

Sig(t) == Max(Range(t))
HasNewest == \E i \in Files : \A k \in Files : track[k] <= track[i]

Adds(j)   == req[j].pc \in {"tar", "name"}
Builds(j) == req[j].pc \in {"tar", "name", "sig", "sha"}
BuildOf(j) ==
    /\ Builds(j) => /\ lock = j /\ req[j].want <= Sig(track)
                    /\ pack.sig = Sig(track) => req[j].want = Sig(track)
                    /\ req[j].want = Sig(track) => stamp = Sig(track)
    /\ Adds(j) /\ req[j].want = Sig(track) => \A i \in Files \ req[j].todo : req[j].part[i] = track[i]
    /\ req[j].pc = "name" => req[j].todo = {}
    /\ req[j].pc = "sig" /\ req[j].want = Sig(track) => pack.tar.files = track
    /\ req[j].pc \in {"sig", "sha"} => pack.tar.at > 0
Fresh == pack.sig = Sig(track) /\ pack.tar # NoTar => pack.tar.files = track
Stamped == ~left.unseen => stamp = Sig(track)
Host ==
    /\ HasNewest
    /\ stamp <= Sig(track) /\ pack.sig <= Sig(track)
    /\ pack.sig = Sig(track) => stamp = Sig(track)
    /\ Fresh
    /\ \A j \in Everyone : BuildOf(j)

(* What a request is answered with is no older than what its joiner planned. *)

Later(files, plan) == \A i \in Files : plan[i] <= files[i]

Past(j) == req[j].pc \in {"tar", "name", "sig", "sha", "digest", "open"}
Asked(j) ==
    /\ req[j].pc # "none" => job[j].pc \in {"probe", "ranges", "stream"}
    /\ Past(j) => \A k \in Everyone : Adds(k) => \A i \in Files \ req[k].todo : job[j].plan[i] <= req[k].part[i]
    /\ req[j].pc \in {"sig", "sha", "digest", "open"} /\ ~left.unseen => Later(pack.tar.files, job[j].plan)
    /\ req[j].pc = "answer" /\ req[j].ok /\ ~left.unseen => Later(req[j].tar.files, job[j].plan)

\* The digest, as long as each could be written.
DigestOf(j) ==
    /\ req[j].pc = "digest" => pack.sha # NoTar
    /\ req[j].pc = "open" => req[j].sha # NoTar
    /\ req[j].pc = "answer" /\ req[j].ok => req[j].sha # NoTar
Digests == ~left.undigested => pack.sha # Blank /\ \A j \in Everyone : DigestOf(j)

(* What a job has fetched, and what it leaves.                               *)

Planned(j) == \A i \in Files : job[j].plan[i] <= track[i]
Ranges(j) == job[j].pc \in {"ranges", "check"} =>
    /\ ~left.unseen => \A i \in Files : job[j].parts[i] = NoTar \/ Later(job[j].parts[i].files, job[j].plan)
    /\ ~left.undigested => job[j].want # NoTar
Fetched(j) == ~left.undigested /\ ~left.unseen =>
    /\ job[j].pc # "idle" => \A i \in Files \ job[j].need : job[j].plan[i] <= have[j][i]
    /\ job[j].pc = "unpack" =>
        /\ Later(job[j].tar.files, job[j].plan)
        /\ \A i \in Files \ job[j].todo : job[j].plan[i] <= have[j][i]
    /\ job[j].pc = "files" /\ ~job[j].failed => \A i \in Files \ job[j].todo : job[j].plan[i] <= have[j][i]
    /\ job[j].pc = "idle" /\ job[j].done => Later(have[j], job[j].plan)
Joins == \A j \in Joiners : Asked(j) /\ Planned(j) /\ Ranges(j) /\ Fetched(j)

IInv == TypeOK /\ Host /\ Stamped /\ Digests /\ Joins


(* Facts about the state. *)

LEMMA SigMax ==
    ASSUME TypeOK, HasNewest
    PROVE  /\ Sig(track) \in Nat
           /\ \A k \in Files : track[k] <= Sig(track)
           /\ \E i \in Files : track[i] = Sig(track)
  <1>1. PICK i \in Files : \A k \in Files : track[k] <= track[i]
    BY DEF HasNewest
  <1>2. Range(track) = {track[k] : k \in Files} /\ \A k \in Files : track[k] \in Nat
    BY DEF TypeOK, Plans, Range
  <1>3. \E x \in Range(track) : \A y \in Range(track) : x >= y
    BY <1>1, <1>2
  <1>4. Sig(track) \in Range(track) /\ \A y \in Range(track) : Sig(track) >= y
    BY <1>3 DEF Sig, Max
  <1> QED
    BY <1>2, <1>4

\* Who is the newest of the files gives the signature.
LEMMA SigOf ==
    ASSUME NEW t \in Plans, NEW i \in Files, \A k \in Files : t[k] <= t[i]
    PROVE  Sig(t) = t[i]
  <1>1. Range(t) = {t[k] : k \in Files} /\ \A k \in Files : t[k] \in Nat
    BY DEF Plans, Range
  <1>2. t[i] \in Range(t) /\ \A y \in Range(t) : t[i] >= y
    BY <1>1
  <1>3. Sig(t) \in Range(t) /\ \A y \in Range(t) : Sig(t) >= y
    BY <1>2 DEF Sig, Max
  <1> QED
    BY <1>1, <1>2, <1>3

LEMMA Blanks == NoTar \in Tars /\ Blank \in Tars /\ NoTar # Blank /\ NoTar.at = 0 /\ Blank.at = 0
  <1>1. NoTar \in Tars /\ Blank \in Tars /\ NoTar.at = 0 /\ Blank.at = 0
    BY DEF NoTar, Blank, Tars, Plans
  <1>2. PICK i \in Files : TRUE
    BY ConstantsAssumption
  <1>3. NoTar.files[i] = 0 /\ Blank.files[i] = 1
    BY <1>2 DEF NoTar, Blank
  <1> QED
    BY <1>1, <1>3

LEMMA NoneElse == \A j \in Everyone : j # None
  BY ConstantsAssumption DEF Everyone

\* Who holds the lock builds alone, and without it nobody does.
LEMMA OneBuilds ==
    ASSUME IInv
    PROVE  /\ lock = None => \A k \in Everyone : ~Builds(k) /\ ~Adds(k)
           /\ \A j, k \in Everyone : Builds(j) /\ j # k => ~Builds(k) /\ ~Adds(k)
  BY NoneElse DEF IInv, Host, BuildOf, Builds, Adds

\* A joiner whose job does not ask has no request.
LEMMA NoRequest ==
    ASSUME IInv, NEW j \in Joiners, job[j].pc \notin {"probe", "ranges", "stream"}
    PROVE  req[j] = NoReq /\ req = [req EXCEPT ![j] = NoReq]
  <1>1. req[j].pc = "none" /\ req[j] \in Reqs /\ req \in [Everyone -> Reqs] /\ j \in Everyone
    BY DEF IInv, Joins, Asked, TypeOK, Everyone
  <1>2. req[j] = NoReq
    BY <1>1 DEF Reqs, Short, Making, Opening, Answers, NoReq
  <1> QED
    BY <1>1, <1>2

LEMMA SpendLeft ==
    ASSUME TypeOK, NEW what \in {"changes", "kills", "faults", "prunes"}, Spend(what)
    PROVE  left' \in Lefts /\ left'.undigested = left.undigested /\ left'.unseen = left.unseen
  BY DEF TypeOK, Lefts, Spend

(* The steps of a joiner's job. *)

LEMMA JobStep ==
    ASSUME IInv, NEW j \in Joiners, NEW step \in Jobs, NEW h \in Plans,
           job' = [job EXCEPT ![j] = step], have' = [have EXCEPT ![j] = h], req' = [req EXCEPT ![j] = NoReq],
           UNCHANGED host, left' \in Lefts, left'.undigested = left.undigested /\ left'.unseen = left.unseen,
           Planned(j)', Ranges(j)', Fetched(j)'
    PROVE  IInv'
  <1>t. TypeOK /\ j \in Everyone
    BY DEF IInv, Everyone
  <1>h. track' = track /\ stamp' = stamp /\ pack' = pack /\ lock' = lock /\ builds' = builds
    BY DEF host
  <1>1. TypeOK'
    <2>1. NoReq \in Reqs
      BY DEF NoReq, Reqs, Short
    <2>2. req' \in [Everyone -> Reqs] /\ job' \in [Joiners -> Jobs] /\ have' \in [Joiners -> Plans]
      BY <1>t, <2>1 DEF TypeOK
    <2> QED
      BY <1>t, <1>h, <2>2 DEF TypeOK
  <1>2. req'[j] = NoReq /\ req'[j].pc = "none" /\ \A k \in Everyone : k # j => req'[k] = req[k]
    BY <1>t DEF TypeOK, NoReq
  <1>3. \A k \in Joiners : k # j => job'[k] = job[k] /\ have'[k] = have[k]
    BY <1>t DEF TypeOK
  <1>4. Host'
    <2>1. \A k \in Everyone : BuildOf(k)'
      BY <1>h, <1>2 DEF IInv, Host, BuildOf, Builds, Adds
    <2> QED
      BY <1>h, <2>1 DEF IInv, Host, HasNewest, Fresh, Stamped
  <1>5. Digests'
    BY <1>h, <1>2 DEF IInv, Digests, DigestOf
  <1>6. Joins'
    <2>1. Asked(j)'
      BY <1>2 DEF Asked, Past
    <2>2. ASSUME NEW k \in Joiners, k # j PROVE Asked(k)' /\ Planned(k)' /\ Ranges(k)' /\ Fetched(k)'
      <3>1. job'[k] = job[k] /\ have'[k] = have[k] /\ req'[k] = req[k] /\ k \in Everyone
        BY <1>2, <1>3, <2>2 DEF Everyone
      <3>2. \A m \in Everyone : Adds(m)' => Adds(m) /\ req'[m] = req[m]
        BY <1>2 DEF Adds
      <3>3. Asked(k) /\ Planned(k) /\ Ranges(k) /\ Fetched(k)
        BY DEF IInv, Joins
      <3>4. Asked(k)'
        BY <1>h, <3>1, <3>2, <3>3 DEF Asked, Past, Later
      <3>5. Planned(k)' /\ Ranges(k)' /\ Fetched(k)'
        BY <1>h, <3>1, <3>3 DEF Planned, Ranges, Fetched, Later
      <3> QED
        BY <3>4, <3>5
    <2> QED
      BY <2>1, <2>2 DEF Joins
  <1>7. Stamped'
    BY <1>h DEF IInv, Stamped
  <1> QED
    BY <1>1, <1>4, <1>5, <1>6, <1>7 DEF IInv

LEMMA PlanKeeps == ASSUME IInv, NEW j \in Joiners, Plan(j) PROVE IInv'
  <1> DEFINE need == {i \in Files : have[j][i] # track[i]}
             step == IF Cardinality(need) >= PackMin
                     THEN [pc |-> "probe", plan |-> track, need |-> need]
                     ELSE [pc |-> "files", plan |-> track, need |-> need, todo |-> need, failed |-> FALSE]
  <1>t. TypeOK
    BY DEF IInv
  <1>1. track \in Plans /\ need \subseteq Files /\ have[j] \in Plans /\ \A i \in Files \ need : have[j][i] = track[i]
    BY <1>t DEF TypeOK
  <1>2. step \in Jobs /\ step.plan = track /\ step.need = need /\ step.pc \in {"probe", "files"}
        /\ (step.pc = "files" => step.todo = need)
    BY <1>1 DEF Jobs, Asking, Fetching
  <1>3. job' = [job EXCEPT ![j] = step] /\ UNCHANGED <<host, req, have, left>> /\ job[j].pc = "idle"
    BY DEF Plan, Does, At
  <1> HIDE DEF need, step
  <1>4. job'[j] = step /\ have' = [have EXCEPT ![j] = have[j]] /\ have'[j] = have[j] /\ left' \in Lefts
        /\ track' = track
    BY <1>t, <1>3 DEF TypeOK, host
  <1>5. Planned(j)' /\ Ranges(j)' /\ Fetched(j)'
    <2>1. \A i \in Files : track[i] \in Nat
      BY <1>1 DEF Plans
    <2> QED
      BY <1>1, <1>2, <1>4, <2>1 DEF Planned, Ranges, Fetched
  <1>6. req' = [req EXCEPT ![j] = NoReq]
    BY <1>3, NoRequest
  <1> QED
    BY <1>1, <1>2, <1>3, <1>4, <1>5, <1>6, JobStep

LEMMA RequestKind ==
    ASSUME IInv, NEW j \in Joiners, req[j].pc = "answer"
    PROVE  req[j] \in Answers
  BY DEF IInv, TypeOK, Everyone, Reqs, Short, Making, Opening

\* What a job is, by its step.
LEMMA JobKind ==
    ASSUME IInv, NEW j \in Joiners
    PROVE  /\ job[j] \in Jobs /\ have[j] \in Plans /\ job[j].plan \in Plans
           /\ job[j].pc \in {"probe", "stream"} => job[j] \in Asking
           /\ job[j].pc \in {"ranges", "check"} => job[j] \in Ranging
           /\ job[j].pc = "unpack" => job[j] \in Unpacking
           /\ job[j].pc = "files" => job[j] \in Fetching
           /\ job[j].pc # "idle" => job[j].need \subseteq Files
  <1>1. job[j] \in Jobs /\ have[j] \in Plans
    BY DEF IInv, TypeOK
  <1> QED
    BY <1>1 DEF Jobs, Idle, Asking, Ranging, Unpacking, Fetching

LEMMA ProbedKeeps == ASSUME IInv, NEW j \in Joiners, Probed(j) PROVE IInv'
  <1>t. TypeOK /\ job[j].pc = "probe" /\ job[j] \in Asking /\ have[j] \in Plans
    BY JobKind DEF IInv, Probed, At
  <1>1. /\ req[j].pc = "answer" /\ req[j].ok /\ req' = [req EXCEPT ![j] = NoReq]
        /\ UNCHANGED <<host, have, left>> /\ req[j] \in Answers
    BY RequestKind DEF Probed, Got, Serve, Serving
  <1>2. ~left.undigested => req[j].sha # NoTar
    BY <1>1 DEF IInv, Digests, DigestOf, Everyone
  <1>3. PICK step \in Jobs : /\ job' = [job EXCEPT ![j] = step] /\ step.plan = job[j].plan /\ step.need = job[j].need
                             /\ \/ /\ step.pc = "ranges" /\ step.want = req[j].sha
                                   /\ \A i \in Files : step.parts[i] = NoTar
                                \/ step.pc = "stream"
    <2>1. CASE Does(j, [pc |-> "ranges", plan |-> job[j].plan, need |-> job[j].need,
                        want |-> req[j].sha, parts |-> [i \in Files |-> NoTar]])
      <3> DEFINE step == [pc |-> "ranges", plan |-> job[j].plan, need |-> job[j].need,
                          want |-> req[j].sha, parts |-> [i \in Files |-> NoTar]]
      <3>1. step \in Jobs
        BY <1>t, <1>1, Blanks DEF Jobs, Asking, Ranging, Answers
      <3> QED
        BY <2>1, <3>1 DEF Does
    <2>2. CASE Goes(j, "stream")
      <3>1. [job[j] EXCEPT !.pc = "stream"] \in Jobs
        BY <1>t DEF Jobs, Asking
      <3> QED
        BY <1>t, <2>2, <3>1 DEF Goes, Does, Asking
    <2> QED
      BY <2>1, <2>2 DEF Probed
  <1>4. job'[j] = step /\ have' = [have EXCEPT ![j] = have[j]] /\ have'[j] = have[j] /\ left' \in Lefts /\ left' = left
        /\ track' = track
    BY <1>t, <1>1, <1>3 DEF TypeOK, host
  <1>5. Planned(j)' /\ Ranges(j)' /\ Fetched(j)'
    <2>1. Planned(j) /\ Fetched(j)
      BY DEF IInv, Joins
    <2> QED
      BY <1>t, <1>2, <1>3, <1>4, <2>1 DEF Planned, Ranges, Fetched
  <1> QED
    BY <1>t, <1>1, <1>3, <1>4, <1>5, JobStep

LEMMA GotRangeKeeps == ASSUME IInv, NEW j \in Joiners, GotRange(j) PROVE IInv'
  <1>t. TypeOK /\ job[j].pc = "ranges" /\ job[j] \in Ranging /\ have[j] \in Plans
    BY JobKind DEF IInv, GotRange, At
  <1>1. /\ req[j].pc = "answer" /\ req[j].ok /\ req' = [req EXCEPT ![j] = NoReq]
        /\ UNCHANGED <<host, have, left>> /\ req[j] \in Answers
    BY RequestKind DEF GotRange, Got, Serve, Serving
  <1>2. ~left.unseen => Later(req[j].tar.files, job[j].plan)
    BY <1>1 DEF IInv, Joins, Asked
  <1> DEFINE todo == {i \in Files : job[j].parts[i] = NoTar}
  <1>q. PICK i \in todo : Does(j, [job[j] EXCEPT !.parts[i] = req[j].tar,
                                                 !.pc = IF todo = {i} THEN "check" ELSE @])
    BY DEF GotRange
  <1> DEFINE step == [job[j] EXCEPT !.parts[i] = req[j].tar, !.pc = IF todo = {i} THEN "check" ELSE @]
  <1>3. /\ step \in Jobs /\ step.plan = job[j].plan /\ step.need = job[j].need /\ step.want = job[j].want
        /\ step.pc \in {"ranges", "check"} /\ step.parts[i] = req[j].tar
        /\ \A k \in Files : k # i => step.parts[k] = job[j].parts[k]
    <2>1. step \in Ranging
      BY <1>t, <1>1 DEF Ranging, Answers
    <2> QED
      BY <1>t, <2>1 DEF Jobs, Ranging
  <1>p. job' = [job EXCEPT ![j] = step]
    BY <1>q DEF Does
  <1> HIDE DEF todo, step
  <1>4. job'[j] = step /\ have' = [have EXCEPT ![j] = have[j]] /\ have'[j] = have[j] /\ left' \in Lefts /\ left' = left
        /\ track' = track
    BY <1>t, <1>1, <1>p DEF TypeOK, host
  <1>5. Planned(j)' /\ Ranges(j)' /\ Fetched(j)'
    <2>1. Planned(j) /\ Fetched(j) /\ Ranges(j)
      BY DEF IInv, Joins
    <2>2. Ranges(j)'
      BY <1>t, <1>2, <1>3, <1>4, <2>1 DEF Ranges
    <2> QED
      BY <1>t, <1>3, <1>4, <2>1, <2>2 DEF Planned, Fetched
  <1> QED
    BY <1>t, <1>1, <1>3, <1>p, <1>4, <1>5, JobStep

LEMMA StreamedKeeps == ASSUME IInv, NEW j \in Joiners, Streamed(j) PROVE IInv'
  <1>t. TypeOK /\ job[j].pc = "stream" /\ job[j] \in Asking /\ have[j] \in Plans
    BY JobKind DEF IInv, Streamed, At
  <1>1. /\ req[j].pc = "answer" /\ req[j].ok /\ req' = [req EXCEPT ![j] = NoReq]
        /\ UNCHANGED <<host, have, left>> /\ req[j] \in Answers
    BY RequestKind DEF Streamed, Got, Serve, Serving
  <1>2. (~left.unseen => Later(req[j].tar.files, job[j].plan)) /\ (~left.undigested => req[j].sha # NoTar)
    BY <1>1 DEF IInv, Joins, Asked, Digests, DigestOf, Everyone
  <1> DEFINE step == [pc |-> "check", plan |-> job[j].plan, need |-> job[j].need,
                      want |-> req[j].sha, parts |-> [i \in Files |-> req[j].tar]]
  <1>3. /\ step \in Jobs /\ step.plan = job[j].plan /\ step.need = job[j].need /\ step.want = req[j].sha
        /\ step.pc = "check" /\ \A i \in Files : step.parts[i] = req[j].tar
    BY <1>t, <1>1 DEF Jobs, Asking, Ranging, Answers
  <1>p. job' = [job EXCEPT ![j] = step]
    BY DEF Streamed, Does
  <1> HIDE DEF step
  <1>4. job'[j] = step /\ have' = [have EXCEPT ![j] = have[j]] /\ have'[j] = have[j] /\ left' \in Lefts /\ left' = left
        /\ track' = track
    BY <1>t, <1>1, <1>p DEF TypeOK, host
  <1>5. Planned(j)' /\ Ranges(j)' /\ Fetched(j)'
    <2>1. Planned(j) /\ Fetched(j)
      BY DEF IInv, Joins
    <2> QED
      BY <1>t, <1>2, <1>3, <1>4, <2>1 DEF Planned, Ranges, Fetched
  <1> QED
    BY <1>t, <1>1, <1>3, <1>p, <1>4, <1>5, JobStep

\* A job that turns to the single files.
LEMMA FilesOfKind ==
    ASSUME IInv, NEW j \in Joiners, job[j].pc # "idle"
    PROVE  /\ FilesOf(j) \in Jobs /\ FilesOf(j).pc = "files" /\ FilesOf(j).plan = job[j].plan
           /\ FilesOf(j).need = job[j].need /\ FilesOf(j).todo = job[j].need
  <1>1. job[j].plan \in Plans /\ job[j].need \subseteq Files
    BY JobKind
  <1> QED
    BY <1>1 DEF FilesOf, Jobs, Fetching

LEMMA RefusedKeeps == ASSUME IInv, NEW j \in Joiners, Refused(j) PROVE IInv'
  <1>t. TypeOK /\ have[j] \in Plans
    BY JobKind DEF IInv
  <1>1. /\ req[j].pc = "answer" /\ req' = [req EXCEPT ![j] = NoReq]
        /\ UNCHANGED <<host, have, left>> /\ job[j].pc \in {"probe", "ranges", "stream"}
    BY DEF Refused, Got, Serve, Serving, IInv, Joins, Asked
  <1> DEFINE stream == [pc |-> "stream", plan |-> job[j].plan, need |-> job[j].need]
  <1>2. stream \in Jobs /\ stream.pc = "stream" /\ stream.plan = job[j].plan /\ stream.need = job[j].need
    BY <1>1, JobKind DEF Jobs, Asking
  <1>3. PICK step \in Jobs : /\ job' = [job EXCEPT ![j] = step] /\ step.plan = job[j].plan /\ step.need = job[j].need
                             /\ \/ step.pc = "stream"
                                \/ step.pc = "files" /\ step.todo = step.need
    <2>1. job' = [job EXCEPT ![j] = stream] \/ job' = [job EXCEPT ![j] = FilesOf(j)]
      BY DEF Refused, Does
    <2> QED
      BY <1>1, <1>2, <2>1, FilesOfKind
  <1>4. job'[j] = step /\ have' = [have EXCEPT ![j] = have[j]] /\ have'[j] = have[j] /\ left' \in Lefts /\ left' = left
        /\ track' = track
    BY <1>t, <1>1, <1>3 DEF TypeOK, host
  <1>5. Planned(j)' /\ Ranges(j)' /\ Fetched(j)'
    <2>1. Planned(j) /\ Fetched(j)
      BY DEF IInv, Joins
    <2> QED
      BY <1>t, <1>1, <1>3, <1>4, <2>1 DEF Planned, Ranges, Fetched
  <1> QED
    BY <1>t, <1>1, <1>3, <1>4, <1>5, JobStep

LEMMA CheckKeeps == ASSUME IInv, NEW j \in Joiners, Check(j) PROVE IInv'
  <1>t. TypeOK /\ job[j].pc = "check" /\ job[j] \in Ranging /\ have[j] \in Plans
    BY JobKind DEF IInv, Check, At
  <1>1. UNCHANGED <<host, req, have, left>> /\ req' = [req EXCEPT ![j] = NoReq]
    BY <1>t, NoRequest DEF Check
  <1>r. Range(job[j].parts) = {job[j].parts[i] : i \in Files}
    BY <1>t DEF Ranging, Range
  <1>2. /\ Joined(j) \in Tars
        /\ ~left.undigested /\ ~left.unseen /\ Matches(j) => Later(Joined(j).files, job[j].plan)
    <2>1. ASSUME NEW t, Range(job[j].parts) = {t} PROVE Joined(j) = t /\ t \in Tars
      <3>1. Cardinality({t}) = 1
        BY FS_Singleton
      <3>2. \A i \in Files : job[j].parts[i] \in Tars
        BY <1>t DEF Ranging
      <3>3. Joined(j) = CHOOSE x \in {t} : TRUE
        BY <2>1, <3>1 DEF Joined
      <3> QED
        BY <1>r, <2>1, <3>2, <3>3
    <2>2. CASE \E t : Range(job[j].parts) = {t}
      <3>1. PICK t : Range(job[j].parts) = {t}
        BY <2>2
      <3>2. Joined(j) = t /\ t \in Tars
        BY <2>1, <3>1
      <3>3. ASSUME ~left.undigested, ~left.unseen, Matches(j) PROVE Later(Joined(j).files, job[j].plan)
        <4>1. job[j].want # NoTar /\ Ranges(j)
          BY <1>t, <3>3 DEF IInv, Joins, Ranges
        <4>2. t = job[j].want
          BY <3>1, <3>3, <4>1 DEF Matches
        <4>3. PICK i \in Files : job[j].parts[i] = t
          BY <1>r, <3>1
        <4> QED
          BY <1>t, <3>2, <3>3, <4>1, <4>2, <4>3 DEF Ranges
      <3> QED
        BY <3>2, <3>3
    <2>3. CASE ~\E t : Range(job[j].parts) = {t}
      <3>1. Cardinality(Range(job[j].parts)) # 1
        <4>1. IsFiniteSet(Range(job[j].parts))
          <5>1. job[j].parts \in Surjection(Files, Range(job[j].parts))
            BY <1>t, <1>r DEF Ranging, Surjection
          <5> QED
            BY <5>1, ConstantsAssumption, FS_Surjection
        <4> QED
          BY <2>3, <4>1, FS_Singleton
      <3>2. Joined(j) = NoTar
        BY <3>1 DEF Joined
      <3>3. ~left.undigested => ~Matches(j)
        BY <1>t, <2>3 DEF Matches, IInv, Joins, Ranges
      <3> QED
        BY <3>2, <3>3, Blanks
    <2> QED
      BY <2>2, <2>3
  <1>3. PICK step \in Jobs : /\ job' = [job EXCEPT ![j] = step] /\ step.plan = job[j].plan /\ step.need = job[j].need
                             /\ \/ /\ step.pc = "unpack" /\ step.todo = Files
                                   /\ ~left.undigested /\ ~left.unseen => Later(step.tar.files, job[j].plan)
                                \/ step.pc = "files" /\ step.todo = step.need
    <2>1. CASE Matches(j) /\ job' = [job EXCEPT ![j] = Unpacks(j)]
      <3>1. Unpacks(j) \in Jobs
        BY <1>t, <1>2 DEF Unpacks, Jobs, Unpacking, Ranging
      <3> QED
        BY <1>2, <2>1, <3>1 DEF Unpacks
    <2>2. CASE job' = [job EXCEPT ![j] = FilesOf(j)]
      BY <1>t, <2>2, FilesOfKind
    <2> QED
      BY <2>1, <2>2 DEF Check, Does
  <1>4. job'[j] = step /\ have' = [have EXCEPT ![j] = have[j]] /\ have'[j] = have[j] /\ left' \in Lefts /\ left' = left
        /\ track' = track
    BY <1>t, <1>1, <1>3 DEF TypeOK, host
  <1>5. Planned(j)' /\ Ranges(j)' /\ Fetched(j)'
    <2>1. Planned(j) /\ Fetched(j)
      BY DEF IInv, Joins
    <2> QED
      BY <1>t, <1>1, <1>3, <1>4, <2>1 DEF Planned, Ranges, Fetched
  <1> QED
    BY <1>t, <1>1, <1>3, <1>4, <1>5, JobStep

LEMMA UnpackKeeps == ASSUME IInv, NEW j \in Joiners, Unpack(j) PROVE IInv'
  <1>t. TypeOK /\ job[j].pc = "unpack" /\ job[j] \in Unpacking /\ have[j] \in Plans
    BY JobKind DEF IInv, Unpack, At
  <1>1. UNCHANGED <<host, req>> /\ req' = [req EXCEPT ![j] = NoReq]
    BY <1>t, NoRequest DEF Unpack
  <1>f. Planned(j) /\ Fetched(j)
    BY DEF IInv, Joins
  <1>2. CASE Spend("faults") /\ Does(j, FilesOf(j)) /\ UNCHANGED have
    <2>1. /\ FilesOf(j) \in Jobs /\ FilesOf(j).pc = "files" /\ FilesOf(j).plan = job[j].plan
          /\ FilesOf(j).need = job[j].need /\ FilesOf(j).todo = job[j].need
      BY <1>t, FilesOfKind
    <2>2. left' \in Lefts /\ left'.undigested = left.undigested /\ left'.unseen = left.unseen
      BY <1>t, <1>2, SpendLeft
    <2>3. job' = [job EXCEPT ![j] = FilesOf(j)] /\ have' = [have EXCEPT ![j] = have[j]] /\ have'[j] = have[j]
          /\ job'[j] = FilesOf(j) /\ track' = track
      BY <1>t, <1>1, <1>2 DEF Does, TypeOK, host
    <2>4. Planned(j)' /\ Ranges(j)' /\ Fetched(j)'
      BY <1>t, <1>f, <2>1, <2>2, <2>3 DEF Planned, Ranges, Fetched
    <2> QED
      BY <1>t, <1>1, <2>1, <2>2, <2>3, <2>4, JobStep
  <1>3. CASE /\ LET i == Min(job[j].todo) IN
                /\ have' = [have EXCEPT ![j][i] = job[j].tar.files[i]]
                /\ IF job[j].todo = {i} THEN Ends(j, TRUE) ELSE Does(j, [job[j] EXCEPT !.todo = @ \ {i}])
             /\ UNCHANGED left
    <2> DEFINE i == Min(job[j].todo)
               h == [have[j] EXCEPT ![i] = job[j].tar.files[i]]
               step == IF job[j].todo = {i} THEN [pc |-> "idle", plan |-> job[j].plan, done |-> TRUE]
                       ELSE [job[j] EXCEPT !.todo = @ \ {i}]
    <2>1. job' = [job EXCEPT ![j] = step] /\ have' = [have EXCEPT ![j] = h]
      BY <1>3 DEF Ends, Does
    <2>2. h \in Plans /\ \A k \in Files : h[k] = IF k = i THEN job[j].tar.files[k] ELSE have[j][k]
      BY <1>t DEF Plans, Unpacking, Tars
    <2>3. CASE job[j].todo = {i}
      <3>1. step \in Jobs /\ step.pc = "idle" /\ step.plan = job[j].plan /\ step.done
        BY <1>t, <2>3 DEF Jobs, Idle, Unpacking
      <3> HIDE DEF i, h, step
      <3>2. job'[j] = step /\ have'[j] = h /\ left' = left /\ track' = track /\ left' \in Lefts
        BY <1>t, <1>1, <1>3, <2>1 DEF TypeOK, host
      <3>3. Planned(j)' /\ Ranges(j)'
        BY <1>f, <3>1, <3>2 DEF Planned, Ranges
      <3>4. Fetched(j)'
        BY <1>t, <1>f, <2>2, <2>3, <3>1, <3>2 DEF Fetched, Later
      <3> QED
        BY <1>1, <2>1, <2>2, <3>1, <3>2, <3>3, <3>4, JobStep
    <2>4. CASE job[j].todo # {i}
      <3>1. /\ step \in Jobs /\ step.pc = "unpack" /\ step.plan = job[j].plan /\ step.need = job[j].need
            /\ step.tar = job[j].tar /\ step.todo = job[j].todo \ {i}
        BY <1>t, <2>4 DEF Jobs, Unpacking
      <3> HIDE DEF i, h, step
      <3>2. job'[j] = step /\ have'[j] = h /\ left' = left /\ track' = track /\ left' \in Lefts
        BY <1>t, <1>1, <1>3, <2>1 DEF TypeOK, host
      <3>3. Planned(j)' /\ Ranges(j)'
        BY <1>f, <3>1, <3>2 DEF Planned, Ranges
      <3>4. Fetched(j)'
        BY <1>t, <1>f, <2>2, <3>1, <3>2 DEF Fetched, Later
      <3> QED
        BY <1>1, <2>1, <2>2, <3>1, <3>2, <3>3, <3>4, JobStep
    <2> QED
      BY <2>3, <2>4
  <1> QED
    BY <1>2, <1>3 DEF Unpack

LEMMA FetchFileKeeps == ASSUME IInv, NEW j \in Joiners, FetchFile(j) PROVE IInv'
  <1>t. TypeOK /\ job[j].pc = "files" /\ job[j] \in Fetching /\ have[j] \in Plans
    BY JobKind DEF IInv, FetchFile, At
  <1>1. UNCHANGED <<host, req>> /\ req' = [req EXCEPT ![j] = NoReq]
    BY <1>t, NoRequest DEF FetchFile
  <1>f. Planned(j) /\ Fetched(j)
    BY DEF IInv, Joins
  <1>2. PICK i \in job[j].todo, ok \in {TRUE, FALSE} :
          /\ IF ok THEN track[i] = job[j].plan[i] /\ UNCHANGED left
             ELSE IF track[i] = job[j].plan[i] THEN Spend("faults") ELSE UNCHANGED left
          /\ have' = IF ok THEN [have EXCEPT ![j][i] = track[i]] ELSE have
          /\ LET failed == job[j].failed \/ ~ok IN
             IF job[j].todo = {i} THEN Ends(j, ~failed)
             ELSE Does(j, [job[j] EXCEPT !.todo = @ \ {i}, !.failed = failed])
    BY DEF FetchFile
  <1>3. left' \in Lefts /\ left'.undigested = left.undigested /\ left'.unseen = left.unseen /\ i \in Files
    BY <1>t, <1>2, SpendLeft DEF TypeOK, Fetching
  <1> DEFINE failed == job[j].failed \/ ~ok
             h == IF ok THEN [have[j] EXCEPT ![i] = track[i]] ELSE have[j]
             step == IF job[j].todo = {i} THEN [pc |-> "idle", plan |-> job[j].plan, done |-> ~failed]
                     ELSE [job[j] EXCEPT !.todo = @ \ {i}, !.failed = failed]
  <1>4. job' = [job EXCEPT ![j] = step]
    BY <1>2 DEF Ends, Does
  <1>5. have' = [have EXCEPT ![j] = h]
    BY <1>t, <1>2 DEF TypeOK
  <1>6. /\ h \in Plans /\ (ok => h[i] = job[j].plan[i])
        /\ \A k \in Files : k # i => h[k] = have[j][k]
        /\ ~ok => h = have[j]
    BY <1>t, <1>2, <1>3 DEF Plans, TypeOK
  <1>p. \A k \in Files : job[j].plan[k] \in Nat
    BY <1>t DEF Fetching, Plans
  <1>7. CASE job[j].todo = {i}
    <2>1. step \in Jobs /\ step.pc = "idle" /\ step.plan = job[j].plan /\ step.done = ~failed
      BY <1>t, <1>7 DEF Jobs, Idle, Fetching
    <2>o. step.done => ok /\ ~job[j].failed
      BY <2>1
    <2> HIDE DEF failed, h, step
    <2>2. job'[j] = step /\ have'[j] = h /\ track' = track
      BY <1>t, <1>1, <1>4, <1>5 DEF TypeOK, host
    <2>3. Planned(j)' /\ Ranges(j)'
      BY <1>f, <2>1, <2>2 DEF Planned, Ranges
    <2>4. Fetched(j)'
      BY <1>t, <1>f, <1>3, <1>6, <1>7, <1>p, <2>1, <2>o, <2>2 DEF Fetched, Later
    <2> QED
      BY <1>1, <1>3, <1>4, <1>5, <1>6, <2>1, <2>3, <2>4, JobStep
  <1>8. CASE job[j].todo # {i}
    <2>1. /\ step \in Jobs /\ step.pc = "files" /\ step.plan = job[j].plan /\ step.need = job[j].need
          /\ step.failed = failed /\ step.todo = job[j].todo \ {i}
      BY <1>t, <1>8 DEF Jobs, Fetching
    <2>o. ~step.failed => ok /\ ~job[j].failed
      BY <2>1
    <2> HIDE DEF failed, h, step
    <2>2. job'[j] = step /\ have'[j] = h /\ track' = track
      BY <1>t, <1>1, <1>4, <1>5 DEF TypeOK, host
    <2>3. Planned(j)' /\ Ranges(j)'
      BY <1>f, <2>1, <2>2 DEF Planned, Ranges
    <2>4. Fetched(j)'
      <3>1. ~left.undigested /\ ~left.unseen => \A k \in Files \ job[j].need : job[j].plan[k] <= h[k]
        BY <1>t, <1>f, <1>6, <1>p DEF Fetched
      <3>2. ~left.undigested /\ ~left.unseen /\ ~step.failed => \A k \in Files \ step.todo : job[j].plan[k] <= h[k]
        BY <1>t, <1>f, <1>6, <1>p, <2>1, <2>o DEF Fetched
      <3> QED
        BY <1>3, <2>1, <2>2, <3>1, <3>2 DEF Fetched
    <2> QED
      BY <1>1, <1>3, <1>4, <1>5, <1>6, <2>1, <2>3, <2>4, JobStep
  <1> QED
    BY <1>7, <1>8

(* The steps of a request at the host. *)

\* A request that neither builds nor has an answer from the tar.
LEMMA ReqStep ==
    ASSUME IInv, NEW j \in Everyone, NEW step \in Reqs, req' = [req EXCEPT ![j] = step],
           step.pc \in {"none", "asked", "open", "answer"}, UNCHANGED host, UNCHANGED <<job, have>>,
           left' \in Lefts, left'.undigested = left.undigested /\ left'.unseen = left.unseen,
           ~left.undigested => DigestOf(j)', j \in Joiners => Asked(j)'
    PROVE  IInv'
  <1>t. TypeOK
    BY DEF IInv
  <1>h. track' = track /\ stamp' = stamp /\ pack' = pack /\ lock' = lock /\ builds' = builds
    BY DEF host
  <1>1. TypeOK'
    BY <1>t, <1>h DEF TypeOK
  <1>2. req'[j] = step /\ \A k \in Everyone : k # j => req'[k] = req[k]
    BY <1>t DEF TypeOK
  <1>3. Host'
    <2>1. \A k \in Everyone : BuildOf(k)'
      BY <1>h, <1>2 DEF IInv, Host, BuildOf, Builds, Adds
    <2> QED
      BY <1>h, <2>1 DEF IInv, Host, HasNewest, Fresh, Stamped
  <1>4. Digests'
    BY <1>h, <1>2 DEF IInv, Digests, DigestOf
  <1>5. Joins'
    <2>1. ASSUME NEW k \in Joiners, k # j PROVE Asked(k)'
      <3>1. req'[k] = req[k] /\ k \in Everyone /\ Asked(k)
        BY <1>2, <2>1 DEF Everyone, IInv, Joins
      <3>2. \A m \in Everyone : Adds(m)' => Adds(m) /\ req'[m] = req[m]
        BY <1>2 DEF Adds
      <3> QED
        BY <1>h, <3>1, <3>2 DEF Asked, Past, Later
    <2>2. \A k \in Joiners : Planned(k)' /\ Ranges(k)' /\ Fetched(k)'
      BY <1>h DEF IInv, Joins, Planned, Ranges, Fetched, Later
    <2> QED
      BY <2>1, <2>2 DEF Joins
  <1>6. Stamped'
    BY <1>h DEF IInv, Stamped
  <1> QED
    BY <1>1, <1>3, <1>4, <1>5, <1>6 DEF IInv

LEMMA RequestKeeps == ASSUME IInv, NEW j \in Joiners, Request(j) PROVE IInv'
  <1>t. TypeOK /\ j \in Everyone /\ job[j].pc \in {"probe", "ranges", "stream"}
    BY DEF IInv, Everyone, Request, At
  <1> DEFINE step == [pc |-> "asked"]
  <1>1. step \in Reqs /\ step.pc = "asked"
    BY DEF Reqs, Short
  <1>2. req' = [req EXCEPT ![j] = step] /\ UNCHANGED <<host, job, have, left>>
    BY DEF Request, Serve
  <1> HIDE DEF step
  <1>3. DigestOf(j)' /\ Asked(j)' /\ left' \in Lefts /\ left' = left
    BY <1>t, <1>1, <1>2 DEF DigestOf, Asked, Past, TypeOK
  <1> QED
    BY <1>t, <1>1, <1>2, <1>3, ReqStep

LEMMA Refusal ==
    LET step == [pc |-> "answer", ok |-> FALSE, tar |-> NoTar, sha |-> NoTar] IN
    step \in Reqs /\ step.pc = "answer" /\ ~step.ok
  BY Blanks DEF Reqs, Answers

LEMMA LoseKeeps == ASSUME IInv, NEW j \in Joiners, Lose(j) PROVE IInv'
  <1>t. TypeOK /\ j \in Everyone /\ job[j].pc \in {"probe", "ranges", "stream"}
    BY DEF IInv, Everyone, Lose, Serving, Joins, Asked
  <1> DEFINE step == [pc |-> "answer", ok |-> FALSE, tar |-> NoTar, sha |-> NoTar]
  <1>1. step \in Reqs /\ step.pc = "answer" /\ ~step.ok
    BY Refusal
  <1>2. req' = [req EXCEPT ![j] = step] /\ UNCHANGED <<host, job, have>>
    BY DEF Lose, NotFound, Answer, Serve
  <1>3. left' \in Lefts /\ left'.undigested = left.undigested /\ left'.unseen = left.unseen
    BY <1>t, SpendLeft DEF Lose
  <1> HIDE DEF step
  <1>4. DigestOf(j)' /\ Asked(j)'
    BY <1>t, <1>1, <1>2 DEF DigestOf, Asked, Past, TypeOK
  <1> QED
    BY <1>t, <1>1, <1>2, <1>3, <1>4, ReqStep

LEMMA OtherAsksKeeps == ASSUME IInv, NEW j \in Others, OtherAsks(j) PROVE IInv'
  <1>t. TypeOK /\ j \in Everyone /\ j \notin Joiners
    BY ConstantsAssumption DEF IInv, Everyone
  <1>1. PICK step \in Reqs : step.pc \in {"none", "asked"} /\ req' = [req EXCEPT ![j] = step]
    <2>1. [pc |-> "asked"] \in Reqs /\ NoReq \in Reqs /\ NoReq.pc = "none"
      BY DEF Reqs, Short, NoReq
    <2> QED
      BY <2>1 DEF OtherAsks, Serve
  <1>2. UNCHANGED <<host, job, have, left>> /\ left' \in Lefts
    BY <1>t DEF OtherAsks, TypeOK
  <1>3. DigestOf(j)'
    BY <1>t, <1>1 DEF DigestOf, TypeOK
  <1> QED
    BY <1>t, <1>1, <1>2, <1>3, ReqStep

LEMMA ReadShaKeeps == ASSUME IInv, NEW j \in Everyone, ReadSha(j) PROVE IInv'
  <1>t. TypeOK /\ req[j].pc = "digest"
    BY DEF IInv, ReadSha, Serving
  <1> DEFINE step == [pc |-> "open", sha |-> IF pack.sha = Blank THEN NoTar ELSE pack.sha]
  <1>1. step \in Reqs /\ step.pc = "open" /\ (pack.sha # Blank => step.sha = pack.sha)
    BY <1>t, Blanks DEF Reqs, Opening, TypeOK
  <1>2. req' = [req EXCEPT ![j] = step] /\ UNCHANGED <<host, job, have, left>>
    BY DEF ReadSha, Serve
  <1> HIDE DEF step
  <1>3. req'[j] = step /\ left' \in Lefts /\ left' = left
    BY <1>t, <1>2 DEF TypeOK
  <1>4. ~left.undigested => DigestOf(j)'
    BY <1>t, <1>1, <1>3 DEF IInv, Digests, DigestOf
  <1>5. j \in Joiners => Asked(j)'
    <2>1. \A m \in Everyone : Adds(m)' => Adds(m) /\ req'[m] = req[m]
      BY <1>t, <1>1, <1>2, <1>3 DEF Adds, TypeOK
    <2>2. j \in Joiners => Asked(j)
      BY DEF IInv, Joins
    <2> QED
      BY <1>t, <1>1, <1>2, <1>3, <2>1, <2>2 DEF Asked, Past, Later, host
  <1> QED
    BY <1>t, <1>1, <1>2, <1>3, <1>4, <1>5, ReqStep

LEMMA OpenTarKeeps == ASSUME IInv, NEW j \in Everyone, OpenTar(j) PROVE IInv'
  <1>t. TypeOK /\ req[j].pc = "open" /\ req[j] \in Opening
    BY DEF IInv, OpenTar, Serving, TypeOK, Reqs, Short, Making, Answers
  <1>1. PICK step \in Reqs : /\ req' = [req EXCEPT ![j] = step] /\ step.pc = "answer"
                             /\ step.ok => step.tar = pack.tar /\ step.sha = req[j].sha
    <2>1. [pc |-> "answer", ok |-> TRUE, tar |-> pack.tar, sha |-> req[j].sha] \in Reqs
      BY <1>t DEF Reqs, Answers, Opening, TypeOK
    <2> QED
      BY <2>1, Refusal DEF OpenTar, NotFound, Answer, Serve
  <1>2. UNCHANGED <<host, job, have, left>>
    BY DEF OpenTar
  <1>3. req'[j] = step /\ left' \in Lefts /\ left' = left
    BY <1>t, <1>1, <1>2 DEF TypeOK
  <1>4. ~left.undigested => DigestOf(j)'
    BY <1>t, <1>1, <1>3 DEF IInv, Digests, DigestOf
  <1>5. j \in Joiners => Asked(j)'
    <2>1. j \in Joiners => Asked(j)
      BY DEF IInv, Joins
    <2> QED
      BY <1>t, <1>1, <1>2, <1>3, <2>1 DEF Asked, Past, Later
  <1> QED
    BY <1>t, <1>1, <1>2, <1>3, <1>4, <1>5, ReqStep

\* The step of the one request that may build.
LEMMA BuildStep ==
    ASSUME IInv, NEW j \in Everyone, NEW step \in Reqs, req' = [req EXCEPT ![j] = step],
           \A k \in Everyone : k # j => ~Builds(k), UNCHANGED <<track, stamp, job, have>>,
           pack' \in [tar : Tars, sig : Nat, sha : Tars], builds' \in Nat, lock' \in Everyone \cup {None},
           left' \in Lefts, left.undigested => left'.undigested, left'.unseen = left.unseen,
           pack'.sig <= Sig(track), pack'.sig = Sig(track) => stamp = Sig(track), Fresh', BuildOf(j)', Digests', \A k \in Joiners : Asked(k)'
    PROVE  IInv'
  <1>t. TypeOK
    BY DEF IInv
  <1>1. TypeOK'
    BY <1>t DEF TypeOK
  <1>2. \A k \in Everyone : k # j => req'[k] = req[k]
    BY <1>t DEF TypeOK
  <1>3. Host'
    <2>1. \A k \in Everyone : BuildOf(k)'
      BY <1>2 DEF BuildOf, Builds, Adds
    <2> QED
      BY <2>1 DEF IInv, Host, HasNewest
  <1>4. Joins'
    <2>1. \A k \in Joiners : Planned(k)' /\ Ranges(k)' /\ Fetched(k)'
      BY DEF IInv, Joins, Planned, Ranges, Fetched, Later
    <2> QED
      BY <2>1 DEF Joins
  <1>5. Stamped'
    BY DEF IInv, Stamped
  <1> QED
    BY <1>1, <1>3, <1>4, <1>5 DEF IInv

LEMMA EnsureKeeps == ASSUME IInv, NEW j \in Everyone, Ensure(j) PROVE IInv'
  <1>t. TypeOK /\ req[j].pc = "asked" /\ req[j] \in Reqs /\ lock = None
    BY DEF IInv, Ensure, Serving, TypeOK
  <1>n. \A k \in Everyone : ~Builds(k) /\ ~Adds(k)
    BY <1>t, OneBuilds
  <1>g. /\ Sig(track) \in Nat /\ pack.sig <= Sig(track) /\ Fresh /\ Stamped
        /\ stamp \in Nat /\ stamp <= Sig(track) /\ (pack.sig = Sig(track) => stamp = Sig(track))
    BY <1>t, SigMax DEF IInv, Host, TypeOK
  <1>k. /\ UNCHANGED <<track, stamp, pack, builds, job, have, left>> /\ left' \in Lefts
        /\ pack' \in [tar : Tars, sig : Nat, sha : Tars] /\ builds' \in Nat
    BY <1>t DEF Ensure, TypeOK
  <1>1. CASE Current /\ Serves(j, "digest") /\ UNCHANGED lock
    <2> DEFINE step == [req[j] EXCEPT !.pc = "digest"]
    <2>1. step \in Reqs /\ step.pc = "digest"
      BY <1>t DEF Reqs, Short, Making, Opening, Answers
    <2>2. req' = [req EXCEPT ![j] = step]
      BY <1>1 DEF Serves, Serve
    <2> HIDE DEF step
    <2>3. req'[j] = step /\ \A k \in Everyone : k # j => req'[k] = req[k]
      BY <1>t, <2>2 DEF TypeOK
    <2>4. \A k \in Everyone : ~Adds(k)'
      BY <1>n, <2>1, <2>3 DEF Adds
    <2>5. (~left.unseen => pack.tar.files = track) /\ pack.sha # NoTar
      BY <1>1, <1>g DEF Current, Fresh, Stamped
    <2>6. Digests'
      BY <1>k, <2>1, <2>3, <2>5 DEF IInv, Digests, DigestOf
    <2>7. \A k \in Joiners : Asked(k)'
      <3> TAKE k \in Joiners
      <3>1. k \in Everyone /\ Asked(k) /\ Planned(k)
        BY DEF Everyone, IInv, Joins
      <3>2. CASE k = j
        BY <1>t, <1>k, <2>1, <2>3, <2>4, <2>5, <3>1, <3>2 DEF Asked, Past, Planned, Later
      <3>3. CASE k # j
        BY <1>k, <2>3, <2>4, <3>1, <3>3 DEF Asked, Past, Later
      <3> QED
        BY <3>2, <3>3
    <2>8. BuildOf(j)' /\ Fresh' /\ lock' \in Everyone \cup {None}
      BY <1>t, <1>1, <1>g, <1>k, <2>1, <2>3 DEF BuildOf, Builds, Adds, Fresh
    <2> QED
      BY <1>n, <1>g, <1>k, <2>1, <2>2, <2>6, <2>7, <2>8, BuildStep
  <1>2. CASE /\ Serve(j, [pc |-> "tar", want |-> stamp, part |-> NoTar.files, todo |-> Files])
             /\ lock' = j
    <2> DEFINE step == [pc |-> "tar", want |-> stamp, part |-> NoTar.files, todo |-> Files]
    <2>1. step \in Reqs /\ step.pc = "tar" /\ step.want = stamp /\ step.todo = Files
      BY <1>g, Blanks DEF Reqs, Making, Tars
    <2>2. req' = [req EXCEPT ![j] = step]
      BY <1>2 DEF Serve
    <2> HIDE DEF step
    <2>3. req'[j] = step /\ \A k \in Everyone : k # j => req'[k] = req[k]
      BY <1>t, <2>2 DEF TypeOK
    <2>4. \A k \in Everyone : Adds(k)' => Files \ req'[k].todo = {}
      BY <1>n, <2>1, <2>3 DEF Adds
    <2>6. Digests'
      BY <1>k, <2>1, <2>3 DEF IInv, Digests, DigestOf
    <2>7. \A k \in Joiners : Asked(k)'
      <3> TAKE k \in Joiners
      <3>1. k \in Everyone /\ Asked(k)
        BY DEF Everyone, IInv, Joins
      <3>2. CASE k = j
        BY <1>t, <1>k, <2>1, <2>3, <2>4, <3>1, <3>2 DEF Asked, Past, Later
      <3>3. CASE k # j
        BY <1>k, <2>3, <2>4, <3>1, <3>3 DEF Asked, Past, Later
      <3> QED
        BY <3>2, <3>3
    <2>8. BuildOf(j)' /\ Fresh' /\ lock' \in Everyone \cup {None}
      <3>1. Sig(track)' = Sig(track)
        BY <1>k
      <3> QED
        BY <1>t, <1>2, <1>g, <1>k, <2>1, <2>3, <3>1 DEF BuildOf, Builds, Adds, Fresh
    <2> QED
      BY <1>n, <1>g, <1>k, <2>1, <2>2, <2>6, <2>7, <2>8, BuildStep
  <1> QED
    BY <1>1, <1>2 DEF Ensure

\* A request that builds, and what is known of it.
LEMMA Building ==
    ASSUME IInv, NEW j \in Everyone, Builds(j)
    PROVE  /\ req[j] \in Making /\ lock = j /\ BuildOf(j)
           /\ \A k \in Everyone : k # j => ~Builds(k) /\ ~Adds(k)
           /\ Sig(track) \in Nat /\ pack.sig <= Sig(track) /\ (pack.sig = Sig(track) => stamp = Sig(track))
           /\ \A k \in Joiners : k \in Everyone /\ Asked(k)
  <1>1. req[j] \in Reqs
    BY DEF IInv, TypeOK
  <1>2. req[j] \in Making
    BY <1>1 DEF Builds, Reqs, Short, Opening, Answers
  <1> QED
    BY <1>2, OneBuilds, SigMax DEF IInv, Host, Joins, BuildOf, Everyone

\* The build fails, and the lock is dropped.
LEMMA BuildFailsKeeps ==
    ASSUME IInv, NEW j \in Everyone, Builds(j), NotFound(j), lock' = None, Spend("faults"),
           UNCHANGED <<track, stamp, pack, builds, job, have>>
    PROVE  IInv'
  <1>t. TypeOK
    BY DEF IInv
  <1> DEFINE step == [pc |-> "answer", ok |-> FALSE, tar |-> NoTar, sha |-> NoTar]
  <1>1. step \in Reqs /\ step.pc = "answer" /\ ~step.ok
    BY Refusal
  <1>2. req' = [req EXCEPT ![j] = step]
    BY DEF NotFound, Answer, Serve
  <1> HIDE DEF step
  <1>3. req'[j] = step /\ \A k \in Everyone : k # j => req'[k] = req[k]
    BY <1>t, <1>2 DEF TypeOK
  <1>4. left' \in Lefts /\ left'.undigested = left.undigested /\ left'.unseen = left.unseen
    BY <1>t, SpendLeft
  <1>5. \A k \in Everyone : ~Adds(k)'
    BY <1>1, <1>3, Building DEF Adds
  <1>6. Digests'
    BY <1>1, <1>3, <1>4 DEF IInv, Digests, DigestOf
  <1>7. \A k \in Joiners : Asked(k)'
    <2> TAKE k \in Joiners
    <2>1. k \in Everyone /\ Asked(k)
      BY Building
    <2>2. CASE k = j
      BY <1>1, <1>3, <2>1, <2>2 DEF Asked, Past, Builds
    <2>3. CASE k # j
      BY <1>3, <1>4, <1>5, <2>1, <2>3 DEF Asked, Past, Later
    <2> QED
      BY <2>2, <2>3
  <1>8. BuildOf(j)' /\ Fresh'
    BY <1>1, <1>3 DEF BuildOf, Builds, Adds, IInv, Host, Fresh
  <1>9. pack' \in [tar : Tars, sig : Nat, sha : Tars] /\ builds' \in Nat /\ pack'.sig <= Sig(track)
        /\ (pack'.sig = Sig(track) => stamp = Sig(track))
    BY <1>t, Building DEF TypeOK
  <1> QED
    BY <1>1, <1>2, <1>4, <1>6, <1>7, <1>8, <1>9, Building, BuildStep

LEMMA AddFileKeeps == ASSUME IInv, NEW j \in Everyone, AddFile(j) PROVE IInv'
  <1>t. TypeOK /\ req[j].pc = "tar" /\ Builds(j) /\ Adds(j)
    BY DEF IInv, AddFile, Serving, Builds, Adds
  <1>b. /\ req[j] \in Making /\ lock = j /\ BuildOf(j)
        /\ \A k \in Everyone : k # j => ~Builds(k) /\ ~Adds(k)
        /\ Sig(track) \in Nat /\ pack.sig <= Sig(track) /\ (pack.sig = Sig(track) => stamp = Sig(track))
        /\ \A k \in Joiners : k \in Everyone /\ Asked(k)
    BY <1>t, Building
  <1>1. CASE /\ LET i == Min(req[j].todo) IN
                Serve(j, [req[j] EXCEPT !.part[i] = track[i], !.todo = @ \ {i},
                                        !.pc = IF req[j].todo = {i} THEN "name" ELSE @])
             /\ UNCHANGED <<lock, left>>
    <2> DEFINE i == Min(req[j].todo)
               step == [req[j] EXCEPT !.part[i] = track[i], !.todo = @ \ {i},
                                      !.pc = IF req[j].todo = {i} THEN "name" ELSE @]
    <2>1. track \in Plans
      BY <1>t DEF TypeOK
    <2>2. /\ step \in Reqs /\ step.pc \in {"tar", "name"} /\ step.want = req[j].want
          /\ step.todo = req[j].todo \ {i} /\ (step.pc = "name" => step.todo = {})
          /\ \A k \in Files : step.part[k] = IF k = i THEN track[k] ELSE req[j].part[k]
      <3>1. [req[j].part EXCEPT ![i] = track[i]] \in Plans
        BY <1>b, <2>1 DEF Making, Plans
      <3>2. step = [req[j] EXCEPT !.part = [req[j].part EXCEPT ![i] = track[i]], !.todo = req[j].todo \ {i},
                                  !.pc = IF req[j].todo = {i} THEN "name" ELSE "tar"]
        BY <1>t, <1>b DEF Making
      <3>3. step \in Making
        BY <1>b, <3>1, <3>2 DEF Making
      <3> QED
        BY <1>t, <1>b, <3>1, <3>2, <3>3 DEF Making, Plans, Reqs
    <2>3. req' = [req EXCEPT ![j] = step] /\ UNCHANGED <<track, stamp, pack, builds, job, have, lock, left>>
      BY <1>1 DEF Serve, AddFile
    <2> HIDE DEF step, i
    <2>4. req'[j] = step /\ \A k \in Everyone : k # j => req'[k] = req[k]
      BY <1>t, <2>3 DEF TypeOK
    <2>6. Digests'
      BY <2>2, <2>3, <2>4 DEF IInv, Digests, DigestOf
    <2>7. \A k \in Joiners : Asked(k)'
      <3> TAKE k \in Joiners
      <3>1. k \in Everyone /\ Asked(k) /\ Planned(k)
        BY <1>b DEF IInv, Joins
      <3>2. \A m \in Everyone : Adds(m)' => m = j
        BY <1>b, <2>4 DEF Adds
      <3>3. Past(k) => \A l \in Files \ step.todo : job[k].plan[l] <= step.part[l]
        BY <1>t, <2>2, <3>1 DEF Asked, Planned
      <3>4. Past(k)' => Past(k)
        <4>1. CASE k = j
          BY <1>t, <4>1 DEF Past
        <4>2. CASE k # j
          BY <2>4, <3>1, <4>2 DEF Past
        <4> QED
          BY <4>1, <4>2
      <3>5. req'[k].pc \in {"sig", "sha", "digest", "open", "answer", "none"} => k # j
        BY <2>2, <2>4
      <3>6. req'[k].pc # "none" => req[k].pc # "none"
        <4>1. CASE k = j
          BY <1>t, <4>1
        <4>2. CASE k # j
          BY <2>4, <3>1, <4>2
        <4> QED
          BY <4>1, <4>2
      <3> QED
        BY <2>3, <2>4, <3>1, <3>2, <3>3, <3>4, <3>5, <3>6 DEF Asked, Later
    <2>8. BuildOf(j)' /\ Fresh'
      <3>1. Sig(track)' = Sig(track)
        BY <2>3
      <3>2. step.want = Sig(track) => \A l \in Files \ step.todo : step.part[l] = track[l]
        BY <1>t, <1>b, <2>2 DEF BuildOf
      <3> QED
        BY <1>t, <1>b, <2>2, <2>3, <2>4, <3>1, <3>2 DEF BuildOf, Builds, Adds, IInv, Host, Fresh
    <2>9. /\ pack' \in [tar : Tars, sig : Nat, sha : Tars] /\ builds' \in Nat /\ lock' \in Everyone \cup {None}
          /\ left' \in Lefts /\ left' = left
      BY <1>t, <2>3 DEF TypeOK
    <2> QED
      BY <1>b, <2>2, <2>3, <2>6, <2>7, <2>8, <2>9, BuildStep
  <1>2. CASE Spend("faults") /\ NotFound(j) /\ lock' = None
    BY <1>t, <1>2, BuildFailsKeeps DEF AddFile
  <1> QED
    BY <1>1, <1>2 DEF AddFile

LEMMA NameKeeps == ASSUME IInv, NEW j \in Everyone, Name(j) PROVE IInv'
  <1>t. TypeOK /\ req[j].pc = "name" /\ Builds(j) /\ Adds(j)
    BY DEF IInv, Name, Serving, Builds, Adds
  <1>b. /\ req[j] \in Making /\ lock = j /\ BuildOf(j)
        /\ \A k \in Everyone : k # j => ~Builds(k) /\ ~Adds(k)
        /\ Sig(track) \in Nat /\ pack.sig <= Sig(track) /\ (pack.sig = Sig(track) => stamp = Sig(track))
        /\ \A k \in Joiners : k \in Everyone /\ Asked(k)
    BY <1>t, Building
  <1>1. CASE /\ builds' = builds + 1
             /\ pack' = [pack EXCEPT !.tar = [at |-> builds', files |-> req[j].part]]
             /\ Serves(j, "sig") /\ UNCHANGED <<lock, left>>
    <2> DEFINE step == [req[j] EXCEPT !.pc = "sig"]
    <2>2. step \in Reqs /\ step.pc = "sig" /\ step.want = req[j].want
      BY <1>b DEF Making, Reqs
    <2>3. req' = [req EXCEPT ![j] = step] /\ UNCHANGED <<track, stamp, job, have, lock, left>>
      BY <1>1 DEF Serves, Serve, Name
    <2> HIDE DEF step
    <2>4. req'[j] = step /\ \A k \in Everyone : k # j => req'[k] = req[k]
      BY <1>t, <2>3 DEF TypeOK
    <2>5. /\ builds' \in Nat /\ pack'.tar.files = req[j].part /\ pack'.tar.at > 0 /\ pack'.sig = pack.sig
          /\ pack'.sha = pack.sha /\ pack' \in [tar : Tars, sig : Nat, sha : Tars]
      BY <1>t, <1>b, <1>1 DEF TypeOK, Making, Tars
    <2>6. Digests'
      BY <2>2, <2>3, <2>4, <2>5 DEF IInv, Digests, DigestOf
    <2>p. req[j].todo = {}
      BY <1>t, <1>b DEF BuildOf
    <2>7. \A k \in Joiners : Asked(k)'
      <3> TAKE k \in Joiners
      <3>1. k \in Everyone /\ Asked(k)
        BY <1>b
      <3>2. \A m \in Everyone : ~Adds(m)'
        BY <1>b, <2>2, <2>4 DEF Adds
      <3>3. Past(k) => Later(pack'.tar.files, job[k].plan)
        BY <1>t, <2>p, <2>5, <3>1 DEF Asked, Later
      <3>4. Past(k)' => Past(k)
        <4>1. CASE k = j
          BY <1>t, <4>1 DEF Past
        <4>2. CASE k # j
          BY <2>4, <3>1, <4>2 DEF Past
        <4> QED
          BY <4>1, <4>2
      <3>5. req'[k].pc \in {"answer", "none"} => k # j
        BY <2>2, <2>4
      <3>6. req'[k].pc # "none" => req[k].pc # "none"
        <4>1. CASE k = j
          BY <1>t, <4>1
        <4>2. CASE k # j
          BY <2>4, <3>1, <4>2
        <4> QED
          BY <4>1, <4>2
      <3>7. req'[k].pc \in {"sig", "sha", "digest", "open"} => Past(k)'
        BY DEF Past
      <3> QED
        BY <2>3, <2>4, <3>1, <3>2, <3>3, <3>4, <3>5, <3>6, <3>7 DEF Asked
    <2>8. BuildOf(j)' /\ Fresh'
      <3>1. /\ Sig(track)' = Sig(track) /\ req[j].want <= Sig(track)
            /\ (pack.sig = Sig(track) => req[j].want = Sig(track)) /\ (req[j].want = Sig(track) => stamp = Sig(track))
        BY <1>t, <1>b, <2>3 DEF BuildOf
      <3>2. req[j].want = Sig(track) => pack'.tar.files = track
        <4>1. req[j].want = Sig(track) => \A l \in Files : req[j].part[l] = track[l]
          BY <1>t, <1>b, <2>p DEF BuildOf
        <4>2. track \in Plans /\ req[j].part \in Plans
          BY <1>t, <1>b DEF TypeOK, Making
        <4> QED
          BY <2>5, <4>1, <4>2 DEF Plans
      <3> QED
        BY <1>t, <1>b, <2>2, <2>3, <2>4, <2>5, <3>1, <3>2 DEF BuildOf, Builds, Adds, Fresh
    <2>9. lock' \in Everyone \cup {None} /\ left' \in Lefts /\ left' = left
      BY <1>t, <2>3 DEF TypeOK
    <2> QED
      BY <1>b, <2>2, <2>3, <2>5, <2>6, <2>7, <2>8, <2>9, BuildStep
  <1>2. CASE Spend("faults") /\ NotFound(j) /\ lock' = None /\ UNCHANGED <<builds, pack>>
    BY <1>t, <1>2, BuildFailsKeeps DEF Name
  <1> QED
    BY <1>1, <1>2 DEF Name

LEMMA WriteSigKeeps == ASSUME IInv, NEW j \in Everyone, WriteSig(j) PROVE IInv'
  <1>t. TypeOK /\ req[j].pc = "sig" /\ Builds(j)
    BY DEF IInv, WriteSig, Serving, Builds
  <1>b. /\ req[j] \in Making /\ lock = j /\ BuildOf(j)
        /\ \A k \in Everyone : k # j => ~Builds(k) /\ ~Adds(k)
        /\ Sig(track) \in Nat /\ pack.sig <= Sig(track) /\ (pack.sig = Sig(track) => stamp = Sig(track))
        /\ \A k \in Joiners : k \in Everyone /\ Asked(k)
    BY <1>t, Building
  <1> DEFINE step == [req[j] EXCEPT !.pc = "sha"]
  <1>2. step \in Reqs /\ step.pc = "sha" /\ step.want = req[j].want
    BY <1>b DEF Making, Reqs
  <1>3. req' = [req EXCEPT ![j] = step] /\ UNCHANGED <<track, stamp, job, have, lock, builds>>
    BY DEF WriteSig, Serves, Serve
  <1> HIDE DEF step
  <1>4. req'[j] = step /\ \A k \in Everyone : k # j => req'[k] = req[k]
    BY <1>t, <1>3 DEF TypeOK
  <1>5. left' \in Lefts /\ left'.undigested = left.undigested /\ left'.unseen = left.unseen
    BY <1>t, SpendLeft DEF WriteSig, TypeOK
  <1>6. pack' = [pack EXCEPT !.sig = req[j].want] \/ pack' = pack
    BY DEF WriteSig
  <1>7. /\ pack' \in [tar : Tars, sig : Nat, sha : Tars] /\ pack'.tar = pack.tar /\ pack'.sha = pack.sha
        /\ pack'.sig \in {pack.sig, req[j].want}
    BY <1>t, <1>b, <1>6 DEF TypeOK, Making
  <1>8. Digests'
    BY <1>2, <1>4, <1>5, <1>7 DEF IInv, Digests, DigestOf
  <1>9. \A k \in Joiners : Asked(k)'
    <2> TAKE k \in Joiners
    <2>1. k \in Everyone /\ Asked(k)
      BY <1>b
    <2>2. \A m \in Everyone : ~Adds(m)'
      BY <1>b, <1>2, <1>4 DEF Adds
    <2>3. CASE k = j
      BY <1>t, <1>2, <1>3, <1>4, <1>5, <1>7, <2>1, <2>2, <2>3 DEF Asked, Past
    <2>4. CASE k # j
      BY <1>3, <1>4, <1>5, <1>7, <2>1, <2>2, <2>4 DEF Asked, Past
    <2> QED
      BY <2>3, <2>4
  <1>10. BuildOf(j)' /\ Fresh'
    <2>1. /\ Sig(track)' = Sig(track) /\ req[j].want <= Sig(track) /\ pack.tar.at > 0
          /\ (pack.sig = Sig(track) => req[j].want = Sig(track)) /\ (req[j].want = Sig(track) => stamp = Sig(track))
          /\ (req[j].want = Sig(track) => pack.tar.files = track)
      BY <1>t, <1>b, <1>3 DEF BuildOf
    <2>2. Fresh'
      BY <1>3, <1>7, <2>1 DEF IInv, Host, Fresh
    <2>3. BuildOf(j)'
      BY <1>b, <1>2, <1>3, <1>4, <1>7, <2>1 DEF BuildOf, Builds, Adds, Making
    <2> QED
      BY <2>2, <2>3
  <1>11. builds' \in Nat /\ lock' \in Everyone \cup {None} /\ pack'.sig <= Sig(track)
         /\ (pack'.sig = Sig(track) => stamp = Sig(track))
    BY <1>t, <1>b, <1>3, <1>7 DEF TypeOK, BuildOf
  <1> QED
    BY <1>b, <1>2, <1>3, <1>5, <1>7, <1>8, <1>9, <1>10, <1>11, BuildStep

LEMMA WriteShaKeeps == ASSUME IInv, NEW j \in Everyone, WriteSha(j) PROVE IInv'
  <1>t. TypeOK /\ req[j].pc = "sha" /\ Builds(j)
    BY DEF IInv, WriteSha, Serving, Builds
  <1>b. /\ req[j] \in Making /\ lock = j /\ BuildOf(j)
        /\ \A k \in Everyone : k # j => ~Builds(k) /\ ~Adds(k)
        /\ Sig(track) \in Nat /\ pack.sig <= Sig(track) /\ (pack.sig = Sig(track) => stamp = Sig(track))
        /\ \A k \in Joiners : k \in Everyone /\ Asked(k)
    BY <1>t, Building
  <1> DEFINE step == [req[j] EXCEPT !.pc = "digest"]
  <1>2. step \in Reqs /\ step.pc = "digest"
    BY <1>b DEF Making, Reqs
  <1>3. req' = [req EXCEPT ![j] = step] /\ UNCHANGED <<track, stamp, job, have, builds>> /\ lock' = None
    BY DEF WriteSha, Serves, Serve
  <1> HIDE DEF step
  <1>4. req'[j] = step /\ \A k \in Everyone : k # j => req'[k] = req[k]
    BY <1>t, <1>3 DEF TypeOK
  <1>5. /\ left' \in Lefts /\ (left.undigested => left'.undigested) /\ left'.unseen = left.unseen
        /\ pack' \in [tar : Tars, sig : Nat, sha : Tars] /\ pack'.tar = pack.tar /\ pack'.sig = pack.sig
        /\ (~left'.undigested => pack'.sha = pack.tar)
    <2>1. CASE pack' = [pack EXCEPT !.sha = pack.tar] /\ UNCHANGED left
      BY <1>t, <2>1 DEF TypeOK
    <2>2. CASE /\ left.faults > 0 /\ pack' \in {pack, [pack EXCEPT !.sha = Blank]}
               /\ left' = [left EXCEPT !.faults = @ - 1, !.undigested = TRUE]
      <3>1. left' \in Lefts /\ left'.undigested /\ left'.unseen = left.unseen
        <4>1. left \in Lefts /\ left.faults \in Nat /\ left.faults - 1 \in Nat
          BY <1>t, <2>2 DEF TypeOK, Lefts
        <4>2. left' = [left EXCEPT !.faults = left.faults - 1, !.undigested = TRUE]
          BY <2>2
        <4> QED
          BY <4>1, <4>2 DEF Lefts
      <3>2. pack' \in [tar : Tars, sig : Nat, sha : Tars] /\ pack'.tar = pack.tar /\ pack'.sig = pack.sig
        BY <1>t, <2>2, Blanks DEF TypeOK
      <3> QED
        BY <3>1, <3>2
    <2> QED
      BY <2>1, <2>2 DEF WriteSha
  <1>6. pack.tar.at > 0 /\ pack.tar # NoTar /\ pack.tar # Blank
    BY <1>t, <1>b, Blanks DEF BuildOf
  <1>8. Digests'
    BY <1>2, <1>4, <1>5, <1>6 DEF IInv, Digests, DigestOf
  <1>9. \A k \in Joiners : Asked(k)'
    <2> TAKE k \in Joiners
    <2>1. k \in Everyone /\ Asked(k)
      BY <1>b
    <2>2. \A m \in Everyone : ~Adds(m)'
      BY <1>b, <1>2, <1>4 DEF Adds
    <2>3. CASE k = j
      BY <1>t, <1>2, <1>3, <1>4, <1>5, <2>1, <2>2, <2>3 DEF Asked, Past
    <2>4. CASE k # j
      BY <1>3, <1>4, <1>5, <2>1, <2>2, <2>4 DEF Asked, Past
    <2> QED
      BY <2>3, <2>4
  <1>10. BuildOf(j)' /\ Fresh'
    <2>1. Fresh'
      BY <1>3, <1>5 DEF IInv, Host, Fresh
    <2>2. BuildOf(j)'
      BY <1>2, <1>4 DEF BuildOf, Builds, Adds
    <2> QED
      BY <2>1, <2>2
  <1>11. builds' \in Nat /\ lock' \in Everyone \cup {None} /\ pack'.sig <= Sig(track)
         /\ (pack'.sig = Sig(track) => stamp = Sig(track))
    BY <1>t, <1>b, <1>3, <1>5 DEF TypeOK
  <1> QED
    BY <1>b, <1>2, <1>3, <1>5, <1>8, <1>9, <1>10, <1>11, BuildStep

LEMMA HostStepKeeps == ASSUME IInv, NEW j \in Everyone, HostStep(j) PROVE IInv'
  BY EnsureKeeps, AddFileKeeps, NameKeeps, WriteSigKeeps, WriteShaKeeps, ReadShaKeeps, OpenTarKeeps DEF HostStep

LEMMA JoinerStepKeeps == ASSUME IInv, NEW j \in Joiners, JoinerStep(j) PROVE IInv'
  BY PlanKeeps, RequestKeeps, ProbedKeeps, GotRangeKeeps, StreamedKeeps, RefusedKeeps, CheckKeeps, UnpackKeeps,
     FetchFileKeeps DEF JoinerStep

(* The host's disk. *)

\* A changed file is newer than any signature taken before.
LEMMA WritesKeeps ==
    ASSUME IInv, Writes, UNCHANGED <<pack, lock, builds, req, job, have>>, left' \in Lefts,
           left'.undigested = left.undigested, left.unseen => left'.unseen,
           stamp' \in Nat, stamp' <= Sig(track) + 1, ~left'.unseen => stamp' = Sig(track) + 1
    PROVE  IInv'
  <1>t. TypeOK /\ Host
    BY DEF IInv
  <1>1. Sig(track) \in Nat /\ \A k \in Files : track[k] <= Sig(track)
    BY <1>t, SigMax DEF Host
  <1>2. PICK i \in Files : track' = [track EXCEPT ![i] = Sig(track) + 1]
    BY DEF Writes, Newest, Sig
  <1>3. /\ track' \in Plans /\ track'[i] = Sig(track) + 1
        /\ \A k \in Files : track[k] <= track'[k] /\ track'[k] <= track'[i]
    BY <1>t, <1>1, <1>2 DEF TypeOK, Plans
  <1>4. Sig(track)' = Sig(track) + 1
    <2>1. Sig(track') = track'[i]
      BY <1>3, SigOf
    <2> QED
      BY <1>3, <2>1
  <1>5. TypeOK'
    BY <1>t, <1>1, <1>3 DEF TypeOK
  <1>6. Host'
    <2>1. ASSUME NEW k \in Everyone PROVE BuildOf(k)'
      <3>1. BuildOf(k)
        BY <1>t DEF Host
      <3>2. CASE Builds(k)
        <4>1. req[k] \in Making
          BY <3>2, Building
        <4>2. req[k].want \in Nat /\ req[k].want <= Sig(track)
          BY <3>1, <3>2, <4>1 DEF BuildOf, Making
        <4>3. req'[k].want # Sig(track)' /\ req'[k].want <= Sig(track)'
          BY <1>1, <1>4, <4>2
        <4>4. pack'.sig # Sig(track)'
          BY <1>t, <1>1, <1>4 DEF Host, TypeOK
        <4> QED
          BY <1>1, <3>1, <3>2, <4>3, <4>4 DEF BuildOf, Builds, Adds
      <3>3. CASE ~Builds(k)
        BY <1>1, <3>1, <3>3 DEF BuildOf, Builds, Adds
      <3> QED
        BY <3>2, <3>3
    <2>2. HasNewest'
      BY <1>3 DEF HasNewest
    <2>3. pack'.sig \in Nat /\ pack'.sig <= Sig(track)
      BY <1>t, <1>1 DEF TypeOK, Host
    <2>4. pack'.sig <= Sig(track)' /\ pack'.sig # Sig(track)'
      BY <1>1, <1>4, <2>3
    <2>5. Fresh'
      BY <2>4 DEF Fresh
    <2> QED
      BY <1>4, <2>1, <2>2, <2>4, <2>5 DEF Host
  <1>7. Digests'
    BY <1>1 DEF IInv, Digests, DigestOf
  <1>8. Joins'
    <2>1. ASSUME NEW j \in Joiners PROVE Asked(j)' /\ Planned(j)' /\ Ranges(j)' /\ Fetched(j)'
      <3>1. Asked(j) /\ Planned(j) /\ Ranges(j) /\ Fetched(j) /\ job[j].plan \in Plans
        BY JobKind DEF IInv, Joins
      <3>2. Asked(j)' /\ Ranges(j)' /\ Fetched(j)'
        BY <1>1, <3>1 DEF Asked, Past, Adds, Later, Ranges, Fetched
      <3>3. Planned(j)'
        <4> SUFFICES ASSUME NEW k \in Files PROVE job[j].plan[k] <= track'[k]
          BY <1>1 DEF Planned
        <4>1. job[j].plan[k] \in Nat /\ track[k] \in Nat /\ track'[k] \in Nat
          BY <1>t, <1>3, <3>1 DEF TypeOK, Plans
        <4>2. job[j].plan[k] <= track[k] /\ track[k] <= track'[k]
          BY <1>3, <3>1 DEF Planned
        <4> QED
          BY <4>1, <4>2
      <3> QED
        BY <3>2, <3>3
    <2> QED
      BY <2>1 DEF Joins
  <1>9. Stamped'
    BY <1>4 DEF Stamped
  <1> QED
    BY <1>5, <1>6, <1>7, <1>8, <1>9 DEF IInv

LEMMA ChangeKeeps == ASSUME IInv, Change PROVE IInv'
  <1>1. TypeOK /\ Host /\ Stamped /\ Sig(track) \in Nat
    BY SigMax DEF IInv, Host
  <1>2. stamp' = Sig(track) + 1 /\ left' \in Lefts /\ left'.undigested = left.undigested /\ left'.unseen = left.unseen
    BY <1>1, SpendLeft DEF Change, Newest, Sig
  <1> QED
    BY <1>1, <1>2, WritesKeeps DEF Change

LEMMA DisguiseKeeps == ASSUME IInv, Disguise PROVE IInv'
  <1>1. TypeOK /\ Host /\ Sig(track) \in Nat /\ stamp \in Nat /\ stamp <= Sig(track)
    BY SigMax DEF IInv, Host, TypeOK
  <1>2. stamp' \in Nat /\ stamp' <= Sig(track) + 1
    BY <1>1 DEF Disguise
  <1>3. left' \in Lefts /\ left'.undigested = left.undigested /\ left'.unseen
    <2>1. left \in Lefts /\ left.disguises - 1 \in Nat
      BY <1>1 DEF TypeOK, Lefts, Disguise
    <2>2. left' = [left EXCEPT !.disguises = left.disguises - 1, !.unseen = TRUE]
      BY DEF Disguise
    <2> QED
      BY <2>1, <2>2 DEF Lefts
  <1> QED
    BY <1>1, <1>2, <1>3, WritesKeeps DEF Disguise

LEMMA KillHostKeeps == ASSUME IInv, KillHost PROVE IInv'
  <1>t. TypeOK /\ Host
    BY DEF IInv
  <1>1. /\ UNCHANGED <<track, stamp, pack, builds, job, have>> /\ lock' = None /\ left' \in Lefts
        /\ left'.undigested = left.undigested /\ left'.unseen = left.unseen
    BY <1>t, SpendLeft DEF KillHost
  <1> DEFINE refused == [pc |-> "answer", ok |-> FALSE, tar |-> NoTar, sha |-> NoTar]
  <1>2. req' = [j \in Everyone |-> IF req[j].pc = "none" THEN NoReq ELSE refused]
    BY DEF KillHost, Everyone, Serving
  <1>3. refused \in Reqs /\ refused.pc = "answer" /\ ~refused.ok /\ NoReq \in Reqs /\ NoReq.pc = "none"
    BY Refusal DEF NoReq, Reqs, Short
  <1> HIDE DEF refused
  <1>4. /\ req' \in [Everyone -> Reqs]
        /\ \A j \in Everyone : \/ req'[j].pc = "none"
                               \/ req'[j].pc = "answer" /\ ~req'[j].ok /\ req[j].pc # "none"
    BY <1>2, <1>3
  <1>5. TypeOK'
    BY <1>t, <1>1, <1>4 DEF TypeOK
  <1>6. Host'
    <2>1. \A j \in Everyone : BuildOf(j)'
      BY <1>4 DEF BuildOf, Builds, Adds
    <2> QED
      BY <1>t, <1>1, <2>1 DEF Host, HasNewest, Fresh
  <1>7. Digests'
    BY <1>1, <1>4 DEF IInv, Digests, DigestOf
  <1>8. Joins'
    <2>1. ASSUME NEW j \in Joiners PROVE Asked(j)' /\ Planned(j)' /\ Ranges(j)' /\ Fetched(j)'
      <3>1. Asked(j) /\ Planned(j) /\ Ranges(j) /\ Fetched(j) /\ j \in Everyone
        BY DEF IInv, Joins, Everyone
      <3>2. Asked(j)'
        BY <1>1, <1>4, <3>1 DEF Asked, Past
      <3> QED
        BY <1>1, <3>1, <3>2 DEF Planned, Ranges, Fetched, Later
    <2> QED
      BY <2>1 DEF Joins
  <1>9. Stamped'
    BY <1>1 DEF IInv, Stamped
  <1> QED
    BY <1>5, <1>6, <1>7, <1>8, <1>9 DEF IInv

LEMMA PruneKeeps == ASSUME IInv, Prune PROVE IInv'
  <1>t. TypeOK /\ Host /\ Sig(track) \in Nat
    BY SigMax DEF IInv, Host
  <1>1. /\ UNCHANGED <<track, stamp, lock, builds, req, job, have>> /\ left' \in Lefts
        /\ left'.undigested = left.undigested /\ left'.unseen = left.unseen /\ \A j \in Everyone : req[j].pc = "none"
    BY <1>t, SpendLeft DEF Prune, Everyone, Serving
  <1>2. /\ pack' \in [tar : Tars, sig : Nat, sha : Tars] /\ pack'.tar = NoTar
        /\ pack'.sig \in {pack.sig, 0} /\ pack'.sha \in {pack.sha, NoTar}
    <2>1. pack \in [tar : Tars, sig : Nat, sha : Tars]
      BY <1>t DEF TypeOK
    <2>2. CASE pack' = [pack EXCEPT !.tar = NoTar]
      BY <2>1, <2>2, Blanks
    <2>3. CASE pack' = [pack EXCEPT !.tar = NoTar, !.sig = 0]
      BY <2>1, <2>3, Blanks
    <2>4. CASE pack' = [tar |-> NoTar, sig |-> 0, sha |-> NoTar]
      BY <2>4, Blanks
    <2> QED
      BY <2>2, <2>3, <2>4 DEF Prune
  <1>5. TypeOK'
    BY <1>t, <1>1, <1>2 DEF TypeOK
  <1>6. Host'
    <2>1. \A j \in Everyone : BuildOf(j)'
      BY <1>1 DEF BuildOf, Builds, Adds
    <2>2. pack'.sig <= Sig(track)' /\ (pack'.sig = Sig(track)' => stamp' = Sig(track)')
      BY <1>t, <1>1, <1>2 DEF Host, TypeOK
    <2> QED
      BY <1>t, <1>1, <1>2, <2>1, <2>2 DEF Host, HasNewest, Fresh
  <1>7. Digests'
    BY <1>1, <1>2, Blanks DEF IInv, Digests, DigestOf
  <1>8. Joins'
    <2>1. ASSUME NEW j \in Joiners PROVE Asked(j)' /\ Planned(j)' /\ Ranges(j)' /\ Fetched(j)'
      <3>1. Planned(j) /\ Ranges(j) /\ Fetched(j) /\ j \in Everyone
        BY DEF IInv, Joins, Everyone
      <3> QED
        BY <1>1, <3>1 DEF Asked, Past, Planned, Ranges, Fetched, Later
    <2> QED
      BY <2>1 DEF Joins
  <1>9. Stamped'
    BY <1>1 DEF IInv, Stamped
  <1> QED
    BY <1>5, <1>6, <1>7, <1>8, <1>9 DEF IInv

-----------------------------------------------------------------------------

LEMMA InitHolds == Init => IInv
  <1> SUFFICES ASSUME Init PROVE IInv
    OBVIOUS
  <1>1. TypeOK
    <2>1. NoReq \in Reqs /\ NoJob \in Jobs /\ [i \in Files |-> 0] \in Plans /\ [i \in Files |-> 1] \in Plans
      BY DEF NoReq, NoJob, Reqs, Short, Jobs, Idle, Plans
    <2>2. left \in Lefts /\ left.undigested = FALSE
      BY ConstantsAssumption DEF Init, Lefts
    <2>3. req \in [Everyone -> Reqs]
      BY <2>1 DEF Init, Everyone
    <2> QED
      BY <2>1, <2>2, <2>3, Blanks DEF Init, TypeOK
  <1>2. HasNewest
    <2>1. PICK i \in Files : TRUE
      BY ConstantsAssumption
    <2>2. \A k \in Files : track[k] = 1
      BY DEF Init
    <2> QED
      BY <2>1, <2>2 DEF HasNewest
  <1>3. \A j \in Everyone : req[j].pc = "none"
    BY DEF Init, Everyone, NoReq
  <1>s. Sig(track) = 1
    <2>1. PICK i \in Files : TRUE
      BY ConstantsAssumption
    <2>2. \A k \in Files : track[k] = 1
      BY DEF Init
    <2> QED
      BY <1>1, <1>2, <2>1, <2>2, SigMax
  <1>4. Host
    BY <1>1, <1>2, <1>3, <1>s DEF Host, Fresh, BuildOf, Builds, Adds, Init
  <1>5. Digests
    BY <1>3, Blanks DEF Digests, DigestOf, Init
  <1>6. Joins
    <2> SUFFICES ASSUME NEW j \in Joiners PROVE Asked(j) /\ Planned(j) /\ Ranges(j) /\ Fetched(j)
      BY DEF Joins
    <2>1. req[j].pc = "none" /\ job[j].pc = "idle" /\ job[j].done = FALSE /\ \A i \in Files : job[j].plan[i] = 0
      BY <1>3 DEF Init, NoJob, Everyone
    <2>2. \A i \in Files : track[i] = 1
      BY DEF Init
    <2> QED
      BY <2>1, <2>2 DEF Asked, Past, Planned, Ranges, Fetched
  <1>7. Stamped
    BY <1>s DEF Stamped, Init
  <1> QED
    BY <1>1, <1>4, <1>5, <1>6, <1>7 DEF IInv

LEMMA NextKeeps == IInv /\ [Next]_vars => IInv'
  <1> SUFFICES ASSUME IInv, [Next]_vars PROVE IInv'
    OBVIOUS
  <1>1. CASE \E j \in Everyone : HostStep(j)
    BY <1>1, HostStepKeeps
  <1>2. CASE \E j \in Joiners : JoinerStep(j) \/ Lose(j)
    BY <1>2, JoinerStepKeeps, LoseKeeps
  <1>3. CASE \E j \in Others : OtherAsks(j)
    BY <1>3, OtherAsksKeeps
  <1>4. CASE Change \/ Disguise \/ KillHost \/ Prune
    BY <1>4, ChangeKeeps, DisguiseKeeps, KillHostKeeps, PruneKeeps
  <1>5. CASE UNCHANGED vars
    BY <1>5 DEF vars, IInv, TypeOK, Host, HasNewest, Fresh, Stamped, BuildOf, Builds, Adds, Digests, DigestOf, Joins,
                Asked, Past, Later, Planned, Ranges, Fetched
  <1> QED
    BY <1>1, <1>2, <1>3, <1>4, <1>5 DEF Next, Everyone

LEMMA Invariant == Spec => []IInv
  <1> QED
    BY InitHolds, NextKeeps, PTL DEF Spec

-----------------------------------------------------------------------------

\* The state keeps its types: a request is at one step of ensure_track_pack and
\* send_file, a job at one step of install_files_with.
THEOREM TypeCorrect == Spec => []TypeOK
  <1>1. IInv => TypeOK
    BY DEF IInv
  <1> QED
    BY <1>1, Invariant, PTL

\* ensure_track_pack: the tar whose signature is that of the files holds them, whatever
\* changes while it is made and wherever the host is killed, unless their last change is
\* one that track_sig does not see.
THEOREM SigTruthfulAlways == Spec => []SigTruthful
  <1>1. IInv => SigTruthful
    BY DEF IInv, Host, Fresh, SigTruthful, Seen, Newest, Sig
  <1> QED
    BY <1>1, Invariant, PTL

\* install_files_with: as long as the host can write its digests and track_sig saw
\* every change, a job that says it is
\* done leaves no file older than the manifest it was planned from, whichever tars its
\* ranges were served from.
THEOREM HonestEndAlways == Spec => []HonestEnd
  <1>1. IInv => HonestEnd
    <2> SUFFICES ASSUME IInv, NEW j \in Joiners, At(j, "idle"), job[j].done, ~left.undigested, ~left.unseen, NEW i \in Files
                 PROVE  have[j][i] >= job[j].plan[i]
      BY DEF HonestEnd
    <2>1. job[j].plan[i] <= have[j][i] /\ job[j].plan \in Plans /\ have[j] \in Plans
      BY JobKind DEF IInv, Joins, Fetched, Later, At
    <2>2. job[j].plan[i] \in Nat /\ have[j][i] \in Nat
      BY <2>1 DEF Plans
    <2> QED
      BY <2>1, <2>2
  <1> QED
    BY <1>1, Invariant, PTL
=============================================================================
