---------------------------- MODULE ServerProofs ----------------------------
(* Proofs about the dedicated servers and the file of their profiles.          *)
(* JsonFile: until two saves have the one .part open, profiles.json stays      *)
(* whole; until one replaces what another loaded, a save keeps every other     *)
(* profile - for any number of writers, and all of them at any time.           *)
(* ServerProc: types; no two servers on one port, and a Stop that ends only    *)
(* the server it was pressed for - for any number of profiles, ports, pids     *)
(* and requests.                                                               *)
EXTENDS JsonFile, ServerProc, FiniteSetTheorems, TLAPS

-----------------------------------------------------------------------------
(* profiles.json: any number of saves at a time *)

\* A writer that has a file open.
Holds(k) == w[k].pc \in {"write", "rename"}

\* The steps a writer can be at.
WriterSteps ==
    [pc : {"idle"}]
    \cup [pc : {"create"}, id : Ids, list : SUBSET Ids]
    \cup [pc : {"write", "rename"}, id : Ids, list : SUBSET Ids, file : Files]

WritersOK == w \in [Writers -> WriterSteps]

OneHolds == \A p, q \in Writers : Holds(p) /\ Holds(q) => p = q

\* The open file is the one named .part, truncated before it is written and
\* whole before it is renamed.
OpenOK ==
    \A k \in Writers :
        /\ WriterAt(k, "write") => part = w[k].file /\ content[part] = Half
        /\ WriterAt(k, "rename") => part = w[k].file /\ content[part] = w[k].list

\* What is going to be written differs from what is there in one profile.
ListOK ==
    \A k \in Writers : ~WriterAt(k, "idle") =>
        \A i \in Ids \ {w[k].id} : i \in w[k].list <=> i \in content[json]

FileInv ==
    /\ FileTypeOK /\ WritersOK
    /\ "part" \notin met => OneHolds /\ OpenOK /\ Whole
    /\ met = {} => ListOK

THEOREM FileInitHolds == FileInit => FileInv
  <1> SUFFICES ASSUME FileInit PROVE FileInv
    OBVIOUS
  <1>1. FileTypeOK /\ WritersOK /\ Whole
    BY FilesAssumption DEF FileInit, FileTypeOK, WritersOK, WriterSteps, WriterRests, Whole
  <1>2. \A k \in Writers : w[k].pc = "idle"
    BY DEF FileInit, WriterRests
  <1>3. OneHolds /\ OpenOK /\ ListOK
    BY <1>2 DEF OneHolds, Holds, OpenOK, WriterAt, ListOK
  <1> QED
    BY <1>1, <1>3 DEF FileInv

LEMMA LoadHolds ==
    ASSUME FileInv, NEW k \in Writers, Load(k) PROVE FileInv'
  <1>1. PICK i \in Ids : \E list \in {Loaded \cup {i}, Loaded \ {i}} :
            WriterDoes(k, [pc |-> "create", id |-> i, list |-> list])
    BY DEF Load
  <1> PICK list \in {Loaded \cup {i}, Loaded \ {i}} :
            WriterDoes(k, [pc |-> "create", id |-> i, list |-> list])
    BY <1>1
  <1>2. Loaded \in SUBSET Ids /\ (Whole => Loaded = content[json])
    BY DEF FileInv, Whole, Loaded, FileTypeOK
  <1>3. w' = [w EXCEPT ![k] = [pc |-> "create", id |-> i, list |-> list]]
    BY DEF WriterDoes
  <1>4. UNCHANGED <<content, json, part, met, crashes>>
    BY DEF Load
  <1>5. WritersOK'
    BY <1>2, <1>3 DEF FileInv, WritersOK, WriterSteps
  <1>6. \A q \in Writers \ {k} : w'[q] = w[q]
    BY <1>3 DEF FileInv, WritersOK
  <1>7. w'[k] = [pc |-> "create", id |-> i, list |-> list]
    BY <1>3 DEF FileInv, WritersOK
  <1>8. OneHolds /\ OpenOK => OneHolds' /\ OpenOK'
    BY <1>4, <1>6, <1>7 DEF OneHolds, Holds, OpenOK, WriterAt
  <1>9. ListOK /\ Whole => ListOK'
    BY <1>2, <1>4, <1>6, <1>7 DEF ListOK, WriterAt
  <1>10. FileTypeOK' /\ (Whole => Whole')
    BY <1>4 DEF FileInv, FileTypeOK, Whole
  <1> QED
    BY <1>4, <1>5, <1>8, <1>9, <1>10 DEF FileInv

LEMMA CreateHolds ==
    ASSUME FileInv, NEW k \in Writers, Create(k) PROVE FileInv'
  <1>1. PICK f \in Files :
            /\ f # json /\ (part # None => f = part)
            /\ content' = [content EXCEPT ![f] = Half]
            /\ part' = f
            /\ met' = met \cup (IF f \in Held THEN {"part"} ELSE {})
            /\ WriterDoes(k, [pc |-> "write", id |-> w[k].id, list |-> w[k].list, file |-> f])
    BY DEF Create, FileInv, FileTypeOK
  <1>2. /\ w' = [w EXCEPT ![k] = [pc |-> "write", id |-> w[k].id, list |-> w[k].list, file |-> f]]
        /\ UNCHANGED <<json, crashes>> /\ w[k].pc = "create"
    BY <1>1 DEF WriterDoes, Create, WriterAt
  <1>3. w[k].id \in Ids /\ w[k].list \in SUBSET Ids
    BY <1>2 DEF FileInv, WritersOK, WriterSteps
  <1>4. WritersOK'
    BY <1>2, <1>3 DEF FileInv, WritersOK, WriterSteps
  <1>5. /\ w'[k] = [pc |-> "write", id |-> w[k].id, list |-> w[k].list, file |-> f]
        /\ \A q \in Writers \ {k} : w'[q] = w[q]
    BY <1>2 DEF FileInv, WritersOK
  <1>6. content'[json'] = content[json] /\ content'[f] = Half
    BY <1>1, <1>2 DEF FileInv, FileTypeOK
  <1>7. ASSUME "part" \notin met' PROVE OneHolds' /\ OpenOK' /\ Whole'
    <2>1. "part" \notin met /\ f \notin Held
      BY <1>1, <1>7
    <2>2. OneHolds /\ OpenOK /\ Whole
      BY <2>1 DEF FileInv
    <2>3. ASSUME NEW q \in Writers, Holds(q) PROVE FALSE
      <3>1. w[q].file \in Held
        BY <2>3 DEF Held, Holds, WriterAt
      <3>2. w[q].file = part /\ w[q].file \in Files
        BY <2>2, <2>3 DEF OpenOK, Holds, WriterAt, FileInv, WritersOK, WriterSteps
      <3> QED
        BY <1>1, <2>1, <3>1, <3>2, FilesAssumption
    <2>4. OneHolds' /\ OpenOK'
      BY <1>1, <1>5, <1>6, <2>3 DEF OneHolds, Holds, OpenOK, WriterAt
    <2> QED
      BY <1>6, <2>2, <2>4 DEF Whole
  <1>8. ListOK => ListOK'
    BY <1>2, <1>5, <1>6 DEF ListOK, WriterAt
  <1>9. met' = {} => met = {}
    BY <1>1
  <1>10. FileTypeOK'
    BY <1>1, <1>2 DEF FileInv, FileTypeOK
  <1> QED
    BY <1>4, <1>7, <1>8, <1>9, <1>10 DEF FileInv

LEMMA WriteHolds ==
    ASSUME FileInv, NEW k \in Writers, Write(k) PROVE FileInv'
  <1>1. w[k].pc = "write" /\ UNCHANGED <<json, part, met, crashes>>
    BY DEF Write, WriterAt
  <1>2. /\ w[k].file \in Files /\ w[k].list \in SUBSET Ids /\ w[k].id \in Ids
        /\ w[k] \in [pc : {"write", "rename"}, id : Ids, list : SUBSET Ids, file : Files]
    BY <1>1 DEF FileInv, WritersOK, WriterSteps
  <1>3. \/ content' = [content EXCEPT ![w[k].file] = w[k].list]
        \/ content' = [content EXCEPT ![w[k].file] = Half] /\ content[w[k].file] # Half
    BY DEF Write
  <1>4. w' = [w EXCEPT ![k] = [w[k] EXCEPT !.pc = "rename"]]
    BY DEF Write, WriterDoes
  <1>5. WritersOK'
    BY <1>2, <1>4 DEF FileInv, WritersOK, WriterSteps
  <1>6. \A q \in Writers \ {k} : w'[q] = w[q]
    BY <1>4 DEF FileInv, WritersOK
  <1>7. w'[k].pc = "rename" /\ w'[k].id = w[k].id /\ w'[k].list = w[k].list /\ w'[k].file = w[k].file
    <2>1. w'[k] = [w[k] EXCEPT !.pc = "rename"]
      BY <1>4 DEF FileInv, WritersOK
    <2> QED
      BY <1>2, <2>1
  <1>8. ASSUME OneHolds, OpenOK, Whole PROVE OneHolds' /\ OpenOK' /\ content'[json'] = content[json]
    <2>1. part = w[k].file /\ content[part] = Half
      BY <1>1, <1>8 DEF OpenOK, WriterAt
    <2>2. content' = [content EXCEPT ![part] = w[k].list]
      BY <1>3, <2>1
    <2>3. content'[json'] = content[json] /\ content'[part'] = w[k].list
      BY <1>1, <1>2, <2>1, <2>2 DEF FileInv, FileTypeOK
    <2>4. \A q \in Writers \ {k} : ~Holds(q)
      BY <1>1, <1>8 DEF OneHolds, Holds
    <2>5. OneHolds' /\ OpenOK'
      BY <1>1, <1>6, <1>7, <2>1, <2>3, <2>4 DEF OneHolds, Holds, OpenOK, WriterAt
    <2> QED
      BY <2>3, <2>5
  <1>9. ASSUME ListOK, content'[json'] = content[json] PROVE ListOK'
    BY <1>1, <1>6, <1>7, <1>9 DEF ListOK, WriterAt
  <1>10. FileTypeOK'
    BY <1>1, <1>2, <1>3 DEF FileInv, FileTypeOK
  <1>11. (OneHolds /\ OpenOK /\ Whole) => Whole'
    BY <1>8 DEF Whole
  <1> QED
    BY <1>1, <1>5, <1>8, <1>9, <1>10, <1>11 DEF FileInv

LEMMA WriteFailsHolds ==
    ASSUME FileInv, NEW k \in Writers, WriteFails(k) PROVE FileInv'
  <1>1. /\ w[k].pc = "write"
        /\ content' = [content EXCEPT ![w[k].file] = Half]
        /\ w' = [w EXCEPT ![k] = WriterRests]
        /\ UNCHANGED <<json, part, met, crashes>>
    BY DEF WriteFails, WriterAt, WriterDoes
  <1>2. w[k].file \in Files
    BY <1>1 DEF FileInv, WritersOK, WriterSteps
  <1>3. WritersOK'
    BY <1>1 DEF FileInv, WritersOK, WriterSteps, WriterRests
  <1>4. w'[k].pc = "idle" /\ \A q \in Writers \ {k} : w'[q] = w[q]
    BY <1>1 DEF FileInv, WritersOK, WriterRests
  <1>5. ASSUME OneHolds, OpenOK PROVE OneHolds' /\ OpenOK' /\ content'[json'] = content[json]
    <2>1. part = w[k].file
      BY <1>1, <1>5 DEF OpenOK, WriterAt
    <2>2. content'[json'] = content[json]
      BY <1>1, <1>2, <2>1 DEF FileInv, FileTypeOK
    <2>3. \A q \in Writers : ~Holds(q)'
      BY <1>1, <1>4, <1>5 DEF OneHolds, Holds
    <2>4. OneHolds' /\ OpenOK'
      BY <2>3 DEF OneHolds, Holds, OpenOK, WriterAt
    <2> QED
      BY <2>2, <2>4
  <1>6. ASSUME ListOK, content'[json'] = content[json] PROVE ListOK'
    BY <1>4, <1>6 DEF ListOK, WriterAt
  <1>7. FileTypeOK'
    BY <1>1, <1>2 DEF FileInv, FileTypeOK
  <1>8. (OneHolds /\ OpenOK /\ Whole) => Whole'
    BY <1>5 DEF Whole
  <1> QED
    BY <1>1, <1>3, <1>5, <1>6, <1>7, <1>8 DEF FileInv

\* A rename puts in place what its writer wrote, as long as no other opened the .part.
LEMMA RenamePuts ==
    ASSUME FileInv, NEW k \in Writers, Rename(k), "part" \notin met
    PROVE  /\ part \in Files /\ json' = part /\ part' = None
           /\ content'[json'] = w[k].list /\ w[k].list \in SUBSET Ids
  <1>1. w[k].pc = "rename" /\ part = w[k].file /\ content[part] = w[k].list
    BY DEF Rename, WriterAt, FileInv, OpenOK
  <1>2. w[k].file \in Files /\ w[k].list \in SUBSET Ids
    BY <1>1 DEF FileInv, WritersOK, WriterSteps
  <1>3. json' = part /\ part' = None /\ content' = [content EXCEPT ![json] = {}]
    BY <1>1, <1>2, FilesAssumption DEF Rename
  <1>4. content'[json'] = w[k].list
    BY <1>1, <1>2, <1>3 DEF FileInv, FileTypeOK
  <1> QED
    BY <1>1, <1>2, <1>3, <1>4

LEMMA RenameHolds ==
    ASSUME FileInv, NEW k \in Writers, Rename(k) PROVE FileInv'
  <1>1. w[k].pc = "rename" /\ w' = [w EXCEPT ![k] = WriterRests] /\ UNCHANGED crashes
    BY DEF Rename, WriterAt, WriterDoes
  <1>2. \/ part = None /\ UNCHANGED <<content, json, part, met>>
        \/ /\ part # None /\ json' = part /\ part' = None /\ content' = [content EXCEPT ![json] = {}]
           /\ met' = met \cup (IF \A q \in Writers \ {k} : WriterAt(q, "idle") THEN {} ELSE {"list"})
    BY DEF Rename
  <1>3. WritersOK'
    BY <1>1 DEF FileInv, WritersOK, WriterSteps, WriterRests
  <1>4. w'[k].pc = "idle" /\ \A q \in Writers \ {k} : w'[q] = w[q]
    BY <1>1 DEF FileInv, WritersOK, WriterRests
  <1>5. FileTypeOK'
    BY <1>1, <1>2, FilesAssumption DEF FileInv, FileTypeOK
  <1>6. ASSUME "part" \notin met' PROVE OneHolds' /\ OpenOK' /\ Whole'
    <2>1. "part" \notin met
      BY <1>2, <1>6
    <2>2. OneHolds
      BY <2>1 DEF FileInv
    <2>3. \A q \in Writers : ~Holds(q)'
      BY <1>1, <1>4, <2>2 DEF OneHolds, Holds
    <2>4. OneHolds' /\ OpenOK'
      BY <2>3 DEF OneHolds, Holds, OpenOK, WriterAt
    <2>5. Whole'
      BY <2>1, RenamePuts, FilesAssumption DEF Whole
    <2> QED
      BY <2>4, <2>5
  <1>7. ASSUME met' = {} PROVE ListOK'
    <2>1. met = {}
      BY <1>2, <1>7
    <2>2. part # None
      BY <2>1, RenamePuts, FilesAssumption
    <2>3. \A q \in Writers \ {k} : WriterAt(q, "idle")
      BY <1>2, <1>7, <2>2
    <2> QED
      BY <1>4, <2>3 DEF ListOK, WriterAt
  <1> QED
    BY <1>3, <1>5, <1>6, <1>7 DEF FileInv

LEMMA CrashHolds ==
    ASSUME FileInv, Crash PROVE FileInv'
  <1>1. /\ w' = [k \in Writers |-> WriterRests] /\ UNCHANGED <<content, json, part, met>>
        /\ crashes' \in 0..MaxCrashes
    BY FilesAssumption DEF Crash, FileInv, FileTypeOK
  <1>2. WritersOK'
    BY <1>1 DEF WritersOK, WriterSteps, WriterRests
  <1>3. \A q \in Writers : w'[q].pc = "idle"
    BY <1>1 DEF WriterRests
  <1>4. OneHolds' /\ OpenOK' /\ ListOK'
    BY <1>3 DEF OneHolds, Holds, OpenOK, WriterAt, ListOK
  <1>5. FileTypeOK' /\ (Whole => Whole')
    BY <1>1 DEF FileInv, FileTypeOK, Whole
  <1> QED
    BY <1>1, <1>2, <1>4, <1>5 DEF FileInv

LEMMA FileStepHolds ==
    ASSUME FileInv, [FileNext]_fileVars PROVE FileInv'
  <1>1. CASE UNCHANGED fileVars
    BY <1>1 DEF fileVars, FileInv, FileTypeOK, WritersOK, OneHolds, Holds, OpenOK, WriterAt, ListOK, Whole
  <1>2. ASSUME NEW k \in Writers, Load(k) PROVE FileInv'
    BY <1>2, LoadHolds
  <1>3. ASSUME NEW k \in Writers, Create(k) PROVE FileInv'
    BY <1>3, CreateHolds
  <1>4. ASSUME NEW k \in Writers, Write(k) PROVE FileInv'
    BY <1>4, WriteHolds
  <1>5. ASSUME NEW k \in Writers, WriteFails(k) PROVE FileInv'
    BY <1>5, WriteFailsHolds
  <1>6. ASSUME NEW k \in Writers, Rename(k) PROVE FileInv'
    BY <1>6, RenameHolds
  <1>7. CASE Crash
    BY <1>7, CrashHolds
  <1> QED
    BY <1>1, <1>2, <1>3, <1>4, <1>5, <1>6, <1>7 DEF FileNext

\* Until two saves have the one .part open, profiles.json is never seen half written, at
\* whatever step of write_json_indent2 the program is killed or the disk full.
THEOREM WholeAlways == FileSpec => []NeverHalf
  <1>1. FileInv /\ [FileNext]_fileVars => FileInv'
    BY FileStepHolds
  <1>2. FileInv => NeverHalf
    BY DEF FileInv, NeverHalf
  <1> QED
    BY FileInitHolds, <1>1, <1>2, PTL DEF FileSpec

\* Its files stay in their domains, and profiles.json and its .part are two files.
THEOREM FilesCorrect == FileSpec => []FileTypeOK
  <1>1. FileInv /\ [FileNext]_fileVars => FileInv'
    BY FileStepHolds
  <1>2. FileInv => FileTypeOK
    BY DEF FileInv
  <1> QED
    BY FileInitHolds, <1>1, <1>2, PTL DEF FileSpec

\* Until a save meets another in the .part, or replaces what another has loaded, what it
\* puts in place keeps every profile but its own as it was.
THEOREM RestKept == FileSpec => KeepsRest
  <1> DEFINE RestStays ==
        \A k \in Writers :
            met = {} /\ WriterAt(k, "rename") /\ json' # json
            => \A i \in Ids \ {w[k].id} : i \in content[json] <=> i \in content'[json']
  <1>1. FileInv /\ [FileNext]_fileVars => FileInv'
    BY FileStepHolds
  <1>2. ASSUME FileInv, [FileNext]_fileVars PROVE [RestStays]_fileVars
    <2>1. SUFFICES ASSUME NEW k \in Writers, met = {}, WriterAt(k, "rename"), json' # json
                   PROVE \A i \in Ids \ {w[k].id} : i \in content[json] <=> i \in content'[json']
      OBVIOUS
    <2>2. PICK q \in Writers : Rename(q)
      BY <1>2, <2>1 DEF FileNext, fileVars, Load, Create, Write, WriteFails, Crash
    <2>3. q = k
      BY <1>2, <2>1, <2>2 DEF FileInv, OneHolds, Holds, WriterAt, Rename
    <2>4. content'[json'] = w[k].list
      BY <1>2, <2>1, <2>2, <2>3, RenamePuts
    <2> QED
      BY <1>2, <2>1, <2>4 DEF FileInv, ListOK, WriterAt
  <1> QED
    BY FileInitHolds, <1>1, <1>2, PTL DEF FileSpec, KeepsRest

-----------------------------------------------------------------------------
(* The servers: types *)

RtOK(rt) == rt \in [Profiles -> Pids \cup {NoPid}]

\* The steps of a request.
Plain   == [pc : {"claimed?", "others", "busy?", "claim", "launch", "drop"}, prof : Profiles]
Seeing  == [pc : {"move"}, prof : Profiles, pids : SUBSET Pids]
Holding == [pc : {"watch", "bind"}, prof : Profiles, pid : Pids]
Killing == [pc : {"kill"}, prof : Profiles, pid : Pids, from : {"record", "page"}]
Binding == [pc : {"bound"}, prof : Profiles, pid : Pids, rt : [Profiles -> Pids \cup {NoPid}]]
Saving  == [pc : {"forget", "dropped"}, prof : Profiles, rt : [Profiles -> Pids \cup {NoPid}]]
Ending  == [pc : {"kill all"}, pids : SUBSET Pids]
Records ==
    [pc : {"idle"}] \cup Plain \cup Seeing \cup Holding \cup Killing
    \cup Binding \cup Saving \cup Ending

Processes ==
    [kind : {"none"}] \cup [kind : {"other"}, ports : SUBSET Ports, up : {TRUE}]
    \cup [kind : {"server"}, prof : Profiles, ports : SUBSET Ports, up : BOOLEAN]

Bounds == [ops : [Clients -> SUBSET {"start", "stop", "stop all", "status"}],
           profiles : SUBSET Profiles, pages : [Profiles -> Ports],
           ends : Nat, others : Nat, restarts : Nat, dropped : BOOLEAN, reused : SUBSET Pids]

DataOK ==
    /\ proc \in [Pids -> Processes] /\ http \in [Profiles -> Ports]
    /\ RtOK(runtime)
    /\ snap = NoSnap \/ snap \subseteq Pids
    /\ claims \subseteq Ports

StateOK ==
    /\ DataOK
    /\ lock \in BOOLEAN /\ c \in [Clients -> Records] /\ left \in Bounds

\* One start at a time.
LockOK ==
    /\ lock => \E k \in Clients : Starting(k)
    /\ \A k \in Clients : Starting(k) => lock
    /\ \A j, k \in Clients : Starting(j) /\ Starting(k) => j = k

TInv == StateOK /\ LockOK

-----------------------------------------------------------------------------
(* What a request carries *)

Carries(k) ==
    /\ c[k].pc \in {"claimed?", "others", "busy?", "claim", "launch", "drop"} =>
        c[k] \in Plain /\ c[k].prof \in Profiles
    /\ c[k].pc = "move" => c[k] \in Seeing /\ c[k].prof \in Profiles /\ c[k].pids \subseteq Pids
    /\ c[k].pc \in {"watch", "bind"} =>
        c[k] \in Holding /\ c[k].prof \in Profiles /\ c[k].pid \in Pids
    /\ c[k].pc = "kill" =>
        c[k] \in Killing /\ c[k].prof \in Profiles /\ c[k].pid \in Pids
    /\ c[k].pc = "bound" =>
        c[k] \in Binding /\ c[k].prof \in Profiles /\ c[k].pid \in Pids /\ RtOK(c[k].rt)
    /\ c[k].pc \in {"forget", "dropped"} =>
        c[k] \in Saving /\ c[k].prof \in Profiles /\ RtOK(c[k].rt)
    /\ c[k].pc = "kill all" => c[k] \in Ending /\ c[k].pids \subseteq Pids
    /\ c[k].pc \in {"idle", "claimed?", "others", "busy?", "claim", "launch", "drop", "move", "watch",
                    "bind", "kill", "bound", "forget", "dropped", "kill all"}

LEMMA Carried ==
    ASSUME StateOK, NEW k \in Clients PROVE Carries(k)
  <1>1. c[k] \in Records
    BY DEF StateOK
  <1>2. CASE c[k] \in [pc : {"idle"}]
    BY <1>2 DEF Carries
  <1>3. CASE c[k] \in Plain
    BY <1>3 DEF Plain, Carries
  <1>4. CASE c[k] \in Seeing
    BY <1>4 DEF Seeing, Carries
  <1>5. CASE c[k] \in Holding
    BY <1>5 DEF Holding, Carries
  <1>6. CASE c[k] \in Binding
    BY <1>6 DEF Binding, Carries, RtOK
  <1>9. CASE c[k] \in Killing
    BY <1>9 DEF Killing, Carries
  <1>7. CASE c[k] \in Saving
    BY <1>7 DEF Saving, Carries, RtOK
  <1>8. CASE c[k] \in Ending
    BY <1>8 DEF Ending, Carries
  <1> QED
    BY <1>1, <1>2, <1>3, <1>4, <1>5, <1>6, <1>7, <1>8, <1>9 DEF Records

-----------------------------------------------------------------------------
(* Types *)

LEMMA InitTyped == Init => TInv
  <1> SUFFICES ASSUME Init PROVE TInv
    OBVIOUS
  <1>1. StateOK
    <2>1. proc \in [Pids -> Processes]
      BY DEF Init, Gone, Processes
    <2>2. c \in [Clients -> Records]
      BY DEF Init, Resting, Records
    <2>3. left \in Bounds
      <3>1. left \in [ops : [Clients -> SUBSET {"start", "stop", "stop all", "status"}],
                      profiles : SUBSET Profiles, pages : [Profiles -> Ports],
                      ends : Nat, others : Nat, restarts : Nat, dropped : {FALSE}, reused : {{}}]
        BY ConstantsAssumption DEF Init
      <3> QED
        BY <3>1 DEF Bounds
    <2>4. http \in [Profiles -> Ports]
      BY <2>3 DEF Init, Bounds
    <2> QED
      BY <2>1, <2>2, <2>3, <2>4 DEF Init, StateOK, DataOK, RtOK
  <1>2. LockOK
    BY DEF Init, LockOK, Starting, Resting
  <1> QED
    BY <1>1, <1>2 DEF TInv

\* The pages a scene begins with, and its history.
SameHistory == left'.pages = left.pages /\ left'.dropped = left.dropped /\ left'.reused = left.reused

\* A request goes on: the rest of the requests stay.
Moves(k, step) ==
    /\ c' = [c EXCEPT ![k] = step]
    /\ left' \in Bounds

LEMMA Moved ==
    ASSUME StateOK, NEW k \in Clients, NEW step, Moves(k, step), step \in Records
    PROVE /\ c' \in [Clients -> Records] /\ c'[k] = step
          /\ \A j \in Clients : j # k => c'[j] = c[j]
  BY DEF StateOK, Moves

LEMMA Spent ==
    ASSUME StateOK, Spend("ends") \/ Spend("others")
    PROVE  left' \in Bounds /\ SameHistory
  <1>1. left \in Bounds
    BY DEF StateOK
  <1>2. \A n \in Nat : n > 0 => n - 1 \in Nat
    OBVIOUS
  <1>3. CASE Spend("ends")
    <2>1. left' = [left EXCEPT !.ends = left.ends - 1] /\ left.ends - 1 \in Nat
      BY <1>1, <1>2, <1>3 DEF Spend, Bounds
    <2> QED
      BY <1>1, <2>1 DEF Bounds, SameHistory
  <1>4. CASE Spend("others")
    <2>1. left' = [left EXCEPT !.others = left.others - 1] /\ left.others - 1 \in Nat
      BY <1>1, <1>2, <1>4 DEF Spend, Bounds
    <2> QED
      BY <1>1, <2>1 DEF Bounds, SameHistory
  <1> QED
    BY <1>3, <1>4

\* What a step does to the scene's history: it only grows.
LEMMA Remembered ==
    ASSUME StateOK, NEW d \in BOOLEAN, left' = [left EXCEPT !.dropped = d]
    PROVE  left' \in Bounds /\ left'.pages = left.pages /\ left'.reused = left.reused /\ left'.dropped = d
  BY DEF StateOK, Bounds

StartPcs == {"claimed?", "others", "move", "busy?", "claim", "launch", "watch", "bind", "bound"}

\* The lock, after a step that leaves it, takes it or gives it back.
LEMMA LockKept ==
    ASSUME TInv, NEW k \in Clients, NEW step \in Records, Moves(k, step),
           \/ lock' = lock /\ (step.pc \in StartPcs <=> Starting(k))
           \/ lock' = TRUE /\ ~lock /\ step.pc \in StartPcs
           \/ lock' = FALSE /\ Starting(k) /\ step.pc \notin StartPcs
    PROVE LockOK'
  <1>1. /\ c'[k] = step /\ \A j \in Clients : j # k => c'[j] = c[j]
    BY Moved DEF TInv, Moves
  <1>2. /\ \A j \in Clients : j # k => (Starting(j)' <=> Starting(j))
        /\ Starting(k)' <=> step.pc \in StartPcs
    BY <1>1 DEF Starting, StartPcs
  <1>6. CASE lock' = lock /\ (step.pc \in StartPcs <=> Starting(k))
    <2>1. \A j \in Clients : Starting(j)' <=> Starting(j)
      BY <1>2, <1>6
    <2> QED
      BY <1>6, <2>1 DEF TInv, LockOK
  <1>7. CASE lock' = TRUE /\ ~lock /\ step.pc \in StartPcs
    <2>1. \A j \in Clients : Starting(j)' <=> j = k
      BY <1>2, <1>7 DEF TInv, LockOK
    <2> QED
      BY <1>7, <2>1 DEF LockOK
  <1>8. CASE lock' = FALSE /\ Starting(k) /\ step.pc \notin StartPcs
    <2>1. \A j \in Clients : ~Starting(j)'
      BY <1>2, <1>8 DEF TInv, LockOK
    <2> QED
      BY <1>8, <2>1 DEF LockOK
  <1> QED
    BY <1>6, <1>7, <1>8

LEMMA LiveTyped ==
    ASSUME StateOK PROVE Live \subseteq Pids /\ Servers \subseteq Pids
  BY DEF StateOK, DataOK, Live, Servers

LEMMA StepTyped ==
    ASSUME TInv, NEW k \in Clients, NEW step \in Records, Moves(k, step), DataOK',
           \/ lock' = lock /\ (step.pc \in StartPcs <=> Starting(k))
           \/ lock' = TRUE /\ ~lock /\ step.pc \in StartPcs
           \/ lock' = FALSE /\ Starting(k) /\ step.pc \notin StartPcs
    PROVE TInv'
  <1>1. LockOK'
    BY LockKept
  <1>2. c' \in [Clients -> Records] /\ left' \in Bounds
    BY Moved DEF TInv, Moves
  <1>3. lock' \in BOOLEAN
    BY DEF TInv, StateOK
  <1> QED
    BY <1>1, <1>2, <1>3 DEF TInv, StateOK

LEMMA DataSame ==
    ASSUME TInv, UNCHANGED <<proc, http, runtime, snap, claims>> PROVE DataOK'
  BY DEF TInv, StateOK, DataOK, RtOK

LEMMA LeftSame ==
    ASSUME TInv, UNCHANGED left
    PROVE left' \in Bounds
  BY DEF TInv, StateOK

LEMMA ThenPlain ==
    ASSUME NEW k \in Clients, NEW pc, c[k] \in Plain, Then(k, pc)
    PROVE c' = [c EXCEPT ![k] = [pc |-> pc, prof |-> c[k].prof]]
  <1>1. [c[k] EXCEPT !.pc = pc] = [pc |-> pc, prof |-> c[k].prof]
    BY DEF Plain
  <1> QED
    BY <1>1 DEF Then, Does

LEMMA ThenBind ==
    ASSUME NEW k \in Clients, c[k] \in Holding, Then(k, "bind")
    PROVE c' = [c EXCEPT ![k] = [pc |-> "bind", prof |-> c[k].prof, pid |-> c[k].pid]]
  <1>1. [c[k] EXCEPT !.pc = "bind"] = [pc |-> "bind", prof |-> c[k].prof, pid |-> c[k].pid]
    BY DEF Holding
  <1> QED
    BY <1>1 DEF Then, Does

LEMMA RestingOK == Resting \in Records /\ Resting.pc = "idle" /\ "idle" \notin StartPcs
  BY DEF Resting, Records, StartPcs

\* A start that gives up, or is done.
LEMMA LeaveTyped ==
    ASSUME TInv, NEW k \in Clients, Starting(k), Leave(k), DataOK',
           left' \in Bounds
    PROVE TInv'
  <1>1. Moves(k, Resting) /\ lock' = FALSE
    BY DEF Leave, Does, Moves, TInv, LockOK, Starting
  <1> QED
    BY <1>1, RestingOK, StepTyped

LEMMA AskStartTyped ==
    ASSUME TInv, NEW k \in Clients, AskStart(k) PROVE TInv'
  <1>1. PICK p \in left.profiles : Does(k, [pc |-> "claimed?", prof |-> p])
    BY DEF AskStart
  <1> DEFINE step == [pc |-> "claimed?", prof |-> p]
  <1>2. /\ lock' = TRUE /\ ~lock
        /\ UNCHANGED <<proc, http, runtime, snap, claims, left>>
    BY DEF AskStart, Asks
  <1>3. step \in Records /\ step.pc = "claimed?"
    BY DEF TInv, StateOK, Bounds, Records, Plain
  <1>4. Moves(k, step) /\ DataOK'
    BY <1>1, <1>2, DataSame, LeftSame DEF Moves, Does
  <1> HIDE DEF step
  <1> QED
    BY <1>2, <1>3, <1>4, StepTyped DEF StartPcs

LEMMA ClaimedTyped ==
    ASSUME TInv, NEW k \in Clients, Claimed(k) PROVE TInv'
  <1>1. /\ c[k].pc = "claimed?" /\ Starting(k)
        /\ UNCHANGED <<proc, http, runtime, snap, claims, left>>
    BY DEF Claimed, At, Starting, TInv, LockOK
  <1>2. c[k] \in Plain /\ c[k].prof \in Profiles /\ DataOK'
    BY <1>1, Carried, DataSame DEF Carries, TInv
  <1>3. CASE Leave(k)
    BY <1>1, <1>2, <1>3, LeaveTyped, LeftSame
  <1>4. CASE Then(k, "others") /\ UNCHANGED lock
    <2> DEFINE step == [pc |-> "others", prof |-> c[k].prof]
    <2>1. Moves(k, step) /\ lock' = lock
      BY <1>1, <1>2, <1>4, ThenPlain, LeftSame DEF Moves
    <2>2. step \in Records /\ step.pc = "others"
      BY <1>2 DEF Records, Plain
    <2> HIDE DEF step
    <2> QED
      BY <1>1, <1>2, <2>1, <2>2, StepTyped DEF StartPcs
  <1> QED
    BY <1>3, <1>4 DEF Claimed

LEMMA OthersTyped ==
    ASSUME TInv, NEW k \in Clients, Others(k) PROVE TInv'
  <1>1. /\ c[k].pc = "others" /\ Starting(k)
        /\ snap' = Live /\ UNCHANGED <<proc, http, runtime, claims, left>>
    BY DEF Others, See, At, Starting, TInv, LockOK
  <1>2. c[k] \in Plain /\ c[k].prof \in Profiles
    BY <1>1, Carried DEF Carries, TInv
  <1>3. DataOK'
    BY <1>1, LiveTyped DEF TInv, StateOK, DataOK, RtOK
  <1>4. CASE Leave(k)
    BY <1>1, <1>3, <1>4, LeaveTyped, LeftSame
  <1>5. CASE Does(k, [pc |-> "move", prof |-> c[k].prof, pids |-> Live]) /\ UNCHANGED lock
    <2> DEFINE step == [pc |-> "move", prof |-> c[k].prof, pids |-> Live]
    <2>1. Moves(k, step) /\ lock' = lock
      BY <1>1, <1>5, LeftSame DEF Moves, Does
    <2>2. step \in Records /\ step.pc = "move"
      BY <1>2, LiveTyped DEF Records, Seeing, TInv
    <2> HIDE DEF step
    <2> QED
      BY <1>1, <1>3, <2>1, <2>2, StepTyped DEF StartPcs
  <1> QED
    BY <1>4, <1>5 DEF Others

LEMMA MoveTyped ==
    ASSUME TInv, NEW k \in Clients, Move(k) PROVE TInv'
  <1>1. /\ c[k].pc = "move" /\ Starting(k)
        /\ UNCHANGED <<proc, runtime, snap, lock, claims>>
    BY DEF Move, At, Starting
  <1>2. c[k].prof \in Profiles
    BY <1>1, Carried DEF Carries, TInv
  <1>3. \/ UNCHANGED <<http, left>>
        \/ \E q \in Above :
            /\ http' = [http EXCEPT ![c[k].prof] = q]
            /\ left' = [left EXCEPT !.dropped = left.dropped \/ q \in claims]
    BY DEF Move, Spare
  <1>4. DataOK'
    BY <1>1, <1>2, <1>3, ConstantsAssumption DEF TInv, StateOK, DataOK, RtOK
  <1>5. left' \in Bounds
    BY <1>3 DEF TInv, StateOK, Bounds
  <1> DEFINE step == [pc |-> "busy?", prof |-> c[k].prof]
  <1>6. Moves(k, step)
    BY <1>5 DEF Moves, Move, Does
  <1>7. step \in Records /\ step.pc = "busy?"
    BY <1>2 DEF Records, Plain
  <1> HIDE DEF step
  <1> QED
    BY <1>1, <1>4, <1>6, <1>7, StepTyped DEF StartPcs

LEMMA PortBusyTyped ==
    ASSUME TInv, NEW k \in Clients, PortBusy(k) PROVE TInv'
  <1>1. /\ c[k].pc = "busy?" /\ Starting(k)
        /\ UNCHANGED <<proc, http, runtime, snap, claims, left>>
    BY DEF PortBusy, At, Starting, TInv, LockOK
  <1>2. c[k] \in Plain /\ c[k].prof \in Profiles /\ DataOK'
    BY <1>1, Carried, DataSame DEF Carries, TInv
  <1>3. CASE Leave(k)
    BY <1>1, <1>2, <1>3, LeaveTyped, LeftSame
  <1>4. CASE Then(k, "claim") /\ UNCHANGED lock
    <2> DEFINE step == [pc |-> "claim", prof |-> c[k].prof]
    <2>1. Moves(k, step) /\ lock' = lock
      BY <1>1, <1>2, <1>4, ThenPlain, LeftSame DEF Moves
    <2>2. step \in Records /\ step.pc = "claim"
      BY <1>2 DEF Records, Plain
    <2> HIDE DEF step
    <2> QED
      BY <1>1, <1>2, <2>1, <2>2, StepTyped DEF StartPcs
  <1> QED
    BY <1>3, <1>4 DEF PortBusy

LEMMA PortsTyped ==
    ASSUME TInv, NEW p \in Profiles PROVE PortsOf(p) \subseteq Ports
  BY ConstantsAssumption DEF PortsOf, TInv, StateOK, DataOK

LEMMA ClaimTyped ==
    ASSUME TInv, NEW k \in Clients, Claim(k) PROVE TInv'
  <1>1. /\ c[k].pc = "claim" /\ Starting(k)
        /\ claims' = claims \cup PortsOf(c[k].prof)
        /\ UNCHANGED <<proc, http, runtime, snap, lock, left>>
    BY DEF Claim, At, Starting, TInv, LockOK
  <1>2. c[k] \in Plain /\ c[k].prof \in Profiles
    BY <1>1, Carried DEF Carries, TInv
  <1>3. DataOK'
    BY <1>1, <1>2, PortsTyped DEF TInv, StateOK, DataOK, RtOK
  <1> DEFINE step == [pc |-> "launch", prof |-> c[k].prof]
  <1>4. Moves(k, step)
    BY <1>1, <1>2, ThenPlain, LeftSame DEF Moves, Claim
  <1>5. step \in Records /\ step.pc = "launch"
    BY <1>2 DEF Records, Plain
  <1> HIDE DEF step
  <1> QED
    BY <1>1, <1>3, <1>4, <1>5, StepTyped DEF StartPcs

LEMMA NewPidFree ==
    ASSUME NEW n \in NewPids PROVE n \in Pids /\ ~Alive(n)
  BY DEF NewPids, Free

\* A pid that was known and is given again is remembered.
LEMMA GivenAgain ==
    ASSUME StateOK, NEW n \in Pids
    PROVE  left.reused \cup Known(n) \in SUBSET Pids
  BY DEF StateOK, Bounds, Known

LEMMA ServerTyped ==
    ASSUME NEW p \in Profiles, NEW q \in SUBSET Ports PROVE Server(p, q) \in Processes
  BY DEF Server, Processes

LEMMA LaunchTyped ==
    ASSUME TInv, NEW k \in Clients, Launch(k) PROVE TInv'
  <1>1. /\ c[k].pc = "launch" /\ Starting(k)
        /\ UNCHANGED <<http, runtime, snap, lock, claims>>
    BY DEF Launch, At, Starting
  <1>2. PICK n \in NewPids :
            /\ proc' = [proc EXCEPT ![n] = Server(c[k].prof, PortsOf(c[k].prof))]
            /\ Does(k, [pc |-> "watch", prof |-> c[k].prof, pid |-> n])
            /\ left' = [left EXCEPT !.reused = left.reused \cup Known(n)]
    BY DEF Launch
  <1>3. c[k].prof \in Profiles /\ n \in Pids
    BY <1>1, Carried, NewPidFree DEF Carries, TInv
  <1>4. Server(c[k].prof, PortsOf(c[k].prof)) \in Processes
    BY <1>3, PortsTyped, ServerTyped
  <1>5. DataOK'
    BY <1>1, <1>2, <1>4 DEF TInv, StateOK, DataOK, RtOK
  <1>6. left' \in Bounds
    <2>1. left.reused \cup Known(n) \in SUBSET Pids
      BY <1>3, GivenAgain DEF TInv
    <2> QED
      BY <1>2, <2>1 DEF TInv, StateOK, Bounds
  <1> DEFINE step == [pc |-> "watch", prof |-> c[k].prof, pid |-> n]
  <1>7. Moves(k, step)
    BY <1>2, <1>6 DEF Moves, Does
  <1>8. step \in Records /\ step.pc = "watch"
    BY <1>3 DEF Records, Holding
  <1> HIDE DEF step
  <1> QED
    BY <1>1, <1>5, <1>7, <1>8, StepTyped DEF StartPcs

LEMMA LaunchFailsTyped ==
    ASSUME TInv, NEW k \in Clients, LaunchFails(k) PROVE TInv'
  <1>1. /\ Starting(k) /\ Leave(k) /\ Spend("ends")
        /\ claims' = claims \ PortsOf(c[k].prof) /\ UNCHANGED <<proc, http, runtime, snap>>
    BY DEF LaunchFails, At, Starting
  <1>2. DataOK'
    BY <1>1 DEF TInv, StateOK, DataOK, RtOK
  <1> QED
    BY <1>1, <1>2, Spent, LeaveTyped DEF TInv

LEMMA WatchTyped ==
    ASSUME TInv, NEW k \in Clients, Watch(k) PROVE TInv'
  <1>1. /\ c[k].pc = "watch" /\ Starting(k)
        /\ UNCHANGED <<proc, http, runtime, snap, left>>
    BY DEF Watch, At, Starting, TInv, LockOK
  <1>2. c[k] \in Holding /\ c[k].prof \in Profiles /\ c[k].pid \in Pids
    BY <1>1, Carried DEF Carries, TInv
  <1>3. claims' = claims \ PortsOf(c[k].prof) \/ claims' = claims
    BY DEF Watch
  <1>4. DataOK'
    BY <1>1, <1>3 DEF TInv, StateOK, DataOK, RtOK
  <1>5. CASE Leave(k)
    BY <1>1, <1>4, <1>5, LeaveTyped, LeftSame
  <1>6. CASE Then(k, "bind") /\ UNCHANGED lock
    <2> DEFINE step == [pc |-> "bind", prof |-> c[k].prof, pid |-> c[k].pid]
    <2>1. Moves(k, step) /\ lock' = lock
      BY <1>1, <1>2, <1>6, ThenBind, LeftSame DEF Moves
    <2>2. step \in Records /\ step.pc = "bind"
      BY <1>2 DEF Records, Holding
    <2> HIDE DEF step
    <2> QED
      BY <1>1, <1>4, <2>1, <2>2, StepTyped DEF StartPcs
  <1> QED
    BY <1>5, <1>6 DEF Watch

LEMMA BindTyped ==
    ASSUME TInv, NEW k \in Clients, Bind(k) PROVE TInv'
  <1>1. /\ c[k].pc = "bind" /\ Starting(k)
        /\ UNCHANGED <<proc, http, runtime, snap, lock, claims, left>>
    BY DEF Bind, At, Starting, TInv, LockOK
  <1>2. c[k].prof \in Profiles /\ c[k].pid \in Pids /\ RtOK(runtime) /\ DataOK'
    BY <1>1, Carried, DataSame DEF Carries, TInv, StateOK, DataOK
  <1> DEFINE step == [pc |-> "bound", prof |-> c[k].prof, pid |-> c[k].pid, rt |-> runtime]
  <1>3. Moves(k, step)
    BY <1>1, LeftSame DEF Moves, Bind, Does
  <1>4. step \in Records /\ step.pc = "bound"
    BY <1>2 DEF Records, Binding, RtOK
  <1> HIDE DEF step
  <1> QED
    BY <1>1, <1>2, <1>3, <1>4, StepTyped DEF StartPcs

LEMMA BoundTyped ==
    ASSUME TInv, NEW k \in Clients, Bound(k) PROVE TInv'
  <1>1. /\ c[k].pc = "bound" /\ Starting(k) /\ Leave(k)
        /\ runtime' = [c[k].rt EXCEPT ![c[k].prof] = c[k].pid]
        /\ UNCHANGED <<proc, http, snap, claims, left>>
    BY DEF Bound, At, Starting
  <1>2. c[k].prof \in Profiles /\ c[k].pid \in Pids /\ RtOK(c[k].rt)
    BY <1>1, Carried DEF Carries, TInv
  <1>3. RtOK(runtime')
    BY <1>1, <1>2 DEF RtOK
  <1>4. DataOK'
    BY <1>1, <1>3 DEF TInv, StateOK, DataOK, RtOK
  <1> QED
    BY <1>1, <1>4, LeaveTyped, LeftSame

\* A request that holds no lock.
LEMMA FreeTyped ==
    ASSUME TInv, NEW k \in Clients, ~Starting(k), NEW step \in Records,
           Does(k, step), step.pc \notin StartPcs,
           UNCHANGED lock, left' \in Bounds, DataOK'
    PROVE TInv'
  <1>1. Moves(k, step)
    BY DEF Moves, Does
  <1> QED
    BY <1>1, StepTyped

LEMMA AskStopTyped ==
    ASSUME TInv, NEW k \in Clients, AskStop(k) PROVE TInv'
  <1>1. /\ c[k].pc = "idle" /\ ~Starting(k)
        /\ UNCHANGED <<proc, http, runtime, lock, claims, left>>
    BY DEF AskStop, Asks, Starting
  <1>2. PICK p \in left.profiles :
            IF runtime[p] # NoPid /\ Alive(runtime[p])
            THEN /\ Does(k, [pc |-> "kill", prof |-> p, pid |-> runtime[p], from |-> "record"])
                 /\ UNCHANGED snap
            ELSE /\ See
                 /\ IF OnPort(http[p]) = {} THEN UNCHANGED c
                    ELSE \E n \in OnPort(http[p]) :
                            Does(k, [pc |-> "kill", prof |-> p, pid |-> n, from |-> "page"])
    BY DEF AskStop
  <1>3. p \in Profiles
    BY DEF TInv, StateOK, Bounds
  <1>4. DataOK'
    BY <1>1, <1>2, LiveTyped DEF TInv, StateOK, DataOK, RtOK, See
  <1>5. ASSUME NEW n \in Pids, NEW from \in {"record", "page"},
               Does(k, [pc |-> "kill", prof |-> p, pid |-> n, from |-> from])
        PROVE TInv'
    <2> DEFINE step == [pc |-> "kill", prof |-> p, pid |-> n, from |-> from]
    <2>1. step \in Records /\ step.pc = "kill"
      BY <1>3 DEF Records, Killing
    <2>2. Does(k, step)
      BY <1>5
    <2> HIDE DEF step
    <2> QED
      BY <1>1, <1>4, <2>1, <2>2, FreeTyped, LeftSame DEF StartPcs
  <1>6. CASE UNCHANGED c
    BY <1>1, <1>4, <1>6 DEF TInv, StateOK, LockOK, Starting
  <1>7. runtime[p] # NoPid => runtime[p] \in Pids
    BY <1>3 DEF TInv, StateOK, DataOK, RtOK
  <1>8. OnPort(http[p]) \subseteq Pids
    BY DEF OnPort, Listeners
  <1> QED
    BY <1>2, <1>5, <1>6, <1>7, <1>8

LEMMA GoneTyped == Gone \in Processes
  BY DEF Gone, Processes

LEMMA KillTyped ==
    ASSUME TInv, NEW k \in Clients, Kill(k) PROVE TInv'
  <1>1. /\ c[k].pc = "kill" /\ ~Starting(k)
        /\ proc' = [proc EXCEPT ![c[k].pid] = Gone] /\ snap' = NoSnap
        /\ UNCHANGED <<http, runtime, lock, claims, left>>
    BY DEF Kill, At, Starting, TInv, LockOK
  <1>2. c[k].prof \in Profiles /\ RtOK(runtime)
    BY <1>1, Carried DEF Carries, TInv, StateOK, DataOK
  <1>3. DataOK'
    BY <1>1, GoneTyped DEF TInv, StateOK, DataOK, RtOK
  <1> DEFINE step == [pc |-> "forget", prof |-> c[k].prof, rt |-> runtime]
  <1>4. step \in Records /\ step.pc = "forget"
    BY <1>2 DEF Records, Saving, RtOK
  <1>5. Does(k, step)
    BY DEF Kill
  <1> HIDE DEF step
  <1> QED
    BY <1>1, <1>3, <1>4, <1>5, FreeTyped, LeftSame DEF StartPcs

LEMMA KillDeniedTyped ==
    ASSUME TInv, NEW k \in Clients, KillDenied(k) PROVE TInv'
  <1>1. /\ c[k].pc = "kill" /\ ~Starting(k)
        /\ Spend("ends") /\ snap' = NoSnap /\ Does(k, Resting)
        /\ UNCHANGED <<proc, http, runtime, lock, claims>>
    BY DEF KillDenied, At, Starting, TInv, LockOK
  <1>2. DataOK'
    BY <1>1 DEF TInv, StateOK, DataOK, RtOK
  <1>3. Moves(k, Resting)
    BY <1>1, Spent DEF Moves, Does, TInv
  <1> QED
    BY <1>1, <1>2, <1>3, RestingOK, StepTyped

LEMMA WithoutOK ==
    ASSUME NEW rt, NEW p, RtOK(rt) PROVE RtOK(Without(rt, p))
  BY DEF RtOK, Without

LEMMA DroppedBool ==
    ASSUME StateOK, NEW ports, NEW servers PROVE DroppedToo(ports, servers) \in BOOLEAN
  BY DEF DroppedToo, StateOK, Bounds

LEMMA ForgetTyped ==
    ASSUME TInv, NEW k \in Clients, Forget(k) PROVE TInv'
  <1>1. /\ c[k].pc = "forget" /\ ~Starting(k)
        /\ runtime' = Without(c[k].rt, c[k].prof) /\ claims' = claims \ PortsOf(c[k].prof)
        /\ left' = [left EXCEPT !.dropped = DroppedToo(PortsOf(c[k].prof), Servers)]
        /\ Does(k, Resting) /\ UNCHANGED <<proc, http, snap, lock>>
    BY DEF Forget, At, Starting
  <1>2. RtOK(runtime')
    BY <1>1, Carried, WithoutOK DEF Carries, TInv
  <1>3. DataOK'
    BY <1>1, <1>2 DEF TInv, StateOK, DataOK, RtOK
  <1>4. left' \in Bounds
    BY <1>1, DroppedBool, Remembered DEF TInv
  <1> QED
    BY <1>1, <1>3, <1>4, RestingOK, FreeTyped

LEMMA AskStopAllTyped ==
    ASSUME TInv, NEW k \in Clients, AskStopAll(k) PROVE TInv'
  <1>1. /\ c[k].pc = "idle" /\ ~Starting(k) /\ snap' = Live
        /\ UNCHANGED <<proc, http, runtime, lock, claims, left>>
    BY DEF AskStopAll, Asks, Starting, See
  <1>2. DataOK'
    BY <1>1, LiveTyped DEF TInv, StateOK, DataOK, RtOK
  <1> DEFINE step == [pc |-> "kill all", pids |-> Live]
  <1>3. step \in Records /\ step.pc = "kill all"
    BY LiveTyped DEF Records, Ending, TInv
  <1>4. Does(k, step)
    BY DEF AskStopAll
  <1> HIDE DEF step
  <1> QED
    BY <1>1, <1>2, <1>3, <1>4, FreeTyped, LeftSame DEF StartPcs

LEMMA KillAllTyped ==
    ASSUME TInv, NEW k \in Clients, KillAll(k) PROVE TInv'
  <1>1. /\ c[k].pc = "kill all" /\ ~Starting(k)
        /\ snap' \in {snap, NoSnap} /\ claims' = {}
        /\ Does(k, Resting) /\ UNCHANGED <<http, runtime, lock>>
    BY DEF KillAll, At, Starting
  <1>2. PICK stuck \in SUBSET c[k].pids :
            /\ stuck # {} => left.ends > 0
            /\ proc' = [n \in Pids |-> IF n \in c[k].pids \ stuck THEN Gone ELSE proc[n]]
            /\ left' = [left EXCEPT !.ends = IF stuck = {} THEN left.ends ELSE left.ends - 1,
                                    !.dropped = DroppedToo(claims, Servers \ (c[k].pids \ stuck))]
    BY DEF KillAll
  <1>3. DataOK'
    BY <1>1, <1>2, GoneTyped DEF TInv, StateOK, DataOK, RtOK
  <1>4. left' \in Bounds
    <2>1. DroppedToo(claims, Servers \ (c[k].pids \ stuck)) \in BOOLEAN
      BY DroppedBool DEF TInv
    <2>2. \A n \in Nat : n > 0 => n - 1 \in Nat
      OBVIOUS
    <2>3. (IF stuck = {} THEN left.ends ELSE left.ends - 1) \in Nat
      BY <1>2, <2>2 DEF TInv, StateOK, Bounds
    <2> QED
      BY <1>2, <2>1, <2>3 DEF TInv, StateOK, Bounds
  <1> QED
    BY <1>1, <1>3, <1>4, RestingOK, FreeTyped

LEMMA AskStatusTyped ==
    ASSUME TInv, NEW k \in Clients, AskStatus(k) PROVE TInv'
  <1>1. /\ c[k].pc = "idle" /\ ~Starting(k) /\ snap' = Live
        /\ UNCHANGED <<proc, http, runtime, lock, claims, left>>
    BY DEF AskStatus, Asks, Starting, See
  <1>2. PICK p \in left.profiles : Does(k, [pc |-> "drop", prof |-> p])
    BY DEF AskStatus
  <1>3. DataOK'
    BY <1>1, LiveTyped DEF TInv, StateOK, DataOK, RtOK
  <1> DEFINE step == [pc |-> "drop", prof |-> p]
  <1>4. step \in Records /\ step.pc = "drop"
    BY DEF Records, Plain, TInv, StateOK, Bounds
  <1>5. Does(k, step)
    BY <1>2
  <1> HIDE DEF step
  <1> QED
    BY <1>1, <1>3, <1>4, <1>5, FreeTyped, LeftSame DEF StartPcs

LEMMA DropTyped ==
    ASSUME TInv, NEW k \in Clients, Drop(k) PROVE TInv'
  <1>1. /\ c[k].pc = "drop" /\ ~Starting(k)
        /\ UNCHANGED <<proc, http, runtime, snap, lock, claims, left>>
    BY DEF Drop, At, Starting, TInv, LockOK
  <1>2. c[k].prof \in Profiles /\ RtOK(runtime) /\ DataOK'
    BY <1>1, Carried, DataSame DEF Carries, TInv, StateOK, DataOK
  <1> DEFINE step == [pc |-> "dropped", prof |-> c[k].prof, rt |-> runtime]
  <1>3. step \in Records /\ step.pc = "dropped"
    BY <1>2 DEF Records, Saving, RtOK
  <1>4. Does(k, step)
    BY DEF Drop
  <1> HIDE DEF step
  <1> QED
    BY <1>1, <1>2, <1>3, <1>4, FreeTyped, LeftSame DEF StartPcs

LEMMA DroppedTyped ==
    ASSUME TInv, NEW k \in Clients, Dropped(k) PROVE TInv'
  <1>1. /\ c[k].pc = "dropped" /\ ~Starting(k)
        /\ runtime' = Without(c[k].rt, c[k].prof)
        /\ Does(k, Resting) /\ UNCHANGED <<proc, http, snap, lock, claims, left>>
    BY DEF Dropped, At, Starting, TInv, LockOK
  <1>2. RtOK(runtime')
    BY <1>1, Carried, WithoutOK DEF Carries, TInv
  <1>3. DataOK'
    BY <1>1, <1>2 DEF TInv, StateOK, DataOK, RtOK
  <1> QED
    BY <1>1, <1>3, RestingOK, FreeTyped, LeftSame

\* A step of no request.
LEMMA RestTyped ==
    ASSUME TInv, UNCHANGED <<lock, c>>, DataOK',
           left' \in Bounds
    PROVE TInv'
  BY DEF TInv, StateOK, LockOK, Starting

LEMMA ListenTyped ==
    ASSUME TInv, NEW n \in Pids, Listen(n) PROVE TInv'
  <1>1. proc[n] \in Processes /\ proc[n].kind = "server"
    BY DEF Listen, Servers, TInv, StateOK, DataOK
  <1>2. [proc[n] EXCEPT !.up = TRUE] \in Processes
    BY <1>1 DEF Processes
  <1>3. proc' = [proc EXCEPT ![n] = [proc[n] EXCEPT !.up = TRUE]]
    BY DEF Listen
  <1>4. DataOK'
    BY <1>2, <1>3 DEF Listen, TInv, StateOK, DataOK, RtOK
  <1> QED
    BY <1>4, RestTyped, LeftSame DEF Listen

LEMMA EndsTyped ==
    ASSUME TInv, NEW n \in Pids, Ends(n) PROVE TInv'
  <1>1. DataOK'
    BY GoneTyped DEF Ends, TInv, StateOK, DataOK, RtOK
  <1>2. Spend("ends") /\ UNCHANGED <<lock, c>>
    BY DEF Ends
  <1> QED
    BY <1>1, <1>2, RestTyped, Spent DEF TInv

LEMMA OtherStartsTyped ==
    ASSUME TInv, OtherStarts PROVE TInv'
  <1>1. PICK q \in Ports, n \in NewPids :
            /\ proc' = [proc EXCEPT ![n] = Other(q)]
            /\ left' = [left EXCEPT !.others = left.others - 1, !.reused = left.reused \cup Known(n)]
    BY DEF OtherStarts
  <1>2. Other(q) \in Processes
    BY DEF Other, Processes
  <1>3. DataOK'
    BY <1>1, <1>2 DEF OtherStarts, TInv, StateOK, DataOK, RtOK
  <1>4. left' \in Bounds
    <2>1. left.reused \cup Known(n) \in SUBSET Pids
      BY GivenAgain, NewPidFree DEF TInv
    <2>2. \A m \in Nat : m > 0 => m - 1 \in Nat
      OBVIOUS
    <2>3. left.others - 1 \in Nat
      BY <2>2 DEF OtherStarts, TInv, StateOK, Bounds
    <2> QED
      BY <1>1, <2>1, <2>3 DEF TInv, StateOK, Bounds
  <1> QED
    BY <1>3, <1>4, RestTyped DEF OtherStarts

LEMMA ClockTyped ==
    ASSUME TInv, SnapExpires \/ (\E port \in Ports : ClaimExpires(port)) PROVE TInv'
  <1>1. DataOK' /\ UNCHANGED <<lock, c, left>>
    BY DEF SnapExpires, ClaimExpires, TInv, StateOK, DataOK, RtOK
  <1> QED
    BY <1>1, RestTyped, LeftSame

LEMMA RestartTyped ==
    ASSUME TInv, Restart PROVE TInv'
  <1>1. left \in Bounds /\ left.restarts \in Nat
    BY DEF TInv, StateOK, Bounds
  <1>2. \A n \in Nat : n > 0 => n - 1 \in Nat
    OBVIOUS
  <1>3. left.restarts - 1 \in Nat
    BY <1>1, <1>2 DEF Restart
  <1>4. DroppedToo(claims, Servers) \in BOOLEAN
    BY DroppedBool DEF TInv
  <1>5. left' \in Bounds
    BY <1>1, <1>3, <1>4 DEF Restart, Bounds
  <1>6. c' = [k \in Clients |-> Resting] /\ lock' = FALSE
        /\ snap' = NoSnap /\ claims' = {} /\ UNCHANGED <<proc, http, runtime>>
    BY DEF Restart
  <1>7. DataOK'
    BY <1>6 DEF TInv, StateOK, DataOK, RtOK
  <1>8. StateOK'
    BY <1>5, <1>6, <1>7, RestingOK DEF StateOK
  <1>9. LockOK'
    BY <1>6 DEF LockOK, Starting, Resting
  <1> QED
    BY <1>8, <1>9 DEF TInv

LEMMA StepKeepsTypes ==
    ASSUME TInv, [Next]_vars PROVE TInv'
  <1>1. CASE UNCHANGED vars
    BY <1>1, DataSame, LeftSame, RestTyped DEF vars
  <1>2. ASSUME NEW k \in Clients, Ask(k) PROVE TInv'
    BY <1>2, AskStartTyped, AskStopTyped, AskStopAllTyped, AskStatusTyped DEF Ask
  <1>3. ASSUME NEW k \in Clients, Step(k) PROVE TInv'
    <2>1. CASE Claimed(k) \/ Others(k) \/ Move(k) \/ PortBusy(k) \/ Claim(k) \/ Launch(k)
      BY <2>1, ClaimedTyped, OthersTyped, MoveTyped, PortBusyTyped, ClaimTyped, LaunchTyped
    <2>2. CASE Watch(k) \/ Bind(k) \/ Bound(k)
      BY <2>2, WatchTyped, BindTyped, BoundTyped
    <2>3. CASE Kill(k) \/ Forget(k) \/ KillAll(k) \/ Drop(k) \/ Dropped(k)
      BY <2>3, KillTyped, ForgetTyped, KillAllTyped, DropTyped, DroppedTyped
    <2> QED
      BY <1>3, <2>1, <2>2, <2>3 DEF Step
  <1>4. ASSUME NEW k \in Clients, LaunchFails(k) \/ KillDenied(k) PROVE TInv'
    BY <1>4, LaunchFailsTyped, KillDeniedTyped
  <1>5. ASSUME NEW n \in Pids, Listen(n) \/ Ends(n) PROVE TInv'
    BY <1>5, ListenTyped, EndsTyped
  <1>6. CASE SnapExpires \/ \E q \in Ports : ClaimExpires(q)
    BY <1>6, ClockTyped
  <1>7. CASE OtherStarts \/ Restart
    BY <1>7, OtherStartsTyped, RestartTyped
  <1> QED
    BY <1>1, <1>2, <1>3, <1>4, <1>5, <1>6, <1>7 DEF Next

\* One start holds the lock.
LEMMA OneStart ==
    ASSUME LockOK PROVE Cardinality({k \in Clients : Starting(k)}) = IF lock THEN 1 ELSE 0
  <1>1. CASE lock
    <2>1. PICK k \in Clients : Starting(k)
      BY <1>1 DEF LockOK
    <2>2. {j \in Clients : Starting(j)} = {k}
      BY <2>1 DEF LockOK
    <2> QED
      BY <1>1, <2>2, FS_Singleton
  <1>2. CASE ~lock
    <2>1. {j \in Clients : Starting(j)} = {}
      BY <1>2 DEF LockOK
    <2> QED
      BY <1>2, <2>1, FS_EmptySet
  <1> QED
    BY <1>1, <1>2

LEMMA TInvGives == TInv => TypeOK
  BY OneStart DEF TInv, StateOK, DataOK, RtOK, TypeOK

\* Every variable stays in its domain, and START_LOCK is held by the one start there is -
\* with any number of profiles, ports, processes and requests, whatever they ask for.
THEOREM ServersTyped == Spec => []TypeOK
  <1>1. TInv /\ [Next]_vars => TInv'
    BY StepKeepsTypes
  <1> QED
    BY InitTyped, <1>1, TInvGives, PTL DEF Spec

-----------------------------------------------------------------------------
(* Ports *)

Foreign(n, p) == proc[n].ports \cap PortsOf(p) = {}

\* The servers have no port in common, and those that do not listen yet have theirs claimed.
Disjoint == \A n, m \in Servers : n # m => proc[n].ports \cap proc[m].ports = {}
Covered  == \A n \in Servers : ~proc[n].up => proc[n].ports \subseteq claims

\* How far a start has come.
StartOK(k) ==
    /\ c[k].pc \in {"others", "move", "busy?"} => PortsOf(c[k].prof) \cap claims = {}
    /\ c[k].pc \in {"claim", "launch"} => \A n \in Servers : Foreign(n, c[k].prof)
    /\ c[k].pc = "launch" => PortsOf(c[k].prof) \subseteq claims
    /\ c[k].pc = "watch" => \A n \in Servers : n # c[k].pid => Foreign(n, c[k].prof)

Clear == Disjoint /\ Covered /\ \A k \in Clients : StartOK(k)
Ordered == left.dropped \/ Clear

LEMMA InitOrdered ==
    ASSUME Init PROVE Clear
  <1>1. Servers = {} /\ \A k \in Clients : c[k].pc = "idle"
    BY DEF Init, Servers, Gone, Resting
  <1> QED
    BY <1>1 DEF Clear, Disjoint, Covered, StartOK

LEMMA ServerFacts ==
    ASSUME TInv, NEW n \in Servers
    PROVE /\ n \in Pids /\ Alive(n) /\ proc[n] \in Processes /\ proc[n].prof \in Profiles
          /\ proc[n].up \in BOOLEAN
  <1>1. n \in Pids /\ proc[n].kind = "server" /\ proc[n] \in Processes
    BY DEF Servers, TInv, StateOK, DataOK
  <1>2. proc[n].prof \in Profiles /\ proc[n].up \in BOOLEAN
    BY <1>1 DEF Processes
  <1> QED
    BY <1>1, <1>2 DEF Alive

\* No server is new, and each there is has its profile and ports, and listens if it did.
Fewer ==
    \A n \in Servers' :
        /\ n \in Servers /\ proc'[n].prof = proc[n].prof /\ proc'[n].ports = proc[n].ports
        /\ proc[n].up => proc'[n].up

LEMMA SameServers ==
    ASSUME UNCHANGED proc PROVE Fewer /\ Servers' = Servers
  BY DEF Fewer, Servers

\* No port's claim is dropped that a server or a start still needs.
Spared(q) ==
    /\ \A n \in Servers' : ~proc'[n].up => q \notin proc'[n].ports
    /\ \A k \in Clients : c'[k].pc = "launch" => q \notin PortsOf(c'[k].prof)

Busying == {"others", "move", "busy?", "claim", "launch", "watch"}

\* A step that starts no server and takes no start on.
LEMMA QuietStep ==
    ASSUME TInv, Clear, Fewer, UNCHANGED http, claims' \subseteq claims,
           \A q \in claims \ claims' : Spared(q),
           \A k \in Clients : c'[k] = c[k] \/ c'[k].pc \notin Busying
    PROVE Clear'
  <1>1. Disjoint'
    BY DEF Clear, Disjoint, Fewer
  <1>2. ASSUME NEW n \in Servers', ~proc'[n].up PROVE proc'[n].ports \subseteq claims'
    <2>1. n \in Servers /\ ~proc[n].up /\ proc'[n].ports = proc[n].ports
      BY <1>2 DEF Fewer
    <2>2. proc[n].ports \subseteq claims
      BY <2>1 DEF Clear, Covered
    <2> QED
      BY <1>2, <2>1, <2>2 DEF Spared
  <1>3. ASSUME NEW k \in Clients PROVE StartOK(k)'
    <2>1. CASE c'[k].pc \notin Busying
      BY <2>1 DEF StartOK, Busying
    <2>2. CASE c'[k] = c[k]
      <3>1. StartOK(k) /\ PortsOf(c[k].prof)' = PortsOf(c[k].prof)
        BY <2>2 DEF Clear, PortsOf
      <3>2. \A n \in Servers' : n \in Servers /\ (Foreign(n, c[k].prof) => Foreign(n, c[k].prof)')
        BY <2>2 DEF Fewer, Foreign, PortsOf
      <3>3. c[k].pc = "launch" => \A q \in claims \ claims' : q \notin PortsOf(c[k].prof)
        BY <2>2 DEF Spared
      <3>4. (c[k].pc \in {"others", "move", "busy?"} => PortsOf(c[k].prof) \cap claims = {})'
        BY <2>2, <3>1 DEF StartOK
      <3>5. (c[k].pc \in {"claim", "launch"} => \A n \in Servers : Foreign(n, c[k].prof))'
        BY <2>2, <3>1, <3>2 DEF StartOK
      <3>6. (c[k].pc = "launch" => PortsOf(c[k].prof) \subseteq claims)'
        BY <2>2, <3>1, <3>3 DEF StartOK
      <3>7. (c[k].pc = "watch" => \A n \in Servers : n # c[k].pid => Foreign(n, c[k].prof))'
        BY <2>2, <3>1, <3>2 DEF StartOK
      <3> QED
        BY <3>4, <3>5, <3>6, <3>7 DEF StartOK
    <2> QED
      BY <2>1, <2>2
  <1> QED
    BY <1>1, <1>2, <1>3 DEF Clear, Covered

\* A request takes its next step, the others theirs later.
LEMMA OneMoves ==
    ASSUME TInv, NEW k \in Clients, NEW step, Does(k, step)
    PROVE c'[k] = step /\ \A j \in Clients : j # k => c'[j] = c[j]
  BY DEF TInv, StateOK, Does

LEMMA ThenMoves ==
    ASSUME TInv, NEW k \in Clients, NEW pc, Then(k, pc), c[k] \in Plain
    PROVE  /\ c'[k].pc = pc /\ c'[k].prof = c[k].prof
           /\ \A j \in Clients : j # k => c'[j] = c[j]
  <1>1. Does(k, [pc |-> pc, prof |-> c[k].prof])
    BY ThenPlain DEF Does
  <1>2. c'[k] = [pc |-> pc, prof |-> c[k].prof] /\ \A j \in Clients : j # k => c'[j] = c[j]
    BY <1>1, OneMoves
  <1> QED
    BY <1>2

\* A start moves on: it is the only one there is.
LEMMA OnlyStart ==
    ASSUME TInv, NEW k \in Clients, Starting(k), \A j \in Clients : j # k => c'[j] = c[j]
    PROVE \A j \in Clients : j # k => c'[j].pc \notin Busying /\ ~Starting(j) /\ StartOK(j)'
  <1>1. \A j \in Clients : j # k => ~Starting(j)
    BY DEF TInv, LockOK
  <1> QED
    BY <1>1 DEF Starting, StartOK, Busying

\* A step of a request that is none of a start, or ends one.
LEMMA QuietRequest ==
    ASSUME TInv, Clear, UNCHANGED <<http, claims>>, Fewer, NEW k \in Clients, NEW step, Does(k, step),
           step.pc \notin Busying
    PROVE Clear'
  <1>1. \A j \in Clients : c'[j] = c[j] \/ c'[j].pc \notin Busying
    BY OneMoves
  <1> QED
    BY <1>1, QuietStep

LEMMA LeaveClear ==
    ASSUME TInv, Clear, UNCHANGED <<http, claims, proc>>, NEW k \in Clients, Leave(k)
    PROVE Clear'
  BY SameServers, QuietRequest DEF Leave, Resting, Busying

LEMMA ClaimedClear ==
    ASSUME TInv, Clear, NEW k \in Clients, Claimed(k) PROVE Clear'
  <1>1. /\ c[k].pc = "claimed?" /\ Starting(k)
        /\ UNCHANGED <<proc, http, runtime, snap, claims, left>>
    BY DEF Claimed, At, Starting
  <1>2. c[k] \in Plain
    BY <1>1, Carried DEF Carries, TInv
  <1>3. CASE Leave(k)
    BY <1>1, <1>3, LeaveClear
  <1>4. CASE PortsOf(c[k].prof) \cap claims = {} /\ Then(k, "others")
    <2>1. /\ c'[k].pc = "others" /\ c'[k].prof = c[k].prof
          /\ \A j \in Clients : j # k => c'[j] = c[j]
      BY <1>2, <1>4, ThenMoves
    <2>2. StartOK(k)'
      BY <1>1, <1>4, <2>1 DEF StartOK, PortsOf
    <2>3. \A j \in Clients : StartOK(j)'
      BY <1>1, <2>1, <2>2, OnlyStart
    <2>4. Disjoint' /\ Covered'
      BY <1>1 DEF Clear, Disjoint, Covered, Servers
    <2> QED
      BY <2>3, <2>4 DEF Clear
  <1> QED
    BY <1>3, <1>4 DEF Claimed

LEMMA OthersClear ==
    ASSUME TInv, Clear, NEW k \in Clients, Others(k) PROVE Clear'
  <1>1. /\ c[k].pc = "others" /\ Starting(k)
        /\ UNCHANGED <<proc, http, runtime, claims, left>>
    BY DEF Others, At, Starting
  <1>2. CASE Leave(k)
    BY <1>1, <1>2, LeaveClear
  <1>3. CASE Does(k, [pc |-> "move", prof |-> c[k].prof, pids |-> Live])
    <2>1. /\ c'[k].pc = "move" /\ c'[k].prof = c[k].prof
          /\ \A j \in Clients : j # k => c'[j] = c[j]
      BY <1>3, OneMoves
    <2>2. StartOK(k)'
      BY <1>1, <2>1 DEF Clear, StartOK, PortsOf
    <2>3. \A j \in Clients : StartOK(j)'
      BY <1>1, <2>1, <2>2, OnlyStart
    <2>4. Disjoint' /\ Covered'
      BY <1>1 DEF Clear, Disjoint, Covered, Servers
    <2> QED
      BY <2>3, <2>4 DEF Clear
  <1> QED
    BY <1>2, <1>3 DEF Others

\* A page is moved to a port nobody has claimed, or the scene remembers it.
LEMMA MoveClear ==
    ASSUME TInv, Clear, NEW k \in Clients, Move(k), ~left'.dropped PROVE Clear'
  <1>1. /\ c[k].pc = "move" /\ Starting(k) /\ UNCHANGED <<proc, claims>>
        /\ Does(k, [pc |-> "busy?", prof |-> c[k].prof])
    BY DEF Move, At, Starting
  <1>2. PICK p \in Profiles : p = c[k].prof
    BY <1>1, Carried DEF Carries, TInv
  <1>3. PortsOf(p) \cap claims = {}
    BY <1>1, <1>2 DEF Clear, StartOK
  <1>4. http' = http \/ \E q \in Ports \ claims : http' = [http EXCEPT ![p] = q]
    <2>1. ASSUME NEW q \in Spare(p), left' = [left EXCEPT !.dropped = left.dropped \/ q \in claims]
          PROVE q \in Ports \ claims
      BY <2>1, ConstantsAssumption DEF Spare, TInv, StateOK, Bounds
    <2> QED
      BY <1>2, <2>1 DEF Move
  <1>5. PortsOf(p)' \cap claims' = {}
    BY <1>1, <1>3, <1>4 DEF PortsOf, TInv, StateOK, DataOK
  <1>6. /\ c'[k].pc = "busy?" /\ c'[k].prof = p
        /\ \A j \in Clients : j # k => c'[j] = c[j]
    BY <1>1, <1>2, OneMoves
  <1>7. StartOK(k)'
    BY <1>5, <1>6 DEF StartOK
  <1>8. \A j \in Clients : StartOK(j)'
    BY <1>1, <1>6, <1>7, OnlyStart
  <1>9. Disjoint' /\ Covered'
    BY <1>1 DEF Clear, Disjoint, Covered, Servers
  <1> QED
    BY <1>8, <1>9 DEF Clear

\* Nothing listens on the ports and nobody has claimed them: no server has one.
LEMMA PortBusyClear ==
    ASSUME TInv, Clear, NEW k \in Clients, PortBusy(k) PROVE Clear'
  <1>1. /\ c[k].pc = "busy?" /\ Starting(k)
        /\ UNCHANGED <<proc, http, runtime, snap, claims, left>>
    BY DEF PortBusy, At, Starting
  <1>2. c[k] \in Plain /\ PortsOf(c[k].prof) \cap claims = {}
    BY <1>1, Carried DEF Carries, TInv, Clear, StartOK
  <1>3. CASE Leave(k)
    BY <1>1, <1>3, LeaveClear
  <1>4. CASE (~ \E q \in PortsOf(c[k].prof) : Busy(q)) /\ Then(k, "claim")
    <2>1. /\ c'[k].pc = "claim" /\ c'[k].prof = c[k].prof
          /\ \A j \in Clients : j # k => c'[j] = c[j]
      BY <1>2, <1>4, ThenMoves
    <2>2. ASSUME NEW n \in Servers PROVE Foreign(n, c[k].prof)
      <3>1. CASE proc[n].up
        <4>1. \A q \in proc[n].ports : n \in Listeners(q)
          BY <3>1, ServerFacts DEF Listeners
        <4> QED
          BY <1>4, <4>1 DEF Busy, Foreign
      <3>2. CASE ~proc[n].up
        BY <1>2, <3>2 DEF Clear, Covered, Foreign
      <3> QED
        BY <3>1, <3>2
    <2>3. StartOK(k)'
      BY <1>1, <2>1, <2>2 DEF StartOK, Servers, Foreign, PortsOf
    <2>4. \A j \in Clients : StartOK(j)'
      BY <1>1, <2>1, <2>3, OnlyStart
    <2>5. Disjoint' /\ Covered'
      BY <1>1 DEF Clear, Disjoint, Covered, Servers
    <2> QED
      BY <2>4, <2>5 DEF Clear
  <1> QED
    BY <1>3, <1>4 DEF PortBusy

LEMMA ClaimClear ==
    ASSUME TInv, Clear, NEW k \in Clients, Claim(k) PROVE Clear'
  <1>1. /\ c[k].pc = "claim" /\ Starting(k) /\ Then(k, "launch")
        /\ claims' = claims \cup PortsOf(c[k].prof)
        /\ UNCHANGED <<proc, http, runtime, snap, lock, left>>
    BY DEF Claim, At, Starting
  <1>2. c[k] \in Plain /\ \A n \in Servers : Foreign(n, c[k].prof)
    BY <1>1, Carried DEF Carries, TInv, Clear, StartOK
  <1>3. /\ c'[k].pc = "launch" /\ c'[k].prof = c[k].prof
        /\ \A j \in Clients : j # k => c'[j] = c[j]
    BY <1>1, <1>2, ThenMoves
  <1>4. StartOK(k)'
    BY <1>1, <1>2, <1>3 DEF StartOK, Servers, Foreign, PortsOf
  <1>5. \A j \in Clients : StartOK(j)'
    BY <1>1, <1>3, <1>4, OnlyStart
  <1>6. Disjoint' /\ Covered'
    BY <1>1 DEF Clear, Disjoint, Covered, Servers
  <1> QED
    BY <1>5, <1>6 DEF Clear

\* What a launch makes: one more server, under a pid that nobody had.
LEMMA LaunchMakes ==
    ASSUME TInv, NEW k \in Clients, Launch(k)
    PROVE \E n \in Pids :
            /\ ~Alive(n) /\ n \notin Servers /\ Servers' = Servers \cup {n}
            /\ proc'[n] = Server(c[k].prof, PortsOf(c[k].prof))
            /\ \A m \in Pids : m # n => proc'[m] = proc[m]
            /\ c'[k] = [pc |-> "watch", prof |-> c[k].prof, pid |-> n]
            /\ \A j \in Clients : j # k => c'[j] = c[j]
            /\ left' = [left EXCEPT !.reused = left.reused \cup Known(n)]
  <1>1. PICK n \in NewPids :
            /\ proc' = [proc EXCEPT ![n] = Server(c[k].prof, PortsOf(c[k].prof))]
            /\ Does(k, [pc |-> "watch", prof |-> c[k].prof, pid |-> n])
            /\ left' = [left EXCEPT !.reused = left.reused \cup Known(n)]
    BY DEF Launch
  <1>2. n \in Pids /\ ~Alive(n) /\ n \notin Servers
    BY NewPidFree DEF Servers, Alive
  <1>3. /\ proc'[n] = Server(c[k].prof, PortsOf(c[k].prof))
        /\ \A m \in Pids : m # n => proc'[m] = proc[m]
    BY <1>1, <1>2 DEF TInv, StateOK, DataOK
  <1>4. Servers' = Servers \cup {n}
    BY <1>2, <1>3 DEF Servers, Server
  <1>5. /\ c'[k] = [pc |-> "watch", prof |-> c[k].prof, pid |-> n]
        /\ \A j \in Clients : j # k => c'[j] = c[j]
    BY <1>1, OneMoves
  <1> QED
    BY <1>1, <1>2, <1>3, <1>4, <1>5

LEMMA LaunchClear ==
    ASSUME TInv, Clear, NEW k \in Clients, Launch(k) PROVE Clear'
  <1>1. /\ c[k].pc = "launch" /\ Starting(k) /\ UNCHANGED <<http, claims>>
    BY DEF Launch, At, Starting
  <1>2. PICK n \in Pids :
            /\ n \notin Servers /\ Servers' = Servers \cup {n}
            /\ proc'[n] = Server(c[k].prof, PortsOf(c[k].prof))
            /\ \A m \in Pids : m # n => proc'[m] = proc[m]
            /\ c'[k] = [pc |-> "watch", prof |-> c[k].prof, pid |-> n]
            /\ \A j \in Clients : j # k => c'[j] = c[j]
    BY LaunchMakes
  <1>3. proc'[n].ports = PortsOf(c[k].prof)
    BY <1>2 DEF Server
  <1>4. \A m \in Servers : m # n /\ proc'[m] = proc[m]
    BY <1>2 DEF Servers
  <1>5. (\A m \in Servers : Foreign(m, c[k].prof)) /\ PortsOf(c[k].prof) \subseteq claims
    BY <1>1 DEF Clear, StartOK
  <1>6. Disjoint'
    BY <1>2, <1>3, <1>4, <1>5 DEF Clear, Disjoint, Foreign
  <1>7. Covered'
    BY <1>1, <1>2, <1>3, <1>4, <1>5 DEF Clear, Covered
  <1>8. c'[k].pc = "watch" /\ c'[k].prof = c[k].prof /\ c'[k].pid = n
    BY <1>2
  <1>9. StartOK(k)'
    BY <1>1, <1>2, <1>4, <1>5, <1>8 DEF StartOK, Foreign, PortsOf
  <1>10. \A j \in Clients : StartOK(j)'
    BY <1>1, <1>2, <1>9, OnlyStart
  <1> QED
    BY <1>6, <1>7, <1>10 DEF Clear

\* A start that gives its claims back: no server but its own, which is dead, has the ports.
LEMMA ReleaseClear ==
    ASSUME TInv, Clear, NEW k \in Clients, Starting(k), Leave(k),
           UNCHANGED <<proc, http>>, claims' = claims \ PortsOf(c[k].prof),
           \A n \in Servers : Foreign(n, c[k].prof)
    PROVE Clear'
  <1>1. c'[k].pc = "idle" /\ \A j \in Clients : j # k => c'[j] = c[j]
    BY OneMoves DEF Leave, Resting
  <1>2. \A j \in Clients : c'[j].pc \notin Busying
    BY <1>1, OnlyStart DEF Busying
  <1>3. \A q \in claims \ claims' : Spared(q)
    BY <1>2, SameServers DEF Spared, Foreign, Busying
  <1> QED
    BY <1>2, <1>3, SameServers, QuietStep

LEMMA LaunchFailsClear ==
    ASSUME TInv, Clear, NEW k \in Clients, LaunchFails(k) PROVE Clear'
  <1>1. /\ c[k].pc = "launch" /\ Starting(k) /\ Leave(k)
        /\ claims' = claims \ PortsOf(c[k].prof) /\ UNCHANGED <<proc, http>>
    BY DEF LaunchFails, At, Starting
  <1>2. \A n \in Servers : Foreign(n, c[k].prof)
    BY <1>1 DEF Clear, StartOK
  <1> QED
    BY <1>1, <1>2, ReleaseClear

LEMMA WatchClear ==
    ASSUME TInv, Clear, NEW k \in Clients, Watch(k) PROVE Clear'
  <1>1. c[k].pc = "watch" /\ Starting(k) /\ UNCHANGED <<proc, http>>
    BY DEF Watch, At, Starting
  <1>2. c[k] \in Holding
    BY <1>1, Carried DEF Carries, TInv
  <1>3. CASE ~Alive(c[k].pid) /\ claims' = claims \ PortsOf(c[k].prof) /\ Leave(k)
    <2>1. \A n \in Servers : Foreign(n, c[k].prof)
      BY <1>1, <1>3, ServerFacts DEF Clear, StartOK
    <2> QED
      BY <1>1, <1>3, <2>1, ReleaseClear
  <1>4. CASE Then(k, "bind") /\ UNCHANGED claims
    <2>1. Does(k, [pc |-> "bind", prof |-> c[k].prof, pid |-> c[k].pid])
      BY <1>2, <1>4, ThenBind DEF Does
    <2> QED
      BY <1>1, <1>4, <2>1, SameServers, QuietRequest DEF Busying
  <1> QED
    BY <1>3, <1>4 DEF Watch

\* Claims dropped by one who looks at nobody: the scene remembers it where one was needed.
LEMMA DropClear ==
    ASSUME TInv, Clear, Fewer, UNCHANGED http, claims' \subseteq claims,
           NEW ports, claims \ claims' \subseteq ports,
           ~DroppedToo(ports, Servers'),
           \A n \in Servers' : proc'[n] = proc[n],
           \A k \in Clients : c'[k] = c[k] \/ c'[k].pc \notin Busying
    PROVE Clear'
  <1>1. ASSUME NEW q \in claims \ claims' PROVE Spared(q)
    <2>1. ~Needed(q, Servers')
      BY <1>1 DEF DroppedToo
    <2>2. \A k \in Clients : c'[k].pc = "launch" => q \notin PortsOf(c'[k].prof)
      BY <2>1 DEF Needed, At, Busying
    <2> QED
      BY <2>1, <2>2 DEF Needed, Spared
  <1> QED
    BY <1>1, QuietStep

LEMMA ForgetClear ==
    ASSUME TInv, Clear, NEW k \in Clients, Forget(k), ~left'.dropped PROVE Clear'
  <1>1. /\ claims' = claims \ PortsOf(c[k].prof) /\ UNCHANGED <<proc, http>>
        /\ left' = [left EXCEPT !.dropped = DroppedToo(PortsOf(c[k].prof), Servers)]
        /\ Does(k, Resting)
    BY DEF Forget
  <1>2. ~DroppedToo(PortsOf(c[k].prof), Servers')
    BY <1>1, SameServers, DroppedBool, Remembered DEF TInv
  <1>3. \A j \in Clients : c'[j] = c[j] \/ c'[j].pc \notin Busying
    BY <1>1, OneMoves DEF Resting, Busying
  <1> QED
    BY <1>1, <1>2, <1>3, SameServers, DropClear

LEMMA KillAllClear ==
    ASSUME TInv, Clear, NEW k \in Clients, KillAll(k), ~left'.dropped PROVE Clear'
  <1>1. claims' = {} /\ UNCHANGED http /\ Does(k, Resting)
    BY DEF KillAll
  <1>2. PICK stuck \in SUBSET c[k].pids :
            /\ proc' = [n \in Pids |-> IF n \in c[k].pids \ stuck THEN Gone ELSE proc[n]]
            /\ left' = [left EXCEPT !.ends = IF stuck = {} THEN left.ends ELSE left.ends - 1,
                                    !.dropped = DroppedToo(claims, Servers \ (c[k].pids \ stuck))]
    BY DEF KillAll
  <1> DEFINE killed == c[k].pids \ stuck
  <1>3. Servers' = Servers \ killed /\ \A n \in Servers' : proc'[n] = proc[n]
    BY <1>2 DEF Servers, Gone
  <1>4. Fewer
    BY <1>3 DEF Fewer
  <1>5. ~DroppedToo(claims, Servers')
    <2>1. left'.dropped = DroppedToo(claims, Servers \ killed)
      BY <1>2 DEF TInv, StateOK, Bounds
    <2> QED
      BY <1>3, <2>1
  <1>6. \A j \in Clients : c'[j] = c[j] \/ c'[j].pc \notin Busying
    BY <1>1, OneMoves DEF Resting, Busying
  <1> QED
    BY <1>1, <1>3, <1>4, <1>5, <1>6, DropClear

LEMMA RestartClear ==
    ASSUME TInv, Clear, Restart, ~left'.dropped PROVE Clear'
  <1>1. /\ claims' = {} /\ UNCHANGED <<proc, http>> /\ c' = [k \in Clients |-> Resting]
        /\ left' = [left EXCEPT !.restarts = left.restarts - 1, !.dropped = DroppedToo(claims, Servers)]
    BY DEF Restart
  <1>2. ~DroppedToo(claims, Servers')
    <2>1. left'.dropped = DroppedToo(claims, Servers)
      BY <1>1 DEF TInv, StateOK, Bounds
    <2> QED
      BY <1>1, <2>1, SameServers
  <1>3. \A j \in Clients : c'[j].pc \notin Busying
    BY <1>1 DEF Resting, Busying
  <1> QED
    BY <1>1, <1>2, <1>3, SameServers, DropClear

\* STARTUP_GRACE: what was launched on the port listens by now, or is dead.
LEMMA ClaimExpiresClear ==
    ASSUME TInv, Clear, NEW port \in Ports, ClaimExpires(port) PROVE Clear'
  <1>1. claims' = claims \ {port} /\ UNCHANGED <<proc, http, c>>
    BY DEF ClaimExpires
  <1>2. \A q \in claims \ claims' : Spared(q)
    BY <1>1, SameServers DEF Spared, ClaimExpires, At, PortsOf
  <1> QED
    BY <1>1, <1>2, SameServers, QuietStep

LEMMA ListenFewer ==
    ASSUME TInv, NEW n \in Pids, Listen(n)
    PROVE  /\ Fewer /\ Servers' = Servers
           /\ \A m \in Pids : (Alive(m)' <=> Alive(m)) /\ (m \in Servers => proc'[m].prof = proc[m].prof)
  <1>1. n \in Servers /\ proc[n] \in Processes /\ proc[n].kind = "server"
    BY DEF Listen, Servers, TInv, StateOK, DataOK
  <1>2. proc' = [proc EXCEPT ![n] = [proc[n] EXCEPT !.up = TRUE]]
    BY DEF Listen
  <1>3. /\ [proc[n] EXCEPT !.up = TRUE].kind = "server"
        /\ [proc[n] EXCEPT !.up = TRUE].prof = proc[n].prof
        /\ [proc[n] EXCEPT !.up = TRUE].ports = proc[n].ports
        /\ [proc[n] EXCEPT !.up = TRUE].up
    BY <1>1 DEF Processes
  <1>4. /\ proc'[n].kind = "server" /\ proc'[n].prof = proc[n].prof
        /\ proc'[n].ports = proc[n].ports /\ proc'[n].up
        /\ \A m \in Pids : m # n => proc'[m] = proc[m]
    BY <1>2, <1>3 DEF TInv, StateOK, DataOK
  <1>5. Servers' = Servers
    BY <1>1, <1>4 DEF Servers
  <1>6. Fewer
    BY <1>4, <1>5 DEF Fewer, Servers
  <1> QED
    BY <1>1, <1>4, <1>5, <1>6 DEF Alive

\* A process is gone.
LEMMA GoneFewer ==
    ASSUME TInv, NEW n \in Pids, proc' = [proc EXCEPT ![n] = Gone]
    PROVE Fewer /\ ~Alive(n)' /\ \A m \in Pids : m # n => proc'[m] = proc[m]
  <1>1. proc'[n].kind = "none" /\ \A m \in Pids : m # n => proc'[m] = proc[m]
    BY DEF Gone, TInv, StateOK, DataOK
  <1> QED
    BY <1>1 DEF Fewer, Servers, Alive

\* Another program takes a pid nobody has.
LEMMA OtherMakes ==
    ASSUME TInv, OtherStarts
    PROVE \E n \in Pids :
            /\ ~Alive(n) /\ Fewer /\ Servers' = Servers
            /\ \A m \in Pids : m # n => proc'[m] = proc[m]
            /\ left' = [left EXCEPT !.others = left.others - 1, !.reused = left.reused \cup Known(n)]
  <1>1. PICK q \in Ports, n \in NewPids :
            /\ proc' = [proc EXCEPT ![n] = Other(q)]
            /\ left' = [left EXCEPT !.others = left.others - 1, !.reused = left.reused \cup Known(n)]
    BY DEF OtherStarts
  <1>2. n \in Pids /\ ~Alive(n)
    BY NewPidFree
  <1>3. proc'[n].kind = "other" /\ \A m \in Pids : m # n => proc'[m] = proc[m]
    BY <1>1, <1>2 DEF Other, TInv, StateOK, DataOK
  <1>4. Servers' = Servers /\ \A m \in Servers : proc'[m] = proc[m]
    BY <1>2, <1>3 DEF Servers, Alive
  <1> QED
    BY <1>1, <1>2, <1>3, <1>4 DEF Fewer

LEMMA ProcessClear ==
    ASSUME TInv, Clear,
           \/ \E n \in Pids : Listen(n) \/ Ends(n)
           \/ OtherStarts
    PROVE Clear'
  <1>1. ASSUME Fewer, UNCHANGED <<http, claims, c>> PROVE Clear'
    BY <1>1, QuietStep
  <1>2. ASSUME NEW n \in Pids, Listen(n) PROVE Clear'
    BY <1>1, <1>2, ListenFewer DEF Listen
  <1>3. ASSUME NEW n \in Pids, Ends(n) PROVE Clear'
    BY <1>1, <1>3, GoneFewer DEF Ends
  <1>4. CASE OtherStarts
    BY <1>1, <1>4, OtherMakes DEF OtherStarts
  <1> QED
    BY <1>2, <1>3, <1>4

LEMMA AskClear ==
    ASSUME TInv, Clear, NEW k \in Clients, Ask(k) PROVE Clear'
  <1>1. UNCHANGED <<proc, http, claims>> /\ Fewer
    BY SameServers DEF Ask, AskStart, AskStop, AskStopAll, AskStatus
  <1>2. CASE AskStart(k)
    BY <1>1, <1>2, QuietRequest DEF AskStart, Busying
  <1>3. CASE AskStop(k)
    <2>1. CASE UNCHANGED c
      BY <1>1, <2>1, QuietStep
    <2>2. ASSUME NEW p, NEW n, NEW from, Does(k, [pc |-> "kill", prof |-> p, pid |-> n, from |-> from])
          PROVE Clear'
      BY <1>1, <2>2, QuietRequest DEF Busying
    <2> QED
      BY <1>3, <2>1, <2>2 DEF AskStop
  <1>4. CASE AskStopAll(k)
    BY <1>1, <1>4, QuietRequest DEF AskStopAll, Busying
  <1>5. CASE AskStatus(k)
    BY <1>1, <1>5, QuietRequest DEF AskStatus, Busying
  <1> QED
    BY <1>2, <1>3, <1>4, <1>5 DEF Ask

LEMMA RequestClear ==
    ASSUME TInv, Clear, NEW k \in Clients,
           Bind(k) \/ Bound(k) \/ Kill(k) \/ KillDenied(k) \/ Drop(k) \/ Dropped(k)
    PROVE Clear'
  <1>1. CASE Bind(k)
    BY <1>1, SameServers, QuietRequest DEF Bind, Busying
  <1>2. CASE Bound(k)
    BY <1>2, LeaveClear DEF Bound
  <1>3. CASE Kill(k)
    <2>1. c[k].pid \in Pids
      BY <1>3, Carried DEF Carries, TInv, Kill, At
    <2> QED
      BY <1>3, <2>1, GoneFewer, QuietRequest DEF Kill, Busying
  <1>4. CASE KillDenied(k)
    BY <1>4, SameServers, QuietRequest DEF KillDenied, Resting, Busying
  <1>5. CASE Drop(k)
    BY <1>5, SameServers, QuietRequest DEF Drop, Busying
  <1>6. CASE Dropped(k)
    BY <1>6, SameServers, QuietRequest DEF Dropped, Resting, Busying
  <1> QED
    BY <1>1, <1>2, <1>3, <1>4, <1>5, <1>6

LEMMA StepKeepsClear ==
    ASSUME TInv, Clear, ~left'.dropped, [Next]_vars PROVE Clear'
  <1>1. CASE UNCHANGED vars
    BY <1>1, SameServers, QuietStep DEF vars
  <1>2. ASSUME NEW k \in Clients, Ask(k) PROVE Clear'
    BY <1>2, AskClear
  <1>3. ASSUME NEW k \in Clients, Step(k) PROVE Clear'
    <2>1. CASE Claimed(k) \/ Others(k) \/ Move(k) \/ PortBusy(k) \/ Claim(k) \/ Launch(k)
      BY <2>1, ClaimedClear, OthersClear, MoveClear, PortBusyClear, ClaimClear, LaunchClear
    <2>2. CASE Watch(k) \/ Bind(k) \/ Bound(k)
      BY <2>2, WatchClear, RequestClear
    <2>3. CASE Kill(k) \/ Forget(k) \/ KillAll(k) \/ Drop(k) \/ Dropped(k)
      BY <2>3, RequestClear, ForgetClear, KillAllClear
    <2> QED
      BY <1>3, <2>1, <2>2, <2>3 DEF Step
  <1>4. ASSUME NEW k \in Clients, LaunchFails(k) \/ KillDenied(k) PROVE Clear'
    BY <1>4, LaunchFailsClear, RequestClear
  <1>5. CASE \/ \E n \in Pids : Listen(n) \/ Ends(n)
             \/ OtherStarts
    BY <1>5, ProcessClear
  <1>6. ASSUME NEW q \in Ports, ClaimExpires(q) PROVE Clear'
    BY <1>6, ClaimExpiresClear
  <1>7. CASE SnapExpires
    BY <1>7, SameServers, QuietStep DEF SnapExpires
  <1>8. CASE Restart
    BY <1>8, RestartClear
  <1> QED
    BY <1>1, <1>2, <1>3, <1>4, <1>5, <1>6, <1>7, <1>8 DEF Next

\* What a scene's history says stays said, and its pages stay as they were.
LEMMA HistoryGrows ==
    ASSUME TInv, [Next]_vars
    PROVE  left'.pages = left.pages /\ left.reused \subseteq left'.reused /\ (left.dropped => left'.dropped)
  <1> DEFINE Grows == left'.pages = left.pages /\ left.reused \subseteq left'.reused
                      /\ (left.dropped => left'.dropped)
  <1>1. left \in Bounds
    BY DEF TInv, StateOK
  <1>2. ASSUME SameHistory \/ UNCHANGED left PROVE Grows
    BY <1>2 DEF SameHistory
  <1>3. ASSUME NEW d \in BOOLEAN, left.dropped => d, left' = [left EXCEPT !.dropped = d] PROVE Grows
    BY <1>1, <1>3 DEF Bounds
  <1>4. ASSUME NEW k \in Clients, Move(k) PROVE Grows
    <2>1. ASSUME NEW q, left' = [left EXCEPT !.dropped = left.dropped \/ q \in claims] PROVE Grows
      BY <1>1, <2>1 DEF Bounds
    <2> QED
      BY <1>2, <1>4, <2>1 DEF Move
  <1>5. ASSUME NEW k \in Clients, Launch(k) PROVE Grows
    <2>1. PICK n \in Pids : left' = [left EXCEPT !.reused = left.reused \cup Known(n)]
      BY <1>5, LaunchMakes
    <2> QED
      BY <1>1, <2>1 DEF Bounds
  <1>6. ASSUME NEW k \in Clients, Forget(k) PROVE Grows
    <2>1. left' = [left EXCEPT !.dropped = DroppedToo(PortsOf(c[k].prof), Servers)]
      BY <1>6 DEF Forget
    <2>2. left.dropped => DroppedToo(PortsOf(c[k].prof), Servers)
      BY DEF DroppedToo
    <2> QED
      BY <1>3, <2>1, <2>2, DroppedBool DEF TInv
  <1>7. ASSUME NEW k \in Clients, KillAll(k) PROVE Grows
    <2>1. PICK stuck \in SUBSET c[k].pids :
            left' = [left EXCEPT !.ends = IF stuck = {} THEN left.ends ELSE left.ends - 1,
                                 !.dropped = DroppedToo(claims, Servers \ (c[k].pids \ stuck))]
      BY <1>7 DEF KillAll
    <2>2. left.dropped => DroppedToo(claims, Servers \ (c[k].pids \ stuck))
      BY DEF DroppedToo
    <2> QED
      BY <1>1, <2>1, <2>2 DEF Bounds
  <1>8. ASSUME Restart PROVE Grows
    <2>1. left' = [left EXCEPT !.restarts = left.restarts - 1, !.dropped = DroppedToo(claims, Servers)]
      BY <1>8 DEF Restart
    <2>2. left.dropped => DroppedToo(claims, Servers)
      BY DEF DroppedToo
    <2> QED
      BY <1>1, <2>1, <2>2 DEF Bounds
  <1>9. CASE OtherStarts
    <2>1. PICK n \in Pids :
              left' = [left EXCEPT !.others = left.others - 1, !.reused = left.reused \cup Known(n)]
      BY <1>9, OtherMakes
    <2> QED
      BY <1>1, <2>1 DEF Bounds
  <1>10. ASSUME NEW k \in Clients, Ask(k) PROVE Grows
    BY <1>2, <1>10 DEF Ask, AskStart, AskStop, AskStopAll, AskStatus
  <1>11. ASSUME NEW k \in Clients, Step(k) PROVE Grows
    <2>1. CASE Move(k) \/ Launch(k) \/ Forget(k) \/ KillAll(k)
      BY <1>4, <1>5, <1>6, <1>7, <2>1
    <2>2. CASE Claimed(k) \/ Others(k) \/ PortBusy(k) \/ Claim(k) \/ Watch(k) \/ Bind(k) \/ Bound(k)
      BY <1>2, <2>2 DEF Claimed, Others, PortBusy, Claim, Watch, Bind, Bound
    <2>3. CASE Kill(k) \/ Drop(k) \/ Dropped(k)
      BY <1>2, <2>3 DEF Kill, Drop, Dropped
    <2> QED
      BY <1>11, <2>1, <2>2, <2>3 DEF Step
  <1>12. ASSUME NEW k \in Clients, LaunchFails(k) \/ KillDenied(k) PROVE Grows
    BY <1>2, <1>12, Spent DEF LaunchFails, KillDenied, TInv
  <1>13. ASSUME NEW n \in Pids, Listen(n) \/ Ends(n) PROVE Grows
    BY <1>2, <1>13, Spent DEF Listen, Ends, TInv
  <1>14. CASE SnapExpires \/ \E q \in Ports : ClaimExpires(q)
    BY <1>2, <1>14 DEF SnapExpires, ClaimExpires
  <1>15. CASE UNCHANGED vars
    BY <1>2, <1>15 DEF vars
  <1> QED
    BY <1>8, <1>9, <1>10, <1>11, <1>12, <1>13, <1>14, <1>15 DEF Next

LEMMA StepKeepsOrdered ==
    ASSUME TInv, Ordered, [Next]_vars PROVE Ordered'
  BY StepKeepsClear, HistoryGrows DEF Ordered

\* However many requests are made at a time, of whatever kind: no two servers are ever alive
\* on one port, until a claim is dropped too early or a page is moved onto a claimed port.
THEOREM PortsUniqueAlways == Spec => []PortsUnique
  <1>1. Init => Ordered
    BY InitOrdered DEF Ordered
  <1>2. TInv /\ Ordered /\ [Next]_vars => TInv' /\ Ordered'
    BY StepKeepsTypes, StepKeepsOrdered
  <1>3. Ordered => PortsUnique
    BY DEF Ordered, Clear, Disjoint, PortsUnique
  <1> QED
    BY InitTyped, <1>1, <1>2, <1>3, PTL DEF Spec

-----------------------------------------------------------------------------
(* Stop *)

\* What is known as p's server: a pid given again since, a dead one, or p's server.
Owned(n, p) ==
    n = NoPid \/ n \in left.reused \/ ~Alive(n) \/ (n \in Servers /\ proc[n].prof = p)

Recorded == \A p \in Profiles : Owned(runtime[p], p)
SnapOwned == snap # NoSnap => \A n \in snap : n \in left.reused \/ ~Alive(n) \/ n \in Servers

\* What a request has read, and what a Stop has found.
Found(k) ==
    \/ Owned(c[k].pid, c[k].prof)
    \/ /\ c[k].pid \in Servers /\ c[k].from = "page"
       /\ Shares(c[k].prof) \/ left.dropped
RequestOK(k) ==
    /\ c[k].pc \in {"watch", "bind", "bound"} => Owned(c[k].pid, c[k].prof)
    /\ c[k].pc \in {"bound", "forget", "dropped"} => \A p \in Profiles : Owned(c[k].rt[p], p)
    /\ c[k].pc = "kill" => Found(k)

OwnInv == Recorded /\ SnapOwned /\ \A k \in Clients : RequestOK(k)

\* A snapshot lacks no server but the one that is being watched.
Watched == {c[k].pid : k \in {k \in Clients : At(k, "watch")}}
Seen ==
    /\ snap # NoSnap => Servers \subseteq snap \cup Watched
    /\ \A k \in Clients : At(k, "move") => Servers \subseteq c[k].pids

\* Two profiles with one page were given one, and a page that was moved is on a spare port.
PagesOK ==
    /\ \A p, q \in Profiles : http[p] = http[q] => left.pages[p] = left.pages[q]
    /\ \A p \in Profiles : http[p] \in Above \cup {left.pages[p]}

Match == left.dropped \/ \A n \in Servers : proc[n].ports = PortsOf(proc[n].prof)

StopInv == OwnInv /\ Seen /\ PagesOK /\ Match

LEMMA InitStops ==
    ASSUME Init, TInv PROVE StopInv
  <1>1. Servers = {} /\ \A k \in Clients : c[k].pc = "idle"
    BY DEF Init, Servers, Gone, Resting
  <1>2. OwnInv
    BY <1>1 DEF Init, OwnInv, Recorded, SnapOwned, RequestOK, Owned
  <1>3. Seen /\ Match
    BY <1>1 DEF Seen, Match, At
  <1>4. PagesOK
    BY DEF Init, PagesOK
  <1> QED
    BY <1>2, <1>3, <1>4 DEF StopInv

-----------------------------------------------------------------------------
(* What is known of a pid stays true *)

\* A pid names the process it did, or a dead one, or the scene remembers it was given again.
Steady(n) ==
    \/ n \in left'.reused
    \/ ~Alive(n)'
    \/ Alive(n) /\ (n \in Servers => n \in Servers' /\ proc'[n].prof = proc[n].prof)

History ==
    left'.pages = left.pages /\ left.reused \subseteq left'.reused /\ (left.dropped => left'.dropped)

\* The same of what a step leads to.
OwnedThen(n, p) ==
    \/ n = NoPid \/ n \in left'.reused \/ proc'[n].kind = "none"
    \/ n \in Pids /\ proc'[n].kind = "server" /\ proc'[n].prof = p

LEMMA OwnedStays ==
    ASSUME History, NEW n, NEW p, Owned(n, p), n # NoPid => Steady(n) PROVE OwnedThen(n, p)
  <1>1. CASE n = NoPid
    BY <1>1 DEF OwnedThen
  <1>2. CASE n \in left.reused
    BY <1>2 DEF OwnedThen, History
  <1>3. CASE n # NoPid /\ ~Alive(n)
    BY <1>3 DEF Owned, OwnedThen, Steady, Alive, Servers
  <1>4. CASE n # NoPid /\ n \in Servers /\ proc[n].prof = p
    BY <1>4 DEF Owned, OwnedThen, Steady, Alive, Servers
  <1> QED
    BY <1>1, <1>2, <1>3, <1>4 DEF Owned

LEMMA SteadySame ==
    ASSUME UNCHANGED proc, NEW n PROVE Steady(n)
  BY DEF Steady, Alive, Servers

\* The pids that are named.
LEMMA NamedPids ==
    ASSUME TInv
    PROVE  /\ \A p \in Profiles : runtime[p] \in Named
           /\ snap # NoSnap => snap \subseteq Named
           /\ \A k \in Clients :
                /\ c[k].pc \in {"watch", "bind", "bound", "kill"} => c[k].pid \in Named
                /\ c[k].pc \in {"bound", "forget", "dropped"} =>
                    \A p \in Profiles : c[k].rt[p] \in Named
  <1>1. \A p \in Profiles : runtime[p] \in Named
    BY DEF Named, Range, TInv, StateOK, DataOK, RtOK
  <1>2. snap # NoSnap => snap \subseteq Named
    BY DEF Named
  <1>3. ASSUME NEW k \in Clients, c[k].pc \in {"watch", "bind", "bound", "kill"}
        PROVE c[k].pid \in Named
    <2>1. "pid" \in DOMAIN c[k]
      <3>1. c[k] \in Holding \/ c[k] \in Killing \/ c[k] \in Binding
        BY <1>3, Carried DEF Carries, TInv
      <3> QED
        BY <3>1 DEF Holding, Killing, Binding
    <2> QED
      BY <2>1 DEF Named, With
  <1>4. ASSUME NEW k \in Clients, c[k].pc \in {"bound", "forget", "dropped"}, NEW p \in Profiles
        PROVE c[k].rt[p] \in Named
    <2>1. "rt" \in DOMAIN c[k]
      <3>1. c[k] \in Saving \/ c[k] \in Binding
        BY <1>4, Carried DEF Carries, TInv
      <3> QED
        BY <3>1 DEF Saving, Binding
    <2>2. DOMAIN c[k].rt = Profiles
      BY <1>4, Carried DEF Carries, TInv, RtOK
    <2>3. c[k].rt[p] \in Range(c[k].rt)
      BY <2>2 DEF Range
    <2>4. k \in With("rt")
      BY <2>1 DEF With
    <2>5. c[k].rt[p] \in UNION {Range(c[j].rt) : j \in With("rt")}
      BY <2>3, <2>4
    <2> QED
      BY <2>5 DEF Named
  <1> QED
    BY <1>1, <1>2, <1>3, <1>4

\* What the steps of a request do not carry.
LEMMA Without_pid ==
    ASSUME NEW r, "pid" \in DOMAIN r PROVE r \notin [pc : {"idle"}] /\ r \notin Plain /\ r \notin Seeing /\ r \notin Saving /\ r \notin Ending
  <1>1. r \notin [pc : {"idle"}]
    OBVIOUS
  <1>2. r \notin Plain
    BY DEF Plain
  <1>3. r \notin Seeing
    BY DEF Seeing
  <1>4. r \notin Saving
    BY DEF Saving
  <1>5. r \notin Ending
    <2>1. ASSUME r \in Ending PROVE DOMAIN r = {"pc", "pids"}
      BY <2>1 DEF Ending
    <2> QED
      BY <2>1
  <1> QED
    BY <1>1, <1>2, <1>3, <1>4, <1>5

LEMMA Without_pids ==
    ASSUME NEW r, "pids" \in DOMAIN r PROVE r \notin [pc : {"idle"}] /\ r \notin Plain /\ r \notin Holding /\ r \notin Killing /\ r \notin Binding /\ r \notin Saving
  <1>1. r \notin [pc : {"idle"}]
    OBVIOUS
  <1>2. r \notin Plain
    BY DEF Plain
  <1>3. r \notin Holding
    BY DEF Holding
  <1>4. r \notin Killing
    BY DEF Killing
  <1>5. r \notin Binding
    BY DEF Binding
  <1>6. r \notin Saving
    BY DEF Saving
  <1> QED
    BY <1>1, <1>2, <1>3, <1>4, <1>5, <1>6

LEMMA Without_rt ==
    ASSUME NEW r, "rt" \in DOMAIN r PROVE r \notin [pc : {"idle"}] /\ r \notin Plain /\ r \notin Seeing /\ r \notin Holding /\ r \notin Killing /\ r \notin Ending
  <1>1. r \notin [pc : {"idle"}]
    OBVIOUS
  <1>2. r \notin Plain
    BY DEF Plain
  <1>3. r \notin Seeing
    BY DEF Seeing
  <1>4. r \notin Holding
    BY DEF Holding
  <1>5. r \notin Killing
    BY DEF Killing
  <1>6. r \notin Ending
    <2>1. ASSUME r \in Ending PROVE DOMAIN r = {"pc", "pids"}
      BY <2>1 DEF Ending
    <2> QED
      BY <2>1
  <1> QED
    BY <1>1, <1>2, <1>3, <1>4, <1>5, <1>6

\* A named pid is a pid, or none.
LEMMA NamedKnown ==
    ASSUME TInv, NEW n \in Named PROVE n = NoPid \/ n \in Pids
  <1>1. CASE n \in Range(runtime)
    BY <1>1 DEF Range, TInv, StateOK, DataOK, RtOK
  <1>2. CASE snap # NoSnap /\ n \in snap
    BY <1>2 DEF TInv, StateOK, DataOK
  <1>3. ASSUME NEW k \in With("pid"), n = c[k].pid PROVE n \in Pids
    <2>1. k \in Clients /\ "pid" \in DOMAIN c[k] /\ c[k] \in Records
      BY <1>3 DEF With, TInv, StateOK
    <2>2. c[k] \in Holding \/ c[k] \in Killing \/ c[k] \in Binding
      <3>1. /\ c[k] \notin [pc : {"idle"}] /\ c[k] \notin Plain
            /\ c[k] \notin Seeing /\ c[k] \notin Saving /\ c[k] \notin Ending
        BY <2>1, Without_pid
      <3> QED
        BY <2>1, <3>1 DEF Records
    <2> QED
      BY <1>3, <2>2 DEF Holding, Killing, Binding
  <1>4. ASSUME NEW k \in With("pids"), n \in c[k].pids PROVE n \in Pids
    <2>1. k \in Clients /\ "pids" \in DOMAIN c[k] /\ c[k] \in Records
      BY <1>4 DEF With, TInv, StateOK
    <2>2. c[k] \in Seeing \/ c[k] \in Ending
      <3>1. /\ c[k] \notin [pc : {"idle"}] /\ c[k] \notin Plain /\ c[k] \notin Holding
            /\ c[k] \notin Killing /\ c[k] \notin Binding /\ c[k] \notin Saving
        BY <2>1, Without_pids
      <3> QED
        BY <2>1, <3>1 DEF Records
    <2> QED
      BY <1>4, <2>2 DEF Seeing, Ending
  <1>5. ASSUME NEW k \in With("rt"), n \in Range(c[k].rt) PROVE n = NoPid \/ n \in Pids
    <2>1. k \in Clients /\ "rt" \in DOMAIN c[k] /\ c[k] \in Records
      BY <1>5 DEF With, TInv, StateOK
    <2>2. c[k] \in Saving \/ c[k] \in Binding
      <3>1. /\ c[k] \notin [pc : {"idle"}] /\ c[k] \notin Plain /\ c[k] \notin Seeing
            /\ c[k] \notin Holding /\ c[k] \notin Killing /\ c[k] \notin Ending
        BY <2>1, Without_rt
      <3> QED
        BY <2>1, <3>1 DEF Records
    <2>3. c[k].rt \in [Profiles -> Pids \cup {NoPid}]
      BY <2>2 DEF Saving, Binding
    <2> QED
      BY <1>5, <2>3 DEF Range
  <1>6. \/ n \in Range(runtime) \/ (snap # NoSnap /\ n \in snap)
        \/ \E k \in With("pid") : n = c[k].pid
        \/ \E k \in With("pids") : n \in c[k].pids
        \/ \E k \in With("rt") : n \in Range(c[k].rt)
    <2>1. (n \in IF snap = NoSnap THEN {} ELSE snap) => snap # NoSnap /\ n \in snap
      OBVIOUS
    <2>2. \/ n \in Range(runtime)
          \/ n \in (IF snap = NoSnap THEN {} ELSE snap)
          \/ n \in {c[k].pid : k \in With("pid")}
          \/ n \in UNION {c[k].pids : k \in With("pids")}
          \/ n \in UNION {Range(c[k].rt) : k \in With("rt")}
      BY DEF Named
    <2>3. ASSUME n \in UNION {Range(c[k].rt) : k \in With("rt")}
          PROVE  \E k \in With("rt") : n \in Range(c[k].rt)
      BY <2>3
    <2>4. ASSUME n \in UNION {c[k].pids : k \in With("pids")}
          PROVE  \E k \in With("pids") : n \in c[k].pids
      BY <2>4
    <2>5. ASSUME n \in {c[k].pid : k \in With("pid")}
          PROVE  \E k \in With("pid") : n = c[k].pid
      BY <2>5
    <2> QED
      BY <2>1, <2>2, <2>3, <2>4, <2>5
  <1> QED
    BY <1>1, <1>2, <1>3, <1>4, <1>5, <1>6

\* What a request knows after a step.
LEMMA KnownThen ==
    ASSUME History, NEW k \in Clients,
           c'[k].pc \in {"watch", "bind", "bound"} => OwnedThen(c'[k].pid, c'[k].prof),
           c'[k].pc \in {"bound", "forget", "dropped"} => \A p \in Profiles : OwnedThen(c'[k].rt[p], p),
           c'[k].pc = "kill" =>
             \/ OwnedThen(c'[k].pid, c'[k].prof)
             \/ /\ c'[k].pid \in Servers' /\ c'[k].from = "page"
                /\ Shares(c'[k].prof) \/ left.dropped
    PROVE  RequestOK(k)'
  <1>1. \A n, p : OwnedThen(n, p) <=>
            (n = NoPid \/ n \in left'.reused \/ ~(proc'[n].kind # "none")
               \/ (n \in Servers' /\ proc'[n].prof = p))
    BY DEF OwnedThen, Servers
  <1>2. (c[k].pc \in {"watch", "bind", "bound"} => Owned(c[k].pid, c[k].prof))'
    BY <1>1 DEF Owned, Alive
  <1>3. (c[k].pc \in {"bound", "forget", "dropped"} => \A p \in Profiles : Owned(c[k].rt[p], p))'
    BY <1>1 DEF Owned, Alive
  <1>4. \A p : Shares(p) => \E q \in Profiles \ {p} :
            left'.pages[q] = left'.pages[p] \/ Tcp[q] \in Above \cup {left'.pages[p]}
    BY DEF Shares, History
  <1>5. (c[k].pc = "kill" => Found(k))'
    <2>1. CASE OwnedThen(c'[k].pid, c'[k].prof)
      BY <1>1, <2>1 DEF Found, Owned, Alive
    <2>2. CASE /\ c'[k].pid \in Servers' /\ c'[k].from = "page"
               /\ Shares(c'[k].prof) \/ left.dropped
      BY <1>4, <2>2 DEF Found, Shares, History
    <2> QED
      BY <2>1, <2>2
  <1> QED
    BY <1>2, <1>3, <1>5 DEF RequestOK

\* What one request knows.
LEMMA RequestStays ==
    ASSUME TInv, OwnInv, History, \A n \in Named : n # NoPid => Steady(n),
           NEW k \in Clients, c'[k] = c[k]
    PROVE  RequestOK(k)'
  <1>1. RequestOK(k)
    BY DEF OwnInv
  <1>2. ASSUME c[k].pc \in {"watch", "bind", "bound", "kill"}
        PROVE  Steady(c[k].pid) /\ (Owned(c[k].pid, c[k].prof) => OwnedThen(c[k].pid, c[k].prof))
    <2>1. c[k].pid \in Named /\ c[k].pid # NoPid
      BY <1>2, NamedPids, Carried, ConstantsAssumption DEF Carries, TInv
    <2> QED
      BY <2>1, OwnedStays
  <1>3. c[k].pc \in {"watch", "bind", "bound"} => OwnedThen(c[k].pid, c[k].prof)
    BY <1>1, <1>2 DEF RequestOK
  <1>4. ASSUME c[k].pc \in {"bound", "forget", "dropped"}, NEW p \in Profiles
        PROVE OwnedThen(c[k].rt[p], p)
    <2>1. Owned(c[k].rt[p], p) /\ c[k].rt[p] \in Named
      BY <1>1, <1>4, NamedPids DEF RequestOK
    <2> QED
      BY <2>1, OwnedStays
  <1>5. ASSUME c[k].pc = "kill"
        PROVE  \/ OwnedThen(c[k].pid, c[k].prof)
               \/ /\ c[k].pid \in Servers' /\ c[k].from = "page"
                  /\ Shares(c[k].prof) \/ left.dropped
    <2>1. CASE Owned(c[k].pid, c[k].prof)
      BY <1>2, <1>5, <2>1
    <2>2. CASE /\ c[k].pid \in Servers /\ c[k].from = "page"
               /\ Shares(c[k].prof) \/ left.dropped
      <3>1. OwnedThen(c[k].pid, c[k].prof) \/ c[k].pid \in Servers'
        BY <1>2, <1>5, <2>2 DEF Steady, OwnedThen, Alive, Servers
      <3> QED
        BY <2>2, <3>1
    <2> QED
      BY <1>1, <1>5, <2>1, <2>2 DEF RequestOK, Found
  <1> QED
    BY <1>3, <1>4, <1>5, KnownThen

LEMMA SnapStays ==
    ASSUME TInv, OwnInv, History, \A n \in Named : n # NoPid => Steady(n),
           \/ snap' \in {snap, NoSnap}
           \/ snap' = Live /\ UNCHANGED proc
    PROVE  SnapOwned'
  <1> SUFFICES ASSUME snap' # NoSnap, NEW n \in snap'
               PROVE  n \in left'.reused \/ ~Alive(n)' \/ n \in Servers'
    BY DEF SnapOwned
  <1>1. CASE snap # NoSnap /\ snap' = snap
    <2>1. n \in Named /\ n \in Pids
      BY <1>1, NamedPids DEF TInv, StateOK, DataOK
    <2>2. Steady(n)
      BY <2>1, ConstantsAssumption
    <2>3. n \in left.reused \/ ~Alive(n) \/ n \in Servers
      BY <1>1 DEF OwnInv, SnapOwned
    <2> QED
      BY <2>2, <2>3 DEF Steady, History
  <1>2. CASE snap = NoSnap /\ snap' = Live /\ UNCHANGED proc
    BY <1>2 DEF Live, Servers
  <1> QED
    BY <1>1, <1>2 DEF Live

LEMMA RecordedThen ==
    ASSUME \A p \in Profiles : OwnedThen(runtime'[p], p) PROVE Recorded'
  BY DEF Recorded, Owned, OwnedThen, Alive, Servers

\* Steps that keep what is known: the records stay, and a request that goes on knows as much.
LEMMA OwnStep ==
    ASSUME TInv, OwnInv, History, \A n \in Named : n # NoPid => Steady(n),
           UNCHANGED runtime,
           \/ snap' \in {snap, NoSnap}
           \/ snap' = Live /\ UNCHANGED proc,
           \A k \in Clients : c'[k] = c[k] \/ RequestOK(k)'
    PROVE  OwnInv'
  <1>1. \A p \in Profiles : OwnedThen(runtime[p], p)
    BY NamedPids, OwnedStays DEF OwnInv, Recorded
  <1>3. Recorded'
    BY <1>1, RecordedThen
  <1>2. \A k \in Clients : RequestOK(k)'
    BY RequestStays
  <1> QED
    BY <1>2, <1>3, SnapStays DEF OwnInv

\* Nothing but requests change, one at a time.
LEMMA OwnRequest ==
    ASSUME TInv, OwnInv, History, UNCHANGED <<proc, runtime>>, snap' \in {snap, NoSnap, Live},
           NEW k \in Clients, RequestOK(k)', \A j \in Clients : j # k => c'[j] = c[j]
    PROVE  OwnInv'
  <1>1. \A n \in Named : Steady(n)
    BY SteadySame
  <1> QED
    BY <1>1, OwnStep

LEMMA OwnIdle ==
    ASSUME TInv, OwnInv, History, UNCHANGED <<proc, runtime>>, snap' \in {snap, NoSnap, Live},
           NEW k \in Clients, NEW step, Does(k, step),
           step.pc \notin {"watch", "bind", "bound", "forget", "dropped", "kill"}
    PROVE  OwnInv'
  <1>1. c'[k].pc = step.pc /\ \A j \in Clients : j # k => c'[j] = c[j]
    BY OneMoves
  <1>2. RequestOK(k)'
    BY <1>1 DEF RequestOK
  <1> QED
    BY <1>1, <1>2, OwnRequest

\* The servers, seen: none is new, and none watched is let go unseen.
LEMMA SeenStep ==
    ASSUME TInv, Seen, Fewer,
           \/ snap' \in {snap, NoSnap}
           \/ snap' = Live /\ UNCHANGED proc,
           \A k \in Clients :
               \/ c'[k] = c[k]
               \/ /\ c'[k].pc # "move"
                  /\ At(k, "watch") =>
                        c[k].pid \notin Servers' \/ (snap' # NoSnap => c[k].pid \in snap')
    PROVE  Seen'
  <1>1. Servers' \subseteq Servers
    BY DEF Fewer
  <1>2. ASSUME snap' # NoSnap, NEW n \in Servers', n \notin snap' PROVE n \in Watched'
    <2>1. snap # NoSnap /\ snap' = snap
      BY <1>2, SameServers DEF Live
    <2>2. PICK k \in Clients : At(k, "watch") /\ c[k].pid = n
      BY <1>1, <1>2, <2>1 DEF Seen, Watched
    <2>3. c'[k] = c[k]
      BY <1>2, <2>2
    <2> QED
      BY <2>2, <2>3 DEF Watched, At
  <1>3. ASSUME NEW k \in Clients, At(k, "move")' PROVE Servers' \subseteq c'[k].pids
    BY <1>1, <1>3 DEF Seen, At
  <1> QED
    BY <1>2, <1>3 DEF Seen

LEMMA SeenRequest ==
    ASSUME TInv, Seen, UNCHANGED proc, snap' \in {snap, NoSnap, Live},
           NEW k \in Clients, NEW step, Does(k, step), step.pc # "move", ~At(k, "watch")
    PROVE  Seen'
  <1>1. c'[k].pc # "move" /\ \A j \in Clients : j # k => c'[j] = c[j]
    BY OneMoves
  <1> QED
    BY <1>1, SameServers, SeenStep

LEMMA PagesStay ==
    ASSUME PagesOK, History, UNCHANGED http PROVE PagesOK'
  BY DEF PagesOK, History

LEMMA MatchStays ==
    ASSUME TInv, Match, History, Fewer, UNCHANGED http PROVE Match'
  BY DEF Match, History, Fewer, PortsOf

\* A request that reads, or waits, or gives up.
LEMMA IdleStop ==
    ASSUME TInv, StopInv, History, UNCHANGED <<proc, runtime, http>>, snap' \in {snap, NoSnap, Live},
           NEW k \in Clients, NEW step, Does(k, step), ~At(k, "watch"),
           step.pc \notin {"watch", "bind", "bound", "forget", "dropped", "kill", "move"}
    PROVE  StopInv'
  BY OwnIdle, SeenRequest, PagesStay, MatchStays, SameServers DEF StopInv

LEMMA PlainStop ==
    ASSUME TInv, StopInv, History, NEW k \in Clients,
           AskStart(k) \/ Claimed(k) \/ PortBusy(k) \/ Claim(k) \/ LaunchFails(k) \/ KillDenied(k)
             \/ AskStopAll(k)
    PROVE  StopInv'
  <1>1. CASE AskStart(k)
    BY <1>1, IdleStop DEF AskStart, Asks, At
  <1>2. CASE Claimed(k)
    <2>1. c[k] \in Plain
      BY <1>2, Carried DEF Carries, TInv, Claimed, At
    <2>2. Does(k, Resting) \/ Does(k, [pc |-> "others", prof |-> c[k].prof])
      BY <1>2, <2>1, ThenPlain DEF Claimed, Leave, Does
    <2> QED
      BY <1>2, <2>2, IdleStop DEF Claimed, At, Resting
  <1>3. CASE PortBusy(k)
    <2>1. c[k] \in Plain
      BY <1>3, Carried DEF Carries, TInv, PortBusy, At
    <2>2. Does(k, Resting) \/ Does(k, [pc |-> "claim", prof |-> c[k].prof])
      BY <1>3, <2>1, ThenPlain DEF PortBusy, Leave, Does
    <2> QED
      BY <1>3, <2>2, IdleStop DEF PortBusy, At, Resting
  <1>4. CASE Claim(k)
    <2>1. c[k] \in Plain
      BY <1>4, Carried DEF Carries, TInv, Claim, At
    <2>2. Does(k, [pc |-> "launch", prof |-> c[k].prof])
      BY <1>4, <2>1, ThenPlain DEF Claim, Does
    <2> QED
      BY <1>4, <2>2, IdleStop DEF Claim, At
  <1>5. CASE LaunchFails(k)
    BY <1>5, IdleStop DEF LaunchFails, Leave, At, Resting
  <1>6. CASE KillDenied(k)
    BY <1>6, IdleStop DEF KillDenied, At, Resting
  <1>7. CASE AskStopAll(k)
    BY <1>7, IdleStop DEF AskStopAll, Asks, See, At
  <1> QED
    BY <1>1, <1>2, <1>3, <1>4, <1>5, <1>6, <1>7

\* While no start watches a server, what is seen is every server.
LEMMA OthersStop ==
    ASSUME TInv, StopInv, History, NEW k \in Clients, Others(k) PROVE StopInv'
  <1>1. /\ c[k].pc = "others" /\ Starting(k) /\ snap' = Live /\ ~At(k, "watch")
        /\ UNCHANGED <<proc, http, runtime, claims, left>>
    BY DEF Others, See, At, Starting
  <1>2. CASE Leave(k)
    BY <1>1, <1>2, IdleStop DEF Leave, Resting
  <1>3. CASE Does(k, [pc |-> "move", prof |-> c[k].prof, pids |-> Live])
    <2>1. /\ c'[k].pids = Live /\ c'[k].pc = "move"
          /\ \A j \in Clients : j # k => c'[j] = c[j] /\ ~Starting(j)
      BY <1>1, <1>3, OneMoves, OnlyStart
    <2>2. Watched = {}
      BY <1>1, <2>1 DEF Watched, At, Starting
    <2>3. Servers \subseteq Live
      BY <2>2 DEF StopInv, Seen, Live
    <2>4. Servers' = Servers
      BY <1>1 DEF Servers
    <2>5. Seen'
      BY <1>1, <2>1, <2>3, <2>4 DEF Seen, At, Starting
    <2>6. OwnInv'
      BY <1>1, <1>3, OwnIdle DEF StopInv
    <2> QED
      BY <1>1, <2>5, <2>6, PagesStay, MatchStays, SameServers DEF StopInv
  <1> QED
    BY <1>2, <1>3 DEF Others

\* A page moves away from no server of its profile: one that listens there was seen, and
\* one that does not yet has its claim.
LEMMA MoveStop ==
    ASSUME TInv, Ordered, StopInv, History, NEW k \in Clients, Move(k) PROVE StopInv'
  <1>1. /\ c[k].pc = "move" /\ UNCHANGED <<proc, runtime, snap, claims>>
        /\ Does(k, [pc |-> "busy?", prof |-> c[k].prof]) /\ ~At(k, "watch")
    BY DEF Move, At
  <1>2. PICK p \in Profiles : p = c[k].prof
    BY <1>1, Carried DEF Carries, TInv
  <1>3. OwnInv' /\ Seen'
    BY <1>1, OwnIdle, SeenRequest DEF StopInv
  <1>4. CASE UNCHANGED http
    BY <1>1, <1>3, <1>4, PagesStay, MatchStays, SameServers DEF StopInv
  <1>5. CASE /\ Listeners(http[p]) # {} /\ Listeners(http[p]) \cap c[k].pids = {}
             /\ \E q \in Spare(p) : http' = [http EXCEPT ![p] = q]
    <2>1. PICK q \in Spare(p) : http' = [http EXCEPT ![p] = q]
      BY <1>5
    <2>2. q \in Above /\ \A r \in Profiles : http[r] # q
      BY DEF Spare, Range, TInv, StateOK, DataOK
    <2>3. http'[p] = q /\ \A r \in Profiles : r # p => http'[r] = http[r]
      BY <2>1 DEF TInv, StateOK, DataOK
    <2>4. PagesOK'
      BY <2>2, <2>3 DEF StopInv, PagesOK, History
    <2>5. CASE left.dropped
      BY <1>3, <2>4, <2>5 DEF StopInv, Match, History
    <2>6. CASE ~left.dropped
      <3>1. /\ \A n \in Servers : proc[n].ports = PortsOf(proc[n].prof)
            /\ PortsOf(p) \cap claims = {} /\ Covered
        BY <1>1, <1>2, <2>6 DEF StopInv, Match, Ordered, Clear, StartOK
      <3>2. Servers \subseteq c[k].pids
        BY <1>1 DEF StopInv, Seen, At
      <3>3. ASSUME NEW n \in Servers, proc[n].prof = p PROVE FALSE
        <4>1. http[p] \in proc[n].ports
          BY <3>1, <3>3 DEF PortsOf
        <4>2. CASE proc[n].up
          <5>1. n \in Listeners(http[p])
            BY <4>1, <4>2, ServerFacts DEF Listeners
          <5> QED
            BY <1>5, <3>2, <5>1
        <4>3. CASE ~proc[n].up
          BY <3>1, <4>1, <4>3 DEF Covered, PortsOf
        <4> QED
          BY <4>2, <4>3
      <3>4. \A n \in Servers : PortsOf(proc[n].prof)' = PortsOf(proc[n].prof)
        BY <1>1, <2>3, <3>3, ServerFacts DEF PortsOf
      <3>5. Match'
        BY <1>1, <3>1, <3>4, SameServers DEF Match, Fewer
      <3> QED
        BY <1>3, <2>4, <3>5 DEF StopInv
    <2> QED
      BY <2>5, <2>6
  <1> QED
    BY <1>2, <1>4, <1>5 DEF Move

LEMMA LaunchStop ==
    ASSUME TInv, StopInv, History, NEW k \in Clients, Launch(k) PROVE StopInv'
  <1>1. /\ c[k].pc = "launch" /\ Starting(k) /\ UNCHANGED <<http, runtime, snap, claims>>
    BY DEF Launch, At, Starting
  <1>2. PICK n \in Pids :
            /\ ~Alive(n) /\ n \notin Servers /\ Servers' = Servers \cup {n}
            /\ proc'[n] = Server(c[k].prof, PortsOf(c[k].prof))
            /\ \A m \in Pids : m # n => proc'[m] = proc[m]
            /\ c'[k] = [pc |-> "watch", prof |-> c[k].prof, pid |-> n]
            /\ \A j \in Clients : j # k => c'[j] = c[j]
            /\ left' = [left EXCEPT !.reused = left.reused \cup Known(n)]
    BY LaunchMakes
  <1>3. proc'[n].prof = c[k].prof /\ proc'[n].ports = PortsOf(c[k].prof)
    BY <1>2 DEF Server
  <1>4. left'.reused = left.reused \cup Known(n) /\ left'.dropped = left.dropped
    BY <1>2 DEF TInv, StateOK, Bounds
  <1>5. ASSUME NEW m \in Named, m # NoPid PROVE Steady(m)
    <2>1. CASE m = n
      BY <1>4, <1>5, <2>1 DEF Steady, Known
    <2>2. CASE m # n /\ m \in Pids
      BY <1>2, <2>2 DEF Steady, Alive
    <2>3. m \in Pids
      BY <1>5, NamedKnown
    <2> QED
      BY <2>1, <2>2, <2>3
  <1>6. /\ c'[k].pc = "watch" /\ c'[k].prof = c[k].prof /\ c'[k].pid = n
    BY <1>2
  <1>7. RequestOK(k)'
    BY <1>2, <1>3, <1>6 DEF RequestOK, Owned
  <1>8. OwnInv'
    BY <1>1, <1>2, <1>5, <1>7, OwnStep DEF StopInv
  <1>9. Seen'
    <2>1. Watched \subseteq Watched' /\ n \in Watched'
      BY <1>1, <1>2, <1>6 DEF Watched, At
    <2>2. \A j \in Clients : ~At(j, "move")'
      BY <1>1, <1>2, <1>6, OnlyStart DEF At, Busying
    <2> QED
      BY <1>1, <1>2, <2>1, <2>2 DEF StopInv, Seen
  <1>10. PagesOK'
    BY <1>1, PagesStay DEF StopInv
  <1>11. Match'
    <2>1. ASSUME ~left.dropped, NEW m \in Servers' PROVE proc'[m].ports = PortsOf(proc'[m].prof)
      <3>1. CASE m = n
        BY <1>3, <3>1
      <3>2. CASE m # n
        BY <1>2, <2>1, <3>2, ServerFacts DEF StopInv, Match
      <3> QED
        BY <3>1, <3>2
    <2>2. \A p : {Tcp[p], http'[p]} = PortsOf(p)
      BY <1>1 DEF PortsOf
    <2> QED
      BY <1>4, <2>1, <2>2 DEF Match, PortsOf
  <1> QED
    BY <1>8, <1>9, <1>10, <1>11 DEF StopInv

LEMMA WatchStop ==
    ASSUME TInv, StopInv, History, NEW k \in Clients, Watch(k) PROVE StopInv'
  <1>1. c[k].pc = "watch" /\ UNCHANGED <<proc, http, runtime, snap>>
    BY DEF Watch, At
  <1>2. c[k] \in Holding
    BY <1>1, Carried DEF Carries, TInv
  <1>3. CASE ~Alive(c[k].pid) /\ Does(k, Resting)
    <2>1. c'[k].pc = "idle" /\ \A j \in Clients : j # k => c'[j] = c[j]
      BY <1>3, OneMoves DEF Resting
    <2>2. c[k].pid \notin Servers'
      BY <1>1, <1>3, SameServers, ServerFacts
    <2>3. Seen'
      BY <1>1, <2>1, <2>2, SameServers, SeenStep DEF StopInv
    <2>4. OwnInv'
      BY <1>1, <1>3, OwnIdle DEF StopInv, Resting
    <2> QED
      BY <1>1, <2>3, <2>4, PagesStay, MatchStays, SameServers DEF StopInv
  <1>4. CASE (snap # NoSnap => c[k].pid \in snap) /\ Then(k, "bind")
    <2>1. Does(k, [pc |-> "bind", prof |-> c[k].prof, pid |-> c[k].pid])
      BY <1>2, <1>4, ThenBind DEF Does
    <2>2. /\ c'[k].pc = "bind" /\ c'[k].prof = c[k].prof /\ c'[k].pid = c[k].pid
          /\ \A j \in Clients : j # k => c'[j] = c[j]
      BY <2>1, OneMoves
    <2>3. Seen'
      BY <1>1, <1>4, <2>2, SameServers, SeenStep DEF StopInv
    <2>4. OwnedThen(c[k].pid, c[k].prof)
      <3>1. Owned(c[k].pid, c[k].prof)
        BY <1>1 DEF StopInv, OwnInv, RequestOK
      <3> QED
        BY <1>1, <3>1, SteadySame, OwnedStays
    <2>5. RequestOK(k)'
      BY <2>2, <2>4, KnownThen
    <2>6. OwnInv'
      BY <1>1, <2>2, <2>5, OwnRequest DEF StopInv
    <2> QED
      BY <1>1, <2>3, <2>6, PagesStay, MatchStays, SameServers DEF StopInv
  <1> QED
    BY <1>3, <1>4 DEF Watch, Leave

\* runtime.json is read, to be saved with another record.
LEMMA ReadStop ==
    ASSUME TInv, StopInv, History, NEW k \in Clients, Bind(k) \/ Drop(k) PROVE StopInv'
  <1>1. /\ c[k].pc \in {"bind", "drop"} /\ ~At(k, "watch")
        /\ UNCHANGED <<proc, http, runtime, snap, claims, left>>
    BY DEF Bind, Drop, At
  <1>2. \A p \in Profiles : OwnedThen(runtime[p], p)
    BY <1>1, SteadySame, OwnedStays DEF StopInv, OwnInv, Recorded
  <1>3. CASE Bind(k)
    <2>1. Does(k, [pc |-> "bound", prof |-> c[k].prof, pid |-> c[k].pid, rt |-> runtime])
      BY <1>3 DEF Bind
    <2>2. /\ c'[k].pc = "bound" /\ c'[k].prof = c[k].prof /\ c'[k].pid = c[k].pid
          /\ c'[k].rt = runtime /\ \A j \in Clients : j # k => c'[j] = c[j]
      BY <2>1, OneMoves
    <2>3. Owned(c[k].pid, c[k].prof)
      BY <1>3 DEF StopInv, OwnInv, RequestOK, Bind, At
    <2>4. OwnedThen(c[k].pid, c[k].prof)
      BY <1>1, <2>3, SteadySame, OwnedStays
    <2>5. RequestOK(k)'
      BY <1>2, <2>2, <2>4, KnownThen
    <2>6. OwnInv' /\ Seen'
      BY <1>1, <2>1, <2>2, <2>5, OwnRequest, SeenRequest DEF StopInv
    <2> QED
      BY <1>1, <2>6, PagesStay, MatchStays, SameServers DEF StopInv
  <1>4. CASE Drop(k)
    <2>1. Does(k, [pc |-> "dropped", prof |-> c[k].prof, rt |-> runtime])
      BY <1>4 DEF Drop
    <2>2. /\ c'[k].pc = "dropped" /\ c'[k].prof = c[k].prof
          /\ c'[k].rt = runtime /\ \A j \in Clients : j # k => c'[j] = c[j]
      BY <2>1, OneMoves
    <2>3. RequestOK(k)'
      BY <1>2, <2>2, KnownThen
    <2>4. OwnInv' /\ Seen'
      BY <1>1, <2>1, <2>2, <2>3, OwnRequest, SeenRequest DEF StopInv
    <2> QED
      BY <1>1, <2>4, PagesStay, MatchStays, SameServers DEF StopInv
  <1> QED
    BY <1>3, <1>4

\* ... and is saved: each record is one that was read, the new one, or none.
LEMMA SaveStop ==
    ASSUME TInv, StopInv, History, NEW k \in Clients, Bound(k) \/ Forget(k) \/ Dropped(k) PROVE StopInv'
  <1>1. /\ c[k].pc \in {"bound", "forget", "dropped"} /\ ~At(k, "watch") /\ Does(k, Resting)
        /\ UNCHANGED <<proc, http, snap>>
    BY DEF Bound, Forget, Dropped, Leave, At
  <1>2. c'[k].pc = "idle" /\ \A j \in Clients : j # k => c'[j] = c[j]
    BY <1>1, OneMoves DEF Resting
  <1>3. PICK p \in Profiles : p = c[k].prof
    BY <1>1, Carried DEF Carries, TInv
  <1>4. RtOK(c[k].rt) /\ \A q \in Profiles : Owned(c[k].rt[q], q)
    BY <1>1, Carried DEF Carries, TInv, StopInv, OwnInv, RequestOK
  <1>5. /\ \A q \in Profiles : q # p => runtime'[q] = c[k].rt[q]
        /\ Owned(runtime'[p], p)
    <2>1. CASE Bound(k)
      <3>1. runtime'[p] = c[k].pid /\ \A q \in Profiles : q # p => runtime'[q] = c[k].rt[q]
        BY <1>3, <1>4, <2>1 DEF Bound, RtOK
      <3>2. Owned(c[k].pid, p)
        BY <1>3, <2>1 DEF StopInv, OwnInv, RequestOK, Bound, At
      <3> QED
        BY <3>1, <3>2
    <2>2. CASE Forget(k) \/ Dropped(k)
      BY <1>3, <1>4, <2>2 DEF Forget, Dropped, Without, RtOK, Owned
    <2> QED
      BY <2>1, <2>2
  <1>6. Recorded'
    <2>1. \A q \in Profiles : Owned(runtime'[q], q)
      BY <1>4, <1>5
    <2>2. \A q \in Profiles : OwnedThen(runtime'[q], q)
      BY <1>1, <2>1, SteadySame, OwnedStays
    <2> QED
      BY <2>2, RecordedThen
  <1>7. OwnInv'
    <2>3. \A n \in Named : n # NoPid => Steady(n)
      BY <1>1, SteadySame
    <2>1. ASSUME NEW j \in Clients PROVE RequestOK(j)'
      <3>1. CASE j = k
        BY <1>2, <3>1 DEF RequestOK
      <3>2. CASE j # k
        BY <1>2, <2>3, <3>2, RequestStays DEF StopInv
      <3> QED
        BY <3>1, <3>2
    <2>2. SnapOwned'
      BY <1>1, <2>3, SnapStays DEF StopInv
    <2> QED
      BY <1>6, <2>1, <2>2 DEF OwnInv
  <1>8. Seen'
    BY <1>1, SeenRequest DEF StopInv, Resting
  <1> QED
    BY <1>1, <1>7, <1>8, PagesStay, MatchStays, SameServers DEF StopInv

\* A server that listens on the page's port is the profile's own, or the two share it.
LEMMA OnPage ==
    ASSUME TInv, StopInv, NEW p \in Profiles, NEW n \in Servers, http[p] \in proc[n].ports
    PROVE  proc[n].prof = p \/ Shares(p) \/ left.dropped
  <1>1. SUFFICES ASSUME ~left.dropped, proc[n].prof # p PROVE Shares(p)
    OBVIOUS
  <1>2. PICK q \in Profiles : q = proc[n].prof
    BY ServerFacts
  <1>3. http[p] = Tcp[q] \/ http[p] = http[q]
    BY <1>1, <1>2 DEF StopInv, Match, PortsOf
  <1>4. CASE http[p] = Tcp[q]
    BY <1>1, <1>2, <1>4 DEF StopInv, PagesOK, Shares
  <1>5. CASE http[p] = http[q]
    BY <1>1, <1>2, <1>5 DEF StopInv, PagesOK, Shares
  <1> QED
    BY <1>3, <1>4, <1>5

LEMMA KillFound ==
    ASSUME TInv, StopInv, History, UNCHANGED <<proc, http, runtime>>, snap' \in {snap, Live},
           NEW k \in Clients, ~At(k, "watch"), c'[k].pc = "kill", RequestOK(k)',
           \A j \in Clients : j # k => c'[j] = c[j]
    PROVE  StopInv'
  <1>2. OwnInv'
    BY OwnRequest DEF StopInv
  <1>3. Seen'
    BY SameServers, SeenStep DEF StopInv
  <1> QED
    BY <1>2, <1>3, PagesStay, MatchStays, SameServers DEF StopInv

LEMMA AskStopStop ==
    ASSUME TInv, StopInv, History, NEW k \in Clients, AskStop(k) PROVE StopInv'
  <1>1. /\ c[k].pc = "idle" /\ ~At(k, "watch")
        /\ UNCHANGED <<proc, http, runtime, lock, claims, left>>
    BY DEF AskStop, Asks, At
  <1>2. PICK p \in left.profiles :
            IF runtime[p] # NoPid /\ Alive(runtime[p])
            THEN /\ Does(k, [pc |-> "kill", prof |-> p, pid |-> runtime[p], from |-> "record"])
                 /\ UNCHANGED snap
            ELSE /\ See
                 /\ IF OnPort(http[p]) = {} THEN UNCHANGED c
                    ELSE \E n \in OnPort(http[p]) :
                            Does(k, [pc |-> "kill", prof |-> p, pid |-> n, from |-> "page"])
    BY DEF AskStop
  <1>3. p \in Profiles
    BY DEF TInv, StateOK, Bounds
  <1>4. ASSUME NEW n, NEW from, snap' \in {snap, Live},
               Does(k, [pc |-> "kill", prof |-> p, pid |-> n, from |-> from]),
               \/ Owned(n, p)
               \/ n \in Servers /\ from = "page" /\ (Shares(p) \/ left.dropped)
        PROVE StopInv'
    <2>1. /\ c'[k].pc = "kill" /\ c'[k].prof = p /\ c'[k].pid = n /\ c'[k].from = from
          /\ \A j \in Clients : j # k => c'[j] = c[j]
      BY <1>4, OneMoves
    <2>2. \/ OwnedThen(n, p)
          \/ n \in Servers' /\ from = "page" /\ (Shares(p) \/ left.dropped)
      BY <1>1, <1>4, SteadySame, OwnedStays, SameServers
    <2>3. RequestOK(k)'
      BY <2>1, <2>2, KnownThen
    <2> QED
      BY <1>1, <1>4, <2>1, <2>3, KillFound
  <1>5. CASE runtime[p] # NoPid /\ Alive(runtime[p])
    <2>1. Owned(runtime[p], p)
      BY <1>3 DEF StopInv, OwnInv, Recorded
    <2> QED
      BY <1>2, <1>4, <1>5, <2>1
  <1>6. CASE ~(runtime[p] # NoPid /\ Alive(runtime[p])) /\ UNCHANGED c
    <2>1. snap' = Live
      BY <1>2, <1>6 DEF See
    <2>2. OwnInv'
      BY <1>1, <1>6, <2>1, SteadySame, OwnStep DEF StopInv
    <2>3. Seen'
      BY <1>1, <1>6, <2>1, SameServers, SeenStep DEF StopInv
    <2> QED
      BY <1>1, <2>2, <2>3, PagesStay, MatchStays, SameServers DEF StopInv
  <1>7. ASSUME ~(runtime[p] # NoPid /\ Alive(runtime[p])), NEW n \in OnPort(http[p]),
               Does(k, [pc |-> "kill", prof |-> p, pid |-> n, from |-> "page"])
        PROVE StopInv'
    <2>1. snap' = Live
      BY <1>2, <1>7 DEF See
    <2>2. n \in Live /\ Alive(n) /\ http[p] \in proc[n].ports
      BY <1>7 DEF OnPort, Listeners
    <2>3. n \in left.reused \/ n \in Servers
      BY <2>2 DEF Live, StopInv, OwnInv, SnapOwned
    <2>4. Owned(n, p) \/ (n \in Servers /\ (Shares(p) \/ left.dropped))
      BY <1>3, <2>2, <2>3, OnPage DEF Owned
    <2> QED
      BY <1>4, <1>7, <2>1, <2>4
  <1> QED
    BY <1>2, <1>5, <1>6, <1>7

LEMMA AskStatusStop ==
    ASSUME TInv, StopInv, History, NEW k \in Clients, AskStatus(k) PROVE StopInv'
  <1>1. PICK p \in left.profiles : Does(k, [pc |-> "drop", prof |-> p])
    BY DEF AskStatus
  <1> QED
    BY <1>1, IdleStop DEF AskStatus, Asks, See, At

\* A process that is gone, whose pid nobody was given since.
LEMMA GoneSteady ==
    ASSUME TInv, NEW killed \in SUBSET Pids,
           \A n \in killed : ~Alive(n)', \A n \in Pids \ killed : proc'[n] = proc[n],
           NEW n \in Pids
    PROVE  Steady(n)
  <1>1. CASE n \in killed
    BY <1>1 DEF Steady
  <1>2. CASE n \notin killed
    BY <1>2 DEF Steady, Alive, Servers
  <1> QED
    BY <1>1, <1>2

LEMMA KillStop ==
    ASSUME TInv, StopInv, History, NEW k \in Clients, Kill(k) PROVE StopInv'
  <1>1. /\ c[k].pc = "kill" /\ ~At(k, "watch") /\ snap' = NoSnap
        /\ proc' = [proc EXCEPT ![c[k].pid] = Gone]
        /\ Does(k, [pc |-> "forget", prof |-> c[k].prof, rt |-> runtime])
        /\ UNCHANGED <<http, runtime, lock, claims, left>>
    BY DEF Kill, At
  <1>2. PICK n \in Pids : n = c[k].pid
    BY <1>1, Carried DEF Carries, TInv
  <1>3. Fewer /\ ~Alive(n)' /\ \A m \in Pids : m # n => proc'[m] = proc[m]
    BY <1>1, <1>2, GoneFewer
  <1>4. \A m \in Pids : Steady(m)
    <2>1. \A m \in {n} : ~Alive(m)'
      BY <1>3
    <2>2. \A m \in Pids \ {n} : proc'[m] = proc[m]
      BY <1>3
    <2>3. {n} \in SUBSET Pids
      OBVIOUS
    <2> QED
      BY <2>1, <2>2, <2>3, GoneSteady
  <1>5. \A m \in Named : m # NoPid => Steady(m)
    BY <1>4, NamedKnown
  <1>6. /\ c'[k].pc = "forget" /\ c'[k].rt = runtime
        /\ \A j \in Clients : j # k => c'[j] = c[j]
    BY <1>1, OneMoves
  <1>7. RequestOK(k)'
    <2>1. \A p \in Profiles : OwnedThen(runtime[p], p)
      BY <1>5, NamedPids, OwnedStays DEF StopInv, OwnInv, Recorded
    <2> QED
      BY <1>6, <2>1, KnownThen
  <1>8. OwnInv'
    BY <1>1, <1>5, <1>6, <1>7, OwnStep DEF StopInv
  <1>9. Seen'
    BY <1>1, <1>3, <1>6, SeenStep DEF StopInv
  <1> QED
    BY <1>1, <1>3, <1>8, <1>9, PagesStay, MatchStays DEF StopInv

LEMMA KillAllStop ==
    ASSUME TInv, StopInv, History, NEW k \in Clients, KillAll(k) PROVE StopInv'
  <1>1. /\ c[k].pc = "kill all" /\ ~At(k, "watch") /\ snap' \in {snap, NoSnap}
        /\ Does(k, Resting) /\ UNCHANGED <<http, runtime, lock>>
    BY DEF KillAll, At
  <1>2. PICK stuck \in SUBSET c[k].pids :
            proc' = [n \in Pids |-> IF n \in c[k].pids \ stuck THEN Gone ELSE proc[n]]
    BY DEF KillAll
  <1> DEFINE killed == c[k].pids \ stuck
  <1>3. killed \in SUBSET Pids
    BY <1>1, Carried DEF Carries, TInv
  <1>4. /\ \A n \in killed : ~Alive(n)'
        /\ \A n \in Pids \ killed : proc'[n] = proc[n]
    BY <1>2, <1>3 DEF Alive, Gone
  <1>5. Fewer
    BY <1>2 DEF Fewer, Servers, Gone
  <1> HIDE DEF killed
  <1>6. \A n \in Pids : Steady(n)
    BY <1>3, <1>4, GoneSteady
  <1>7. \A n \in Named : n # NoPid => Steady(n)
    <2>1. \A n \in Named : n = NoPid \/ n \in Pids
      BY NamedKnown
    <2> QED
      BY <1>6, <2>1
  <1>8. /\ c'[k].pc = "idle" /\ \A j \in Clients : j # k => c'[j] = c[j]
    <2>1. Does(k, Resting)
      BY <1>1
    <2>2. c'[k] = Resting /\ \A j \in Clients : j # k => c'[j] = c[j]
      BY <2>1, OneMoves
    <2> QED
      BY <2>2 DEF Resting
  <1>9. RequestOK(k)'
    BY <1>8 DEF RequestOK
  <1>10. OwnInv'
    BY <1>1, <1>7, <1>8, <1>9, OwnStep DEF StopInv
  <1>11. Seen'
    BY <1>1, <1>5, <1>8, SeenStep DEF StopInv
  <1> QED
    BY <1>1, <1>5, <1>10, <1>11, PagesStay, MatchStays DEF StopInv

\* A step of a process or the clock.
LEMMA ProcessStop ==
    ASSUME TInv, StopInv, History, Fewer, \A n \in Pids : n \in Named => Steady(n),
           UNCHANGED <<http, runtime, c>>, snap' \in {snap, NoSnap}
    PROVE  StopInv'
  <1>1. \A n \in Named : n # NoPid => Steady(n)
    BY NamedKnown
  <1>2. OwnInv' /\ Seen'
    BY <1>1, OwnStep, SeenStep DEF StopInv
  <1> QED
    BY <1>2, PagesStay, MatchStays DEF StopInv

LEMMA ListenStop ==
    ASSUME TInv, StopInv, History, NEW n \in Pids, Listen(n) PROVE StopInv'
  <1>1. /\ Fewer /\ Servers' = Servers
        /\ \A m \in Pids : (Alive(m)' <=> Alive(m)) /\ (m \in Servers => proc'[m].prof = proc[m].prof)
    BY ListenFewer
  <1>2. \A m \in Pids : Steady(m)
    BY <1>1 DEF Steady
  <1> QED
    BY <1>1, <1>2, ProcessStop DEF Listen

LEMMA EndsStop ==
    ASSUME TInv, StopInv, History, NEW n \in Pids, Ends(n) PROVE StopInv'
  <1>1. Fewer /\ ~Alive(n)' /\ \A m \in Pids : m # n => proc'[m] = proc[m]
    BY GoneFewer DEF Ends
  <1>2. \A m \in Pids : Steady(m)
    <2>1. \A m \in {n} : ~Alive(m)'
      BY <1>1
    <2>2. \A m \in Pids \ {n} : proc'[m] = proc[m]
      BY <1>1
    <2>3. {n} \in SUBSET Pids
      OBVIOUS
    <2> QED
      BY <2>1, <2>2, <2>3, GoneSteady
  <1> QED
    BY <1>1, <1>2, ProcessStop DEF Ends

LEMMA OtherStartsStop ==
    ASSUME TInv, StopInv, History, OtherStarts PROVE StopInv'
  <1>1. PICK n \in Pids :
            /\ ~Alive(n) /\ Fewer /\ Servers' = Servers
            /\ \A m \in Pids : m # n => proc'[m] = proc[m]
            /\ left' = [left EXCEPT !.others = left.others - 1, !.reused = left.reused \cup Known(n)]
    BY OtherMakes
  <1>2. left'.reused = left.reused \cup Known(n)
    BY <1>1 DEF TInv, StateOK, Bounds
  <1>3. ASSUME NEW m \in Pids, m \in Named PROVE Steady(m)
    <2>1. CASE m = n
      BY <1>2, <1>3, <2>1 DEF Steady, Known
    <2>2. CASE m # n
      BY <1>1, <2>2 DEF Steady, Alive
    <2> QED
      BY <2>1, <2>2
  <1> QED
    BY <1>1, <1>3, ProcessStop DEF OtherStarts

LEMMA RestartStop ==
    ASSUME TInv, StopInv, History, Restart PROVE StopInv'
  <1>1. /\ UNCHANGED <<proc, http, runtime>> /\ c' = [k \in Clients |-> Resting] /\ snap' = NoSnap
    BY DEF Restart
  <1>2. \A k \in Clients : c'[k].pc = "idle"
    BY <1>1 DEF Resting
  <1>3. \A k \in Clients : RequestOK(k)'
    BY <1>2 DEF RequestOK
  <1>4. OwnInv'
    BY <1>1, <1>3, SteadySame, OwnStep DEF StopInv
  <1>5. Seen'
    BY <1>1, <1>2 DEF Seen, At
  <1> QED
    BY <1>1, <1>4, <1>5, PagesStay, MatchStays, SameServers DEF StopInv

LEMMA StepKeepsStops ==
    ASSUME TInv, Ordered, StopInv, [Next]_vars PROVE StopInv'
  <1>1. History
    BY HistoryGrows DEF History
  <1>2. ASSUME UNCHANGED <<proc, http, runtime, c>>, snap' \in {snap, NoSnap} PROVE StopInv'
    BY <1>1, <1>2, SameServers, SteadySame, ProcessStop
  <1>3. CASE UNCHANGED vars
    BY <1>2, <1>3 DEF vars
  <1>4. ASSUME NEW k \in Clients, Ask(k) PROVE StopInv'
    BY <1>1, <1>4, PlainStop, AskStopStop, AskStatusStop DEF Ask
  <1>5. ASSUME NEW k \in Clients, Step(k) PROVE StopInv'
    <2>1. CASE Claimed(k) \/ Others(k) \/ Move(k) \/ PortBusy(k) \/ Claim(k) \/ Launch(k)
      BY <1>1, <2>1, PlainStop, OthersStop, MoveStop, LaunchStop
    <2>2. CASE Watch(k) \/ Bind(k) \/ Bound(k)
      BY <1>1, <2>2, WatchStop, ReadStop, SaveStop
    <2>3. CASE Kill(k) \/ Forget(k) \/ KillAll(k) \/ Drop(k) \/ Dropped(k)
      BY <1>1, <2>3, KillStop, SaveStop, KillAllStop, ReadStop
    <2> QED
      BY <1>5, <2>1, <2>2, <2>3 DEF Step
  <1>6. ASSUME NEW k \in Clients, LaunchFails(k) \/ KillDenied(k) PROVE StopInv'
    BY <1>1, <1>6, PlainStop
  <1>7. ASSUME NEW n \in Pids, Listen(n) \/ Ends(n) PROVE StopInv'
    BY <1>1, <1>7, ListenStop, EndsStop
  <1>8. CASE SnapExpires \/ \E q \in Ports : ClaimExpires(q)
    BY <1>2, <1>8 DEF SnapExpires, ClaimExpires
  <1>9. CASE OtherStarts \/ Restart
    BY <1>1, <1>9, OtherStartsStop, RestartStop
  <1> QED
    BY <1>3, <1>4, <1>5, <1>6, <1>7, <1>8, <1>9 DEF Next

\* Whatever else is asked for, dies or starts beside it: what Stop ends is a server of the
\* profile it was pressed for, unless its pid was given again since - or, found by its status
\* page's port, it is another profile's that shares the port or lost its claim.
THEOREM StopKillsOwnAlways == Spec => StopKillsOwn
  <1> DEFINE Own ==
        \A k \in Clients, n \in Pids :
            At(k, "kill") /\ c'[k].pc = "forget" /\ c[k].pid = n /\ Alive(n) /\ n \notin left.reused
            => /\ proc[n].kind = "server"
               /\ \/ proc[n].prof = c[k].prof
                  \/ c[k].from = "page" /\ (Shares(c[k].prof) \/ left.dropped)
  <1>1. Init => Ordered
    BY InitOrdered DEF Ordered
  <1>2. Init => StopInv
    BY InitTyped, InitStops
  <1>3. TInv /\ Ordered /\ StopInv /\ [Next]_vars => TInv' /\ Ordered' /\ StopInv'
    BY StepKeepsTypes, StepKeepsOrdered, StepKeepsStops
  <1>4. ASSUME TInv, StopInv PROVE Own
    <2>1. SUFFICES ASSUME NEW k \in Clients, NEW n \in Pids, At(k, "kill"), c[k].pid = n,
                          Alive(n), n \notin left.reused
                   PROVE  /\ proc[n].kind = "server"
                          /\ \/ proc[n].prof = c[k].prof
                             \/ c[k].from = "page" /\ (Shares(c[k].prof) \/ left.dropped)
      OBVIOUS
    <2>2. Found(k) /\ n # NoPid
      BY <1>4, <2>1, ConstantsAssumption DEF StopInv, OwnInv, RequestOK, At
    <2> QED
      BY <2>1, <2>2 DEF Found, Owned, Servers
  <1>5. TInv /\ StopInv => [Own]_vars
    BY <1>4
  <1> QED
    BY InitTyped, <1>1, <1>2, <1>3, <1>5, PTL DEF Spec, StopKillsOwn
=============================================================================
