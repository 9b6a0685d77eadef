# ACECM in TLA+

ACECM (the Assetto Corsa EVO Content Manager) hosts and joins servers of a
racing game whose files it has to edit in place: an archive of several
gigabytes that the dedicated server opens, profiles and registries in JSON,
packages it serves to other players while they are being built. Most of what
can go wrong in it goes wrong between two steps: two processes over one
archive, a kill between a payload and its table, a port that nobody listens on
*yet*, a job whose state another request takes over. This directory models
those parts, checks them with TLC on small instances, and proves the
invariants that matter most with TLAPS for every instance.

    tlc -workers 2 -config ArchiveFile_writes.cfg MCArchiveFile   # any run below
    tlapm ArchiveProofs.tla                                        # any *Proofs module

`PROJECT.json` is the index: components, runs, the mutants that show that each
property can fail, the source lines of every definition, the hazards and the
theorems. Where the program does not do what it says, section 7 tells how, and
which run meets it.

## 1. Inventory of the system

The program is `native/` (Rust, one Tauri executable that is both the desktop
shell and an HTTP server), with a web UI in `acecm/web` that only calls its
API, and `converter/`, an offline converter it runs as a child process. Several
ACECM processes can run on one machine, and handlers of one process run on
threads of their own.

| Component | State it keeps | Operations | Shares with | Hard behaviour |
|---|---|---|---|---|
| Archive writer `kspkg_write.rs`, `archlock.rs` | `content.kspkg` (data, then a table of 256-byte records at its end), `content.kspkg.bak_tables` | `write_inplace`, `undo_inplace`, `verify`, `write_archive`; `lock` | every editor below, in any process | crash between payload and table, rollback, full volume, lock timeout |
| Archive reader `kspkg.rs` | none | `find_entry`, `entries`, `read_entry` | the file above, unlocked | boundaries of the binary searches, colliding ids |
| Tracks in the server archive `trackdeploy.rs`, `tracktables.rs` | `.bak_pretrack` and its build note; two system tables in the archive | deploy, redeclare, restore, register / unregister | archive writer, server processes | backup of an old build, note lost, interleaved row edits |
| Damage and penalties `damage.rs`, `penalties.rs` | season templates and two penalty entries in the archive; `.bak` of the entries | `apply_for` on each start; `patch`, `restore` | archive writer, server start | read before the lock, write after it; foreign blocks |
| Server processes `serverproc.rs`, `procs.rs` | `START_LOCK`, `STARTING`, `LAUNCHING` (port claims), `runtime.json`, a 1.5 s snapshot of processes | start, stop, stop all, status | profiles, archive edits, the OS | a port that is not listened on for 30 s; stale snapshot; unlocked `runtime.json` |
| Profiles `profiles.rs`, `servers.rs` | `profiles.json` | load, save, upsert, delete | server processes, share list | one `.part` name for all writers; lost updates; crash |
| Content jobs `jobs.rs` | `JOB`, a map behind a mutex | install content, restore tracks, push; status | content sync, archive edits | check-then-act on `JOB`; an error passed through shared state |
| Content sync `contentsync.rs` | files in the mods folders | plan, fetch, pack, register, remove stale | jobs, install, trackdeploy | partial failure, repeat after a failure |
| Share packages `acemod.rs` | `QUEUE`, `BUSY`, `FAILED`, `<stem>.acemod` and its info | advert, queue, worker, build; install on the joiner | registry | two workers, crash between two renames |
| Share list `registry.rs`, `autoshare.rs` | `registry.json`, digests, track packs with `.sig` / `.sha256` | publish, withdraw, build pack, prune | profiles, content | a pack pruned while served, sidecars from different builds |
| Updater `updater.rs`, `installer.rs` | `.new`, `.old`, the swap script, a mark | check, apply, roll back | the OS, itself after restart | two applies; power loss between two moves |
| Quick Drive `drive.rs`, `launch.rs` | the drive job's phase, its thread | start, cancel, capture | game UI, profiles, server start | two starts, cancel beside a new start |
| Lobby list `backend.rs`, `lobbyfetch.rs` | `LOBBY`, a condition variable, the helper's pid | fetch, wait | the game | a waiter that times out gets an old result |
| Lobby proxy `lobbyproxy.rs`, `lobbybackend.rs` | rewritten adverts | proxy, advertise | lobby | wire format |
| Installing mods `install.rs`, `archive.rs`, `mods.rs`, `pack.rs` | mods folders, staging files | install, uninstall, destinations | content sync | copy to several destinations, name collisions |
| Conversion jobs `convert.rs`, `converttrack.rs` | conversion `JOB`, the child's pid | start, cancel, status | converter, install | cancel before the pid is known |
| Converter `converter/` | none | AC1 car / track to EVO package | - | none: a pure translation |
| Web UI, API, auth, events, settings, detection, viewer, thumbs, liveries, hotkey | small caches, one file each | read and serve | all | none that spans two steps |

Code the models need but `src/` does not hold is marked external in the map:
the dedicated server (listens on its ports some time after its launch), Steam
(replaces the server's files), the pids Windows hands out, the other programs
of the machine, and the player who closes the game.

What makes each modelled component correct is listed with its module in
section 3.

## 2. Plan

Ordered by what hurts most when it goes wrong. All steps but the last are done.

1. **ArchiveFile**: the bytes of an in-place write. Checked and proved.
2. **ServerArchive**: what everybody who edits the server's archive leaves in
   it. Checked and proved. It takes one archive write as a step; ArchiveFile is
   the inside of that step.
3. **ServerProc**: ports, claims and pids. Checked and proved.
4. **ContentJobs**: the one job and its content sync. Checked and proved.
5. **PackQueue**: packages built in the background. Checked and proved.
6. **JsonFile**: saving `profiles.json`. Checked and proved.
7. **KspkgTable**: `find_entry`. Checked and proved.
8. **Updater**: apply, the swap script as a second process over `.exe`, `.new`
   and `.old`, the relaunch. Checked and proved, its refinement of **Installed**
   included.
9. **TrackPack**: a shared track's pack, its sidecars, and a joiner that pulls
   it in ranges. Checked and proved.
10. **TrackInstall**: track packs and folders put in and taken out. Checked and
    proved.
11. **Conversion**: the conversion job and its converter process. Checked and
    proved.
12. **Drive** with **LobbyFetch**: Quick Drive's job, the menu it works, and
    the list it captures. Checked and proved.
13. Left: the installs of cars and liveries (`place`, `retire_car`), the
    joiner's install of an `.acemod`, `registry.json` and its pruning, the
    Linux swap of the updater.

Every safety and action property that a run checks is a theorem (section 6).
A theorem left: an *atomic archive* (each write takes effect entirely or not at
all) as an abstract specification of ArchiveFile.

## 3. Modules

Each module has one action per step of the code that another actor, a crash or
a failure can come between. Actions are named for the function or the step, and
every definition's source lines are in `PROJECT.json`. A definition whose name
has the form `Action_Something` is a mutant: the action with a plausible
mistake, used only to show that a property fails when the code is wrong.
`MC<module>` holds the small instance.

Several of the program's weak places end what a property promises: a claim
dropped too early, a flag that could not be written, a backup cut short. They are
steps of the models like any other. A history variable that no action looks at
remembers that one was taken (`left.dropped`, `left.had`, `scene.cut`, ...), and
the property holds until then. It thus says that *nothing else* breaks the
promise, and the history names the lines that do. Section 7 lists them.

### ArchiveFile - `kspkg_write.rs`, `archlock.rs`, `penalties::write_entry`

State: `disk` (cells of the file), `len`; `bak`, `bakLen` (`.bak_tables`);
`owner` (the named mutex); `pc` and `w` (each process: where it is, and the
local variables `start`, `orig`, the tail in memory, the records, the new
table, the write position); `committed` (history: where each entry's payload
is according to the last write that took effect). The file is a sequence of
cells; the table is the last `TableCells` of them, a record is `Bucket` cells,
and a payload need not be a multiple of that, so that a table read at the wrong
offset parses as nothing, as with the program's records.

`Call` .. `Lock` | `LockTimeout`, then `Refuse` | `ReadInplace` | `ReadPatch`,
`SaveTail` | `SaveFails`, `PutBlob` (one cell at a time), `BuildTable`,
`PutTable` (one cell at a time), `SetLen`, `Verify` | `VerifyFails`; after an
error `WriteFails`, `PutBack` | `PutBackFails`, `CutBack`. `Crash` may come at
any point, and the abandoned mutex counts as acquired, as in `lock`. A full
volume is not a fault but a write that returns an error at the cell `Cap + 1`.

Promises: a quiet archive serves every entry with its last payload
(`QuietServes`); no write lands on a payload a whole table points at
(`DataKept`); an in-place write that found a whole table can be undone at every
instant: a whole table is in the archive or in `.bak_tables` (`Recoverable`). One
writer at a time (`OneWriter`) is proved.

### ServerArchive - `trackdeploy.rs`, `damage.rs`, `penalties.rs`, start

State: `arch` (the build, the deployed tracks, the penalty entry, the practice
template with its own build, damage and triggers, the race template's damage),
`backup` and `note`, `bak1` and `bak2` (penalty backups), `build` (what Steam has
installed), `live` (the running server), `lock`, and the operation of each
actor. The guards are the code's refusals: server running, game running,
nothing missing, no backup, other build. `Killed` ends every operation under way.

The toggle's backups are written by a plain `fs::write`: `Save1`, `Save2`
truncate the file that is there, `Fill1`, `Fill2` write it, and a failure or a
kill between the two leaves it empty or half written, which a later `Put1`,
`Put2` puts back as it is. `scene.cut` remembers that this happened, or that a
restore read a backup while it was being written. `Percents` is the damage
`status` finds: of the templates that parse and are not foreign.

Promises: the archive is that of the installed build (`OneBuild`); what is
deployed stays (`TracksKept`); there is a way back (`WayBack`); what the toggle
took out it can put back, until a backup is cut short (`PenaltiesBack`); a server
runs with its profile's damage in every template that can be read, and there is
one (`ServedAsAsked`).

### ServerProc - `serverproc.rs`, `procs.rs`

State: `proc` (each pid: free, a server of a profile with its ports and whether
it listens, another program, or gone), `http` (each profile's status port, which
a start may move), `runtime`, `snap` (the cached process list), `claims`,
`lock`, `c` (each client's request). A start is nine steps from `AskStart` to
`Bound`; a server listens when the external `Listen` says so. `KillAll` ends the
servers it can and empties the claims all the same; `KillDenied` is a Stop whose
kill fails; `Launch` and `OtherStarts` may give a dead pid again that
`runtime.json`, the snapshot or a request still names. Profiles may have been
given one status page, as the default gives them.

Promises: no two servers on one port, until a claim is dropped while a server is
being launched or does not listen yet, or a page is moved onto a claimed port
(`PortsUnique`; both are `left.dropped`); Stop ends a server of the profile it
was pressed for, unless its pid was given again since (`left.reused`) or, found
by its page's port, it is of a profile that shares the page or has lost its claim
(`StopKillsOwn`); a profile can always be started again (`Restarted`).

### ContentJobs - `jobs.rs`, `contentsync.rs`, `push.rs`

State: `job`, `local` (each file: absent, another content, the host's),
`extras` (files the host no longer has), `registered` (the track's row in the
game's tables), `game` (the game runs, so the archive cannot be written), `pc`
and `w` (each request, which becomes its job's thread).

Requests test `JOB`, plan and begin beside each other. `job.taken` remembers that
`begin` took `JOB`, with the `_error` in it, from a thread at work.

Promises: no clean-up after a failed download (`NoDeleteAfterFailure`) and done
means everything planned is there (`HonestEnd`), until `JOB` is taken from a
thread at work; asking again completes what failed, whatever was taken
(`Converges`).

### PackQueue - `acemod.rs`

State: `src`, `part`, `pack`, `info` (each item's source, temporary file,
package, info), `queue`, `busy`, `failed`, the manifest threads `ask` and the
worker threads `wk`. `Digest`, `Look`, `LookFailed`, `Enqueue` are `advert` and
`queue`; `Take` .. `PutInfo` are `worker` and `build`.

Promises: an item waits at most once and a queued task always has a worker
(`NoLostTask`); the info names the package beside it, until two workers build one
item at once (`InfoNamesPackage`; `left.met`); each item is again and again ready
with its current files or known to fail (`Advertised`).

### JsonFile - `profiles.rs` under `serverproc::upsert` and `delete`

State: `content` of each file on the disk, the two names `json` and `part`, and
each writer's loaded list and open file. A name and an open file are different
things: a rename moves a file another writer may still be writing. `Load`,
`Create`, `Write` | `WriteFails`, `Rename`, `Crash`. The same function saves
`runtime.json` and several other files.

Writers save at any time. `met` remembers that two had the one `.part` open
(`"part"`), or that one replaced the file another had loaded (`"list"`).

Promises: never half a file, until two have the `.part` open (`NeverHalf`). That a
save changes its own profile only, until two meet in either way (`KeepsRest`), is
proved.

### KspkgTable - `kspkg::find_entry`

One step is one bucket read: `Count` (where the empty tail begins), `Bound` (the
first id not below the wanted one), `Walk` (the records of that id, for ids
collide). Initial states are all dense sorted tables, which is what
`build_table` writes. Promise: the right answer, and no other (`Correct`). That
no read is outside the table is proved.

### Updater and Installed - `updater.rs`, `installer.rs`, `main.rs`

State: the files (`exe`, `old`, `new`, `marker`, `prev`, `pending`, `rolled`,
`bat`, the handshake files `okflags`), the program's processes `app`, the
scripts `script` with the line each is at, the waiting `relaunch` scripts,
`applying`, and each request inside `apply` (`c`). `AskApply` .. `Answer` are
apply, with the test of the pending flag (`AskApply`) and the taking of
`APPLYING` (`Claim`) two steps; `Wait` .. `Done` the lines of the batch file, each
a step of its own, since the power can go between two of them; `Boot`, `Settle`,
`Quit`, `Restart`, `Close` a process of the program; `PowerCut` ends everything
but the files.

What the code does not look at may fail: the write of the pending flag (`Flag`),
the copy of `.old` (`CopyRefused` leaves the file that is there, `Copied` half of
it) and the two copies and the write of `version.txt` (`Mark`, `Unmark`).
`left.had` remembers each kind: `cut`, `fault`, `flag`, `copy`, `mark`; `late`,
that the flag was written after another request had looked for it; and `second`,
that an update was begun beside a script that waits. `Alone` is that it was not.

`Installed` is the abstract specification: one current build, the one kept
aside, and four steps (`Keep`, `Replace` by a release after the present build
was kept, `Restore`, `Mishap`), until two updates cross (`Cross`). The mapping
takes for the current build the program file, or `.old` while a script is about to
put a file in its place.

Promises: no update is begun beside a waiting script, and no two scripts run,
unless the flag was lost or late (`OneSwap`). While `Alone`: a build that starts
is always the installed file or `.old` (`StartsAgain`); a rollback restores the
build the update was accepted from and what `version.txt` said then, but for a
copy or a marker that failed (`RollbackRight`); no script rolls back under a
program that serves (`KeepsLive`); Installed (`Implements`). A program that quits
for an update or a restart comes back, if nothing fails (`ComesBack`).

### TrackInstall - `install.rs`

State: `dest` (each track folder: which file is from which version), `old` (the
copies moved aside), `row` (folders with rows in the game's tables), `game`,
and each actor's operation. A pack is `AskPack`, `Unpack`, `Sidecar` (a name in
the pack may direct it to another folder), `Look`, `MoveAside`, `Place`, in the
fallback `Copy`, `Clear` and `PutBack`, then `DropOld` and `Register`; a folder
is deleted and copied; a removal is `Delete`, `Unregister`.

Promises: an installed track is never lost to a pack (`NeverLost`); no half
track stays (`NoHalf`); no track is touched but the one to be removed or, with a
replacement agreed to, the one the request was for and the one its pack's sidecar
names (`Confirmed`; section 7 on the second); dropping the pack again installs it
in the end (`Installs`).

### TrackPack - `registry.rs`, `contentsync.rs`

State: `track` (which change each of the host's files is from), `stamp` (what
`track_sig` says of them: number, size, newest time), `pack` (the tar, its `.sig`,
its `.sha256`), `lock` (`PACK_LOCKS`), the host's thread for each
request (`req`), the joiner's `job` and the files it `have`s. `Ensure`,
`AddFile`, `Name`, `WriteSig`, `WriteSha` are the build under the lock;
`ReadSha`, `OpenTar` the answer; `Plan`, `Request`, `Probed`, `GotRange`,
`Check`, `Unpack`, `FetchFile` the joiner, who falls back on single files
whenever the pack fails; `Others` stand for a push or an export of the same
pack. `Change`, `KillHost`, `Prune` and `Lose` come at any time, and so does
`Disguise`: a file of the old one's size that is no newer than the others, which
leaves the signature what it was or makes it one it once was.

Promises: a signature never lies, unless the last change is one it does not show
(`SigTruthful`); a job that ends well has nothing older than its plan, and nothing
put together from two tars, as long as every change was seen and every digest
written (`HonestEnd`); every joiner that keeps asking ends with the host's files,
unless their last change is not to be seen (`Converges`).

### Conversion - `convert.rs`, `converttrack.rs`

State: `work` (the converter's output folders), `dest` (the mods folder's
tracks), `row` (the name each track has in the game's tables), `game`, `job`
(`JOB`), `kids` (converter processes, which outlive ACECM), `hist` (the last
history entry), and each thread's operation. `AskStart`, `Spawn`, `KeepPid`,
`Wait`, `Check` and `EndJob` are the job; `Clean`, `Name`, `Write`, `Exit` the
converter; `AskCancel` and `KillChild` the stop; `Begin`, `Clash`, `Clear`,
`Copy`, `Declare`, `Drop` and `EndInstall` the install of either kind;
`AskUninstall`, `Unlist`, `Delete` the removal.

Promises: while a conversion under a new id replaces the old one there is
always a whole track in the list (`OldUntilNew`); a job installs nothing that
fails the check (`JobsInstallChecked`); a stopped conversion ends, and not as
done (`StopEnds`). `OneName` - no two tracks with one name - is proved.

### Drive and LobbyFetch - `drive.rs`, `launch.rs`, `backend.rs`

LobbyFetch is the single flight of `lobby_fetch`: `lobby` (whether one runs,
the last result), `list` (older or newer than the last capture), each caller's
step. Drive extends it: its capture is one of the callers. Drive's state is
`job` (phase, `CANCEL`, `JOB_THREAD`), `op` (each job thread's step), `game`
(its process, who launched it, the page it shows), `mark` (the page's own note
that Connect was pressed), `srv` (the user's own server), `req` (handlers), and
three histories: `pressed`, `conn`, and in `left.strayed` whether the player
left the page on which this job pressed Connect. A job's steps are its waits and
its calls into the menu; each wait can end by what it waits for, by Stop or by
its deadline. The game and the player are external: `Comes`, `Boots`, `Answers`,
`InSession`, `Captured`, `Moves`, `GameCloses`, `GameOpens`.

Promises: a job has one Connect with the game at a time, unless the player
leaves its page, where the note of it lives (`ConnectsOnce`); a job ends as
stopped only if Stop was pressed on it (`StopsOwn`); a capture that got no list
closes no game but its own, unless the player's came up beside it (`mixed`), and
leaves none running that it launched and saw, unless that would not even be killed
(`clung`) (`CaptureTidy`); a capture that ends well has a new list
(`CaptureFresh`); every job ends (`JobEnds`).


## 4. Runs

Each run is one question; where two kinds of instance are needed for it, they
are *scenes*: sets of bounds between which the initial states choose, so that
one run covers them all.

| Run | Instance and bounds | Shows |
|---|---|---|
| `archive_writes` | 2 processes, 3 entries, 2-cell records, a volume of 14 cells, 3 calls, 1 fault or crash | `DataKept`, `QuietServes`, `Recoverable` for track registration (two entries in one write), damage (one) and `write_entry` beside them |
| `archive_edits` | 2 actors, 2 tracks, 2 damages, 1 Steam update, 1 crash or lost note; scenes: deploy, redeclare, restore; start, deploy, redeclare; the toggle both ways; the toggle with deploy and restore | `OneBuild`, `WayBack`, `PenaltiesBack`, `ServedAsAsked`, `TracksKept` |
| `servers` | 2 pids, which are given again, 5 ports; scenes: 2 clients starting 1 profile, 2 deaths or failures, 1 other program; every request, one at a time, on 2 profiles with one game port and one status page, 1 death or failed kill, 1 other program; a start beside a stop; starts and stops on 2 profiles with 1 restart of ACECM | `PortsUnique`, `Restarted`, `StopKillsOwn` |
| `jobs_requests` | 2 requests of every kind beside each other, 2 files, 1 stale file, 2 faults | `NoDeleteAfterFailure`, `HonestEnd`, `Converges` |
| `packs_queue` | 2 manifest threads, 2 workers; scenes: 1 item of 2 versions, 1 change, 1 failed build, 1 crash; 2 items that stay as they are, until two workers build one of them | `NoLostTask`, `InfoNamesPackage`, `Advertised` |
| `profiles_crash` | 2 profiles, 2 writers that save at any time, 3 files, 2 crashes | `NeverHalf` |
| `table_find` | all tables of up to 5 records in 5 buckets over 5 paths and 3 ids | `Correct` |
| `update` | a good and a broken release, 3 pids, 2 scripts, 2 requests, 2 downloads, 1 mishap of any kind, until two scripts race | the six promises of the updater |
| `track_install` | 2 folders, 2 versions; scenes: packs by 1 actor on one folder with 2 faults, 1 kill, 1 game; packs by 1 actor that may name the other folder, 2 faults; packs by 2 actors on one folder, 1 kill; every request by 1 actor, 1 fault, 1 game | `NeverLost`, `NoHalf`, `Confirmed`, `Installs` |
| `track_pack` | 2 files, a joiner and a push; scenes: 2 changes and a kill; 1 change, a kill and a prune; 1 change and 2 faults; a change that is seen and one that is not | `SigTruthful`, `HonestEnd`, `Converges` |
| `conversions` | 2 ids, a good and a bad outcome, 2 threads; scenes: 2 conversions under a new id with a fault, a kill, a stop and the game; 4 requests of every kind in turn; 3 conversions and removals beside each other, 2 stops | `OldUntilNew`, `JobsInstallChecked`, `StopEnds` |
| `drive` | 2 job threads, 2 handlers, 1 other fetcher; scenes: 2 drives or joins, 1 lost answer, 2 moves of the player, 1 closed game; 2 captures and the player's own game, opened and closed at any time; 2 captures and another fetch; 1 capture and a game that cannot be killed; 2 jobs of every kind and 2 stops; 2 requests that do not wait for each other; 1 capture that waits for another fetch too long | `ConnectsOnce`, `StopsOwn`, `CaptureTidy`, `CaptureFresh`, `JobEnds` |

Why the bounds are enough to meet the interesting cases:

* *Archive.* A third call is needed for a write that finds what a failed one
  left; 14 cells let the first two in-place writes fit and the third find the
  volume full in its payload or its table. Two processes are all the mutex
  distinguishes. Three entries give the write an entry before, between and
  after those it changes, in table order.
* *Server archive.* Two actors give every interleaving of two reads around a
  write; a second track tells one lost row from none; one update separates old
  builds from the new one. One crash at a time, but at every step.
* *Servers.* Two clients for the race to start and for a stop beside a start; two
  pids, so that two servers, or a server and another program, are alive together
  and a dead one's pid comes back as another's; one port to move to. The scenes
  keep apart what has its own history: claims dropped by a stop, by a stop of all
  that fails, by a restart.
* *Jobs.* Two files show a partial download; two requests the takeover. Two
  faults let the retry fail as well.
* *Packages.* One of each event, at every step. Two workers can run for one
  item already: an old one that is about to clear `BUSY` and a new one. Two items
  are what makes two workers build the same one; with `met` nothing is left to
  say of the info, and `CONSTRAINT MCUpToMeeting` ends the run there: of two
  items `Advertised` is checked as long as no two workers have met.
* *Profiles.* Two writers meet in every way two can; three files are the one in
  place, the one named `.part` and one that was renamed under a writer.
* *Tables.* Five buckets give both searches several halvings, with the empty,
  the full and the one-record table among them, and two paths with one id.
* *Updates.* The second download finds what the first, its rollback or its
  mishap left; three processes are the one that quits, the one the script
  starts and one the user opens. One mishap, at every line. Two requests are the
  one in `apply` and the one between its two tests. Where two scripts race
  nothing is promised, `ComesBack` included, which exempts a lost or late flag
  like any mishap: `CONSTRAINT MCUpToRace` ends the run in that state. The
  invariant of the proofs was checked with two mishaps as well.
* *Tracks.* One version has a file more than the other, so that a mix is told
  from a whole track; the second folder is free, so that a sidecar can name
  another one. Two faults let the fallback of a failed move fail too.
* *Track packs.* Two files and two ranges are the least that can be mixed. Two
  changes let the pack be old, and old again, between two ranges of one pull; the
  one that is not seen may come before or after the one that is.
* *Conversions.* Two ids are the replaced and the new track; the second job
  meets the first one's leavings.
* *Drive.* Two threads are an ended job and its successor; one lost answer is
  what can make a second Connect, and two moves take the player off its page and
  back. One game opened by the player can come before, during and after the
  launch of the capture's own.

`CHECK_DEADLOCK FALSE` stands where the system may really stop: all calls or
requests of the bound made, a job that has ended with nobody asking, a lookup
that has answered.

## 5. Fairness

Liveness is checked, never proved (section 6). ArchiveFile, ServerArchive,
JsonFile and KspkgTable state no liveness and no fairness.

* `ContentJobs!FairSpec`: weak fairness of handlers and job threads.
  `PatientSpec` adds what `Converges` is about: the player closes the game at
  some time and goes on pressing the button.
* `PackQueue!FairSpec`: weak fairness of the threads, and strong fairness of a
  manifest asking for each item: joiners poll the manifest, and nothing is
  built that no manifest asks for.
* `ServerProc!FairSpec`: weak fairness of requests, of time (`ClaimExpires`,
  `SnapExpires`), of a launched server coming to listen or dying; strong
  fairness of the user pressing Start for each profile, since a Start is
  refused while another is under way.
* `Updater!FairSpec`: weak fairness of each script's lines and of what a
  running process does by itself (start up, come to rest, quit when it was told
  to, be started by a relaunch). Mishaps, users and requests inside `apply` have
  none.
* `TrackInstall!FairSpec`: weak fairness of an operation's steps and of the
  player closing the game; strong fairness of the user dropping the same pack
  again, which `Installs` is about.
* `TrackPack!FairSpec`: weak fairness of the host's threads and of the joiner;
  strong fairness of taking the pack's lock, which others take in between.
* `Conversion!FairSpec`: weak fairness of the threads and of the converter.
  Nobody has to ask for anything: `StopEnds` is about jobs under way.
* `Drive!FairSpec`: weak fairness of the job threads and of the fetches. Every
  wait of a job has a deadline, so its end does not depend on the game; asking
  the menu again has no fairness, and the game and the player have none.

## 6. Proofs

What TLAPS proves holds for any number of processes, actors, tracks, entries,
files, joiners, requests, buckets, releases, any volume size and any number of
faults. It rests on the named `ASSUME`s on constants (sizes are naturals, `None`
is not a process, the initial archive fits its volume), which TLC evaluates in
every run of the module, and on the hypotheses a theorem names. Every invariant
was first checked by TLC.

Modules that share a subject share a proof module; the definitions of one of
them then have names of their own (`EditsSpec`, `FindSpec`, `PackSpec`,
`FileSpec`). Two theorems have a hypothesis beyond the constants' own
(`[]PatchesFit`, `OneOrSure`), named below with the reason why the program needs
it. All others are of `Spec` as it stands, with any number of requests of every
kind beside each other; the histories of section 3 are in the properties.

**ArchiveProofs, ArchiveFile.** `TypeCorrect`, `OneWriterAlways`,
`DataKeptAlways`, `RecoverableAlways`; under `[]PatchesFit` `QuietServesAlways`.
None is inductive as it stands. For the first three `IInv` adds to the types and
to `DataKept`: the file is never shorter than a table; every committed payload
ends before the table begins (`Floor(len - TableCells)`); and for each process
(`WorkOK`) that whoever is past `Lock` and before `Return` is the owner - from
which `OneWriter` follows - and that once it has read the archive, its write
position is past its `start`, its whole old table lies within the file, and
every committed payload ends at or before `start`. The last is the heart of
`DataKept`: all writes of a call, its rollback and its undo included, go to
cells above `start`, all payloads of the last whole table lie below it, and the
mutex keeps anybody from moving that place between `read` and the end. `Settle`
- a write that took effect makes its payloads the committed ones - is where the
floor rises, and where the payloads just written have to be shown to be there
(`WroteOn`). The proof has one lemma per action, over lemmas about what a write,
a return and a fault leave alone.

`Recoverable` needs one more conjunct for each writer, `Saved`: what there is of
`.bak_tables` is the tail its write read; until it is all there the archive still
ends in that tail, and afterwards it stays there. Putting it back after `start`
then serves what the write found, since by `DataKept` the payloads are there.
Nothing limits the failures: a rollback whose own writes fail leaves the saved
tail alone.

`QuietServes` says that the table in the file is the right one, so its invariant
`Flowing` follows the write: `Listed` (the records located so far), `Through`
and `Filling` (the payloads below and above the cursor), `Laying` (the cells of
the new table that are there), `Returning` (those of the old one after a full
volume), and `Sound` when nobody is past the read. It rests on lemmas about what
`Built`, `Upsert` and a patched record locate, each proved from the set
comprehension that defines them. Its hypothesis `[]PatchesFit` says that no
penalty write meets a full volume: `write_entry` keeps no tail, so that a table
torn there stays torn (section 7).

**ArchiveProofs, ServerArchive.** `EditsTyped`, `WayBackAlways`,
`PenaltiesBackAlways`, `OneBuildAlways`, `TracksKeptAlways`,
`ServedAsAskedAlways`. `EditsInv` is `Typed /\ Deployed /\ Toggled`. `Typed`
says which local variables an actor has at each step, and that the mutex is held
exactly at the steps under it; `Deployed`, that an actor about to write a
deploy, its note or a restore has a backup, which is from before the first
track; `Toggled`, that what the archive *or its backup* has lost to the toggle
is in the toggle's own backups (a restore can bring a cleared entry back), each
of which is whole or being written by an actor that still holds a whole entry,
and that an actor about to clear an entry has saved it - until `scene.cut`.
`OneBuild` needs a second invariant on top, `Builds`: while no note was lost,
the note is the build of the backup, except between the copy and the note, and
the backup an actor is about to note or to put back is of the installed build.
It uses that `Update` happens while no operation of ACECM is under way.
`TracksKept` needs `Seen`: the table an actor is about to write back is the one
it read, since it has held the mutex since; with it a deploy can only add.
`ServedAsAsked` needs `Served`: at most one start is under way, no server runs
beside it, it counts its damage as applied only just before the launch, and,
unless toggles or restores are on offer, nobody else writes a template.

**ArchiveProofs, KspkgTable.** `ReadsInside`, `FindsRight`. The invariant is
what each loop has ruled out so far: in `Counting` every bucket below `lo` is a
record and every one from `hi` on is blank; in `Bounding` every id below `lo` is
below the wanted one and every one from `hi` on is not; in `Walking` no record
before `lo` matches. `Built` (dense, sorted by id) is kept because nothing
writes the table.

**ServerProofs, JsonFile.** `FilesCorrect`, `WholeAlways`, `RestKept`, for any
number of writers that save at any time. Until two have the `.part` open, at most
one has a file open at all (`OneHolds`), and that file is the one named `.part`,
truncated before it is written and whole before it is renamed (`OpenOK`); another
save that creates the `.part` meanwhile is what ends this. Until a rename
replaces what another has loaded, what every writer is going to write differs
from what is there in its own profile only (`ListOK`).

**ServerProofs, ServerProc.** `ServersTyped`, `PortsUniqueAlways`,
`StopKillsOwnAlways`. `PortsUnique` needs `Clear`, which holds until
`left.dropped`: no two servers share a port (`Disjoint`); a server that does not
listen yet has its ports claimed (`Covered`); a start that is past the look at
the claims has none of its ports claimed by another, past `busy?` it shares none
with a server, and when it launches it has them claimed (`StartOK`). That only
one start is under way (`LockOK`) keeps other starts out; that a claim goes only
with a listening or dead server, or is remembered in `left.dropped`, keeps the
rest out.

`StopKillsOwn` needs that whatever is known as a profile's server - in
`runtime.json`, in a copy of it that a request is about to save, in a request
that watches or kills - is such a server, or dead, or was given again (`Owned`,
`Recorded`, `RequestOK`), also of the pids of a snapshot (`SnapOwned`); that a
snapshot lacks no server but the one being watched (`Seen`), so that a page is
moved only off a port of no server; and that two profiles with one page were given
one (`PagesOK`), so that a server found by its page is the profile's own but where
`Shares` or a dropped claim says otherwise (`Match`).

**SharingProofs.** ContentJobs: `TypeCorrect`, `NoDeleteAfterFailureAlways`,
`HonestEndAlways`, whatever requests look, plan and begin beside each other. The
invariant is `job.taken`, or `OneAtATime` - at most one thread is at work, and
then `JOB` is running, so that the `_error` a thread reads is its own - and
`DoneBy`: a thread past its downloads without an error has every file it planned.

PackQueue: `PackTypeCorrect`, `NoLostTaskAlways`, `InfoNamesPackageAlways`, for
any number of items. `NoLostTask` is inductive with the types and `Once` (an item
waits at most once). For the info, `Lone` says until `left.met` that no two
workers build one item (`Apart`), that each info names the package beside it, and
what the temporary file, the package and the info of an item hold at each step of
the worker that builds it (`Placed`).

**UpdaterProofs.** `TypeCorrect`, `OneSwapAlways`, `StartsAgainAlways`,
`RollbackRightAlways`, `KeepsLiveAlways`, `ImplementsAlways`, for any number of
requests inside `apply`. The invariant is `TypeOK`, `Timely => Alone` (while no
flag was lost or late no second update is begun beside a waiting one) and `Alone
=> Sound`. `Sound` says that the port has one owner and that a copy that runs
from the installed file runs what is in it (`Alive`); that `APPLYING` lets one
request in (`OneInside`); that a request up to its script finds no other script
and a good program file, and one not yet inside at most a script that waits for
the very copy it runs in (`AskOf`); that a script whose program still runs is
noted in `pending`, or is about to be by the request that made it, or the flag
was lost (`Waited`); that a request past the test of the flag has missed a
script only while that script's request is about to write it (`Unmissed`) - with
`AskOf` and `Waited` this is what keeps a second update out, and where it does
not, `late`, `flag` or `second` is in the history; and, for the one script there
is (`Swapping`), what `exe`, `old`, `new` and `version.txt` hold at each of its
lines (`Lines`). `StartsAgain` is a conjunct of it: at every line one of the two
places holds a build that starts. `Implements` is the refinement of Installed:
the initial states map to an initial state, and each action to `Keep`,
`Replace`, `Restore`, `Mishap`, `Cross` or a stutter under the mapping of
section 3, one lemma per line of the script; `Lines` says at each what was kept
aside.

**TrackInstallProofs.** `TypeCorrect`, `NoHalfAlways`, `ConfirmedAlways`;
under `OneOrSure` `NeverLostAlways`. `Confirmed` follows a request's folder from
the one asked for to the sidecar's. `Acts` says who is at work and whose each
copy moved aside is; `Working`, for one request at a time, what its folder holds
at each step: nothing before `Place`, exactly the files copied so far in the
fallback, a whole track when the copy aside is about to be dropped. `Fine` adds
that every other folder is whole or empty, as long as no failure that `NoHalf`
names has left half of one. `NeverLost` needs `Lossless`: a copy moved aside
counts until its request is about to delete it. `OneOrSure` - one request at a
time, or no failing file operation - is there because two packs of one track can
be mixed by the fallback copy, and a failure then drops the whole one
(section 7); what is proved of several at a time is that some of the track is
there.

**TrackPackProofs.** `TypeCorrect`, `SigTruthfulAlways`, `HonestEndAlways`. The
proof of `SigTruthful` rests on three facts: some file is the newest
(`HasNewest`), no signature is newer than it, and a change that is not seen
leaves the signature below it, where `SigTruthful` claims nothing (`Host`), while
one that is seen makes every signature taken before it old for ever; a builder's
signature is no newer than the newest file, and while it is that file's, so are
the parts it has read (`BuildOf`); and the builder holds the lock. As long as
every change was seen, the signature is the newest file's (`Stamped`). `HonestEnd` needs that what a request builds, finds or is answered with
is no older than its joiner's plan (`Asked`, from `Later`); that a tar has a
digest as long as every digest could be written (`Digests`); and that the same
holds of the ranges a joiner has and of the files it took from them (`Planned`,
`Ranges`, `Fetched`).

**ConversionProofs.** `TypeCorrect`, `OldUntilNewAlways`, `OneNameAlways`,
`JobsInstallCheckedAlways`, from one invariant. `Shape` says what a thread's
record holds at each step; `JobHeld`, that one thread at most is inside the job,
that the job is running then, and that a converter that is no orphan is that
thread's; `Alone`, that in a serial scene one thread or one orphan is at work;
`Checked`, that between the check and the copy the folder holds what was
checked, because nothing else writes it; `NameKept`, that a name which was free
when it was asked for stays free until its row is in; `Replacing`, how far the
new track is at each step before the old one goes.

**DriveProofs.** `TypeCorrect`, `ConnectsOnceAlways`, `StopsOwnAlways`,
`CaptureTidyAlways`, `CaptureFreshAlways`; that requests wait for each other
(`Serial`), `mixed` and `clung` are in the properties. `IInv` is `TypeOK` and,
when `Serial`, `Orderly`: one job works at a time and none while another is
asked for (`OneJob`); a Stop on its way, or one that has arrived, was pressed on
the job that runs (`OwnStop`); the page's note is on the multiplayer page, and
Connects wait only in a menu that listens (`Noted`); a list that was written is
new (`Written`); and for each thread `Fits`, what its step allows of its own
fields (`Place`), of its Connects and the note (`NoteOf`), of the game it
launched (`GameOf`) and of its fetch (`ListOf`). The heart of `ConnectsOnce` is
`NoteOf`: a job that may press Connect again has pressed it before only if the
note is still on the page, where the press sees it, or the player has left that
page. The lemma `GoesOn` says what a step of one thread has to show for all of
this to be kept, and each action has a lemma that shows it.

Only model-checked: all liveness (`Converges` of ContentJobs and of TrackPack,
`Advertised`, `Restarted`, `ComesBack`, `Installs`, `StopEnds`, `JobEnds`), which
TLAPS cannot do under fairness. What a recursive definition computes would need
induction over data, which is out of reach too: ArchiveFile takes its table as a
set comprehension, and no module declares a RECURSIVE operator.

## 7. Where it does not hold

Things the source, its comments or the documentation say that the program does
not do. The first is met by changing the scenes of a run; the others are steps
of the runs as they are, and the properties hold until one of them is taken.

1. *Nothing that fails the check is put in the game* (`README.md:159`, of
   conversions). `install_api` (`converttrack.rs:455`) copies a work folder
   without a check, and the page offers Install as long as the last history
   entry is ok, which a stopped conversion leaves alone. `Scenes <- PageScenes`
   and `INVARIANT OnlyChecked` in `Conversion_scenes.cfg`: a conversion, a
   second one stopped half-way, and its folder installed.
2. *A failed download followed by the clean-up* (`jobs.rs:130`). The failure
   travels to the job's thread through `JOB["_error"]`; `begin` of another
   request, which asked `running()` before it planned over the network, removes
   that key (`job.taken`). The thread deletes the stale files of a download that
   failed and reports done.
3. *A package and an info of different builds* (`acemod.rs:138`). Two items
   queued by one manifest start two workers; the second overwrites `BUSY`; the
   first item is queued again and built twice into one `.part` (`left.met`).
4. *Overlapping saves* of `profiles.json` share one `.part`: half a file may be
   renamed into place, and each saves the list it loaded (`met`).
5. *One at a time* (`updater.rs:607-610`, of `apply`). `swap_pending` is tested at
   618, `APPLYING` taken at 621, and the flag written at 703 after the script runs,
   its error ignored. A request that was between the two tests, or one that comes
   after a flag that could not be written, begins a second update beside the
   script that waits. The second script then moves the new build onto `.old` - if
   that build does not start, nothing that starts is left.
6. *The previous build was restored* (`updater.rs:493-496`). `copy /y` of `.old`
   and of `version.txt.prev` are not looked at; refused, they leave the failed
   release, or its version, in place, and the rollback is reported all the same.
7. *Claim the ports before launching* (`serverproc.rs:501`). A stop drops the
   claims of its profile (644) without `START_LOCK`, a stop of all drops every
   claim (621) although a kill failed, a restart of ACECM forgets them, and a page
   that is moved (473-484) is not looked up among them (`left.dropped`): two
   servers can then come to be on one port.
8. *Identify the process first* (`serverproc.rs:614-615`, of `stop`). A recorded
   pid need only be alive (632); Windows gives pids again (171), and Stop then ends
   another program. A server found by the page's port (609-612, 633) may be another
   profile's: the default page is one for all, and this path lacks the
   `port_shared` guard (153) that the status has.
9. *The toggle's backup* (`penalties.rs:205, 217`) is truncated and then written:
   a failure or a kill leaves half of it, which `restore` (236-237) puts back
   (`scene.cut`).
10. *The same conflict check as the folder asked for* (`install.rs:929-945`). With
    a replacement agreed to for one track the check is not made again for the
    folder a pack's sidecar names: that track is replaced unasked.
11. *Rebuilt only when files change* (`registry.rs:348-358`). `track_sig` is the
    number of files, their total size and the newest time; a file replaced by one
    of its size with an older time changes none of them, and the stale pack is
    served as current.
12. *A capture closes its own game* (`drive.rs:1605-1618`): `close_game` may fail
    in the end, and none of its callers looks (1674, 1732, 1739, 1753); and a game
    the player opens while `launch_game` waits for its own is taken for it.

Further limits, met by lifting a bound or a precondition; they are in the
instances or in the properties, and named in the hazards.

*Archive.* `Recoverable` speaks of writes that found a whole table, since the
next one need not: after a crash during the rollback of a failed write, another
write accepts the torn table, for `is_encrypted` looks at its first record, and
saves it over `.bak_tables`; then there is no whole table any more.
`write_entry` keeps no tail: a full volume, which a fourth call can meet there,
tears the table until it is restored by other means. A penalty toggle beside a
start can put back a template with the damage it had before, and after a Steam
update the old build's template: `penalties.rs` reads before it locks and keeps
no build. After an update `restore` refuses the old backup, and no new one is
made while it exists. `trackdeploy.rs:237` asks whether a server runs before it
waits for the lock.

*Servers.* A panic under `START_LOCK` would poison it, and every later start
would be told that one is in progress.

*Content.* A package whose source changes during its build is published under
the old digest; the joiner's own check refuses it. Files of an extracted pack
are only tested for being there. Files whose folder fails `safe_folder` are left
out of a download with a line in the log (`contentsync.rs:923-926`). A `.sha256`
that could not be written leaves an old one or an empty header behind, and the
joiner then checks nothing.

*Tracks.* Two packs of one track at a time can be mixed by the copy that
`swap_in` falls back on. `install_track_folder` deletes the old copy before it
copies, and `remove_track` deletes the files after an unregister that failed
and was only logged.

*Conversions.* After a stop in the middle of the writing the work folder has no
declaration, and `clean_out` refuses it for good; a half-copied folder is
refused by `install_built` in the same way. Under the same id the old files are
deleted before the copy. A converter that outlives ACECM can rewrite or empty
the folder a new job checks or copies. `install_api` tests `JOB` once and does
not hold it. A stop during the check is answered ok and ignored.

*Drive.* Start and capture test the phase and set it in two steps: two answered
at once make two jobs, and `JOB_THREAD` names the later. A drive that gives up
on a game which Steam is still bringing up leaves it. A Stop right after
Connect and a new join can send a second Connect; so can a lost answer when the
player leaves the page and comes back before the next try. `press_start` evaluates again
after a lost answer. A waiter of `lobby_fetch` whose wait times out
gets the result of the fetch before (`backend.rs:731`). `server_list`
(`backend.rs:826-831`) may write an older list of the proxy's over a newer fetch;
the model's list only gets newer.

## 8. Abstractions

* ArchiveFile: payload bytes are cells that carry an entry and a version;
  encryption, ids and header fields are left out, except that a misaligned
  record does not parse. `is_encrypted` looks at one record, as in the code.
  Reads are taken as one step: they are made under the lock.
* ServerArchive: one archive write is one step; several entries written by one
  `write_inplace` change together, which is ArchiveFile's promise. One server
  runs at a time. A track is its row and files.
* ServerProc: a server listens, or is dead, before the start-up grace of 45 s
  ends (`ClaimExpires` waits for that); other programs do not take a port
  between the test and the claim; the snapshot's life of 1.5 s ends within the
  6 s watch. Windows gives the pids of dead processes only; of those that nothing
  in the program still names, it makes no difference which.
* ContentJobs: one track, its files, and one download per file; a pack is
  fetched whole or not. Progress numbers and texts are left out.
* PackQueue: a package is the version of its source; digests are injective.
* JsonFile: a profile is its id; a save is one write, which may be cut short.
* KspkgTable: a bucket is a path or blank; a table written by `build_table` is
  dense and sorted. Archives whose header was zeroed by other tools
  (`repair_headers`) are outside the precondition; there
  `trackdeploy::read_entry` falls back on a scan and `damage::read` does not.

* Updater: a release is a build that starts or one that dies before it binds
  its port; the forty seconds of the handshake are longer than a start, and the
  two seconds of the relaunch than a bind. Nobody opens the program or asks for
  an update in the seconds between the end of the waiting and the script's end
  (`Calm`). The Linux swap and the take-over of a headless instance are left out.
* TrackInstall: a track is its files, each of one version. A pack's contents are
  one version; zip entries and names are data.
* TrackPack: a file is the time it was written; the pull's ranges come one after
  another; the two sidecars are written at once or not at all. The joiner is not
  killed: its downloads are repeated by the job that follows.
* Conversion: tracks only. The table write is one step (ArchiveFile), a job's
  last state and its history entry are written together, and the pictures under
  `uiresources` are left out.
* Drive: a menu page is a document, so a note set in it is lost when the page
  changes; there is one server to join. Phases that no decision tells apart are
  `busy`. The lobby proxy's start, the game-mode file, and a launch through
  Steam when the program is missing are left out.

Not modelled: see the components with status `not_modelled` in `PROJECT.json`,
each with its reason. In short: the last step of the plan, pure data translation
(the converter is more than half of the repository's Rust and keeps no state
between two runs), protobuf edits and parsing, readers without state, and the
other side of protocols that this repository does not contain (game, lobby).
