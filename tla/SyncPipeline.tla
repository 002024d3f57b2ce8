---------------------------- MODULE SyncPipeline ----------------------------
(***************************************************************************)
(* From a committed write to the remote: the attribution journal           *)
(* (src/src/store/write-journal.ts), the sync engine (sync-engine.ts), its *)
(* scheduler and the console's routes that start it (sync-scheduler.ts,    *)
(* routes/live-ui.ts), the sticky notice (sync-status.ts), the clone and   *)
(* its remote (git/repository.ts), the retry and the poll (git/syncer.ts,  *)
(* server.ts), and the boot of all of them.                                *)
(*                                                                         *)
(* The store is the atomic store of AtomicStore.tla: a write changes one   *)
(* document.  Writes are numbered, and a write stands for its content, its *)
(* author and its line in the journal.  Edits that others push to the      *)
(* remote are numbered after MaxWrites.  A git command on the clone is one *)
(* step; it may fail, which covers a lock held by another git command.  A  *)
(* push takes three: it reads HEAD, the remote takes it, and the caller    *)
(* goes on; its answer may be lost on the way.                             *)
(***************************************************************************)
EXTENDS GitHistory

CONSTANTS
  Remotes,          \* the settings considered: whether CONFIG_GIT_REMOTE is set
  MaxWrites,        \* bound: writes through the engine
  MaxForeign,       \* bound: edits others push to the remote
  MaxToggles,       \* bound: clicks on the auto-sync switch
  MaxCrashes,       \* bound: deaths of the process
  MaxFaults,        \* bound: failed file operations and git commands
  Faulty,           \* the stages that may fail
  Fragile           \* the modes in which the process may die

ASSUME BoundsAssumption == MaxWrites \in Nat /\ MaxForeign \in Nat

VARIABLES
  (* on disk *)
  db,               \* db[p]: the write that p holds
  unlogged,         \* the write published but not yet in the journal, or 0
  pending, sending, \* pending.jsonl and sending.jsonl
  autoFile,         \* auto-sync.json
  tree,             \* the files of the clone
  local,            \* the history at its HEAD
  tracking, known,  \* its origin/main, and whether that ref exists yet
  remote,           \* the remote's main
  (* in the process *)
  mode,             \* "up", or the step of the boot
  saved,            \* pending.jsonl as journal.recover() read it
  stage,            \* stage[a]: what actor a is doing: "sync", "retry", "poll"
  snap, todo,       \* the snapshot being mirrored, and the files left to mirror
  dirty, sha,       \* what status() answered, and the commit that was made
  sent,             \* sent[a]: the HEAD that a's push under way has read
  waiting,          \* callers of syncNow() sharing the run under way
  notice,           \* SyncStatus.code
  synced,           \* ConfigCache.synced, the served syncedCommit
  autoSync, idle,   \* the scheduler's switch, and its debounce timer
  toggles,          \* switch requests that await auto-sync.json
  hasRemote,        \* the setting of this deployment
  writes, foreign, clicks, crashes, faults   \* counters

disk    == <<db, unlogged, autoFile>>
journal == <<pending, sending>>
git     == <<tree, local, tracking, known, remote>>
run     == <<snap, todo, dirty, sha, sent>>
switch  == <<autoSync, idle, toggles>>
counts  == <<hasRemote, writes, foreign, clicks, crashes, faults>>
vars    == <<disk, journal, git, mode, saved, stage, run, waiting, notice, synced, switch, counts>>

Writes == 1..MaxWrites
Up == mode = "up"

At(a, s) == Up /\ stage[a] = s
Goto(a, from, to) == At(a, from) /\ stage' = [stage EXCEPT ![a] = to]

(* The failure of what actor a is about to do.                             *)
Fault(a) ==
  /\ Up /\ stage[a] \in Faulty
  /\ faults < MaxFaults /\ faults' = faults + 1
  /\ UNCHANGED <<hasRemote, writes, foreign, clicks, crashes>>

-----------------------------------------------------------------------------
(* Writes.  onWrite appends to the journal before the engine releases its  *)
(* publication lock, then restarts the debounce timer.                     *)

Publish(p) ==
  /\ Up /\ unlogged = 0 /\ writes < MaxWrites
  /\ writes' = writes + 1
  /\ db' = [db EXCEPT ![p] = writes']
  /\ unlogged' = writes'
  /\ UNCHANGED <<autoFile, journal, git, mode, saved, stage, run, waiting, notice, synced,
                 switch, hasRemote, foreign, clicks, crashes, faults>>

Append1 ==
  /\ Up /\ unlogged # 0
  /\ pending' = pending \cup {unlogged}
  /\ unlogged' = 0
  /\ idle' = (idle \/ autoSync)
  /\ UNCHANGED <<db, autoFile, sending, git, mode, saved, stage, run, waiting, notice, synced,
                 autoSync, toggles, counts>>

-----------------------------------------------------------------------------
(* Who asks for a synchronization.  A call made during a run joins it.     *)

SyncNow(caller) ==
  /\ waiting' = waiting \cup {caller}
  /\ stage' = IF stage["sync"] = "idle" THEN [stage EXCEPT !["sync"] = "rotate"] ELSE stage

Manual ==
  /\ Up
  /\ SyncNow("manual")
  /\ UNCHANGED <<disk, journal, git, mode, saved, run, notice, synced, switch, counts>>

Tick ==
  /\ Up /\ autoSync
  /\ SyncNow("background")
  /\ UNCHANGED <<disk, journal, git, mode, saved, run, notice, synced, switch, counts>>

IdleFires ==
  /\ Up /\ idle
  /\ idle' = FALSE
  /\ IF autoSync THEN SyncNow("background") ELSE UNCHANGED <<waiting, stage>>
  /\ UNCHANGED <<disk, journal, git, mode, saved, run, notice, synced, autoSync, toggles, counts>>

(* POST /sync/auto: the preference is written, then applied, then flushed. *)
Toggle(on) ==
  /\ Up /\ on \notin toggles /\ clicks < MaxToggles
  /\ clicks' = clicks + 1
  /\ autoFile' = on
  /\ toggles' = toggles \cup {on}
  /\ UNCHANGED <<db, unlogged, journal, git, mode, saved, stage, run, waiting, notice, synced,
                 autoSync, idle, hasRemote, writes, foreign, crashes, faults>>

Toggled(on) ==
  /\ Up /\ on \in toggles
  /\ toggles' = toggles \ {on}
  /\ autoSync' = on
  /\ IF on THEN SyncNow("manual") ELSE UNCHANGED <<waiting, stage>>
  /\ UNCHANGED <<disk, journal, git, mode, saved, run, notice, synced, idle, counts>>

Dismiss ==
  /\ Up /\ notice # "none"
  /\ notice' = "none"
  /\ UNCHANGED <<disk, journal, git, mode, saved, stage, run, waiting, synced, switch, counts>>

-----------------------------------------------------------------------------
(* SyncEngine.performSync.                                                 *)

NoteCleanAsSuccess(result) ==
  CASE result \in {"synced", "clean"} -> "none"
    [] result = "no-remote" -> "backup-no-remote"
    [] result = "deferred"  -> "backup-deferred"
    [] result = "error"     -> "backup-failed"
NoteResult(result) ==
  CASE result = "synced"    -> "none"
    [] result = "clean"     -> notice
    [] result = "no-remote" -> "backup-no-remote"
    [] result = "deferred"  -> "backup-deferred"
    [] result = "error"     -> "backup-failed"

FinishOnly(result) ==
  /\ stage' = [stage EXCEPT !["sync"] = "idle"]
  /\ notice' = IF "manual" \in waiting \/ result = "error" THEN NoteResult(result) ELSE notice
  /\ UNCHANGED waiting
(* The run ends.  A console request notes any result, the scheduler only   *)
(* an exception.                                                           *)
Finish(result) ==
  /\ stage' = [stage EXCEPT !["sync"] = "idle"]
  /\ waiting' = {}
  /\ notice' = IF "manual" \in waiting \/ result = "error" THEN NoteResult(result) ELSE notice

RotateRemove ==
  /\ Goto("sync", "rotate", "rename")
  /\ sending' = {}
  /\ UNCHANGED <<disk, pending, git, mode, saved, run, waiting, notice, synced, switch, counts>>

RotateRename ==
  /\ Goto("sync", "rename", "snapshot")
  /\ sending' = pending
  /\ pending' = {}
  /\ UNCHANGED <<disk, git, mode, saved, run, waiting, notice, synced, switch, counts>>

(* db.snapshot() waits for the publication lock.                           *)
TakeSnapshot ==
  /\ unlogged = 0
  /\ Goto("sync", "snapshot", "mirror")
  /\ snap' = db
  /\ todo' = Path
  /\ UNCHANGED <<disk, journal, git, mode, saved, dirty, sha, sent, waiting, notice, synced,
                 switch, counts>>

Mirror ==
  /\ \E p \in todo :
       /\ tree' = [tree EXCEPT ![p] = snap[p]]
       /\ todo' = todo \ {p}
       /\ Goto("sync", "mirror", IF todo = {p} THEN "status" ELSE "mirror")
  /\ UNCHANGED <<disk, journal, local, tracking, known, remote, mode, saved, snap, dirty, sha,
                 sent, waiting, notice, synced, switch, counts>>

Status ==
  /\ dirty' = (tree # Tree(local))
  /\ Goto("sync", "status", IF dirty' THEN "commit" ELSE "discard")
  /\ UNCHANGED <<disk, journal, git, mode, saved, snap, todo, sha, sent, waiting, notice,
                 synced, switch, counts>>

(* Drain the rotated journal and commit the whole working tree.            *)
Commit ==
  /\ tree # Tree(local)
  /\ Goto("sync", "commit", "discard")
  /\ local' = Append(local, Diff(Tree(local), tree, sending))
  /\ sha' = local'
  /\ UNCHANGED <<disk, journal, tree, tracking, known, remote, mode, saved, snap, todo, dirty,
                 sent, waiting, notice, synced, switch, counts>>

(* A commit is reported once it is made.                                   *)
DiscardReported ==
  /\ At("sync", "discard")
  /\ sending' = {}
  /\ synced' = IF dirty THEN sha ELSE synced
  /\ IF dirty
       THEN /\ Goto("sync", "discard", "push")
            /\ UNCHANGED <<waiting, notice>>
       ELSE Finish("clean")
  /\ UNCHANGED <<disk, pending, git, mode, saved, run, switch, counts>>
Discard ==
  /\ At("sync", "discard")
  /\ sending' = {}
  /\ IF dirty
       THEN /\ Goto("sync", "discard", "push")
            /\ UNCHANGED <<waiting, notice>>
       ELSE Finish("clean")
  /\ UNCHANGED <<disk, pending, git, mode, saved, run, synced, switch, counts>>

(* Anything up to the push throws, also "Git reported changes but produced *)
(* no commit" when a pull made the working tree clean in between.          *)
SyncThrows ==
  /\ stage["sync"] \in {"rotate", "rename", "snapshot", "mirror", "status", "commit", "discard"}
  /\ \/ Fault("sync")
     \/ At("sync", "commit") /\ tree = Tree(local) /\ UNCHANGED counts
  /\ Finish("error")
  /\ UNCHANGED <<disk, journal, git, mode, saved, run, synced, switch>>

-----------------------------------------------------------------------------
(* GitRepository.push, by the sync run or by the retry timer.              *)

NotPushed(a, reason) ==
  /\ UNCHANGED synced
  /\ IF a = "sync"
       THEN Finish(reason)
       ELSE stage' = [stage EXCEPT ![a] = "idle"] /\ UNCHANGED <<waiting, notice>>

PushNowhere(a) ==
  /\ At(a, "push")
  /\ ~ hasRemote
  /\ NotPushed(a, "no-remote")
  /\ UNCHANGED <<disk, journal, git, mode, saved, run, switch, counts>>

(* git push reads HEAD: what is committed from here on it does not carry.  *)
Send(a) ==
  /\ hasRemote
  /\ Goto(a, "push", "sent") \/ Goto(a, "repush", "resent")
  /\ sent' = [sent EXCEPT ![a] = local]
  /\ UNCHANGED <<disk, journal, git, mode, saved, snap, todo, dirty, sha, waiting, notice,
                 synced, switch, counts>>

AcceptsForced(a) == TRUE
Accepts(a) == FastForwards(sent[a], remote)

Lands(a) ==
  /\ Goto(a, "sent", "pushed") \/ Goto(a, "resent", "pushed")
  /\ Accepts(a)
  /\ remote' = sent[a] /\ tracking' = sent[a] /\ known' = TRUE
  /\ UNCHANGED <<disk, journal, tree, local, mode, saved, run, waiting, notice, synced, switch,
                 counts>>

(* What the caller does once the push has ended: onSynced, or clear().     *)
Pushed(a) ==
  /\ At(a, "pushed")
  /\ sent' = [sent EXCEPT ![a] = <<>>]
  /\ IF a = "sync"
       THEN Finish("synced") /\ synced' = sha
       ELSE /\ stage' = [stage EXCEPT ![a] = "idle"]
            /\ notice' = "none"
            /\ UNCHANGED <<waiting, synced>>
  /\ UNCHANGED <<disk, journal, git, mode, saved, snap, todo, dirty, sha, switch, counts>>

(* The push of a ends in an error: the remote is ahead, or the network     *)
(* fails, perhaps only after the remote has taken the push.                *)
Refused(a) ==
  /\ IF Accepts(a) THEN Fault(a) /\ remote' \in {remote, sent[a]} ELSE UNCHANGED <<counts, remote>>
  /\ sent' = [sent EXCEPT ![a] = <<>>]

PushFails(a) ==
  /\ Goto(a, "sent", "fetch")
  /\ Refused(a)
  /\ UNCHANGED <<disk, journal, tree, local, tracking, known, mode, saved, snap, todo, dirty,
                 sha, waiting, notice, synced, switch>>

Fetch(a) ==
  /\ Goto(a, "fetch", "rebase")
  /\ tracking' = remote /\ known' = TRUE
  /\ UNCHANGED <<disk, journal, tree, local, remote, mode, saved, run, waiting, notice, synced,
                 switch, counts>>

FetchFails(a) ==
  /\ At(a, "fetch")
  /\ Fault(a)
  /\ NotPushed(a, "deferred")
  /\ UNCHANGED <<disk, journal, git, mode, saved, run, switch>>

CanRebase == tree = Tree(local) /\ ~ RebaseConflicts(local, tracking)

Replayed == Rebased(local, tracking)

Rebase(a) ==
  /\ Goto(a, "rebase", "repush")
  /\ CanRebase
  /\ local' = Replayed
  /\ tree' = Tree(local')
  /\ UNCHANGED <<disk, journal, tracking, known, remote, mode, saved, run, waiting, notice,
                 synced, switch, counts>>

(* A conflict, or a file of a mirror under way: the rebase is aborted.     *)
RebaseFails(a) ==
  /\ At(a, "rebase")
  /\ IF CanRebase THEN Fault(a) ELSE UNCHANGED counts
  /\ NotPushed(a, "deferred")
  /\ UNCHANGED <<disk, journal, git, mode, saved, run, switch>>

RepushFails(a) ==
  /\ At(a, "resent")
  /\ Refused(a)
  /\ NotPushed(a, "deferred")
  /\ UNCHANGED <<disk, journal, tree, local, tracking, known, mode, saved, snap, todo, dirty,
                 sha, switch>>

-----------------------------------------------------------------------------
(* The timers of server.ts, and the rest of the world.                     *)

(* git log origin/main..HEAD; where it fails, the answer is that nothing   *)
(* is unpushed.  It fails for good while there is no such ref; a single    *)
(* failure makes a tick of the retry change nothing.                       *)
Unpushed == IF hasRemote /\ known THEN Beyond(local, tracking) ELSE <<>>

RetryOnceNoticed ==
  /\ Unpushed # <<>> /\ notice # "none"
  /\ Goto("retry", "idle", "push")
  /\ UNCHANGED <<disk, journal, git, mode, saved, run, waiting, notice, synced, switch, counts>>
(* retryUnpushed.                                                          *)
Retry ==
  /\ Unpushed # <<>>
  /\ Goto("retry", "idle", "push")
  /\ UNCHANGED <<disk, journal, git, mode, saved, run, waiting, notice, synced, switch, counts>>

(* pull(), by the poll or the webhook; its errors are logged.  What        *)
(* follows it reads the database only.                                     *)
PollFetch ==
  /\ hasRemote
  /\ Goto("poll", "idle", "merge")
  /\ tracking' = remote /\ known' = TRUE
  /\ UNCHANGED <<disk, journal, tree, local, remote, mode, saved, run, waiting, notice, synced,
                 switch, counts>>

CanMerge ==
  /\ FastForwards(tracking, local)
  /\ \A p \in Path : Tree(tracking)[p] # Tree(local)[p] => tree[p] = Tree(local)[p]

PollMerge ==
  /\ Goto("poll", "merge", "idle")
  /\ IF CanMerge
       THEN /\ local' = tracking
            /\ tree' = [p \in Path |-> IF Tree(tracking)[p] # Tree(local)[p]
                                         THEN Tree(tracking)[p] ELSE tree[p]]
       ELSE UNCHANGED <<local, tree>>
  /\ UNCHANGED <<disk, journal, tracking, known, remote, mode, saved, run, waiting, notice,
                 synced, switch, counts>>

(* Another host, or an operator with a clone, pushes an edit of p.         *)
ForeignPush(p) ==
  /\ hasRemote /\ foreign < MaxForeign
  /\ foreign' = foreign + 1
  /\ remote' = Append(remote, [changes |-> {<<p, MaxWrites + foreign'>>}, names |-> {}])
  /\ UNCHANGED <<disk, journal, tree, local, tracking, known, mode, saved, stage, run, waiting,
                 notice, synced, switch, hasRemote, writes, clicks, crashes, faults>>

-----------------------------------------------------------------------------
(* Death and boot: ensureRemote, journal.recover, the engine's recovery,   *)
(* the scheduler, the cache; listeners and timers come last.               *)

Crash ==
  /\ crashes < MaxCrashes
  /\ (IF Up THEN "up" ELSE "boot") \in Fragile
  /\ crashes' = crashes + 1
  /\ mode' = "read"
  /\ saved' = {}
  /\ stage' = [a \in DOMAIN stage |-> "idle"]
  /\ waiting' = {}
  /\ notice' = "none"
  /\ synced' = <<>>
  /\ autoSync' = FALSE /\ idle' = FALSE /\ toggles' = {}
  /\ snap' = Tree(<<>>) /\ todo' = {} /\ dirty' = FALSE /\ sha' = <<>>
  /\ sent' = [a \in DOMAIN sent |-> <<>>]
  /\ UNCHANGED <<disk, journal, git, hasRemote, writes, foreign, clicks, faults>>

Boot(from, to) ==
  /\ mode = from
  /\ mode' = to
  /\ UNCHANGED <<db, autoFile, git, stage, run, waiting, notice, idle, toggles, counts>>

RecoverRead ==
  /\ Boot("read", IF sending = {} THEN "redo" ELSE "truncate")
  /\ saved' = IF sending = {} THEN {} ELSE pending
  /\ UNCHANGED <<unlogged, journal, synced, autoSync>>

(* writeFile truncates pending.jsonl and then fills it.                    *)
RecoverTruncate ==
  /\ Boot("truncate", "fill")
  /\ pending' = {}
  /\ UNCHANGED <<unlogged, sending, saved, synced, autoSync>>

RecoverFillAlone ==
  /\ Boot("fill", "remove")
  /\ pending' = sending
  /\ UNCHANGED <<unlogged, sending, saved, synced, autoSync>>
RecoverFill ==
  /\ Boot("fill", "remove")
  /\ pending' = sending \cup saved
  /\ UNCHANGED <<unlogged, sending, saved, synced, autoSync>>

RecoverRemove ==
  /\ Boot("remove", "redo")
  /\ sending' = {}
  /\ saved' = {}
  /\ UNCHANGED <<unlogged, pending, synced, autoSync>>

(* DBEngine.recover finishes the transaction that was under way.           *)
Redo ==
  /\ Boot("redo", "load")
  /\ pending' = IF unlogged = 0 THEN pending ELSE pending \cup {unlogged}
  /\ unlogged' = 0
  /\ UNCHANGED <<sending, saved, synced, autoSync>>

Load ==
  /\ Boot("load", "up")
  /\ autoSync' = autoFile
  /\ synced' = local
  /\ UNCHANGED <<unlogged, journal, saved>>

-----------------------------------------------------------------------------
Pushers == {"sync", "retry"}
Actors == Pushers \cup {"poll"}

Init ==
  /\ db = [p \in Path |-> 0] /\ unlogged = 0 /\ autoFile \in BOOLEAN
  /\ pending = {} /\ sending = {}
  /\ tree = db /\ local = <<>> /\ tracking = <<>> /\ known \in BOOLEAN /\ remote = <<>>
  /\ mode = "read" /\ saved = {}
  /\ stage = [a \in Actors |-> "idle"]
  /\ snap = db /\ todo = {} /\ dirty = FALSE /\ sha = <<>>
  /\ sent = [a \in Pushers |-> <<>>]
  /\ waiting = {} /\ notice = "none" /\ synced = <<>>
  /\ autoSync = FALSE /\ idle = FALSE /\ toggles = {}
  /\ hasRemote \in Remotes
  /\ writes = 0 /\ foreign = 0 /\ clicks = 0 /\ crashes = 0 /\ faults = 0

Sync ==
  \/ RotateRemove \/ RotateRename \/ TakeSnapshot \/ Mirror
  \/ Status \/ Commit \/ Discard \/ SyncThrows

Pushing(a) ==
  \/ PushNowhere(a) \/ Send(a) \/ Lands(a) \/ Pushed(a) \/ PushFails(a)
  \/ Fetch(a) \/ FetchFails(a) \/ Rebase(a) \/ RebaseFails(a) \/ RepushFails(a)

Booting == RecoverRead \/ RecoverTruncate \/ RecoverFill \/ RecoverRemove \/ Redo \/ Load

Next ==
  \/ \E p \in Path : Publish(p) \/ ForeignPush(p)
  \/ Append1 \/ Manual \/ Tick \/ IdleFires \/ Dismiss
  \/ \E on \in BOOLEAN : Toggle(on) \/ Toggled(on)
  \/ Sync \/ Pushing("sync") \/ Pushing("retry") \/ Retry \/ PollFetch \/ PollMerge
  \/ Crash \/ Booting

(* The timers keep firing, every ready continuation runs, and the          *)
(* supervisor restarts the process; nobody need click or write.            *)
Fairness ==
  /\ WF_vars(Booting) /\ WF_vars(Append1)
  /\ WF_vars(Tick) /\ WF_vars(Sync) /\ WF_vars(Pushing("sync"))
  /\ WF_vars(Retry) /\ WF_vars(Pushing("retry"))
  /\ WF_vars(PollFetch) /\ WF_vars(PollMerge)
  /\ \A on \in BOOLEAN : WF_vars(Toggled(on))

Spec == Init /\ [][Next]_vars /\ Fairness

-----------------------------------------------------------------------------
Stages ==
  { "idle", "rotate", "rename", "snapshot", "mirror", "status", "commit", "discard",
    "push", "sent", "pushed", "fetch", "rebase", "repush", "resent", "merge" }

(* Type invariant: the files, the histories and the state of the process.  *)
TypeOK ==
  /\ db \in [Path -> 0..MaxWrites] /\ unlogged \in 0..MaxWrites
  /\ pending \subseteq Writes /\ sending \subseteq Writes /\ saved \subseteq Writes
  /\ tree \in [Path -> 0..(MaxWrites + MaxForeign)]
  /\ \A history \in {local, tracking, remote, sha, synced} \cup {sent[a] : a \in Pushers} :
       \A c \in Range(history) : Touched(c) \subseteq Path /\ c.names \subseteq Writes
  /\ mode \in {"read", "truncate", "fill", "remove", "redo", "load", "up"}
  /\ stage \in [Actors -> Stages]
  /\ waiting \subseteq {"manual", "background"} /\ (waiting = {} <=> stage["sync"] = "idle")
  /\ notice \in {"none", "backup-failed", "backup-deferred", "backup-no-remote"}
  /\ autoSync \in BOOLEAN /\ autoFile \in BOOLEAN /\ toggles \subseteq BOOLEAN
  /\ known \in BOOLEAN

(* The write that p holds is in a commit of this history.                  *)
Holds(history, p) == \E c \in Range(history) : <<p, db[p]>> \in c.changes

(* Once the write that p holds is acknowledged, and until git has it, the  *)
(* journal says who made it; recover() holds a part of it in memory.       *)
Attributed(p) ==
  db[p] # 0 /\ db[p] # unlogged /\ ~ Holds(local, p) => db[p] \in pending \cup sending \cup saved

(* The two steps that do forget: a rotation that finds the entries of a    *)
(* run that failed, and a death between the two halves of writeFile.       *)
Lapse ==
  \/ RotateRemove /\ sending # {}
  \/ Crash /\ mode = "fill"

(* "Durable attribution for writes that have not yet reached Git": nothing *)
(* but these two steps loses the writer of a served write, whatever fails  *)
(* and whenever the process dies.                                          *)
AttributionKept ==
  [][ \A p \in Path : Attributed(p) => Attributed(p)' \/ Lapse ]_vars

(* An actor "travels with the write and reaches the commit the sync engine *)
(* writes": the commit that brings a write to git names its author.        *)
CommitsNameWriters ==
  \A c \in Range(local) : \A change \in c.changes :
    change[2] \in Writes => change[2] \in c.names

ReadyByJournal == hasRemote /\ pending \cup sending # {}
(* What PendingSync shows an operator before a manual sync.                *)
Ready == hasRemote /\ (pending \cup sending # {} \/ Unpushed # <<>>)

(* "Whether local backup work differs from the configured remote": while   *)
(* no run is under way, any attributed write that the remote lacks, the    *)
(* first of its document or a later one, is reported, provided that git    *)
(* log can answer.                                                         *)
ReportIsHonest ==
  hasRemote /\ known /\ Up /\ stage["sync"] = "idle" /\ unlogged = 0
    /\ (\E p \in Path : db[p] # 0 /\ Attributed(p) /\ ~ Holds(remote, p)) => Ready

(* "Rebasing keeps both sets of commits": no push ever rewrites what the   *)
(* remote has, and a rebase or a pull never drops a commit of ours.        *)
BothSidesKept ==
  [][ /\ FastForwards(remote', remote)
      /\ Range(local) \subseteq Range(local') ]_<<local, remote>>

(* A notice stays "until a successful sync or dismiss", or until the retry *)
(* has published: when it goes away unaided, a push has just ended, and    *)
(* the remote has all that the clone had committed when that push began.   *)
ClearedAfterPush ==
  [][ notice # "none" /\ notice' = "none" =>
        \/ Dismiss \/ Crash
        \/ \E a \in Pushers : stage[a] = "pushed" /\ FastForwards(remote, sent[a]) ]_vars

(* A sync "reports the Git commit only after a successful push": what it   *)
(* reports as synchronized the remote has, as long as nobody else pushes.  *)
SyncedIsOnRemote ==
  [][ Up /\ foreign = 0 /\ synced' # synced => FastForwards(remote', synced') ]_vars

(* Auto sync needs no further help: with nobody else pushing, once writes  *)
(* and failures stop, the remote comes to hold what the store holds.       *)
BackedUp ==
  <>[](hasRemote /\ Up /\ autoSync /\ autoFile) => <>[](Tree(remote) = db)
=============================================================================
