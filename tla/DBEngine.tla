------------------------------ MODULE DBEngine ------------------------------
(***************************************************************************)
(* The transactional file store: DBEngine (src/src/store/data-layer.ts)    *)
(* over the redo journal (transaction-journal.ts), the FIFO write lock     *)
(* (git/write-lock.ts) and the filesystem boundary (file-writer.ts).       *)
(*                                                                         *)
(* Every await in the code that lets another request run, or at which the  *)
(* process may die or a file operation may fail, separates two actions.    *)
(*                                                                         *)
(* A request is one caller of the engine: it takes db.snapshot(), decides, *)
(* and calls writeMany() once.  Its name stands for the UUID of its journal*)
(* directory.  A path is the rank of its name, so paths sort as numbers.   *)
(* A content stands for the hash of it (SHA-256 is taken as injective).    *)
(* The caller chooses the order of the files in a batch freely, so loops   *)
(* over the files of a batch visit them in any order.                      *)
(***************************************************************************)
EXTENDS Documents, Sequences, FiniteSets

CONSTANTS
  MaxCrashes,       \* bound: how often the process may die
  MaxFaults         \* bound: how many file operations may fail

ASSUME EngineAssumption == MaxCrashes \in Nat /\ MaxFaults \in Nat

VARIABLES
  (* on disk *)
  disk,             \* disk[p]: the document at path p, or Absent
  revision,         \* the .revision file
  dir,              \* requests that have a journal directory
  staged,           \* staged[r]: paths whose payload is still in r's directory
  intents,          \* requests whose directory holds an intent.json
  commitRev,        \* commitRev[r]: the revision in r's intent (0: never had one)
  ledger,           \* <<r, p>> that onWrite has appended to the write journal
  (* in the process *)
  mode,             \* "down", "recovering" (boot, before any listener) or "up"
  healthy,          \* ~ recoveryRequired
  publication,      \* the publication lock: its holder is the head of the queue
  pathLock,         \* pathLock[p]: the lock of path p, likewise
  pc,               \* pc[r]: where request r is
  todo,             \* todo[r]: paths left to visit in the current loop
  view,             \* view[r]: the snapshot r decided on
  seen,             \* seen[r]: the ETags r read under its path locks
  batch,            \* batch[r]: the arguments of r's writeMany
  reply,            \* reply[r]: the answer r was given, or "none"
  crashes, faults   \* how many have happened

durable  == <<disk, revision, dir, staged, intents, commitRev, ledger>>
locks    == <<publication, pathLock>>
args     == <<view, seen, batch>>
counters == <<crashes, faults>>
vars     == <<durable, mode, healthy, locks, pc, todo, args, reply, counters>>

-----------------------------------------------------------------------------
(* Locks.  withLock() chains onto the tail, so waiters run in arrival      *)
(* order, and it releases in a finally block whether or not its body threw.*)

Holds(queue, r) == queue # <<>> /\ Head(queue) = r

HoldsPublication(r) == Holds(publication, r)

Unlocked(r, p) == pathLock[p] # <<>>
HoldsPath(r, p) == Holds(pathLock[p], r)

(* withPaths takes the locks of a batch in sorted order.                   *)
ShortestQueueFirst(r, S) ==
  CHOOSE p \in S : \A q \in S : Len(pathLock[p]) <= Len(pathLock[q])
NextPath(r, S) == CHOOSE p \in S : \A q \in S : p <= q

Locking    == {"lock"}
Locked     == {"validate", "etag", "conflicting", "prepare", "publish"}
Finishing  == {"finish", "apply", "revision", "attribute", "complete"}
Queued     == {"snapshot", "etag", "conflicting", "publish"} \cup Finishing

(* The path locks r owns: withPaths takes them in sorted order and keeps   *)
(* them until the operation it wraps has returned or thrown.               *)
HeldPaths(r) ==
  IF mode # "up" THEN {}
  ELSE IF pc[r] \in Locking THEN batch[r].paths \ todo[r]
  ELSE IF pc[r] \in Locked \cup Finishing THEN batch[r].paths
  ELSE {}

ReleasePaths(r) ==
  pathLock' = [p \in Path |->
                 IF p \in HeldPaths(r) THEN Tail(pathLock[p]) ELSE pathLock[p]]

Goto(r, from, to) ==
  /\ pc[r] = from
  /\ pc' = [pc EXCEPT ![r] = to]

(* The call returns or throws: it leaves every lock it holds.              *)
Answer(r, with) ==
  /\ pc' = [pc EXCEPT ![r] = "done"]
  /\ reply' = [reply EXCEPT ![r] = with]
  /\ ReleasePaths(r)
  /\ publication' = IF HoldsPublication(r) THEN Tail(publication) ELSE publication

Fault == faults < MaxFaults /\ faults' = faults + 1 /\ UNCHANGED crashes

-----------------------------------------------------------------------------
(* What a batch changes and what it relies on.                             *)

(* The mutations left after comparing content with the ETags read: the     *)
(* files of the intent.  seen[r] is not changed once r is past the         *)
(* comparison, so after a crash this is what intent.json lists.            *)
Changed(r) == {p \in batch[r].paths : seen[r][p] # batch[r].content[p]}

StaleEtag(r) == \E p \in batch[r].cas : seen[r][p] # view[r][p]

OnlyChecksHold(r) == \A p \in batch[r].checks : disk[p] = view[r][p]
PreconditionsHold(r) ==
  /\ \A p \in batch[r].checks : disk[p] = view[r][p]
  /\ batch[r].collection => Existing(disk) = Existing(view[r])

Payload(r) == {p \in Changed(r) : batch[r].content[p] # Absent}

(* finish() and apply() refuse a revision that is neither the one before   *)
(* nor the one after, and a payload that is neither installed nor staged.  *)
CanFinish(r) ==
  /\ commitRev[r] \in {revision, revision + 1}
  /\ \A p \in Payload(r) : disk[p] = batch[r].content[p] \/ p \in staged[r]

-----------------------------------------------------------------------------
(* The snapshot a caller decides on, and its call of writeMany.            *)

Begin(r) ==
  /\ mode = "up"
  /\ Goto(r, "idle", "snapshot")
  /\ publication' = Append(publication, r)
  /\ UNCHANGED <<durable, mode, healthy, pathLock, todo, args, reply, counters>>

Snapshot(r) ==
  /\ HoldsPublication(r) /\ healthy
  /\ Goto(r, "snapshot", "open")
  /\ view' = [view EXCEPT ![r] = disk]
  /\ publication' = Tail(publication)
  /\ UNCHANGED <<durable, mode, healthy, pathLock, todo, seen, batch, reply, counters>>

Submit(r) ==
  /\ Goto(r, "open", "lock")
  /\ \E b \in Batches :
       /\ batch' = [batch EXCEPT ![r] = b]
       /\ todo' = [todo EXCEPT ![r] = b.paths]
       /\ pathLock' = [pathLock EXCEPT ![NextPath(r, b.paths)] = Append(@, r)]
  /\ UNCHANGED <<durable, mode, healthy, publication, view, seen, reply, counters>>

(* withPaths: wait for the least path not held yet, then join the queue of *)
(* the next one.                                                           *)
LockPath(r) ==
  LET p == NextPath(r, todo[r])  rest == todo[r] \ {p}
  IN /\ pc[r] = "lock"
     /\ HoldsPath(r, p)
     /\ todo' = [todo EXCEPT ![r] = rest]
     /\ IF rest = {}
          THEN pc' = [pc EXCEPT ![r] = "validate"] /\ UNCHANGED pathLock
          ELSE pathLock' = [pathLock EXCEPT ![NextPath(r, rest)] = Append(@, r)] /\ UNCHANGED pc
     /\ UNCHANGED <<durable, mode, healthy, publication, args, reply, counters>>

Validate(r) ==
  /\ Accepted(batch[r])
  /\ Goto(r, "validate", "etag")
  /\ todo' = [todo EXCEPT ![r] = batch[r].paths]
  /\ publication' = Append(publication, r)
  /\ UNCHANGED <<durable, mode, healthy, pathLock, args, reply, counters>>

RejectInvalid(r) ==
  /\ pc[r] = "validate"
  /\ ~ Accepted(batch[r])
  /\ Answer(r, "invalid")
  /\ UNCHANGED <<durable, mode, healthy, todo, args, counters>>

(* Each etag() takes the publication lock for itself.  After the last one  *)
(* the expected ETags are compared and the unchanged mutations dropped.    *)
ReadEtag(r) ==
  LET p == NextPath(r, todo[r])
  IN /\ pc[r] = "etag" /\ todo[r] # {}
     /\ HoldsPublication(r) /\ healthy
     /\ UNCHANGED <<durable, mode, healthy, pathLock, view, batch, reply, counters>>
     /\ seen' = [seen EXCEPT ![r][p] = disk[p]]
     /\ todo' = [todo EXCEPT ![r] = @ \ {p}]
     /\ pc' = [pc EXCEPT ![r] = IF todo'[r] # {}         THEN "etag"
                               ELSE IF StaleEtag(r)'    THEN "conflicting"
                               ELSE IF Changed(r)' = {} THEN "publish"
                               ELSE "prepare"]
     /\ publication' = IF pc'[r] = "prepare" THEN Tail(publication)
                       ELSE Append(Tail(publication), r)

(* A conflict is reported with the revision, read under the lock again.    *)
ReplyConflict(r) ==
  /\ pc[r] = "conflicting"
  /\ HoldsPublication(r) /\ healthy
  /\ Answer(r, "conflict")
  /\ UNCHANGED <<durable, mode, healthy, todo, args, counters>>

-----------------------------------------------------------------------------
(* The write itself.                                                       *)

WriteIntentBehind(r) ==
  /\ intents' = intents \cup {r}
  /\ commitRev' = [commitRev EXCEPT ![r] = revision - 1]
WriteIntent(r) ==
  /\ intents' = intents \cup {r}
  /\ commitRev' = [commitRev EXCEPT ![r] = revision + 1]

StageWithIntent(r) ==
  /\ dir' = dir \cup {r}
  /\ staged' = [staged EXCEPT ![r] = Payload(r)]
  /\ WriteIntent(r)
Stage(r) ==
  /\ dir' = dir \cup {r}
  /\ staged' = [staged EXCEPT ![r] = Payload(r)]
  /\ UNCHANGED <<intents, commitRev>>

(* A directory with every payload, each written to a temporary name,       *)
(* synced and renamed.                                                     *)
Prepare(r) ==
  /\ Goto(r, "prepare", "publish")
  /\ Stage(r)
  /\ publication' = Append(publication, r)
  /\ UNCHANGED <<disk, revision, ledger, mode, healthy, pathLock, todo, args, reply, counters>>

(* A payload could not be written; removing the directory may fail too.    *)
PrepareFails(r) ==
  /\ pc[r] = "prepare"
  /\ Fault
  /\ \/ UNCHANGED <<dir, staged>>
     \/ /\ dir' = dir \cup {r}
        /\ \E S \in SUBSET Payload(r) : staged' = [staged EXCEPT ![r] = S]
  /\ Answer(r, "failed")
  /\ UNCHANGED <<disk, revision, intents, commitRev, ledger, mode, healthy, todo, args>>

RemovePayloadOnly(r) ==
  /\ staged' = [staged EXCEPT ![r] = {}]
  /\ UNCHANGED <<dir, intents>>
RemoveDirectory(r) ==
  /\ dir' = dir \ {r}
  /\ staged' = [staged EXCEPT ![r] = {}]
  /\ intents' = intents \ {r}

(* Under the publication lock a precondition no longer holds: the          *)
(* directory is removed.                                                   *)
RefuseStale(r) ==
  /\ pc[r] = "publish"
  /\ HoldsPublication(r) /\ healthy
  /\ ~ PreconditionsHold(r)
  /\ RemoveDirectory(r)
  /\ Answer(r, "conflict")
  /\ UNCHANGED <<disk, revision, commitRev, ledger, mode, healthy, todo, args, counters>>

(* The same, and the directory cannot be removed: the call throws, and the *)
(* engine stays usable.                                                    *)
RefuseStaleFails(r) ==
  /\ pc[r] = "publish"
  /\ HoldsPublication(r) /\ healthy
  /\ ~ PreconditionsHold(r)
  /\ r \in dir
  /\ Fault
  /\ RemoveDirectory(r) \/ UNCHANGED <<dir, staged, intents>>
  /\ Answer(r, "failed")
  /\ UNCHANGED <<disk, revision, commitRev, ledger, mode, healthy, todo, args>>

ReplyUnchanged(r) ==
  /\ pc[r] = "publish"
  /\ HoldsPublication(r) /\ healthy
  /\ PreconditionsHold(r)
  /\ Changed(r) = {}
  /\ Answer(r, "unchanged")
  /\ UNCHANGED <<durable, mode, healthy, todo, args, counters>>

MayPublish(r) ==
  /\ pc[r] = "publish"
  /\ HoldsPublication(r) /\ healthy
  /\ PreconditionsHold(r)
  /\ Changed(r) # {}

(* recordIntent: from here on the batch takes effect, crash or not.        *)
RecordIntent(r) ==
  /\ MayPublish(r)
  /\ WriteIntent(r)
  /\ pc' = [pc EXCEPT ![r] = "finish"]
  /\ UNCHANGED <<disk, revision, dir, staged, ledger, mode, healthy, locks, todo, args,
                 reply, counters>>

NeedsRecovery == healthy' = FALSE

(* Writing the intent throws, before or after the rename that makes it     *)
(* visible.                                                                *)
RecordIntentFails(r) ==
  /\ MayPublish(r)
  /\ Fault
  /\ WriteIntent(r) \/ UNCHANGED <<intents, commitRev>>
  /\ NeedsRecovery
  /\ Answer(r, "failed")
  /\ UNCHANGED <<disk, revision, dir, staged, ledger, mode, todo, args>>

(* assertHealthy throws for whoever gets the lock after a failed finish.   *)
(* The code asks before it joins the queue too; only a restart clears the  *)
(* condition, so whoever fails the early check would fail this one.        *)
Unhealthy(r) ==
  /\ pc[r] \in {"snapshot", "etag", "conflicting", "publish"}
  /\ HoldsPublication(r) /\ ~ healthy
  /\ Answer(r, "failed")
  /\ UNCHANGED <<durable, mode, healthy, todo, args, counters>>

-----------------------------------------------------------------------------
(* finish(): by the request under its publication lock, or by recovery,    *)
(* which holds that lock before any request exists.                        *)

MayFinish(r) == mode = "recovering" \/ HoldsPublication(r)

AttributeFirst(stage) ==
  CASE stage = "apply"     -> "attribute"
    [] stage = "attribute" -> "revision"
    [] stage = "revision"  -> "complete"
After(stage) ==
  CASE stage = "apply"     -> "revision"
    [] stage = "revision"  -> "attribute"
    [] stage = "attribute" -> "complete"

(* The check of the revision and of every payload before anything moves.   *)
CheckIntent(r) ==
  /\ MayFinish(r)
  /\ Goto(r, "finish", IF CanFinish(r) THEN "apply" ELSE "refused")
  /\ todo' = [todo EXCEPT ![r] = Changed(r)]
  /\ UNCHANGED <<durable, mode, healthy, locks, args, reply, counters>>

(* Install or remove one file; one that is already so is skipped.          *)
Apply(r) ==
  /\ MayFinish(r)
  /\ \E p \in todo[r] :
       /\ disk' = [disk EXCEPT ![p] = batch[r].content[p]]
       /\ staged' = [staged EXCEPT ![r] = @ \ {p}]
       /\ IF todo[r] = {p}
            THEN /\ Goto(r, "apply", After("apply"))
                 /\ todo' = [todo EXCEPT ![r] = Changed(r)]
            ELSE /\ Goto(r, "apply", "apply")
                 /\ todo' = [todo EXCEPT ![r] = @ \ {p}]
  /\ UNCHANGED <<revision, dir, intents, commitRev, ledger, mode, healthy, locks, args,
                 reply, counters>>

NewRevision(r) == commitRev[r]

WriteRevision(r) ==
  /\ MayFinish(r)
  /\ Goto(r, "revision", After("revision"))
  /\ revision' = NewRevision(r)
  /\ UNCHANGED <<disk, dir, staged, intents, commitRev, ledger, mode, healthy, locks, todo,
                 args, reply, counters>>

(* onWrite for one file: the write journal records who wrote it.           *)
Attribute(r) ==
  /\ MayFinish(r)
  /\ \E p \in todo[r] :
       /\ ledger' = ledger \cup {<<r, p>>}
       /\ todo' = [todo EXCEPT ![r] = @ \ {p}]
       /\ Goto(r, "attribute", IF todo[r] = {p} THEN After("attribute") ELSE "attribute")
  /\ UNCHANGED <<disk, revision, dir, staged, intents, commitRev, mode, healthy, locks, args,
                 reply, counters>>

Complete(r) ==
  /\ MayFinish(r)
  /\ pc[r] = "complete"
  /\ RemoveDirectory(r)
  /\ Answer(r, IF reply[r] = "none" THEN "written" ELSE reply[r])
  /\ UNCHANGED <<disk, revision, commitRev, ledger, mode, healthy, todo, args, counters>>

(* A file operation of finish() throws; the last one may have removed the  *)
(* directory.  Only a restart clears recoveryRequired.                     *)
FinishFails(r) ==
  /\ mode = "up"
  /\ MayFinish(r)
  /\ pc[r] \in Finishing
  /\ Fault
  /\ \/ UNCHANGED <<dir, staged, intents>>
     \/ pc[r] = "complete" /\ RemoveDirectory(r)
  /\ NeedsRecovery
  /\ Answer(r, "failed")
  /\ UNCHANGED <<disk, revision, commitRev, ledger, mode, todo, args>>

-----------------------------------------------------------------------------
(* Death and boot.                                                         *)

(* The process dies, or a failed recovery ends it: what was in memory is   *)
(* gone and no caller in flight gets an answer.                            *)
Die ==
  /\ mode' = "down"
  /\ healthy' = TRUE
  /\ publication' = <<>>
  /\ pathLock' = [p \in Path |-> <<>>]
  /\ pc' = [r \in Request |-> IF pc[r] \in {"idle", "done"} THEN pc[r] ELSE "done"]
  /\ reply' = [r \in Request |->
                 IF pc[r] \notin {"idle", "done"} /\ reply[r] = "none" THEN "lost" ELSE reply[r]]
  /\ UNCHANGED <<durable, todo, args>>

Crash ==
  /\ mode # "down"
  /\ crashes < MaxCrashes
  /\ crashes' = crashes + 1
  /\ UNCHANGED faults
  /\ Die

RecoveryFails ==
  /\ mode = "recovering"
  /\ Fault
  /\ Die

DiscardEveryPayload ==
  /\ dir' = intents
  /\ staged' = [r \in Request |-> {}]
(* pending(): directories without an intent are removed.                   *)
DiscardUnrecorded ==
  /\ dir' = intents
  /\ staged' = [r \in Request |-> IF r \in intents THEN staged[r] ELSE {}]

Recover ==
  /\ mode = "down"
  /\ mode' = "recovering"
  /\ DiscardUnrecorded
  /\ UNCHANGED <<disk, revision, intents, commitRev, ledger, healthy, locks, pc, todo, args,
                 reply, counters>>

(* The intents are finished one at a time, in the order of their revisions.*)
RecoverNext(r) ==
  /\ mode = "recovering"
  /\ r \in intents
  /\ \A q \in Request : pc[q] \notin Finishing \cup {"refused"}
  /\ \A q \in intents : commitRev[r] <= commitRev[q]
  /\ pc' = [pc EXCEPT ![r] = "finish"]
  /\ UNCHANGED <<durable, mode, healthy, locks, todo, args, reply, counters>>

Recovered ==
  /\ mode = "recovering"
  /\ intents = {}
  /\ mode' = "up"
  /\ UNCHANGED <<durable, healthy, locks, pc, todo, args, reply, counters>>

-----------------------------------------------------------------------------
Init ==
  /\ disk \in InitialStores
  /\ revision = 0
  /\ dir = {}
  /\ staged = [r \in Request |-> {}]
  /\ intents = {}
  /\ commitRev = [r \in Request |-> 0]
  /\ ledger = {}
  /\ mode = "down"
  /\ healthy = TRUE
  /\ publication = <<>>
  /\ pathLock = [p \in Path |-> <<>>]
  /\ pc = [r \in Request |-> "idle"]
  /\ todo = [r \in Request |-> {}]
  /\ view = [r \in Request |-> disk]
  /\ seen = [r \in Request |-> disk]
  /\ batch = [r \in Request |-> NoBatch]
  /\ reply = [r \in Request |-> "none"]
  /\ crashes = 0
  /\ faults = 0

Step(r) ==
  \/ Snapshot(r) \/ Submit(r) \/ LockPath(r) \/ Validate(r) \/ RejectInvalid(r)
  \/ ReadEtag(r) \/ ReplyConflict(r) \/ Prepare(r) \/ RefuseStale(r) \/ ReplyUnchanged(r)
  \/ RecordIntent(r) \/ Unhealthy(r)
  \/ CheckIntent(r) \/ Apply(r) \/ WriteRevision(r) \/ Attribute(r) \/ Complete(r)

Failure(r) ==
  PrepareFails(r) \/ RefuseStaleFails(r) \/ RecordIntentFails(r) \/ FinishFails(r)

Boot == Recover \/ (\E r \in Request : RecoverNext(r)) \/ Recovered

(* Every request was answered: the process has nothing to do.              *)
Idle == mode = "up" /\ (\A r \in Request : pc[r] = "done") /\ UNCHANGED vars

Next ==
  \/ \E r \in Request : Begin(r) \/ Step(r) \/ Failure(r)
  \/ Boot \/ Crash \/ RecoveryFails \/ Idle

(* The event loop runs every ready continuation and whoever runs the       *)
(* service restarts it; callers need not begin, and nothing need fail.     *)
Fairness == WF_vars(Boot) /\ \A r \in Request : WF_vars(Step(r))

Spec == Init /\ [][Next]_vars /\ Fairness

-----------------------------------------------------------------------------
(* How the engine implements the atomic store.  A batch takes effect when  *)
(* its intent is durable, although its files are installed one by one.     *)

CommittedStore ==
  [p \in Path |->
     IF \E r \in intents : p \in Changed(r)
       THEN batch[CHOOSE r \in intents : p \in Changed(r)].content[p]
       ELSE disk[p]]

CommittedRevision ==
  IF intents = {} THEN revision ELSE commitRev[CHOOSE r \in intents : TRUE]

Status ==
  [r \in Request |->
     IF reply[r] # "none"                 THEN reply[r]
     ELSE IF pc[r] \in {"idle", "snapshot"} THEN "idle"
     ELSE IF pc[r] = "open"               THEN "open"
     ELSE IF pc[r] = "conflicting"        THEN "refused"
     ELSE IF pc[r] \in Finishing          THEN "committed"
     ELSE "pending"]

Abstract == INSTANCE AtomicStore WITH
  store <- CommittedStore, rev <- CommittedRevision, status <- Status

-----------------------------------------------------------------------------
Stages  == {"idle", "snapshot", "open", "refused", "done"}
             \cup Locking \cup Locked \cup Finishing
Answers == {"written", "unchanged", "conflict", "invalid", "failed", "lost"}

(* Type invariant: the shape of the state on disk and in the process.      *)
TypeOK ==
  /\ disk \in [Path -> Value]
  /\ revision \in Nat
  /\ dir \subseteq Request
  /\ staged \in [Request -> SUBSET Path]
  /\ intents \subseteq Request
  /\ commitRev \in [Request -> Nat]
  /\ ledger \subseteq Request \X Path
  /\ mode \in {"down", "recovering", "up"}
  /\ healthy \in BOOLEAN
  /\ publication \in Seq(Request)
  /\ pathLock \in [Path -> Seq(Request)]
  /\ pc \in [Request -> Stages]
  /\ todo \in [Request -> SUBSET Path]
  /\ view \in [Request -> [Path -> Value]]
  /\ seen \in [Request -> [Path -> Value]]
  /\ batch \in [Request -> BatchType]
  /\ reply \in [Request -> Answers \cup {"none"}]
  /\ crashes \in Nat
  /\ faults \in Nat

(* The journal never holds two transactions that must both be redone, so   *)
(* recovery never has to order them: recoveryRequired keeps every later    *)
(* write out until the restart (writeMany, data-layer.ts).                 *)
AtMostOneIntent == \A r, q \in intents : r = q

(* Whatever the moment of the crash or of the failed file operation, the   *)
(* next boot can finish what is in the journal: finish() and apply() never *)
(* refuse a revision or a missing payload, which would keep the service    *)
(* down for good.                                                          *)
Recoverable ==
  /\ \A r \in intents : CanFinish(r)
  /\ \A r \in Request : pc[r] # "refused"

(* The ETags compared with the expected ones are still those on disk when  *)
(* the batch is published, although the publication lock was released in   *)
(* between and staging awaited many file operations: no lost update.       *)
SeenIsCurrent ==
  \A r \in Request :
    mode = "up" /\ pc[r] \in {"etag", "conflicting", "prepare", "publish"} =>
      \A p \in batch[r].paths :
        (pc[r] = "etag" /\ p \in todo[r]) \/ seen[r][p] = disk[p]

(* An acknowledged write is published, attributed to its writer and out of *)
(* the journal, and stays so across any later crash or failure.            *)
AcknowledgedIsDurable ==
  \A r \in Request : reply[r] = "written" =>
    /\ r \notin intents
    /\ 0 < commitRev[r] /\ commitRev[r] <= revision
    /\ \A p \in Changed(r) : <<r, p>> \in ledger

(* A caller told that nothing was written can rely on it: no crash or      *)
(* recovery publishes the batch afterwards.                                *)
RefusedLeavesNoTrace ==
  \A r \in Request : reply[r] \in {"unchanged", "conflict", "invalid"} =>
    commitRev[r] = 0 /\ r \notin intents

(* A revision names one transaction, also when it was redone after a crash;*)
(* the cache compares revisions to tell commits apart.                     *)
RevisionsUnique ==
  \A r, q \in Request : commitRev[r] # 0 /\ commitRev[r] = commitRev[q] => r = q

(* Attribution reaches the write journal only for files that are already   *)
(* visible under their revision (onWrite runs after .revision is written), *)
(* and no intent leaves the journal before all its files have theirs,      *)
(* whoever was to be answered and however often finish() began again.      *)
AttributedIsPublished ==
  \A r \in Request, p \in Path :
    /\ <<r, p>> \in ledger => 0 < commitRev[r] /\ commitRev[r] <= revision /\ p \in Changed(r)
    /\ 0 < commitRev[r] /\ r \notin intents /\ p \in Changed(r) => <<r, p>> \in ledger

(* The engine implements the atomic store: a batch takes effect as a whole *)
(* at one instant, on exactly the state it was checked against, no reader  *)
(* sees part of it, and the answers mean what they say.                    *)
ImplementsAtomicStore == Abstract!Spec

(* Path locks are taken in sorted order and never waited for under the     *)
(* publication lock, and every lock is released when its body throws: each *)
(* request that began is answered, or its caller lost to a crash.          *)
EveryRequestAnswered == \A r \in Request : pc[r] = "snapshot" ~> pc[r] = "done"

(* Boot ends in service, whatever the last crash left in the journal.      *)
RecoveryCompletes == mode = "down" ~> mode = "up"

-----------------------------------------------------------------------------
(* The inductive strengthening of the invariants above (DBEngineProofs).   *)

(* Two requests never hold one lock.                                       *)
LockInv ==
  /\ \A r \in Request : \A p \in HeldPaths(r) : HoldsPath(r, p)
  /\ mode = "up" => \A r \in Request : pc[r] \in Finishing => HoldsPublication(r)

(* Requests run only while the service is up; recovery is alone.           *)
ModeInv ==
  /\ \A r \in Request : pc[r] # "refused"
  /\ mode = "recovering" => \A r \in Request : pc[r] \in {"idle", "done"} \cup Finishing
  /\ mode = "down" => \A r \in Request : pc[r] \in {"idle", "done"}

(* An intent belongs to the one transaction being finished, or waits for a *)
(* restart.                                                                *)
IntentInv ==
  /\ \A r, q \in intents : r = q
  /\ \A r \in intents :
       CanFinish(r) /\ 0 < commitRev[r] /\ pc[r] \in Finishing \cup {"done"}
  /\ \A r \in Request : pc[r] \in Finishing => r \in intents
  /\ mode = "up" /\ healthy => \A r \in intents : pc[r] \in Finishing

(* What a request knows before it publishes.                               *)
RequestInv ==
  \A r \in Request :
    /\ todo[r] \subseteq batch[r].paths
    /\ pc[r] = "publish" => Payload(r) \subseteq staged[r]
    /\ pc[r] \notin Finishing \cup {"done"} => commitRev[r] = 0 /\ reply[r] = "none"
    /\ reply[r] \in {"unchanged", "conflict", "invalid"} => commitRev[r] = 0

(* Only the pending intent may be one revision ahead of .revision.         *)
RevisionInv ==
  /\ \A r \in Request : commitRev[r] <= revision \/ (r \in intents /\ commitRev[r] = revision + 1)
  /\ \A r, q \in Request : commitRev[r] # 0 /\ commitRev[r] = commitRev[q] => r = q

(* The ledger follows the revision, and the answer follows the ledger.     *)
LedgerInv ==
  /\ \A r \in Request :
       /\ pc[r] \in {"apply", "revision", "attribute"} => todo[r] \subseteq Changed(r)
       /\ pc[r] = "revision" => todo[r] = Changed(r)
       /\ pc[r] \in {"attribute", "complete"} =>
         /\ commitRev[r] <= revision
         /\ \A p \in Changed(r) :
              <<r, p>> \in ledger \/ (pc[r] = "attribute" /\ p \in todo[r])
  /\ AttributedIsPublished
  /\ AcknowledgedIsDurable

Inv ==
  /\ TypeOK /\ LockInv /\ ModeInv /\ IntentInv /\ RequestInv /\ SeenIsCurrent
  /\ RevisionInv /\ LedgerInv

(* What the refinement mapping rests on besides: what a batch was compared *)
(* with before it is published, how far its files are installed, and who   *)
(* still waits for an answer.                                              *)
MappingInv ==
  \A r \in Request :
    /\ batch[r].cas \subseteq batch[r].paths
    /\ pc[r] \in {"etag", "conflicting", "prepare", "publish"} => Accepted(batch[r])
    /\ pc[r] \in {"prepare", "publish"} => ~ StaleEtag(r)
    /\ pc[r] = "done" => reply[r] # "none"
    /\ pc[r] \in Finishing => (reply[r] = "none" <=> mode = "up")
    /\ pc[r] \in {"apply", "revision", "attribute", "complete"} =>
         \A p \in Changed(r) :
           disk[p] = batch[r].content[p] \/ (pc[r] = "apply" /\ p \in todo[r])
=============================================================================
