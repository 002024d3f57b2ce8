--------------------------- MODULE DBEngineProofs ---------------------------
(***************************************************************************)
(* Theorems about DBEngine, for every set of requests, paths, contents and *)
(* batches, and any number of crashes and failed file operations.          *)
(***************************************************************************)
EXTENDS DBEngine, TLAPS

-----------------------------------------------------------------------------
(* Facts about queues.                                                     *)

(* Joining the tail of a lock's queue keeps its holder, and leaving its    *)
(* head keeps it a queue (WriteLock chains promises in arrival order).     *)
LEMMA QueueFacts ==
  ASSUME NEW S, NEW s \in Seq(S)
  PROVE  /\ \A r \in S : Append(s, r) \in Seq(S)
         /\ \A r : Holds(s, r) => Tail(s) \in Seq(S)
         /\ \A r \in S : \A q : Holds(s, q) => Holds(Append(s, r), q)
         /\ \A r, q : Holds(s, q) /\ Holds(s, r) => q = r
  BY DEF Holds

(* One more waiter for one path lock changes no holder of any path lock.   *)
LEMMA JoinQueue ==
  ASSUME NEW locks0 \in [Path -> Seq(Request)], NEW n, NEW r \in Request,
         NEW locks1, locks1 = [locks0 EXCEPT ![n] = Append(@, r)]
  PROVE  /\ locks1 \in [Path -> Seq(Request)]
         /\ \A p \in Path : \A q : Holds(locks0[p], q) => Holds(locks1[p], q)
<1>1. CASE n \in Path
  <2>1. Append(locks0[n], r) \in Seq(Request)
    BY <1>1
  <2>2. \A q : Holds(locks0[n], q) => Holds(Append(locks0[n], r), q)
    BY <1>1 DEF Holds
  <2>. QED
    BY <1>1, <2>1, <2>2
<1>2. CASE n \notin Path
  BY <1>2
<1>. QED
  BY <1>1, <1>2

(* What writeMany changes and what it stages are files of its batch.       *)
LEMMA BatchFacts ==
  ASSUME TypeOK, NEW r \in Request
  PROVE  /\ batch[r].paths \subseteq Path
         /\ batch[r].content \in [Path -> Value]
         /\ Changed(r) \subseteq batch[r].paths
         /\ Payload(r) \subseteq batch[r].paths
  BY DEF TypeOK, BatchType, Changed, Payload

-----------------------------------------------------------------------------
(* Releasing: whoever leaves takes itself off the head of the queues of    *)
(* the locks it holds.                                                     *)
LEMMA HeldInPath ==
  ASSUME TypeOK, NEW r \in Request
  PROVE  HeldPaths(r) \subseteq Path
  BY BatchFacts DEF HeldPaths

(* A call of writeMany that returns or throws leaves queues, control and   *)
(* answers well formed.                                                    *)
LEMMA AnswerType ==
  ASSUME TypeOK, LockInv, NEW r \in Request, NEW w \in Answers, Answer(r, w)
  PROVE  /\ publication' \in Seq(Request)
         /\ pathLock' \in [Path -> Seq(Request)]
         /\ pc' \in [Request -> Stages]
         /\ reply' \in [Request -> Answers \cup {"none"}]
<1>1. publication' \in Seq(Request)
  BY QueueFacts DEF Answer, TypeOK, HoldsPublication
<1>2. \A p \in HeldPaths(r) : Tail(pathLock[p]) \in Seq(Request)
  BY HeldInPath, QueueFacts DEF LockInv, HoldsPath, TypeOK
<1>3. pathLock' \in [Path -> Seq(Request)]
  BY <1>2 DEF Answer, ReleasePaths, TypeOK
<1>4. pc' \in [Request -> Stages]
  BY DEF Answer, TypeOK, Stages
<1>5. reply' \in [Request -> Answers \cup {"none"}]
  BY DEF Answer, TypeOK
<1>. QED
  BY <1>1, <1>3, <1>4, <1>5

(* The finally blocks of withLock release what the caller held, and nobody *)
(* else's lock.                                                            *)
LEMMA AnswerLocks ==
  ASSUME TypeOK, LockInv, NEW r \in Request, NEW w, Answer(r, w),
         UNCHANGED <<mode, batch, todo>>
  PROVE  LockInv'
<1>. USE DEF Locking, Locked, Finishing
<1>1. pc' = [pc EXCEPT ![r] = "done"]
  BY DEF Answer
<1>2. HeldPaths(r)' = {} /\ \A q \in Request \ {r} : HeldPaths(q)' = HeldPaths(q)
  BY <1>1 DEF HeldPaths, TypeOK
<1>3. ASSUME NEW q \in Request \ {r}, NEW p \in HeldPaths(q)
      PROVE  HoldsPath(q, p)'
  <2>1. p \in Path /\ p \notin HeldPaths(r)
    BY <1>3, HeldInPath DEF LockInv, HoldsPath, Holds
  <2>2. pathLock'[p] = pathLock[p]
    BY <2>1 DEF Answer, ReleasePaths
  <2>. QED
    BY <1>3, <2>2 DEF LockInv, HoldsPath, Holds
<1>4. ASSUME mode = "up", NEW q \in Request, pc'[q] \in Finishing
      PROVE  HoldsPublication(q)'
  <2>1. q # r /\ HoldsPublication(q)
    BY <1>1, <1>4 DEF TypeOK, LockInv
  <2>2. ~ HoldsPublication(r)
    BY <2>1 DEF HoldsPublication, Holds
  <2>. QED
    BY <2>1, <2>2 DEF Answer, HoldsPublication, Holds
<1>. QED
  BY <1>2, <1>3, <1>4 DEF LockInv

(* The publication lock and recoveryRequired together: whoever may publish *)
(* finds no transaction pending.                                           *)
LEMMA PublisherAlone ==
  ASSUME TypeOK, LockInv, ModeInv, IntentInv, NEW r \in Request, pc[r] = "publish",
         HoldsPublication(r), healthy
  PROVE  intents = {} /\ mode = "up"
<1>1. mode = "up"
  BY DEF ModeInv, TypeOK, Finishing
<1>2. ASSUME NEW q \in intents
      PROVE  FALSE
  <2>1. q \in Request /\ pc[q] \in Finishing
    BY <1>1, <1>2 DEF IntentInv, TypeOK
  <2>2. HoldsPublication(q)
    BY <1>1, <2>1 DEF LockInv
  <2>. QED
    BY <2>1, <2>2 DEF HoldsPublication, Holds, Finishing
<1>. QED
  BY <1>1, <1>2

-----------------------------------------------------------------------------
(* From the snapshot to the staged batch.                                  *)

(* A caller that joins the queue of the publication lock for db.snapshot() *)
(* disturbs nothing.                                                       *)
LEMMA BeginStep ==
  ASSUME Inv, NEW r \in Request, Begin(r)
  PROVE  Inv'
<1>. USE DEF durable, locks, args, counters, Locking, Locked, Finishing
<1>1. TypeOK'
  BY DEF Inv, Begin, Goto, TypeOK, Stages
<1>2. LockInv'
  BY QueueFacts DEF Inv, TypeOK, Begin, Goto, LockInv, HeldPaths, HoldsPath,
     HoldsPublication
<1>3. ModeInv'
  BY DEF Inv, Begin, Goto, ModeInv
<1>4. IntentInv'
  BY DEF Inv, Begin, Goto, IntentInv, CanFinish, Payload, Changed
<1>5. RequestInv'
  BY DEF Inv, Begin, Goto, RequestInv, Payload, Changed
<1>6. SeenIsCurrent'
  BY DEF Inv, Begin, Goto, SeenIsCurrent
<1>7. RevisionInv'
  BY DEF Inv, Begin, RevisionInv
<1>8. LedgerInv'
  BY DEF Inv, Begin, Goto, LedgerInv, AttributedIsPublished, AcknowledgedIsDurable,
     Changed
<1>. QED
  BY <1>1, <1>2, <1>3, <1>4, <1>5, <1>6, <1>7, <1>8 DEF Inv

(* db.snapshot() reads the tree and releases the publication lock.         *)
LEMMA SnapshotStep ==
  ASSUME Inv, NEW r \in Request, Snapshot(r)
  PROVE  Inv'
<1>. USE DEF durable, locks, args, counters, Locking, Locked, Finishing
<1>1. TypeOK'
  BY QueueFacts DEF Inv, Snapshot, Goto, TypeOK, Stages, HoldsPublication
<1>2. LockInv'
  BY QueueFacts DEF Inv, TypeOK, Snapshot, Goto, LockInv, HeldPaths, HoldsPath,
     HoldsPublication
<1>3. ModeInv'
  BY DEF Inv, Snapshot, Goto, ModeInv
<1>4. IntentInv'
  BY DEF Inv, Snapshot, Goto, IntentInv, CanFinish, Payload, Changed
<1>5. RequestInv'
  BY DEF Inv, Snapshot, Goto, RequestInv, Payload, Changed
<1>6. SeenIsCurrent'
  BY DEF Inv, Snapshot, Goto, SeenIsCurrent
<1>7. RevisionInv'
  BY DEF Inv, Snapshot, RevisionInv
<1>8. LedgerInv'
  BY DEF Inv, Snapshot, Goto, LedgerInv, AttributedIsPublished, AcknowledgedIsDurable,
     Changed
<1>. QED
  BY <1>1, <1>2, <1>3, <1>4, <1>5, <1>6, <1>7, <1>8 DEF Inv

(* A request that has no revision yet is nowhere in the ledger; a step of  *)
(* it that leaves the others alone keeps the attribution.                  *)
LEMMA AttributionAside ==
  ASSUME Inv, NEW r \in Request, commitRev[r] = 0,
         commitRev'[r] = 0 \/ r \in intents',
         ledger' = ledger, revision' = revision,
         \A q \in Request \ {r} :
           /\ Changed(q)' = Changed(q) /\ commitRev'[q] = commitRev[q]
           /\ q \in intents' <=> q \in intents
  PROVE  AttributedIsPublished'
<1>. SUFFICES ASSUME NEW q \in Request, NEW p \in Path
              PROVE  /\ <<q, p>> \in ledger' =>
                           0 < commitRev'[q] /\ commitRev'[q] <= revision' /\ p \in Changed(q)'
                     /\ 0 < commitRev'[q] /\ q \notin intents' /\ p \in Changed(q)' =>
                           <<q, p>> \in ledger'
  BY DEF AttributedIsPublished
<1>1. /\ <<q, p>> \in ledger => 0 < commitRev[q] /\ commitRev[q] <= revision /\ p \in Changed(q)
      /\ 0 < commitRev[q] /\ q \notin intents /\ p \in Changed(q) => <<q, p>> \in ledger
  BY DEF Inv, LedgerInv, AttributedIsPublished
<1>2. CASE q = r
  <2>1. <<q, p>> \notin ledger
    BY <1>1, <1>2
  <2>2. ~ (0 < commitRev'[q] /\ q \notin intents')
    BY <1>2
  <2>. QED
    BY <2>1, <2>2
<1>3. CASE q # r
  BY <1>1, <1>3
<1>. QED
  BY <1>2, <1>3

(* writeMany is called: nothing is known of the batch yet, and no lock is  *)
(* held.                                                                   *)
LEMMA SubmitStep ==
  ASSUME Inv, NEW r \in Request, Submit(r)
  PROVE  Inv'
<1>. USE DEF durable, locks, args, counters, Locking, Locked, Finishing
<1>1. TypeOK'
  <2>1. PICK b \in Batches :
          /\ batch' = [batch EXCEPT ![r] = b]
          /\ todo' = [todo EXCEPT ![r] = b.paths]
          /\ pathLock' = [pathLock EXCEPT ![NextPath(r, b.paths)] = Append(@, r)]
    BY DEF Submit
  <2>2. b \in BatchType /\ b.paths \in SUBSET Path
    BY DocumentAssumption DEF BatchType
  <2>3. pathLock' \in [Path -> Seq(Request)]
    BY <2>1, QueueFacts DEF Inv, TypeOK
  <2>4. batch' \in [Request -> BatchType] /\ todo' \in [Request -> SUBSET Path]
    BY <2>1, <2>2 DEF Inv, TypeOK
  <2>. QED
    BY <2>3, <2>4 DEF Inv, TypeOK, Submit, Goto, Stages
<1>2. LockInv'
  <2>1. PICK b \in Batches :
          /\ batch' = [batch EXCEPT ![r] = b]
          /\ todo' = [todo EXCEPT ![r] = b.paths]
          /\ pathLock' = [pathLock EXCEPT ![NextPath(r, b.paths)] = Append(@, r)]
    BY DEF Submit
  <2>2. HeldPaths(r)' = {} /\ \A q \in Request \ {r} : HeldPaths(q)' = HeldPaths(q)
    BY <2>1 DEF Inv, TypeOK, Submit, Goto, HeldPaths
  <2>3. \A q \in Request \ {r} : \A p \in HeldPaths(q) : HoldsPath(q, p)'
    BY <2>1, QueueFacts DEF Inv, TypeOK, LockInv, HoldsPath
  <2>4. mode' = "up" => \A q \in Request : pc'[q] \in Finishing => HoldsPublication(q)'
    BY DEF Inv, LockInv, Submit, Goto, HoldsPublication
  <2>. QED
    BY <2>2, <2>3, <2>4 DEF LockInv
<1>3. ModeInv'
  BY DEF Inv, Submit, Goto, ModeInv
<1>4. IntentInv'
  BY DEF Inv, Submit, Goto, IntentInv, CanFinish, Payload, Changed
<1>5. RequestInv'
  BY DEF Inv, TypeOK, Submit, Goto, RequestInv, Payload, Changed
<1>6. SeenIsCurrent'
  BY DEF Inv, Submit, Goto, SeenIsCurrent
<1>7. RevisionInv'
  BY DEF Inv, Submit, RevisionInv
<1>8. LedgerInv'
  <2>1. commitRev[r] = 0 /\ reply[r] = "none" /\ pc[r] = "open" /\ pc'[r] = "lock"
    BY ZenonT(30) DEF Inv, TypeOK, RequestInv, Submit, Goto
  <2>2. \A q \in Request \ {r} : Changed(q)' = Changed(q) /\ pc'[q] = pc[q] /\ todo'[q] = todo[q]
    BY DEF Submit, Goto, Changed
  <2>3. AttributedIsPublished'
    <3>1. UNCHANGED <<ledger, revision, intents, commitRev>>
      BY DEF Submit
    <3>. QED
      BY <2>1, <2>2, <3>1, AttributionAside
  <2>4. AcknowledgedIsDurable'
    BY <2>1, <2>2 DEF Inv, LedgerInv, AcknowledgedIsDurable, Submit
  <2>. QED
    BY <2>1, <2>2, <2>3, <2>4 DEF Inv, LedgerInv, Submit
<1>. QED
  BY <1>1, <1>2, <1>3, <1>4, <1>5, <1>6, <1>7, <1>8 DEF Inv

(* withPaths gets one lock, or starts to wait for the next: the locks it   *)
(* owns stay its own.                                                      *)
LEMMA LockPathStep ==
  ASSUME Inv, NEW r \in Request, LockPath(r)
  PROVE  Inv'
<1>. USE DEF durable, locks, args, counters, Locking, Locked, Finishing
<1>1. TypeOK'
  <2>1. todo' \in [Request -> SUBSET Path] /\ pc' \in [Request -> Stages]
    BY DEF Inv, TypeOK, LockPath, Stages
  <2>0. pathLock' = pathLock \/ \E n : pathLock' = [pathLock EXCEPT ![n] = Append(@, r)]
    BY DEF LockPath
  <2>2. pathLock' \in [Path -> Seq(Request)]
    BY <2>0, JoinQueue DEF Inv, TypeOK
  <2>. QED
    BY <2>1, <2>2 DEF Inv, TypeOK, LockPath
<1>2. LockInv'
  <2>. DEFINE p0 == NextPath(r, todo[r])
  <2>1. /\ HoldsPath(r, p0)
        /\ todo' = [todo EXCEPT ![r] = todo[r] \ {p0}]
        /\ pc[r] = "lock" /\ pc' \in {pc, [pc EXCEPT ![r] = "validate"]}
        /\ todo[r] \ {p0} = {} => pc' = [pc EXCEPT ![r] = "validate"]
        /\ todo[r] \ {p0} # {} => pc' = pc
    BY DEF LockPath
  <2>0. pathLock' = pathLock \/ \E n : pathLock' = [pathLock EXCEPT ![n] = Append(@, r)]
    BY DEF LockPath
  <2>2. \A q \in Request, p \in Path : HoldsPath(q, p) => HoldsPath(q, p)'
    BY <2>0, JoinQueue DEF Inv, TypeOK, HoldsPath
  <2>3. \A q \in Request \ {r} : HeldPaths(q)' = HeldPaths(q)
    BY <2>1 DEF Inv, TypeOK, LockPath, HeldPaths
  <2>4. HeldPaths(r)' \subseteq HeldPaths(r) \cup {p0}
    BY <2>1 DEF LockPath, HeldPaths
  <2>5. HeldPaths(r)' \subseteq Path
    BY <2>1, BatchFacts DEF Inv, LockPath, HeldPaths
  <2>6. \A q \in Request : \A p \in HeldPaths(q)' : HoldsPath(q, p)'
    BY <2>1, <2>2, <2>3, <2>4, <2>5, HeldInPath DEF Inv, LockInv
  <2>7. mode' = "up" => \A q \in Request : pc'[q] \in Finishing => HoldsPublication(q)'
    BY <2>1 DEF Inv, TypeOK, LockInv, LockPath, HoldsPublication
  <2>. QED
    BY <2>6, <2>7 DEF LockInv
<1>3. ModeInv'
  BY DEF Inv, TypeOK, LockPath, ModeInv
<1>4. IntentInv'
  BY ZenonT(60) DEF Inv, TypeOK, LockPath, ModeInv, RequestInv, RevisionInv, IntentInv, CanFinish,
     Payload, Changed
<1>5. RequestInv'
  BY DEF Inv, TypeOK, LockPath, RequestInv, Payload, Changed
<1>6. SeenIsCurrent'
  BY DEF Inv, TypeOK, LockPath, SeenIsCurrent
<1>7. RevisionInv'
  BY DEF Inv, LockPath, RevisionInv
<1>8. LedgerInv'
  BY DEF Inv, TypeOK, LockPath, LedgerInv, AttributedIsPublished, AcknowledgedIsDurable,
     Changed
<1>. QED
  BY <1>1, <1>2, <1>3, <1>4, <1>5, <1>6, <1>7, <1>8 DEF Inv

(* The validators accept the batch; the ETags are still to be read.        *)
LEMMA ValidateStep ==
  ASSUME Inv, NEW r \in Request, Validate(r)
  PROVE  Inv'
<1>. USE DEF durable, locks, args, counters, Locking, Locked, Finishing
<1>1. TypeOK'
  BY SMTT(30) DEF Inv, Validate, Goto, TypeOK, Stages, BatchType
<1>2. LockInv'
  BY QueueFacts DEF Inv, TypeOK, Validate, Goto, LockInv, HeldPaths, HoldsPath,
     HoldsPublication
<1>3. ModeInv'
  BY DEF Inv, Validate, Goto, ModeInv
<1>4. IntentInv'
  BY DEF Inv, Validate, Goto, IntentInv, CanFinish, Payload, Changed
<1>5. RequestInv'
  BY DEF Inv, Validate, Goto, RequestInv, Payload, Changed
<1>6. SeenIsCurrent'
  BY DEF Inv, TypeOK, Validate, Goto, SeenIsCurrent
<1>7. RevisionInv'
  BY DEF Inv, Validate, RevisionInv
<1>8. LedgerInv'
  BY DEF Inv, Validate, Goto, LedgerInv, AttributedIsPublished, AcknowledgedIsDurable,
     Changed
<1>. QED
  BY <1>1, <1>2, <1>3, <1>4, <1>5, <1>6, <1>7, <1>8 DEF Inv

(* A validator rejects the batch: it is answered before anything reached   *)
(* the journal.                                                            *)
LEMMA RejectInvalidStep ==
  ASSUME Inv, NEW r \in Request, RejectInvalid(r)
  PROVE  Inv'
<1>. USE DEF durable, locks, args, counters, Locking, Locked, Finishing
<1>1. TypeOK'
  BY AnswerType DEF Inv, RejectInvalid, TypeOK, Answers
<1>2. LockInv'
  BY AnswerLocks DEF Inv, RejectInvalid
<1>3. ModeInv'
  BY DEF Inv, RejectInvalid, Answer, ModeInv
<1>4. IntentInv'
  BY DEF Inv, RejectInvalid, Answer, IntentInv, CanFinish, Payload, Changed
<1>5. RequestInv'
  BY DEF Inv, TypeOK, RejectInvalid, Answer, RequestInv, Payload, Changed
<1>6. SeenIsCurrent'
  BY DEF Inv, RejectInvalid, Answer, SeenIsCurrent
<1>7. RevisionInv'
  BY DEF Inv, RejectInvalid, RevisionInv
<1>8. LedgerInv'
  BY DEF Inv, RejectInvalid, Answer, LedgerInv, AttributedIsPublished,
     AcknowledgedIsDurable, Changed
<1>. QED
  BY <1>1, <1>2, <1>3, <1>4, <1>5, <1>6, <1>7, <1>8 DEF Inv

(* One ETag is read under its path lock; it stays current as nobody else   *)
(* can publish that path.                                                  *)
LEMMA ReadEtagStep ==
  ASSUME Inv, NEW r \in Request, ReadEtag(r)
  PROVE  Inv'
<1>. USE DEF durable, locks, args, counters, Locking, Locked, Finishing
<1>1. TypeOK'
  <2>1. publication' \in Seq(Request)
    BY QueueFacts DEF Inv, TypeOK, ReadEtag, HoldsPublication
  <2>2. seen' \in [Request -> [Path -> Value]] /\ todo' \in [Request -> SUBSET Path]
    BY DEF Inv, TypeOK, ReadEtag
  <2>3. pc' \in [Request -> Stages]
    BY DEF Inv, TypeOK, ReadEtag, Stages
  <2>. QED
    BY <2>1, <2>2, <2>3 DEF Inv, TypeOK, ReadEtag
<1>2. LockInv'
  BY QueueFacts DEF Inv, TypeOK, ReadEtag, LockInv, HeldPaths, HoldsPath, HoldsPublication
<1>3. ModeInv'
  BY DEF Inv, ReadEtag, ModeInv
<1>4. IntentInv'
  BY DEF Inv, ReadEtag, Changed, IntentInv, CanFinish, Payload
<1>5. RequestInv'
  BY DEF Inv, ReadEtag, Changed, RequestInv, Payload
<1>6. SeenIsCurrent'
  <2>1. pc[r] = "etag" /\ mode = mode' /\ disk' = disk /\ batch' = batch
    BY DEF ReadEtag
  <2>2. \A q \in Request \ {r} : pc'[q] = pc[q] /\ seen'[q] = seen[q] /\ todo'[q] = todo[q]
    BY DEF ReadEtag
  <2>3. \A p \in Path : p \notin todo'[r] =>
          seen'[r][p] = disk[p] \/ (p \notin todo[r] /\ seen'[r][p] = seen[r][p])
    BY DEF Inv, TypeOK, ReadEtag
  <2>4. pc'[r] # "etag" => todo'[r] = {}
    BY DEF ReadEtag
  <2>5. batch[r].paths \subseteq Path
    BY BatchFacts DEF Inv
  <2>6. ASSUME mode = "up", NEW p \in batch[r].paths, p \notin todo'[r]
        PROVE  seen'[r][p] = disk[p]
    BY <2>1, <2>3, <2>5, <2>6 DEF Inv, SeenIsCurrent
  <2>. QED
    BY <2>1, <2>2, <2>4, <2>6 DEF Inv, SeenIsCurrent
<1>7. RevisionInv'
  BY DEF Inv, ReadEtag, RevisionInv
<1>8. LedgerInv'
  <2>1. commitRev[r] = 0 /\ reply[r] = "none" /\ pc[r] = "etag"
        /\ pc'[r] \notin {"apply", "revision", "attribute", "complete"}
    BY DEF Inv, RequestInv, ReadEtag
  <2>2. \A q \in Request \ {r} : Changed(q)' = Changed(q) /\ pc'[q] = pc[q] /\ todo'[q] = todo[q]
    BY DEF ReadEtag, Changed
  <2>3. AttributedIsPublished'
    <3>1. UNCHANGED <<ledger, revision, intents, commitRev>>
      BY DEF ReadEtag
    <3>. QED
      BY <2>1, <2>2, <3>1, AttributionAside
  <2>4. AcknowledgedIsDurable'
    BY <2>1, <2>2 DEF Inv, LedgerInv, AcknowledgedIsDurable, ReadEtag
  <2>. QED
    BY <2>1, <2>2, <2>3, <2>4 DEF Inv, LedgerInv, ReadEtag
<1>. QED
  BY <1>1, <1>2, <1>3, <1>4, <1>5, <1>6, <1>7, <1>8 DEF Inv

(* An expected ETag differs: the conflict is answered before anything      *)
(* reached the journal.                                                    *)
LEMMA ReplyConflictStep ==
  ASSUME Inv, NEW r \in Request, ReplyConflict(r)
  PROVE  Inv'
<1>. USE DEF durable, locks, args, counters, Locking, Locked, Finishing
<1>1. TypeOK'
  BY AnswerType DEF Inv, ReplyConflict, TypeOK, Answers
<1>2. LockInv'
  BY AnswerLocks DEF Inv, ReplyConflict
<1>3. ModeInv'
  BY DEF Inv, ReplyConflict, Answer, ModeInv
<1>4. IntentInv'
  BY DEF Inv, ReplyConflict, Answer, IntentInv, CanFinish, Payload, Changed
<1>5. RequestInv'
  BY DEF Inv, TypeOK, ReplyConflict, Answer, RequestInv, Payload, Changed
<1>6. SeenIsCurrent'
  BY DEF Inv, ReplyConflict, Answer, SeenIsCurrent
<1>7. RevisionInv'
  BY DEF Inv, ReplyConflict, RevisionInv
<1>8. LedgerInv'
  BY DEF Inv, ReplyConflict, Answer, LedgerInv, AttributedIsPublished,
     AcknowledgedIsDurable, Changed
<1>. QED
  BY <1>1, <1>2, <1>3, <1>4, <1>5, <1>6, <1>7, <1>8 DEF Inv

(* prepare() stages every payload of what the batch changes.               *)
LEMMA PrepareStep ==
  ASSUME Inv, NEW r \in Request, Prepare(r)
  PROVE  Inv'
<1>. USE DEF durable, locks, args, counters, Locking, Locked, Finishing
<1>1. TypeOK'
  <2>1. staged' \in [Request -> SUBSET Path] /\ dir' \subseteq Request
    BY BatchFacts DEF Inv, TypeOK, Prepare, Stage
  <2>2. publication' \in Seq(Request)
    BY DEF Inv, TypeOK, Prepare
  <2>. QED
    BY <2>1, <2>2 DEF Inv, TypeOK, Prepare, Stage, Goto, Stages
<1>2. LockInv'
  BY QueueFacts DEF Inv, TypeOK, Prepare, Goto, LockInv, HeldPaths, HoldsPath,
     HoldsPublication
<1>3. ModeInv'
  BY DEF Inv, Prepare, Goto, ModeInv
<1>4. IntentInv'
  BY DEF Inv, Prepare, Stage, Goto, IntentInv, CanFinish, Payload, Changed
<1>5. RequestInv'
  BY DEF Inv, TypeOK, Prepare, Stage, Goto, RequestInv, Payload, Changed
<1>6. SeenIsCurrent'
  BY DEF Inv, Prepare, Goto, SeenIsCurrent
<1>7. RevisionInv'
  BY DEF Inv, Prepare, Stage, RevisionInv
<1>8. LedgerInv'
  BY DEF Inv, Prepare, Stage, Goto, LedgerInv, AttributedIsPublished,
     AcknowledgedIsDurable, Changed
<1>. QED
  BY <1>1, <1>2, <1>3, <1>4, <1>5, <1>6, <1>7, <1>8 DEF Inv

(* Staging fails: whatever stays in the journal directory has no intent.   *)
LEMMA PrepareFailsStep ==
  ASSUME Inv, NEW r \in Request, PrepareFails(r)
  PROVE  Inv'
<1>. USE DEF durable, locks, args, counters, Locking, Locked, Finishing
<1>1. TypeOK'
  <2>0. Payload(r) \subseteq Path
    BY BatchFacts DEF Inv
  <2>1. staged' \in [Request -> SUBSET Path] /\ dir' \subseteq Request
    <3>1. CASE UNCHANGED <<dir, staged>>
      BY <3>1 DEF Inv, TypeOK
    <3>2. CASE /\ dir' = dir \cup {r}
               /\ \E S \in SUBSET Payload(r) : staged' = [staged EXCEPT ![r] = S]
      <4>1. PICK S \in SUBSET Payload(r) : staged' = [staged EXCEPT ![r] = S]
        BY <3>2
      <4>. QED
        BY <2>0, <3>2, <4>1 DEF Inv, TypeOK
    <3>. QED
      BY <3>1, <3>2 DEF PrepareFails
  <2>2. /\ publication' \in Seq(Request) /\ pathLock' \in [Path -> Seq(Request)]
        /\ pc' \in [Request -> Stages] /\ reply' \in [Request -> Answers \cup {"none"}]
    BY AnswerType DEF Inv, PrepareFails, Answers
  <2>. QED
    BY <2>1, <2>2, SMTT(60) DEF Inv, TypeOK, PrepareFails, Fault
<1>2. LockInv'
  BY AnswerLocks DEF Inv, PrepareFails
<1>3. ModeInv'
  BY DEF Inv, PrepareFails, Answer, ModeInv
<1>4. IntentInv'
  BY DEF Inv, TypeOK, PrepareFails, Answer, IntentInv, CanFinish, Payload, Changed
<1>5. RequestInv'
  BY DEF Inv, TypeOK, PrepareFails, Answer, RequestInv, Payload, Changed
<1>6. SeenIsCurrent'
  BY DEF Inv, PrepareFails, Answer, SeenIsCurrent
<1>7. RevisionInv'
  BY DEF Inv, PrepareFails, RevisionInv
<1>8. LedgerInv'
  BY DEF Inv, PrepareFails, Answer, LedgerInv, AttributedIsPublished,
     AcknowledgedIsDurable, Changed
<1>. QED
  BY <1>1, <1>2, <1>3, <1>4, <1>5, <1>6, <1>7, <1>8 DEF Inv

-----------------------------------------------------------------------------
(* Under the publication lock.                                             *)

(* A document that was only read has changed: the staged directory is      *)
(* removed.                                                                *)
LEMMA RefuseStaleStep ==
  ASSUME Inv, NEW r \in Request, RefuseStale(r)
  PROVE  Inv'
<1>. USE DEF durable, locks, args, counters, Locking, Locked, Finishing
<1>1. TypeOK'
  BY AnswerType DEF Inv, RefuseStale, RemoveDirectory, TypeOK, Answers
<1>2. LockInv'
  BY AnswerLocks DEF Inv, RefuseStale
<1>3. ModeInv'
  BY DEF Inv, RefuseStale, Answer, ModeInv
<1>4. IntentInv'
  BY DEF Inv, RefuseStale, RemoveDirectory, Answer, IntentInv, CanFinish, Payload, Changed
<1>5. RequestInv'
  BY DEF Inv, TypeOK, RefuseStale, RemoveDirectory, Answer, RequestInv, Payload, Changed
<1>6. SeenIsCurrent'
  BY DEF Inv, RefuseStale, Answer, SeenIsCurrent
<1>7. RevisionInv'
  BY DEF Inv, RefuseStale, RemoveDirectory, IntentInv, RevisionInv
<1>8. LedgerInv'
  <2>1. /\ pc[r] = "publish" /\ commitRev[r] = 0
        /\ UNCHANGED <<ledger, revision, commitRev, todo, batch, seen>>
    BY DEF Inv, RequestInv, RefuseStale
  <2>2. \A q \in Request \ {r} : q \in intents' <=> q \in intents
    BY DEF RefuseStale, RemoveDirectory
  <2>3. AttributedIsPublished'
    BY <2>1, <2>2, AttributionAside DEF Changed
  <2>. QED
    BY <2>1, <2>2, <2>3 DEF Inv, TypeOK, RefuseStale, RemoveDirectory, Answer, LedgerInv,
       AcknowledgedIsDurable, Changed
<1>. QED
  BY <1>1, <1>2, <1>3, <1>4, <1>5, <1>6, <1>7, <1>8 DEF Inv

(* The same, when the directory cannot be removed: it has no intent.       *)
LEMMA RefuseStaleFailsStep ==
  ASSUME Inv, NEW r \in Request, RefuseStaleFails(r)
  PROVE  Inv'
<1>. USE DEF durable, locks, args, counters, Locking, Locked, Finishing
<1>1. TypeOK'
  <2>1. /\ staged' \in [Request -> SUBSET Path] /\ dir' \subseteq Request
        /\ intents' \subseteq Request /\ commitRev' \in [Request -> Nat]
    BY DEF Inv, TypeOK, RefuseStaleFails, RemoveDirectory
  <2>2. /\ publication' \in Seq(Request) /\ pathLock' \in [Path -> Seq(Request)]
        /\ pc' \in [Request -> Stages] /\ reply' \in [Request -> Answers \cup {"none"}]
    BY AnswerType DEF Inv, RefuseStaleFails, Answers
  <2>3. faults' \in Nat /\ crashes' \in Nat
    BY DEF Inv, TypeOK, RefuseStaleFails, Fault
  <2>4. healthy' \in BOOLEAN
    BY DEF RefuseStaleFails
  <2>5. UNCHANGED <<disk, revision, ledger, mode, todo, args>>
    BY DEF RefuseStaleFails
  <2>. QED
    BY <2>1, <2>2, <2>3, <2>4, <2>5 DEF Inv, TypeOK
<1>2. LockInv'
  BY AnswerLocks DEF Inv, RefuseStaleFails
<1>3. ModeInv'
  BY DEF Inv, RefuseStaleFails, Answer, ModeInv
<1>4. IntentInv'
  <2>1. /\ pc[r] = "publish" /\ pc' = [pc EXCEPT ![r] = "done"]
        /\ UNCHANGED <<disk, revision, commitRev, batch, seen, mode, healthy>>
    BY DEF RefuseStaleFails, Answer
  <2>2. intents = {} /\ mode = "up"
    BY PublisherAlone DEF Inv, RefuseStaleFails
  <2>3. intents' = {}
    BY <2>2 DEF RefuseStaleFails, RemoveDirectory
  <2>4. \A q \in Request : pc'[q] \notin Finishing
    BY <2>1, <2>2 DEF Inv, IntentInv
  <2>. QED
    BY <2>3, <2>4 DEF IntentInv
<1>5. RequestInv'
  BY DEF Inv, TypeOK, RefuseStaleFails, RemoveDirectory, Answer, RequestInv, Payload,
     Changed
<1>6. SeenIsCurrent'
  BY DEF Inv, RefuseStaleFails, Answer, SeenIsCurrent
<1>7. RevisionInv'
  BY DEF Inv, RefuseStaleFails, RemoveDirectory, IntentInv, RevisionInv
<1>8. LedgerInv'
  <2>1. /\ pc[r] = "publish" /\ commitRev[r] = 0
        /\ UNCHANGED <<ledger, revision, commitRev, todo, batch, seen>>
    BY DEF Inv, RequestInv, RefuseStaleFails
  <2>2. \A q \in Request \ {r} : q \in intents' <=> q \in intents
    BY DEF RefuseStaleFails, RemoveDirectory
  <2>3. AttributedIsPublished'
    BY <2>1, <2>2, AttributionAside DEF Changed
  <2>. QED
    BY <2>1, <2>2, <2>3 DEF Inv, TypeOK, RefuseStaleFails, RemoveDirectory, Answer, LedgerInv,
       AcknowledgedIsDurable, Changed
<1>. QED
  BY <1>1, <1>2, <1>3, <1>4, <1>5, <1>6, <1>7, <1>8 DEF Inv

(* Nothing differs from what is on disk: answered without a revision.      *)
LEMMA ReplyUnchangedStep ==
  ASSUME Inv, NEW r \in Request, ReplyUnchanged(r)
  PROVE  Inv'
<1>. USE DEF durable, locks, args, counters, Locking, Locked, Finishing
<1>1. TypeOK'
  BY AnswerType DEF Inv, ReplyUnchanged, TypeOK, Answers
<1>2. LockInv'
  BY AnswerLocks DEF Inv, ReplyUnchanged
<1>3. ModeInv'
  BY DEF Inv, ReplyUnchanged, Answer, ModeInv
<1>4. IntentInv'
  BY DEF Inv, ReplyUnchanged, Answer, IntentInv, CanFinish, Payload, Changed
<1>5. RequestInv'
  BY DEF Inv, TypeOK, ReplyUnchanged, Answer, RequestInv, Payload, Changed
<1>6. SeenIsCurrent'
  BY DEF Inv, ReplyUnchanged, Answer, SeenIsCurrent
<1>7. RevisionInv'
  BY DEF Inv, ReplyUnchanged, RevisionInv
<1>8. LedgerInv'
  BY DEF Inv, ReplyUnchanged, Answer, LedgerInv, AttributedIsPublished,
     AcknowledgedIsDurable, Changed
<1>. QED
  BY <1>1, <1>2, <1>3, <1>4, <1>5, <1>6, <1>7, <1>8 DEF Inv

(* recordIntent() makes the batch durable, as the only pending intent and  *)
(* one revision ahead.                                                     *)
LEMMA RecordIntentStep ==
  ASSUME Inv, NEW r \in Request, RecordIntent(r)
  PROVE  Inv'
<1>. USE DEF durable, locks, args, counters, Locking, Locked, Finishing
<1>1. TypeOK'
  BY DEF Inv, RecordIntent, WriteIntent, TypeOK, Stages
<1>2. LockInv'
  BY DEF Inv, RecordIntent, MayPublish, LockInv, HeldPaths, HoldsPath, HoldsPublication
<1>3. ModeInv'
  BY DEF Inv, RecordIntent, MayPublish, ModeInv
<1>4. IntentInv'
  <2>1. /\ pc[r] = "publish" /\ pc' = [pc EXCEPT ![r] = "finish"] /\ intents' = intents \cup {r}
        /\ commitRev' = [commitRev EXCEPT ![r] = revision + 1]
        /\ UNCHANGED <<disk, revision, staged, batch, seen>>
    BY DEF RecordIntent, MayPublish, WriteIntent
  <2>2. intents = {} /\ mode = "up"
    BY PublisherAlone DEF Inv, RecordIntent, MayPublish
  <2>3. intents' = {r} /\ pc'[r] = "finish" /\ commitRev'[r] = revision + 1
    BY <2>1, <2>2 DEF Inv, TypeOK
  <2>4. CanFinish(r)'
    BY <2>1, <2>3 DEF Inv, RequestInv, CanFinish, Payload, Changed
  <2>5. \A q \in Request \ {r} : pc'[q] = pc[q] /\ pc'[q] \notin Finishing
    BY <2>1, <2>2 DEF Inv, IntentInv
  <2>. QED
    BY <2>1, <2>3, <2>4, <2>5 DEF Inv, TypeOK, IntentInv
<1>5. RequestInv'
  BY DEF Inv, TypeOK, RecordIntent, MayPublish, WriteIntent, RequestInv, Payload, Changed
<1>6. SeenIsCurrent'
  BY DEF Inv, RecordIntent, SeenIsCurrent
<1>7. RevisionInv'
  <2>1. intents = {}
    BY PublisherAlone DEF Inv, RecordIntent, MayPublish
  <2>2. /\ commitRev' = [commitRev EXCEPT ![r] = revision + 1]
        /\ revision' = revision /\ r \in intents'
    BY DEF RecordIntent, WriteIntent
  <2>3. \A q \in Request : commitRev[q] <= revision
    BY <2>1 DEF Inv, RevisionInv
  <2>. QED
    BY <2>2, <2>3 DEF Inv, TypeOK, RevisionInv
<1>8. LedgerInv'
  <2>1. /\ commitRev[r] = 0 /\ reply[r] = "none"
        /\ pc' = [pc EXCEPT ![r] = "finish"] /\ intents' = intents \cup {r}
        /\ commitRev' = [commitRev EXCEPT ![r] = revision + 1]
        /\ UNCHANGED <<revision, ledger, batch, seen, todo, reply>>
    BY DEF Inv, RequestInv, RecordIntent, MayPublish, WriteIntent
  <2>2. \A q \in Request : Changed(q)' = Changed(q)
    BY <2>1 DEF Changed
  <2>3. \A p \in Path : <<r, p>> \notin ledger
    BY <2>1 DEF Inv, LedgerInv, AttributedIsPublished
  <2>. QED
    BY <2>1, <2>2, <2>3 DEF Inv, TypeOK, LedgerInv, AttributedIsPublished,
       AcknowledgedIsDurable
<1>. QED
  BY <1>1, <1>2, <1>3, <1>4, <1>5, <1>6, <1>7, <1>8 DEF Inv

(* The write of the intent throws, with or without having become visible:  *)
(* recoveryRequired is set.                                                *)
LEMMA RecordIntentFailsStep ==
  ASSUME Inv, NEW r \in Request, RecordIntentFails(r)
  PROVE  Inv'
<1>. USE DEF durable, locks, args, counters, Locking, Locked, Finishing
<1>1. TypeOK'
  <2>1. /\ staged' \in [Request -> SUBSET Path] /\ dir' \subseteq Request
        /\ intents' \subseteq Request /\ commitRev' \in [Request -> Nat]
    BY DEF Inv, TypeOK, RecordIntentFails, MayPublish, WriteIntent
  <2>2. /\ publication' \in Seq(Request) /\ pathLock' \in [Path -> Seq(Request)]
        /\ pc' \in [Request -> Stages] /\ reply' \in [Request -> Answers \cup {"none"}]
    BY AnswerType DEF Inv, RecordIntentFails, Answers
  <2>3. faults' \in Nat /\ crashes' \in Nat
    BY DEF Inv, TypeOK, RecordIntentFails, Fault
  <2>4. healthy' \in BOOLEAN
    BY DEF RecordIntentFails, NeedsRecovery
  <2>5. UNCHANGED <<disk, revision, ledger, mode, todo, args>>
    BY DEF RecordIntentFails
  <2>. QED
    BY <2>1, <2>2, <2>3, <2>4, <2>5 DEF Inv, TypeOK
<1>2. LockInv'
  BY AnswerLocks DEF Inv, RecordIntentFails
<1>3. ModeInv'
  BY DEF Inv, RecordIntentFails, Answer, ModeInv
<1>4. IntentInv'
  <2>1. /\ pc[r] = "publish" /\ pc' = [pc EXCEPT ![r] = "done"] /\ healthy' = FALSE
        /\ UNCHANGED <<disk, revision, staged, batch, seen>>
    BY DEF RecordIntentFails, MayPublish, Answer, NeedsRecovery
  <2>2. intents = {} /\ mode = "up"
    BY PublisherAlone DEF Inv, RecordIntentFails, MayPublish
  <2>3. \A q \in Request : pc'[q] \notin Finishing
    BY <2>1, <2>2 DEF Inv, IntentInv
  <2>4. CASE UNCHANGED <<intents, commitRev>>
    BY <2>1, <2>2, <2>3, <2>4 DEF IntentInv
  <2>5. CASE WriteIntent(r)
    <3>1. intents' = {r} /\ commitRev'[r] = revision + 1 /\ pc'[r] = "done"
      BY <2>1, <2>2, <2>5 DEF Inv, TypeOK, WriteIntent
    <3>2. CanFinish(r)'
      BY <2>1, <3>1 DEF Inv, RequestInv, CanFinish, Payload, Changed
    <3>. QED
      BY <2>1, <2>3, <3>1, <3>2 DEF Inv, TypeOK, IntentInv
  <2>. QED
    BY <2>4, <2>5 DEF RecordIntentFails
<1>5. RequestInv'
  BY DEF Inv, TypeOK, RecordIntentFails, WriteIntent, Answer, RequestInv, Payload, Changed
<1>6. SeenIsCurrent'
  BY DEF Inv, RecordIntentFails, Answer, SeenIsCurrent
<1>7. RevisionInv'
  <2>1. intents = {}
    BY PublisherAlone DEF Inv, RecordIntentFails, MayPublish
  <2>2. revision' = revision /\ (WriteIntent(r) \/ UNCHANGED <<intents, commitRev>>)
    BY DEF RecordIntentFails
  <2>3. \A q \in Request : commitRev[q] <= revision
    BY <2>1 DEF Inv, RevisionInv
  <2>4. CASE UNCHANGED <<intents, commitRev>>
    BY <2>2, <2>4 DEF Inv, RevisionInv
  <2>5. CASE WriteIntent(r)
    <3>1. r \in intents' /\ commitRev' = [commitRev EXCEPT ![r] = revision + 1]
      BY <2>5 DEF WriteIntent
    <3>2. revision \in Nat /\ commitRev \in [Request -> Nat]
      BY DEF Inv, TypeOK
    <3>3. \A q \in Request : commitRev'[q] = IF q = r THEN revision + 1 ELSE commitRev[q]
      BY <3>1, <3>2
    <3>. QED
      BY <2>1, <2>2, <2>3, <3>1, <3>2, <3>3 DEF Inv, RevisionInv
  <2>. QED
    BY <2>2, <2>4, <2>5
<1>8. LedgerInv'
  <2>1. /\ commitRev[r] = 0 /\ reply[r] = "none"
        /\ pc' = [pc EXCEPT ![r] = "done"] /\ reply' = [reply EXCEPT ![r] = "failed"]
        /\ WriteIntent(r) \/ UNCHANGED <<intents, commitRev>>
        /\ UNCHANGED <<revision, ledger, batch, seen, todo>>
    BY DEF Inv, RequestInv, RecordIntentFails, MayPublish, Answer
  <2>2. \A q \in Request : Changed(q)' = Changed(q)
    BY <2>1 DEF Changed
  <2>3. \A q \in Request \ {r} :
          /\ pc'[q] = pc[q] /\ reply'[q] = reply[q] /\ commitRev'[q] = commitRev[q]
          /\ q \in intents' <=> q \in intents
    BY <2>1 DEF Inv, TypeOK, WriteIntent
  <2>4. pc'[r] = "done" /\ reply'[r] = "failed"
    BY <2>1 DEF Inv, TypeOK
  <2>5. AttributedIsPublished'
    <3>1. commitRev'[r] = 0 \/ r \in intents'
      BY <2>1 DEF WriteIntent
    <3>. QED
      BY <2>1, <2>2, <2>3, <3>1, AttributionAside
  <2>6. AcknowledgedIsDurable'
    BY <2>1, <2>2, <2>3, <2>4 DEF Inv, LedgerInv, AcknowledgedIsDurable
  <2>. QED
    BY <2>1, <2>2, <2>3, <2>4, <2>5, <2>6 DEF Inv, LedgerInv
<1>. QED
  BY <1>1, <1>2, <1>3, <1>4, <1>5, <1>6, <1>7, <1>8 DEF Inv

(* assertHealthy throws: the call ends and its directory has no intent.    *)
LEMMA UnhealthyStep ==
  ASSUME Inv, NEW r \in Request, Unhealthy(r)
  PROVE  Inv'
<1>. USE DEF durable, locks, args, counters, Locking, Locked, Finishing
<1>1. TypeOK'
  BY AnswerType DEF Inv, Unhealthy, TypeOK, Answers
<1>2. LockInv'
  BY AnswerLocks DEF Inv, Unhealthy
<1>3. ModeInv'
  BY DEF Inv, Unhealthy, Answer, ModeInv
<1>4. IntentInv'
  BY DEF Inv, Unhealthy, Answer, IntentInv, CanFinish, Payload, Changed
<1>5. RequestInv'
  BY DEF Inv, TypeOK, Unhealthy, Answer, RequestInv, Payload, Changed
<1>6. SeenIsCurrent'
  BY DEF Inv, Unhealthy, Answer, SeenIsCurrent
<1>7. RevisionInv'
  BY DEF Inv, Unhealthy, RevisionInv
<1>8. LedgerInv'
  BY DEF Inv, Unhealthy, Answer, LedgerInv, AttributedIsPublished, AcknowledgedIsDurable,
     Changed
<1>. QED
  BY <1>1, <1>2, <1>3, <1>4, <1>5, <1>6, <1>7, <1>8 DEF Inv

-----------------------------------------------------------------------------
(* finish(), by the request or by recovery.                                *)

(* finish() accepts the revision and the payloads, which IntentInv         *)
(* promises.                                                               *)
LEMMA CheckIntentStep ==
  ASSUME Inv, NEW r \in Request, CheckIntent(r)
  PROVE  Inv'
<1>. USE DEF durable, locks, args, counters, Locking, Locked, Finishing
<1>1. TypeOK'
  <2>1. todo' \in [Request -> SUBSET Path]
    BY BatchFacts DEF Inv, TypeOK, CheckIntent
  <2>2. pc' \in [Request -> Stages]
    BY DEF Inv, TypeOK, CheckIntent, Goto, Stages
  <2>. QED
    BY <2>1, <2>2 DEF Inv, TypeOK, CheckIntent
<1>2. LockInv'
  BY DEF Inv, CheckIntent, Goto, LockInv, HeldPaths, HoldsPath, HoldsPublication
<1>3. ModeInv'
  BY DEF Inv, CheckIntent, Goto, ModeInv, IntentInv
<1>4. IntentInv'
  BY DEF Inv, CheckIntent, Goto, IntentInv, CanFinish, Payload, Changed
<1>5. RequestInv'
  BY DEF Inv, CheckIntent, Goto, RequestInv, Payload, Changed, IntentInv
<1>6. SeenIsCurrent'
  BY DEF Inv, CheckIntent, Goto, SeenIsCurrent
<1>7. RevisionInv'
  BY DEF Inv, CheckIntent, RevisionInv
<1>8. LedgerInv'
  BY DEF Inv, TypeOK, CheckIntent, Goto, LedgerInv, AttributedIsPublished,
     AcknowledgedIsDurable, Changed
<1>. QED
  BY <1>1, <1>2, <1>3, <1>4, <1>5, <1>6, <1>7, <1>8 DEF Inv

(* One file is installed: whoever saw another content of it holds no lock  *)
(* on it.                                                                  *)
LEMMA ApplyStep ==
  ASSUME Inv, NEW r \in Request, Apply(r)
  PROVE  Inv'
<1>. USE DEF durable, locks, args, counters, Locking, Locked, Finishing
<1>1. TypeOK'
  <2>1. PICK p \in todo[r] :
          /\ disk' = [disk EXCEPT ![p] = batch[r].content[p]]
          /\ staged' = [staged EXCEPT ![r] = @ \ {p}]
          /\ \/ todo' = [todo EXCEPT ![r] = Changed(r)] /\ pc' = [pc EXCEPT ![r] = "revision"]
             \/ todo' = [todo EXCEPT ![r] = @ \ {p}] /\ pc' = [pc EXCEPT ![r] = "apply"]
    BY DEF Apply, Goto, After
  <2>2. p \in Path /\ batch[r].content[p] \in Value
    BY BatchFacts, SMTT(30) DEF Inv, TypeOK
  <2>3. disk' \in [Path -> Value] /\ staged' \in [Request -> SUBSET Path]
    BY <2>1, <2>2 DEF Inv, TypeOK
  <2>4. todo' \in [Request -> SUBSET Path] /\ pc' \in [Request -> Stages]
    <3>1. Changed(r) \subseteq Path
      BY BatchFacts DEF Inv
    <3>2. todo \in [Request -> SUBSET Path] /\ pc \in [Request -> Stages]
      BY DEF Inv, TypeOK
    <3>3. {"revision", "apply"} \subseteq Stages
      BY DEF Stages
    <3>. QED
      BY <2>1, <3>1, <3>2, <3>3
  <2>. QED
    BY <2>3, <2>4 DEF Inv, TypeOK, Apply
<1>2. LockInv'
  <2>1. PICK p \in todo[r] :
          /\ disk' = [disk EXCEPT ![p] = batch[r].content[p]]
          /\ staged' = [staged EXCEPT ![r] = @ \ {p}]
          /\ \/ todo' = [todo EXCEPT ![r] = Changed(r)] /\ pc' = [pc EXCEPT ![r] = "revision"]
             \/ todo' = [todo EXCEPT ![r] = @ \ {p}] /\ pc' = [pc EXCEPT ![r] = "apply"]
    BY DEF Apply, Goto, After
  <2>2. pc[r] = "apply"
    BY DEF Apply, Goto
  <2>3. \A q \in Request :
          (pc[q] \in Finishing <=> pc'[q] \in Finishing)
            /\ (q # r => pc'[q] = pc[q] /\ todo'[q] = todo[q])
    BY <2>1, <2>2 DEF Inv, TypeOK
  <2>4. \A q \in Request : HeldPaths(q)' = HeldPaths(q)
    BY <2>1, <2>2, <2>3, ZenonT(30) DEF Apply, HeldPaths
  <2>. QED
    BY <2>3, <2>4 DEF Inv, LockInv, Apply, HoldsPath, HoldsPublication
<1>3. ModeInv'
  <2>1. PICK p \in todo[r] :
          /\ disk' = [disk EXCEPT ![p] = batch[r].content[p]]
          /\ staged' = [staged EXCEPT ![r] = @ \ {p}]
          /\ \/ todo' = [todo EXCEPT ![r] = Changed(r)] /\ pc' = [pc EXCEPT ![r] = "revision"]
             \/ todo' = [todo EXCEPT ![r] = @ \ {p}] /\ pc' = [pc EXCEPT ![r] = "apply"]
    BY DEF Apply, Goto, After
  <2>2. pc[r] = "apply" /\ mode' = mode
    BY DEF Apply, Goto
  <2>. QED
    BY <2>1, <2>2, ZenonT(60) DEF Inv, TypeOK, ModeInv
<1>4. IntentInv'
  BY DEF Inv, TypeOK, Apply, After, Goto, IntentInv, CanFinish, Payload, Changed
<1>5. RequestInv'
  BY DEF Inv, TypeOK, Apply, After, Goto, RequestInv, Payload, Changed
<1>6. SeenIsCurrent'
  <2>1. PICK p \in todo[r] :
          /\ disk' = [disk EXCEPT ![p] = batch[r].content[p]]
          /\ staged' = [staged EXCEPT ![r] = @ \ {p}]
          /\ \/ todo' = [todo EXCEPT ![r] = Changed(r)] /\ pc' = [pc EXCEPT ![r] = "revision"]
             \/ todo' = [todo EXCEPT ![r] = @ \ {p}] /\ pc' = [pc EXCEPT ![r] = "apply"]
    BY DEF Apply, Goto, After
  <2>2. pc[r] = "apply" /\ UNCHANGED <<mode, seen, batch>>
    BY DEF Apply, Goto
  <2>. SUFFICES ASSUME mode = "up", NEW q \in Request,
                       pc'[q] \in {"etag", "conflicting", "prepare", "publish"},
                       NEW x \in batch[q].paths,
                       ~ (pc'[q] = "etag" /\ x \in todo'[q])
                PROVE  seen[q][x] = disk'[x]
    BY <2>2 DEF SeenIsCurrent
  <2>3. q # r /\ pc[q] = pc'[q] /\ todo[q] = todo'[q]
    BY <2>1, <2>2 DEF Inv, TypeOK
  <2>4. seen[q][x] = disk[x]
    BY <2>3 DEF Inv, SeenIsCurrent
  <2>5. x \in HeldPaths(q) /\ p \in HeldPaths(r)
    BY <2>2, <2>3 DEF HeldPaths, Inv, RequestInv
  <2>6. x # p
    BY <2>3, <2>5 DEF Inv, LockInv, HoldsPath, Holds
  <2>7. x \in Path /\ p \in Path
    BY <2>5, HeldInPath DEF Inv
  <2>. QED
    BY <2>1, <2>4, <2>6, <2>7
<1>7. RevisionInv'
  BY DEF Inv, Apply, RevisionInv
<1>8. LedgerInv'
  <2>1. UNCHANGED <<ledger, revision, commitRev, intents, reply, batch, seen>>
    BY DEF Apply
  <2>2. \A q \in Request : Changed(q)' = Changed(q)
    BY <2>1 DEF Changed
  <2>3. AttributedIsPublished' /\ AcknowledgedIsDurable'
    BY <2>1, <2>2 DEF Inv, LedgerInv, AttributedIsPublished, AcknowledgedIsDurable
  <2>. QED
    BY <2>1, <2>2, <2>3, SMTT(60) DEF Inv, TypeOK, Apply, After, Goto, LedgerInv
<1>. QED
  BY <1>1, <1>2, <1>3, <1>4, <1>5, <1>6, <1>7, <1>8 DEF Inv

(* finish() writes the revision of the one pending intent.                 *)
LEMMA WriteRevisionStep ==
  ASSUME Inv, NEW r \in Request, WriteRevision(r)
  PROVE  Inv'
<1>. USE DEF durable, locks, args, counters, Locking, Locked, Finishing
<1>1. TypeOK'
  BY DEF Inv, WriteRevision, NewRevision, After, Goto, TypeOK, Stages
<1>2. LockInv'
  BY DEF Inv, WriteRevision, Goto, LockInv, HeldPaths, HoldsPath, HoldsPublication
<1>3. ModeInv'
  BY DEF Inv, WriteRevision, After, Goto, ModeInv
<1>4. IntentInv'
  BY DEF Inv, WriteRevision, NewRevision, After, Goto, IntentInv, CanFinish, Payload,
     Changed
<1>5. RequestInv'
  BY DEF Inv, WriteRevision, After, Goto, RequestInv, Payload, Changed
<1>6. SeenIsCurrent'
  BY DEF Inv, WriteRevision, After, Goto, SeenIsCurrent
<1>7. RevisionInv'
  <2>1. r \in intents /\ commitRev[r] \in {revision, revision + 1}
    BY DEF Inv, IntentInv, CanFinish, WriteRevision, Goto
  <2>2. revision' = commitRev[r] /\ UNCHANGED <<intents, commitRev>>
    BY DEF WriteRevision, NewRevision
  <2>3. revision \in Nat /\ commitRev \in [Request -> Nat]
    BY DEF Inv, TypeOK
  <2>4. \A q \in intents : q = r
    BY <2>1 DEF Inv, IntentInv
  <2>. QED
    BY <2>1, <2>2, <2>3, <2>4 DEF Inv, RevisionInv
<1>8. LedgerInv'
  <2>1. r \in intents /\ commitRev[r] \in {revision, revision + 1}
    BY DEF Inv, IntentInv, CanFinish, WriteRevision, Goto
  <2>2. revision' = commitRev[r] /\ pc[r] = "revision" /\ pc' = [pc EXCEPT ![r] = "attribute"]
        /\ UNCHANGED <<intents, commitRev, ledger, batch, seen, todo, reply>>
    BY DEF WriteRevision, NewRevision, Goto, After
  <2>3. revision \in Nat /\ commitRev \in [Request -> Nat] /\ revision <= revision'
    BY <2>1, <2>2 DEF Inv, TypeOK
  <2>4. \A q \in Request : Changed(q)' = Changed(q)
    BY <2>2 DEF Changed
  <2>5. todo[r] = Changed(r)
    BY <2>2 DEF Inv, LedgerInv
  <2>. QED
    BY <2>2, <2>3, <2>4, <2>5 DEF Inv, LedgerInv, AttributedIsPublished,
       AcknowledgedIsDurable
<1>. QED
  BY <1>1, <1>2, <1>3, <1>4, <1>5, <1>6, <1>7, <1>8 DEF Inv

(* onWrite is told of one file, which is visible under its revision.       *)
LEMMA AttributeStep ==
  ASSUME Inv, NEW r \in Request, Attribute(r)
  PROVE  Inv'
<1>. USE DEF durable, locks, args, counters, Locking, Locked, Finishing
<1>1. TypeOK'
  BY DEF Inv, Attribute, After, Goto, TypeOK, Stages
<1>2. LockInv'
  BY DEF Inv, Attribute, Goto, LockInv, HeldPaths, HoldsPath, HoldsPublication
<1>3. ModeInv'
  BY DEF Inv, Attribute, After, Goto, ModeInv
<1>4. IntentInv'
  BY DEF Inv, Attribute, After, Goto, IntentInv, CanFinish, Payload, Changed
<1>5. RequestInv'
  BY DEF Inv, Attribute, After, Goto, RequestInv, Payload, Changed
<1>6. SeenIsCurrent'
  BY DEF Inv, Attribute, After, Goto, SeenIsCurrent
<1>7. RevisionInv'
  BY DEF Inv, Attribute, RevisionInv
<1>8. LedgerInv'
  <2>1. PICK p \in todo[r] :
          /\ ledger' = ledger \cup {<<r, p>>}
          /\ \/ todo[r] = {p} /\ pc' = [pc EXCEPT ![r] = "complete"]
             \/ todo[r] # {p} /\ pc' = [pc EXCEPT ![r] = "attribute"]
          /\ todo' = [todo EXCEPT ![r] = @ \ {p}]
    BY DEF Attribute, Goto, After
  <2>2. pc[r] = "attribute" /\ UNCHANGED <<revision, intents, commitRev, batch, seen, reply>>
    BY DEF Attribute, Goto
  <2>3. \A q \in Request : Changed(q)' = Changed(q)
    BY <2>2 DEF Changed
  <2>4. \A q \in Request \ {r} : pc'[q] = pc[q] /\ todo'[q] = todo[q]
    BY <2>1 DEF Inv, TypeOK
  <2>5. p \in Changed(r) /\ 0 < commitRev[r] /\ commitRev[r] <= revision
    BY <2>2 DEF Inv, LedgerInv, IntentInv
  <2>6. AttributedIsPublished'
    BY <2>1, <2>2, <2>3, <2>5 DEF Inv, LedgerInv, AttributedIsPublished
  <2>7. AcknowledgedIsDurable'
    BY <2>1, <2>2, <2>3 DEF Inv, LedgerInv, AcknowledgedIsDurable
  <2>8. \A x \in Changed(r) : <<r, x>> \in ledger' \/ (pc'[r] = "attribute" /\ x \in todo'[r])
    BY <2>1, <2>2 DEF Inv, TypeOK, LedgerInv
  <2>9. todo'[r] \subseteq Changed(r) /\ pc'[r] \in {"attribute", "complete"}
    BY <2>1, <2>2 DEF Inv, TypeOK, LedgerInv
  <2>. QED
    BY <2>2, <2>3, <2>4, <2>5, <2>6, <2>7, <2>8, <2>9, <2>1 DEF Inv, LedgerInv
<1>. QED
  BY <1>1, <1>2, <1>3, <1>4, <1>5, <1>6, <1>7, <1>8 DEF Inv

(* complete() removes the intent and answers: every changed file has been  *)
(* attributed.                                                             *)
LEMMA CompleteStep ==
  ASSUME Inv, NEW r \in Request, Complete(r)
  PROVE  Inv'
<1>. USE DEF durable, locks, args, counters, Locking, Locked, Finishing
<1>1. TypeOK'
  <2>1. staged' \in [Request -> SUBSET Path] /\ dir' \subseteq Request /\ intents' \subseteq Request
    BY DEF Inv, TypeOK, Complete, RemoveDirectory
  <2>2. PICK w \in Answers : Answer(r, w)
    BY DEF Inv, TypeOK, Complete, Answers
  <2>3. /\ publication' \in Seq(Request) /\ pathLock' \in [Path -> Seq(Request)]
        /\ pc' \in [Request -> Stages] /\ reply' \in [Request -> Answers \cup {"none"}]
    BY <2>2, AnswerType DEF Inv
  <2>. QED
    BY <2>1, <2>3 DEF Inv, TypeOK, Complete
<1>2. LockInv'
  <2>1. PICK w \in Answers : Answer(r, w)
    BY DEF Inv, TypeOK, Complete, Answers
  <2>. QED
    BY <2>1, AnswerLocks DEF Inv, Complete
<1>3. ModeInv'
  BY DEF Inv, Complete, Answer, ModeInv
<1>4. IntentInv'
  BY DEF Inv, TypeOK, Complete, RemoveDirectory, Answer, IntentInv
<1>5. RequestInv'
  BY DEF Inv, Complete, RemoveDirectory, Answer, RequestInv, Payload, Changed
<1>6. SeenIsCurrent'
  BY DEF Inv, Complete, Answer, SeenIsCurrent
<1>7. RevisionInv'
  <2>1. pc[r] = "complete" => commitRev[r] <= revision
    BY DEF Inv, LedgerInv
  <2>2. /\ UNCHANGED <<revision, commitRev>>
        /\ intents' = intents \/ (pc[r] = "complete" /\ intents' = intents \ {r})
    BY DEF Complete, RemoveDirectory
  <2>3. revision \in Nat /\ commitRev \in [Request -> Nat]
    BY DEF Inv, TypeOK
  <2>. QED
    BY <2>1, <2>2, <2>3 DEF Inv, RevisionInv
<1>8. LedgerInv'
  BY DEF Inv, Complete, RemoveDirectory, Answer, IntentInv, LedgerInv,
     AttributedIsPublished, AcknowledgedIsDurable, Changed
<1>. QED
  BY <1>1, <1>2, <1>3, <1>4, <1>5, <1>6, <1>7, <1>8 DEF Inv

(* A file operation of finish() throws: the intent waits for the restart.  *)
LEMMA FinishFailsStep ==
  ASSUME Inv, NEW r \in Request, FinishFails(r)
  PROVE  Inv'
<1>. USE DEF durable, locks, args, counters, Locking, Locked, Finishing
<1>1. TypeOK'
  <2>1. /\ staged' \in [Request -> SUBSET Path] /\ dir' \subseteq Request
        /\ intents' \subseteq Request /\ commitRev' \in [Request -> Nat]
    BY DEF Inv, TypeOK, FinishFails, RemoveDirectory
  <2>2. /\ publication' \in Seq(Request) /\ pathLock' \in [Path -> Seq(Request)]
        /\ pc' \in [Request -> Stages] /\ reply' \in [Request -> Answers \cup {"none"}]
    BY AnswerType DEF Inv, FinishFails, Answers
  <2>3. faults' \in Nat /\ crashes' \in Nat
    BY DEF Inv, TypeOK, FinishFails, Fault
  <2>4. healthy' \in BOOLEAN
    BY DEF FinishFails, NeedsRecovery
  <2>5. UNCHANGED <<disk, revision, ledger, mode, todo, args>>
    BY DEF FinishFails
  <2>. QED
    BY <2>1, <2>2, <2>3, <2>4, <2>5 DEF Inv, TypeOK
<1>2. LockInv'
  BY AnswerLocks DEF Inv, FinishFails
<1>3. ModeInv'
  BY DEF Inv, FinishFails, Answer, ModeInv
<1>4. IntentInv'
  BY DEF Inv, TypeOK, FinishFails, RemoveDirectory, NeedsRecovery, Answer, IntentInv,
     CanFinish, Payload, Changed
<1>5. RequestInv'
  BY DEF Inv, TypeOK, FinishFails, RemoveDirectory, Answer, RequestInv, Payload, Changed
<1>6. SeenIsCurrent'
  BY DEF Inv, FinishFails, Answer, SeenIsCurrent
<1>7. RevisionInv'
  <2>1. pc[r] = "complete" => commitRev[r] <= revision
    BY DEF Inv, LedgerInv
  <2>2. /\ UNCHANGED <<revision, commitRev>>
        /\ intents' = intents \/ (pc[r] = "complete" /\ intents' = intents \ {r})
    BY DEF FinishFails, RemoveDirectory
  <2>3. revision \in Nat /\ commitRev \in [Request -> Nat]
    BY DEF Inv, TypeOK
  <2>. QED
    BY <2>1, <2>2, <2>3 DEF Inv, RevisionInv
<1>8. LedgerInv'
  BY DEF Inv, FinishFails, RemoveDirectory, Answer, LedgerInv, AttributedIsPublished,
     AcknowledgedIsDurable, Changed
<1>. QED
  BY <1>1, <1>2, <1>3, <1>4, <1>5, <1>6, <1>7, <1>8 DEF Inv

-----------------------------------------------------------------------------
(* Death and boot.                                                         *)

(* recover() starts to finish an intent of the journal; it is alone.       *)
LEMMA RecoverNextStep ==
  ASSUME Inv, NEW r \in Request, RecoverNext(r)
  PROVE  Inv'
<1>. USE DEF durable, locks, args, counters, Locking, Locked, Finishing
<1>1. TypeOK'
  BY DEF Inv, RecoverNext, TypeOK, Stages
<1>2. LockInv'
  BY DEF RecoverNext, LockInv, HeldPaths
<1>3. ModeInv'
  BY DEF Inv, RecoverNext, ModeInv
<1>4. IntentInv'
  BY DEF Inv, RecoverNext, IntentInv, CanFinish, Payload, Changed
<1>5. RequestInv'
  BY DEF Inv, RecoverNext, RequestInv, Payload, Changed
<1>6. SeenIsCurrent'
  BY DEF RecoverNext, SeenIsCurrent
<1>7. RevisionInv'
  BY DEF Inv, RecoverNext, RevisionInv
<1>8. LedgerInv'
  BY DEF Inv, RecoverNext, LedgerInv, AttributedIsPublished, AcknowledgedIsDurable,
     Changed
<1>. QED
  BY <1>1, <1>2, <1>3, <1>4, <1>5, <1>6, <1>7, <1>8 DEF Inv

(* The process dies: what is on disk still satisfies the invariant without *)
(* any lock.                                                               *)
LEMMA CrashStep ==
  ASSUME Inv, Crash
  PROVE  Inv'
<1>. USE DEF durable, locks, args, counters, Locking, Locked, Finishing
<1>1. TypeOK'
  <2>1. pathLock' \in [Path -> Seq(Request)] /\ publication' \in Seq(Request)
    BY DEF Crash, Die
  <2>2. pc' \in [Request -> Stages] /\ reply' \in [Request -> Answers \cup {"none"}]
    BY DEF Inv, TypeOK, Stages, Answers, Crash, Die
  <2>. QED
    BY <2>1, <2>2 DEF Inv, TypeOK, Crash, Die
<1>2. LockInv'
  BY DEF Crash, Die, LockInv, HeldPaths
<1>3. ModeInv'
  BY DEF Crash, Die, ModeInv
<1>4. IntentInv'
  BY DEF Inv, TypeOK, Crash, Die, IntentInv, CanFinish, Payload, Changed
<1>5. RequestInv'
  BY DEF Inv, Crash, Die, RequestInv
<1>6. SeenIsCurrent'
  BY DEF Crash, Die, SeenIsCurrent
<1>7. RevisionInv'
  BY DEF Inv, Crash, Die, RevisionInv
<1>8. LedgerInv'
  BY DEF Inv, Crash, Die, LedgerInv, AttributedIsPublished, AcknowledgedIsDurable, Changed
<1>. QED
  BY <1>1, <1>2, <1>3, <1>4, <1>5, <1>6, <1>7, <1>8 DEF Inv

(* A file operation of recover() throws: the boot ends as a crash does.    *)
LEMMA RecoveryFailsStep ==
  ASSUME Inv, RecoveryFails
  PROVE  Inv'
<1>. USE DEF durable, locks, args, counters, Locking, Locked, Finishing
<1>1. TypeOK'
  <2>1. pathLock' \in [Path -> Seq(Request)] /\ publication' \in Seq(Request)
    BY DEF RecoveryFails, Die
  <2>2. pc' \in [Request -> Stages] /\ reply' \in [Request -> Answers \cup {"none"}]
    BY DEF Inv, TypeOK, Stages, Answers, RecoveryFails, Die
  <2>. QED
    BY <2>1, <2>2 DEF Inv, TypeOK, RecoveryFails, Fault, Die
<1>2. LockInv'
  BY DEF RecoveryFails, Die, LockInv, HeldPaths
<1>3. ModeInv'
  BY DEF RecoveryFails, Die, ModeInv
<1>4. IntentInv'
  BY DEF Inv, TypeOK, RecoveryFails, Die, IntentInv, CanFinish, Payload, Changed
<1>5. RequestInv'
  BY DEF Inv, RecoveryFails, Die, RequestInv
<1>6. SeenIsCurrent'
  BY DEF RecoveryFails, Die, SeenIsCurrent
<1>7. RevisionInv'
  BY DEF Inv, RecoveryFails, Die, RevisionInv
<1>8. LedgerInv'
  BY DEF Inv, RecoveryFails, Die, LedgerInv, AttributedIsPublished,
     AcknowledgedIsDurable, Changed
<1>. QED
  BY <1>1, <1>2, <1>3, <1>4, <1>5, <1>6, <1>7, <1>8 DEF Inv

(* pending() removes the directories that have no intent.                  *)
LEMMA RecoverStep ==
  ASSUME Inv, Recover
  PROVE  Inv'
<1>. USE DEF durable, locks, args, counters, Locking, Locked, Finishing
<1>1. TypeOK'
  BY DEF Inv, Recover, DiscardUnrecorded, TypeOK
<1>2. LockInv'
  BY DEF Recover, LockInv, HeldPaths
<1>3. ModeInv'
  BY DEF Inv, Recover, ModeInv
<1>4. IntentInv'
  BY DEF Inv, TypeOK, Recover, DiscardUnrecorded, IntentInv, CanFinish, Payload, Changed
<1>5. RequestInv'
  BY DEF Inv, Recover, RequestInv, ModeInv
<1>6. SeenIsCurrent'
  BY DEF Recover, SeenIsCurrent
<1>7. RevisionInv'
  BY DEF Inv, Recover, RevisionInv
<1>8. LedgerInv'
  BY DEF Inv, Recover, LedgerInv, AttributedIsPublished, AcknowledgedIsDurable, Changed
<1>. QED
  BY <1>1, <1>2, <1>3, <1>4, <1>5, <1>6, <1>7, <1>8 DEF Inv

(* No intent is left: the service opens with free locks and a journal      *)
(* without intents.                                                        *)
LEMMA RecoveredStep ==
  ASSUME Inv, Recovered
  PROVE  Inv'
<1>. USE DEF durable, locks, args, counters, Locking, Locked, Finishing
<1>1. TypeOK'
  BY DEF Inv, Recovered, TypeOK
<1>2. LockInv'
  <2>1. \A r \in Request : pc[r] \in {"idle", "done"}
    BY DEF Inv, ModeInv, IntentInv, Recovered
  <2>. QED
    BY <2>1 DEF LockInv, HeldPaths, Recovered
<1>3. ModeInv'
  BY DEF Inv, Recovered, ModeInv
<1>4. IntentInv'
  BY DEF Inv, Recovered, IntentInv
<1>5. RequestInv'
  BY DEF Inv, Recovered, RequestInv, Payload, Changed
<1>6. SeenIsCurrent'
  BY DEF Inv, Recovered, ModeInv, SeenIsCurrent
<1>7. RevisionInv'
  BY DEF Inv, Recovered, RevisionInv
<1>8. LedgerInv'
  BY DEF Inv, Recovered, LedgerInv, AttributedIsPublished, AcknowledgedIsDurable, Changed
<1>. QED
  BY <1>1, <1>2, <1>3, <1>4, <1>5, <1>6, <1>7, <1>8 DEF Inv

-----------------------------------------------------------------------------
(* The invariant.                                                          *)

(* A fresh process on a journal without directories satisfies Inv.         *)
LEMMA InitInv == Init => Inv
<1>. SUFFICES ASSUME Init
              PROVE  Inv
  OBVIOUS
<1>. USE DEF Init, Locking, Locked, Finishing
<1>1. NoBatch \in BatchType /\ disk \in [Path -> Value]
  BY DocumentAssumption DEF NoBatch, BatchType, Value
<1>2. TypeOK
  BY <1>1 DEF TypeOK, Stages
<1>3. LockInv /\ ModeInv
  BY DEF LockInv, ModeInv, HeldPaths
<1>4. IntentInv /\ RequestInv /\ SeenIsCurrent /\ RevisionInv
  BY DEF IntentInv, RequestInv, SeenIsCurrent, RevisionInv, NoBatch
<1>5. LedgerInv
  BY DEF LedgerInv, AttributedIsPublished, AcknowledgedIsDurable
<1>. QED
  BY <1>2, <1>3, <1>4, <1>5 DEF Inv

(* Every step of the engine, of a crash and of recovery preserves Inv.     *)
LEMMA NextInv == Inv /\ [Next]_vars => Inv'
<1>. SUFFICES ASSUME Inv, [Next]_vars
              PROVE  Inv'
  OBVIOUS
<1>1. ASSUME NEW r \in Request, Begin(r) \/ Step(r) \/ Failure(r)
      PROVE  Inv'
  <2>1. CASE Begin(r) \/ Failure(r)
    BY <2>1, BeginStep, PrepareFailsStep, RefuseStaleFailsStep, RecordIntentFailsStep,
       FinishFailsStep DEF Failure
  <2>2. CASE Step(r)
    BY <2>2, SnapshotStep, SubmitStep, LockPathStep, ValidateStep, RejectInvalidStep,
       ReadEtagStep, ReplyConflictStep, PrepareStep, RefuseStaleStep, ReplyUnchangedStep,
       RecordIntentStep, UnhealthyStep, CheckIntentStep, ApplyStep, WriteRevisionStep,
       AttributeStep, CompleteStep DEF Step
  <2>. QED
    BY <1>1, <2>1, <2>2
<1>2. CASE Boot
  BY <1>2, RecoverStep, RecoverNextStep, RecoveredStep DEF Boot
<1>3. CASE Crash \/ RecoveryFails
  BY <1>3, CrashStep, RecoveryFailsStep
<1>4. CASE UNCHANGED vars
  <2>. USE DEF vars, durable, locks, args, counters
  <2>1. TypeOK'
    BY <1>4 DEF Inv, TypeOK
  <2>2. LockInv' /\ ModeInv'
    BY <1>4 DEF Inv, LockInv, ModeInv, HeldPaths, HoldsPath, HoldsPublication
  <2>3. IntentInv' /\ RequestInv' /\ SeenIsCurrent' /\ RevisionInv'
    BY <1>4 DEF Inv, IntentInv, RequestInv, SeenIsCurrent, RevisionInv, CanFinish,
       Payload, Changed
  <2>4. LedgerInv'
    BY <1>4 DEF Inv, LedgerInv, AttributedIsPublished, AcknowledgedIsDurable, Changed
  <2>. QED
    BY <2>1, <2>2, <2>3, <2>4 DEF Inv
<1>. QED
  BY <1>1, <1>2, <1>3, <1>4 DEF Next, Idle

(* Inv holds throughout every behaviour.                                   *)
THEOREM Invariance == Spec => []Inv
<1>. QED
  BY InitInv, NextInv, PTL DEF Spec

(* The state on disk and in the process always has the shape it should.    *)
THEOREM TypeCorrect == Spec => []TypeOK
<1>1. Inv => TypeOK
  BY DEF Inv
<1>. QED
  BY <1>1, Invariance, PTL

(* writeMany never leaves two transactions to be redone: recoveryRequired  *)
(* keeps the next intent out until a restart has finished the last one.    *)
THEOREM OneIntent == Spec => []AtMostOneIntent
<1>1. Inv => AtMostOneIntent
  BY DEF Inv, IntentInv, AtMostOneIntent
<1>. QED
  BY <1>1, Invariance, PTL

(* recover() is never refused what it finds in the journal, whatever the   *)
(* step at which the process died or a file operation failed.              *)
THEOREM AlwaysRecoverable == Spec => []Recoverable
<1>1. Inv => Recoverable
  BY DEF Inv, IntentInv, ModeInv, Recoverable
<1>. QED
  BY <1>1, Invariance, PTL

(* The ETags writeMany compared are those of the files it replaces,        *)
(* although it released the publication lock in between: no lost update.   *)
THEOREM NoLostUpdate == Spec => []SeenIsCurrent
<1>1. Inv => SeenIsCurrent
  BY DEF Inv
<1>. QED
  BY <1>1, Invariance, PTL

(* A write that was acknowledged is published, attributed and out of the   *)
(* journal, and no later crash or failure undoes that.                     *)
THEOREM Durability == Spec => []AcknowledgedIsDurable
<1>1. Inv => AcknowledgedIsDurable
  BY DEF Inv, LedgerInv
<1>. QED
  BY <1>1, Invariance, PTL

(* A call refused with a conflict or an invalid document, or answered      *)
(* "unchanged", left nothing a recovery could publish.                     *)
THEOREM RefusalsAreFinal == Spec => []RefusedLeavesNoTrace
<1>1. Inv => RefusedLeavesNoTrace
  BY DEF Inv, RequestInv, IntentInv, TypeOK, RefusedLeavesNoTrace
<1>. QED
  BY <1>1, Invariance, PTL

(* No two transactions carry one revision, also when one was redone.       *)
THEOREM UniqueRevisions == Spec => []RevisionsUnique
<1>1. Inv => RevisionsUnique
  BY DEF Inv, RevisionInv, RevisionsUnique
<1>. QED
  BY <1>1, Invariance, PTL

(* onWrite is told of a file only once it is visible under its revision.   *)
THEOREM AttributionFollows == Spec => []AttributedIsPublished
<1>1. Inv => AttributedIsPublished
  BY DEF Inv, LedgerInv
<1>. QED
  BY <1>1, Invariance, PTL

-----------------------------------------------------------------------------
(* DBEngine implements AtomicStore, under the mapping that DBEngine states.*)
(* For every kind of step there is a lemma that names the abstract step it *)
(* is, or says that it is none; the last theorem puts them together.       *)

(* What a caller's stage and answer mean to the atomic store.              *)
StatusOf(answer, stage) ==
  IF answer # "none"                   THEN answer
  ELSE IF stage \in {"idle", "snapshot"} THEN "idle"
  ELSE IF stage = "open"               THEN "open"
  ELSE IF stage = "conflicting"        THEN "refused"
  ELSE IF stage \in Finishing          THEN "committed"
  ELSE "pending"

(* A step of one request moves its status and no other's.                  *)
LEMMA StatusMoves ==
  ASSUME TypeOK, NEW r \in Request, NEW s, NEW a,
         pc' = [pc EXCEPT ![r] = s], reply' = [reply EXCEPT ![r] = a]
  PROVE  /\ Status' = [Status EXCEPT ![r] = StatusOf(a, s)]
         /\ Status[r] = StatusOf(reply[r], pc[r])
         /\ StatusOf(a, s) = Status[r] => Status' = Status
<1>1. Status = [q \in Request |-> StatusOf(reply[q], pc[q])]
  BY DEF Status, StatusOf
<1>2. Status' = [q \in Request |-> StatusOf(reply'[q], pc'[q])]
  BY DEF Status, StatusOf
<1>3. \A q \in Request : /\ pc'[q] = IF q = r THEN s ELSE pc[q]
                         /\ reply'[q] = IF q = r THEN a ELSE reply[q]
  BY DEF TypeOK
<1>. QED
  BY <1>1, <1>2, <1>3

(* With no intent the store is what is on disk.                            *)
LEMMA NothingPending ==
  /\ TypeOK /\ intents = {} => CommittedStore = disk /\ CommittedRevision = revision
  /\ (TypeOK /\ intents = {} => CommittedStore = disk /\ CommittedRevision = revision)'
  BY DEF TypeOK, CommittedStore, CommittedRevision

Installed(d, r) == [p \in Path |-> IF p \in Changed(r) THEN batch[r].content[p] ELSE d[p]]

(* With one intent it is the disk with the files of that intent installed. *)
LEMMA OnePending ==
  /\ \A r : intents = {r} => /\ CommittedStore = Installed(disk, r)
                             /\ CommittedRevision = commitRev[r]
  /\ \A r : (intents = {r} => /\ CommittedStore = Installed(disk, r)
                              /\ CommittedRevision = commitRev[r])'
<1>1. \A r : intents = {r} => CommittedRevision = commitRev[r]
  BY DEF CommittedRevision
<1>2. \A r : intents = {r} => CommittedStore = Installed(disk, r)
  BY DEF CommittedStore, Installed
<1>3. \A r : (intents = {r} => CommittedRevision = commitRev[r])'
  BY DEF CommittedRevision
<1>4. \A r : (intents = {r} => CommittedStore = Installed(disk, r))'
  BY DEF CommittedStore, Installed
<1>. QED
  BY <1>1, <1>2, <1>3, <1>4

(* A step that leaves the disk and the intents leaves the atomic store.    *)
LEMMA StoreKept ==
  ASSUME TypeOK, TypeOK', IntentInv, UNCHANGED <<disk, revision, intents>>,
         \A q \in intents : Changed(q)' = Changed(q) /\ batch'[q] = batch[q]
                            /\ commitRev'[q] = commitRev[q]
  PROVE  UNCHANGED <<CommittedStore, CommittedRevision>>
<1>1. CASE intents = {}
  BY <1>1, NothingPending
<1>2. ASSUME NEW q, intents = {q}
      PROVE  UNCHANGED <<CommittedStore, CommittedRevision>>
  <2>1. intents' = {q} /\ Changed(q)' = Changed(q) /\ batch'[q] = batch[q]
        /\ commitRev'[q] = commitRev[q]
    BY <1>2
  <2>2. CommittedStore = Installed(disk, q) /\ CommittedRevision = commitRev[q]
    BY <1>2, OnePending
  <2>3. CommittedStore' = Installed(disk, q)' /\ CommittedRevision' = commitRev'[q]
    BY <2>1, OnePending
  <2>4. Installed(disk, q)' = Installed(disk, q)
    BY <2>1 DEF Installed
  <2>. QED
    BY <2>1, <2>2, <2>3, <2>4
<1>3. intents = {} \/ \E q : intents = {q}
  <2>1. \A q, s \in intents : q = s
    BY DEF IntentInv
  <2>2. ASSUME NEW q \in intents
        PROVE  intents = {q}
    BY <2>1
  <2>. QED
    BY <2>2
<1>. QED
  BY <1>1, <1>2, <1>3

(* Whoever gets the publication lock of a healthy engine reads the whole   *)
(* committed state.                                                        *)
LEMMA ReaderAlone ==
  ASSUME Inv, NEW r \in Request, pc[r] \in {"snapshot", "etag", "publish"},
         HoldsPublication(r), healthy
  PROVE  intents = {} /\ mode = "up" /\ CommittedStore = disk /\ CommittedRevision = revision
<1>1. mode = "up"
  BY DEF Inv, ModeInv, TypeOK, Finishing
<1>2. ASSUME NEW q \in intents
      PROVE  FALSE
  <2>1. q \in Request /\ pc[q] \in Finishing
    BY <1>1, <1>2 DEF Inv, IntentInv, TypeOK
  <2>2. HoldsPublication(q)
    BY <1>1, <2>1 DEF Inv, LockInv
  <2>. QED
    BY <2>1, <2>2 DEF HoldsPublication, Holds, Finishing
<1>. QED
  BY <1>1, <1>2, NothingPending DEF Inv

-----------------------------------------------------------------------------
(* Steps of the atomic store.                                              *)

Mapped == [Abstract!Next]_(Abstract!avars)

(* A step that changes nothing the mapping shows.                        *)
LEMMA Stutters ==
  ASSUME UNCHANGED <<CommittedStore, CommittedRevision, view, batch, Status>>
  PROVE  Mapped
  BY DEF Mapped, Abstract!avars

(* A step in which a call throws and nothing takes effect.               *)
LEMMA Fails ==
  ASSUME NEW r \in Request, Status[r] \in {"idle", "pending", "committed", "refused"},
         Status' = [Status EXCEPT ![r] = "failed"],
         UNCHANGED <<CommittedStore, CommittedRevision, view, batch>>
  PROVE  Mapped
<1>1. Abstract!Fail(r)
  BY DEF Abstract!Fail, Abstract!Move, Abstract!Quiet
<1>. QED
  BY <1>1 DEF Mapped, Abstract!Next

-----------------------------------------------------------------------------
(* What the mapping rests on is invariant.                                 *)

(* A fresh process satisfies it: nobody has submitted a batch.           *)
LEMMA InitMapping == Init => MappingInv
<1>1. NoBatch.cas = {}
  BY DEF NoBatch
<1>2. Init => \A r \in Request : pc[r] = "idle" /\ batch[r] = NoBatch
  BY DEF Init
<1>. QED
  BY <1>1, <1>2 DEF MappingInv, Finishing

(* What the mapping knows of a request depends on its own state and the    *)
(* disk.                                                                   *)
MappingOf(r) ==
  /\ batch[r].cas \subseteq batch[r].paths
  /\ pc[r] \in {"etag", "conflicting", "prepare", "publish"} => Accepted(batch[r])
  /\ pc[r] \in {"prepare", "publish"} => ~ StaleEtag(r)
  /\ pc[r] = "done" => reply[r] # "none"
  /\ pc[r] \in Finishing => (reply[r] = "none" <=> mode = "up")
  /\ pc[r] \in {"apply", "revision", "attribute", "complete"} =>
       \A p \in Changed(r) :
         disk[p] = batch[r].content[p] \/ (pc[r] = "apply" /\ p \in todo[r])

(* A step of one request keeps it if it keeps it for that request.       *)
LEMMA OthersMapping ==
  ASSUME TypeOK, MappingInv, NEW r \in Request, UNCHANGED <<disk, mode>>, MappingOf(r)',
         \A q \in Request \ {r} :
           pc'[q] = pc[q] /\ reply'[q] = reply[q] /\ todo'[q] = todo[q] /\ view'[q] = view[q]
           /\ seen'[q] = seen[q] /\ batch'[q] = batch[q]
  PROVE  MappingInv'
<1>1. ASSUME NEW q \in Request \ {r}
      PROVE  MappingOf(q)'
  <2>1. MappingOf(q)
    BY DEF MappingInv, MappingOf
  <2>2. Changed(q)' = Changed(q) /\ StaleEtag(q)' = StaleEtag(q)
    BY <1>1 DEF Changed, StaleEtag
  <2>. QED
    BY <1>1, <2>1, <2>2 DEF MappingOf
<1>. QED
  BY <1>1 DEF MappingInv, MappingOf

(* A call that returns or throws leaves it: its caller has an answer.    *)
LEMMA AnswerMapping ==
  ASSUME Inv, MappingInv, NEW r \in Request, NEW w, w # "none", Answer(r, w),
         UNCHANGED <<disk, mode, todo, view, seen, batch>>
  PROVE  MappingInv'
<1>1. pc' = [pc EXCEPT ![r] = "done"] /\ reply' = [reply EXCEPT ![r] = w]
  BY DEF Answer
<1>2. MappingOf(r)'
  BY <1>1 DEF Inv, TypeOK, MappingInv, MappingOf, Finishing
<1>. QED
  BY <1>1, <1>2, OthersMapping DEF Inv, TypeOK

(* So do locking, validating and staging: what was compared stays so.    *)
LEMMA BeforeWriteMapping ==
  ASSUME Inv, MappingInv, NEW r \in Request,
         \/ Begin(r) \/ Snapshot(r) \/ LockPath(r) \/ Validate(r) \/ Prepare(r)
  PROVE  MappingInv'
<1>. USE DEF args, Finishing
<1>1. /\ UNCHANGED <<disk, mode, seen, batch, reply>>
      /\ pc'[r] \in {"snapshot", "open", "lock", "validate", "etag", "publish"}
      /\ pc'[r] = "etag" => Accepted(batch[r])
      /\ pc'[r] = "publish" => pc[r] = "prepare" /\ view' = view
      /\ \A q \in Request \ {r} : pc'[q] = pc[q] /\ todo'[q] = todo[q] /\ view'[q] = view[q]
  BY DEF Inv, TypeOK, Begin, Snapshot, LockPath, Validate, Prepare, Goto, durable
<1>2. MappingOf(r)'
  BY <1>1 DEF MappingInv, MappingOf, Accepted, StaleEtag
<1>. QED
  BY <1>1, <1>2, OthersMapping DEF Inv

(* A batch states expected ETags only of files that it writes.           *)
LEMMA SubmitMapping ==
  ASSUME Inv, MappingInv, NEW r \in Request, Submit(r)
  PROVE  MappingInv'
<1>. USE DEF args, durable, Finishing
<1>1. PICK b \in Batches : batch' = [batch EXCEPT ![r] = b] /\ todo' = [todo EXCEPT ![r] = b.paths]
  BY DEF Submit
<1>2. pc' = [pc EXCEPT ![r] = "lock"] /\ UNCHANGED <<disk, mode, view, seen, reply>>
  BY DEF Submit, Goto
<1>3. MappingOf(r)'
  BY <1>1, <1>2, DocumentAssumption DEF Inv, TypeOK, MappingOf
<1>. QED
  BY <1>1, <1>2, <1>3, OthersMapping DEF Inv, TypeOK

(* writeMany goes on to prepare and publish only without a stale ETag.   *)
LEMMA ReadEtagMapping ==
  ASSUME Inv, MappingInv, NEW r \in Request, ReadEtag(r)
  PROVE  MappingInv'
<1>. USE DEF Finishing
<1>1. /\ UNCHANGED <<disk, mode, view, batch, reply>>
      /\ pc[r] = "etag" /\ pc'[r] \in {"etag", "conflicting", "publish", "prepare"}
      /\ pc'[r] \in {"publish", "prepare"} => ~ StaleEtag(r)'
      /\ \A q \in Request \ {r} : pc'[q] = pc[q] /\ todo'[q] = todo[q] /\ seen'[q] = seen[q]
  BY DEF Inv, TypeOK, ReadEtag, durable
<1>2. MappingOf(r)'
  BY <1>1 DEF MappingInv, MappingOf
<1>. QED
  BY <1>1, <1>2, OthersMapping DEF Inv

(* Whoever starts to finish in service has not been answered yet.        *)
LEMMA RecordIntentMapping ==
  ASSUME Inv, MappingInv, NEW r \in Request, RecordIntent(r)
  PROVE  MappingInv'
<1>. USE DEF args, Finishing
<1>1. /\ UNCHANGED <<disk, mode, view, seen, batch, reply, todo>>
      /\ pc[r] = "publish" /\ pc' = [pc EXCEPT ![r] = "finish"]
  BY DEF RecordIntent, MayPublish
<1>2. mode = "up" /\ reply[r] = "none"
  BY <1>1, ReaderAlone DEF Inv, RequestInv, RecordIntent, MayPublish
<1>3. MappingOf(r)'
  BY <1>1, <1>2 DEF Inv, TypeOK, MappingInv, MappingOf
<1>. QED
  BY <1>1, <1>3, OthersMapping DEF Inv, TypeOK

(* The first pass over the intent has all its files left to install.     *)
LEMMA CheckIntentMapping ==
  ASSUME Inv, MappingInv, NEW r \in Request, CheckIntent(r)
  PROVE  MappingInv'
<1>. USE DEF args, durable, Finishing
<1>1. /\ UNCHANGED <<disk, mode, view, seen, batch, reply>> /\ pc[r] = "finish"
      /\ pc'[r] \in {"apply", "refused"} /\ todo'[r] = Changed(r)'
      /\ \A q \in Request \ {r} : pc'[q] = pc[q] /\ todo'[q] = todo[q]
  BY DEF Inv, TypeOK, CheckIntent, Goto, Changed
<1>2. MappingOf(r)'
  BY <1>1 DEF MappingInv, MappingOf
<1>. QED
  BY <1>1, <1>2, OthersMapping DEF Inv

(* One file more is installed, and no other intent is under way.           *)
LEMMA ApplyMapping ==
  ASSUME Inv, MappingInv, NEW r \in Request, Apply(r)
  PROVE  MappingInv'
<1>. USE DEF args, Finishing
<1>1. PICK p \in todo[r] :
        /\ disk' = [disk EXCEPT ![p] = batch[r].content[p]]
        /\ IF todo[r] = {p}
             THEN pc' = [pc EXCEPT ![r] = "revision"]
             ELSE pc' = [pc EXCEPT ![r] = "apply"] /\ todo' = [todo EXCEPT ![r] = todo[r] \ {p}]
  BY DEF Apply, Goto, After
<1>2. UNCHANGED <<mode, view, seen, batch, reply>> /\ pc[r] = "apply"
  BY DEF Apply, Goto
<1>3. \A q \in Request \ {r} : pc[q] \notin Finishing
  BY <1>2 DEF Inv, IntentInv, TypeOK
<1>4. /\ \A q \in Request \ {r} : pc'[q] = pc[q]
      /\ pc'[r] \in {"apply", "revision"}
  BY <1>1 DEF Inv, TypeOK
<1>5. ASSUME NEW q \in Request \ {r}
      PROVE  MappingOf(q)'
  BY <1>2, <1>3, <1>4 DEF MappingInv, MappingOf, StaleEtag
<1>6. Changed(r) \subseteq Path /\ Changed(r)' = Changed(r)
  BY <1>2, BatchFacts DEF Inv, Changed
<1>7. ASSUME NEW x \in Changed(r)
      PROVE  disk'[x] = batch[r].content[x] \/ (pc'[r] = "apply" /\ x \in todo'[r])
  <2>1. disk[x] = batch[r].content[x] \/ x \in todo[r]
    BY <1>2 DEF MappingInv
  <2>2. CASE x = p
    BY <1>1, <1>6, <2>2 DEF Inv, TypeOK
  <2>3. CASE x # p
    BY <1>1, <1>4, <1>6, <2>1, <2>3 DEF Inv, TypeOK
  <2>. QED
    BY <2>2, <2>3
<1>8. MappingOf(r)'
  BY <1>2, <1>4, <1>6, <1>7 DEF MappingInv, MappingOf
<1>. QED
  BY <1>5, <1>8 DEF MappingInv, MappingOf

(* Writing the revision and the attribution leaves the files installed.  *)
LEMMA FinishingMapping ==
  ASSUME Inv, MappingInv, NEW r \in Request, WriteRevision(r) \/ Attribute(r)
  PROVE  MappingInv'
<1>. USE DEF args, Finishing
<1>1. /\ UNCHANGED <<disk, mode, view, seen, batch, reply>>
      /\ pc[r] \in {"revision", "attribute"} /\ pc'[r] \in {"attribute", "complete"}
      /\ \A q \in Request \ {r} : pc'[q] = pc[q] /\ todo'[q] = todo[q]
  BY DEF Inv, TypeOK, WriteRevision, Attribute, Goto, After
<1>2. Changed(r)' = Changed(r)
  BY <1>1 DEF Changed
<1>3. MappingOf(r)'
  BY <1>1, <1>2 DEF MappingInv, MappingOf
<1>. QED
  BY <1>1, <1>3, OthersMapping DEF Inv

(* After a death everybody who had called has an answer, or lost it.     *)
LEMMA DieMapping ==
  ASSUME Inv, MappingInv, Die
  PROVE  MappingInv'
<1>1. /\ UNCHANGED <<disk, view, seen, batch, todo>>
      /\ \A r \in Request : pc'[r] \in {"idle", "done"}
      /\ \A r \in Request : pc'[r] = "done" => reply'[r] # "none"
  BY DEF Inv, TypeOK, MappingInv, Die, durable, args
<1>. QED
  BY <1>1 DEF MappingInv, Finishing

(* The service comes back only when nothing is left to be finished.        *)
LEMMA BootMapping ==
  ASSUME Inv, MappingInv, Boot
  PROVE  MappingInv'
<1>. USE DEF args, durable, Finishing
<1>1. CASE Recover
  <2>1. UNCHANGED <<disk, view, seen, batch, todo, pc, reply>> /\ mode # "up" /\ mode' # "up"
    BY <1>1 DEF Recover
  <2>. QED
    BY <2>1 DEF MappingInv, StaleEtag, Changed
<1>2. ASSUME NEW r \in Request, RecoverNext(r)
      PROVE  MappingInv'
  <2>1. /\ UNCHANGED <<disk, view, seen, batch, todo, mode, reply>> /\ mode = "recovering"
        /\ pc' = [pc EXCEPT ![r] = "finish"] /\ r \in intents
    BY <1>2 DEF RecoverNext
  <2>2. pc[r] \in Finishing \cup {"done"}
    BY <2>1 DEF Inv, IntentInv
  <2>3. MappingOf(r)'
    BY <2>1, <2>2 DEF Inv, TypeOK, MappingInv, MappingOf
  <2>. QED
    BY <2>1, <2>3, OthersMapping DEF Inv, TypeOK
<1>3. CASE Recovered
  <2>1. UNCHANGED <<disk, view, seen, batch, todo, pc, reply>> /\ intents = {}
    BY <1>3 DEF Recovered
  <2>2. \A r \in Request : pc[r] \notin Finishing
    BY <2>1 DEF Inv, IntentInv
  <2>. QED
    BY <2>1, <2>2 DEF MappingInv, StaleEtag
<1>. QED
  BY <1>1, <1>2, <1>3 DEF Boot

(* Every action that ends in an answer keeps it.                         *)
LEMMA AnsweringMapping ==
  ASSUME Inv, MappingInv, NEW r \in Request,
         \/ RejectInvalid(r) \/ ReplyConflict(r) \/ RefuseStale(r) \/ ReplyUnchanged(r)
         \/ Unhealthy(r) \/ Complete(r) \/ Failure(r)
  PROVE  MappingInv'
<1>1. UNCHANGED <<disk, mode, todo, view, seen, batch>>
  BY DEF RejectInvalid, ReplyConflict, RefuseStale, ReplyUnchanged, Unhealthy, Complete,
     Failure, PrepareFails, RefuseStaleFails, RecordIntentFails, FinishFails, durable, args
<1>2. \E w : w # "none" /\ Answer(r, w)
  BY DEF RejectInvalid, ReplyConflict, RefuseStale, ReplyUnchanged, Unhealthy, Complete,
     Failure, PrepareFails, RefuseStaleFails, RecordIntentFails, FinishFails
<1>. QED
  BY <1>1, <1>2, AnswerMapping

(* Every step of the engine, of a crash and of recovery keeps it.        *)
LEMMA NextMapping == Inv /\ MappingInv /\ [Next]_vars => MappingInv'
<1>. SUFFICES ASSUME Inv, MappingInv, [Next]_vars
              PROVE  MappingInv'
  OBVIOUS
<1>1. ASSUME NEW r \in Request, Begin(r) \/ Step(r) \/ Failure(r)
      PROVE  MappingInv'
  BY <1>1, BeforeWriteMapping, SubmitMapping, ReadEtagMapping, RecordIntentMapping,
     CheckIntentMapping, ApplyMapping, FinishingMapping, AnsweringMapping DEF Step
<1>2. CASE Boot
  BY <1>2, BootMapping
<1>3. CASE Crash \/ RecoveryFails
  BY <1>3, DieMapping DEF Crash, RecoveryFails
<1>4. CASE UNCHANGED vars
  BY <1>4 DEF vars, durable, args, MappingInv, StaleEtag, Changed
<1>. QED
  BY <1>1, <1>2, <1>3, <1>4 DEF Next, Idle

-----------------------------------------------------------------------------
(* Every step of the engine is one of the atomic store, or none.           *)

(* db.snapshot() reads the committed state.                                *)
LEMMA SnapshotIsRead ==
  ASSUME Inv, Inv', MappingInv, NEW r \in Request, Snapshot(r)
  PROVE  Mapped
<1>. USE DEF args, durable
<1>1. /\ pc[r] = "snapshot" /\ pc' = [pc EXCEPT ![r] = "open"] /\ reply[r] = "none"
      /\ UNCHANGED <<disk, revision, intents, commitRev, seen, batch, reply>>
      /\ view' = [view EXCEPT ![r] = disk]
  BY DEF Snapshot, Goto, Inv, RequestInv, Finishing
<1>2. intents = {} /\ CommittedStore = disk
  BY <1>1, ReaderAlone DEF Snapshot
<1>3. UNCHANGED <<CommittedStore, CommittedRevision>>
  BY <1>1, <1>2, NothingPending DEF Inv
<1>4. Status[r] = "idle" /\ Status' = [Status EXCEPT ![r] = "open"]
  <2>1. reply' = [reply EXCEPT ![r] = "none"]
    BY <1>1 DEF Inv, TypeOK
  <2>. QED
    BY <1>1, <2>1, StatusMoves DEF Inv, StatusOf
<1>5. Abstract!Read(r)
  BY <1>1, <1>2, <1>3, <1>4 DEF Abstract!Read, Abstract!Move
<1>. QED
  BY <1>5 DEF Mapped, Abstract!Next

(* writeMany is called with a batch.                                     *)
LEMMA SubmitIsSubmit ==
  ASSUME Inv, Inv', MappingInv, NEW r \in Request, Submit(r)
  PROVE  Mapped
<1>. USE DEF args, durable, Finishing
<1>1. PICK b \in Batches : batch' = [batch EXCEPT ![r] = b]
  BY DEF Submit
<1>2. /\ pc[r] = "open" /\ pc' = [pc EXCEPT ![r] = "lock"] /\ reply[r] = "none"
      /\ UNCHANGED <<disk, revision, intents, commitRev, seen, view, reply>>
  BY DEF Submit, Goto, Inv, RequestInv
<1>3. r \notin intents
  BY <1>2 DEF Inv, IntentInv
<1>4. UNCHANGED <<CommittedStore, CommittedRevision>>
  <2>1. \A q \in intents : q \in Request /\ q # r /\ batch'[q] = batch[q]
    BY <1>1, <1>3 DEF Inv, TypeOK
  <2>2. \A q \in intents : Changed(q)' = Changed(q)
    BY <1>2, <2>1 DEF Changed
  <2>. QED
    BY <1>2, <2>1, <2>2, StoreKept DEF Inv
<1>5. Status[r] = "open" /\ Status' = [Status EXCEPT ![r] = "pending"]
  <2>1. reply' = [reply EXCEPT ![r] = "none"]
    BY <1>2 DEF Inv, TypeOK
  <2>. QED
    BY <1>2, <2>1, StatusMoves DEF Inv, StatusOf
<1>6. Abstract!Submit(r)
  BY <1>1, <1>2, <1>4, <1>5 DEF Abstract!Submit, Abstract!Move
<1>. QED
  BY <1>6 DEF Mapped, Abstract!Next

(* Locking, validating, staging, and reading an ETag that is expected,     *)
(* are no steps of the atomic store.                                       *)
LEMMA PreparingStutters ==
  ASSUME Inv, Inv', MappingInv, NEW r \in Request,
         Begin(r) \/ LockPath(r) \/ Validate(r) \/ Prepare(r)
  PROVE  Mapped
<1>. USE DEF args, durable, Finishing
<1>1. /\ UNCHANGED <<disk, revision, intents, commitRev, seen, view, batch, reply>>
      /\ reply[r] = "none"
      /\ \/ pc[r] = "idle" /\ pc' = [pc EXCEPT ![r] = "snapshot"]
         \/ pc[r] = "lock" /\ pc' = [pc EXCEPT ![r] = "validate"]
         \/ pc[r] = "lock" /\ pc' = [pc EXCEPT ![r] = "lock"]
         \/ pc[r] = "validate" /\ pc' = [pc EXCEPT ![r] = "etag"]
         \/ pc[r] = "prepare" /\ pc' = [pc EXCEPT ![r] = "publish"]
  <2>1. reply[r] = "none" /\ DOMAIN pc = Request /\ pc = [q \in Request |-> pc[q]]
    BY DEF Begin, LockPath, Validate, Prepare, Stage, Goto, Inv, RequestInv, TypeOK
  <2>2. CASE Begin(r)
    BY <2>1, <2>2 DEF Begin, Goto
  <2>3. CASE LockPath(r)
    <3>1. pc[r] = "lock" /\ (UNCHANGED pc \/ pc' = [pc EXCEPT ![r] = "validate"])
      BY <2>3 DEF LockPath
    <3>2. UNCHANGED <<disk, revision, intents, commitRev, seen, view, batch, reply>>
      BY <2>3 DEF LockPath
    <3>3. pc = [pc EXCEPT ![r] = pc[r]]
      BY <2>1
    <3>. QED
      BY <2>1, <3>1, <3>2, <3>3
  <2>4. CASE Validate(r)
    BY <2>1, <2>4 DEF Validate, Goto
  <2>5. CASE Prepare(r)
    BY <2>1, <2>5 DEF Prepare, Stage, Goto
  <2>. QED
    BY <2>2, <2>3, <2>4, <2>5
<1>2. UNCHANGED <<CommittedStore, CommittedRevision>>
  BY <1>1, StoreKept DEF Inv, Changed
<1>3. Status' = Status
  <2>1. TypeOK /\ reply' = [reply EXCEPT ![r] = "none"]
    BY <1>1 DEF Inv, TypeOK
  <2>2. PICK s : pc' = [pc EXCEPT ![r] = s] /\ StatusOf("none", s) = StatusOf("none", pc[r])
    BY <1>1 DEF StatusOf
  <2>3. reply[r] = "none"
    BY <1>1
  <2>. QED
    BY <2>1, <2>2, <2>3, StatusMoves, ZenonT(60)
<1>. QED
  BY <1>1, <1>2, <1>3, Stutters

(* A stale ETag refuses the batch at the moment it is read.                *)
LEMMA ReadEtagRefuses ==
  ASSUME Inv, Inv', MappingInv, NEW r \in Request, ReadEtag(r)
  PROVE  Mapped
<1>. USE DEF durable, Finishing
<1>1. /\ UNCHANGED <<disk, revision, intents, commitRev, view, batch, reply, mode>>
      /\ reply[r] = "none" /\ pc[r] = "etag"
      /\ pc' = [pc EXCEPT ![r] = pc'[r]]
      /\ pc'[r] \in {"etag", "conflicting", "publish", "prepare"}
      /\ pc'[r] = "conflicting" => StaleEtag(r)'
      /\ \A q \in Request \ {r} : seen'[q] = seen[q]
  BY DEF ReadEtag, Inv, TypeOK, RequestInv
<1>2. intents = {} /\ mode = "up" /\ CommittedStore = disk
  BY <1>1, ReaderAlone DEF ReadEtag
<1>3. UNCHANGED <<CommittedStore, CommittedRevision>>
  BY <1>1, <1>2, NothingPending DEF Inv
<1>4. TypeOK /\ reply' = [reply EXCEPT ![r] = "none"]
  BY <1>1 DEF Inv, TypeOK
<1>5. CASE pc'[r] = "conflicting"
  <2>1. Status[r] = "pending" /\ Status' = [Status EXCEPT ![r] = "refused"]
    <3>1. pc' = [pc EXCEPT ![r] = "conflicting"] /\ reply[r] = "none" /\ pc[r] = "etag"
      BY <1>1, <1>5
    <3>2. /\ Status[r] = StatusOf("none", "etag")
          /\ Status' = [Status EXCEPT ![r] = StatusOf("none", "conflicting")]
      BY <1>4, <3>1, StatusMoves
    <3>. QED
      BY <3>2 DEF StatusOf
  <2>2. PICK p \in batch[r].cas : seen'[r][p] # view[r][p]
    BY <1>1, <1>5 DEF StaleEtag
  <2>3. seen'[r][p] = disk[p]
    BY <1>1, <1>2, <1>5, <2>2 DEF Inv, SeenIsCurrent, MappingInv
  <2>4. ~ Abstract!Current(CommittedStore, view[r], batch[r])
    BY <1>2, <2>2, <2>3 DEF Abstract!Current
  <2>5. Abstract!Refuse(r)
    BY <1>1, <1>3, <2>1, <2>4 DEF Abstract!Refuse, Abstract!Move, Abstract!Quiet
  <2>. QED
    BY <2>5 DEF Mapped, Abstract!Next
<1>6. CASE pc'[r] # "conflicting"
  <2>1. PICK s \in {"etag", "publish", "prepare"} : pc' = [pc EXCEPT ![r] = s]
    BY <1>1, <1>6
  <2>2. Status' = Status
    <3>1. StatusOf("none", s) = StatusOf("none", "etag")
      BY DEF StatusOf
    <3>2. reply[r] = "none" /\ pc[r] = "etag"
      BY <1>1
    <3>. QED
      BY <1>4, <2>1, <3>1, <3>2, StatusMoves, ZenonT(60)
  <2>. QED
    BY <1>1, <1>3, <2>2, Stutters
<1>. QED
  BY <1>5, <1>6

(* What a publisher compares and installs is what the atomic store does.   *)
LEMMA PublishesCurrent ==
  ASSUME Inv, MappingInv, NEW r \in Request, pc[r] = "publish", HoldsPublication(r), healthy
  PROVE  /\ Abstract!Current(CommittedStore, view[r], batch[r]) <=> PreconditionsHold(r)
         /\ Abstract!Overlay(CommittedStore, batch[r]) = Installed(disk, r)
         /\ Installed(disk, r) = CommittedStore <=> Changed(r) = {}
         /\ Abstract!Accepted(batch[r])
<1>1. intents = {} /\ mode = "up" /\ CommittedStore = disk
  BY ReaderAlone
<1>2. batch[r].paths \subseteq Path /\ Changed(r) \subseteq batch[r].paths
  BY BatchFacts DEF Inv
<1>3. \A p \in batch[r].paths : seen[r][p] = disk[p]
  BY <1>1 DEF Inv, SeenIsCurrent
<1>4. \A p \in batch[r].cas : disk[p] = view[r][p]
  BY <1>3 DEF MappingInv, StaleEtag
<1>5. Abstract!Current(CommittedStore, view[r], batch[r]) <=> PreconditionsHold(r)
  BY <1>1, <1>4 DEF Abstract!Current, PreconditionsHold, Existing, Abstract!Existing
<1>6. Abstract!Overlay(CommittedStore, batch[r]) = Installed(disk, r)
  BY <1>1, <1>2, <1>3 DEF Abstract!Overlay, Installed, Changed
<1>7. Installed(disk, r) = CommittedStore <=> Changed(r) = {}
  <2>1. disk = [p \in Path |-> disk[p]]
    BY DEF Inv, TypeOK
  <2>2. \A p \in Changed(r) : p \in Path /\ disk[p] # batch[r].content[p]
    BY <1>2, <1>3 DEF Changed
  <2>. QED
    BY <1>1, <2>1, <2>2 DEF Installed
<1>8. Abstract!Accepted(batch[r])
  BY DEF MappingInv, Accepted, Abstract!Accepted
<1>. QED
  BY <1>5, <1>6, <1>7, <1>8

(* An answer moves the status of its caller to that answer.                *)
LEMMA AnswerMoves ==
  ASSUME Inv, MappingInv, NEW r \in Request, NEW w, w # "none", Answer(r, w)
  PROVE  Status[r] = StatusOf(reply[r], pc[r]) /\ Status' = [Status EXCEPT ![r] = w]
<1>1. pc' = [pc EXCEPT ![r] = "done"] /\ reply' = [reply EXCEPT ![r] = w]
  BY DEF Answer
<1>2. TypeOK
  BY DEF Inv
<1>3. /\ Status' = [Status EXCEPT ![r] = StatusOf(w, "done")]
      /\ Status[r] = StatusOf(reply[r], pc[r])
  BY <1>1, <1>2, StatusMoves
<1>4. StatusOf(w, "done") = w
  BY DEF StatusOf
<1>. QED
  BY <1>3, <1>4

(* recordIntent() is the instant at which the batch takes effect.          *)
LEMMA IntentCommits ==
  ASSUME Inv, Inv', MappingInv, NEW r \in Request, MayPublish(r), WriteIntent(r),
         UNCHANGED <<disk, revision, batch, seen>>
  PROVE  /\ Abstract!Accepted(batch[r])
         /\ Abstract!Current(CommittedStore, view[r], batch[r])
         /\ Abstract!Overlay(CommittedStore, batch[r]) # CommittedStore
         /\ CommittedStore' = Abstract!Overlay(CommittedStore, batch[r])
         /\ CommittedRevision' = CommittedRevision + 1
<1>1. pc[r] = "publish" /\ HoldsPublication(r) /\ healthy /\ PreconditionsHold(r) /\ Changed(r) # {}
  BY DEF MayPublish
<1>2. intents = {} /\ CommittedRevision = revision
  BY <1>1, ReaderAlone
<1>3. intents' = {r} /\ commitRev'[r] = revision + 1
  BY <1>2 DEF WriteIntent, Inv, TypeOK
<1>4. CommittedStore' = Installed(disk, r)' /\ CommittedRevision' = commitRev'[r]
  BY <1>3, OnePending
<1>5. Installed(disk, r)' = Installed(disk, r)
  BY DEF Installed, Changed
<1>. QED
  BY <1>1, <1>2, <1>3, <1>4, <1>5, PublishesCurrent

(* A batch whose intent is recorded is committed in that step.           *)
LEMMA RecordIntentIsCommit ==
  ASSUME Inv, Inv', MappingInv, NEW r \in Request, RecordIntent(r)
  PROVE  Mapped
<1>. USE DEF args, Finishing
<1>1. /\ MayPublish(r) /\ WriteIntent(r)
      /\ UNCHANGED <<disk, revision, batch, seen, view, reply>>
      /\ pc[r] = "publish" /\ pc' = [pc EXCEPT ![r] = "finish"]
  BY DEF RecordIntent, MayPublish
<1>2. reply[r] = "none" /\ reply' = [reply EXCEPT ![r] = "none"]
  BY <1>1, ZenonT(60) DEF Inv, TypeOK, RequestInv
<1>3. Status[r] = "pending" /\ Status' = [Status EXCEPT ![r] = "committed"]
  BY <1>1, <1>2, StatusMoves DEF Inv, StatusOf
<1>4. Abstract!Commit(r)
  BY <1>1, <1>3, IntentCommits DEF Abstract!Commit, Abstract!Move
<1>. QED
  BY <1>4 DEF Mapped, Abstract!Next

(* A write of the intent that throws may have taken effect.                *)
LEMMA RecordIntentFailsMaps ==
  ASSUME Inv, Inv', MappingInv, NEW r \in Request, RecordIntentFails(r)
  PROVE  Mapped
<1>. USE DEF args, Finishing
<1>1. /\ MayPublish(r) /\ pc[r] = "publish"
      /\ UNCHANGED <<disk, revision, batch, seen, view>>
  BY DEF RecordIntentFails, MayPublish
<1>2. reply[r] = "none"
  BY <1>1 DEF Inv, RequestInv
<1>3. Status[r] = "pending" /\ Status' = [Status EXCEPT ![r] = "failed"]
  BY <1>1, <1>2, AnswerMoves DEF RecordIntentFails, StatusOf
<1>4. CASE WriteIntent(r)
  <2>1. Abstract!CommitUnacknowledged(r)
    BY <1>1, <1>3, <1>4, IntentCommits DEF Abstract!CommitUnacknowledged, Abstract!Move
  <2>. QED
    BY <2>1 DEF Mapped, Abstract!Next
<1>5. CASE UNCHANGED <<intents, commitRev>>
  <2>1. UNCHANGED <<CommittedStore, CommittedRevision>>
    BY <1>1, <1>5, StoreKept DEF Inv, Changed
  <2>. QED
    BY <1>1, <1>3, <2>1, Fails
<1>. QED
  BY <1>4, <1>5 DEF RecordIntentFails

(* Refusals, and the answer that nothing changed.                          *)
LEMMA RefusalsMap ==
  ASSUME Inv, Inv', MappingInv, NEW r \in Request,
         RejectInvalid(r) \/ ReplyConflict(r) \/ RefuseStale(r) \/ ReplyUnchanged(r)
  PROVE  Mapped
<1>. USE DEF args, durable, Finishing
<1>1. /\ UNCHANGED <<disk, revision, commitRev, batch, seen, view>>
      /\ pc[r] \in {"validate", "conflicting", "publish"} /\ reply[r] = "none"
  BY DEF RejectInvalid, ReplyConflict, RefuseStale, ReplyUnchanged, Inv, RequestInv
<1>2. r \notin intents
  BY <1>1 DEF Inv, IntentInv
<1>3. intents' = intents
  BY <1>2 DEF RejectInvalid, ReplyConflict, RefuseStale, ReplyUnchanged, RemoveDirectory
<1>4. UNCHANGED <<CommittedStore, CommittedRevision>>
  BY <1>1, <1>3, StoreKept DEF Inv, Changed
<1>5. CASE RejectInvalid(r)
  <2>1. Status[r] = "pending" /\ Status' = [Status EXCEPT ![r] = "invalid"]
    BY <1>1, <1>5, AnswerMoves DEF RejectInvalid, StatusOf
  <2>2. Abstract!RejectInvalid(r)
    BY <1>1, <1>4, <1>5, <2>1
    DEF RejectInvalid, Accepted, Abstract!RejectInvalid, Abstract!Accepted, Abstract!Move,
        Abstract!Quiet
  <2>. QED
    BY <2>2 DEF Mapped, Abstract!Next
<1>6. CASE ReplyConflict(r)
  <2>1. Status[r] = "refused" /\ Status' = [Status EXCEPT ![r] = "conflict"]
    BY <1>1, <1>6, AnswerMoves DEF ReplyConflict, StatusOf
  <2>2. Abstract!ReplyConflict(r)
    BY <1>1, <1>4, <2>1 DEF Abstract!ReplyConflict, Abstract!Move, Abstract!Quiet
  <2>. QED
    BY <2>2 DEF Mapped, Abstract!Next
<1>7. CASE RefuseStale(r)
  <2>1. Status[r] = "pending" /\ Status' = [Status EXCEPT ![r] = "conflict"]
    BY <1>1, <1>7, AnswerMoves DEF RefuseStale, StatusOf
  <2>2. ~ Abstract!Current(CommittedStore, view[r], batch[r])
    BY <1>7, PublishesCurrent DEF RefuseStale
  <2>3. Abstract!Refuse(r)
    BY <1>1, <1>4, <2>1, <2>2 DEF Abstract!Refuse, Abstract!Move, Abstract!Quiet
  <2>. QED
    BY <2>3 DEF Mapped, Abstract!Next
<1>8. CASE ReplyUnchanged(r)
  <2>1. Status[r] = "pending" /\ Status' = [Status EXCEPT ![r] = "unchanged"]
    BY <1>1, <1>8, AnswerMoves DEF ReplyUnchanged, StatusOf
  <2>2. /\ Abstract!Current(CommittedStore, view[r], batch[r])
        /\ Abstract!Overlay(CommittedStore, batch[r]) = CommittedStore
    BY <1>8, PublishesCurrent DEF ReplyUnchanged
  <2>3. Abstract!Unchanged(r)
    BY <1>1, <1>4, <2>1, <2>2 DEF Abstract!Unchanged, Abstract!Move, Abstract!Quiet
  <2>. QED
    BY <2>3 DEF Mapped, Abstract!Next
<1>. QED
  BY <1>5, <1>6, <1>7, <1>8

(* A call that throws before its intent is written has changed nothing.    *)
LEMMA FailuresMap ==
  ASSUME Inv, Inv', MappingInv, NEW r \in Request,
         PrepareFails(r) \/ RefuseStaleFails(r) \/ Unhealthy(r)
  PROVE  Mapped
<1>. USE DEF args, durable, Finishing
<1>1. /\ UNCHANGED <<disk, revision, commitRev, batch, seen, view>>
      /\ pc[r] \in {"prepare", "snapshot", "etag", "conflicting", "publish"} /\ reply[r] = "none"
      /\ Answer(r, "failed")
  BY DEF PrepareFails, RefuseStaleFails, Unhealthy, Inv, RequestInv
<1>2. r \notin intents
  BY <1>1 DEF Inv, IntentInv
<1>3. intents' = intents
  BY <1>2 DEF PrepareFails, RefuseStaleFails, Unhealthy, RemoveDirectory
<1>4. UNCHANGED <<CommittedStore, CommittedRevision>>
  BY <1>1, <1>3, StoreKept DEF Inv, Changed
<1>5. /\ Status[r] \in {"idle", "pending", "refused"}
      /\ Status' = [Status EXCEPT ![r] = "failed"]
  BY <1>1, AnswerMoves DEF StatusOf
<1>. QED
  BY <1>1, <1>4, <1>5, Fails

(* While a request finishes, its intent is the only one.                   *)
LEMMA FinisherAlone ==
  ASSUME Inv, NEW r \in Request, pc[r] \in Finishing
  PROVE  intents = {r} /\ CommittedStore = Installed(disk, r) /\ CommittedRevision = commitRev[r]
<1>1. intents = {r}
  <2>1. r \in intents /\ \A q, s \in intents : q = s
    BY DEF Inv, IntentInv
  <2>. QED
    BY <2>1
<1>. QED
  BY <1>1, OnePending

(* Installing files, the revision and the attribution change nothing that  *)
(* the atomic store has not done already.                                  *)
LEMMA FinishingStutters ==
  ASSUME Inv, Inv', MappingInv, NEW r \in Request,
         CheckIntent(r) \/ Apply(r) \/ WriteRevision(r) \/ Attribute(r)
  PROVE  Mapped
<1>. USE DEF args, durable, Finishing
<1>1. /\ UNCHANGED <<intents, commitRev, seen, view, batch, reply>>
      /\ pc[r] \in Finishing
      /\ \E s \in Finishing \cup {"refused"} : pc' = [pc EXCEPT ![r] = s]
  BY DEF CheckIntent, Apply, WriteRevision, Attribute, Goto, After
<1>2. PICK s \in Finishing : pc' = [pc EXCEPT ![r] = s]
  <2>1. DOMAIN pc = Request /\ pc'[r] # "refused"
    BY DEF Inv, TypeOK, ModeInv
  <2>2. PICK s \in Finishing \cup {"refused"} : pc' = [pc EXCEPT ![r] = s]
    BY <1>1
  <2>3. s # "refused"
    BY <2>1, <2>2
  <2>. QED
    BY <2>2, <2>3
<1>3. intents = {r} /\ CommittedStore = Installed(disk, r) /\ CommittedRevision = commitRev[r]
  BY <1>1, FinisherAlone
<1>4. CommittedStore' = Installed(disk, r)' /\ CommittedRevision' = commitRev'[r]
  BY <1>1, <1>3, OnePending
<1>5. Installed(disk, r)' = Installed(disk, r)
  <2>1. Changed(r)' = Changed(r)
    BY <1>1 DEF Changed
  <2>2. CASE Apply(r)
    <3>1. PICK p \in todo[r] : disk' = [disk EXCEPT ![p] = batch[r].content[p]]
      BY <2>2 DEF Apply
    <3>2. p \in Changed(r)
      BY <2>2 DEF Inv, LedgerInv, Apply, Goto
    <3>3. \A q \in Path \ Changed(r) : disk'[q] = disk[q]
      BY <3>1, <3>2 DEF Inv, TypeOK
    <3>. QED
      BY <1>1, <2>1, <3>3 DEF Installed
  <2>3. CASE ~ Apply(r)
    <3>1. disk' = disk
      BY <2>3 DEF CheckIntent, WriteRevision, Attribute
    <3>. QED
      BY <1>1, <2>1, <3>1 DEF Installed
  <2>. QED
    BY <2>2, <2>3
<1>6. Status' = Status
  <2>1. reply' = [reply EXCEPT ![r] = reply[r]]
    BY <1>1 DEF Inv, TypeOK
  <2>. QED
    BY <1>1, <1>2, <2>1, StatusMoves, ZenonT(60) DEF Inv, StatusOf
<1>. QED
  BY <1>1, <1>3, <1>4, <1>5, <1>6, Stutters

(* When the directory goes, everything it stood for is on disk.            *)
LEMMA CompletedIsInstalled ==
  ASSUME Inv, Inv', MappingInv, NEW r \in Request, pc[r] = "complete", RemoveDirectory(r),
         UNCHANGED <<disk, revision, commitRev, batch, seen>>
  PROVE  UNCHANGED <<CommittedStore, CommittedRevision>>
<1>1. intents = {r} /\ CommittedStore = Installed(disk, r) /\ CommittedRevision = commitRev[r]
  BY FinisherAlone DEF Finishing
<1>2. CommittedStore' = disk /\ CommittedRevision' = revision
  BY <1>1, NothingPending DEF RemoveDirectory, Inv
<1>3. commitRev[r] = revision
  <2>1. commitRev[r] <= revision /\ commitRev[r] \in {revision, revision + 1}
    BY <1>1 DEF Inv, LedgerInv, IntentInv, CanFinish
  <2>. QED
    BY <2>1 DEF Inv, TypeOK
<1>4. Installed(disk, r) = disk
  <2>1. \A p \in Changed(r) : disk[p] = batch[r].content[p]
    BY DEF MappingInv
  <2>2. disk = [p \in Path |-> disk[p]]
    BY DEF Inv, TypeOK
  <2>. QED
    BY <2>1, <2>2 DEF Installed
<1>. QED
  BY <1>1, <1>2, <1>3, <1>4

(* The acknowledgement; a request that recovery finishes was answered.     *)
LEMMA CompleteAcknowledges ==
  ASSUME Inv, Inv', MappingInv, NEW r \in Request, Complete(r)
  PROVE  Mapped
<1>. USE DEF args, Finishing
<1>1. /\ pc[r] = "complete" /\ RemoveDirectory(r)
      /\ UNCHANGED <<disk, revision, commitRev, batch, seen, view>>
      /\ Answer(r, IF reply[r] = "none" THEN "written" ELSE reply[r])
  BY DEF Complete
<1>2. UNCHANGED <<CommittedStore, CommittedRevision>>
  BY <1>1, CompletedIsInstalled
<1>3. CASE reply[r] = "none"
  <2>1. Answer(r, "written")
    BY <1>1, <1>3
  <2>2. Status[r] = "committed" /\ Status' = [Status EXCEPT ![r] = "written"]
    BY <1>1, <1>3, <2>1, AnswerMoves DEF StatusOf
  <2>3. Abstract!Acknowledge(r)
    BY <1>1, <1>2, <2>2 DEF Abstract!Acknowledge, Abstract!Move, Abstract!Quiet
  <2>. QED
    BY <2>3 DEF Mapped, Abstract!Next
<1>4. CASE reply[r] # "none"
  <2>1. pc' = [pc EXCEPT ![r] = "done"] /\ reply' = [reply EXCEPT ![r] = reply[r]]
    BY <1>1, <1>4 DEF Answer
  <2>2. Status' = Status
    BY <1>4, <2>1, StatusMoves, ZenonT(60) DEF Inv, StatusOf
  <2>. QED
    BY <1>1, <1>2, <2>2, Stutters
<1>. QED
  BY <1>3, <1>4

(* A finish that throws: the caller is not told that the batch took effect.*)
LEMMA FinishFailsMaps ==
  ASSUME Inv, Inv', MappingInv, NEW r \in Request, FinishFails(r)
  PROVE  Mapped
<1>. USE DEF args, Finishing
<1>1. /\ mode = "up" /\ pc[r] \in Finishing /\ Answer(r, "failed")
      /\ UNCHANGED <<disk, revision, commitRev, batch, seen, view>>
  BY DEF FinishFails
<1>2. reply[r] = "none"
  BY <1>1 DEF MappingInv
<1>3. Status[r] = "committed" /\ Status' = [Status EXCEPT ![r] = "failed"]
  BY <1>1, <1>2, AnswerMoves DEF StatusOf
<1>4. UNCHANGED <<CommittedStore, CommittedRevision>>
  <2>1. CASE UNCHANGED intents
    BY <1>1, <2>1, StoreKept DEF Inv, Changed
  <2>2. CASE pc[r] = "complete" /\ RemoveDirectory(r)
    BY <1>1, <2>2, CompletedIsInstalled
  <2>. QED
    BY <2>1, <2>2 DEF FinishFails
<1>. QED
  BY <1>1, <1>3, <1>4, Fails

(* Whoever was in flight when the process died loses the answer.           *)
LEMMA DeathIsCrash ==
  ASSUME Inv, Inv', MappingInv, Die
  PROVE  Mapped
<1>. USE DEF args, durable, Finishing
<1>1. UNCHANGED <<CommittedStore, CommittedRevision, view, batch>>
  BY StoreKept DEF Die, Inv, Changed
<1>. DEFINE S == {r \in Request : pc[r] \notin {"idle", "done"} /\ reply[r] = "none"}
<1>2. S \in SUBSET {r \in Request : Status[r] \in Abstract!InFlight}
  BY DEF Inv, TypeOK, Stages, Locking, Locked, Status, Abstract!InFlight
<1>3. Status' = [r \in Request |-> IF r \in S THEN "lost" ELSE Status[r]]
  <2>1. ASSUME NEW r \in Request
        PROVE  Status'[r] = IF r \in S THEN "lost" ELSE Status[r]
    <3>1. /\ pc'[r] = IF pc[r] \in {"idle", "done"} THEN pc[r] ELSE "done"
          /\ reply'[r] = IF r \in S THEN "lost" ELSE reply[r]
      BY DEF Die
    <3>2. Status[r] = StatusOf(reply[r], pc[r]) /\ Status'[r] = StatusOf(reply'[r], pc'[r])
      BY DEF Status, StatusOf
    <3>3. pc[r] = "done" => reply[r] # "none"
      BY DEF MappingInv
    <3>. QED
      BY <3>1, <3>2, <3>3 DEF StatusOf
  <2>2. Status' = [r \in Request |-> Status'[r]]
    BY DEF Status
  <2>. HIDE DEF S
  <2>. QED
    BY <2>1, <2>2
<1>4. Abstract!Crash
  BY <1>1, <1>2, <1>3 DEF Abstract!Crash, Abstract!Quiet
<1>. QED
  BY <1>4 DEF Mapped, Abstract!Next

(* Recovery is no step of the atomic store.                                *)
LEMMA BootStutters ==
  ASSUME Inv, Inv', MappingInv, Boot
  PROVE  Mapped
<1>. USE DEF args, durable, Finishing
<1>1. UNCHANGED <<disk, revision, intents, commitRev, seen, view, batch, reply>>
  BY DEF Boot, Recover, RecoverNext, Recovered
<1>2. UNCHANGED <<CommittedStore, CommittedRevision>>
  BY <1>1, StoreKept DEF Inv, Changed
<1>3. Status' = Status
  <2>1. CASE pc' = pc
    BY <1>1, <2>1 DEF Status
  <2>2. ASSUME NEW r \in Request, RecoverNext(r)
        PROVE  Status' = Status
    <3>1. mode = "recovering" /\ r \in intents /\ pc' = [pc EXCEPT ![r] = "finish"]
      BY <2>2 DEF RecoverNext
    <3>2. reply[r] # "none"
      BY <3>1 DEF Inv, IntentInv, MappingInv
    <3>3. reply' = [reply EXCEPT ![r] = reply[r]]
      BY <1>1 DEF Inv, TypeOK
    <3>. QED
      BY <3>1, <3>2, <3>3, StatusMoves, ZenonT(30) DEF Inv, StatusOf
  <2>. QED
    BY <2>1, <2>2 DEF Boot, Recover, Recovered
<1>. QED
  BY <1>1, <1>2, <1>3, Stutters

-----------------------------------------------------------------------------
(* The initial states map to initial states.                               *)
LEMMA InitMaps == Init => Abstract!Init
<1>. SUFFICES ASSUME Init
              PROVE  Abstract!Init
  OBVIOUS
<1>1. TypeOK /\ intents = {}
  BY InitInv DEF Init, Inv
<1>2. CommittedStore = disk /\ CommittedRevision = 0
  BY <1>1, NothingPending DEF Init
<1>3. Status = [r \in Request |-> "idle"]
  BY DEF Init, Status
<1>. QED
  BY <1>2, <1>3 DEF Init, Abstract!Init, NoBatch, Abstract!NoBatch

(* Every step maps to a step or to none.                                 *)
LEMMA NextMaps == Inv /\ Inv' /\ MappingInv /\ [Next]_vars => Mapped
<1>. SUFFICES ASSUME Inv, Inv', MappingInv, [Next]_vars
              PROVE  Mapped
  OBVIOUS
<1>1. ASSUME NEW r \in Request, Begin(r) \/ Step(r) \/ Failure(r)
      PROVE  Mapped
  BY <1>1, SnapshotIsRead, SubmitIsSubmit, PreparingStutters, ReadEtagRefuses,
     RecordIntentIsCommit, RecordIntentFailsMaps, RefusalsMap, FailuresMap, FinishingStutters,
     CompleteAcknowledges, FinishFailsMaps DEF Step, Failure
<1>2. CASE Boot
  BY <1>2, BootStutters
<1>3. CASE Crash \/ RecoveryFails
  BY <1>3, DeathIsCrash DEF Crash, RecoveryFails
<1>4. CASE UNCHANGED vars
  <2>1. UNCHANGED <<CommittedStore, CommittedRevision>>
    BY <1>4, StoreKept DEF vars, durable, args, Inv, Changed
  <2>2. Status' = Status
    BY <1>4 DEF vars, Status
  <2>. QED
    BY <1>4, <2>1, <2>2, Stutters DEF vars, args
<1>. QED
  BY <1>1, <1>2, <1>3, <1>4 DEF Next, Idle

(* DBEngine implements AtomicStore: a batch takes effect as a whole, at    *)
(* the instant its intent is durable, on the state it was checked against, *)
(* and every answer of writeMany means what it says, across crashes.       *)
THEOREM Refinement == Spec => ImplementsAtomicStore
<1>1. Spec => [](Inv /\ MappingInv)
  <2>1. Init => Inv /\ MappingInv
    BY InitInv, InitMapping
  <2>2. Inv /\ MappingInv /\ [Next]_vars => (Inv /\ MappingInv)'
    BY NextInv, NextMapping
  <2>. QED
    BY <2>1, <2>2, PTL DEF Spec
<1>2. Inv /\ Inv' /\ MappingInv /\ [Next]_vars => [Abstract!Next]_(Abstract!avars)
  BY NextMaps DEF Mapped
<1>. QED
  BY <1>1, <1>2, InitMaps, PTL DEF Spec, ImplementsAtomicStore, Abstract!Spec
=============================================================================
