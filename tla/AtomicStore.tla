---------------------------- MODULE AtomicStore ----------------------------
(***************************************************************************)
(* What the database engine (src/src/store/data-layer.ts) promises to its  *)
(* callers, with no files, locks, journal or crashes in sight.             *)
(*                                                                         *)
(* A request takes a snapshot of the whole store, decides on a batch of    *)
(* mutations, and then either takes effect at one instant, in full, with a *)
(* revision of its own, or does not take effect at all.  An answer of      *)
(* "written" means it did; "unchanged", "conflict" and "invalid" mean it   *)
(* did not; after "failed" (the call threw) or "lost" (the process died)   *)
(* the caller does not know.                                               *)
(***************************************************************************)
EXTENDS Documents

VARIABLES
  store,            \* store[p]: the committed value of path p
  rev,              \* number of batches that took effect
  view,             \* view[r]: the snapshot r decided on
  batch,            \* batch[r]: what r submitted
  status            \* status[r]: how far r is, or its answer

avars == <<store, rev, view, batch, status>>

(* Nothing the batch depends on differs between the snapshot v and s.      *)
Current(s, v, b) ==
  /\ \A p \in b.cas \cup b.checks : s[p] = v[p]
  /\ b.collection => Existing(s) = Existing(v)

Move(r, from, to) ==
  /\ status[r] \in from
  /\ status' = [status EXCEPT ![r] = to]

Read(r) ==
  /\ Move(r, {"idle"}, "open")
  /\ view' = [view EXCEPT ![r] = store]
  /\ UNCHANGED <<store, rev, batch>>

Submit(r) ==
  /\ Move(r, {"open"}, "pending")
  /\ \E b \in Batches : batch' = [batch EXCEPT ![r] = b]
  /\ UNCHANGED <<store, rev, view>>

(* The one step in which a batch takes effect.                             *)
Commit(r) ==
  /\ Move(r, {"pending"}, "committed")
  /\ Accepted(batch[r])
  /\ Current(store, view[r], batch[r])
  /\ Overlay(store, batch[r]) # store
  /\ store' = Overlay(store, batch[r])
  /\ rev' = rev + 1
  /\ UNCHANGED <<view, batch>>

(* A commit whose caller is told of a failure nevertheless.                *)
CommitUnacknowledged(r) ==
  /\ Move(r, {"pending"}, "failed")
  /\ Accepted(batch[r])
  /\ Current(store, view[r], batch[r])
  /\ Overlay(store, batch[r]) # store
  /\ store' = Overlay(store, batch[r])
  /\ rev' = rev + 1
  /\ UNCHANGED <<view, batch>>

Quiet == UNCHANGED <<store, rev, view, batch>>

Acknowledge(r) == Move(r, {"committed"}, "written") /\ Quiet

Unchanged(r) ==
  /\ Move(r, {"pending"}, "unchanged")
  /\ Current(store, view[r], batch[r])
  /\ Overlay(store, batch[r]) = store
  /\ Quiet

(* A batch is refused only when, at that instant, it is stale; the answer  *)
(* may follow later.                                                       *)
Refuse(r) ==
  /\ \/ Move(r, {"pending"}, "refused")
     \/ Move(r, {"pending"}, "conflict")
  /\ ~ Current(store, view[r], batch[r])
  /\ Quiet

ReplyConflict(r) == Move(r, {"refused"}, "conflict") /\ Quiet

RejectInvalid(r) ==
  /\ Move(r, {"pending"}, "invalid")
  /\ ~ Accepted(batch[r])
  /\ Quiet

(* A call that throws before or after it took effect.                      *)
Fail(r) == Move(r, {"idle", "pending", "committed", "refused"}, "failed") /\ Quiet

InFlight == {"idle", "open", "pending", "committed", "refused"}

(* The process dies: every caller in flight loses its answer.              *)
Crash ==
  /\ \E S \in SUBSET {r \in Request : status[r] \in InFlight} :
       status' = [r \in Request |-> IF r \in S THEN "lost" ELSE status[r]]
  /\ Quiet

Init ==
  /\ store \in InitialStores
  /\ rev = 0
  /\ view = [r \in Request |-> store]
  /\ batch = [r \in Request |-> NoBatch]
  /\ status = [r \in Request |-> "idle"]

Next ==
  \/ \E r \in Request :
       \/ Read(r) \/ Submit(r) \/ Commit(r) \/ CommitUnacknowledged(r)
       \/ Acknowledge(r) \/ Unchanged(r) \/ Refuse(r) \/ ReplyConflict(r)
       \/ RejectInvalid(r) \/ Fail(r)
  \/ Crash

Spec == Init /\ [][Next]_avars
=============================================================================
