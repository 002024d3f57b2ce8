---------------------------- MODULE ServingState ----------------------------
(***************************************************************************)
(* What services are served from: RepositoryState                          *)
(* (src/src/boot/repository-state.ts), the cache and its last-known-good   *)
(* snapshot (src/src/store/cache.ts, snapshot.ts, loader.ts), the reloads  *)
(* and the boot that fill them (src/src/server.ts) and the held reads of   *)
(* the socket (src/src/routes/internal.ts).                                *)
(*                                                                         *)
(* A revision stands for every document of the store as of that write.     *)
(* Reloads run concurrently: the route of every write awaits one of its    *)
(* own, and so do the poll and the webhook.  All of them write the         *)
(* snapshot through one temporary file.                                    *)
(***************************************************************************)
EXTENDS Integers, FiniteSets

CONSTANTS
  Writer,           \* routes that may be running a write and its reload
  Consumer,         \* processes that read one namespace over the socket
  MaxRevision,      \* bound: revisions of the store
  MaxCrashes,       \* bound: deaths of the process
  MaxFaults         \* bound: failed reads and decryptions

ASSUME BoundsAssumption == MaxRevision \in Nat \ {0} /\ MaxCrashes \in Nat /\ MaxFaults \in Nat

Boot     == "boot"
Poll     == "poll"
Reloader == Writer \cup {Poll, Boot}

ASSUME WriterAssumption == Writer \cap {Poll, Boot} = {}

Revision == 1..MaxRevision
None     == 0                  \* no revision; a file that is cut short
Missing  == -1                 \* no such file
Never    == MaxRevision + 1

VARIABLES
  (* the store, and what its writes did to the namespace's grant *)
  rev,                \* the current revision
  revoked,            \* the write that took the grant away
  (* the snapshot on disk *)
  disk, temp,         \* the revision each file holds
  (* in the process *)
  mode,               \* "down", "booting", "up"
  registry, schemas,  \* the revisions they were read at
  cache,              \* the commit served, and the revision of the flags
  stage, got, file,   \* per reload: its step, what it read, where its temp file is now
  (* consumers, and their requests *)
  request, since,     \* per consumer: "none", "held" or "woken", and the commit it has
  seen, told,         \* the commit and the schema revision it was last answered with
  crashes, faults

store     == <<rev, revoked>>
snapshot  == <<disk, temp>>
state     == <<registry, schemas>>
reloads   == <<stage, got, file>>
consumers == <<request, since, seen, told>>
counts    == <<crashes, faults>>
vars      == <<store, snapshot, mode, state, cache, reloads, consumers, counts>>

Goto(r, from, to) == stage[r] = from /\ stage' = [stage EXCEPT ![r] = to]

Fault == faults < MaxFaults /\ faults' = faults + 1 /\ UNCHANGED crashes

-----------------------------------------------------------------------------
(* Who reloads.                                                            *)

(* A route's write, and the reload that follows it.                        *)
Write(w, kind) ==
  /\ mode = "up" /\ rev < MaxRevision
  /\ Goto(w, "idle", "registry")
  /\ rev' = rev + 1
  /\ revoked' = IF kind = "revoke" /\ revoked = Never THEN rev' ELSE revoked
  /\ UNCHANGED <<snapshot, mode, state, cache, got, file, consumers, counts>>

PollIfMoved ==
  /\ mode = "up" /\ cache.commit # rev
  /\ Goto(Poll, "idle", "registry")
  /\ UNCHANGED <<store, snapshot, mode, state, cache, got, file, consumers, counts>>
(* reloadFromRepository compares a git commit with a revision of the store:*)
(* they always differ.                                                     *)
PollTick ==
  /\ mode = "up"
  /\ Goto(Poll, "idle", "registry")
  /\ UNCHANGED <<store, snapshot, mode, state, cache, got, file, consumers, counts>>

-----------------------------------------------------------------------------
(* RepositoryState.reload.  A part that cannot be read keeps its value.    *)

ReloadRegistry(r) ==
  /\ Goto(r, "registry", "schemas")
  /\ \/ registry' = rev /\ UNCHANGED counts
     \/ Fault /\ UNCHANGED registry
  /\ UNCHANGED <<store, snapshot, mode, schemas, cache, got, file, consumers>>

ReloadSchemas(r) ==
  /\ Goto(r, "schemas", "sources")
  /\ \/ schemas' = rev /\ UNCHANGED counts
     \/ Fault /\ UNCHANGED schemas
  /\ UNCHANGED <<store, snapshot, mode, registry, cache, got, file, consumers>>

(* onCache: one snapshot of all values, resolved; then the flags.          *)
ReadSources(r) ==
  /\ Goto(r, "sources", "flags")
  /\ got' = [got EXCEPT ![r].commit = rev]
  /\ UNCHANGED <<store, snapshot, mode, state, cache, file, consumers, counts>>

ReadFlagsOnce(r) ==
  /\ Goto(r, "flags", "install")
  /\ got' = [got EXCEPT ![r].flags = IF cache.flags # None THEN cache.flags ELSE rev]
  /\ UNCHANGED <<store, snapshot, mode, state, cache, file, consumers, counts>>
ReadFlags(r) ==
  /\ Goto(r, "flags", "install")
  /\ got' = [got EXCEPT ![r].flags = rev]
  /\ UNCHANGED <<store, snapshot, mode, state, cache, file, consumers, counts>>

(* cache.reload, and its listeners.                                        *)
WakeNobody(commit) == UNCHANGED request
Wake(commit) ==
  request' = [c \in Consumer |->
                IF request[c] = "held" /\ since[c] # commit THEN "woken" ELSE request[c]]

Install(r) ==
  /\ Goto(r, "install", "open")
  /\ cache' = got[r]
  /\ Wake(got[r].commit)
  /\ UNCHANGED <<store, snapshot, mode, state, got, file, since, seen, told, counts>>

(* SnapshotStore.save: writeFile cuts the file short, then fills it; a file*)
(* that another reload filled may stay longer than what this one writes.   *)
Open(r) ==
  /\ Goto(r, "open", "fill")
  /\ temp' = None
  /\ file' = [file EXCEPT ![r] = "temp"]
  /\ UNCHANGED <<store, disk, mode, state, cache, got, consumers, counts>>

Filled(r, old) == {got[r].commit} \cup (IF old = None THEN {} ELSE {None})

Fill(r) ==
  /\ Goto(r, "fill", "rename")
  /\ CASE file[r] = "temp" -> temp' \in Filled(r, temp) /\ UNCHANGED disk
       [] file[r] = "disk" -> disk' \in Filled(r, disk) /\ UNCHANGED temp
       [] file[r] = "gone" -> UNCHANGED snapshot
  /\ UNCHANGED <<store, mode, state, cache, got, file, consumers, counts>>

(* Where everyone's file is once temp has become the snapshot.             *)
Renamed(r) ==
  [q \in Reloader |-> IF file[q] = "temp" /\ q # r THEN "disk" ELSE "gone"]

DoneQuietly(r) == stage' = [stage EXCEPT ![r] = "idle"] /\ UNCHANGED mode
(* After the reload of the boot the listeners start.                       *)
Done(r) ==
  /\ stage' = [stage EXCEPT ![r] = "idle"]
  /\ mode' = IF r = Boot THEN "up" ELSE mode

Rename(r) ==
  /\ stage[r] = "rename" /\ temp # Missing
  /\ disk' = temp /\ temp' = Missing
  /\ file' = Renamed(r)
  /\ Done(r)
  /\ UNCHANGED <<store, state, cache, got, consumers, counts>>

(* Another reload renamed the file first.                                  *)
RenameFails(r) ==
  /\ temp = Missing
  /\ Goto(r, "rename", "unlink")
  /\ UNCHANGED <<store, snapshot, mode, state, cache, got, file, consumers, counts>>

-----------------------------------------------------------------------------
(* Errors that reload() does not catch: its caller sees them, and at boot  *)
(* the process exits.                                                      *)

Idle == [r \in Reloader |-> "idle"]

Gone ==
  /\ mode' = "down"
  /\ registry' = None /\ schemas' = None
  /\ cache' = [commit |-> None, flags |-> None]
  /\ stage' = Idle
  /\ got' = [r \in Reloader |-> [commit |-> None, flags |-> None]]
  /\ file' = [r \in Reloader |-> "gone"]
  /\ request' = [c \in Consumer |-> "none"]
  /\ UNCHANGED <<since, seen, told>>

Throw(r) ==
  IF r = Boot THEN Gone
  ELSE /\ stage' = [stage EXCEPT ![r] = "idle"]
       /\ file' = [file EXCEPT ![r] = "gone"]
       /\ UNCHANGED <<mode, state, cache, got, consumers>>

(* A value that does not decrypt or parse fails the whole load.            *)
ResolveFails(r) ==
  /\ stage[r] = "flags"
  /\ Fault
  /\ Throw(r)
  /\ UNCHANGED <<store, snapshot>>

Unlink(r) ==
  /\ stage[r] = "unlink"
  /\ temp' = Missing
  /\ IF r = Boot
       THEN Throw(r)
       ELSE /\ stage' = [stage EXCEPT ![r] = "idle"]
            /\ file' = [q \in Reloader |-> IF file[q] = "temp" \/ q = r THEN "gone" ELSE file[q]]
            /\ UNCHANGED <<mode, state, cache, got, consumers>>
  /\ UNCHANGED <<store, disk, counts>>

Crash ==
  /\ mode # "down"
  /\ crashes < MaxCrashes /\ crashes' = crashes + 1
  /\ Gone
  /\ UNCHANGED <<store, snapshot, faults>>

-----------------------------------------------------------------------------
(* The boot: the store, or else the snapshot, then a whole reload.  Nobody *)
(* else runs, so that the first load and its save are one step.            *)

BootFromStore ==
  /\ mode = "down" /\ mode' = "booting"
  /\ cache' = [commit |-> rev, flags |-> rev]
  /\ disk' = rev /\ temp' = Missing
  /\ stage' = [stage EXCEPT ![Boot] = "registry"]
  /\ UNCHANGED <<store, state, got, file, consumers, counts>>

BootFromSnapshot ==
  /\ mode = "down" /\ mode' = "booting"
  /\ Fault
  /\ cache' = IF disk \in Revision THEN [commit |-> disk, flags |-> rev] ELSE cache
  /\ stage' = [stage EXCEPT ![Boot] = "registry"]
  /\ UNCHANGED <<store, snapshot, state, got, file, consumers>>

-----------------------------------------------------------------------------
(* GET /config/:service/:environment?since=                                *)

Authorized == registry # None /\ registry < revoked

Answer(c) ==
  /\ seen' = [seen EXCEPT ![c] = cache.commit]
  /\ told' = [told EXCEPT ![c] = schemas]

Ask(c) ==
  /\ mode = "up" /\ request[c] = "none" /\ Authorized
  /\ since' = [since EXCEPT ![c] = seen[c]]
  /\ IF seen[c] = cache.commit
       THEN request' = [request EXCEPT ![c] = "held"] /\ UNCHANGED <<seen, told>>
       ELSE Answer(c) /\ UNCHANGED request
  /\ UNCHANGED <<store, snapshot, mode, state, cache, reloads, counts>>

WaitExpires(c) ==
  /\ request[c] = "held"
  /\ request' = [request EXCEPT ![c] = "woken"]
  /\ UNCHANGED <<store, snapshot, mode, state, cache, reloads, since, seen, told, counts>>

ResumeAuthorized(c) ==
  /\ request[c] = "woken"
  /\ request' = [request EXCEPT ![c] = "none"]
  /\ IF cache.commit # since[c] THEN Answer(c) ELSE UNCHANGED <<seen, told>>
  /\ UNCHANGED <<store, snapshot, mode, state, cache, reloads, since, counts>>
(* After the hold the grant is asked for again; 304 if nothing moved.      *)
Resume(c) ==
  /\ request[c] = "woken"
  /\ request' = [request EXCEPT ![c] = "none"]
  /\ IF Authorized /\ cache.commit # since[c] THEN Answer(c) ELSE UNCHANGED <<seen, told>>
  /\ UNCHANGED <<store, snapshot, mode, state, cache, reloads, since, counts>>

-----------------------------------------------------------------------------
Init ==
  /\ rev = 1 /\ revoked = Never
  /\ disk \in {Missing, None, 1} /\ temp = Missing
  /\ mode = "down"
  /\ registry = None /\ schemas = None
  /\ cache = [commit |-> None, flags |-> None]
  /\ stage = Idle
  /\ got = [r \in Reloader |-> [commit |-> None, flags |-> None]]
  /\ file = [r \in Reloader |-> "gone"]
  /\ request = [c \in Consumer |-> "none"]
  /\ since = [c \in Consumer |-> None]
  /\ seen = [c \in Consumer |-> None] /\ told = [c \in Consumer |-> None]
  /\ crashes = 0 /\ faults = 0

Reload(r) ==
  \/ ReloadRegistry(r) \/ ReloadSchemas(r) \/ ReadSources(r) \/ ReadFlags(r) \/ Install(r)
  \/ Open(r) \/ Fill(r) \/ Rename(r) \/ RenameFails(r) \/ Unlink(r) \/ ResolveFails(r)

Next ==
  \/ \E w \in Writer, kind \in {"values", "revoke"} : Write(w, kind)
  \/ PollTick
  \/ \E r \in Reloader : Reload(r)
  \/ BootFromStore \/ BootFromSnapshot \/ Crash
  \/ \E c \in Consumer : Ask(c) \/ WaitExpires(c) \/ Resume(c)

(* The supervisor restarts the process, the interval keeps polling, every  *)
(* reload runs on, and consumers reconnect.                                *)
Fairness ==
  /\ WF_vars(BootFromStore) /\ WF_vars(PollTick)
  /\ \A r \in Reloader : WF_vars(Reload(r))
  /\ \A c \in Consumer : WF_vars(Ask(c)) /\ WF_vars(WaitExpires(c)) /\ WF_vars(Resume(c))

Spec == Init /\ [][Next]_vars /\ Fairness

-----------------------------------------------------------------------------
(* Type invariant: revisions, files, and the states of reloads and reads.  *)
TypeOK ==
  /\ rev \in Revision /\ revoked \in Revision \cup {Never}
  /\ {disk, temp} \subseteq Revision \cup {None, Missing}
  /\ mode \in {"down", "booting", "up"}
  /\ {registry, schemas} \subseteq Revision \cup {None}
  /\ cache.commit \in 0..rev /\ cache.flags \in 0..rev
  /\ \A r \in Reloader :
       /\ stage[r] \in {"idle", "registry", "schemas", "sources", "flags", "install", "open",
                        "fill", "rename", "unlink"}
       /\ got[r].commit \in Revision \cup {None} /\ got[r].flags \in Revision \cup {None}
       /\ file[r] \in {"temp", "disk", "gone"}
  /\ mode = "booting" <=> stage[Boot] # "idle"
  /\ \A c \in Consumer :
       /\ request[c] \in {"none", "held", "woken"}
       /\ {since[c], seen[c], told[c]} \subseteq Revision \cup {None}

(* A consumer that has commit n will be held while n is served, so n must  *)
(* never be served with flags older than n (onCache in server.ts).         *)
FlagsNotOlder == cache.flags >= cache.commit

(* "The answer arrives when the commit changes": whoever is still held has *)
(* exactly the commit that is served (waitForChange and ConfigCache).      *)
NoMissedWake ==
  \A c \in Consumer : request[c] = "held" => mode = "up" /\ since[c] = cache.commit

(* "Holding a request open must not become a way around the grant table":  *)
(* values are handed out only under the grants in force at the answer.     *)
HoldIsNoWayAround ==
  [][ \A c \in Consumer : seen'[c] # seen[c] \/ told'[c] # told[c] => Authorized ]_vars

(* "The service serves the last tree it knew instead of nothing, which is  *)
(* the difference between a degraded platform and one that cannot boot".   *)
SnapshotKeepsServing ==
  [][ mode = "booting" /\ mode' = "down" => disk \in {None, Missing} \/ Crash ]_vars

(* A missed or failed reload heals: once writes and failures stop, what is *)
(* served, what is granted and what is kept for a boot are the store's.    *)
ServedCatchesUp ==
  <>[](cache.commit = rev /\ cache.flags = rev /\ registry = rev /\ schemas = rev /\ disk = rev)
=============================================================================
