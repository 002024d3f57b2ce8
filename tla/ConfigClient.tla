---------------------------- MODULE ConfigClient ----------------------------
(***************************************************************************)
(* The client that every consuming service imports                         *)
(* (src/src/client/config-client.ts): its values in memory, the cache file *)
(* it keeps as last-known-good, and the fetches that bring both up to date *)
(* while they overlap: the refresh of load, those the service asks for,    *)
(* and the watch.                                                          *)
(*                                                                         *)
(* A commit stands for the values and flags served with it.  The server is *)
(* what a fetch sees of it: it answers, refuses (403, 404), or is away.    *)
(***************************************************************************)
EXTENDS Integers

CONSTANTS
  Refresher,        \* calls of refresh() that may be under way at once
  Watcher,          \* loops of watch(): a stopped one may still be running
  MaxCommit,        \* bound: commits that are served
  MaxChanges,       \* bound: times the served commit moves
  MaxFaults         \* bound: outages, refusals, failed writes, deaths of the service

ASSUME ClientAssumption ==
  /\ MaxCommit \in Nat \ {0}
  /\ Refresher # {} /\ Refresher \cap Watcher = {}
  /\ MaxChanges \in Nat /\ MaxFaults \in Nat

Task == Refresher \cup Watcher

Commit  == 1..MaxCommit
None    == 0         \* no commit: defaults alone; a file that is cut short
Missing == -1        \* no such file
Other   == -2        \* the cache of another service under the same path
Nobody  == "nobody"

VARIABLES
  served, server,         \* what a fetch would bring; "up", "refusing" or "down"
  running,                \* whether the service is
  current,                \* currentCommit, and the values resolved with it
  told,                   \* what current was when the handlers last ran
  watching,               \* watchAbort: the loop that is not aborted
  disk, temp,             \* the commit the cache file and the temporary file hold
  stage, has,             \* per task: its step, the commit it asked with or was given
  changed, file,          \* per task: whether to notify, where its file is now
  changes, faults

serving == <<served, server>>
memory  == <<current, told, watching>>
files   == <<disk, temp>>
tasks   == <<stage, has, changed, file>>
counts  == <<changes, faults>>
vars    == <<serving, running, memory, files, tasks, counts>>

Goto(t, from, to) == stage[t] = from /\ stage' = [stage EXCEPT ![t] = to]

Fault == faults < MaxFaults /\ faults' = faults + 1 /\ UNCHANGED changes

-----------------------------------------------------------------------------
(* The server.                                                             *)

Publish(c) ==
  /\ changes < MaxChanges /\ changes' = changes + 1
  /\ c # served /\ served' = c
  /\ UNCHANGED <<server, running, memory, files, tasks, faults>>

Outage(s) ==
  /\ server = "up" /\ server' = s /\ Fault
  /\ UNCHANGED <<served, running, memory, files, tasks>>

Recover ==
  /\ server # "up" /\ server' = "up"
  /\ UNCHANGED <<served, running, memory, files, tasks, counts>>

-----------------------------------------------------------------------------
(* The service, and what it calls.                                         *)

Idle == [t \in Task |-> "idle"]
NoCommit == [t \in Task |-> None]

(* Whatever the file says.                                                 *)
ReadCacheAny == disk
(* A cache that does not parse, or that is another service's, is no cache. *)
ReadCache == IF disk \in Commit THEN disk ELSE None

(* load(): defaults, the cache over them, and a refresh nobody awaits.     *)
Load(r) ==
  /\ ~ running /\ running' = TRUE
  /\ current' = ReadCache /\ told' = ReadCache
  /\ stage' = [stage EXCEPT ![r] = "fetch"]
  /\ UNCHANGED <<serving, watching, files, has, changed, file, counts>>

Refresh(r) ==
  /\ running
  /\ Goto(r, "idle", "fetch")
  /\ UNCHANGED <<serving, running, memory, files, has, changed, file, counts>>

Watch(w) ==
  /\ running /\ watching = Nobody
  /\ watching' = w
  /\ Goto(w, "idle", "fetch")
  /\ has' = [has EXCEPT ![w] = current]
  /\ UNCHANGED <<serving, running, current, told, files, changed, file, counts>>

(* Stopping aborts no request: the loop finds out when it has its answer.  *)
StopWatching ==
  /\ watching # Nobody /\ watching' = Nobody
  /\ UNCHANGED <<serving, running, current, told, files, tasks, counts>>

Crash ==
  /\ running /\ running' = FALSE
  /\ Fault
  /\ current' = None /\ told' = None /\ watching' = Nobody
  /\ stage' = Idle /\ has' = NoCommit
  /\ changed' = [t \in Task |-> FALSE] /\ file' = [t \in Task |-> "gone"]
  /\ UNCHANGED <<serving, files>>

-----------------------------------------------------------------------------
(* The end of a fetch or of an apply: a refresh is over, and a watch that  *)
(* was not stopped asks again with what is current by then.                *)

Aborted(t) == t \in Watcher /\ watching # t

Continue(t) ==
  IF t \in Watcher /\ ~ Aborted(t)
    THEN stage' = [stage EXCEPT ![t] = "fetch"] /\ has' = [has EXCEPT ![t] = current]
    ELSE stage' = [stage EXCEPT ![t] = "idle"] /\ has' = [has EXCEPT ![t] = None]

(* The watch gives up, or waits and tries again.                           *)
GiveUp(t) ==
  /\ stage' = [stage EXCEPT ![t] = "idle"]
  /\ has' = [has EXCEPT ![t] = None]
Retry(t) ==
  /\ stage' = [stage EXCEPT ![t] = IF t \in Watcher THEN "pause" ELSE "idle"]
  /\ has' = [has EXCEPT ![t] = None]

-----------------------------------------------------------------------------
(* fetch.                                                                  *)

(* Held while nothing is newer than what the caller has.                   *)
Held(t) == has[t] = served

Answered(t) ==
  /\ server = "up" /\ ~ Held(t)
  /\ Goto(t, "fetch", "answered")
  /\ has' = [has EXCEPT ![t] = served]
  /\ UNCHANGED <<serving, running, memory, files, changed, file, counts>>

(* 403, 404 and 304 keep the values in hand.                               *)
NoNews(t) ==
  /\ stage[t] = "fetch"
  /\ server = "refusing" \/ (server = "up" /\ Held(t))
  /\ Continue(t)
  /\ UNCHANGED <<serving, running, memory, files, changed, file, counts>>

(* The hold of the server is longer than the timeout of the client.        *)
FetchFails(t) ==
  /\ stage[t] = "fetch"
  /\ \/ server = "down" /\ UNCHANGED counts
     \/ server = "up" /\ Held(t) /\ UNCHANGED counts
     \/ server = "up" /\ ~ Held(t) /\ Fault
  /\ Retry(t)
  /\ UNCHANGED <<serving, running, memory, files, changed, file>>

PauseEnds(w) ==
  /\ stage[w] = "pause"
  /\ Continue(w)
  /\ UNCHANGED <<serving, running, memory, files, changed, file, counts>>

-----------------------------------------------------------------------------
(* apply: values in one step, then the cache file, then the handlers.      *)

(* Compared once the commit has been taken over.                           *)
ChangedLate(t) == FALSE
Changed(t) == has[t] # current

(* Only the loop that is not aborted applies; a refresh always does.       *)
Apply(t) ==
  /\ ~ Aborted(t)
  /\ Goto(t, "answered", "open")
  /\ current' = has[t]
  /\ changed' = [changed EXCEPT ![t] = Changed(t)]
  /\ UNCHANGED <<serving, running, told, watching, files, has, file, counts>>

Discard(t) ==
  /\ Aborted(t)
  /\ Goto(t, "answered", "idle")
  /\ has' = [has EXCEPT ![t] = None]
  /\ UNCHANGED <<serving, running, memory, files, changed, file, counts>>

(* All tasks of a process write one temporary file: opening it cuts it     *)
(* short under whoever else is writing, and what was filled in before may  *)
(* stay longer than what is filled in now.                                 *)
Open(t) ==
  /\ Goto(t, "open", "fill")
  /\ temp' = None
  /\ file' = [file EXCEPT ![t] = "temp"]
  /\ UNCHANGED <<serving, running, memory, disk, has, changed, counts>>

Filled(t, old) == {has[t]} \cup (IF old = None THEN {} ELSE {None})

Fill(t) ==
  /\ Goto(t, "fill", "rename")
  /\ CASE file[t] = "temp" -> temp' \in Filled(t, temp) /\ UNCHANGED disk
       [] file[t] = "disk" -> disk' \in Filled(t, disk) /\ UNCHANGED temp
       [] file[t] = "gone" -> UNCHANGED files
  /\ UNCHANGED <<serving, running, memory, has, changed, file, counts>>

(* The handlers run if the commit moved, and the task goes on.             *)
Notify(t) ==
  /\ told' = IF changed[t] THEN current ELSE told
  /\ UNCHANGED <<current, watching>>

AfterWrite(t) == Notify(t) /\ Continue(t) /\ changed' = [changed EXCEPT ![t] = FALSE]

Rename(t) ==
  /\ stage[t] = "rename" /\ temp # Missing
  /\ disk' = temp /\ temp' = Missing
  /\ file' = [q \in Task |-> IF file[q] = "temp" /\ q # t THEN "disk" ELSE "gone"]
  /\ AfterWrite(t)
  /\ UNCHANGED <<serving, running, counts>>

(* Another task renamed the file first: it is unlinked, the error reported.*)
RenameFails(t) ==
  /\ temp = Missing
  /\ Goto(t, "rename", "unlink")
  /\ UNCHANGED <<serving, running, memory, files, has, changed, file, counts>>

Unlink(t) ==
  /\ stage[t] = "unlink"
  /\ temp' = Missing
  /\ file' = [q \in Task |-> IF file[q] = "temp" \/ q = t THEN "gone" ELSE file[q]]
  /\ AfterWrite(t)
  /\ UNCHANGED <<serving, running, disk, counts>>

WriteFails(t) ==
  /\ stage[t] \in {"open", "fill"} /\ Fault
  /\ file' = [file EXCEPT ![t] = "gone"]
  /\ AfterWrite(t)
  /\ UNCHANGED <<serving, running, files>>

-----------------------------------------------------------------------------
Init ==
  /\ served = 1 /\ server = "up" /\ running = FALSE
  /\ current = None /\ told = None /\ watching = Nobody
  /\ disk \in {Missing, Other, served} /\ temp = Missing
  /\ stage = Idle /\ has = NoCommit
  /\ changed = [t \in Task |-> FALSE] /\ file = [t \in Task |-> "gone"]
  /\ changes = 0 /\ faults = 0

Step(t) ==
  \/ Answered(t) \/ NoNews(t) \/ FetchFails(t) \/ PauseEnds(t) \/ Apply(t) \/ Discard(t)
  \/ Open(t) \/ Fill(t) \/ Rename(t) \/ RenameFails(t) \/ Unlink(t) \/ WriteFails(t)

Next ==
  \/ \E c \in Commit : Publish(c)
  \/ \E s \in {"refusing", "down"} : Outage(s)
  \/ Recover
  \/ \E r \in Refresher : Load(r) \/ Refresh(r)
  \/ \E w \in Watcher : Watch(w)
  \/ StopWatching \/ Crash
  \/ \E t \in Task : Step(t)

(* Requests end, by the server or by the timeout, and writes and pauses    *)
(* too; nobody promises that the server comes back or that the service     *)
(* calls anything.  An answer cut off in its body is outside of this: no   *)
(* listener of fetch() hears of it, and the request would not end.         *)
Fairness == \A t \in Task : WF_vars(Step(t))

Spec == Init /\ [][Next]_vars /\ Fairness

-----------------------------------------------------------------------------
TypeOK ==
  /\ served \in Commit /\ server \in {"up", "refusing", "down"} /\ running \in BOOLEAN
  /\ {current, told} \subseteq Commit \cup {None}
  /\ watching \in Watcher \cup {Nobody}
  /\ disk \in Commit \cup {None, Missing, Other} /\ temp \in Commit \cup {None, Missing}
  /\ \A t \in Task :
       /\ stage[t] \in {"idle", "fetch", "pause", "answered", "open", "fill", "rename", "unlink"}
       /\ has[t] \in Commit \cup {None}
       /\ changed[t] \in BOOLEAN
       /\ file[t] \in {"temp", "disk", "gone"}
       /\ file[t] = "temp" => temp # Missing
       /\ stage[t] # "idle" => running

(* "Registered handlers run when a refresh brings a different commit":     *)
(* once no answer is being applied they have run for what is current,      *)
(* whatever overlapped and whether or not the cache could be written.      *)
HandlersToldLast ==
  (\A t \in Task : stage[t] \in {"idle", "fetch", "pause", "answered"}) => told = current

(* "An outage must not end the watch": a service that keeps watching has   *)
(* the served commit in the end, and its handlers know, even if an older   *)
(* answer came in last.                                                    *)
WatchCatchesUp ==
  <>[](server = "up" /\ watching # Nobody) => <>[](current = served /\ told = served)

=============================================================================
