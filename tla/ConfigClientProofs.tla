------------------------- MODULE ConfigClientProofs -------------------------
(***************************************************************************)
(* Theorems about ConfigClient, for any number of refreshes and watches    *)
(* that overlap, any commits, and any outages and deaths of the service.   *)
(***************************************************************************)
EXTENDS ConfigClient, TLAPS

-----------------------------------------------------------------------------
(* The inductive invariant.                                                *)

Functions ==
  /\ DOMAIN stage = Task /\ DOMAIN has = Task
  /\ DOMAIN changed = Task /\ DOMAIN file = Task

Applying == {"open", "fill", "rename", "unlink"}

(* While the handlers have not run for what is current, a task that applied*)
(* it is still on its way to them, and knows that it must run them.        *)
NoticePending ==
  told # current => \E t \in Task : stage[t] \in Applying /\ changed[t] = TRUE

Inv == TypeOK /\ Functions /\ NoticePending

USE ClientAssumption
    DEF serving, memory, files, tasks, counts, Commit, None, Missing, Other, Nobody

-----------------------------------------------------------------------------
(* The invariant holds at first, and every step preserves it.              *)

(* A service that was never started has nothing to tell.                   *)
LEMMA InitInv == Init => Inv
<1>. SUFFICES ASSUME Init PROVE Inv
  OBVIOUS
<1>1. TypeOK
  <2>1. served = 1 /\ current = None /\ told = None
    BY DEF Init
  <2>2. served \in Commit /\ {current, told} \subseteq Commit \cup {None}
    BY <2>1
  <2>3. server \in {"up", "refusing", "down"} /\ running \in BOOLEAN
    BY DEF Init
  <2>4. watching \in Watcher \cup {Nobody}
    BY DEF Init
  <2>5. /\ disk \in Commit \cup {None, Missing, Other}
        /\ temp \in Commit \cup {None, Missing}
    BY DEF Init
  <2>6. ASSUME NEW t \in Task
        PROVE  stage[t] = "idle" /\ has[t] = None /\ changed[t] = FALSE /\ file[t] = "gone"
    BY DEF Init, Idle, NoCommit
  <2>. QED
    BY <2>2, <2>3, <2>4, <2>5, <2>6 DEF TypeOK
<1>2. Functions /\ NoticePending
  BY DEF Init, Functions, NoticePending, Idle, NoCommit
<1>. QED
  BY <1>1, <1>2 DEF Inv

(* The served commit moves, and nothing in the service does.               *)
LEMMA PublishStep ==
  ASSUME Inv, NEW c \in Commit, Publish(c)
  PROVE  Inv'
<1>1. TypeOK'
  BY DEF Publish, Inv, TypeOK, Functions
<1>2. Functions'
  BY DEF Publish, Inv, Functions
<1>3. NoticePending'
  BY DEF Publish, Inv, TypeOK, Functions, NoticePending, Applying
<1>. QED
  BY <1>1, <1>2, <1>3 DEF Inv

(* The server goes away or refuses.                                        *)
LEMMA OutageStep ==
  ASSUME Inv, NEW s \in {"refusing", "down"}, Outage(s)
  PROVE  Inv'
<1>1. TypeOK'
  BY DEF Outage, Fault, Inv, TypeOK, Functions
<1>2. Functions'
  BY DEF Outage, Fault, Inv, Functions
<1>3. NoticePending'
  BY DEF Outage, Fault, Inv, TypeOK, Functions, NoticePending, Applying
<1>. QED
  BY <1>1, <1>2, <1>3 DEF Inv

(* The server is back.                                                     *)
LEMMA RecoverStep ==
  ASSUME Inv, Recover
  PROVE  Inv'
<1>1. TypeOK'
  BY DEF Recover, Inv, TypeOK, Functions
<1>2. Functions'
  BY DEF Recover, Inv, Functions
<1>3. NoticePending'
  BY DEF Recover, Inv, TypeOK, Functions, NoticePending, Applying
<1>. QED
  BY <1>1, <1>2, <1>3 DEF Inv

(* load() takes the cache as current and as told.                          *)
LEMMA LoadStep ==
  ASSUME Inv, NEW r \in Refresher, Load(r)
  PROVE  Inv'
<1>1. TypeOK'
  BY DEF Load, ReadCache, Task, Inv, TypeOK, Functions
<1>2. Functions'
  BY DEF Load, ReadCache, Task, Inv, Functions
<1>3. NoticePending'
  BY DEF Load, ReadCache, Task, Inv, TypeOK, Functions, NoticePending, Applying
<1>. QED
  BY <1>1, <1>2, <1>3 DEF Inv

(* A refresh begins to fetch.                                              *)
LEMMA RefreshStep ==
  ASSUME Inv, NEW r \in Refresher, Refresh(r)
  PROVE  Inv'
<1>1. TypeOK'
  BY DEF Refresh, Goto, Task, Inv, TypeOK, Functions
<1>2. Functions'
  BY DEF Refresh, Goto, Task, Inv, Functions
<1>3. NoticePending'
  BY DEF Refresh, Goto, Task, Inv, TypeOK, Functions, NoticePending, Applying
<1>. QED
  BY <1>1, <1>2, <1>3 DEF Inv

(* A watch begins to fetch.                                                *)
LEMMA WatchStep ==
  ASSUME Inv, NEW w \in Watcher, Watch(w)
  PROVE  Inv'
<1>1. TypeOK'
  BY DEF Watch, Goto, Task, Inv, TypeOK, Functions
<1>2. Functions'
  BY DEF Watch, Goto, Task, Inv, Functions
<1>3. NoticePending'
  BY DEF Watch, Goto, Task, Inv, TypeOK, Functions, NoticePending, Applying
<1>. QED
  BY <1>1, <1>2, <1>3 DEF Inv

(* A loop is aborted and runs on.                                          *)
LEMMA StopWatchingStep ==
  ASSUME Inv, StopWatching
  PROVE  Inv'
<1>1. TypeOK'
  BY DEF StopWatching, Inv, TypeOK, Functions
<1>2. Functions'
  BY DEF StopWatching, Inv, Functions
<1>3. NoticePending'
  BY DEF StopWatching, Inv, TypeOK, Functions, NoticePending, Applying
<1>. QED
  BY <1>1, <1>2, <1>3 DEF Inv

(* The service dies with all its tasks.                                    *)
LEMMA CrashStep ==
  ASSUME Inv, Crash
  PROVE  Inv'
<1>1. TypeOK'
  BY DEF Crash, Fault, Idle, NoCommit, Inv, TypeOK, Functions
<1>2. Functions'
  BY DEF Crash, Fault, Idle, NoCommit, Inv, Functions
<1>3. NoticePending'
  BY DEF Crash, Fault, Idle, NoCommit, Inv, TypeOK, Functions, NoticePending, Applying
<1>. QED
  BY <1>1, <1>2, <1>3 DEF Inv

(* An answer brings a commit that is served.                               *)
LEMMA AnsweredStep ==
  ASSUME Inv, NEW t \in Task, Answered(t)
  PROVE  Inv'
<1>1. TypeOK'
  BY DEF Answered, Goto, Held, Inv, TypeOK, Functions
<1>2. Functions'
  BY DEF Answered, Goto, Held, Inv, Functions
<1>3. NoticePending'
  BY DEF Answered, Goto, Held, Inv, TypeOK, Functions, NoticePending, Applying
<1>. QED
  BY <1>1, <1>2, <1>3 DEF Inv

(* An answer without values ends a fetch.                                  *)
LEMMA NoNewsStep ==
  ASSUME Inv, NEW t \in Task, NoNews(t)
  PROVE  Inv'
<1>1. TypeOK'
  BY DEF NoNews, Continue, Aborted, Held, Inv, TypeOK, Functions
<1>2. Functions'
  BY DEF NoNews, Continue, Aborted, Held, Inv, Functions
<1>3. NoticePending'
  BY DEF NoNews, Continue, Aborted, Held, Inv, TypeOK, Functions, NoticePending, Applying
<1>. QED
  BY <1>1, <1>2, <1>3 DEF Inv

(* A fetch that fails ends a refresh and pauses a watch.                   *)
LEMMA FetchFailsStep ==
  ASSUME Inv, NEW t \in Task, FetchFails(t)
  PROVE  Inv'
<1>1. TypeOK'
  BY DEF FetchFails, Retry, Held, Fault, Inv, TypeOK, Functions
<1>2. Functions'
  BY DEF FetchFails, Retry, Held, Fault, Inv, Functions
<1>3. NoticePending'
  BY DEF FetchFails, Retry, Held, Fault, Inv, TypeOK, Functions, NoticePending, Applying
<1>. QED
  BY <1>1, <1>2, <1>3 DEF Inv

(* The watch asks again.                                                   *)
LEMMA PauseEndsStep ==
  ASSUME Inv, NEW t \in Task, PauseEnds(t)
  PROVE  Inv'
<1>1. TypeOK'
  BY DEF PauseEnds, Continue, Aborted, Inv, TypeOK, Functions
<1>2. Functions'
  BY DEF PauseEnds, Continue, Aborted, Inv, Functions
<1>3. NoticePending'
  BY DEF PauseEnds, Continue, Aborted, Inv, TypeOK, Functions, NoticePending, Applying
<1>. QED
  BY <1>1, <1>2, <1>3 DEF Inv

(* Values that change are taken over by a task that knows it.              *)
LEMMA ApplyStep ==
  ASSUME Inv, NEW t \in Task, Apply(t)
  PROVE  Inv'
<1>1. TypeOK'
  BY DEF Apply, Goto, Changed, Inv, TypeOK, Functions
<1>2. Functions'
  BY DEF Apply, Goto, Changed, Inv, Functions
<1>3. NoticePending'
  BY DEF Apply, Goto, Changed, Inv, TypeOK, Functions, NoticePending, Applying
<1>. QED
  BY <1>1, <1>2, <1>3 DEF Inv

(* The answer of an aborted loop is dropped.                               *)
LEMMA DiscardStep ==
  ASSUME Inv, NEW t \in Task, Discard(t)
  PROVE  Inv'
<1>1. TypeOK'
  BY DEF Discard, Goto, Aborted, Inv, TypeOK, Functions
<1>2. Functions'
  BY DEF Discard, Goto, Aborted, Inv, Functions
<1>3. NoticePending'
  BY DEF Discard, Goto, Aborted, Inv, TypeOK, Functions, NoticePending, Applying
<1>. QED
  BY <1>1, <1>2, <1>3 DEF Inv

(* The temporary file is cut short.                                        *)
LEMMA OpenStep ==
  ASSUME Inv, NEW t \in Task, Open(t)
  PROVE  Inv'
<1>1. TypeOK'
  BY DEF Open, Goto, Inv, TypeOK, Functions
<1>2. Functions'
  BY DEF Open, Goto, Inv, Functions
<1>3. NoticePending'
  BY DEF Open, Goto, Inv, TypeOK, Functions, NoticePending, Applying
<1>. QED
  BY <1>1, <1>2, <1>3 DEF Inv

(* The file is filled under the name it has by now.                        *)
LEMMA FillStep ==
  ASSUME Inv, NEW t \in Task, Fill(t)
  PROVE  Inv'
<1>1. TypeOK'
  <2>1. /\ disk' \in Commit \cup {None, Missing, Other}
        /\ temp' \in Commit \cup {None, Missing}
        /\ temp # Missing => temp' # Missing
    <3>1. /\ has[t] \in Commit \cup {None} /\ has[t] # Missing
          /\ file[t] \in {"temp", "disk", "gone"}
      BY DEF Inv, TypeOK
    <3>2. CASE file[t] = "temp"
      <4>1. (temp' = has[t] \/ temp' = None) /\ UNCHANGED disk
        BY <3>2 DEF Fill, Filled
      <4>. QED
        BY <4>1, <3>1 DEF Inv, TypeOK
    <3>3. CASE file[t] = "disk"
      <4>1. (disk' = has[t] \/ disk' = None) /\ UNCHANGED temp
        BY <3>3 DEF Fill, Filled
      <4>. QED
        BY <4>1, <3>1 DEF Inv, TypeOK
    <3>4. CASE file[t] = "gone"
      BY <3>4 DEF Fill, Inv, TypeOK
    <3>. QED
      BY <3>1, <3>2, <3>3, <3>4
  <2>2. ASSUME NEW q \in Task
        PROVE  /\ stage'[q] \in {"idle", "fetch", "pause", "answered", "open", "fill", "rename",
                                  "unlink"}
               /\ stage'[q] # "idle" => running'
               /\ has'[q] = has[q] /\ changed'[q] = changed[q] /\ file'[q] = file[q]
    BY DEF Fill, Goto, Inv, TypeOK, Functions
  <2>3. UNCHANGED <<served, server, running, current, told, watching>>
    BY DEF Fill
  <2>. QED
    BY <2>1, <2>2, <2>3 DEF Inv, TypeOK
<1>2. Functions'
  BY DEF Fill, Goto, Filled, Inv, Functions
<1>3. NoticePending'
  BY DEF Fill, Goto, Filled, Inv, TypeOK, Functions, NoticePending, Applying
<1>. QED
  BY <1>1, <1>2, <1>3 DEF Inv

(* The cache file is replaced, then the handlers run.                      *)
LEMMA RenameStep ==
  ASSUME Inv, NEW t \in Task, Rename(t)
  PROVE  Inv'
<1>1. TypeOK'
  BY ZenonT(60) DEF Rename, AfterWrite, Notify, Continue, Aborted, Inv, TypeOK, Functions
<1>2. Functions'
  BY DEF Rename, AfterWrite, Notify, Continue, Aborted, Inv, Functions
<1>3. NoticePending'
  BY DEF Rename, AfterWrite, Notify, Continue, Aborted, Inv, TypeOK, Functions, NoticePending,
         Applying
<1>. QED
  BY <1>1, <1>2, <1>3 DEF Inv

(* The temporary file is gone.                                             *)
LEMMA RenameFailsStep ==
  ASSUME Inv, NEW t \in Task, RenameFails(t)
  PROVE  Inv'
<1>1. TypeOK'
  BY DEF RenameFails, Goto, Inv, TypeOK, Functions
<1>2. Functions'
  BY DEF RenameFails, Goto, Inv, Functions
<1>3. NoticePending'
  BY DEF RenameFails, Goto, Inv, TypeOK, Functions, NoticePending, Applying
<1>. QED
  BY <1>1, <1>2, <1>3 DEF Inv

(* An error of the file does not keep the handlers from running.           *)
LEMMA UnlinkStep ==
  ASSUME Inv, NEW t \in Task, Unlink(t)
  PROVE  Inv'
<1>1. TypeOK'
  BY ZenonT(60) DEF Unlink, AfterWrite, Notify, Continue, Aborted, Inv, TypeOK, Functions
<1>2. Functions'
  BY DEF Unlink, AfterWrite, Notify, Continue, Aborted, Inv, Functions
<1>3. NoticePending'
  BY DEF Unlink, AfterWrite, Notify, Continue, Aborted, Inv, TypeOK, Functions, NoticePending,
         Applying
<1>. QED
  BY <1>1, <1>2, <1>3 DEF Inv

(* Nor does an error of the write.                                         *)
LEMMA WriteFailsStep ==
  ASSUME Inv, NEW t \in Task, WriteFails(t)
  PROVE  Inv'
<1>1. TypeOK'
  BY ZenonT(60) DEF WriteFails, Fault, AfterWrite, Notify, Continue, Aborted, Inv, TypeOK, Functions
<1>2. Functions'
  BY DEF WriteFails, Fault, AfterWrite, Notify, Continue, Aborted, Inv, Functions
<1>3. NoticePending'
  BY DEF WriteFails, Fault, AfterWrite, Notify, Continue, Aborted, Inv, TypeOK, Functions,
         NoticePending, Applying
<1>. QED
  BY <1>1, <1>2, <1>3 DEF Inv

(* Every step of the client, its service and the server preserves it.      *)
LEMMA NextInv == Inv /\ [Next]_vars => Inv'
<1>. SUFFICES ASSUME Inv, [Next]_vars PROVE Inv'
  OBVIOUS
<1>1. CASE \E c \in Commit : Publish(c)
  BY <1>1, PublishStep
<1>2. CASE \E s \in {"refusing", "down"} : Outage(s)
  BY <1>2, OutageStep
<1>3. CASE Recover \/ StopWatching \/ Crash
  BY <1>3, RecoverStep, StopWatchingStep, CrashStep
<1>4. CASE \E r \in Refresher : Load(r) \/ Refresh(r)
  BY <1>4, LoadStep, RefreshStep
<1>5. CASE \E w \in Watcher : Watch(w)
  BY <1>5, WatchStep
<1>6. CASE \E t \in Task : Step(t)
  <2>. PICK t \in Task : Step(t)
    BY <1>6
  <2>1. CASE Answered(t) \/ NoNews(t) \/ FetchFails(t) \/ PauseEnds(t)
    BY <2>1, AnsweredStep, NoNewsStep, FetchFailsStep, PauseEndsStep
  <2>2. CASE Apply(t) \/ Discard(t) \/ Open(t) \/ Fill(t)
    BY <2>2, ApplyStep, DiscardStep, OpenStep, FillStep
  <2>3. CASE Rename(t) \/ RenameFails(t) \/ Unlink(t) \/ WriteFails(t)
    BY <2>3, RenameStep, RenameFailsStep, UnlinkStep, WriteFailsStep
  <2>. QED
    BY <2>1, <2>2, <2>3 DEF Step
<1>7. CASE UNCHANGED vars
  BY <1>7 DEF vars, Inv, TypeOK, Functions, NoticePending
<1>. QED
  BY <1>1, <1>2, <1>3, <1>4, <1>5, <1>6, <1>7 DEF Next

-----------------------------------------------------------------------------
(* The theorems.                                                           *)

(* The invariant holds in every reachable state of a client.               *)
THEOREM Invariance == Spec => []Inv
<1>. QED
  BY InitInv, NextInv, PTL DEF Spec

(* Memory, files and tasks of a client always have the shape they should;  *)
(* a task that is under way belongs to a running service.                  *)
THEOREM TypeCorrect == Spec => []TypeOK
<1>1. Inv => TypeOK
  BY DEF Inv
<1>. QED
  BY <1>1, Invariance, PTL

(* "Registered handlers run when a refresh brings a different commit":     *)
(* once nothing is being applied, the last run of the handlers was for the *)
(* values in use, whatever overlapped and whichever write failed.          *)
THEOREM HandlersAreTold == Spec => []HandlersToldLast
<1>1. Inv => HandlersToldLast
  BY DEF Inv, NoticePending, Applying, HandlersToldLast
<1>. QED
  BY <1>1, Invariance, PTL
=============================================================================
