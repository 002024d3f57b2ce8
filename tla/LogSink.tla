------------------------------ MODULE LogSink -------------------------------
(***************************************************************************)
(* The log sink (src/src/logging/db-sink.ts): two buffers that fill by     *)
(* calls, flushes that overlap, each a batch of lines on its way to the    *)
(* database, and the shutdown of server.ts that closes the sink and exits. *)
(*                                                                         *)
(* A line is a number.  A query may fail at any time: the database is      *)
(* away, or no connection of the pool came free within its timeout.        *)
(***************************************************************************)
EXTENDS Naturals, Sequences, FiniteSets

CONSTANTS
  BatchRows,        \* BATCH_ROWS: lines that start a flush
  MaxBuffered,      \* MAX_BUFFERED: lines a buffer holds at most
  MaxLines          \* bound: lines written to the stream

ASSUME SinkAssumption ==
  /\ BatchRows \in Nat \ {0} /\ MaxBuffered \in Nat /\ MaxLines \in Nat
  /\ BatchRows <= MaxBuffered

VARIABLES
  rows,             \* rows["app"], rows["access"]: the buffers
  timer,            \* whether the flush timer is set
  batches,          \* batches[i]: flush number i; what it carries and where it is
  inserted,         \* lines the database has
  dropped,          \* the counter
  closing,          \* "open", "flushing", "ending" or "exited"
  lines,            \* number of lines written to the stream
  own,              \* the flush that close() awaits, 0 for none
  accepted          \* history: the lines that were buffered

vars == <<rows, timer, batches, inserted, dropped, closing, lines, own, accepted>>

Kind == {"app", "access"}
Empty == [k \in Kind |-> <<>>]

Members(s) == {s[i] : i \in DOMAIN s}
Carried(r) == Members(r["app"]) \cup Members(r["access"])
Count(r) == Len(r["app"]) + Len(r["access"])

Buffered == Carried(rows)
Flying(i) == IF batches[i].at = "app" THEN Carried(batches[i].rows)
             ELSE IF batches[i].at = "access" THEN Members(batches[i].rows["access"]) ELSE {}
InFlight == UNION {Flying(i) : i \in DOMAIN batches}

-----------------------------------------------------------------------------
(* Flushing.                                                               *)

At(r) == IF r["app"] # <<>> THEN "app" ELSE "access"

(* A flush that looks at one buffer before it returns early.               *)
SwapApp(r) ==
  /\ timer' = FALSE
  /\ rows' = IF r["app"] = <<>> THEN r ELSE Empty
  /\ batches' = IF r["app"] = <<>> THEN batches ELSE Append(batches, [rows |-> r, at |-> "app"])

(* Up to its first await a flush is one step: the timer is cleared and the *)
(* buffers are exchanged for empty ones.                                   *)
Swap(r) ==
  /\ timer' = FALSE
  /\ rows' = Empty
  /\ batches' = IF r = Empty THEN batches ELSE Append(batches, [rows |-> r, at |-> At(r)])

Shifted(s) == IF Len(s) >= MaxBuffered THEN Tail(s) ELSE s

(* Flushed only after one more than a batch.                               *)
FullLate(s) == Len(s) > BatchRows
Full(s) == Len(s) >= BatchRows

(* A line is buffered; a full batch is flushed at once, and otherwise the  *)
(* timer sees to it.                                                       *)
Push(k) ==
  /\ closing \in {"open", "flushing"} /\ lines < MaxLines
  /\ lines' = lines + 1
  /\ LET kept == Shifted(rows[k])
         r    == [rows EXCEPT ![k] = Append(kept, lines + 1)]
     IN /\ dropped' = dropped + Len(rows[k]) - Len(kept)
        /\ accepted' = accepted \cup {lines + 1}
        /\ IF Full(r[k]) THEN Swap(r)
           ELSE rows' = r /\ timer' = TRUE /\ UNCHANGED batches
  /\ UNCHANGED <<inserted, closing, own>>

(* A line that is no JSON, or one that comes after the sink was closed.    *)
Malformed ==
  /\ closing # "exited" /\ lines < MaxLines
  /\ lines' = lines + 1
  /\ dropped' = dropped + 1
  /\ UNCHANGED <<rows, timer, batches, inserted, closing, own, accepted>>

PushLate ==
  /\ closing = "ending" /\ lines < MaxLines
  /\ lines' = lines + 1
  /\ UNCHANGED <<rows, timer, batches, inserted, dropped, closing, own, accepted>>

TimerFires ==
  /\ timer /\ closing # "exited"
  /\ Swap(rows)
  /\ UNCHANGED <<inserted, dropped, closing, lines, own, accepted>>

(* insertApp, then insertAccess if there is any.  A statement that is under*)
(* way when the pool ends may still succeed.                               *)
Inserted(i) ==
  /\ batches[i].at \in Kind /\ closing # "exited"
  /\ inserted' = inserted \cup Members(batches[i].rows[batches[i].at])
  /\ batches' = [batches EXCEPT ![i].at =
       IF @ = "app" /\ batches[i].rows["access"] # <<>> THEN "access" ELSE "done"]
  /\ UNCHANGED <<rows, timer, dropped, closing, lines, own, accepted>>

(* What a failed flush counts as dropped: only the lines of the statement  *)
(* that failed; or all that it carried, inserted or not.                   *)
StatementCount(b) == Len(b.rows["access"])
FailureCount(b) == Count(b.rows)

Failed(i) ==
  /\ batches[i].at \in Kind /\ closing # "exited"
  /\ dropped' = dropped + FailureCount(batches[i])
  /\ batches' = [batches EXCEPT ![i].at = "done"]
  /\ UNCHANGED <<rows, timer, inserted, closing, lines, own, accepted>>

-----------------------------------------------------------------------------
(* Shutdown: close() awaits a flush of its own, refuses lines from then on,*)
(* ends the pool, and the process exits.                                   *)

Close ==
  /\ closing = "open"
  /\ closing' = "flushing"
  /\ Swap(rows)
  /\ own' = IF rows = Empty THEN 0 ELSE Len(batches')
  /\ UNCHANGED <<inserted, dropped, lines, accepted>>

End ==
  /\ closing = "flushing" /\ (own # 0 => batches[own].at = "done")
  /\ closing' = "ending"
  /\ UNCHANGED <<rows, timer, batches, inserted, dropped, lines, own, accepted>>

Exit ==
  /\ closing = "ending"
  /\ closing' = "exited"
  /\ UNCHANGED <<rows, timer, batches, inserted, dropped, lines, own, accepted>>

-----------------------------------------------------------------------------
Init ==
  /\ rows = Empty /\ timer = FALSE /\ batches = <<>> /\ inserted = {} /\ dropped = 0
  /\ closing = "open" /\ lines = 0 /\ own = 0 /\ accepted = {}

Answer(i) == Inserted(i) \/ Failed(i)

Next ==
  \/ Malformed \/ PushLate \/ TimerFires \/ Close \/ End \/ Exit
  \/ \E k \in Kind : Push(k)
  \/ \E i \in DOMAIN batches : Answer(i)

(* The event loop fires a timer that is due, and a query ends: no          *)
(* connection came free within connectionTimeoutMillis, or the database    *)
(* answers or breaks off.  The code sets no limit on a statement, so that  *)
(* one which has its connection ends rests on the database.                *)
Fairness ==
  /\ WF_vars(TimerFires)
  /\ \A i \in 1..MaxLines : WF_vars(i \in DOMAIN batches /\ Answer(i))

Spec == Init /\ [][Next]_vars /\ Fairness

-----------------------------------------------------------------------------
TypeOK ==
  /\ \A k \in Kind : rows[k] \in Seq(1..MaxLines) /\ Len(rows[k]) < BatchRows
  /\ timer \in BOOLEAN
  /\ \A i \in DOMAIN batches :
       batches[i].at \in Kind \cup {"done"} /\ Count(batches[i].rows) \in 1..MaxLines
  /\ inserted \subseteq accepted /\ accepted \subseteq 1..lines
  /\ lines \in 0..MaxLines /\ dropped \in 0..MaxLines
  /\ closing \in {"open", "flushing", "ending", "exited"} /\ own \in 0..Len(batches)

(* Every line that was buffered and will not reach the database is counted *)
(* as dropped, however flushes overlap and whichever statement fails, as   *)
(* long as the process runs.                                               *)
CountCoversLoss ==
  closing # "exited" =>
    Cardinality(accepted \ (Buffered \cup InFlight \cup inserted)) <= dropped

(* No line is left in a buffer without a timer, nor in a batch: while the  *)
(* process runs, every one is inserted or given up in the end.             *)
LinesSettle ==
  \A l \in 1..MaxLines :
    l \in Buffered \cup InFlight ~> l \notin Buffered \cup InFlight \/ closing = "exited"
=============================================================================
