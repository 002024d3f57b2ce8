----------------------------- MODULE MCLogSink ------------------------------
(* A batch is two lines and the cap three; four lines fill two batches, or *)
(* leave one for the timer.                                                *)
EXTENDS LogSink
=============================================================================
