--------------------------- MODULE MCConfigClient ---------------------------
(* One refresh beside a watch, and a second loop for a watch that is       *)
(* stopped and started again.                                              *)
EXTENDS ConfigClient
=============================================================================
