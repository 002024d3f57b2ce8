----------------------------- MODULE MCDBEngine -----------------------------
(* Small instances of DBEngine: two documents, two contents and one that   *)
(* validators reject.                                                      *)
EXTENDS DBEngine, TLC

CONSTANTS r1, r2, r3, a, b, x, none

MCPath == {1, 2}

Write(W, f, cas, checks, coll) ==
  [ paths |-> W, content |-> [p \in MCPath |-> f[p]], cas |-> cas, checks |-> checks,
    collection |-> coll ]

(* A promotion (two documents under expected ETags), a deletion that read  *)
(* the other document, a creation that relies on the set of documents.     *)
CheckedBatches ==
  { Write({1, 2}, <<b, a>>,    {1, 2}, {},  FALSE),
    Write({1},    <<none, a>>, {1},    {2}, FALSE),
    Write({2},    <<b, b>>,    {2},    {},  TRUE) }

(* The same, and writes with no expected ETag, and a rejected content.     *)
AllBatches ==
  CheckedBatches \cup
  { Write({1},    <<a, a>>,    {},     {},  FALSE),
    Write({2},    <<a, x>>,    {},     {},  FALSE) }

MCInitialStores == { <<a, none>> }

Symmetric == Permutations(Request)
=============================================================================
