---------------------------- MODULE MCSchemaForm ----------------------------
(* One row with every combination of its fields, alone or beside a second  *)
(* row of the same or of another name.                                     *)
EXTENDS SchemaForm

MCNames     == {"TTL", "URL", "ttl"}
MCGoodNames == {"TTL", "URL"}

Bounds == {Blank, Digits(2), Digits(3), Digits(6), Word}

First ==
  [name : {"TTL", "ttl"}, type : KeyTypes \cup {"float"}, secret : BOOLEAN,
   values : {{}, {Word}, {Word, Http}}, min : Bounds, max : Bounds,
   default : {Blank, Word, Http, File, Cipher, Pair, Digits(2), Digits(3), Digits(8)},
   tick : BOOLEAN]

(* Fields the form has no use for vary for one value of the others.        *)
Sensible ==
  {r \in First :
     /\ r.tick => r.type = "bool"
     /\ r.name = "ttl" => r.min = Blank /\ r.max = Blank /\ r.values = {}
     /\ r.type # "int" => r.max = Blank /\ r.min \in {Blank, Digits(2)}}

Second(n) ==
  [name |-> n, type |-> "int", secret |-> FALSE, values |-> {}, min |-> Blank,
   max |-> Blank, default |-> Digits(2), tick |-> FALSE]

MCRows ==
  {<<r>> : r \in Sensible}
  \cup {<<r, Second(n)>> :
          r \in {s \in Sensible : s.min = Blank /\ s.max = Blank}, n \in MCGoodNames}

MCStored ==
  {Blank, Word, Http, File, Cipher, Pair, Bool(TRUE), Bool(FALSE), Empty, One, Two,
   CommaIn, BlankIn, Digits(2)} \cup {Num(n) : n \in 0..8}
=============================================================================
