----------------------------- MODULE Documents ------------------------------
(***************************************************************************)
(* The data of the document store (src/src/store/data-layer.ts): paths,    *)
(* contents, and the batch of mutations a caller hands to writeMany().     *)
(***************************************************************************)
EXTENDS Naturals

CONSTANTS
  Request,          \* callers of the store, each making one write
  Path,             \* document paths, ranked by name
  Content,          \* document contents; an ETag is the content it hashes
  Absent,           \* the value of a path that has no file
  Invalid,          \* contents a validator rejects
  Collection,       \* the paths a collection precondition ranges over
  Batches,          \* the batches of mutations a caller may submit
  InitialStores     \* the stores a run may start from

Value == Content \cup {Absent}

(***************************************************************************)
(* A batch: the paths it writes, the value it gives each (Absent deletes), *)
(* the paths of those that carry an expected ETag, the paths it only read  *)
(* and wants unchanged, and whether the set of existing files of the       *)
(* collection must be the one it saw.                                      *)
(***************************************************************************)
BatchType ==
  [ paths      : SUBSET Path,
    content    : [Path -> Value],
    cas        : SUBSET Path,
    checks     : SUBSET Path,
    collection : BOOLEAN ]

NoBatch ==
  [ paths |-> {}, content |-> [p \in Path |-> Absent], cas |-> {}, checks |-> {},
    collection |-> FALSE ]

ASSUME DocumentAssumption ==
  /\ Path \subseteq Nat
  /\ Absent \notin Content
  /\ Collection \subseteq Path
  /\ InitialStores \subseteq [Path -> Value]
  /\ \A b \in Batches : b \in BatchType /\ b.paths # {} /\ b.cas \subseteq b.paths

Existing(s) == {p \in Collection : s[p] # Absent}

Overlay(s, b) == [p \in Path |-> IF p \in b.paths THEN b.content[p] ELSE s[p]]

Accepted(b) == \A p \in b.paths : b.content[p] \notin Invalid
=============================================================================
