------------------------- MODULE ServingStateProofs -------------------------
(***************************************************************************)
(* Theorems about ServingState, for any number of routes, consumers and    *)
(* revisions, and any number of deaths and failures.                       *)
(***************************************************************************)
EXTENDS ServingState, TLAPS

-----------------------------------------------------------------------------
(* The inductive invariant.                                                *)

Shapes ==
  /\ DOMAIN stage = Reloader /\ DOMAIN file = Reloader
  /\ got \in [Reloader -> [commit : 0..rev, flags : 0..rev]]
  /\ cache \in [commit : 0..rev, flags : 0..rev]
  /\ DOMAIN request = Consumer /\ DOMAIN since = Consumer
  /\ DOMAIN seen = Consumer /\ DOMAIN told = Consumer

(* No file is ahead of the store.                                          *)
FilesInv == disk <= rev /\ temp <= rev

(* What a reload is about to install has flags of its commit or later.     *)
ReloadInv == \A r \in Reloader : stage[r] = "install" => got[r].flags >= got[r].commit

Inv == TypeOK /\ Shapes /\ FilesInv /\ ReloadInv /\ FlagsNotOlder /\ NoMissedWake

USE BoundsAssumption, WriterAssumption
    DEF store, snapshot, state, reloads, consumers, counts,
        Boot, Poll, Reloader, Revision, None, Missing, Never

-----------------------------------------------------------------------------
(* The invariant holds at first, and every step preserves it.              *)

(* Before the first boot nothing is served, and no file is ahead.          *)
LEMMA InitInv == Init => Inv
<1>. SUFFICES ASSUME Init PROVE Inv
  OBVIOUS
<1>1. TypeOK
  BY DEF Init, TypeOK, Idle
<1>2. Shapes /\ FilesInv
  BY DEF Init, Shapes, FilesInv, Idle
<1>3. ReloadInv /\ FlagsNotOlder /\ NoMissedWake
  BY DEF Init, ReloadInv, FlagsNotOlder, NoMissedWake, Idle
<1>. QED
  BY <1>1, <1>2, <1>3 DEF Inv

(* The store moves on under reloads and files that are behind it.          *)
LEMMA WriteStep ==
  ASSUME Inv, NEW w \in Writer, NEW kind, Write(w, kind)
  PROVE  Inv'
<1>1. TypeOK'
  BY DEF Write, Goto, Inv, TypeOK, Shapes, FilesInv
<1>2. Shapes'
  BY DEF Write, Goto, Inv, TypeOK, Shapes, FilesInv
<1>3. FilesInv'
  BY DEF Write, Goto, Inv, TypeOK, Shapes, FilesInv
<1>4. ReloadInv'
  BY DEF Write, Goto, Inv, TypeOK, Shapes, ReloadInv
<1>5. FlagsNotOlder'
  BY DEF Write, Goto, Inv, TypeOK, Shapes, FilesInv, ReloadInv, FlagsNotOlder
<1>6. NoMissedWake'
  BY DEF Write, Goto, Inv, TypeOK, Shapes, NoMissedWake
<1>. QED
  BY <1>1, <1>2, <1>3, <1>4, <1>5, <1>6 DEF Inv

(* The poll begins a reload.                                               *)
LEMMA PollTickStep ==
  ASSUME Inv, PollTick
  PROVE  Inv'
<1>1. TypeOK'
  BY DEF PollTick, Goto, Inv, TypeOK, Shapes, FilesInv
<1>2. Shapes'
  BY DEF PollTick, Goto, Inv, TypeOK, Shapes, FilesInv
<1>3. FilesInv'
  BY DEF PollTick, Goto, Inv, TypeOK, Shapes, FilesInv
<1>4. ReloadInv'
  BY DEF PollTick, Goto, Inv, TypeOK, Shapes, ReloadInv
<1>5. FlagsNotOlder'
  BY DEF PollTick, Goto, Inv, TypeOK, Shapes, FilesInv, ReloadInv, FlagsNotOlder
<1>6. NoMissedWake'
  BY DEF PollTick, Goto, Inv, TypeOK, Shapes, NoMissedWake
<1>. QED
  BY <1>1, <1>2, <1>3, <1>4, <1>5, <1>6 DEF Inv

(* Grants are read.                                                        *)
LEMMA ReloadRegistryStep ==
  ASSUME Inv, NEW r \in Reloader, ReloadRegistry(r)
  PROVE  Inv'
<1>1. TypeOK'
  BY DEF ReloadRegistry, Goto, Fault, Inv, TypeOK, Shapes, FilesInv
<1>2. Shapes'
  BY DEF ReloadRegistry, Goto, Fault, Inv, TypeOK, Shapes, FilesInv
<1>3. FilesInv'
  BY DEF ReloadRegistry, Goto, Fault, Inv, TypeOK, Shapes, FilesInv
<1>4. ReloadInv'
  BY DEF ReloadRegistry, Goto, Fault, Inv, TypeOK, Shapes, ReloadInv
<1>5. FlagsNotOlder'
  BY DEF ReloadRegistry, Goto, Fault, Inv, TypeOK, Shapes, FilesInv, ReloadInv, FlagsNotOlder
<1>6. NoMissedWake'
  BY DEF ReloadRegistry, Goto, Fault, Inv, TypeOK, Shapes, NoMissedWake
<1>. QED
  BY <1>1, <1>2, <1>3, <1>4, <1>5, <1>6 DEF Inv

(* Schemas are read.                                                       *)
LEMMA ReloadSchemasStep ==
  ASSUME Inv, NEW r \in Reloader, ReloadSchemas(r)
  PROVE  Inv'
<1>1. TypeOK'
  BY DEF ReloadSchemas, Goto, Fault, Inv, TypeOK, Shapes, FilesInv
<1>2. Shapes'
  BY DEF ReloadSchemas, Goto, Fault, Inv, TypeOK, Shapes, FilesInv
<1>3. FilesInv'
  BY DEF ReloadSchemas, Goto, Fault, Inv, TypeOK, Shapes, FilesInv
<1>4. ReloadInv'
  BY DEF ReloadSchemas, Goto, Fault, Inv, TypeOK, Shapes, ReloadInv
<1>5. FlagsNotOlder'
  BY DEF ReloadSchemas, Goto, Fault, Inv, TypeOK, Shapes, FilesInv, ReloadInv, FlagsNotOlder
<1>6. NoMissedWake'
  BY DEF ReloadSchemas, Goto, Fault, Inv, TypeOK, Shapes, NoMissedWake
<1>. QED
  BY <1>1, <1>2, <1>3, <1>4, <1>5, <1>6 DEF Inv

(* Values are those of the present revision.                               *)
LEMMA ReadSourcesStep ==
  ASSUME Inv, NEW r \in Reloader, ReadSources(r)
  PROVE  Inv'
<1>1. TypeOK'
  BY DEF ReadSources, Goto, Inv, TypeOK, Shapes, FilesInv
<1>2. Shapes'
  BY DEF ReadSources, Goto, Inv, TypeOK, Shapes, FilesInv
<1>3. FilesInv'
  BY DEF ReadSources, Goto, Inv, TypeOK, Shapes, FilesInv
<1>4. ReloadInv'
  BY DEF ReadSources, Goto, Inv, TypeOK, Shapes, ReloadInv
<1>5. FlagsNotOlder'
  BY DEF ReadSources, Goto, Inv, TypeOK, Shapes, FilesInv, ReloadInv, FlagsNotOlder
<1>6. NoMissedWake'
  BY DEF ReadSources, Goto, Inv, TypeOK, Shapes, NoMissedWake
<1>. QED
  BY <1>1, <1>2, <1>3, <1>4, <1>5, <1>6 DEF Inv

(* Flags read after the values are no older.                               *)
LEMMA ReadFlagsStep ==
  ASSUME Inv, NEW r \in Reloader, ReadFlags(r)
  PROVE  Inv'
<1>1. TypeOK'
  BY DEF ReadFlags, Goto, Inv, TypeOK, Shapes, FilesInv
<1>2. Shapes'
  BY DEF ReadFlags, Goto, Inv, TypeOK, Shapes, FilesInv
<1>3. FilesInv'
  BY DEF ReadFlags, Goto, Inv, TypeOK, Shapes, FilesInv
<1>4. ReloadInv'
  BY DEF ReadFlags, Goto, Inv, TypeOK, Shapes, ReloadInv
<1>5. FlagsNotOlder'
  BY DEF ReadFlags, Goto, Inv, TypeOK, Shapes, FilesInv, ReloadInv, FlagsNotOlder
<1>6. NoMissedWake'
  BY DEF ReadFlags, Goto, Inv, TypeOK, Shapes, NoMissedWake
<1>. QED
  BY <1>1, <1>2, <1>3, <1>4, <1>5, <1>6 DEF Inv

(* The cache moves, and whoever is held on another commit is woken.        *)
LEMMA InstallStep ==
  ASSUME Inv, NEW r \in Reloader, Install(r)
  PROVE  Inv'
<1>1. TypeOK'
  BY DEF Install, Goto, Wake, Inv, TypeOK, Shapes, FilesInv
<1>2. Shapes'
  BY DEF Install, Goto, Wake, Inv, TypeOK, Shapes, FilesInv
<1>3. FilesInv'
  BY DEF Install, Goto, Wake, Inv, TypeOK, Shapes, FilesInv
<1>4. ReloadInv'
  BY DEF Install, Goto, Wake, Inv, TypeOK, Shapes, ReloadInv
<1>5. FlagsNotOlder'
  BY DEF Install, Goto, Wake, Inv, TypeOK, Shapes, FilesInv, ReloadInv, FlagsNotOlder
<1>6. NoMissedWake'
  BY DEF Install, Goto, Wake, Inv, TypeOK, Shapes, NoMissedWake
<1>. QED
  BY <1>1, <1>2, <1>3, <1>4, <1>5, <1>6 DEF Inv

(* The temporary file is cut short.                                        *)
LEMMA OpenStep ==
  ASSUME Inv, NEW r \in Reloader, Open(r)
  PROVE  Inv'
<1>1. TypeOK'
  BY DEF Open, Goto, Inv, TypeOK, Shapes, FilesInv
<1>2. Shapes'
  BY DEF Open, Goto, Inv, TypeOK, Shapes, FilesInv
<1>3. FilesInv'
  BY DEF Open, Goto, Inv, TypeOK, Shapes, FilesInv
<1>4. ReloadInv'
  BY DEF Open, Goto, Inv, TypeOK, Shapes, ReloadInv
<1>5. FlagsNotOlder'
  BY DEF Open, Goto, Inv, TypeOK, Shapes, FilesInv, ReloadInv, FlagsNotOlder
<1>6. NoMissedWake'
  BY DEF Open, Goto, Inv, TypeOK, Shapes, NoMissedWake
<1>. QED
  BY <1>1, <1>2, <1>3, <1>4, <1>5, <1>6 DEF Inv

(* The file is filled under the name it has by now.                        *)
LEMMA FillStep ==
  ASSUME Inv, NEW r \in Reloader, Fill(r)
  PROVE  Inv'
<1>1. /\ {disk', temp'} \subseteq Revision \cup {None, Missing}
      /\ disk' <= rev /\ temp' <= rev
  <2>1. /\ got[r].commit \in Revision \cup {None} /\ got[r].commit <= rev
        /\ {disk, temp} \subseteq Revision \cup {None, Missing} /\ rev \in Revision
        /\ disk <= rev /\ temp <= rev
        /\ file[r] \in {"temp", "disk", "gone"}
    BY DEF Inv, TypeOK, Shapes, FilesInv
  <2>2. CASE file[r] = "temp"
    <3>1. (temp' = got[r].commit \/ temp' = None) /\ UNCHANGED disk
      BY <2>2 DEF Fill, Filled
    <3>. QED
      BY <2>1, <3>1
  <2>3. CASE file[r] = "disk"
    <3>1. (disk' = got[r].commit \/ disk' = None) /\ UNCHANGED temp
      BY <2>3 DEF Fill, Filled
    <3>. QED
      BY <2>1, <3>1
  <2>4. CASE file[r] = "gone"
    BY <2>1, <2>4 DEF Fill
  <2>. QED
    BY <2>1, <2>2, <2>3, <2>4
<1>2. /\ TypeOK'
      /\ FilesInv'
  <2>1. UNCHANGED <<store, mode, state, cache, got, file, consumers, counts>>
    BY DEF Fill
  <2>2. ASSUME NEW q \in Reloader
        PROVE  /\ stage'[q] \in {"idle", "registry", "schemas", "sources", "flags", "install",
                                  "open", "fill", "rename", "unlink"}
               /\ stage'[q] = "idle" <=> stage[q] = "idle"
    BY DEF Fill, Goto, Inv, TypeOK, Shapes
  <2>. QED
    BY <1>1, <2>1, <2>2 DEF Inv, TypeOK, FilesInv
<1>3. Shapes'
  BY DEF Fill, Goto, Inv, Shapes
<1>4. ReloadInv'
  BY DEF Fill, Goto, Inv, Shapes, ReloadInv
<1>5. FlagsNotOlder' /\ NoMissedWake'
  BY DEF Fill, Inv, FlagsNotOlder, NoMissedWake
<1>. QED
  BY <1>2, <1>3, <1>4, <1>5 DEF Inv

(* A snapshot is replaced; after the reload of the boot the process is up. *)
LEMMA RenameStep ==
  ASSUME Inv, NEW r \in Reloader, Rename(r)
  PROVE  Inv'
<1>1. TypeOK'
  BY DEF Rename, Renamed, Done, Inv, TypeOK, Shapes, FilesInv
<1>2. Shapes'
  BY DEF Rename, Renamed, Done, Inv, TypeOK, Shapes, FilesInv
<1>3. FilesInv'
  BY DEF Rename, Renamed, Done, Inv, TypeOK, Shapes, FilesInv
<1>4. ReloadInv'
  BY DEF Rename, Renamed, Done, Inv, TypeOK, Shapes, ReloadInv
<1>5. FlagsNotOlder'
  BY DEF Rename, Renamed, Done, Inv, TypeOK, Shapes, FilesInv, ReloadInv, FlagsNotOlder
<1>6. NoMissedWake'
  BY DEF Rename, Renamed, Done, Inv, TypeOK, Shapes, NoMissedWake
<1>. QED
  BY <1>1, <1>2, <1>3, <1>4, <1>5, <1>6 DEF Inv

(* The temporary file is gone.                                             *)
LEMMA RenameFailsStep ==
  ASSUME Inv, NEW r \in Reloader, RenameFails(r)
  PROVE  Inv'
<1>1. TypeOK'
  BY DEF RenameFails, Goto, Inv, TypeOK, Shapes, FilesInv
<1>2. Shapes'
  BY DEF RenameFails, Goto, Inv, TypeOK, Shapes, FilesInv
<1>3. FilesInv'
  BY DEF RenameFails, Goto, Inv, TypeOK, Shapes, FilesInv
<1>4. ReloadInv'
  BY DEF RenameFails, Goto, Inv, TypeOK, Shapes, ReloadInv
<1>5. FlagsNotOlder'
  BY DEF RenameFails, Goto, Inv, TypeOK, Shapes, FilesInv, ReloadInv, FlagsNotOlder
<1>6. NoMissedWake'
  BY DEF RenameFails, Goto, Inv, TypeOK, Shapes, NoMissedWake
<1>. QED
  BY <1>1, <1>2, <1>3, <1>4, <1>5, <1>6 DEF Inv

(* The error of a lost rename ends a reload, or the boot.                  *)
LEMMA UnlinkStep ==
  ASSUME Inv, NEW r \in Reloader, Unlink(r)
  PROVE  Inv'
<1>1. TypeOK'
  BY DEF Unlink, Throw, Gone, Idle, Inv, TypeOK, Shapes, FilesInv
<1>2. Shapes'
  BY DEF Unlink, Throw, Gone, Idle, Inv, TypeOK, Shapes, FilesInv
<1>3. FilesInv'
  BY DEF Unlink, Throw, Gone, Idle, Inv, TypeOK, Shapes, FilesInv
<1>4. ReloadInv'
  BY DEF Unlink, Throw, Gone, Idle, Inv, TypeOK, Shapes, ReloadInv
<1>5. FlagsNotOlder'
  BY DEF Unlink, Throw, Gone, Idle, Inv, TypeOK, Shapes, FilesInv, ReloadInv, FlagsNotOlder
<1>6. NoMissedWake'
  BY DEF Unlink, Throw, Gone, Idle, Inv, TypeOK, Shapes, NoMissedWake
<1>. QED
  BY <1>1, <1>2, <1>3, <1>4, <1>5, <1>6 DEF Inv

(* A value that does not decrypt ends a reload, or the boot.               *)
LEMMA ResolveFailsStep ==
  ASSUME Inv, NEW r \in Reloader, ResolveFails(r)
  PROVE  Inv'
<1>1. TypeOK'
  BY DEF ResolveFails, Throw, Gone, Idle, Fault, Inv, TypeOK, Shapes, FilesInv
<1>2. Shapes'
  BY DEF ResolveFails, Throw, Gone, Idle, Fault, Inv, TypeOK, Shapes, FilesInv
<1>3. FilesInv'
  BY DEF ResolveFails, Throw, Gone, Idle, Fault, Inv, TypeOK, Shapes, FilesInv
<1>4. ReloadInv'
  BY DEF ResolveFails, Throw, Gone, Idle, Fault, Inv, TypeOK, Shapes, ReloadInv
<1>5. FlagsNotOlder'
  BY DEF ResolveFails, Throw, Gone, Idle, Fault, Inv, TypeOK, Shapes, FilesInv, ReloadInv,
         FlagsNotOlder
<1>6. NoMissedWake'
  BY DEF ResolveFails, Throw, Gone, Idle, Fault, Inv, TypeOK, Shapes, NoMissedWake
<1>. QED
  BY <1>1, <1>2, <1>3, <1>4, <1>5, <1>6 DEF Inv

(* A boot from the store serves its revision.                              *)
LEMMA BootFromStoreStep ==
  ASSUME Inv, BootFromStore
  PROVE  Inv'
<1>1. TypeOK'
  BY DEF BootFromStore, Inv, TypeOK, Shapes, FilesInv
<1>2. Shapes'
  BY DEF BootFromStore, Inv, TypeOK, Shapes, FilesInv
<1>3. FilesInv'
  BY DEF BootFromStore, Inv, TypeOK, Shapes, FilesInv
<1>4. ReloadInv'
  BY DEF BootFromStore, Inv, TypeOK, Shapes, ReloadInv
<1>5. FlagsNotOlder'
  BY DEF BootFromStore, Inv, TypeOK, Shapes, FilesInv, ReloadInv, FlagsNotOlder
<1>6. NoMissedWake'
  BY DEF BootFromStore, Inv, TypeOK, Shapes, NoMissedWake
<1>. QED
  BY <1>1, <1>2, <1>3, <1>4, <1>5, <1>6 DEF Inv

(* A boot from the snapshot serves what the file holds.                    *)
LEMMA BootFromSnapshotStep ==
  ASSUME Inv, BootFromSnapshot
  PROVE  Inv'
<1>1. TypeOK'
  BY DEF BootFromSnapshot, Fault, Inv, TypeOK, Shapes, FilesInv
<1>2. Shapes'
  BY DEF BootFromSnapshot, Fault, Inv, TypeOK, Shapes, FilesInv
<1>3. FilesInv'
  BY DEF BootFromSnapshot, Fault, Inv, TypeOK, Shapes, FilesInv
<1>4. ReloadInv'
  BY DEF BootFromSnapshot, Fault, Inv, TypeOK, Shapes, ReloadInv
<1>5. FlagsNotOlder'
  BY DEF BootFromSnapshot, Fault, Inv, TypeOK, Shapes, FilesInv, ReloadInv, FlagsNotOlder
<1>6. NoMissedWake'
  BY DEF BootFromSnapshot, Fault, Inv, TypeOK, Shapes, NoMissedWake
<1>. QED
  BY <1>1, <1>2, <1>3, <1>4, <1>5, <1>6 DEF Inv

(* The process dies with all reads and reloads.                            *)
LEMMA CrashStep ==
  ASSUME Inv, Crash
  PROVE  Inv'
<1>1. TypeOK'
  BY DEF Crash, Gone, Idle, Inv, TypeOK, Shapes, FilesInv
<1>2. Shapes'
  BY DEF Crash, Gone, Idle, Inv, TypeOK, Shapes, FilesInv
<1>3. FilesInv'
  BY DEF Crash, Gone, Idle, Inv, TypeOK, Shapes, FilesInv
<1>4. ReloadInv'
  BY DEF Crash, Gone, Idle, Inv, TypeOK, Shapes, ReloadInv
<1>5. FlagsNotOlder'
  BY DEF Crash, Gone, Idle, Inv, TypeOK, Shapes, FilesInv, ReloadInv, FlagsNotOlder
<1>6. NoMissedWake'
  BY DEF Crash, Gone, Idle, Inv, TypeOK, Shapes, NoMissedWake
<1>. QED
  BY <1>1, <1>2, <1>3, <1>4, <1>5, <1>6 DEF Inv

(* A consumer is held at the commit it has only while that is served.      *)
LEMMA AskStep ==
  ASSUME Inv, NEW c \in Consumer, Ask(c)
  PROVE  Inv'
<1>1. TypeOK'
  BY DEF Ask, Answer, Authorized, Inv, TypeOK, Shapes, FilesInv
<1>2. Shapes'
  BY DEF Ask, Answer, Authorized, Inv, TypeOK, Shapes, FilesInv
<1>3. FilesInv'
  BY DEF Ask, Answer, Authorized, Inv, TypeOK, Shapes, FilesInv
<1>4. ReloadInv'
  BY DEF Ask, Answer, Authorized, Inv, TypeOK, Shapes, ReloadInv
<1>5. FlagsNotOlder'
  BY DEF Ask, Answer, Authorized, Inv, TypeOK, Shapes, FilesInv, ReloadInv, FlagsNotOlder
<1>6. NoMissedWake'
  BY DEF Ask, Answer, Authorized, Inv, TypeOK, Shapes, NoMissedWake
<1>. QED
  BY <1>1, <1>2, <1>3, <1>4, <1>5, <1>6 DEF Inv

(* The hold ends by itself.                                                *)
LEMMA WaitExpiresStep ==
  ASSUME Inv, NEW c \in Consumer, WaitExpires(c)
  PROVE  Inv'
<1>1. TypeOK'
  BY DEF WaitExpires, Inv, TypeOK, Shapes, FilesInv
<1>2. Shapes'
  BY DEF WaitExpires, Inv, TypeOK, Shapes, FilesInv
<1>3. FilesInv'
  BY DEF WaitExpires, Inv, TypeOK, Shapes, FilesInv
<1>4. ReloadInv'
  BY DEF WaitExpires, Inv, TypeOK, Shapes, ReloadInv
<1>5. FlagsNotOlder'
  BY DEF WaitExpires, Inv, TypeOK, Shapes, FilesInv, ReloadInv, FlagsNotOlder
<1>6. NoMissedWake'
  BY DEF WaitExpires, Inv, TypeOK, Shapes, NoMissedWake
<1>. QED
  BY <1>1, <1>2, <1>3, <1>4, <1>5, <1>6 DEF Inv

(* A read that was woken is answered.                                      *)
LEMMA ResumeStep ==
  ASSUME Inv, NEW c \in Consumer, Resume(c)
  PROVE  Inv'
<1>1. TypeOK'
  BY DEF Resume, Answer, Authorized, Inv, TypeOK, Shapes, FilesInv
<1>2. Shapes'
  BY DEF Resume, Answer, Authorized, Inv, TypeOK, Shapes, FilesInv
<1>3. FilesInv'
  BY DEF Resume, Answer, Authorized, Inv, TypeOK, Shapes, FilesInv
<1>4. ReloadInv'
  BY DEF Resume, Answer, Authorized, Inv, TypeOK, Shapes, ReloadInv
<1>5. FlagsNotOlder'
  BY DEF Resume, Answer, Authorized, Inv, TypeOK, Shapes, FilesInv, ReloadInv, FlagsNotOlder
<1>6. NoMissedWake'
  BY DEF Resume, Answer, Authorized, Inv, TypeOK, Shapes, NoMissedWake
<1>. QED
  BY <1>1, <1>2, <1>3, <1>4, <1>5, <1>6 DEF Inv

(* Every step of the process, its boots and its consumers preserves it.    *)
LEMMA NextInv == Inv /\ [Next]_vars => Inv'
<1>. SUFFICES ASSUME Inv, [Next]_vars PROVE Inv'
  OBVIOUS
<1>1. CASE \E w \in Writer, kind \in {"values", "revoke"} : Write(w, kind)
  BY <1>1, WriteStep
<1>2. CASE PollTick \/ BootFromStore \/ BootFromSnapshot \/ Crash
  BY <1>2, PollTickStep, BootFromStoreStep, BootFromSnapshotStep, CrashStep
<1>3. CASE \E r \in Reloader : Reload(r)
  <2>. PICK r \in Reloader : Reload(r)
    BY <1>3
  <2>1. CASE \/ ReloadRegistry(r) \/ ReloadSchemas(r) \/ ReadSources(r) \/ ReadFlags(r)
             \/ Install(r)
    BY <2>1, ReloadRegistryStep, ReloadSchemasStep, ReadSourcesStep, ReadFlagsStep,
       InstallStep
  <2>2. CASE \/ Open(r) \/ Fill(r) \/ Rename(r) \/ RenameFails(r) \/ Unlink(r)
             \/ ResolveFails(r)
    BY <2>2, OpenStep, FillStep, RenameStep, RenameFailsStep, UnlinkStep, ResolveFailsStep
  <2>. QED
    BY <2>1, <2>2 DEF Reload
<1>4. CASE \E c \in Consumer : Ask(c) \/ WaitExpires(c) \/ Resume(c)
  BY <1>4, AskStep, WaitExpiresStep, ResumeStep
<1>5. CASE UNCHANGED vars
  BY <1>5 DEF vars, Inv, TypeOK, Shapes, FilesInv, ReloadInv, FlagsNotOlder, NoMissedWake
<1>. QED
  BY <1>1, <1>2, <1>3, <1>4, <1>5 DEF Next

-----------------------------------------------------------------------------
(* The theorems.                                                           *)

(* The invariant holds in every reachable state of the process.            *)
THEOREM Invariance == Spec => []Inv
<1>. QED
  BY InitInv, NextInv, PTL DEF Spec

(* Revisions, files, reloads and held reads always have the shape they     *)
(* should, and only the boot runs while the process is not up.             *)
THEOREM TypeCorrect == Spec => []TypeOK
<1>1. Inv => TypeOK
  BY DEF Inv
<1>. QED
  BY <1>1, Invariance, PTL

(* onCache reads the flags after the values: the commit that is served     *)
(* never has flags older than itself, although overlapping reloads install *)
(* in any order and a boot may fall back to the snapshot.                  *)
THEOREM FlagsFollowTheCommit == Spec => []FlagsNotOlder
<1>1. Inv => FlagsNotOlder
  BY DEF Inv
<1>. QED
  BY <1>1, Invariance, PTL

(* waitForChange: a consumer is held only at the commit that is served, so *)
(* that no change passes it by.                                            *)
THEOREM NobodyIsHeldBehind == Spec => []NoMissedWake
<1>1. Inv => NoMissedWake
  BY DEF Inv
<1>. QED
  BY <1>1, Invariance, PTL

(* internal.ts asks for the grant before and after the hold: no step hands *)
(* out values or schemas without the grant of that moment.                 *)
THEOREM AnswersAreGranted == Spec => HoldIsNoWayAround
<1>1. ASSUME Inv, [Next]_vars, NEW c \in Consumer, seen'[c] # seen[c] \/ told'[c] # told[c]
      PROVE  Authorized
  <2>1. CASE \E q \in Consumer : Ask(q)
    BY <2>1 DEF Ask
  <2>2. CASE \E q \in Consumer : Resume(q)
    BY <1>1, <2>2 DEF Resume
  <2>3. CASE UNCHANGED <<seen, told>>
    BY <1>1, <2>3
  <2>4. \/ \E q \in Consumer : Ask(q) \/ Resume(q)
        \/ UNCHANGED <<seen, told>>
    BY <1>1, ZenonT(60)
    DEF Next, vars, Write, PollTick, Reload, ReloadRegistry, ReloadSchemas, ReadSources,
       ReadFlags, Install, Open, Fill, Rename, RenameFails, Unlink, ResolveFails, Throw, Gone,
       BootFromStore, BootFromSnapshot, Crash, WaitExpires
  <2>. QED
    BY <2>1, <2>2, <2>3, <2>4
<1>2. Inv /\ [Next]_vars =>
        [\A c \in Consumer : seen'[c] # seen[c] \/ told'[c] # told[c] => Authorized]_vars
  BY <1>1
<1>. QED
  BY <1>2, Invariance, PTL DEF Spec, HoldIsNoWayAround
=============================================================================
